------------------------------- MODULE Relations -------------------------------
(***************************************************************************)
(* world/relation.rs: typed relations between entities.                    *)
(*                                                                         *)
(* Every relation type has one store of edges and a policy.  An insertion  *)
(* into a relation that forbids cycles searches the store first; `pending' *)
(* and `visited' are that search.  The caller has the store exclusively,   *)
(* so nothing else happens meanwhile.  A store that was never asked for    *)
(* and an empty one answer alike and are not told apart.                   *)
(*                                                                         *)
(* A store is a graph of the RunenGraph library, here the set of its       *)
(* edges; a symmetric one holds them both ways.                            *)
(***************************************************************************)
EXTENDS EntityAllocator, Reachability

CONSTANTS
    Domains,        \* relation types
    Policy          \* ... and what they declare

PolicyRecord == [symmetric : BOOLEAN, reflexive : BOOLEAN,
                 one : BOOLEAN, acyclic : BOOLEAN]

(* assert_supported_relation_definition: only directed relations may have  *)
(* constraints.                                                            *)
ASSUME PolicyAssumption ==
    /\ Policy \in [Domains -> PolicyRecord]
    /\ \A r \in Domains : Policy[r].symmetric =>
                             ~ Policy[r].one /\ ~ Policy[r].acyclic

VARIABLES
    alive,          \* alive_entities
    edges,          \* relation_stores
    searching,      \* an insertion is searching
    request,        \* ... this one
    pending, visited,
    answer          \* the result of the last call

searchVars == <<searching, request, pending, visited>>
relationVars == <<allocatorVars, alive, edges, searchVars, answer>>

Request == [domain : Domains, first : Entities, second : Entities]
Answers == {"none", "invalid", "unchanged", "changed", "cycle"}

RelationsInit ==
    /\ AllocatorInit
    /\ alive = {}
    /\ edges = [r \in Domains |-> {}]
    /\ searching = FALSE
    /\ request = None
    /\ pending = {}
    /\ visited = {}
    /\ answer = "none"

-----------------------------------------------------------------------------
Exists(e) == Verdict(e) = "ok" /\ e \in alive

(* validate_pair                                                           *)
Valid(r, a, b) ==
    /\ Exists(a)
    /\ Exists(b)
    /\ a = b => Policy[r].reflexive

Edges(r, a, b) ==
    IF Policy[r].symmetric THEN {<<a, b>>, <<b, a>>} ELSE {<<a, b>>}

(* The stored edges with an endpoint e.                                    *)
Incident(r, e) == {p \in edges[r] : e \in {p[1], p[2]}}

(* The previous target of a source-one relation goes, the edge comes.      *)
Establish(r, a, b) ==
    /\ edges' = [edges EXCEPT ![r] =
                   {p \in @ : Policy[r].one => p[1] # a} \union Edges(r, a, b)]
    /\ answer' = "changed"

Reply(value) == answer' = value /\ UNCHANGED edges

EndSearch ==
    /\ searching' = FALSE
    /\ request' = None
    /\ pending' = {}
    /\ visited' = {}

-----------------------------------------------------------------------------
Spawn(e) ==
    /\ ~ searching
    /\ Allocate(e)
    /\ alive' = alive \union {e}
    /\ UNCHANGED <<edges, searchVars, answer>>

(* Mutated: only the edges that leave the entity go.                       *)
DespawnKeepsIncoming(e) ==
    /\ ~ searching
    /\ Exists(e)
    /\ edges' = [r \in Domains |-> {p \in edges[r] : p[1] # e}]
    /\ alive' = alive \ {e}
    /\ Free(e)
    /\ UNCHANGED <<searchVars, answer>>

(* despawn: the entity leaves every store before its handle is freed.      *)
Despawn(e) ==
    /\ ~ searching
    /\ Exists(e)
    /\ edges' = [r \in Domains |-> edges[r] \ Incident(r, e)]
    /\ alive' = alive \ {e}
    /\ Free(e)
    /\ UNCHANGED <<searchVars, answer>>

(* insert: all that is decided without a search.                           *)
InsertAtOnce(r, a, b) ==
    /\ ~ searching
    /\ \/ ~ Valid(r, a, b) /\ Reply("invalid")
       \/ Valid(r, a, b) /\ <<a, b>> \in edges[r] /\ Reply("unchanged")
       \/ /\ Valid(r, a, b)
          /\ <<a, b>> \notin edges[r]
          /\ ~ Policy[r].acyclic
          /\ Establish(r, a, b)
    /\ UNCHANGED <<allocatorVars, alive, searchVars>>

(* Mutated: the previous target goes before the search has decided.        *)
InsertReplacesFirst(r, a, b) ==
    /\ ~ searching
    /\ Valid(r, a, b)
    /\ <<a, b>> \notin edges[r]
    /\ Policy[r].acyclic
    /\ searching' = TRUE
    /\ request' = [domain |-> r, first |-> a, second |-> b]
    /\ pending' = {b}
    /\ visited' = {}
    /\ edges' = [edges EXCEPT ![r] = {p \in @ : Policy[r].one => p[1] # a}]
    /\ UNCHANGED <<allocatorVars, alive, answer>>

(* directed_reaches: does the target reach the source already?             *)
InsertSearches(r, a, b) ==
    /\ ~ searching
    /\ Valid(r, a, b)
    /\ <<a, b>> \notin edges[r]
    /\ Policy[r].acyclic
    /\ searching' = TRUE
    /\ request' = [domain |-> r, first |-> a, second |-> b]
    /\ pending' = {b}
    /\ visited' = {}
    /\ UNCHANGED <<allocatorVars, alive, edges, answer>>

(* Mutated: the targets of a visited entity are not searched.              *)
VisitShallow(e) ==
    /\ searching
    /\ e \in pending
    /\ e # request.first
    /\ visited' = visited \union {e}
    /\ pending' = pending \ {e}
    /\ UNCHANGED <<allocatorVars, alive, edges, searching, request, answer>>

(* One entity is popped.  In which order makes no difference.              *)
Visit(e) ==
    /\ searching
    /\ e \in pending
    /\ e # request.first
    /\ visited' = visited \union {e}
    /\ pending' = (pending \ {e}) \union
         IF e \in visited THEN {}
         ELSE {p[2] : p \in {p \in edges[request.domain] : p[1] = e}}
    /\ UNCHANGED <<allocatorVars, alive, edges, searching, request, answer>>

CycleFound ==
    /\ searching
    /\ request.first \in pending
    /\ Reply("cycle")
    /\ EndSearch
    /\ UNCHANGED <<allocatorVars, alive>>

NoCycleFound ==
    /\ searching
    /\ pending = {}
    /\ Establish(request.domain, request.first, request.second)
    /\ EndSearch
    /\ UNCHANGED <<allocatorVars, alive>>

Remove(r, a, b) ==
    /\ ~ searching
    /\ \/ ~ Valid(r, a, b) /\ Reply("invalid")
       \/ Valid(r, a, b) /\ <<a, b>> \notin edges[r] /\ Reply("unchanged")
       \/ /\ Valid(r, a, b)
          /\ <<a, b>> \in edges[r]
          /\ edges' = [edges EXCEPT ![r] = @ \ Edges(r, a, b)]
          /\ answer' = "changed"
    /\ UNCHANGED <<allocatorVars, alive, searchVars>>

(* clear_entity                                                            *)
Clear(r, e) ==
    /\ ~ searching
    /\ \/ ~ Exists(e) /\ Reply("invalid")
       \/ Exists(e) /\ Incident(r, e) = {} /\ Reply("unchanged")
       \/ /\ Exists(e)
          /\ Incident(r, e) # {}
          /\ edges' = [edges EXCEPT ![r] = @ \ Incident(r, e)]
          /\ answer' = "changed"
    /\ UNCHANGED <<allocatorVars, alive, searchVars>>

RelationsNext ==
    \/ \E e \in Entities : Spawn(e) \/ Despawn(e) \/ Visit(e)
    \/ CycleFound \/ NoCycleFound
    \/ \E r \in Domains, a \in Entities :
          \/ Clear(r, a)
          \/ \E b \in Entities :
                \/ InsertAtOnce(r, a, b)
                \/ InsertSearches(r, a, b)
                \/ Remove(r, a, b)

RelationsSpec == RelationsInit /\ [][RelationsNext]_relationVars

-----------------------------------------------------------------------------
RelationsTypeOK ==
    /\ AllocatorTypeOK
    /\ alive \in SUBSET Entities
    /\ edges \in [Domains -> SUBSET (Entities \X Entities)]
    /\ searching \in BOOLEAN
    /\ request \in IF searching THEN Request ELSE {None}
    /\ pending \in SUBSET Entities
    /\ visited \in SUBSET Entities
    /\ answer \in Answers

(* checked_pair's assertion: no store has an edge of an entity that is not *)
(* alive, so none is inherited by the next entity of a slot.               *)
EdgesBetweenLiving ==
    \A r \in Domains : \A p \in edges[r] : Exists(p[1]) /\ Exists(p[2])

(* A source of a source-one relation has one target, as insert asserts.    *)
OneTargetEach ==
    \A r \in Domains : Policy[r].one =>
        \A p, q \in edges[r] : p[1] = q[1] => p = q

(* A relation that forbids cycles has none, whatever replacements and      *)
(* removals have gone before.                                              *)
NoCycles == \A r \in Domains : Policy[r].acyclic => Acyclic(edges[r])

(* Insertions, removals and despawns are atomic, and refused only when the *)
(* result would break the policy: the cycle search on the edges as they    *)
(* are decides as a test of the edges as they would be.                    *)
Facts == INSTANCE RelationFacts
    WITH Handles <- Entities, living <- alive, facts <- edges, reply <- answer

ImplementsFacts == Facts!FactsSpec

=============================================================================
