---------------------------- MODULE RelationsProofs ----------------------------
(***************************************************************************)
(* The policies of relations, for any number of entities, any relations    *)
(* and any policies they may declare.                                      *)
(*                                                                         *)
(* The search for a cycle is a set of visited entities that only leads to  *)
(* pending ones; when none is pending the visited set is what separates    *)
(* the target from the source, and that is what keeps the edges acyclic.   *)
(***************************************************************************)
EXTENDS Relations, EntityAllocatorProofs

-----------------------------------------------------------------------------
(* Paths.                                                                  *)

(* What is reached from x lies in every set that no edge leaves.           *)
LEMMA ReachesStays ==
    ASSUME NEW E, NEW x, NEW y, Reaches(E, x, y),
           NEW S, x \in S, Closed(E, S)
    PROVE  y \in S
<1> DEFINE T == S \intersect (Ends(E) \union {x, y})
<1>1. \A p \in E : p[1] \in Ends(E) /\ p[2] \in Ends(E)
  BY DEF Ends
<1>2. Closed(E, T)
  BY <1>1 DEF Closed
<1>3. T \in SUBSET (Ends(E) \union {x, y}) /\ x \in T
  OBVIOUS
<1> HIDE DEF T
<1>4. y \in T
  BY <1>2, <1>3 DEF Reaches
<1> QED BY <1>4 DEF T

(* What is not reached from x is kept out by such a set.                   *)
LEMMA NotReachedSeparates ==
    ASSUME NEW E, NEW x, NEW y, ~ Reaches(E, x, y)
    PROVE  \E S : x \in S /\ Closed(E, S) /\ y \notin S
BY DEF Reaches

LEMMA SeparatedNotReached ==
    ASSUME NEW E, NEW x, NEW y, NEW S, x \in S, Closed(E, S), y \notin S
    PROVE  ~ Reaches(E, x, y)
BY ReachesStays

(* Paths have their first entity and go on along edges.                    *)
LEMMA ReachesSelf ==
    ASSUME NEW E, NEW x
    PROVE  Reaches(E, x, x)
BY DEF Reaches

LEMMA ReachesNext ==
    ASSUME NEW E, NEW x, NEW p \in E, Reaches(E, x, p[1])
    PROVE  Reaches(E, x, p[2])
<1> SUFFICES ASSUME NEW S \in SUBSET (Ends(E) \union {x, p[2]}),
                    x \in S, Closed(E, S)
             PROVE  p[2] \in S
  BY DEF Reaches
<1>1. p[1] \in S
  BY ReachesStays
<1> QED BY <1>1 DEF Closed

(* Fewer edges make no cycle.                                              *)
LEMMA FewerAcyclic ==
    ASSUME NEW E, Acyclic(E), NEW F, F \subseteq E
    PROVE  Acyclic(F)
<1> SUFFICES ASSUME NEW p \in F PROVE ~ Reaches(F, p[2], p[1])
  BY DEF Acyclic
<1>1. PICK S : p[2] \in S /\ Closed(E, S) /\ p[1] \notin S
  BY NotReachedSeparates DEF Acyclic
<1>2. Closed(F, S)
  BY <1>1 DEF Closed
<1> QED BY <1>1, <1>2, SeparatedNotReached

(* An edge whose target does not reach its source makes no cycle.          *)
LEMMA EdgeAcyclic ==
    ASSUME NEW E, Acyclic(E), NEW a, NEW b, ~ Reaches(E, b, a)
    PROVE  Acyclic(E \union {<<a, b>>})
<1> DEFINE F == E \union {<<a, b>>}
<1>1. PICK S : b \in S /\ Closed(E, S) /\ a \notin S
  BY NotReachedSeparates
<1>2. ASSUME NEW T, Closed(E, T), a \notin T \/ b \in T
      PROVE  Closed(F, T)
  BY <1>2 DEF Closed
<1> SUFFICES ASSUME NEW p \in F PROVE ~ Reaches(F, p[2], p[1])
  BY DEF Acyclic
<1>3. CASE p = <<a, b>>
  BY <1>1, <1>2, <1>3, SeparatedNotReached
<1>4. CASE p \in E
  <2>1. PICK T : p[2] \in T /\ Closed(E, T) /\ p[1] \notin T
    BY <1>4, NotReachedSeparates DEF Acyclic
  <2>2. CASE a \notin T
    BY <1>2, <2>1, <2>2, SeparatedNotReached
  <2>3. CASE p[1] \notin S
    <3>1. Closed(E, T \union S)
      BY <1>1, <2>1 DEF Closed
    <3>2. Closed(F, T \union S)
      BY <1>1, <1>2, <3>1
    <3> QED BY <2>1, <2>3, <3>2, SeparatedNotReached
  <2>4. CASE p[1] \in S
    <3>1. Closed(E, T \intersect S) /\ p[2] \in T \intersect S
      BY <1>1, <1>4, <2>1, <2>4 DEF Closed
    <3>2. Closed(F, T \intersect S)
      BY <1>1, <1>2, <3>1
    <3> QED BY <2>1, <3>1, <3>2, SeparatedNotReached
  <2> QED BY <2>2, <2>3, <2>4
<1> QED BY <1>3, <1>4

(* An edge whose target reaches its source makes one, whatever other edges *)
(* of the source are taken away.                                           *)
LEMMA EdgeCyclic ==
    ASSUME NEW E, NEW a, NEW b, Reaches(E, b, a),
           NEW F, \A p \in E : p[1] # a => p \in F, <<a, b>> \in F
    PROVE  ~ Acyclic(F)
<1>1. ASSUME NEW S, b \in S, Closed(F, S)
      PROVE  a \in S
  <2> SUFFICES ASSUME a \notin S PROVE FALSE
    OBVIOUS
  <2>1. Closed(E, S)
    BY <1>1 DEF Closed
  <2> QED BY <1>1, <2>1, ReachesStays
<1>2. Reaches(F, b, a)
  BY <1>1 DEF Reaches
<1> QED BY <1>2 DEF Acyclic

-----------------------------------------------------------------------------
(* The inductive invariant.                                                *)

(* The living are those the allocator has handed out and not got back.     *)
AliveByHistory == alive = {e \in Entities : issued[e] > 0 /\ e \notin freed}

EndsAlive ==
    \A r \in Domains : \A p \in edges[r] : p[1] \in alive /\ p[2] \in alive

(* The search is about an insertion still to be decided, has found nothing *)
(* but what the target reaches, and leads from visited entities only to    *)
(* visited and pending ones.                                               *)
SearchSound ==
    searching =>
        /\ request \in Request
        /\ request.first \in alive /\ request.second \in alive
        /\ request.first = request.second => Policy[request.domain].reflexive
        /\ <<request.first, request.second>> \notin edges[request.domain]
        /\ Policy[request.domain].acyclic
        /\ request.second \in visited \union pending
        /\ request.first \notin visited
        /\ \A p \in edges[request.domain] :
              p[1] \in visited => p[2] \in visited \union pending
        /\ \A x \in visited \union pending :
              Reaches(edges[request.domain], request.second, x)

LifeInv == Inductive /\ AliveByHistory
EdgesInv == EndsAlive /\ OneTargetEach /\ NoCycles

RelationsInductive == RelationsTypeOK /\ LifeInv /\ EdgesInv /\ SearchSound

(* An entity exists, as a request checks it, when it is alive.             *)
LEMMA ExistsMeansAlive ==
    ASSUME LifeInv, NEW e \in Entities
    PROVE  Exists(e) <=> e \in alive
<1>1. Verdict(e) = "ok" <=> (issued[e] > 0 /\ e \notin freed)
  BY ValidByHistory DEF LifeInv, ValidWhileAlive
<1> QED BY <1>1 DEF Exists, LifeInv, AliveByHistory

LEMMA ValidMeans ==
    ASSUME LifeInv, NEW r \in Domains, NEW a \in Entities, NEW b \in Entities
    PROVE  Valid(r, a, b) <=>
              /\ a \in alive /\ b \in alive
              /\ a = b => Policy[r].reflexive
BY ExistsMeansAlive DEF Valid

-----------------------------------------------------------------------------
(* Life.                                                                   *)

LEMMA LifeUnchanged ==
    ASSUME LifeInv, UNCHANGED <<allocatorVars, alive>>
    PROVE  LifeInv'
BY StutterKeeps DEF LifeInv, AliveByHistory, allocatorVars

(* A spawned entity was not alive before, and is now.                      *)
LEMMA SpawnLife ==
    ASSUME LifeInv, NEW e \in Entities, Spawn(e)
    PROVE  LifeInv' /\ e \notin alive
<1>1. Inductive'
  BY AllocateKeeps DEF LifeInv, Spawn
<1>2. issued' = [issued EXCEPT ![e] = @ + 1] /\ freed' = freed
  BY DEF Spawn, Allocate
<1>3. issued \in [Entities -> Nat]
  BY DEF LifeInv, Inductive, AllocatorTypeOK
<1>4. issued'[e] <= 1
  BY <1>1 DEF Inductive, History
<1>5. issued[e] = 0
  BY <1>2, <1>3, <1>4
<1>6. e \notin freed
  <2>1. ~ HandedOut(e)
    BY <1>5 DEF LifeInv, Inductive, History
  <2>2. ~ WasFreed(e)
    BY <2>1 DEF HandedOut, WasFreed
  <2> QED BY <2>2 DEF LifeInv, Inductive, History
<1>7. e \notin alive
  BY <1>5 DEF LifeInv, AliveByHistory
<1>8. alive' = alive \union {e}
  BY DEF Spawn
<1>9. AliveByHistory'
  <2>1. ASSUME NEW f \in Entities
        PROVE  f \in alive' <=> (issued'[f] > 0 /\ f \notin freed')
    <3>1. CASE f = e
      BY <1>2, <1>3, <1>5, <1>6, <1>8, <3>1
    <3>2. CASE f # e
      BY <1>2, <1>3, <1>8, <3>2 DEF LifeInv, AliveByHistory
    <3> QED BY <3>1, <3>2
  <2>2. alive' \subseteq Entities
    BY <1>8 DEF LifeInv, AliveByHistory
  <2> QED BY <2>1, <2>2 DEF AliveByHistory
<1> QED BY <1>1, <1>7, <1>9 DEF LifeInv

LEMMA DespawnLife ==
    ASSUME LifeInv, NEW e \in Entities, Despawn(e)
    PROVE  LifeInv' /\ e \in alive
<1>1. Inductive'
  BY FreeKeeps DEF LifeInv, Despawn
<1>2. issued' = issued /\ freed' = freed \union {e} /\ alive' = alive \ {e}
  BY DEF Despawn, Free
<1>3. AliveByHistory'
  BY <1>2 DEF LifeInv, AliveByHistory
<1> QED BY <1>1, <1>3, ExistsMeansAlive DEF LifeInv, Despawn

-----------------------------------------------------------------------------
(* Edges.                                                                  *)

(* Taking edges away breaks no policy.                                     *)
LEMMA FewerEdges ==
    ASSUME OneTargetEach, NoCycles,
           \A r \in Domains : edges'[r] \subseteq edges[r]
    PROVE  OneTargetEach' /\ NoCycles'
BY FewerAcyclic DEF OneTargetEach, NoCycles

LEMMA EdgesUnchanged ==
    ASSUME EdgesInv, UNCHANGED <<edges, alive>>
    PROVE  EdgesInv'
BY DEF EdgesInv, EndsAlive, OneTargetEach, NoCycles

(* An admissible edge breaks none.                                         *)
LEMMA EstablishKeeps ==
    ASSUME RelationsTypeOK, EdgesInv, alive' = alive,
           NEW r \in Domains, NEW a \in alive, NEW b \in alive,
           Policy[r].acyclic => ~ Reaches(edges[r], b, a),
           Establish(r, a, b)
    PROVE  EdgesInv' /\ edges' \in [Domains -> SUBSET (Entities \X Entities)]
<1> DEFINE kept == {p \in edges[r] : Policy[r].one => p[1] # a}
           new == kept \union Edges(r, a, b)
<1> USE PolicyAssumption
<1>1. /\ edges \in [Domains -> SUBSET (Entities \X Entities)]
      /\ a \in Entities /\ b \in Entities
  BY DEF RelationsTypeOK
<1>2. edges' = [edges EXCEPT ![r] = new]
  BY DEF Establish
<1>3. Edges(r, a, b) \subseteq {<<a, b>>, <<b, a>>}
  BY DEF Edges
<1>4. Policy[r].one \/ Policy[r].acyclic => Edges(r, a, b) = {<<a, b>>}
  BY DEF Edges, PolicyRecord
<1> HIDE DEF new
<1>5. edges'[r] = new /\ \A s \in Domains : s # r => edges'[s] = edges[s]
  BY <1>1, <1>2
<1> USE DEF new
<1>6. edges' \in [Domains -> SUBSET (Entities \X Entities)]
  <2>1. new \in SUBSET (Entities \X Entities)
    BY <1>1, <1>3
  <2> HIDE DEF new
  <2> QED BY <1>1, <1>2, <2>1
<1>7. EndsAlive'
  <2>1. \A p \in new : p[1] \in alive /\ p[2] \in alive
    BY <1>3 DEF EdgesInv, EndsAlive
  <2> HIDE DEF new
  <2> QED BY <1>5, <2>1 DEF EdgesInv, EndsAlive
<1>8. OneTargetEach'
  <2>1. ASSUME Policy[r].one, NEW p \in new, NEW q \in new, p[1] = q[1]
        PROVE  p = q
    <3>1. \A x \in new : x[1] = a => x = <<a, b>>
      BY <1>4, <2>1
    <3>2. CASE p[1] = a
      BY <2>1, <3>1, <3>2
    <3>3. CASE p[1] # a
      BY <1>4, <2>1, <3>3 DEF EdgesInv, OneTargetEach
    <3> QED BY <3>2, <3>3
  <2> HIDE DEF new
  <2> QED BY <1>5, <2>1 DEF EdgesInv, OneTargetEach
<1>9. NoCycles'
  <2>1. ASSUME Policy[r].acyclic
        PROVE  Acyclic(new)
    <3>1. Acyclic(edges[r] \union {<<a, b>>})
      BY <2>1, EdgeAcyclic DEF EdgesInv, NoCycles
    <3>2. new \subseteq edges[r] \union {<<a, b>>}
      BY <1>4, <2>1
    <3> QED BY <3>1, <3>2, FewerAcyclic
  <2> HIDE DEF new
  <2> QED BY <1>5, <2>1 DEF EdgesInv, NoCycles
<1> QED BY <1>6, <1>7, <1>8, <1>9 DEF EdgesInv

-----------------------------------------------------------------------------
(* Every action keeps the invariant.                                       *)

LEMMA RelationsAtFirst == RelationsInit => RelationsInductive
<1> SUFFICES ASSUME RelationsInit PROVE RelationsInductive
  OBVIOUS
<1> USE DEF RelationsInit
<1>1. Inductive
  BY InductiveAtFirst
<1>2. RelationsTypeOK
  BY <1>1 DEF RelationsTypeOK, Inductive, Answers
<1>3. AliveByHistory
  <2>1. \A e \in Entities : issued[e] = 0
    BY DEF AllocatorInit
  <2> QED BY <2>1 DEF AliveByHistory
<1>4. Acyclic({})
  BY DEF Acyclic
<1>5. EdgesInv
  BY <1>4 DEF EdgesInv, EndsAlive, OneTargetEach, NoCycles
<1> QED BY <1>1, <1>2, <1>3, <1>5 DEF RelationsInductive, LifeInv, SearchSound

(* Without a search there is nothing to be sound.                          *)
LEMMA NoSearch ==
    ASSUME RelationsTypeOK, ~ searching, UNCHANGED searchVars
    PROVE  /\ SearchSound'
           /\ searching' \in BOOLEAN
           /\ request' \in IF searching' THEN Request ELSE {None}
           /\ pending' \in SUBSET Entities /\ visited' \in SUBSET Entities
BY DEF RelationsTypeOK, SearchSound, searchVars

LEMMA SpawnKeeps ==
    ASSUME RelationsInductive, NEW e \in Entities, Spawn(e)
    PROVE  RelationsInductive'
<1> USE DEF RelationsInductive
<1>1. LifeInv' /\ alive' = alive \union {e}
  BY SpawnLife DEF Spawn
<1>2. edges' = edges /\ answer' = answer /\ UNCHANGED searchVars /\ ~ searching
  BY DEF Spawn
<1>3. EdgesInv'
  BY <1>1, <1>2 DEF EdgesInv, EndsAlive, OneTargetEach, NoCycles
<1>4. RelationsTypeOK'
  BY <1>1, <1>2, NoSearch DEF RelationsTypeOK, LifeInv, Inductive
<1> QED BY <1>1, <1>2, <1>3, <1>4, NoSearch

LEMMA DespawnKeeps ==
    ASSUME RelationsInductive, NEW e \in Entities, Despawn(e)
    PROVE  RelationsInductive'
<1> USE DEF RelationsInductive
<1>1. LifeInv' /\ alive' = alive \ {e}
  BY DespawnLife DEF Despawn
<1>2. answer' = answer /\ UNCHANGED searchVars /\ ~ searching
  BY DEF Despawn
<1>3. edges' = [r \in Domains |-> edges[r] \ Incident(r, e)]
  BY DEF Despawn
<1>4. \A r \in Domains : edges'[r] \subseteq edges[r]
  BY <1>3
<1>5. EndsAlive'
  BY <1>1, <1>3 DEF EdgesInv, EndsAlive, Incident
<1>6. EdgesInv'
  BY <1>4, <1>5, FewerEdges DEF EdgesInv
<1>7. RelationsTypeOK'
  BY <1>1, <1>2, <1>3, NoSearch DEF RelationsTypeOK, LifeInv, Inductive
<1> QED BY <1>1, <1>2, <1>6, <1>7, NoSearch

(* A call that ends at once and at most takes edges away.                  *)
LEMMA TakingKeeps ==
    ASSUME RelationsInductive, ~ searching,
           UNCHANGED <<allocatorVars, alive, searchVars>>, answer' \in Answers,
           NEW r \in Domains, NEW F \in SUBSET edges[r],
           edges' = edges \/ edges' = [edges EXCEPT ![r] = F]
    PROVE  RelationsInductive'
<1> USE DEF RelationsInductive
<1>1. LifeInv'
  BY LifeUnchanged
<1>2. edges \in [Domains -> SUBSET (Entities \X Entities)]
  BY DEF RelationsTypeOK
<1>3. /\ \A s \in Domains : edges'[s] \subseteq edges[s]
      /\ edges' \in [Domains -> SUBSET (Entities \X Entities)]
  BY <1>2
<1>4. EndsAlive'
  BY <1>3 DEF EdgesInv, EndsAlive
<1>5. EdgesInv'
  BY <1>3, <1>4, FewerEdges DEF EdgesInv
<1>6. RelationsTypeOK'
  BY <1>1, <1>3, NoSearch DEF RelationsTypeOK, LifeInv, Inductive
<1> QED BY <1>1, <1>5, <1>6, NoSearch

LEMMA InsertAtOnceKeeps ==
    ASSUME RelationsInductive, NEW r \in Domains, NEW a \in Entities,
           NEW b \in Entities, InsertAtOnce(r, a, b)
    PROVE  RelationsInductive'
<1> USE DEF RelationsInductive
<1>1. ~ searching /\ UNCHANGED <<allocatorVars, alive, searchVars>>
  BY DEF InsertAtOnce
<1>2. CASE Reply("invalid") \/ Reply("unchanged")
  <2>1. edges' = edges /\ answer' \in Answers
    BY <1>2 DEF Reply, Answers
  <2> QED BY <1>1, <2>1, TakingKeeps
<1>3. CASE Valid(r, a, b) /\ ~ Policy[r].acyclic /\ Establish(r, a, b)
  <2>1. a \in alive /\ b \in alive
    BY <1>3, ValidMeans
  <2>2. EdgesInv' /\ edges' \in [Domains -> SUBSET (Entities \X Entities)]
    BY <1>1, <1>3, <2>1, EstablishKeeps
  <2>3. LifeInv' /\ answer' \in Answers
    BY <1>1, <1>3, LifeUnchanged DEF Establish, Answers
  <2>4. RelationsTypeOK'
    BY <1>1, <2>2, <2>3, NoSearch DEF RelationsTypeOK, LifeInv, Inductive
  <2> QED BY <1>1, <2>2, <2>3, <2>4, NoSearch
<1> QED BY <1>2, <1>3 DEF InsertAtOnce

(* A search starts at the target, with nothing visited.                    *)
LEMMA InsertSearchesKeeps ==
    ASSUME RelationsInductive, NEW r \in Domains, NEW a \in Entities,
           NEW b \in Entities, InsertSearches(r, a, b)
    PROVE  RelationsInductive'
<1> USE DEF RelationsInductive
<1>1. /\ UNCHANGED <<allocatorVars, alive>> /\ edges' = edges /\ answer' = answer
      /\ searching' = TRUE
      /\ request' = [domain |-> r, first |-> a, second |-> b]
      /\ pending' = {b} /\ visited' = {}
      /\ Valid(r, a, b) /\ Policy[r].acyclic /\ <<a, b>> \notin edges[r]
  BY DEF InsertSearches
<1>2. LifeInv' /\ EdgesInv'
  BY <1>1, LifeUnchanged, EdgesUnchanged
<1>3. request' \in Request
  BY <1>1 DEF Request
<1>4. RelationsTypeOK'
  BY <1>1, <1>2, <1>3 DEF RelationsTypeOK, LifeInv, Inductive
<1>5. a \in alive /\ b \in alive /\ (a = b => Policy[r].reflexive)
  BY <1>1, ValidMeans
<1>6. Reaches(edges[r], b, b)
  BY ReachesSelf
<1>7. SearchSound'
  BY <1>1, <1>3, <1>5, <1>6 DEF SearchSound
<1> QED BY <1>2, <1>4, <1>7

LEMMA VisitKeeps ==
    ASSUME RelationsInductive, NEW e \in Entities, Visit(e)
    PROVE  RelationsInductive'
<1> USE DEF RelationsInductive
<1> DEFINE E == edges[request.domain]
           targets == {p[2] : p \in {p \in E : p[1] = e}}
<1>1. /\ UNCHANGED <<allocatorVars, alive>> /\ edges' = edges /\ answer' = answer
      /\ searching' = searching /\ request' = request /\ searching
      /\ e \in pending /\ e # request.first
      /\ visited' = visited \union {e}
      /\ pending' = (pending \ {e}) \union IF e \in visited THEN {} ELSE targets
  BY DEF Visit
<1>2. LifeInv' /\ EdgesInv'
  BY <1>1, LifeUnchanged, EdgesUnchanged
<1>3. request \in Request /\ request.domain \in Domains
  BY <1>1 DEF RelationsTypeOK, Request
<1>4. targets \subseteq Entities
  BY <1>3 DEF RelationsTypeOK
<1> HIDE DEF targets
<1>5. RelationsTypeOK'
  BY <1>1, <1>2, <1>4 DEF RelationsTypeOK, LifeInv, Inductive
<1> USE DEF targets
<1>6. ASSUME NEW p \in E, p[1] \in visited'
      PROVE  p[2] \in visited' \union pending'
  <2>1. CASE p[1] \in visited
    BY <1>1, <2>1 DEF SearchSound
  <2>2. CASE p[1] = e /\ e \notin visited
    BY <1>1, <2>2
  <2> QED BY <1>1, <1>6, <2>1, <2>2
<1>7. ASSUME NEW x \in visited' \union pending'
      PROVE  Reaches(E, request.second, x)
  <2>1. CASE x \in visited \union pending
    BY <1>1, <2>1 DEF SearchSound
  <2>2. CASE x \in targets
    <3>1. PICK p \in E : p[1] = e /\ x = p[2]
      BY <2>2
    <3>2. Reaches(E, request.second, e)
      BY <1>1 DEF SearchSound
    <3> QED BY <3>1, <3>2, ReachesNext
  <2> QED BY <1>1, <1>7, <2>1, <2>2
<1> HIDE DEF targets
<1>8. /\ request.second \in visited' \union pending'
      /\ request.first \notin visited'
  BY <1>1 DEF SearchSound
<1>9. SearchSound'
  BY <1>1, <1>6, <1>7, <1>8 DEF SearchSound
<1> QED BY <1>2, <1>5, <1>9

(* When the search has ended, the typing of what is left of it.            *)
LEMMA SearchEnds ==
    ASSUME EndSearch
    PROVE  /\ SearchSound'
           /\ searching' \in BOOLEAN
           /\ request' \in IF searching' THEN Request ELSE {None}
           /\ pending' \in SUBSET Entities /\ visited' \in SUBSET Entities
BY DEF EndSearch, SearchSound

LEMMA CycleFoundKeeps ==
    ASSUME RelationsInductive, CycleFound
    PROVE  RelationsInductive'
<1> USE DEF RelationsInductive
<1>1. /\ UNCHANGED <<allocatorVars, alive>> /\ edges' = edges
      /\ answer' \in Answers /\ EndSearch
  BY DEF CycleFound, Reply, Answers
<1>2. LifeInv' /\ EdgesInv'
  BY <1>1, LifeUnchanged, EdgesUnchanged
<1>3. RelationsTypeOK'
  BY <1>1, <1>2, SearchEnds DEF RelationsTypeOK, LifeInv, Inductive
<1> QED BY <1>1, <1>2, <1>3, SearchEnds

(* The verdict of the search, either way.                                  *)
LEMMA SearchDecides ==
    ASSUME RelationsInductive, searching
    PROVE  /\ pending = {} =>
                 ~ Reaches(edges[request.domain], request.second, request.first)
           /\ request.first \in pending =>
                 Reaches(edges[request.domain], request.second, request.first)
<1> USE DEF RelationsInductive
<1>1. ASSUME pending = {}
      PROVE  ~ Reaches(edges[request.domain], request.second, request.first)
  <2>1. Closed(edges[request.domain], visited)
    BY <1>1 DEF SearchSound, Closed
  <2> QED BY <1>1, <2>1, SeparatedNotReached DEF SearchSound
<1> QED BY <1>1 DEF SearchSound

LEMMA NoCycleFoundKeeps ==
    ASSUME RelationsInductive, NoCycleFound
    PROVE  RelationsInductive'
<1> USE DEF RelationsInductive
<1> DEFINE r == request.domain
           a == request.first
           b == request.second
<1>1. /\ UNCHANGED <<allocatorVars, alive>> /\ EndSearch /\ searching
      /\ pending = {} /\ Establish(r, a, b)
  BY DEF NoCycleFound
<1>2. r \in Domains /\ a \in alive /\ b \in alive
  BY <1>1 DEF SearchSound, Request
<1>3. ~ Reaches(edges[r], b, a)
  BY <1>1, SearchDecides
<1> HIDE DEF r, a, b
<1>4. EdgesInv' /\ edges' \in [Domains -> SUBSET (Entities \X Entities)]
  BY <1>1, <1>2, <1>3, EstablishKeeps
<1>5. LifeInv' /\ answer' \in Answers
  BY <1>1, LifeUnchanged DEF Establish, Answers
<1>6. RelationsTypeOK'
  BY <1>1, <1>4, <1>5, SearchEnds DEF RelationsTypeOK, LifeInv, Inductive
<1> QED BY <1>1, <1>4, <1>5, <1>6, SearchEnds

LEMMA RemoveKeeps ==
    ASSUME RelationsInductive, NEW r \in Domains, NEW a \in Entities,
           NEW b \in Entities, Remove(r, a, b)
    PROVE  RelationsInductive'
<1>1. ~ searching /\ UNCHANGED <<allocatorVars, alive, searchVars>>
  BY DEF Remove
<1>2. /\ edges' = edges \/ edges' = [edges EXCEPT ![r] = edges[r] \ Edges(r, a, b)]
      /\ answer' \in Answers
  BY DEF Remove, Reply, Answers
<1>3. edges[r] \ Edges(r, a, b) \in SUBSET edges[r]
  OBVIOUS
<1> QED BY <1>1, <1>2, <1>3, TakingKeeps

LEMMA ClearKeeps ==
    ASSUME RelationsInductive, NEW r \in Domains, NEW e \in Entities, Clear(r, e)
    PROVE  RelationsInductive'
<1>1. ~ searching /\ UNCHANGED <<allocatorVars, alive, searchVars>>
  BY DEF Clear
<1>2. /\ edges' = edges \/ edges' = [edges EXCEPT ![r] = edges[r] \ Incident(r, e)]
      /\ answer' \in Answers
  BY DEF Clear, Reply, Answers
<1>3. edges[r] \ Incident(r, e) \in SUBSET edges[r]
  OBVIOUS
<1> QED BY <1>1, <1>2, <1>3, TakingKeeps

LEMMA RelationsStutterKeeps ==
    ASSUME RelationsInductive, UNCHANGED relationVars
    PROVE  RelationsInductive'
<1> USE DEF RelationsInductive, relationVars
<1>1. LifeInv' /\ EdgesInv'
  BY LifeUnchanged, EdgesUnchanged
<1>2. RelationsTypeOK'
  BY <1>1 DEF RelationsTypeOK, LifeInv, Inductive, searchVars
<1>3. SearchSound'
  BY DEF SearchSound, searchVars
<1> QED BY <1>1, <1>2, <1>3

(* The search, the policies and the living, in every reachable state.      *)
THEOREM RelationsInvariant == RelationsSpec => []RelationsInductive
<1>1. ASSUME RelationsInductive, [RelationsNext]_relationVars
      PROVE  RelationsInductive'
  BY <1>1, SpawnKeeps, DespawnKeeps, VisitKeeps, CycleFoundKeeps,
     NoCycleFoundKeeps, ClearKeeps, InsertAtOnceKeeps, InsertSearchesKeeps,
     RemoveKeeps, RelationsStutterKeeps DEF RelationsNext
<1> QED BY <1>1, RelationsAtFirst, PTL DEF RelationsSpec

-----------------------------------------------------------------------------
(* Every variable of the relation stores keeps its type.                   *)
THEOREM RelationsTypes == RelationsSpec => []RelationsTypeOK
<1>1. RelationsInductive => RelationsTypeOK
  BY DEF RelationsInductive
<1> QED BY <1>1, RelationsInvariant, PTL

(* No edge outlives an endpoint, however slots are reused.                 *)
THEOREM LivingEdges == RelationsSpec => []EdgesBetweenLiving
<1>1. ASSUME RelationsInductive PROVE EdgesBetweenLiving
  <2> SUFFICES ASSUME NEW r \in Domains, NEW p \in edges[r]
               PROVE  Exists(p[1]) /\ Exists(p[2])
    BY DEF EdgesBetweenLiving
  <2>1. p[1] \in alive /\ p[2] \in alive
    BY <1>1 DEF RelationsInductive, EdgesInv, EndsAlive
  <2>2. alive \subseteq Entities
    BY <1>1 DEF RelationsInductive, RelationsTypeOK
  <2> QED BY <1>1, <2>1, <2>2, ExistsMeansAlive DEF RelationsInductive
<1> QED BY <1>1, RelationsInvariant, PTL

(* A source-one relation never has two targets for a source.               *)
THEOREM SingleTarget == RelationsSpec => []OneTargetEach
<1>1. RelationsInductive => OneTargetEach
  BY DEF RelationsInductive, EdgesInv
<1> QED BY <1>1, RelationsInvariant, PTL

(* A relation that forbids cycles never has one.                           *)
THEOREM CycleFree == RelationsSpec => []NoCycles
<1>1. RelationsInductive => NoCycles
  BY DEF RelationsInductive, EdgesInv
<1> QED BY <1>1, RelationsInvariant, PTL

-----------------------------------------------------------------------------
(* What a step does is one request, or nothing, of the abstract domains.   *)

LEMMA SameAcyclic ==
    ASSUME NEW E
    PROVE  Facts!Acyclic(E) <=> Acyclic(E)
BY DEF Acyclic, Reaches, Closed, Ends,
       Facts!Acyclic, Facts!Reaches, Facts!Closed, Facts!Ends

LEMMA RequestAdmissible ==
    ASSUME LifeInv, NEW r \in Domains, NEW a \in Entities, NEW b \in Entities
    PROVE  Valid(r, a, b) <=> Facts!Admissible(r, a, b)
BY ValidMeans DEF Facts!Admissible

LEMMA SpawnArrives ==
    ASSUME RelationsInductive, NEW e \in Entities, Spawn(e)
    PROVE  Facts!Arrive(e)
BY SpawnLife DEF RelationsInductive, Spawn, Facts!Arrive

LEMMA DespawnDeparts ==
    ASSUME RelationsInductive, NEW e \in Entities, Despawn(e)
    PROVE  Facts!Depart(e)
<1>1. e \in alive /\ alive' = alive \ {e} /\ answer' = answer
  BY DespawnLife DEF RelationsInductive, Despawn
<1>2. \A r \in Domains : edges[r] \ Incident(r, e) = Facts!Without(r, e)
  BY DEF Incident, Facts!Without
<1>3. edges' = [r \in Domains |-> Facts!Without(r, e)]
  BY <1>2 DEF Despawn
<1> QED BY <1>1, <1>3 DEF Facts!Depart

LEMMA InsertAtOnceRelates ==
    ASSUME RelationsInductive, NEW r \in Domains, NEW a \in Entities,
           NEW b \in Entities, InsertAtOnce(r, a, b)
    PROVE  Facts!Relate(r, a, b)
<1>1. Valid(r, a, b) <=> Facts!Admissible(r, a, b)
  BY RequestAdmissible DEF RelationsInductive
<1>2. alive' = alive
  BY DEF InsertAtOnce
<1>3. CASE ~ Valid(r, a, b) /\ Reply("invalid")
  BY <1>1, <1>2, <1>3 DEF Reply, Facts!Relate
<1>4. CASE Valid(r, a, b) /\ <<a, b>> \in edges[r] /\ Reply("unchanged")
  BY <1>1, <1>2, <1>4 DEF Reply, Facts!Relate
<1>5. CASE /\ Valid(r, a, b) /\ <<a, b>> \notin edges[r]
           /\ ~ Policy[r].acyclic /\ Establish(r, a, b)
  <2>1. answer' = "changed" /\ edges' = [edges EXCEPT ![r] = Facts!Related(r, a, b)]
    BY <1>5 DEF Establish, Edges, Facts!Related, Facts!Pairs
  <2> QED BY <1>1, <1>2, <1>5, <2>1 DEF Facts!Relate
<1> QED BY <1>3, <1>4, <1>5 DEF InsertAtOnce

(* The request being searched for is admissible, and new.                  *)
LEMMA SearchedRequest ==
    ASSUME RelationsInductive, searching
    PROVE  /\ request.domain \in Domains
           /\ request.first \in Entities /\ request.second \in Entities
           /\ Facts!Admissible(request.domain, request.first, request.second)
           /\ <<request.first, request.second>> \notin edges[request.domain]
           /\ Policy[request.domain].acyclic
           /\ Policy[request.domain].symmetric = FALSE
<1> USE DEF RelationsInductive
<1>1. request \in Request
  BY DEF SearchSound
<1>2. Policy[request.domain].acyclic
  BY DEF SearchSound
<1>3. Policy[request.domain].symmetric = FALSE
  BY <1>1, <1>2, PolicyAssumption DEF Request, PolicyRecord
<1> QED BY <1>1, <1>2, <1>3 DEF SearchSound, Request, Facts!Admissible

LEMMA CycleFoundRelates ==
    ASSUME RelationsInductive, CycleFound
    PROVE  Facts!Relate(request.domain, request.first, request.second)
<1> DEFINE r == request.domain
           a == request.first
           b == request.second
           F == Facts!Related(r, a, b)
<1>1. searching /\ alive' = alive /\ edges' = edges /\ answer' = "cycle"
  BY DEF CycleFound, Reply
<1>2. Reaches(edges[r], b, a)
  BY <1>1, SearchDecides DEF CycleFound
<1>3. (\A p \in edges[r] : p[1] # a => p \in F) /\ <<a, b>> \in F
  BY DEF Facts!Related, Facts!Pairs
<1>4. ~ Acyclic(F)
  <2> HIDE DEF F, r, a, b
  <2> QED BY <1>2, <1>3, EdgeCyclic
<1> QED BY <1>1, <1>4, SearchedRequest, SameAcyclic DEF Facts!Relate

LEMMA NoCycleFoundRelates ==
    ASSUME RelationsInductive, NoCycleFound
    PROVE  Facts!Relate(request.domain, request.first, request.second)
<1> DEFINE r == request.domain
           a == request.first
           b == request.second
           F == Facts!Related(r, a, b)
<1>1. searching /\ alive' = alive /\ pending = {} /\ Establish(r, a, b)
  BY DEF NoCycleFound
<1>2. answer' = "changed" /\ edges' = [edges EXCEPT ![r] = F]
  BY <1>1 DEF Establish, Edges, Facts!Related, Facts!Pairs
<1>3. Acyclic(edges[r]) /\ ~ Reaches(edges[r], b, a)
  BY <1>1, SearchDecides, SearchedRequest
     DEF RelationsInductive, EdgesInv, NoCycles
<1>4. F \subseteq edges[r] \union {<<a, b>>}
  BY <1>1, SearchedRequest DEF Facts!Related, Facts!Pairs
<1>5. Acyclic(F)
  <2> HIDE DEF F, r, a, b
  <2>1. Acyclic(edges[r] \union {<<a, b>>})
    BY <1>3, EdgeAcyclic
  <2> QED BY <1>4, <2>1, FewerAcyclic
<1> QED BY <1>1, <1>2, <1>5, SearchedRequest, SameAcyclic DEF Facts!Relate

LEMMA RemoveUnrelates ==
    ASSUME RelationsInductive, NEW r \in Domains, NEW a \in Entities,
           NEW b \in Entities, Remove(r, a, b)
    PROVE  Facts!Unrelate(r, a, b)
<1>1. Valid(r, a, b) <=> Facts!Admissible(r, a, b)
  BY RequestAdmissible DEF RelationsInductive
<1>2. Edges(r, a, b) = Facts!Pairs(r, a, b)
  BY DEF Edges, Facts!Pairs
<1> QED BY <1>1, <1>2 DEF Remove, Reply, Facts!Unrelate

LEMMA ClearIsolates ==
    ASSUME RelationsInductive, NEW r \in Domains, NEW e \in Entities, Clear(r, e)
    PROVE  Facts!Isolate(r, e)
<1>1. Exists(e) <=> e \in alive
  BY ExistsMeansAlive DEF RelationsInductive
<1>2. edges[r] \ Incident(r, e) = Facts!Without(r, e)
  BY DEF Incident, Facts!Without
<1>3. Incident(r, e) = {} <=> Facts!Without(r, e) = edges[r]
  BY DEF Incident, Facts!Without
<1> QED BY <1>1, <1>2, <1>3 DEF Clear, Reply, Facts!Isolate

(* Every relation request is atomic, and refused exactly when the policy   *)
(* forbids its result: the search of the stored edges and the despawn's    *)
(* cleaning of every store implement the domains of RelationFacts.         *)
THEOREM RelationsImplementFacts == RelationsSpec => ImplementsFacts
<1>1. RelationsInit => Facts!FactsInit
  BY DEF RelationsInit, Facts!FactsInit
<1>2. ASSUME RelationsInductive, [RelationsNext]_relationVars
      PROVE  [Facts!FactsNext]_Facts!factVars
  <2> USE <1>2
  <2>1. ASSUME NEW e \in Entities, Spawn(e) PROVE Facts!FactsNext
    BY <2>1, SpawnArrives DEF Facts!FactsNext
  <2>2. ASSUME NEW e \in Entities, Despawn(e) PROVE Facts!FactsNext
    BY <2>2, DespawnDeparts DEF Facts!FactsNext
  <2>3. ASSUME NEW e \in Entities, Visit(e) PROVE UNCHANGED Facts!factVars
    BY <2>3 DEF Visit, Facts!factVars
  <2>4. CASE CycleFound
    <3>1. searching
      BY <2>4 DEF CycleFound
    <3> QED BY <2>4, <3>1, CycleFoundRelates, SearchedRequest DEF Facts!FactsNext
  <2>5. CASE NoCycleFound
    <3>1. searching
      BY <2>5 DEF NoCycleFound
    <3> QED BY <2>5, <3>1, NoCycleFoundRelates, SearchedRequest DEF Facts!FactsNext
  <2>6. ASSUME NEW r \in Domains, NEW a \in Entities, Clear(r, a)
        PROVE  Facts!FactsNext
    BY <2>6, ClearIsolates DEF Facts!FactsNext
  <2>7. ASSUME NEW r \in Domains, NEW a \in Entities, NEW b \in Entities,
               InsertAtOnce(r, a, b)
        PROVE  Facts!FactsNext
    BY <2>7, InsertAtOnceRelates DEF Facts!FactsNext
  <2>8. ASSUME NEW r \in Domains, NEW a \in Entities, NEW b \in Entities,
               InsertSearches(r, a, b)
        PROVE  UNCHANGED Facts!factVars
    BY <2>8 DEF InsertSearches, Facts!factVars
  <2>9. ASSUME NEW r \in Domains, NEW a \in Entities, NEW b \in Entities,
               Remove(r, a, b)
        PROVE  Facts!FactsNext
    BY <2>9, RemoveUnrelates DEF Facts!FactsNext
  <2>10. CASE UNCHANGED relationVars
    BY <2>10 DEF relationVars, Facts!factVars
  <2> QED
    BY <2>1, <2>2, <2>3, <2>4, <2>5, <2>6, <2>7, <2>8, <2>9, <2>10 DEF RelationsNext
<1> QED BY <1>1, <1>2, RelationsInvariant, PTL
        DEF RelationsSpec, ImplementsFacts, Facts!FactsSpec

=============================================================================
