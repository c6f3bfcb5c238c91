----------------------------- MODULE RelationFacts -----------------------------
(***************************************************************************)
(* What the typed relation domains of a world promise: each relates living *)
(* entities only, and a request that its policy forbids changes nothing.   *)
(* How the policy is checked is not seen.                                  *)
(***************************************************************************)
EXTENDS Reachability

CONSTANTS Handles, Domains, Policy

VARIABLES
    living,
    facts,          \* per domain, the pairs it relates
    reply           \* the result of the last request

factVars == <<living, facts, reply>>

FactsInit ==
    /\ living = {}
    /\ facts = [r \in Domains |-> {}]
    /\ reply = "none"

(* A symmetric domain relates a pair both ways.                            *)
Pairs(r, a, b) ==
    IF Policy[r].symmetric THEN {<<a, b>>, <<b, a>>} ELSE {<<a, b>>}

(* A source with one target gets another in place of it.                   *)
Related(r, a, b) ==
    {p \in facts[r] : Policy[r].one => p[1] # a} \union Pairs(r, a, b)

Admissible(r, a, b) ==
    /\ {a, b} \subseteq living
    /\ a = b => Policy[r].reflexive

Relate(r, a, b) ==
    /\ reply' =
         IF ~ Admissible(r, a, b) THEN "invalid"
         ELSE IF <<a, b>> \in facts[r] THEN "unchanged"
         ELSE IF Policy[r].acyclic /\ ~ Acyclic(Related(r, a, b)) THEN "cycle"
         ELSE "changed"
    /\ facts' = IF reply' = "changed"
                THEN [facts EXCEPT ![r] = Related(r, a, b)] ELSE facts
    /\ UNCHANGED living

Unrelate(r, a, b) ==
    /\ reply' = IF ~ Admissible(r, a, b) THEN "invalid"
                ELSE IF <<a, b>> \in facts[r] THEN "changed" ELSE "unchanged"
    /\ facts' = IF reply' = "changed"
                THEN [facts EXCEPT ![r] = @ \ Pairs(r, a, b)] ELSE facts
    /\ UNCHANGED living

Without(r, e) == {p \in facts[r] : e \notin {p[1], p[2]}}

Isolate(r, e) ==
    /\ reply' = IF e \notin living THEN "invalid"
                ELSE IF Without(r, e) = facts[r] THEN "unchanged" ELSE "changed"
    /\ facts' = IF reply' = "changed"
                THEN [facts EXCEPT ![r] = Without(r, e)] ELSE facts
    /\ UNCHANGED living

Arrive(e) ==
    /\ e \notin living
    /\ living' = living \union {e}
    /\ UNCHANGED <<facts, reply>>

Depart(e) ==
    /\ e \in living
    /\ living' = living \ {e}
    /\ facts' = [r \in Domains |-> Without(r, e)]
    /\ UNCHANGED reply

FactsNext ==
    \E a \in Handles :
        \/ Arrive(a) \/ Depart(a)
        \/ \E r \in Domains :
              \/ Isolate(r, a)
              \/ \E b \in Handles : Relate(r, a, b) \/ Unrelate(r, a, b)

FactsSpec == FactsInit /\ [][FactsNext]_factVars

=============================================================================
