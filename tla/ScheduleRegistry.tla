---------------------------- MODULE ScheduleRegistry ----------------------------
(***************************************************************************)
(* scheduler/plan.rs and Runtime: registration of systems and the plans    *)
(* kept from one build to the next.                                        *)
(*                                                                         *)
(* Registering marks the registry dirty; validating, inspecting or running *)
(* a schedule rebuilds the plans of all schedules first if it is.  A build *)
(* that fails leaves the old plans and the mark.  A plan is reduced to     *)
(* scheduled_system_indices, the positions of its systems in the registry; *)
(* how a plan is made from them is SchedulePlan's subject, and Plannable   *)
(* stands for its verdict.                                                 *)
(***************************************************************************)
EXTENDS RegisteredSystems

ASSUME RegistryAssumption ==
    /\ IdentityMax \in Nat \ {0}
    /\ Requests \subseteq Seq(Kinds \union {Refused}) \ {<<>>}
    /\ Refused \notin Kinds
    /\ \A K \in SUBSET Kinds : Plannable(K) \in BOOLEAN

None == 0           \* of Option<NonZeroU64>

VARIABLES nextId, plans, dirty

registryVars == <<registered, nextId, plans, dirty, answer>>

RegistryInit ==
    /\ RegistrationInit
    /\ nextId = 1
    /\ plans = [l \in {} |-> {}]
    /\ dirty = TRUE

-----------------------------------------------------------------------------
(* Mutated: identities start again after the largest.                      *)
IdentityWraps(k) == IF nextId + k > IdentityMax THEN 1 ELSE nextId + k

(* The identity k places after the next one, if there is one.              *)
Identity(k) ==
    IF nextId = None \/ nextId + k > IdentityMax THEN None ELSE nextId + k

(* Identities are claimed for a whole call before one is assigned.         *)
Preflighted(n) == \A k \in 0..(n - 1) : Identity(k) # None

(* systems.register: one system refused, by its parameters or its          *)
(* recorders, fails the call.                                              *)
SetupFails(kinds) == RefuseSetup(kinds) /\ UNCHANGED <<nextId, plans, dirty>>

IdentitiesRunOut(kinds) ==
    /\ \A k \in DOMAIN kinds : kinds[k] # Refused
    /\ ~ Preflighted(Len(kinds))
    /\ answer' = [verdict |-> "exhausted"]
    /\ UNCHANGED <<registered, nextId, plans, dirty>>

(* Mutated: a registration under a schedule that has a plan is not marked. *)
AddSystemsUnmarked(l, kinds) ==
    /\ \A k \in DOMAIN kinds : kinds[k] # Refused
    /\ Preflighted(Len(kinds))
    /\ registered' = registered \o
          [k \in 1..Len(kinds) |->
             [label |-> l, kind |-> kinds[k], id |-> Identity(k - 1)]]
    /\ nextId' = Identity(Len(kinds))
    /\ dirty' = (dirty \/ l \notin DOMAIN plans)
    /\ answer' = [verdict |-> "registered"]
    /\ UNCHANGED plans

AddSystems(l, kinds) ==
    /\ \A k \in DOMAIN kinds : kinds[k] # Refused
    /\ Preflighted(Len(kinds))
    /\ registered' = registered \o
          [k \in 1..Len(kinds) |->
             [label |-> l, kind |-> kinds[k], id |-> Identity(k - 1)]]
    /\ nextId' = Identity(Len(kinds))
    /\ dirty' = TRUE
    /\ answer' = [verdict |-> "registered"]
    /\ UNCHANGED plans

-----------------------------------------------------------------------------
(* rebuild_if_dirty, when every schedule has a plan ...                    *)
Rebuild ==
    /\ UNCHANGED <<registered, nextId>>
    /\ \/ ~ dirty /\ UNCHANGED <<plans, dirty>>
       \/ /\ dirty /\ Broken(registered) = {}
          /\ plans' = [l \in Named(registered) |-> Members(registered, l)]
          /\ dirty' = FALSE

(* ... and when one has none.                                              *)
RebuildFails ==
    /\ dirty
    /\ \E l \in Labels : /\ NamedFirst(registered, l, Broken(registered))
                         /\ answer' = Invalid(l)
    /\ UNCHANGED <<registered, nextId, plans, dirty>>

Validate == Rebuild /\ answer' = [verdict |-> "valid"]

(* validate and plan_for, which a run or an inspection begins with; the    *)
(* positions are looked up in the systems as they are now.                 *)
PlanFor(l) ==
    /\ Rebuild
    /\ answer' = IF l \in DOMAIN plans'
                 THEN [verdict |-> "planned",
                       systems |-> {registered[i] : i \in plans'[l]}]
                 ELSE [verdict |-> "empty"]

RegistryNext ==
    \/ \E kinds \in Requests :
          \/ SetupFails(kinds) \/ IdentitiesRunOut(kinds)
          \/ \E l \in Labels : AddSystems(l, kinds)
    \/ RebuildFails \/ Validate
    \/ \E l \in Labels : PlanFor(l)

RegistrySpec == RegistryInit /\ [][RegistryNext]_registryVars

-----------------------------------------------------------------------------
(* Every identity is a valid one: the planner's `expect' on a preflighted  *)
(* identity cannot fail.                                                   *)
RegistryTypeOK ==
    /\ registered \in Seq(System)
    /\ nextId \in 0..IdentityMax
    /\ DOMAIN plans \subseteq Labels
    /\ \A l \in DOMAIN plans : plans[l] \subseteq DOMAIN registered
    /\ dirty \in BOOLEAN

(* No identity is given twice, one is left exactly while fewer than the    *)
(* largest have been given, and a failed call has consumed none.           *)
IdentitiesExact ==
    /\ \A i \in DOMAIN registered : registered[i].id = i
    /\ nextId = IF Len(registered) < IdentityMax THEN Len(registered) + 1
                ELSE None

(* While the registry is not dirty its plans are those of the systems as   *)
(* they are, and every schedule has one.                                   *)
PlansCurrent ==
    ~ dirty => /\ Broken(registered) = {}
               /\ plans = [l \in Named(registered) |-> Members(registered, l)]

RegistryInductive == RegistryTypeOK /\ IdentitiesExact /\ PlansCurrent

(* Registration and every request look as if nothing were kept: no run     *)
(* uses the plan of an earlier build, whatever failed in between.          *)
ImplementsRegistration == RegistrationSpec

=============================================================================
