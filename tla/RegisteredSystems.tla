--------------------------- MODULE RegisteredSystems ---------------------------
(***************************************************************************)
(* What a Runtime promises of registration: a call registers all of its    *)
(* systems or none, each system has an identity of its own, and whoever    *)
(* asks for a schedule gets the systems registered under it at that        *)
(* moment, or the news that a schedule cannot be planned.  Nothing is kept *)
(* from one request to the next.                                           *)
(***************************************************************************)
EXTENDS Integers, Sequences

CONSTANTS
    Labels,
    Kinds,          \* what distinguishes systems to planning
    Requests,       \* the kinds of the systems of one call, in order
    IdentityMax,    \* the largest u64, shortened
    Plannable(_)    \* whether systems of these kinds have a plan

Refused == "refused"

VARIABLES
    registered,     \* the systems, in the order of their registration
    answer          \* what the last call returned

requestVars == <<registered, answer>>

System == [label : Labels, kind : Kinds, id : 1..IdentityMax]

Named(systems) == {systems[i].label : i \in DOMAIN systems}

Members(systems, l) == {i \in DOMAIN systems : systems[i].label = l}

KindsIn(systems, l) == {systems[i].kind : i \in Members(systems, l)}

Broken(systems) ==
    {l \in Named(systems) : ~ Plannable(KindsIn(systems, l))}

(* Schedules are planned in the order they were first named.               *)
NamedFirst(systems, l, others) ==
    /\ l \in others
    /\ \E i \in Members(systems, l) : \A m \in others :
          \A j \in Members(systems, m) : i <= j

Invalid(l) == [verdict |-> "invalid", schedule |-> l]

Planned(systems, l) ==
    [verdict |-> "planned", systems |-> {systems[i] : i \in Members(systems, l)}]

RegistrationInit == registered = <<>> /\ answer = [verdict |-> "new"]

Register(l, kinds) ==
    /\ \A k \in DOMAIN kinds : kinds[k] # Refused
    /\ Len(registered) + Len(kinds) <= IdentityMax
    /\ registered' = registered \o
          [k \in 1..Len(kinds) |->
             [label |-> l, kind |-> kinds[k], id |-> Len(registered) + k]]
    /\ answer' = [verdict |-> "registered"]

RefuseSetup(kinds) ==
    /\ \E k \in DOMAIN kinds : kinds[k] = Refused
    /\ answer' = [verdict |-> "setup"]
    /\ UNCHANGED registered

RefuseExhausted(kinds) ==
    /\ \A k \in DOMAIN kinds : kinds[k] # Refused
    /\ Len(registered) + Len(kinds) > IdentityMax
    /\ answer' = [verdict |-> "exhausted"]
    /\ UNCHANGED registered

(* One schedule without a plan makes every request fail.                   *)
ReportInvalid ==
    /\ \E l \in Labels : /\ NamedFirst(registered, l, Broken(registered))
                         /\ answer' = Invalid(l)
    /\ UNCHANGED registered

ReportValid ==
    /\ Broken(registered) = {}
    /\ answer' = [verdict |-> "valid"]
    /\ UNCHANGED registered

Provide(l) ==
    /\ Broken(registered) = {}
    /\ answer' = IF l \in Named(registered) THEN Planned(registered, l)
                 ELSE [verdict |-> "empty"]
    /\ UNCHANGED registered

RegistrationNext ==
    \/ \E kinds \in Requests :
          \/ RefuseSetup(kinds) \/ RefuseExhausted(kinds)
          \/ \E l \in Labels : Register(l, kinds)
    \/ ReportInvalid \/ ReportValid
    \/ \E l \in Labels : Provide(l)

RegistrationSpec == RegistrationInit /\ [][RegistrationNext]_requestVars

=============================================================================
