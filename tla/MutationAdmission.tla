-------------------------- MODULE MutationAdmission --------------------------
(***************************************************************************)
(* What the concurrent mutation capacity promises the workers of one       *)
(* parallel step: a request to record a mutation event is either admitted, *)
(* and then it consumes exactly one of the change-cursor positions left,   *)
(* or refused, and then every position has been admitted to somebody.      *)
(***************************************************************************)
EXTENDS Naturals

CONSTANTS
    Workers,    \* the members of the step
    Capacity    \* the positions the change cursor has left

VARIABLES
    admitted,   \* how many events have been admitted
    request     \* per worker: "none", "pending" or "refused"

vars == <<admitted, request>>

Init ==
    /\ admitted = 0
    /\ request = [w \in Workers |-> "none"]

(* A worker is about to record a mutation. *)
Ask(w) ==
    /\ request[w] = "none"
    /\ request' = [request EXCEPT ![w] = "pending"]
    /\ UNCHANGED admitted

(* The event gets its position. *)
Admit(w) ==
    /\ request[w] = "pending"
    /\ admitted < Capacity
    /\ admitted' = admitted + 1
    /\ request' = [request EXCEPT ![w] = "none"]

(* Exhaustion is exact: a refusal only happens once nothing is left. *)
Refuse(w) ==
    /\ request[w] = "pending"
    /\ admitted = Capacity
    /\ request' = [request EXCEPT ![w] = "refused"]
    /\ UNCHANGED admitted

Next == \E w \in Workers : Ask(w) \/ Admit(w) \/ Refuse(w)

Spec == Init /\ [][Next]_vars

=============================================================================
