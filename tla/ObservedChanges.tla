---------------------------- MODULE ObservedChanges ----------------------------
(***************************************************************************)
(* What a world promises of its record of changes.                         *)
(*                                                                         *)
(* Whoever gets a mutable reference is promised a position of the change   *)
(* cursor, and is refused exactly when none is left.  The positions are    *)
(* handed out one by one, each marking a row, its type and no other, and   *)
(* an observer is answered from the marks made so far.                     *)
(***************************************************************************)
EXTENDS ChangePlaces

VARIABLES
    cursor,         \* change_tick
    rowTick,        \* the changed ticks of the rows
    typeTick,       \* component_change_ticks and resource_change_ticks
    promised,       \* references handed out whose change is not recorded
    answer          \* what the last observer was told

recordVars == <<cursor, rowTick, typeTick>>
observedVars == <<recordVars, promised, answer>>

MarkRow(p) == rowTick' = [r \in Rows |-> IF r = p THEN cursor' ELSE rowTick[r]]

Mark(p) ==
    /\ cursor' = NextCursor(cursor)
    /\ MarkRow(p)
    /\ typeTick' = [typeTick EXCEPT ![TypeOf(p)] = cursor']

(* What happened before the watch is not told apart.                       *)
ObservedInit ==
    /\ cursor = Watched
    /\ rowTick = [r \in Rows |-> Watched]
    /\ typeTick = [t \in ObservedTypes |-> Watched]
    /\ promised = 0
    /\ answer = "none"

Promise ==
    /\ promised < Remaining(cursor)
    /\ promised' = promised + 1
    /\ answer' = "granted"
    /\ UNCHANGED recordVars

Refuse ==
    /\ promised = Remaining(cursor)
    /\ answer' = "refused"
    /\ UNCHANGED <<recordVars, promised>>

Keep(p) ==
    /\ promised > 0
    /\ promised' = promised - 1
    /\ Mark(p)
    /\ UNCHANGED answer

(* Promised and kept at once.                                              *)
Change(p) ==
    /\ promised = 0 /\ ~ Exhausted(cursor)
    /\ Mark(p)
    /\ answer' = "granted"
    /\ UNCHANGED promised

Told(tick, since) == answer' = IF Before(since, tick) THEN "changed" ELSE "unchanged"

AskType(t, since) == Told(typeTick[t], since) /\ UNCHANGED <<recordVars, promised>>

AskRow(r, since) == Told(rowTick[r], since) /\ UNCHANGED <<recordVars, promised>>

(* An index answers with the values as they are.                           *)
AskIndex == answer' = "current" /\ UNCHANGED <<recordVars, promised>>

ObservedNext ==
    \/ Promise \/ Refuse \/ AskIndex
    \/ \E p \in Places : Keep(p) \/ Change(p)
    \/ \E since \in Cursors :
          \/ \E t \in ObservedTypes : AskType(t, since)
          \/ \E r \in Rows : AskRow(r, since)

ObservedSpec == ObservedInit /\ [][ObservedNext]_observedVars

=============================================================================
