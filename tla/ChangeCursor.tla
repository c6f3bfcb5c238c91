----------------------------- MODULE ChangeCursor -----------------------------
(***************************************************************************)
(* world/change_tracking.rs: the positions of a world's history.  A cursor *)
(* is a pair of 64-bit words; TickMax and EpochMax stand for their largest *)
(* values.  Cursors of different worlds are not compared.                  *)
(***************************************************************************)
EXTENDS Integers

CONSTANTS EpochMax, TickMax

ASSUME CursorAssumption == EpochMax \in Nat /\ TickMax \in Nat

Cursors == [epoch : 0..EpochMax, tick : 0..TickMax]

Origin == [epoch |-> 0, tick |-> 0]

(* Positions are ordered by epoch, then by tick.                           *)
Before(a, b) == a.epoch < b.epoch \/ (a.epoch = b.epoch /\ a.tick < b.tick)

NotAfter(a, b) == a = b \/ Before(a, b)

Exhausted(c) == c.tick = TickMax /\ c.epoch = EpochMax

(* Mutated: the tick wraps within the epoch.                               *)
NextCursorWraps(c) ==
    IF c.tick = TickMax THEN [epoch |-> c.epoch, tick |-> 0]
    ELSE [epoch |-> c.epoch, tick |-> c.tick + 1]

(* The position after c, which is not exhausted.                           *)
NextCursor(c) ==
    IF c.tick = TickMax THEN [epoch |-> c.epoch + 1, tick |-> 0]
    ELSE [epoch |-> c.epoch, tick |-> c.tick + 1]

=============================================================================
