---------------------------- MODULE MCDirectQueries ----------------------------
(***************************************************************************)
(* Bounds.  Two worlds of two entities and two component types: in the    *)
(* first, segments have two rows or there are two of them, and the cursor  *)
(* has two positions left, so that marking a segment of two rows and two   *)
(* columns panics in the middle; the second is exhausted and there for     *)
(* states that come from the first and go back.  Two query states, of      *)
(* which one observes, and travels, and one changes.                       *)
(***************************************************************************)
EXTENDS DirectQueries

CONSTANTS w1, w2, e1, e2, q1, q2

MCWorlds == {w1, w2}
MCEntities == {e1, e2}
MCTypes == {"A", "B"}
MCStates == {q1, q2}

Asks(form, filter) == [form |-> form, filter |-> filter]
Pairs == {<<Asks(OptRef("A"), <<Changed("B")>>), Asks(MutMut("A", "B"), <<>>)>>,
          <<Asks(EntityRef("A"), <<Added("A")>>), Asks(OptMut("B"), <<Changed("A")>>)>>,
          <<Asks(Ref("B"), <<Without("A")>>), Asks(Mut("A"), <<Changed("A")>>)>>}
MCCatalogue == {[q \in MCStates |-> IF q = q1 THEN p[1] ELSE p[2]] : p \in Pairs}

MCReach == [q \in MCStates |-> IF q = q1 THEN MCWorlds ELSE {w1}]
MCStart == [w \in MCWorlds |-> [e \in MCEntities |->
               IF w = w1 /\ e = e1 THEN MCTypes ELSE IF w = w1 \/ e = e1 THEN {"A"} ELSE {}]]
MCClockMax == [w \in MCWorlds |-> IF w = w1 THEN 5 ELSE 1]
=============================================================================
