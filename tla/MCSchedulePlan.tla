---------------------------- MODULE MCSchedulePlan ----------------------------
(***************************************************************************)
(* Bounds.  GraphSchedules: 4 systems, each in a set of its own, with up   *)
(* to 4 of the 12 possible precedences and any of them deferred: chains,   *)
(* diamonds, cycles of every length up to 4, and obligations that share,   *)
(* nest and exclude one another.  SetSchedules: 3 systems in up to two     *)
(* shared sets and 2 declarations, required or not: references to several  *)
(* systems, to nobody, to the declaring system alone, and two declarations *)
(* agreeing on one precedence.                                             *)
(***************************************************************************)
EXTENDS SchedulePlan

Ordered4 == {d \in [source : 0..3, direction : {"after"}, target : 0..3,
                    required : {TRUE}] : d.source # d.target}

GraphSchedules ==
    [size : {4}, sets : {[p \in 0..3 |-> {p}]},
     declarations : {D \in SUBSET Ordered4 : Cardinality(D) <= 4},
     deferred : SUBSET (0..3)]

Declarations3 == [source : 0..2, direction : {"before", "after"},
                  target : {"A", "B"}, required : BOOLEAN]

SetSchedules ==
    [size : {3}, sets : [0..2 -> SUBSET {"A", "B"}],
     declarations : {{d, e} : d, e \in Declarations3},
     deferred : {{0}}]

MCSchedules == GraphSchedules \union SetSchedules
=============================================================================
