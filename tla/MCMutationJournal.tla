--------------------------- MODULE MCMutationJournal ---------------------------
(***************************************************************************)
(* Bounds.  Two entities, of two component types, and a resource; four     *)
(* positions over two epochs; cohorts of up to two systems.                *)
(***************************************************************************)
EXTENDS MutationJournal

MCRows == {<<"e", "Position">>, <<"f", "Position">>, <<"e", "Velocity">>}

MCWatched == [epoch |-> 0, tick |-> 1]
=============================================================================
