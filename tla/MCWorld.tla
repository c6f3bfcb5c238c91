-------------------------------- MODULE MCWorld --------------------------------
(***************************************************************************)
(* Bounds.  Three entities: the row in the middle and the last one differ. *)
(* Two components; bundles of one, of both and of the same one twice; two  *)
(* values, which are interchangeable.  Four cursor positions over two      *)
(* epochs where places are the question, six where changes are.  Handles   *)
(* are not reused here: entity_locations is keyed by the whole handle, and *)
(* the allocator's own run reuses slots.                                   *)
(***************************************************************************)
EXTENDS World, TLC

MCBundles == {<<"A">>, <<"B", "A">>, <<"A", "A">>}

ValueSymmetry == Permutations(Values)
=============================================================================
