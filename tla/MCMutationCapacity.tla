------------------------- MODULE MCMutationCapacity -------------------------
(***************************************************************************)
(* Bounds: 3 workers, so that a refilling worker, a scanning worker and a  *)
(* paused owner coexist; 4 positions in batches of 2, so that a refill is  *)
(* full, partial and absent in one behaviour.                              *)
(***************************************************************************)
EXTENDS MutationCapacity
=============================================================================
