--------------------------- MODULE MCRingStorage ---------------------------
(* RingStorage for TLC.  Which value is saved does not matter, only whether *)
(* two values differ, so runs that check invariants alone may permute them. *)
EXTENDS RingStorage, TLC

Symmetry == Permutations(Values)
=============================================================================
