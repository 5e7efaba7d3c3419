------------------------- MODULE MCLocalStreamQueue -------------------------
(***************************************************************************)
(* Instances of LocalStreamQueue for TLC.  The requests are model values;  *)
(* those that cannot be interrupted are interchangeable as far as safety   *)
(* is concerned.                                                           *)
(***************************************************************************)
EXTENDS LocalStreamQueue, TLC

Symmetry == Permutations(Task \ Interruptible)

=============================================================================
