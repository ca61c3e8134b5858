------------------------- MODULE MCApplicationBackend -------------------------
(***************************************************************************)
(* ApplicationBackend for TLC.  Nothing tells one Flipper from another.     *)
(***************************************************************************)
EXTENDS ApplicationBackend

Symmetry == Permutations(Flipper)

=============================================================================
