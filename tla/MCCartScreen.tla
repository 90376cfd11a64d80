---------------------------- MODULE MCCartScreen ----------------------------
(* Instance of CartScreen for TLC.                                         *)
EXTENDS CartScreen, TLC

Symmetry == Permutations(Slots)
=============================================================================
