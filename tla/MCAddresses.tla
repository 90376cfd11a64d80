----------------------------- MODULE MCAddresses -----------------------------
(* Instance of Addresses for TLC.                                          *)
EXTENDS Addresses, TLC

Symmetry == Permutations(Slots) \union Permutations(Values)
=============================================================================
