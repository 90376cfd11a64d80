----------------------------- MODULE MCRecovery -----------------------------
(* Instance of Recovery for TLC: slots and accounts are interchangeable.   *)
EXTENDS Recovery, TLC

Symmetry == Permutations(Slots) \union Permutations(Emails)
=============================================================================
