---------------------------- MODULE MCGuestCart -----------------------------
(* Instance of GuestCart for TLC: calls and sessions are interchangeable.  *)
EXTENDS GuestCart, TLC

Symmetry == Permutations(Calls) \union Permutations(Sessions)
=============================================================================
