----------------------------- MODULE MCWishlist -----------------------------
(* Instance of Wishlist for TLC: slots and products are interchangeable.   *)
EXTENDS Wishlist, TLC

Symmetry == Permutations(Slots) \union Permutations(Products)

\* The runs go on as long as changes and faults are two together; while the
\* shopper waits and nothing failed, they go on with the third change.
Bounded == taps + faults < 3 \/ (taps = 3 /\ faults = 0 /\ ~hasty)
=============================================================================
