----------------------------- MODULE MCCheckout -----------------------------
(* Instance of Checkout for TLC: slots and sessions are interchangeable.   *)
EXTENDS Checkout, TLC

Symmetry == Permutations(Slots) \union Permutations(Sessions)
=============================================================================
