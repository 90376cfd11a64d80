----------------------------- MODULE MCProfile ------------------------------
(* Instance of Profile for TLC: slots are interchangeable, and so are      *)
(* customers.                                                              *)
EXTENDS Profile, TLC

Symmetry == Permutations(Slots) \union Permutations(Customers)

\* While the dialog of "Log Out" is awaited the runs go on up to four pages,
\* on the last of which the dialog comes.
DialogSoon ==
  \A k \in DOMAIN pages : pages[k].kind = "profile" /\ pages[k].asked => Depth <= 4
=============================================================================
