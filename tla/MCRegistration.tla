--------------------------- MODULE MCRegistration ---------------------------
(* Instance of Registration for TLC: slots and e-mails are interchangeable. *)
EXTENDS Registration, TLC

Symmetry == Permutations(Slots) \union Permutations(Emails)

\* The properties are about a shopper who waits; nothing they speak of comes
\* after the first haste.
Waiting == ~hasty
=============================================================================
