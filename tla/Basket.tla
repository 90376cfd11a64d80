------------------------------- MODULE Basket -------------------------------
(***************************************************************************)
(* What a shopper is promised about the basket of this device: an add puts *)
(* one more thing into the basket that is already there, and the basket is *)
(* otherwise only ever emptied as a whole (by signing out, or by the shop  *)
(* forgetting the session).  It is never exchanged for another basket.     *)
(*                                                                         *)
(* GuestCart implements this specification up to the first race of two    *)
(* adds that both open a session.                                          *)
(***************************************************************************)
CONSTANT Things          \* what can be put into the basket

VARIABLE basket

Init == basket = {}

Put(t) == basket' = basket \union {t}

Forget == basket' = {}

Next == Forget \/ \E t \in Things : Put(t)

Spec == Init /\ [][Next]_basket
=============================================================================
