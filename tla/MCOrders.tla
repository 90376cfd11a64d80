------------------------------ MODULE MCOrders ------------------------------
(* Instance of Orders for TLC: every order has one line.                   *)
EXTENDS Orders

TheLines == [o \in Orders |-> 1]
=============================================================================
