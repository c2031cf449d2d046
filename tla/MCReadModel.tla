---------------------------- MODULE MCReadModel -----------------------------
(***************************************************************************)
(* ReadModel for TLC: a customer with two orders of different totals and   *)
(* one open page.  When the service attaches, the first is shipped.         *)
(***************************************************************************)
EXTENDS ReadModel, TLC

CONSTANTS o1, o2, alice, page

TwoOrders == o1 :> alice @@ o2 :> alice
Totals == o1 :> 1 @@ o2 :> 2
FirstShipped ==
    [i \in 1..4 |-> [order |-> o1, status |-> <<"PLACED", "PAID", "CONFIRMED", "SHIPPED">>[i]]]
OnePage == page :> alice
=============================================================================
