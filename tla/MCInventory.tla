---------------------------- MODULE MCInventory -----------------------------
(***************************************************************************)
(* Inventory for TLC: two orders that compete for one product, one of      *)
(* which also wants another product first; or two that do not compete.     *)
(***************************************************************************)
EXTENDS Inventory, TLC

CONSTANTS o1, o2, A, B

\* o2 asks for B on two lines, which a reservation cannot hold; there is enough for
\* it if o1 does not come first.
Repeated ==
    o1 :> <<[product |-> A, quantity |-> 1], [product |-> B, quantity |-> 1]>>
      @@ o2 :> <<[product |-> B, quantity |-> 1], [product |-> B, quantity |-> 1]>>
TwoOfB == A :> 1 @@ B :> 2

\* Two orders that do not compete.
OneLineEach ==
    o1 :> <<[product |-> A, quantity |-> 1]>> @@ o2 :> <<[product |-> B, quantity |-> 1]>>
TwoOfEach == A :> 2 @@ B :> 2
=============================================================================
