----------------------------- MODULE MCInventory -----------------------------
(***************************************************************************)
(* Values for model checking Inventory: two users with an order each, of   *)
(* which the first may name both products.  Products and orders differ, so *)
(* only the requests are symmetric.                                        *)
(***************************************************************************)
EXTENDS Inventory, TLC

CONSTANTS p1, p2, o1, o2, u1, u2

MCOwner == o1 :> u1 @@ o2 :> u2

MCCarts == {p1 :> 1, p1 :> 1 @@ p2 :> 1}

Symmetry == Permutations(Requests)

=============================================================================
