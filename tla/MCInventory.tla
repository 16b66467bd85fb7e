---------------------------- MODULE MCInventory ----------------------------
(***************************************************************************)
(* Instances of Inventory for TLC.  MaxInt, the largest int32, is 1, 2 or  *)
(* 3: it bounds the stock columns as the width of the column does, so no   *)
(* constraint is needed and every overflow happens.                        *)
(***************************************************************************)
EXTENDS Inventory, TLC

CONSTANTS p1, p2

It(p, q) == [product |-> p, qty |-> q, held |-> FALSE]

(* Two products in opposite orders, as two carts list them.                *)
OpposedLists == {<<It(p1, 1), It(p2, 1)>>, <<It(p2, 1), It(p1, 1)>>}

(* One product: named twice, the second time with a quantity of zero, or   *)
(* with one that wraps to a negative int32.                                *)
AwkwardLists ==
    {<<It(p1, 1)>>, <<It(p1, 1), It(p1, 2)>>, <<It(p1, 1), It(p1, 0)>>,
     <<It(p1, 2 * MaxInt + 1)>>}

Args == {-1, 1}

CallAndOrderSymmetry == Permutations(Calls) \cup Permutations(Orders)
=============================================================================
