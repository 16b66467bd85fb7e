------------------------------ MODULE MCOrders ------------------------------
(***************************************************************************)
(* An instance of Orders for TLC.  MaxCents = 7 and MaxInt = 2 put the     *)
(* limits of the columns within reach: with a price of 2, a quantity of 4  *)
(* is too large for its column and wraps its line total to -8, and 2 + 2   *)
(* make a total of 8, which wraps to -8.                                   *)
(***************************************************************************)
EXTENDS Orders, TLC

CONSTANTS p, q

Item(product, quantity) == [product |-> product, quantity |-> quantity]

MCBaskets ==
    { <<>>,
      <<Item(p, 1), Item(q, 2)>>,    \* an ordinary order
      <<Item(p, 2), Item(q, 2)>>,    \* a total that may wrap
      <<Item(p, 1), Item(p, 1)>>,    \* a product twice
      <<Item(q, 0)>>,                \* no quantity
      <<Item(q, 4)>> }               \* more than an int column holds

Symmetry == Permutations(Calls) \cup Permutations(OrderIds)
=============================================================================
