----------------------------- MODULE StockLedger -----------------------------
(***************************************************************************)
(* What the inventory service promises about stock to callers that make    *)
(* one call about an order at a time, with no word of transactions, locks  *)
(* or a reserved column.  There are the units available of each product,   *)
(* and an entry for each product of an order; a call moves units between   *)
(* them in one step, for all products of the order or for none.            *)
(***************************************************************************)
EXTENDS Integers

CONSTANTS Products, Orders, MaxInt

VARIABLES
    available,  \* units of each product that nobody has reserved
    entry       \* what became of each product an order asked for

vars == <<available, entry>>

NoEntry == [qty |-> 0, status |-> "none"]
Line == [qty : 1 .. MaxInt, status : {"RESERVED", "FAILED"}]

Init ==
    /\ available = [p \in Products |-> 0]
    /\ entry = [k \in Orders \X Products |-> NoEntry]

ProductsOf(o) == {p \in Products : entry[<<o, p>>] # NoEntry}
HeldFor(o, p) == entry[<<o, p>>].status = "RESERVED"

(* An order reserves once, any of the products.  It gets a line in full or *)
(* not at all; that one line is refused says nothing of the others.        *)
Reserve(o) ==
    /\ ProductsOf(o) = {}
    /\ \E S \in SUBSET Products :
        \E line \in [S -> Line] :
          /\ entry' = [k \in Orders \X Products |->
                IF k[1] = o /\ k[2] \in S THEN line[k[2]] ELSE entry[k]]
          /\ \A p \in S : line[p].status = "RESERVED" => line[p].qty <= available[p]
          /\ available' = [p \in Products |->
                IF p \in S /\ line[p].status = "RESERVED" THEN available[p] - line[p].qty
                ELSE available[p]]

(* Every unit the order holds comes back, and no other.                    *)
Release(o) ==
    /\ available' = [p \in Products |->
          IF HeldFor(o, p) THEN available[p] + entry[<<o, p>>].qty ELSE available[p]]
    /\ entry' = [k \in Orders \X Products |->
          IF k[1] = o /\ entry[k] # NoEntry
          THEN [entry[k] EXCEPT !.status = "RELEASED"] ELSE entry[k]]

(* The owner of a product counts it anew, or takes it out of the catalogue *)
(* while no order has an entry of it.                                      *)
Count(p) ==
    /\ UNCHANGED entry
    /\ \E n \in 0 .. MaxInt : available' = [available EXCEPT ![p] = n]

Next ==
    \/ \E p \in Products : Count(p)
    \/ \E o \in Orders : Release(o) \/ Reserve(o)

Spec == Init /\ [][Next]_vars
=============================================================================
