-------------------------- MODULE InventoryProofs --------------------------
(***************************************************************************)
(* Theorems about Inventory, for any products, orders and calls.           *)
(*                                                                         *)
(* None of the properties is inductive as it stands: whether a committed   *)
(* row may be PENDING depends on what a transaction may have written and   *)
(* not yet committed, and that on where the transaction's call stands.     *)
(* IInv adds the three facts they share: a row nobody has locked has one   *)
(* version, rows are never deleted, and a call in the middle of an item    *)
(* has its row locked.                                                     *)
(***************************************************************************)
EXTENDS Inventory, FiniteSetTheorems, SequenceTheorems, TLAPS

OneVersionUnlessLocked ==
    /\ \A p \in Products : ilock[p] = None => inv[p] = cinv[p]
    /\ \A k \in Keys : rlock[k] = None => resv[k] = cresv[k]

RowsStay ==
    \A k \in Keys :
        /\ cresv[k] # NoRow => resv[k] # NoRow
        /\ resv[k].status = "none" => resv[k] = NoRow
        /\ cresv[k].status = "none" => cresv[k] = NoRow

CallInOrder(c) ==
    /\ pc[c] \notin {"idle", "delete"} => order[c] \in Orders
    /\ pc[c] \in {"upsert", "try", "mark", "delete"} => todo[c] # <<>>
    /\ pc[c] = "try" =>
          rlock[Key(c)] = c /\ resv[Key(c)] # NoRow /\ Qty(c) \in 1 .. MaxInt
    /\ pc[c] \in {"release", "mark", "confirm"} =>
          \A i \in 1 .. Len(todo[c]) :
              /\ cresv[<<order[c], todo[c][i].product>>] # NoRow
              /\ todo[c][i].qty \in 0 .. MaxInt

CallsInOrder == \A c \in Calls : CallInOrder(c)

PendingInFlight ==
    \A k \in Keys :
        /\ resv[k].status = "PENDING" => \E c \in Calls : pc[c] = "try" /\ Key(c) = k
        /\ cresv[k].status # "PENDING"

StockBacked ==
    \A p \in Products :
        /\ cinv[p].reserved > 0 => \E o \in Orders : cresv[<<o, p>>] # NoRow
        /\ inv[p].reserved > 0 =>
              \E o \in Orders :
                  \/ cresv[<<o, p>>] # NoRow
                  \/ /\ rlock[<<o, p>>] = ilock[p] /\ ilock[p] # None
                     /\ resv[<<o, p>>] # NoRow

SameTotal ==
    \A p \in Products :
        inv[p].available + inv[p].reserved = cinv[p].available + cinv[p].reserved

IInv ==
    /\ TypeOK
    /\ OneVersionUnlessLocked
    /\ RowsStay
    /\ CallsInOrder
    /\ PendingInFlight
    /\ RowsHaveProducts
    /\ StockBacked
    /\ SameTotal

-----------------------------------------------------------------------------
(* What the operators of Inventory return.                                 *)

(* The item a call works on, and those that remain, are well typed.        *)
LEMMA ItemTyped ==
    ASSUME TypeOK, NEW c \in Calls, todo[c] # <<>>
    PROVE  /\ Item(c) \in Work
           /\ Target(c) \in Products
           /\ Item(c) = todo[c][1] /\ 1 \in 1 .. Len(todo[c])
           /\ Tail(todo[c]) \in Seq(Work)
           /\ \A i \in 1 .. Len(Tail(todo[c])) :
                 i + 1 \in 1 .. Len(todo[c]) /\ Tail(todo[c])[i] = todo[c][i + 1]
  <1>1. todo[c] \in Seq(Work)
    BY DEF TypeOK
  <1>2. Head(todo[c]) \in Work /\ Head(todo[c]) = todo[c][1]
    BY <1>1, HeadTailProperties
  <1>3. Head(todo[c]).product \in Products
    BY <1>2 DEF Work
  <1>4. Tail(todo[c]) \in Seq(Work) /\ Len(Tail(todo[c])) = Len(todo[c]) - 1 /\ Len(todo[c]) \in Nat \ {0}
    BY <1>1
  <1>5. \A i \in 1 .. Len(Tail(todo[c])) : Tail(todo[c])[i] = todo[c][i + 1]
    BY <1>1
  <1> QED
    BY <1>2, <1>3, <1>4, <1>5 DEF Item, Target

(* An int32 that came from a uint32 and is positive is that uint32.        *)
LEMMA ToInt32Range ==
    ASSUME NEW q \in UInt
    PROVE  /\ ToInt32(q) \in Int
           /\ ToInt32(q) > 0 => ToInt32(q) \in 1 .. MaxInt
           /\ q \in 0 .. MaxInt => ToInt32(q) = q
  BY MaxIntAssumption DEF UInt, ToInt32

(* A statement that need not wait for a stock row sees its newest version. *)
LEMMA FreeStockIsSeen ==
    ASSUME OneVersionUnlessLocked, NEW c \in Calls, NEW p \in Products, StockFree(c, p)
    PROVE  Visible(c, p) = inv[p]
  BY DEF OneVersionUnlessLocked, StockFree, Visible

(* ListByOrder returns rows that exist, with their own quantities.         *)
LEMMA ListingTyped ==
    ASSUME TypeOK, RowsStay, NEW o \in Orders, NEW rows \in Listing(o)
    PROVE  /\ rows \in Seq(Work)
           /\ \A i \in 1 .. Len(rows) :
                 cresv[<<o, rows[i].product>>] # NoRow /\ rows[i].qty \in 0 .. MaxInt
  <1> DEFINE Of(p) == [product |-> p, qty |-> cresv[<<o, p>>].qty, held |-> Held(cresv[<<o, p>>])]
  <1> DEFINE S == {Of(p) : p \in RowsOf(o)}
  <1> DEFINE n == Cardinality(RowsOf(o))
  <1>1. n \in Nat
    BY ProductsAssumption, FS_Subset, FS_CardinalityType DEF RowsOf
  <1>2. rows \in [1 .. n -> S]
    BY DEF Listing
  <1>3. ASSUME NEW p \in RowsOf(o)
        PROVE  /\ Of(p) \in Work
               /\ cresv[<<o, Of(p).product>>] # NoRow
               /\ Of(p).qty \in 0 .. MaxInt
    <2>1. p \in Products /\ <<o, p>> \in Keys /\ cresv[<<o, p>>].status # "none"
      BY DEF RowsOf, Keys
    <2>2. cresv[<<o, p>>] \in Row /\ cresv[<<o, p>>].qty \in 0 .. MaxInt
      BY <2>1 DEF TypeOK, Row
    <2>3. cresv[<<o, p>>] # NoRow
      BY <2>1 DEF NoRow
    <2> QED
      BY <2>1, <2>2, <2>3, MaxIntAssumption DEF Work, UInt, Held
  <1>4. \A s \in S : s \in Work /\ cresv[<<o, s.product>>] # NoRow /\ s.qty \in 0 .. MaxInt
    BY <1>3
  <1>5. rows \in Seq(S) /\ Len(rows) = n
    <2> HIDE DEF S, n
    <2> QED BY <1>1, <1>2
  <1>6. rows \in Seq(Work)
    <2> HIDE DEF S, n
    <2>1. S \subseteq Work
      BY <1>4
    <2> QED BY <1>1, <1>2, <2>1, <1>5
  <1> QED
    <2> HIDE DEF S, n
    <2>1. \A i \in 1 .. Len(rows) : rows[i] \in S
      BY <1>1, <1>2, <1>5
    <2> QED BY <1>4, <1>6, <2>1

-----------------------------------------------------------------------------
(* What a step of one call leaves to the others.                           *)

(* What a call is in the middle of.                                        *)
LEMMA KeyTyped ==
    ASSUME TypeOK, NEW c \in Calls, order[c] \in Orders, todo[c] # <<>>
    PROVE  Key(c) \in Keys /\ Key(c) = <<order[c], Target(c)>>
  BY ItemTyped DEF Key, Keys

OnlyCallMoves(c) ==
    \A d \in Calls \ {c} : pc'[d] = pc[d] /\ order'[d] = order[d] /\ todo'[d] = todo[d]

RowsKept(d) ==
    /\ \A k \in Keys : rlock[k] = d => rlock'[k] = d /\ resv'[k] = resv[k]
    /\ \A k \in Keys : cresv[k] # NoRow => cresv'[k] # NoRow

(* A call is not disturbed by a step that leaves it where it is, respects  *)
(* its row locks and takes no committed row away.                          *)
LEMMA Undisturbed ==
    ASSUME TypeOK, NEW d \in Calls, CallInOrder(d), RowsKept(d),
           pc'[d] = pc[d], order'[d] = order[d], todo'[d] = todo[d]
    PROVE  CallInOrder(d)'
  <1>1. pc'[d] = "try" =>
            rlock'[Key(d)'] = d /\ resv'[Key(d)'] # NoRow /\ Qty(d)' \in 1 .. MaxInt
    <2> SUFFICES ASSUME pc[d] = "try"
                 PROVE  rlock'[Key(d)'] = d /\ resv'[Key(d)'] # NoRow /\ Qty(d)' \in 1 .. MaxInt
      OBVIOUS
    <2>1. order[d] \in Orders /\ todo[d] # <<>>
      BY DEF CallInOrder
    <2>2. Key(d) \in Keys
      BY <2>1, KeyTyped
    <2>3. Key(d)' = Key(d) /\ Qty(d)' = Qty(d)
      BY DEF Key, Target, Item, Qty
    <2> QED
      BY <2>2, <2>3 DEF CallInOrder, RowsKept
  <1>2. pc'[d] \in {"release", "mark", "confirm"} =>
            \A i \in 1 .. Len(todo'[d]) :
                /\ cresv'[<<order'[d], todo'[d][i].product>>] # NoRow
                /\ todo'[d][i].qty \in 0 .. MaxInt
    <2> SUFFICES ASSUME pc[d] \in {"release", "mark", "confirm"}, NEW i \in 1 .. Len(todo[d])
                 PROVE  /\ cresv'[<<order[d], todo[d][i].product>>] # NoRow
                        /\ todo[d][i].qty \in 0 .. MaxInt
      OBVIOUS
    <2>1. order[d] \in Orders
      BY DEF CallInOrder
    <2>2. todo[d] \in Seq(Work)
      BY DEF TypeOK
    <2>3. todo[d][i] \in Work
      BY <2>2
    <2>4. <<order[d], todo[d][i].product>> \in Keys
      BY <2>1, <2>3 DEF Work, Keys
    <2> QED
      BY <2>4 DEF CallInOrder, RowsKept
  <1> QED
    BY <1>1, <1>2 DEF CallInOrder

(* A PENDING row has a call about to decide it, and still has after a step *)
(* of another call.                                                        *)
LEMMA PendingHasCall ==
    ASSUME IInv, NEW c \in Calls, OnlyCallMoves(c), NEW k \in Keys,
           resv[k].status = "PENDING", pc[c] = "try" => Key(c) # k
    PROVE  \E d \in Calls : pc'[d] = "try" /\ Key(d)' = k
  <1>1. PICK d \in Calls : pc[d] = "try" /\ Key(d) = k
    BY DEF IInv, PendingInFlight
  <1>2. pc'[d] = pc[d] /\ Key(d)' = Key(d)
    BY <1>1 DEF OnlyCallMoves, Key, Target, Item
  <1> QED
    BY <1>1, <1>2

(* A step that only moves a call, and not one about to reserve stock.      *)
LEMMA CallMovesPreserves ==
    ASSUME IInv, NEW c \in Calls, OnlyCallMoves(c),
           UNCHANGED <<product, stockVars, rowVars>>,
           pc[c] # "try",
           pc' \in [Calls -> Labels], order' \in [Calls -> Orders \cup {None}],
           todo' \in [Calls -> Seq(Work)],
           CallInOrder(c)'
    PROVE  IInv'
  <1>1. TypeOK'
    BY DEF IInv, TypeOK, stockVars, rowVars
  <1>2. OneVersionUnlessLocked' /\ RowsStay' /\ RowsHaveProducts' /\ StockBacked' /\ SameTotal'
    BY DEF IInv, OneVersionUnlessLocked, RowsStay, RowsHaveProducts, StockBacked, SameTotal,
           stockVars, rowVars
  <1>3. CallsInOrder'
    <2>1. ASSUME NEW d \in Calls \ {c} PROVE CallInOrder(d)'
      BY <2>1, Undisturbed DEF OnlyCallMoves, RowsKept, rowVars, IInv, CallsInOrder
    <2> QED
      BY <2>1 DEF CallsInOrder
  <1>4. PendingInFlight'
    BY PendingHasCall DEF PendingInFlight, IInv, rowVars
  <1> QED
    BY <1>1, <1>2, <1>3, <1>4 DEF IInv

(* Writing a reservation row of an existing product, under its lock.       *)
LEMMA WriteRowKeeps ==
    ASSUME IInv, NEW c \in Calls, order[c] \in Orders, todo[c] # <<>>,
           NEW row \in Row, row.status # "none", RowFree(c), WriteRow(c, row),
           product[Target(c)] \in Live, UNCHANGED product
    PROVE  /\ resv' \in [Keys -> Row] /\ rlock' \in [Keys -> Calls \cup {None}]
           /\ \A k \in Keys : rlock'[k] = None => resv'[k] = cresv'[k]
           /\ RowsStay' /\ RowsHaveProducts'
           /\ \A d \in Calls \ {c} : RowsKept(d)
           /\ \A k \in Keys : resv[k] # NoRow => resv'[k] # NoRow
           /\ \A k \in Keys : rlock[k] # None => rlock'[k] = rlock[k]
           /\ Key(c) \in Keys /\ rlock'[Key(c)] = c /\ resv'[Key(c)] = row
           /\ \A k \in Keys \ {Key(c)} : resv'[k] = resv[k]
           /\ cresv' = cresv
  <1>1. Key(c) \in Keys /\ Key(c) = <<order[c], Target(c)>>
    BY KeyTyped DEF IInv
  <1>2. /\ resv' = [resv EXCEPT ![Key(c)] = row]
        /\ rlock' = [rlock EXCEPT ![Key(c)] = c]
        /\ cresv' = cresv
        /\ rlock[Key(c)] \in {None, c}
    BY DEF WriteRow, RowFree
  <1>3. /\ resv \in [Keys -> Row] /\ rlock \in [Keys -> Calls \cup {None}]
        /\ row # NoRow /\ c # None
    BY NoneAssumption DEF IInv, TypeOK, NoRow
  <1>4. RowsStay'
    BY <1>1, <1>2, <1>3 DEF IInv, RowsStay
  <1>5. RowsHaveProducts'
    <2>1. ASSUME NEW o \in Orders, NEW p \in Products, resv'[<<o, p>>] # NoRow
          PROVE  product[p] \in Live
      <3>1. CASE <<o, p>> = Key(c)
        BY <1>1, <3>1
      <3>2. CASE <<o, p>> # Key(c)
        BY <1>2, <1>3, <2>1, <3>2 DEF IInv, RowsHaveProducts, Keys
      <3> QED
        BY <3>1, <3>2
    <2> QED
      BY <2>1 DEF RowsHaveProducts
  <1>6. \A k \in Keys : rlock'[k] = None => resv'[k] = cresv'[k]
    BY <1>1, <1>2, <1>3 DEF IInv, OneVersionUnlessLocked
  <1>7. \A d \in Calls \ {c} : RowsKept(d)
    BY <1>1, <1>2, <1>3, NoneAssumption DEF RowsKept
  <1> QED
    BY <1>1, <1>2, <1>3, <1>4, <1>5, <1>6, <1>7

(* Writing a stock row, under its lock, without changing its total.        *)
LEMMA WriteStockKeeps ==
    ASSUME IInv, NEW c \in Calls, NEW p \in Products, NEW s \in Stock,
           StockFree(c, p), WriteStock(c, p, s),
           s.available + s.reserved = inv[p].available + inv[p].reserved
    PROVE  /\ inv' \in [Products -> Stock] /\ ilock' \in [Products -> Calls \cup {None}]
           /\ \A x \in Products : ilock'[x] = None => inv'[x] = cinv'[x]
           /\ SameTotal'
           /\ ilock'[p] = c /\ inv'[p] = s
           /\ \A x \in Products \ {p} : inv'[x] = inv[x] /\ ilock'[x] = ilock[x]
           /\ cinv' = cinv
  <1>1. /\ inv \in [Products -> Stock] /\ ilock \in [Products -> Calls \cup {None}]
        /\ c # None
    BY NoneAssumption DEF IInv, TypeOK
  <1>2. /\ inv' = [inv EXCEPT ![p] = s]
        /\ ilock' = [ilock EXCEPT ![p] = c]
        /\ cinv' = cinv
    BY DEF WriteStock
  <1>3. \A x \in Products : ilock'[x] = None => inv'[x] = cinv'[x]
    BY <1>1, <1>2 DEF IInv, OneVersionUnlessLocked
  <1>4. SameTotal'
    BY <1>1, <1>2 DEF IInv, SameTotal
  <1> QED
    BY <1>1, <1>2, <1>3, <1>4

(* What moving on to the next item changes.                                *)
LEMMA AdvanceTyped ==
    ASSUME TypeOK, NEW c \in Calls, NEW label \in Labels, todo[c] # <<>>, Advance(c, label)
    PROVE  /\ pc' \in [Calls -> Labels] /\ order' \in [Calls -> Orders \cup {None}]
           /\ todo' \in [Calls -> Seq(Work)]
           /\ OnlyCallMoves(c)
           /\ pc'[c] = label /\ order'[c] = order[c] /\ todo'[c] = Tail(todo[c])
  <1>1. Tail(todo[c]) \in Seq(Work)
    BY ItemTyped
  <1> QED
    BY <1>1 DEF Advance, Goto, OnlyCallMoves, TypeOK

LEMMA GotoTyped ==
    ASSUME TypeOK, NEW c \in Calls, NEW label \in Labels, Goto(c, label), UNCHANGED todo
    PROVE  /\ pc' \in [Calls -> Labels] /\ order' \in [Calls -> Orders \cup {None}]
           /\ todo' \in [Calls -> Seq(Work)]
           /\ OnlyCallMoves(c)
           /\ pc'[c] = label /\ order'[c] = order[c] /\ todo'[c] = todo[c]
  BY DEF Goto, OnlyCallMoves, TypeOK

LEMMA FinishTyped ==
    ASSUME TypeOK, NEW c \in Calls, Finish(c)
    PROVE  /\ pc' \in [Calls -> Labels] /\ order' \in [Calls -> Orders \cup {None}]
           /\ todo' \in [Calls -> Seq(Work)]
           /\ OnlyCallMoves(c)
           /\ CallInOrder(c)'
           /\ pc'[c] = "idle"
  <1>1. <<>> \in Seq(Work)
    OBVIOUS
  <1> QED
    BY <1>1 DEF Finish, OnlyCallMoves, TypeOK, CallInOrder, Labels

-----------------------------------------------------------------------------
(* Every step preserves IInv: the ends of a transaction.                   *)

LEMMA RollbackPreserves ==
    ASSUME IInv, NEW c \in Calls, Rollback(c)
    PROVE  IInv'
  <1>1. /\ \A p \in Products : inv'[p] = IF ilock[p] = c THEN cinv[p] ELSE inv[p]
        /\ \A p \in Products : ilock'[p] = IF ilock[p] = c THEN None ELSE ilock[p]
        /\ \A k \in Keys : resv'[k] = IF rlock[k] = c THEN cresv[k] ELSE resv[k]
        /\ \A k \in Keys : rlock'[k] = IF rlock[k] = c THEN None ELSE rlock[k]
        /\ product' = product /\ cinv' = cinv /\ cresv' = cresv
    BY DEF Rollback, Unlock
  <1>2. /\ pc' \in [Calls -> Labels] /\ order' \in [Calls -> Orders \cup {None}]
        /\ todo' \in [Calls -> Seq(Work)]
        /\ OnlyCallMoves(c) /\ CallInOrder(c)' /\ pc'[c] = "idle"
    BY FinishTyped DEF IInv, Rollback
  <1>3. TypeOK'
    <2>1. inv' \in [Products -> Stock] /\ ilock' \in [Products -> Calls \cup {None}]
      BY DEF IInv, TypeOK, Rollback, Unlock
    <2>2. resv' \in [Keys -> Row] /\ rlock' \in [Keys -> Calls \cup {None}]
      BY DEF IInv, TypeOK, Rollback, Unlock
    <2> QED
      BY <1>1, <1>2, <2>1, <2>2 DEF IInv, TypeOK
  <1>4. OneVersionUnlessLocked'
    BY <1>1 DEF IInv, OneVersionUnlessLocked
  <1>5. RowsStay'
    BY <1>1 DEF IInv, RowsStay
  <1>6. CallsInOrder'
    <2>1. ASSUME NEW d \in Calls \ {c} PROVE CallInOrder(d)'
      <3>1. RowsKept(d)
        BY <1>1 DEF RowsKept
      <3> QED
        BY <1>2, <3>1, Undisturbed DEF IInv, CallsInOrder, OnlyCallMoves
    <2> QED
      BY <1>2, <2>1 DEF CallsInOrder
  <1>7. PendingInFlight'
    <2>1. ASSUME NEW k \in Keys, resv'[k].status = "PENDING"
          PROVE  \E d \in Calls : pc'[d] = "try" /\ Key(d)' = k
      <3>1. rlock[k] # c /\ resv[k].status = "PENDING"
        BY <1>1, <2>1 DEF IInv, PendingInFlight
      <3>2. pc[c] = "try" => Key(c) # k
        BY <3>1 DEF IInv, CallsInOrder, CallInOrder
      <3> QED
        BY <1>2, <3>1, <3>2, PendingHasCall
    <2> QED
      BY <1>1, <2>1 DEF IInv, PendingInFlight
  <1>8. RowsHaveProducts'
    BY <1>1 DEF IInv, RowsHaveProducts, RowsStay, Keys
  <1>9. StockBacked'
    <2>1. ASSUME NEW p \in Products, inv'[p].reserved > 0
          PROVE  \E o \in Orders :
                    \/ cresv'[<<o, p>>] # NoRow
                    \/ /\ rlock'[<<o, p>>] = ilock'[p] /\ ilock'[p] # None
                       /\ resv'[<<o, p>>] # NoRow
      <3>1. CASE ilock[p] = c
        BY <1>1, <2>1, <3>1 DEF IInv, StockBacked
      <3>2. CASE ilock[p] # c
        BY <1>1, <2>1, <3>2 DEF IInv, StockBacked, Keys
      <3> QED
        BY <3>1, <3>2
    <2> QED
      BY <1>1, <2>1 DEF IInv, StockBacked
  <1>10. SameTotal'
    BY <1>1 DEF IInv, SameTotal
  <1> QED
    BY <1>3, <1>4, <1>5, <1>6, <1>7, <1>8, <1>9, <1>10 DEF IInv

LEMMA CommitPreserves ==
    ASSUME IInv, NEW c \in Calls, Commit(c)
    PROVE  IInv'
  <1>1. /\ \A p \in Products : cinv'[p] = IF ilock[p] = c THEN inv[p] ELSE cinv[p]
        /\ \A p \in Products : ilock'[p] = IF ilock[p] = c THEN None ELSE ilock[p]
        /\ \A k \in Keys : cresv'[k] = IF rlock[k] = c THEN resv[k] ELSE cresv[k]
        /\ \A k \in Keys : rlock'[k] = IF rlock[k] = c THEN None ELSE rlock[k]
        /\ product' = product /\ inv' = inv /\ resv' = resv
        /\ pc[c] # "try"
    BY DEF Commit, Unlock
  <1>2. /\ pc' \in [Calls -> Labels] /\ order' \in [Calls -> Orders \cup {None}]
        /\ todo' \in [Calls -> Seq(Work)]
        /\ OnlyCallMoves(c) /\ CallInOrder(c)'
    BY FinishTyped DEF IInv, Commit
  <1>3. TypeOK'
    <2>1. cinv' \in [Products -> Stock] /\ ilock' \in [Products -> Calls \cup {None}]
      BY DEF IInv, TypeOK, Commit, Unlock
    <2>2. cresv' \in [Keys -> Row] /\ rlock' \in [Keys -> Calls \cup {None}]
      BY DEF IInv, TypeOK, Commit, Unlock
    <2> QED
      BY <1>1, <1>2, <2>1, <2>2 DEF IInv, TypeOK
  <1>4. OneVersionUnlessLocked'
    BY <1>1 DEF IInv, OneVersionUnlessLocked
  <1>5. RowsStay'
    BY <1>1 DEF IInv, RowsStay
  <1>6. CallsInOrder'
    <2>1. ASSUME NEW d \in Calls \ {c} PROVE CallInOrder(d)'
      <3>1. RowsKept(d)
        BY <1>1 DEF RowsKept, IInv, RowsStay
      <3> QED
        BY <1>2, <3>1, Undisturbed DEF IInv, CallsInOrder, OnlyCallMoves
    <2> QED
      BY <1>2, <2>1 DEF CallsInOrder
  <1>7. PendingInFlight'
    <2>1. ASSUME NEW k \in Keys, resv[k].status = "PENDING"
          PROVE  rlock[k] # c /\ \E d \in Calls : pc'[d] = "try" /\ Key(d)' = k
      <3>1. PICK d \in Calls : pc[d] = "try" /\ Key(d) = k
        BY <2>1 DEF IInv, PendingInFlight
      <3>2. d # c /\ rlock[k] = d
        BY <1>1, <3>1 DEF IInv, CallsInOrder, CallInOrder
      <3>3. pc'[d] = pc[d] /\ Key(d)' = Key(d)
        BY <1>2, <3>2 DEF OnlyCallMoves, Key, Target, Item
      <3> QED
        BY <3>1, <3>2, <3>3
    <2> QED
      BY <1>1, <2>1 DEF IInv, PendingInFlight
  <1>8. RowsHaveProducts'
    BY <1>1 DEF IInv, RowsHaveProducts
  <1>9. StockBacked'
    <2>1. ASSUME NEW k \in Keys PROVE cresv[k] # NoRow => cresv'[k] # NoRow
      BY <1>1 DEF IInv, RowsStay
    <2>2. ASSUME NEW p \in Products, inv[p].reserved > 0
          PROVE  \E o \in Orders :
                    \/ cresv'[<<o, p>>] # NoRow
                    \/ /\ ilock[p] # c /\ ilock'[p] = ilock[p] /\ ilock[p] # None
                       /\ rlock'[<<o, p>>] = ilock[p] /\ resv[<<o, p>>] # NoRow
      <3>1. PICK o \in Orders :
                    \/ cresv[<<o, p>>] # NoRow
                    \/ /\ rlock[<<o, p>>] = ilock[p] /\ ilock[p] # None
                       /\ resv[<<o, p>>] # NoRow
        BY <2>2 DEF IInv, StockBacked
      <3>2. <<o, p>> \in Keys
        BY DEF Keys
      <3> QED
        BY <1>1, <2>1, <3>1, <3>2
    <2>3. ASSUME NEW p \in Products, cinv'[p].reserved > 0
          PROVE  \E o \in Orders : cresv'[<<o, p>>] # NoRow
      <3>1. CASE ilock[p] = c
        BY <1>1, <2>2, <2>3, <3>1
      <3>2. CASE ilock[p] # c
        BY <1>1, <2>1, <2>3, <3>2 DEF IInv, StockBacked, Keys
      <3> QED
        BY <3>1, <3>2
    <2> QED
      BY <1>1, <2>2, <2>3 DEF StockBacked
  <1>10. SameTotal'
    BY <1>1 DEF IInv, SameTotal
  <1> QED
    BY <1>3, <1>4, <1>5, <1>6, <1>7, <1>8, <1>9, <1>10 DEF IInv

-----------------------------------------------------------------------------
(* The steps of Reserve.                                                   *)

LEMMA StartPreserves ==
    ASSUME IInv, NEW c \in Calls, NEW o \in Orders,
           NEW label \in {"check", "listRelease", "listConfirm"},
           Start(c, o, label), todo' \in [Calls -> Seq(Work)],
           \A d \in Calls \ {c} : todo'[d] = todo[d]
    PROVE  IInv'
  <1>1. /\ pc' \in [Calls -> Labels] /\ order' \in [Calls -> Orders \cup {None}]
        /\ OnlyCallMoves(c)
        /\ pc[c] = "idle" /\ pc'[c] = label /\ order'[c] = o
    BY DEF Start, MayStart, IInv, TypeOK, OnlyCallMoves, Labels
  <1>2. CallInOrder(c)'
    BY <1>1 DEF CallInOrder
  <1> QED
    BY <1>1, <1>2, CallMovesPreserves DEF Start

LEMMA StartReservePreserves ==
    ASSUME IInv, NEW c \in Calls, NEW o \in Orders, NEW items \in ItemLists,
           StartReserve(c, o, items)
    PROVE  IInv'
  <1>1. items \in Seq(Work)
    <2>1. [product : Products, qty : UInt, held : {FALSE}] \subseteq Work
      BY DEF Work
    <2>2. items \in Seq([product : Products, qty : UInt, held : {FALSE}])
      BY ItemListsAssumption
    <2>3. ASSUME NEW S, NEW T, S \subseteq T, NEW s \in Seq(S) PROVE s \in Seq(T)
      <3>1. s \in [1 .. Len(s) -> T] /\ Len(s) \in Nat
        BY <2>3
      <3> QED
        BY <3>1
    <2> QED
      BY <2>1, <2>2, <2>3
  <1>2. todo' \in [Calls -> Seq(Work)] /\ \A d \in Calls \ {c} : todo'[d] = todo[d]
    BY <1>1 DEF StartReserve, IInv, TypeOK
  <1> QED
    BY <1>2, StartPreserves DEF StartReserve

LEMMA CheckExistingPreserves ==
    ASSUME IInv, NEW c \in Calls, CheckExisting(c)
    PROVE  IInv'
  <1>1. CASE Finish(c)
    BY <1>1, FinishTyped, CallMovesPreserves DEF CheckExisting, IInv
  <1>2. CASE Goto(c, "product") /\ UNCHANGED todo
    <2>1. /\ pc' \in [Calls -> Labels] /\ order' \in [Calls -> Orders \cup {None}]
          /\ todo' \in [Calls -> Seq(Work)] /\ OnlyCallMoves(c)
          /\ pc'[c] = "product" /\ order'[c] = order[c]
      BY <1>2, GotoTyped DEF IInv, Labels
    <2>2. order[c] \in Orders /\ pc[c] = "check"
      BY DEF CheckExisting, IInv, CallsInOrder, CallInOrder
    <2>3. CallInOrder(c)'
      BY <2>1, <2>2 DEF CallInOrder
    <2> QED
      BY <2>1, <2>2, <2>3, CallMovesPreserves DEF CheckExisting
  <1> QED
    BY <1>1, <1>2 DEF CheckExisting

LEMMA ReadProductPreserves ==
    ASSUME IInv, NEW c \in Calls, ReadProduct(c)
    PROVE  IInv'
  <1>1. order[c] \in Orders /\ pc[c] = "product" /\ todo[c] # <<>>
    BY DEF ReadProduct, IInv, CallsInOrder, CallInOrder
  <1>2. CASE Rollback(c)
    BY <1>2, RollbackPreserves
  <1>3. CASE Advance(c, "product") /\ UNCHANGED <<product, stockVars, rowVars>>
    <2>1. /\ pc' \in [Calls -> Labels] /\ order' \in [Calls -> Orders \cup {None}]
          /\ todo' \in [Calls -> Seq(Work)] /\ OnlyCallMoves(c)
          /\ pc'[c] = "product" /\ order'[c] = order[c]
      BY <1>1, <1>3, AdvanceTyped DEF IInv, Labels
    <2>2. CallInOrder(c)'
      BY <1>1, <2>1 DEF CallInOrder
    <2> QED
      BY <1>1, <1>3, <2>1, <2>2, CallMovesPreserves
  <1>4. CASE Goto(c, "upsert") /\ UNCHANGED <<product, stockVars, rowVars, todo>>
    <2>1. /\ pc' \in [Calls -> Labels] /\ order' \in [Calls -> Orders \cup {None}]
          /\ todo' \in [Calls -> Seq(Work)] /\ OnlyCallMoves(c)
          /\ pc'[c] = "upsert" /\ order'[c] = order[c] /\ todo'[c] = todo[c]
      BY <1>4, GotoTyped DEF IInv, Labels
    <2>2. CallInOrder(c)'
      BY <1>1, <2>1 DEF CallInOrder
    <2> QED
      BY <1>1, <1>4, <2>1, <2>2, CallMovesPreserves
  <1> QED
    BY <1>2, <1>3, <1>4 DEF ReadProduct

(* Rows written while the stock stays as it is keep the stock backed.      *)
LEMMA StockStaysBacked ==
    ASSUME IInv, NEW c \in Calls, UNCHANGED <<inv, cinv, ilock, cresv>>,
           \A k \in Keys : resv[k] # NoRow => resv'[k] # NoRow,
           \A k \in Keys : rlock[k] # None => rlock'[k] = rlock[k]
    PROVE  StockBacked'
  <1>1. ASSUME NEW p \in Products, inv[p].reserved > 0
        PROVE  \E o \in Orders :
                  \/ cresv[<<o, p>>] # NoRow
                  \/ rlock'[<<o, p>>] = ilock[p] /\ ilock[p] # None /\ resv'[<<o, p>>] # NoRow
    <2>1. PICK o \in Orders :
                  \/ cresv[<<o, p>>] # NoRow
                  \/ rlock[<<o, p>>] = ilock[p] /\ ilock[p] # None /\ resv[<<o, p>>] # NoRow
      BY <1>1 DEF IInv, StockBacked
    <2>2. <<o, p>> \in Keys
      BY DEF Keys
    <2> QED
      BY <2>1, <2>2
  <1> QED
    BY <1>1 DEF IInv, StockBacked

LEMMA UpsertPendingPreserves ==
    ASSUME IInv, NEW c \in Calls, UpsertPending(c)
    PROVE  IInv'
  <1>1. order[c] \in Orders /\ pc[c] = "upsert" /\ todo[c] # <<>>
    BY DEF UpsertPending, IInv, CallsInOrder, CallInOrder
  <1>2. CASE UpsertRefused(c) /\ Rollback(c)
    BY <1>2, RollbackPreserves
  <1>3. CASE /\ ~UpsertRefused(c)
             /\ WriteRow(c, [qty |-> Qty(c), status |-> "PENDING"])
             /\ Goto(c, "try")
             /\ UNCHANGED <<product, stockVars, todo>>
    <2> DEFINE row == [qty |-> Qty(c), status |-> "PENDING"]
    <2>1. /\ pc' \in [Calls -> Labels] /\ order' \in [Calls -> Orders \cup {None}]
          /\ todo' \in [Calls -> Seq(Work)] /\ OnlyCallMoves(c)
          /\ pc'[c] = "try" /\ order'[c] = order[c] /\ todo'[c] = todo[c]
      BY <1>3, GotoTyped DEF IInv, Labels
    <2>2. Qty(c) \in 1 .. MaxInt
      <3>1. Item(c).qty \in UInt
        BY <1>1, ItemTyped DEF IInv, Work
      <3>2. ~(Qty(c) <= 0) /\ Qty(c) \in Int
        BY <1>3, <3>1, ToInt32Range DEF UpsertRefused, Qty
      <3> QED
        BY <3>1, <3>2, ToInt32Range DEF Qty
    <2>3. row \in Row /\ row.status # "none" /\ row # NoRow
      BY <2>2, MaxIntAssumption DEF Row, Statuses, NoRow
    <2>4. product[Target(c)] \in Live
      BY <1>1, <1>3, ItemTyped DEF UpsertRefused, IInv, RowsHaveProducts, Key
    <2>5. /\ resv' \in [Keys -> Row] /\ rlock' \in [Keys -> Calls \cup {None}]
          /\ \A k \in Keys : rlock'[k] = None => resv'[k] = cresv'[k]
          /\ RowsStay' /\ RowsHaveProducts'
          /\ \A d \in Calls \ {c} : RowsKept(d)
          /\ \A k \in Keys : resv[k] # NoRow => resv'[k] # NoRow
          /\ \A k \in Keys : rlock[k] # None => rlock'[k] = rlock[k]
          /\ Key(c) \in Keys /\ rlock'[Key(c)] = c /\ resv'[Key(c)] = row
          /\ \A k \in Keys \ {Key(c)} : resv'[k] = resv[k]
          /\ cresv' = cresv
      BY <1>1, <1>3, <2>3, <2>4, WriteRowKeeps DEF UpsertPending
    <2>6. Key(c)' = Key(c) /\ Qty(c)' = Qty(c)
      BY <2>1 DEF Key, Target, Item, Qty
    <2>7. TypeOK'
      BY <1>3, <2>1, <2>5 DEF IInv, TypeOK, stockVars
    <2>8. OneVersionUnlessLocked' /\ SameTotal'
      BY <1>3, <2>5 DEF IInv, OneVersionUnlessLocked, SameTotal, stockVars
    <2>9. CallsInOrder'
      <3>1. CallInOrder(c)'
        BY <1>1, <2>1, <2>2, <2>3, <2>5, <2>6 DEF CallInOrder
      <3>2. ASSUME NEW d \in Calls \ {c} PROVE CallInOrder(d)'
        BY <2>1, <2>5, Undisturbed DEF IInv, CallsInOrder, OnlyCallMoves
      <3> QED
        BY <3>1, <3>2 DEF CallsInOrder
    <2>10. PendingInFlight'
      <3>1. ASSUME NEW k \in Keys, resv'[k].status = "PENDING", k # Key(c)
            PROVE  \E d \in Calls : pc'[d] = "try" /\ Key(d)' = k
        BY <2>1, <2>5, <3>1, PendingHasCall
      <3> QED
        BY <2>1, <2>5, <2>6, <3>1 DEF IInv, PendingInFlight
    <2>11. StockBacked'
      BY <1>3, <2>5, StockStaysBacked DEF stockVars
    <2> QED
      BY <2>5, <2>7, <2>8, <2>9, <2>10, <2>11 DEF IInv
  <1> QED
    BY <1>2, <1>3 DEF UpsertPending

(* The row TryReserve decides about is written FAILED or RESERVED, and no  *)
(* PENDING row of this call is left behind.                                *)
LEMMA DecidedRow ==
    ASSUME IInv, NEW c \in Calls, pc[c] = "try", NEW status \in {"FAILED", "RESERVED"},
           Mark(c, status), Advance(c, "product"), UNCHANGED product
    PROVE  /\ pc' \in [Calls -> Labels] /\ order' \in [Calls -> Orders \cup {None}]
           /\ todo' \in [Calls -> Seq(Work)]
           /\ resv' \in [Keys -> Row] /\ rlock' \in [Keys -> Calls \cup {None}]
           /\ cresv' = cresv
           /\ \A k \in Keys : rlock'[k] = None => resv'[k] = cresv'[k]
           /\ RowsStay' /\ RowsHaveProducts' /\ CallsInOrder' /\ PendingInFlight'
           /\ \A k \in Keys : resv[k] # NoRow => resv'[k] # NoRow
           /\ \A k \in Keys : rlock[k] # None => rlock'[k] = rlock[k]
           /\ order[c] \in Orders /\ Target(c) \in Products /\ Qty(c) \in 1 .. MaxInt
           /\ Key(c) \in Keys /\ Key(c) = <<order[c], Target(c)>>
           /\ rlock'[Key(c)] = c /\ resv'[Key(c)] # NoRow
  <1> DEFINE row == [resv[Key(c)] EXCEPT !.status = status]
  <1>1. /\ order[c] \in Orders /\ todo[c] # <<>>
        /\ rlock[Key(c)] = c /\ resv[Key(c)] # NoRow /\ Qty(c) \in 1 .. MaxInt
    BY DEF IInv, CallsInOrder, CallInOrder
  <1>2. /\ Key(c) \in Keys /\ Key(c) = <<order[c], Target(c)>>
        /\ Target(c) \in Products /\ Tail(todo[c]) \in Seq(Work)
    BY <1>1, KeyTyped, ItemTyped DEF IInv
  <1>3. row \in Row /\ row.status = status /\ row # NoRow
    <2>1. resv[Key(c)] \in Row
      BY <1>2 DEF IInv, TypeOK
    <2> QED
      BY <2>1 DEF Row, Statuses, NoRow
  <1>4. /\ pc' \in [Calls -> Labels] /\ order' \in [Calls -> Orders \cup {None}]
        /\ todo' \in [Calls -> Seq(Work)] /\ OnlyCallMoves(c)
        /\ pc'[c] = "product" /\ order'[c] = order[c]
    BY <1>1, AdvanceTyped DEF IInv, Labels
  <1>5. product[Target(c)] \in Live
    BY <1>1, <1>2 DEF IInv, RowsHaveProducts
  <1>6. /\ resv' \in [Keys -> Row] /\ rlock' \in [Keys -> Calls \cup {None}]
        /\ \A k \in Keys : rlock'[k] = None => resv'[k] = cresv'[k]
        /\ RowsStay' /\ RowsHaveProducts'
        /\ \A d \in Calls \ {c} : RowsKept(d)
        /\ \A k \in Keys : resv[k] # NoRow => resv'[k] # NoRow
        /\ \A k \in Keys : rlock[k] # None => rlock'[k] = rlock[k]
        /\ rlock'[Key(c)] = c /\ resv'[Key(c)] = row
        /\ \A k \in Keys \ {Key(c)} : resv'[k] = resv[k]
        /\ cresv' = cresv
    <2>1. RowFree(c) /\ WriteRow(c, row) /\ row.status # "none"
      BY <1>1, <1>3 DEF RowFree, Mark
    <2> QED
      BY <1>1, <1>3, <1>5, <2>1, WriteRowKeeps
  <1>7. CallsInOrder'
    <2>1. CallInOrder(c)'
      BY <1>1, <1>4 DEF CallInOrder
    <2>2. ASSUME NEW d \in Calls \ {c} PROVE CallInOrder(d)'
      BY <1>4, <1>6, Undisturbed DEF IInv, CallsInOrder, OnlyCallMoves
    <2> QED
      BY <2>1, <2>2 DEF CallsInOrder
  <1>8. PendingInFlight'
    <2>1. ASSUME NEW k \in Keys, resv'[k].status = "PENDING"
          PROVE  \E d \in Calls : pc'[d] = "try" /\ Key(d)' = k
      <3>1. k # Key(c)
        BY <1>3, <1>6, <2>1
      <3>2. resv[k].status = "PENDING"
        BY <1>6, <2>1, <3>1
      <3> QED
        BY <1>4, <3>1, <3>2, PendingHasCall
    <2> QED
      BY <1>6, <2>1 DEF IInv, PendingInFlight
  <1> QED
    BY <1>1, <1>2, <1>3, <1>4, <1>6, <1>7, <1>8

LEMMA TryReservePreserves ==
    ASSUME IInv, NEW c \in Calls, TryReserve(c)
    PROVE  IInv'
  <1> DEFINE p == Target(c)
  <1> DEFINE q == Qty(c)
  <1>1. CASE Rollback(c)
    BY <1>1, RollbackPreserves
  <1>2. CASE Mark(c, "FAILED") /\ Advance(c, "product") /\ UNCHANGED <<product, stockVars>>
    <2>1. pc[c] = "try"
      BY DEF TryReserve
    <2>2. /\ pc' \in [Calls -> Labels] /\ order' \in [Calls -> Orders \cup {None}]
          /\ todo' \in [Calls -> Seq(Work)]
          /\ resv' \in [Keys -> Row] /\ rlock' \in [Keys -> Calls \cup {None}]
          /\ cresv' = cresv
          /\ \A k \in Keys : rlock'[k] = None => resv'[k] = cresv'[k]
          /\ RowsStay' /\ RowsHaveProducts' /\ CallsInOrder' /\ PendingInFlight'
          /\ \A k \in Keys : resv[k] # NoRow => resv'[k] # NoRow
          /\ \A k \in Keys : rlock[k] # None => rlock'[k] = rlock[k]
      BY <1>2, <2>1, DecidedRow
    <2>3. TypeOK' /\ OneVersionUnlessLocked' /\ SameTotal'
      BY <1>2, <2>2 DEF IInv, TypeOK, OneVersionUnlessLocked, SameTotal, stockVars
    <2>4. StockBacked'
      BY <1>2, <2>2, StockStaysBacked DEF stockVars
    <2> QED
      BY <2>2, <2>3, <2>4 DEF IInv
  <1>3. CASE /\ Visible(c, p).available >= q /\ StockFree(c, p)
             /\ inv[p].reserved + q <= MaxInt
             /\ WriteStock(c, p, Taken(inv[p], q))
             /\ Mark(c, "RESERVED") /\ Advance(c, "product") /\ UNCHANGED product
    <2>1. pc[c] = "try"
      BY DEF TryReserve
    <2>2. /\ pc' \in [Calls -> Labels] /\ order' \in [Calls -> Orders \cup {None}]
          /\ todo' \in [Calls -> Seq(Work)]
          /\ resv' \in [Keys -> Row] /\ rlock' \in [Keys -> Calls \cup {None}]
          /\ cresv' = cresv
          /\ \A k \in Keys : rlock'[k] = None => resv'[k] = cresv'[k]
          /\ RowsStay' /\ RowsHaveProducts' /\ CallsInOrder' /\ PendingInFlight'
          /\ \A k \in Keys : resv[k] # NoRow => resv'[k] # NoRow
          /\ \A k \in Keys : rlock[k] # None => rlock'[k] = rlock[k]
          /\ order[c] \in Orders /\ p \in Products /\ q \in 1 .. MaxInt
          /\ Key(c) = <<order[c], p>> /\ rlock'[Key(c)] = c /\ resv'[Key(c)] # NoRow
      BY <1>3, <2>1, DecidedRow
    <2>3. inv[p] \in Stock /\ inv[p].available >= q
      BY <1>3, <2>2, FreeStockIsSeen DEF IInv, TypeOK
    <2>4. /\ Taken(inv[p], q) \in Stock
          /\ Taken(inv[p], q).available + Taken(inv[p], q).reserved
                = inv[p].available + inv[p].reserved
      BY <1>3, <2>2, <2>3, MaxIntAssumption DEF Taken, Stock
    <2>5. /\ inv' \in [Products -> Stock] /\ ilock' \in [Products -> Calls \cup {None}]
          /\ \A x \in Products : ilock'[x] = None => inv'[x] = cinv'[x]
          /\ SameTotal'
          /\ ilock'[p] = c
          /\ \A x \in Products \ {p} : inv'[x] = inv[x] /\ ilock'[x] = ilock[x]
          /\ cinv' = cinv
      BY <1>3, <2>2, <2>4, WriteStockKeeps
    <2>6. TypeOK' /\ OneVersionUnlessLocked'
      BY <1>3, <2>2, <2>5 DEF IInv, TypeOK, OneVersionUnlessLocked
    <2>7. StockBacked'
      <3>1. ASSUME NEW x \in Products, inv'[x].reserved > 0, x # p
            PROVE  \E o \in Orders :
                      \/ cresv[<<o, x>>] # NoRow
                      \/ /\ rlock'[<<o, x>>] = ilock'[x] /\ ilock'[x] # None
                         /\ resv'[<<o, x>>] # NoRow
        <4>1. inv[x].reserved > 0
          BY <2>5, <3>1
        <4>2. PICK o \in Orders :
                      \/ cresv[<<o, x>>] # NoRow
                      \/ rlock[<<o, x>>] = ilock[x] /\ ilock[x] # None /\ resv[<<o, x>>] # NoRow
          BY <4>1 DEF IInv, StockBacked
        <4>3. <<o, x>> \in Keys
          BY DEF Keys
        <4> QED
          BY <2>2, <2>5, <3>1, <4>2, <4>3
      <3>2. \E o \in Orders :
                rlock'[<<o, p>>] = ilock'[p] /\ ilock'[p] # None /\ resv'[<<o, p>>] # NoRow
        <4>1. /\ rlock'[<<order[c], p>>] = ilock'[p] /\ ilock'[p] # None
              /\ resv'[<<order[c], p>>] # NoRow
          BY <2>2, <2>5, NoneAssumption
        <4> HIDE DEF p
        <4> QED
          BY <2>2, <4>1
      <3>3. \A x \in Products : cinv'[x].reserved > 0 => \E o \in Orders : cresv'[<<o, x>>] # NoRow
        BY <2>2, <2>5 DEF IInv, StockBacked
      <3> HIDE DEF p, q
      <3> QED
        BY <2>2, <3>1, <3>2, <3>3 DEF StockBacked
    <2> QED
      BY <2>2, <2>5, <2>6, <2>7 DEF IInv
  <1> QED
    BY <1>1, <1>2, <1>3 DEF TryReserve

-----------------------------------------------------------------------------
(* The steps of Release and Confirm.                                       *)

LEMMA ListByOrderPreserves ==
    ASSUME IInv, NEW c \in Calls, ListByOrder(c)
    PROVE  IInv'
  <1>1. order[c] \in Orders /\ pc[c] # "try"
    BY DEF ListByOrder, IInv, CallsInOrder, CallInOrder
  <1>2. PICK rows \in Listing(order[c]) : todo' = [todo EXCEPT ![c] = rows]
    BY DEF ListByOrder
  <1>3. /\ rows \in Seq(Work)
        /\ \A i \in 1 .. Len(rows) :
              cresv[<<order[c], rows[i].product>>] # NoRow /\ rows[i].qty \in 0 .. MaxInt
    BY <1>1, ListingTyped DEF IInv
  <1>4. PICK label \in {"release", "confirm"} : Goto(c, label)
    BY DEF ListByOrder
  <1>5. /\ pc' \in [Calls -> Labels] /\ order' \in [Calls -> Orders \cup {None}]
        /\ todo' \in [Calls -> Seq(Work)] /\ OnlyCallMoves(c)
        /\ pc'[c] = label /\ order'[c] = order[c] /\ todo'[c] = rows
    BY <1>2, <1>3, <1>4 DEF Goto, OnlyCallMoves, IInv, TypeOK, Labels
  <1>6. cresv' = cresv
    BY DEF ListByOrder, rowVars
  <1>7. CallInOrder(c)'
    BY <1>1, <1>3, <1>5, <1>6 DEF CallInOrder
  <1> QED
    BY <1>1, <1>5, <1>7, CallMovesPreserves DEF ListByOrder

(* A call that goes through listed rows still has good rows ahead.         *)
LEMMA ReleaseStockPreserves ==
    ASSUME IInv, NEW c \in Calls, ReleaseStock(c)
    PROVE  IInv'
  <1> DEFINE p == Target(c)
  <1> DEFINE q == Qty(c)
  <1>1. order[c] \in Orders /\ pc[c] = "release" /\ todo[c] # <<>>
    BY DEF ReleaseStock, IInv, CallsInOrder, CallInOrder
  <1>2. p \in Products /\ q \in 0 .. MaxInt /\ cresv[<<order[c], p>>] # NoRow
    <2>1. Item(c) \in Work /\ p \in Products /\ Item(c) = todo[c][1] /\ 1 \in 1 .. Len(todo[c])
      BY <1>1, ItemTyped DEF IInv
    <2>2. Item(c).qty \in 0 .. MaxInt /\ cresv[<<order[c], p>>] # NoRow
      BY <1>1, <2>1 DEF IInv, CallsInOrder, CallInOrder, Target
    <2>3. Item(c).qty \in UInt
      BY <2>1 DEF Work
    <2> QED
      BY <2>1, <2>2, <2>3, ToInt32Range DEF Qty
  <1>3. CASE Rollback(c)
    BY <1>3, RollbackPreserves
  <1>4. ASSUME Goto(c, "mark"), UNCHANGED <<product, rowVars, todo>>
        PROVE  /\ pc' \in [Calls -> Labels] /\ order' \in [Calls -> Orders \cup {None}]
               /\ todo' \in [Calls -> Seq(Work)] /\ OnlyCallMoves(c)
               /\ CallInOrder(c)'
    <2>1. /\ pc' \in [Calls -> Labels] /\ order' \in [Calls -> Orders \cup {None}]
          /\ todo' \in [Calls -> Seq(Work)] /\ OnlyCallMoves(c)
          /\ pc'[c] = "mark" /\ order'[c] = order[c] /\ todo'[c] = todo[c]
      BY <1>4, GotoTyped DEF IInv, Labels
    <2>2. CallInOrder(c)'
      BY <1>1, <1>4, <2>1 DEF IInv, CallsInOrder, CallInOrder, rowVars
    <2> QED
      BY <2>1, <2>2
  <1>5. CASE Goto(c, "mark") /\ UNCHANGED <<product, stockVars, rowVars, todo>>
    BY <1>1, <1>4, <1>5, CallMovesPreserves
  <1>6. CASE /\ Visible(c, p).reserved >= q /\ StockFree(c, p)
             /\ inv[p].available + q <= MaxInt
             /\ WriteStock(c, p, Returned(inv[p], q))
             /\ Goto(c, "mark") /\ UNCHANGED <<product, rowVars, todo>>
    <2>1. inv[p] \in Stock /\ inv[p].reserved >= q
      BY <1>2, <1>6, FreeStockIsSeen DEF IInv, TypeOK
    <2>2. /\ Returned(inv[p], q) \in Stock
          /\ Returned(inv[p], q).available + Returned(inv[p], q).reserved
                = inv[p].available + inv[p].reserved
      BY <1>2, <1>6, <2>1, MaxIntAssumption DEF Returned, Stock
    <2>3. /\ inv' \in [Products -> Stock] /\ ilock' \in [Products -> Calls \cup {None}]
          /\ \A x \in Products : ilock'[x] = None => inv'[x] = cinv'[x]
          /\ SameTotal'
          /\ \A x \in Products \ {p} : inv'[x] = inv[x] /\ ilock'[x] = ilock[x]
          /\ cinv' = cinv
      BY <1>2, <1>6, <2>2, WriteStockKeeps
    <2>4. TypeOK' /\ OneVersionUnlessLocked' /\ RowsStay' /\ RowsHaveProducts'
      BY <1>4, <1>6, <2>3
         DEF IInv, TypeOK, OneVersionUnlessLocked, RowsStay, RowsHaveProducts, rowVars
    <2>5. CallsInOrder'
      <3>1. ASSUME NEW d \in Calls \ {c} PROVE CallInOrder(d)'
        BY <1>4, <1>6, Undisturbed DEF IInv, CallsInOrder, OnlyCallMoves, RowsKept, rowVars
      <3> QED
        BY <1>4, <1>6, <3>1 DEF CallsInOrder
    <2>6. PendingInFlight'
      BY <1>1, <1>4, <1>6, PendingHasCall DEF IInv, PendingInFlight, rowVars
    <2>7. StockBacked'
      <3>1. ASSUME NEW x \in Products, inv'[x].reserved > 0
            PROVE  \E o \in Orders :
                      \/ cresv[<<o, x>>] # NoRow
                      \/ rlock[<<o, x>>] = ilock'[x] /\ ilock'[x] # None /\ resv[<<o, x>>] # NoRow
        <4>1. CASE x = p
          <5> HIDE DEF p
          <5> QED
            BY <1>1, <1>2, <4>1
        <4>2. CASE x # p
          BY <2>3, <3>1, <4>2 DEF IInv, StockBacked
        <4> QED
          BY <4>1, <4>2
      <3> QED
        BY <1>6, <2>3, <3>1 DEF IInv, StockBacked, rowVars
    <2> QED
      BY <2>3, <2>4, <2>5, <2>6, <2>7 DEF IInv
  <1> QED
    BY <1>3, <1>5, <1>6 DEF ReleaseStock

(* The rows that follow the one a call is done with are listed rows too.   *)
LEMMA NextListedRow ==
    ASSUME IInv, NEW c \in Calls, order[c] \in Orders, todo[c] # <<>>,
           pc[c] \in {"mark", "confirm"}, NEW label \in {"release", "confirm"},
           Advance(c, label), UNCHANGED cresv
    PROVE  CallInOrder(c)'
  <1>1. pc'[c] = label /\ order'[c] = order[c] /\ todo'[c] = Tail(todo[c])
    BY AdvanceTyped DEF IInv, Labels
  <1>2. \A i \in 1 .. Len(Tail(todo[c])) :
            /\ cresv[<<order[c], Tail(todo[c])[i].product>>] # NoRow
            /\ Tail(todo[c])[i].qty \in 0 .. MaxInt
    <2>1. \A i \in 1 .. Len(todo[c]) :
              /\ cresv[<<order[c], todo[c][i].product>>] # NoRow
              /\ todo[c][i].qty \in 0 .. MaxInt
      BY DEF IInv, CallsInOrder, CallInOrder
    <2>2. \A i \in 1 .. Len(Tail(todo[c])) :
              i + 1 \in 1 .. Len(todo[c]) /\ Tail(todo[c])[i] = todo[c][i + 1]
      BY ItemTyped DEF IInv
    <2> QED
      BY <2>1, <2>2
  <1> QED
    BY <1>1, <1>2 DEF CallInOrder

LEMMA MarkReleasedPreserves ==
    ASSUME IInv, NEW c \in Calls, MarkReleased(c)
    PROVE  IInv'
  <1> DEFINE row == [resv[Key(c)] EXCEPT !.status = "RELEASED"]
  <1>1. order[c] \in Orders /\ pc[c] = "mark" /\ todo[c] # <<>>
    BY DEF MarkReleased, IInv, CallsInOrder, CallInOrder
  <1>2. /\ pc' \in [Calls -> Labels] /\ order' \in [Calls -> Orders \cup {None}]
        /\ todo' \in [Calls -> Seq(Work)] /\ OnlyCallMoves(c)
    BY <1>1, AdvanceTyped DEF IInv, Labels, MarkReleased
  <1>3. Key(c) \in Keys /\ Key(c) = <<order[c], Target(c)>> /\ Target(c) \in Products
    BY <1>1, KeyTyped, ItemTyped DEF IInv
  <1>4. resv[Key(c)] # NoRow /\ product[Target(c)] \in Live
    <2>1. cresv[<<order[c], Target(c)>>] # NoRow
      BY <1>1, ItemTyped DEF IInv, CallsInOrder, CallInOrder, Target
    <2> QED
      BY <1>1, <1>3, <2>1 DEF IInv, RowsStay, RowsHaveProducts
  <1>5. row \in Row /\ row.status = "RELEASED"
    <2>1. resv[Key(c)] \in Row
      BY <1>3 DEF IInv, TypeOK
    <2> QED
      BY <2>1 DEF Row, Statuses
  <1>6. /\ resv' \in [Keys -> Row] /\ rlock' \in [Keys -> Calls \cup {None}]
        /\ \A k \in Keys : rlock'[k] = None => resv'[k] = cresv'[k]
        /\ RowsStay' /\ RowsHaveProducts'
        /\ \A d \in Calls \ {c} : RowsKept(d)
        /\ \A k \in Keys : resv[k] # NoRow => resv'[k] # NoRow
        /\ \A k \in Keys : rlock[k] # None => rlock'[k] = rlock[k]
        /\ resv'[Key(c)] = row
        /\ \A k \in Keys \ {Key(c)} : resv'[k] = resv[k]
        /\ cresv' = cresv
    <2>1. RowFree(c) /\ WriteRow(c, row) /\ row.status # "none" /\ UNCHANGED product
      BY <1>5 DEF MarkReleased, Mark
    <2> QED
      BY <1>1, <1>4, <1>5, <2>1, WriteRowKeeps
  <1>7. product' = product /\ UNCHANGED stockVars
    BY DEF MarkReleased
  <1>8. TypeOK' /\ OneVersionUnlessLocked' /\ SameTotal'
    BY <1>2, <1>6, <1>7 DEF IInv, TypeOK, OneVersionUnlessLocked, SameTotal, stockVars
  <1>9. CallsInOrder'
    <2>1. CallInOrder(c)'
      BY <1>1, <1>6, NextListedRow DEF MarkReleased
    <2>2. ASSUME NEW d \in Calls \ {c} PROVE CallInOrder(d)'
      BY <1>2, <1>6, Undisturbed DEF IInv, CallsInOrder, OnlyCallMoves
    <2> QED
      BY <2>1, <2>2 DEF CallsInOrder
  <1>10. PendingInFlight'
    <2>1. ASSUME NEW k \in Keys, resv'[k].status = "PENDING"
          PROVE  \E d \in Calls : pc'[d] = "try" /\ Key(d)' = k
      <3>1. resv[k].status = "PENDING"
        BY <1>5, <1>6, <2>1
      <3> QED
        BY <1>1, <1>2, <3>1, PendingHasCall
    <2> QED
      BY <1>6, <2>1 DEF IInv, PendingInFlight
  <1>11. StockBacked'
    BY <1>6, <1>7, StockStaysBacked DEF stockVars
  <1> QED
    BY <1>6, <1>8, <1>9, <1>10, <1>11 DEF IInv

(* Confirm compares a reservation's id with product ids, and no product    *)
(* has that id: its UPDATE touches no stock row.                           *)
LEMMA ConfirmTouchesNoStock ==
    ASSUME IInv, NEW c \in Calls, ConfirmStock(c)
    PROVE  UNCHANGED stockVars
  <1>1. order[c] \in Orders /\ todo[c] # <<>>
    BY DEF ConfirmStock, IInv, CallsInOrder, CallInOrder
  <1>2. ReservationId(order[c], Target(c)) \notin Products
    BY <1>1, ItemTyped, IdsAssumption DEF ReservationId, IInv
  <1>3. \A p \in Products : inv'[p] = inv[p] /\ ilock'[p] = ilock[p]
    BY <1>2 DEF ConfirmStock
  <1>4. /\ inv' = [p \in Products |-> inv'[p]] /\ ilock' = [p \in Products |-> ilock'[p]]
        /\ cinv' = cinv
    BY DEF ConfirmStock
  <1>5. inv = [p \in Products |-> inv[p]] /\ ilock = [p \in Products |-> ilock[p]]
    BY DEF IInv, TypeOK
  <1>6. inv' = inv /\ ilock' = ilock
    BY <1>3, <1>4, <1>5
  <1> QED
    BY <1>4, <1>6 DEF stockVars

LEMMA ConfirmStockPreserves ==
    ASSUME IInv, NEW c \in Calls, ConfirmStock(c)
    PROVE  IInv'
  <1>1. order[c] \in Orders /\ pc[c] = "confirm" /\ todo[c] # <<>>
    BY DEF ConfirmStock, IInv, CallsInOrder, CallInOrder
  <1>2. Advance(c, "confirm") /\ UNCHANGED <<product, stockVars, rowVars>>
    BY ConfirmTouchesNoStock DEF ConfirmStock
  <1>3. /\ pc' \in [Calls -> Labels] /\ order' \in [Calls -> Orders \cup {None}]
        /\ todo' \in [Calls -> Seq(Work)] /\ OnlyCallMoves(c)
    BY <1>1, <1>2, AdvanceTyped DEF IInv, Labels
  <1>4. CallInOrder(c)'
    BY <1>1, <1>2, NextListedRow DEF rowVars
  <1> QED
    BY <1>1, <1>2, <1>3, <1>4, CallMovesPreserves

-----------------------------------------------------------------------------
(* The catalogue, and the deletion of products.                            *)

LEMMA CataloguePreserves ==
    ASSUME IInv, Catalogue
    PROVE  IInv'
  <1>1. UNCHANGED <<ilock, rowVars, callVars>>
    BY DEF Catalogue, CreateProduct, UpdateProduct, SetStock, AdjustStock, stockVars
  <1>2. PICK p \in Products :
            \/ CreateProduct(p)
            \/ \E status \in Live : UpdateProduct(p, status)
            \/ \E n \in StockArgs : SetStock(p, n) \/ AdjustStock(p, n)
    BY DEF Catalogue
  <1>3. /\ product' \in [Products -> Live \cup {"unborn", "deleted"}]
        /\ \A x \in Products : product[x] \in Live => product'[x] \in Live
    BY <1>2 DEF CreateProduct, UpdateProduct, SetStock, AdjustStock, IInv, TypeOK, Live
  <1>4. /\ inv' \in [Products -> Stock] /\ cinv' \in [Products -> Stock]
        /\ \A x \in Products : ilock[x] = None => inv'[x] = cinv'[x]
        /\ \A x \in Products : /\ inv'[x].reserved = inv[x].reserved
                             /\ cinv'[x].reserved = cinv[x].reserved
        /\ \A x \in Products : ilock[x] # None => inv'[x] = inv[x] /\ cinv'[x] = cinv[x]
    <2>1. CASE UNCHANGED stockVars
      BY <2>1 DEF stockVars, IInv, TypeOK, OneVersionUnlessLocked
    <2>2. CASE \E n \in StockArgs : SetStock(p, n) \/ AdjustStock(p, n)
      <3>1. PICK n \in 0 .. MaxInt :
                /\ ilock[p] = None
                /\ inv' = [inv EXCEPT ![p].available = n]
                /\ cinv' = [cinv EXCEPT ![p].available = n]
        <4>1. PICK d \in StockArgs : SetStock(p, d) \/ AdjustStock(p, d)
          BY <2>2
        <4>2. CASE SetStock(p, d)
          BY <4>2 DEF SetStock
        <4>3. CASE AdjustStock(p, d)
          <5>1. ilock[p] = None /\ cinv[p] = inv[p] /\ inv[p].available + d \in 0 .. MaxInt
            BY <4>3 DEF AdjustStock, IInv, OneVersionUnlessLocked
          <5>2. /\ inv' = [inv EXCEPT ![p].available = inv[p].available + d]
                /\ cinv' = [cinv EXCEPT ![p].available = cinv[p].available + d]
            BY <4>3 DEF AdjustStock
          <5> QED
            BY <5>1, <5>2
        <4> QED
          BY <4>1, <4>2, <4>3
      <3>2. inv \in [Products -> Stock] /\ cinv \in [Products -> Stock] /\ inv[p] = cinv[p]
        BY <3>1 DEF IInv, TypeOK, OneVersionUnlessLocked
      <3>3. \A x \in Products \ {p} : inv'[x] = inv[x] /\ cinv'[x] = cinv[x]
        BY <3>1, <3>2
      <3>4. inv'[p] = [inv[p] EXCEPT !.available = n] /\ cinv'[p] = inv'[p]
        BY <3>1, <3>2
      <3>5. inv'[p] \in Stock /\ inv'[p].reserved = inv[p].reserved
        BY <3>2, <3>4 DEF Stock
      <3>6. inv' \in [Products -> Stock] /\ cinv' \in [Products -> Stock]
        BY <3>1, <3>2, <3>3, <3>4, <3>5
      <3>7. \A x \in Products : ilock[x] = None => inv'[x] = cinv'[x]
        BY <3>3, <3>4 DEF IInv, OneVersionUnlessLocked
      <3> QED
        BY <3>1, <3>2, <3>3, <3>4, <3>5, <3>6, <3>7
    <2> QED
      BY <1>2, <2>1, <2>2 DEF CreateProduct, UpdateProduct
  <1>5. TypeOK' /\ OneVersionUnlessLocked' /\ RowsStay'
    BY <1>1, <1>3, <1>4 DEF IInv, TypeOK, OneVersionUnlessLocked, RowsStay, rowVars, callVars
  <1>6. CallsInOrder'
    <2>1. ASSUME NEW d \in Calls PROVE CallInOrder(d)'
      BY <1>1, Undisturbed DEF IInv, CallsInOrder, RowsKept, rowVars, callVars
    <2> QED
      BY <2>1 DEF CallsInOrder
  <1>7. PendingInFlight'
    BY <1>1 DEF IInv, PendingInFlight, Key, Target, Item, rowVars, callVars
  <1>8. RowsHaveProducts' /\ StockBacked'
    BY <1>1, <1>3, <1>4 DEF IInv, RowsHaveProducts, StockBacked, rowVars
  <1>9. SameTotal'
    BY <1>4 DEF IInv, SameTotal
  <1> QED
    BY <1>5, <1>6, <1>7, <1>8, <1>9 DEF IInv

LEMMA StartDeletePreserves ==
    ASSUME IInv, NEW c \in Calls, NEW p \in Products, StartDelete(c, p)
    PROVE  IInv'
  <1> DEFINE item == [product |-> p, qty |-> 0, held |-> FALSE]
  <1>1. item \in Work
    BY MaxIntAssumption DEF Work, UInt
  <1>2. <<item>> \in Seq(Work) /\ <<item>> # <<>>
    <2> HIDE DEF item
    <2> QED
      BY <1>1
  <1>3. /\ pc' \in [Calls -> Labels] /\ order' \in [Calls -> Orders \cup {None}]
        /\ todo' \in [Calls -> Seq(Work)] /\ OnlyCallMoves(c)
        /\ pc[c] = "idle" /\ pc'[c] = "delete" /\ todo'[c] # <<>>
    <2>1. pc' = [pc EXCEPT ![c] = "delete"] /\ todo' = [todo EXCEPT ![c] = <<item>>]
          /\ order' = order /\ pc[c] = "idle"
      BY DEF StartDelete
    <2> HIDE DEF item
    <2> QED
      BY <1>2, <2>1 DEF OnlyCallMoves, IInv, TypeOK, Labels
  <1>4. CallInOrder(c)'
    BY <1>3 DEF CallInOrder
  <1> QED
    BY <1>3, <1>4, CallMovesPreserves DEF StartDelete

(* A product whose deletion goes through has no row, committed or not, and *)
(* therefore no reserved stock.                                            *)
LEMMA DeletedHasNothing ==
    ASSUME IInv, NEW p \in Products, ~DeleteRefused(p), ~KeyShared(p), ilock[p] = None
    PROVE  /\ \A o \in Orders : resv[<<o, p>>] = NoRow /\ cresv[<<o, p>>] = NoRow
           /\ cinv[p].reserved = 0
  <1>1. ASSUME NEW o \in Orders
        PROVE  resv[<<o, p>>] = NoRow /\ cresv[<<o, p>>] = NoRow
    <2>1. <<o, p>> \in Keys
      BY DEF Keys
    <2>2. cresv[<<o, p>>] = NoRow
      BY <2>1 DEF DeleteRefused, IInv, RowsStay
    <2>3. rlock[<<o, p>>] = None
      BY <2>2 DEF KeyShared
    <2> QED
      BY <2>1, <2>2, <2>3 DEF IInv, OneVersionUnlessLocked
  <1>2. cinv[p].reserved \in Nat
    BY MaxIntAssumption DEF IInv, TypeOK, Stock
  <1>3. cinv[p].reserved > 0 => \E o \in Orders : cresv[<<o, p>>] # NoRow
    BY DEF IInv, StockBacked
  <1>4. ~(cinv[p].reserved > 0)
    BY <1>1, <1>3
  <1>5. ASSUME NEW n \in Nat, ~(n > 0) PROVE n = 0
    BY <1>5
  <1>6. cinv[p].reserved = 0
    BY <1>2, <1>4, <1>5
  <1> QED
    BY <1>1, <1>6

LEMMA DeletePreserves ==
    ASSUME IInv, NEW c \in Calls, Delete(c)
    PROVE  IInv'
  <1> DEFINE p == Target(c)
  <1>1. pc[c] = "delete" /\ todo[c] # <<>> /\ p \in Products
    BY ItemTyped DEF Delete, IInv, CallsInOrder, CallInOrder
  <1>2. /\ pc' \in [Calls -> Labels] /\ order' \in [Calls -> Orders \cup {None}]
        /\ todo' \in [Calls -> Seq(Work)] /\ OnlyCallMoves(c) /\ CallInOrder(c)'
    BY FinishTyped DEF Delete, IInv
  <1>3. CASE UNCHANGED <<product, stockVars>>
    BY <1>1, <1>2, <1>3, CallMovesPreserves DEF Delete
  <1>4. CASE /\ ~DeleteRefused(p)
             /\ product' = [product EXCEPT ![p] = "deleted"]
             /\ inv' = [inv EXCEPT ![p] = NoStock]
             /\ cinv' = [cinv EXCEPT ![p] = NoStock]
             /\ UNCHANGED ilock
    <2>1. \A o \in Orders : resv[<<o, p>>] = NoRow /\ cresv[<<o, p>>] = NoRow
      BY <1>1, <1>4, DeletedHasNothing DEF Delete
    <2>2. NoStock \in Stock /\ NoStock.reserved = 0
      BY MaxIntAssumption DEF Stock, NoStock
    <2>3. /\ product' \in [Products -> Live \cup {"unborn", "deleted"}]
          /\ inv' \in [Products -> Stock] /\ cinv' \in [Products -> Stock]
          /\ \A x \in Products \ {p} :
                product'[x] = product[x] /\ inv'[x] = inv[x] /\ cinv'[x] = cinv[x]
          /\ inv'[p] = NoStock /\ cinv'[p] = NoStock
          /\ UNCHANGED rowVars
      <3> HIDE DEF p
      <3> QED
        BY <1>1, <1>4, <2>2 DEF IInv, TypeOK, Delete
    <2>4. TypeOK' /\ RowsStay'
      BY <1>2, <1>4, <2>3 DEF IInv, TypeOK, RowsStay, rowVars
    <2>5. OneVersionUnlessLocked' /\ SameTotal' /\ StockBacked'
      <3> HIDE DEF p
      <3>1. OneVersionUnlessLocked'
        BY <1>4, <2>3 DEF IInv, OneVersionUnlessLocked, rowVars
      <3>2. SameTotal'
        BY <2>3 DEF IInv, SameTotal
      <3>3. StockBacked'
        BY <1>4, <2>2, <2>3 DEF IInv, StockBacked, rowVars
      <3> QED
        BY <3>1, <3>2, <3>3
    <2>6. RowsHaveProducts'
      <3> HIDE DEF p
      <3> QED
        BY <2>1, <2>3 DEF IInv, RowsHaveProducts, rowVars
    <2>7. CallsInOrder'
      <3>1. ASSUME NEW d \in Calls \ {c} PROVE CallInOrder(d)'
        BY <1>2, <2>3, Undisturbed DEF IInv, CallsInOrder, OnlyCallMoves, RowsKept, rowVars
      <3> QED
        BY <1>2, <3>1 DEF CallsInOrder
    <2>8. PendingInFlight'
      BY <1>1, <1>2, <2>3, PendingHasCall DEF IInv, PendingInFlight, rowVars
    <2> QED
      BY <2>4, <2>5, <2>6, <2>7, <2>8 DEF IInv
  <1> QED
    BY <1>3, <1>4 DEF Delete

-----------------------------------------------------------------------------
(* The invariant and what follows from it.                                 *)

LEMMA InitEstablishes == Init => IInv
  <1> SUFFICES ASSUME Init PROVE IInv
    OBVIOUS
  <1>1. NoStock \in Stock /\ NoStock.reserved = 0 /\ NoRow \in Row /\ NoRow.status = "none"
    BY MaxIntAssumption DEF NoStock, Stock, NoRow, Row, Statuses
  <1>2. <<>> \in Seq(Work)
    OBVIOUS
  <1>3. TypeOK
    BY <1>1, <1>2 DEF Init, TypeOK, Labels
  <1>4. OneVersionUnlessLocked /\ RowsStay /\ SameTotal
    BY DEF Init, OneVersionUnlessLocked, RowsStay, SameTotal, NoRow
  <1>5. CallsInOrder
    BY DEF Init, CallsInOrder, CallInOrder
  <1>6. PendingInFlight /\ RowsHaveProducts /\ StockBacked
    BY <1>1 DEF Init, PendingInFlight, RowsHaveProducts, StockBacked, Keys
  <1> QED
    BY <1>3, <1>4, <1>5, <1>6 DEF IInv

LEMMA StepPreserves == IInv /\ [Next]_vars => IInv'
  <1> SUFFICES ASSUME IInv, [Next]_vars PROVE IInv'
    OBVIOUS
  <1>1. CASE UNCHANGED vars
    <2>1. UNCHANGED <<product, inv, cinv, ilock, resv, cresv, rlock, pc, order, todo>>
      BY <1>1 DEF vars
    <2>2. CallsInOrder' /\ PendingInFlight'
      BY <2>1 DEF IInv, CallsInOrder, CallInOrder, PendingInFlight, Key, Target, Item, Qty
    <2>3. TypeOK' /\ OneVersionUnlessLocked' /\ RowsStay' /\ RowsHaveProducts'
      BY <2>1 DEF IInv, TypeOK, OneVersionUnlessLocked, RowsStay, RowsHaveProducts
    <2>4. StockBacked' /\ SameTotal'
      BY <2>1 DEF IInv, StockBacked, SameTotal
    <2> QED
      BY <2>2, <2>3, <2>4 DEF IInv
  <1>2. ASSUME NEW c \in Calls, Begin(c) PROVE IInv'
    <2>1. ASSUME NEW o \in Orders, NEW items \in ItemLists, StartReserve(c, o, items) PROVE IInv'
      BY <2>1, StartReservePreserves
    <2>2. ASSUME NEW o \in Orders, StartRelease(c, o) \/ StartConfirm(c, o) PROVE IInv'
      <3>1. todo' \in [Calls -> Seq(Work)] /\ \A d \in Calls \ {c} : todo'[d] = todo[d]
        BY <2>2 DEF StartRelease, StartConfirm, IInv, TypeOK
      <3> QED
        BY <2>2, <3>1, StartPreserves DEF StartRelease, StartConfirm
    <2>3. ASSUME NEW p \in Products, StartDelete(c, p) PROVE IInv'
      BY <2>3, StartDeletePreserves
    <2> QED
      BY <1>2, <2>1, <2>2, <2>3 DEF Begin
  <1>3. ASSUME NEW c \in Calls, Step(c) PROVE IInv'
    BY <1>3, CheckExistingPreserves, ReadProductPreserves, UpsertPendingPreserves,
       TryReservePreserves, ListByOrderPreserves, ReleaseStockPreserves,
       MarkReleasedPreserves, ConfirmStockPreserves, CommitPreserves, DeletePreserves
       DEF Step
  <1>4. ASSUME NEW c \in Calls, Abort(c) \/ DeadlockVictim(c) PROVE IInv'
    BY <1>4, RollbackPreserves DEF Abort, DeadlockVictim
  <1>5. CASE Catalogue
    BY <1>5, CataloguePreserves
  <1> QED
    BY <1>1, <1>2, <1>3, <1>4, <1>5 DEF Next

(* The inductive invariant holds of every reachable state.                 *)
THEOREM Invariance == Spec => []IInv
  BY InitEstablishes, StepPreserves, PTL DEF Spec

(* The columns keep their ranges, whatever int32 is and whatever calls     *)
(* interleave: the database never has to refuse a negative stock column.   *)
THEOREM TypeCorrect == Spec => []TypeOK
  <1>1. IInv => TypeOK
    BY DEF IInv
  <1> QED
    BY <1>1, Invariance, PTL

(* A PENDING row is never committed.                                       *)
THEOREM PendingNeverCommitted == Spec => []NoCommittedPending
  <1>1. IInv => NoCommittedPending
    BY DEF IInv, PendingInFlight, NoCommittedPending
  <1> QED
    BY <1>1, Invariance, PTL

(* A product with reserved units has a reservation row.                    *)
THEOREM ReservedStockHasRow == Spec => []ReservedHasRow
  <1>1. IInv => ReservedHasRow
    BY DEF IInv, StockBacked, ReservedHasRow
  <1> QED
    BY <1>1, Invariance, PTL

(* A reservation row always refers to a product that exists.               *)
THEOREM RowsReferToProducts == Spec => []RowsHaveProducts
  <1>1. IInv => RowsHaveProducts
    BY DEF IInv
  <1> QED
    BY <1>1, Invariance, PTL

(* No call but SetStock, AdjustStock and DeleteProduct changes how many    *)
(* units a product has in all, and a deletion takes no reserved unit.      *)
LEMMA StepConserves ==
    ASSUME IInv, Next, NEW p \in Products
    PROVE  \/ Catalogue
           \/ cinv'[p].available + cinv'[p].reserved = cinv[p].available + cinv[p].reserved
           \/ product'[p] = "deleted" /\ cinv[p].reserved = 0
  <1>1. CASE cinv' = cinv
    BY <1>1
  <1>2. ASSUME NEW c \in Calls, Commit(c)
        PROVE  cinv'[p].available + cinv'[p].reserved = cinv[p].available + cinv[p].reserved
    <2>1. cinv'[p] = IF ilock[p] = c THEN inv[p] ELSE cinv[p]
      BY <1>2 DEF Commit
    <2> QED
      BY <2>1 DEF IInv, SameTotal
  <1>3. ASSUME NEW c \in Calls, Delete(c), cinv' # cinv
        PROVE  \/ cinv'[p] = cinv[p]
               \/ product'[p] = "deleted" /\ cinv[p].reserved = 0
    <2> DEFINE d == Target(c)
    <2>1. d \in Products /\ ~KeyShared(d) /\ ilock[d] = None
      BY <1>3, ItemTyped DEF Delete, IInv, CallsInOrder, CallInOrder
    <2>2. /\ ~DeleteRefused(d)
          /\ product' = [product EXCEPT ![d] = "deleted"]
          /\ cinv' = [cinv EXCEPT ![d] = NoStock]
      BY <1>3 DEF Delete, stockVars
    <2>3. cinv[d].reserved = 0
      BY <2>1, <2>2, DeletedHasNothing
    <2>4. product \in [Products -> Live \cup {"unborn", "deleted"}] /\ cinv \in [Products -> Stock]
      BY DEF IInv, TypeOK
    <2> HIDE DEF d
    <2>5. CASE p = d
      BY <2>1, <2>2, <2>3, <2>4, <2>5
    <2>6. CASE p # d
      BY <2>1, <2>2, <2>4, <2>6
    <2> QED
      BY <2>5, <2>6
  <1>4. \/ cinv' = cinv
        \/ \E c \in Calls : Commit(c) \/ Delete(c)
        \/ Catalogue
    <2>1. ASSUME NEW c \in Calls, Begin(c) PROVE cinv' = cinv
      BY <2>1 DEF Begin, StartReserve, StartRelease, StartConfirm, StartDelete, Start, stockVars
    <2>2. ASSUME NEW c \in Calls, Rollback(c) PROVE cinv' = cinv
      BY <2>2 DEF Rollback
    <2>3. ASSUME NEW c \in Calls, Step(c) PROVE cinv' = cinv \/ Commit(c) \/ Delete(c)
      BY <2>2, <2>3 DEF Step, CheckExisting, ReadProduct, UpsertPending, TryReserve, ListByOrder,
         ReleaseStock, MarkReleased, ConfirmStock, WriteStock, stockVars
    <2> QED
      BY <2>1, <2>2, <2>3 DEF Next, Abort, DeadlockVictim
  <1> QED
    BY <1>1, <1>2, <1>3, <1>4

THEOREM StockIsConserved == Spec => StockConserved
  <1>1. IInv /\ [Next]_vars =>
           [\A p \in Products :
              \/ Catalogue
              \/ cinv'[p].available + cinv'[p].reserved = cinv[p].available + cinv[p].reserved
              \/ product'[p] = "deleted" /\ cinv[p].reserved = 0]_vars
    BY StepConserves
  <1> QED
    BY <1>1, Invariance, PTL DEF Spec, StockConserved

=============================================================================
