----------------------- MODULE InventorySerialProofs -----------------------
(***************************************************************************)
(* Theorems about Inventory when callers are orderly: the reserved column  *)
(* adds up, a Release is complete, and Inventory implements StockLedger.   *)
(*                                                                         *)
(* SInv adds to IInv where a call stands in its transaction: which rows of *)
(* its order and which stock rows it has locked, and by how much each of   *)
(* the latter differs from its committed version.  As an order has one     *)
(* call, no other call disturbs it.                                        *)
(***************************************************************************)
EXTENDS InventoryProofs, Sums

Writing == {"product", "upsert", "try", "release", "mark"}

OneCallPerOrder ==
    /\ \A c \in Calls : order[c] = None <=> pc[c] \in {"idle", "delete"}
    /\ \A c, d \in Calls : order[c] = order[d] /\ order[c] # None => c = d

LocksAreOwn ==
    /\ \A o \in Orders, p \in Products :
          rlock[<<o, p>>] # None =>
              /\ order[rlock[<<o, p>>]] = o
              /\ pc[rlock[<<o, p>>]] \in Writing
    /\ \A p \in Products : ilock[p] # None => pc[ilock[p]] \in Writing

RowsArePositive ==
    \A k \in Keys :
        /\ resv[k] # NoRow => resv[k].qty > 0
        /\ cresv[k] # NoRow => cresv[k].qty > 0

RowOf(c, p) == <<order[c], p>>
ToDo(c, p) == \E i \in 1 .. Len(todo[c]) : todo[c][i].product = p

NoRepeats(c) ==
    pc[c] \in {"check", "product", "upsert", "try", "release", "mark"} =>
       ListsOnce(todo[c])

(* A Reserve: the order had no rows, each row it has made is decided but   *)
(* that of the item under way, and stock was taken for the RESERVED ones.  *)
ReservingRow(c, p) ==
    /\ cresv[RowOf(c, p)] = NoRow
    /\ ilock[p] = c =>
          /\ rlock[RowOf(c, p)] = c
          /\ Held(resv[RowOf(c, p)])
          /\ inv[p].reserved = cinv[p].reserved + resv[RowOf(c, p)].qty
    /\ ilock[p] # c => ~Held(resv[RowOf(c, p)])
    /\ rlock[RowOf(c, p)] = c /\ ToDo(c, p) =>
          /\ pc[c] = "try" /\ p = Target(c)
          /\ resv[RowOf(c, p)] = [qty |-> Qty(c), status |-> "PENDING"]
    /\ rlock[RowOf(c, p)] = c /\ ~ToDo(c, p) =>
          resv[RowOf(c, p)].status \in {"RESERVED", "FAILED"}

Reserving(c) ==
    pc[c] \in {"product", "upsert", "try"} => \A p \in Products : ReservingRow(c, p)

(* A Release: what is listed is still what is committed, each row that is  *)
(* done is RELEASED, and stock went back for those that held some.         *)
ListedRow(c, i) ==
    /\ todo[c][i].qty = cresv[RowOf(c, todo[c][i].product)].qty
    /\ todo[c][i].held = Held(cresv[RowOf(c, todo[c][i].product)])

Returning(c, p) == ~ToDo(c, p) \/ (pc[c] = "mark" /\ p = Target(c))

ReleasingRow(c, p) ==
    /\ rlock[RowOf(c, p)] = c <=> cresv[RowOf(c, p)] # NoRow /\ ~ToDo(c, p)
    /\ rlock[RowOf(c, p)] = c =>
          resv[RowOf(c, p)] = [cresv[RowOf(c, p)] EXCEPT !.status = "RELEASED"]
    /\ ilock[p] = c <=> Held(cresv[RowOf(c, p)]) /\ Returning(c, p)
    /\ ilock[p] = c => inv[p].reserved = cinv[p].reserved - cresv[RowOf(c, p)].qty

Releasing(c) ==
    pc[c] \in {"release", "mark"} =>
       /\ \A i \in 1 .. Len(todo[c]) : ListedRow(c, i)
       /\ \A p \in Products : ReleasingRow(c, p)

CallOnCourse(c) == NoRepeats(c) /\ Reserving(c) /\ Releasing(c)

SInv ==
    /\ OneCallPerOrder
    /\ LocksAreOwn
    /\ RowsArePositive
    /\ \A c \in Calls : CallOnCourse(c)
    /\ ReservedIsHeld

-----------------------------------------------------------------------------
(* What a step of one call leaves to the others.                           *)

SameCall(d) == pc'[d] = pc[d] /\ order'[d] = order[d] /\ todo'[d] = todo[d]

SameRows(d) ==
    \A p \in Products :
        /\ resv'[RowOf(d, p)] = resv[RowOf(d, p)]
        /\ cresv'[RowOf(d, p)] = cresv[RowOf(d, p)]
        /\ rlock'[RowOf(d, p)] = rlock[RowOf(d, p)]

SameStock(d) ==
    \A p \in Products :
        /\ ilock'[p] = d <=> ilock[p] = d
        /\ ilock[p] = d =>
              inv'[p].reserved = inv[p].reserved /\ cinv'[p].reserved = cinv[p].reserved

LEMMA WorkTyped ==
    ASSUME TypeOK, NEW c \in Calls
    PROVE  /\ todo[c] \in Seq(Work)
           /\ \A i \in 1 .. Len(todo[c]) :
                 /\ todo[c][i] \in Work
                 /\ todo[c][i].product \in Products /\ todo[c][i].qty \in UInt
  <1>1. todo[c] \in Seq(Work)
    BY DEF TypeOK
  <1>2. \A i \in 1 .. Len(todo[c]) : todo[c][i] \in Work
    BY <1>1
  <1> QED
    BY <1>1, <1>2 DEF Work

(* A call that is not in a transaction has nothing to keep.                *)
LEMMA EndedIsOnCourse ==
    ASSUME NEW c \in Calls, pc[c] \in {"idle", "delete", "listRelease", "listConfirm", "confirm"}
    PROVE  CallOnCourse(c)
  BY DEF CallOnCourse, NoRepeats, Reserving, Releasing

LEMMA CourseKept ==
    ASSUME TypeOK, CallsInOrder, NEW d \in Calls, CallOnCourse(d),
           SameCall(d), order[d] # None => SameRows(d), SameStock(d)
    PROVE  CallOnCourse(d)'
  <1>0. CASE pc[d] \in {"idle", "delete"}
    BY <1>0 DEF SameCall, CallOnCourse, NoRepeats, Reserving, Releasing
  <1> SUFFICES ASSUME pc[d] \notin {"idle", "delete"}
               PROVE  CallOnCourse(d)'
    BY <1>0
  <1>1. order[d] \in Orders /\ order[d] # None
    BY NoneAssumption DEF CallsInOrder, CallInOrder
  <1>2. \A p : RowOf(d, p)' = RowOf(d, p)
    BY DEF SameCall, RowOf
  <1>3. \A p : ToDo(d, p)' <=> ToDo(d, p)
    BY DEF SameCall, ToDo
  <1>4. Target(d)' = Target(d) /\ Qty(d)' = Qty(d)
    BY DEF SameCall, Target, Qty, Item
  <1>5. NoRepeats(d)'
    BY DEF CallOnCourse, NoRepeats, ListsOnce, SameCall
  <1>6. ASSUME NEW p \in Products, ReservingRow(d, p) PROVE ReservingRow(d, p)'
    BY <1>1, <1>2, <1>3, <1>4, <1>6 DEF ReservingRow, Held, SameRows, SameStock, SameCall
  <1>7. ASSUME NEW p \in Products, ReleasingRow(d, p) PROVE ReleasingRow(d, p)'
    BY <1>1, <1>2, <1>3, <1>4, <1>7 DEF ReleasingRow, Returning, Held, SameRows, SameStock, SameCall
  <1>8. ASSUME NEW i \in 1 .. Len(todo[d]), ListedRow(d, i) PROVE ListedRow(d, i)'
    <2>1. todo[d][i].product \in Products
      BY WorkTyped
    <2>2. RowOf(d, todo[d][i].product)' = RowOf(d, todo[d][i].product)
      BY <1>2, <2>1 DEF SameCall, RowOf
    <2> QED
      BY <1>1, <1>8, <2>1, <2>2 DEF ListedRow, Held, SameRows, SameCall
  <1>9. Reserving(d)'
    BY <1>6 DEF CallOnCourse, Reserving, SameCall
  <1>10. Releasing(d)'
    BY <1>7, <1>8 DEF CallOnCourse, Releasing, SameCall
  <1> QED
    BY <1>5, <1>9, <1>10 DEF CallOnCourse

(* A step writes rows of its own call's order, and stock rows that no      *)
(* other call has locked.                                                  *)
OwnOnly(c) ==
    /\ \A o \in Orders \ {order[c]}, p \in Products :
          /\ resv'[<<o, p>>] = resv[<<o, p>>]
          /\ cresv'[<<o, p>>] = cresv[<<o, p>>]
          /\ rlock'[<<o, p>>] = rlock[<<o, p>>]
    /\ \A p \in Products :
          /\ ilock'[p] \in {ilock[p], None, c}
          /\ ilock[p] \notin {None, c} =>
                ilock'[p] = ilock[p] /\ inv'[p] = inv[p] /\ cinv'[p] = cinv[p]

LEMMA OthersKept ==
    ASSUME IInv, SInv, NEW c \in Calls, OnlyCallMoves(c), OwnOnly(c)
    PROVE  \A d \in Calls \ {c} : CallOnCourse(d)'
  <1> SUFFICES ASSUME NEW d \in Calls \ {c} PROVE CallOnCourse(d)'
    OBVIOUS
  <1>1. SameCall(d)
    BY DEF OnlyCallMoves, SameCall
  <1>2. ASSUME order[d] # None PROVE SameRows(d)
    <2>1. order[d] \in Orders \ {order[c]}
      BY <1>2 DEF SInv, OneCallPerOrder, IInv, TypeOK
    <2> QED
      BY <2>1 DEF OwnOnly, SameRows, RowOf
  <1>3. SameStock(d)
    BY NoneAssumption DEF OwnOnly, SameStock
  <1> QED
    BY <1>1, <1>2, <1>3, CourseKept DEF IInv, SInv

(* The locks of the other calls stay theirs.                               *)
LEMMA LocksKept ==
    ASSUME IInv, SInv, NEW c \in Calls, OnlyCallMoves(c), OwnOnly(c),
           \A k \in Keys : rlock'[k] \in {rlock[k], None, c},
           \/ order'[c] = order[c] /\ pc'[c] \in Writing
           \/ /\ \A p \in Products : ilock'[p] # c
              /\ \A k \in Keys : rlock'[k] # c
    PROVE  LocksAreOwn'
  <1>1. ASSUME NEW o \in Orders, NEW p \in Products, rlock'[<<o, p>>] # None
        PROVE  order'[rlock'[<<o, p>>]] = o /\ pc'[rlock'[<<o, p>>]] \in Writing
    <2>1. <<o, p>> \in Keys
      BY DEF Keys
    <2>2. rlock'[<<o, p>>] = rlock[<<o, p>>] \/ (rlock'[<<o, p>>] = c /\ order[c] = o)
      BY <1>1, <2>1 DEF OwnOnly
    <2>3. rlock[<<o, p>>] \in Calls \cup {None}
      BY <2>1 DEF IInv, TypeOK
    <2>4. CASE rlock'[<<o, p>>] = c
      BY <1>1, <2>1, <2>2, <2>4 DEF SInv, LocksAreOwn
    <2>5. CASE rlock'[<<o, p>>] # c
      BY <1>1, <2>2, <2>3, <2>5 DEF SInv, LocksAreOwn, OnlyCallMoves
    <2> QED
      BY <2>4, <2>5
  <1>2. ASSUME NEW p \in Products, ilock'[p] # None PROVE pc'[ilock'[p]] \in Writing
    <2>1. ilock'[p] \in {ilock[p], c} /\ ilock[p] \in Calls \cup {None}
      BY <1>2 DEF OwnOnly, IInv, TypeOK
    <2>2. CASE ilock'[p] = c
      BY <2>2
    <2>3. CASE ilock'[p] # c
      BY <1>2, <2>1, <2>3 DEF SInv, LocksAreOwn, OnlyCallMoves
    <2> QED
      BY <2>2, <2>3
  <1> QED
    BY <1>1, <1>2 DEF LocksAreOwn

LEMMA NoLocksOutside ==
    ASSUME SInv, NEW c \in Calls, pc[c] \notin Writing
    PROVE  /\ \A p \in Products : ilock[p] # c
           /\ \A k \in Keys : rlock[k] # c
  <1>1. ASSUME NEW k \in Keys PROVE rlock[k] # c
    <2>1. PICK o \in Orders, p \in Products : k = <<o, p>>
      BY DEF Keys
    <2> QED
      BY <2>1, NoneAssumption DEF SInv, LocksAreOwn
  <1> QED
    BY <1>1, NoneAssumption DEF SInv, LocksAreOwn

(* The rows a call has locked are rows of its order.                       *)
LEMMA OwnRows ==
    ASSUME SInv, NEW c \in Calls, NEW o \in Orders, NEW p \in Products, rlock[<<o, p>>] = c
    PROVE  o = order[c]
  BY NoneAssumption DEF SInv, LocksAreOwn

LEMMA SameReserved ==
    ASSUME ReservedIsHeld, cresv' = cresv,
           \A p \in Products : cinv'[p].reserved = cinv[p].reserved
    PROVE  ReservedIsHeld'
  BY DEF ReservedIsHeld, HeldUnits

(* A step within a call.                                                   *)
LEMMA MidCallPreserves ==
    ASSUME IInv, SInv, NEW c \in Calls, OnlyCallMoves(c), OwnOnly(c),
           \A k \in Keys : rlock'[k] \in {rlock[k], None, c},
           pc[c] \notin {"idle", "delete"}, order'[c] = order[c],
           \/ pc'[c] \in Writing
           \/ /\ \A p \in Products : ilock'[p] # c
              /\ \A k \in Keys : rlock'[k] # c
              /\ pc'[c] \notin {"idle", "delete"},
           cinv' = cinv, cresv' = cresv, RowsArePositive', CallOnCourse(c)'
    PROVE  SInv'
  <1>1. LocksAreOwn'
    BY LocksKept
  <1>2. OneCallPerOrder'
    <2>1. pc'[c] \notin {"idle", "delete"}
      BY DEF Writing
    <2>2. \A d \in Calls : order'[d] = order[d] /\ (d # c => pc'[d] = pc[d])
      BY DEF OnlyCallMoves
    <2> QED
      BY <2>1, <2>2 DEF SInv, OneCallPerOrder
  <1>3. \A d \in Calls : CallOnCourse(d)'
    BY OthersKept
  <1>4. ReservedIsHeld'
    BY SameReserved DEF SInv
  <1> QED
    BY <1>1, <1>2, <1>3, <1>4 DEF SInv

(* The last step of a call.                                                *)
LEMMA EndPreserves ==
    ASSUME IInv, SInv, NEW c \in Calls, OnlyCallMoves(c), OwnOnly(c),
           pc'[c] = "idle", order'[c] = None,
           \A k \in Keys : rlock'[k] \in {rlock[k], None, c},
           \A p \in Products : ilock'[p] # c,
           \A k \in Keys : rlock'[k] # c,
           RowsArePositive', ReservedIsHeld'
    PROVE  SInv'
  <1>1. LocksAreOwn'
    BY LocksKept
  <1>2. OneCallPerOrder'
    BY DEF SInv, OneCallPerOrder, OnlyCallMoves
  <1>3. CallOnCourse(c)'
    BY DEF CallOnCourse, NoRepeats, Reserving, Releasing
  <1>4. \A d \in Calls : CallOnCourse(d)'
    BY <1>3, OthersKept
  <1> QED
    BY <1>1, <1>2, <1>4 DEF SInv

(* A step that only moves its call.                                        *)
LEMMA MovesAreOwn ==
    ASSUME NEW c \in Calls, UNCHANGED <<stockVars, rowVars>>
    PROVE  /\ OwnOnly(c)
           /\ \A k \in Keys : rlock'[k] \in {rlock[k], None, c}
           /\ RowsArePositive <=> RowsArePositive'
  BY DEF OwnOnly, RowsArePositive, stockVars, rowVars

-----------------------------------------------------------------------------
(* Every step preserves SInv: calls begin.                                 *)

LEMMA StartKeeps ==
    ASSUME IInv, SInv, OrderlyCallers, NEW c \in Calls, NEW o \in Orders,
           NEW label \in {"check", "listRelease", "listConfirm"}, Start(c, o, label),
           \A d \in Calls \ {c} : todo'[d] = todo[d], NoRepeats(c)'
    PROVE  SInv'
  <1>1. /\ pc[c] = "idle" /\ \A d \in Calls : order[d] # o
        /\ pc'[c] = label /\ order'[c] = o
        /\ \A d \in Calls \ {c} : pc'[d] = pc[d] /\ order'[d] = order[d]
        /\ UNCHANGED <<stockVars, rowVars>>
    BY DEF Start, MayStart, OrderlyCallers, IInv, TypeOK
  <1>2. OnlyCallMoves(c)
    BY <1>1 DEF OnlyCallMoves
  <1>3. OwnOnly(c) /\ RowsArePositive'
        /\ \A k \in Keys : rlock'[k] \in {rlock[k], None, c}
    BY <1>1, MovesAreOwn DEF SInv
  <1>4. (\A p \in Products : ilock'[p] # c) /\ (\A k \in Keys : rlock'[k] # c)
    BY <1>1, NoLocksOutside DEF Writing, stockVars, rowVars
  <1>5. LocksAreOwn'
    BY <1>2, <1>3, <1>4, LocksKept
  <1>6. OneCallPerOrder'
    <2>1. o # None
      BY NoneAssumption
    <2> QED
      BY <1>1, <2>1 DEF SInv, OneCallPerOrder
  <1>7. CallOnCourse(c)'
    BY <1>1 DEF CallOnCourse, Reserving, Releasing
  <1>8. \A d \in Calls : CallOnCourse(d)'
    BY <1>2, <1>3, <1>7, OthersKept
  <1>9. ReservedIsHeld'
    BY <1>1, SameReserved DEF SInv, stockVars, rowVars
  <1> QED
    BY <1>3, <1>5, <1>6, <1>8, <1>9 DEF SInv

LEMMA BeginKeeps ==
    ASSUME IInv, SInv, OrderlyCallers, NEW c \in Calls, Begin(c)
    PROVE  SInv'
  <1>1. ASSUME NEW o \in Orders, NEW items \in ItemLists, StartReserve(c, o, items)
        PROVE  SInv'
    <2>1. todo'[c] = items /\ \A d \in Calls \ {c} : todo'[d] = todo[d]
      BY <1>1 DEF StartReserve, IInv, TypeOK
    <2>2. NoRepeats(c)'
      BY <2>1 DEF NoRepeats, OrderlyCallers
    <2> QED
      BY <1>1, <2>1, <2>2, StartKeeps DEF StartReserve
  <1>2. ASSUME NEW o \in Orders, StartRelease(c, o) \/ StartConfirm(c, o) PROVE SInv'
    <2>1. pc'[c] \in {"listRelease", "listConfirm"} /\ todo' = todo
      BY <1>2 DEF StartRelease, StartConfirm, Start, IInv, TypeOK
    <2>2. NoRepeats(c)'
      BY <2>1 DEF NoRepeats
    <2> QED
      BY <1>2, <2>1, <2>2, StartKeeps DEF StartRelease, StartConfirm
  <1>3. ASSUME NEW p \in Products, StartDelete(c, p) PROVE SInv'
    <2>1. /\ pc[c] = "idle" /\ pc'[c] = "delete" /\ order' = order
          /\ \A d \in Calls \ {c} : pc'[d] = pc[d] /\ todo'[d] = todo[d]
          /\ UNCHANGED <<stockVars, rowVars>>
      BY <1>3 DEF StartDelete, IInv, TypeOK
    <2>2. OnlyCallMoves(c)
      BY <2>1 DEF OnlyCallMoves
    <2>3. OwnOnly(c) /\ RowsArePositive'
          /\ \A k \in Keys : rlock'[k] \in {rlock[k], None, c}
      BY <2>1, MovesAreOwn DEF SInv
    <2>4. (\A x \in Products : ilock'[x] # c) /\ (\A k \in Keys : rlock'[k] # c)
      BY <2>1, NoLocksOutside DEF Writing, stockVars, rowVars
    <2>5. LocksAreOwn'
      BY <2>2, <2>3, <2>4, LocksKept
    <2>6. OneCallPerOrder'
      BY <2>1 DEF SInv, OneCallPerOrder
    <2>7. CallOnCourse(c)'
      BY <2>1 DEF CallOnCourse, NoRepeats, Reserving, Releasing
    <2>8. \A d \in Calls : CallOnCourse(d)'
      BY <2>2, <2>3, <2>7, OthersKept
    <2>9. ReservedIsHeld'
      BY <2>1, SameReserved DEF SInv, stockVars, rowVars
    <2> QED
      BY <2>3, <2>5, <2>6, <2>8, <2>9 DEF SInv
  <1> QED
    BY <1>1, <1>2, <1>3 DEF Begin

-----------------------------------------------------------------------------
(* Every step preserves SInv: a Reserve.                                   *)

LEMMA RollbackKeeps ==
    ASSUME IInv, SInv, NEW c \in Calls, Rollback(c)
    PROVE  SInv'
  <1>1. /\ \A p \in Products : inv'[p] = IF ilock[p] = c THEN cinv[p] ELSE inv[p]
        /\ \A p \in Products : ilock'[p] = IF ilock[p] = c THEN None ELSE ilock[p]
        /\ \A k \in Keys : resv'[k] = IF rlock[k] = c THEN cresv[k] ELSE resv[k]
        /\ \A k \in Keys : rlock'[k] = IF rlock[k] = c THEN None ELSE rlock[k]
        /\ cinv' = cinv /\ cresv' = cresv /\ c # None
    BY NoneAssumption DEF Rollback, Unlock
  <1>2. OnlyCallMoves(c) /\ pc'[c] = "idle" /\ order'[c] = None
    BY FinishTyped DEF IInv, TypeOK, Rollback, Finish
  <1>3. OwnOnly(c)
    <2>1. \A o \in Orders \ {order[c]}, p \in Products : <<o, p>> \in Keys /\ rlock[<<o, p>>] # c
      BY OwnRows DEF Keys
    <2> QED
      BY <1>1, <2>1 DEF OwnOnly
  <1>4. \A k \in Keys : rlock'[k] # c /\ rlock'[k] \in {rlock[k], None}
    BY <1>1
  <1>5. \A p \in Products : ilock'[p] # c
    BY <1>1
  <1>6. RowsArePositive'
    BY <1>1 DEF SInv, RowsArePositive
  <1>7. ReservedIsHeld'
    BY <1>1, SameReserved DEF SInv
  <1> QED
    BY <1>2, <1>3, <1>4, <1>5, <1>6, <1>7, EndPreserves

LEMMA CheckExistingKeeps ==
    ASSUME IInv, SInv, NEW c \in Calls, CheckExisting(c)
    PROVE  SInv'
  <1>1. pc[c] = "check" /\ UNCHANGED <<stockVars, rowVars>>
    BY DEF CheckExisting
  <1>2. /\ OwnOnly(c) /\ RowsArePositive'
        /\ \A k \in Keys : rlock'[k] \in {rlock[k], None, c}
    BY <1>1, MovesAreOwn DEF SInv
  <1>3. /\ \A p \in Products : ilock[p] # c /\ ilock'[p] # c
        /\ \A k \in Keys : rlock[k] # c /\ rlock'[k] # c
    BY <1>1, NoLocksOutside DEF Writing, stockVars, rowVars
  <1>4. CASE Finish(c)
    <2>1. OnlyCallMoves(c) /\ pc'[c] = "idle" /\ order'[c] = None
      BY <1>4, FinishTyped DEF IInv, TypeOK, Finish
    <2>2. ReservedIsHeld'
      BY <1>1, SameReserved DEF SInv, stockVars, rowVars
    <2> QED
      BY <1>2, <1>3, <2>1, <2>2, EndPreserves
  <1>5. CASE ~AlreadyReserved(order[c]) /\ Goto(c, "product") /\ UNCHANGED todo
    <2>1. OnlyCallMoves(c) /\ pc'[c] = "product" /\ order'[c] = order[c] /\ todo'[c] = todo[c]
      BY <1>5, GotoTyped DEF IInv, Labels
    <2>2. order[c] \in Orders
      BY <1>1 DEF IInv, CallsInOrder, CallInOrder
    <2>3. ASSUME NEW p \in Products PROVE ReservingRow(c, p)'
      <3>1. RowOf(c, p) \in Keys /\ RowOf(c, p)' = RowOf(c, p)
        BY <2>1, <2>2 DEF RowOf, Keys
      <3>2. cresv[RowOf(c, p)] = NoRow
        BY <1>5, <3>1 DEF AlreadyReserved, RowsOf, RowOf, IInv, RowsStay
      <3>3. rlock[RowOf(c, p)] = None
        BY <1>3, <2>2, <3>1, NoneAssumption DEF SInv, LocksAreOwn, OneCallPerOrder, RowOf, IInv, TypeOK
      <3>4. resv[RowOf(c, p)] = NoRow
        BY <3>1, <3>2, <3>3 DEF IInv, OneVersionUnlessLocked
      <3> QED
        BY <1>1, <1>3, <3>1, <3>2, <3>4 DEF ReservingRow, Held, NoRow, stockVars, rowVars
    <2>4. CallOnCourse(c)'
      BY <1>1, <2>1, <2>3 DEF SInv, CallOnCourse, NoRepeats, Reserving, Releasing
    <2> QED
      BY <1>1, <1>2, <2>1, <2>4, MidCallPreserves DEF Writing, stockVars, rowVars
  <1> QED
    BY <1>4, <1>5 DEF CheckExisting

(* Going on to the next item.                                              *)
LEMMA AdvanceWork ==
    ASSUME TypeOK, NEW c \in Calls, todo[c] # <<>>, ListsOnce(todo[c]), todo'[c] = Tail(todo[c])
    PROVE  /\ ListsOnce(todo'[c])
           /\ \A p : ToDo(c, p)' <=> ToDo(c, p) /\ p # Target(c)
           /\ \A i \in 1 .. Len(todo'[c]) : i + 1 \in 1 .. Len(todo[c]) /\ todo'[c][i] = todo[c][i + 1]
  <1>1. /\ Target(c) = todo[c][1].product /\ 1 \in 1 .. Len(todo[c])
        /\ \A i \in 1 .. Len(todo'[c]) : i + 1 \in 1 .. Len(todo[c]) /\ todo'[c][i] = todo[c][i + 1]
    BY ItemTyped DEF Target
  <1>2. Len(todo[c]) \in Nat /\ Len(todo'[c]) = Len(todo[c]) - 1
    BY WorkTyped
  <1>3. ListsOnce(todo'[c])
    <2>1. ASSUME NEW i \in 1 .. Len(todo'[c]), NEW j \in 1 .. Len(todo'[c]),
                 todo'[c][i].product = todo'[c][j].product
          PROVE  i = j
      <3>1. i + 1 = j + 1
        BY <1>1, <2>1 DEF ListsOnce
      <3> QED
        BY <1>2, <3>1
    <2> QED
      BY <2>1 DEF ListsOnce
  <1>4. ASSUME NEW p PROVE ToDo(c, p)' <=> ToDo(c, p) /\ p # Target(c)
    <2>1. ASSUME ToDo(c, p)' PROVE ToDo(c, p) /\ p # Target(c)
      <3>1. PICK i \in 1 .. Len(todo'[c]) : todo'[c][i].product = p
        BY <2>1 DEF ToDo
      <3>2. i + 1 \in 1 .. Len(todo[c]) /\ todo[c][i + 1].product = p /\ i + 1 # 1
        BY <1>1, <1>2, <3>1
      <3> QED
        BY <1>1, <3>2 DEF ToDo, ListsOnce
    <2>2. ASSUME ToDo(c, p), p # Target(c) PROVE ToDo(c, p)'
      <3>1. PICK i \in 1 .. Len(todo[c]) : todo[c][i].product = p
        BY <2>2 DEF ToDo
      <3>2. i # 1
        BY <1>1, <2>2, <3>1
      <3>3. i - 1 \in 1 .. Len(todo'[c]) /\ todo'[c][i - 1] = todo[c][i]
        BY <1>1, <1>2, <3>2
      <3> QED
        BY <3>1, <3>3 DEF ToDo
    <2> QED
      BY <2>1, <2>2
  <1> QED
    BY <1>1, <1>3, <1>4

LEMMA ReadProductKeeps ==
    ASSUME IInv, SInv, NEW c \in Calls, ReadProduct(c)
    PROVE  SInv'
  <1>1. pc[c] = "product" /\ todo[c] # <<>> /\ order[c] \in Orders
    BY DEF ReadProduct, IInv, CallsInOrder, CallInOrder
  <1>2. CASE Rollback(c)
    BY <1>2, RollbackKeeps
  <1>3. CASE /\ Advance(c, "product") \/ (Goto(c, "upsert") /\ UNCHANGED todo)
             /\ UNCHANGED <<product, stockVars, rowVars>>
    <2>1. /\ OnlyCallMoves(c) /\ pc'[c] \in {"product", "upsert"} /\ order'[c] = order[c]
          /\ todo'[c] = todo[c] \/ todo'[c] = Tail(todo[c])
      BY <1>1, <1>3, GotoTyped, AdvanceTyped DEF IInv, Labels
    <2>2. /\ OwnOnly(c) /\ RowsArePositive'
          /\ \A k \in Keys : rlock'[k] \in {rlock[k], None, c}
      BY <1>3, MovesAreOwn DEF SInv
    <2>3. ListsOnce(todo[c]) /\ \A p \in Products : ReservingRow(c, p)
      BY <1>1 DEF SInv, CallOnCourse, NoRepeats, Reserving
    <2>4. ListsOnce(todo'[c]) /\ \A p \in Products : ToDo(c, p)' => ToDo(c, p)
      BY <1>1, <2>1, <2>3, AdvanceWork DEF IInv, ToDo, ListsOnce
    <2>5. ASSUME NEW p \in Products PROVE ReservingRow(c, p)'
      <3>1. RowOf(c, p)' = RowOf(c, p)
        BY <2>1 DEF RowOf
      <3> QED
        BY <1>1, <1>3, <2>3, <2>4, <3>1 DEF ReservingRow, Held, stockVars, rowVars
    <2>6. CallOnCourse(c)'
      BY <2>1, <2>4, <2>5 DEF CallOnCourse, NoRepeats, Reserving, Releasing
    <2> QED
      BY <1>1, <1>3, <2>1, <2>2, <2>6, MidCallPreserves DEF Writing, stockVars, rowVars
  <1> QED
    BY <1>2, <1>3 DEF ReadProduct

(* Writing a row of the call's order.                                      *)
LEMMA WritesOwnRow ==
    ASSUME IInv, SInv, NEW c \in Calls, order[c] \in Orders, todo[c] # <<>>,
           NEW row \in Row, row.qty > 0, RowFree(c), WriteRow(c, row)
    PROVE  /\ Key(c) = RowOf(c, Target(c)) /\ Key(c) \in Keys /\ Target(c) \in Products
           /\ resv'[Key(c)] = row /\ rlock'[Key(c)] = c /\ cresv' = cresv
           /\ \A k \in Keys \ {Key(c)} : resv'[k] = resv[k] /\ rlock'[k] = rlock[k]
           /\ \A k \in Keys : rlock'[k] \in {rlock[k], None, c}
           /\ RowsArePositive'
           /\ \A o \in Orders \ {order[c]}, p \in Products :
                 /\ resv'[<<o, p>>] = resv[<<o, p>>]
                 /\ cresv'[<<o, p>>] = cresv[<<o, p>>]
                 /\ rlock'[<<o, p>>] = rlock[<<o, p>>]
  <1>1. Key(c) = RowOf(c, Target(c)) /\ Key(c) \in Keys /\ Target(c) \in Products
    BY ItemTyped, KeyTyped DEF IInv, RowOf
  <1>2. /\ resv' = [resv EXCEPT ![Key(c)] = row]
        /\ rlock' = [rlock EXCEPT ![Key(c)] = c]
        /\ cresv' = cresv
        /\ resv \in [Keys -> Row] /\ rlock \in [Keys -> Calls \cup {None}]
    BY DEF WriteRow, IInv, TypeOK
  <1>3. \A k \in Keys \ {Key(c)} : resv'[k] = resv[k] /\ rlock'[k] = rlock[k]
    BY <1>2
  <1>4. resv'[Key(c)] = row /\ rlock'[Key(c)] = c
    BY <1>1, <1>2
  <1>5. RowsArePositive'
    BY <1>2, <1>3, <1>4 DEF SInv, RowsArePositive
  <1>6. \A o \in Orders \ {order[c]}, p \in Products : <<o, p>> \in Keys \ {Key(c)}
    BY <1>1 DEF Keys, RowOf
  <1> QED
    BY <1>1, <1>2, <1>3, <1>4, <1>5, <1>6

LEMMA RowsOfProducts ==
    ASSUME NEW c \in Calls, order[c] \in Orders, NEW p \in Products, NEW q \in Products
    PROVE  /\ RowOf(c, p) \in Keys
           /\ RowOf(c, p) = RowOf(c, q) => p = q
  BY DEF RowOf, Keys

LEMMA UpsertPendingKeeps ==
    ASSUME IInv, SInv, NEW c \in Calls, UpsertPending(c)
    PROVE  SInv'
  <1>1. /\ pc[c] = "upsert" /\ RowFree(c)
        /\ order[c] \in Orders /\ todo[c] # <<>>
    BY DEF UpsertPending, IInv, CallsInOrder, CallInOrder
  <1>2. CASE Rollback(c)
    BY <1>2, RollbackKeeps
  <1>3. CASE /\ ~UpsertRefused(c)
             /\ WriteRow(c, [qty |-> Qty(c), status |-> "PENDING"])
             /\ Goto(c, "try")
             /\ UNCHANGED <<product, stockVars, todo>>
    <2> DEFINE row == [qty |-> Qty(c), status |-> "PENDING"]
    <2>1. OnlyCallMoves(c) /\ pc'[c] = "try" /\ order'[c] = order[c] /\ todo'[c] = todo[c]
      BY <1>3, GotoTyped DEF IInv, Labels
    <2>2. row \in Row /\ row.qty > 0 /\ ~Held(row)
      <3>1. Item(c).qty \in UInt
        BY <1>1, ItemTyped DEF IInv, Work
      <3>2. Qty(c) \in 1 .. MaxInt
        BY <1>3, <3>1, ToInt32Range, MaxIntAssumption DEF Qty, UpsertRefused
      <3> QED
        BY <3>2, MaxIntAssumption DEF Row, Statuses, Held
    <2>3. WriteRow(c, row)
      BY <1>3
    <2> HIDE DEF row
    <2>4. /\ Key(c) = RowOf(c, Target(c)) /\ Key(c) \in Keys /\ Target(c) \in Products
          /\ resv'[Key(c)] = row /\ rlock'[Key(c)] = c /\ cresv' = cresv
          /\ \A k \in Keys \ {Key(c)} : resv'[k] = resv[k] /\ rlock'[k] = rlock[k]
          /\ \A k \in Keys : rlock'[k] \in {rlock[k], None, c}
          /\ RowsArePositive'
      BY <1>1, <2>2, <2>3, WritesOwnRow
    <2>5. OwnOnly(c)
      BY <1>1, <1>3, <2>2, <2>3, WritesOwnRow DEF OwnOnly, stockVars
    <2>6. ListsOnce(todo[c]) /\ \A p \in Products : ReservingRow(c, p)
      BY <1>1 DEF SInv, CallOnCourse, NoRepeats, Reserving
    <2>7. ToDo(c, Target(c))
      BY <1>1, ItemTyped DEF ToDo, IInv, Target
    <2>8. ASSUME NEW p \in Products PROVE ReservingRow(c, p)'
      <3>1. RowOf(c, p)' = RowOf(c, p) /\ RowOf(c, p) \in Keys /\ (ToDo(c, p)' <=> ToDo(c, p))
            /\ Target(c)' = Target(c) /\ Qty(c)' = Qty(c)
        BY <1>1, <2>1, RowsOfProducts DEF RowOf, ToDo, Target, Item, Qty
      <3>2. CASE p = Target(c)
        <4>1. ilock[p] # c /\ cresv[RowOf(c, p)] = NoRow
          BY <1>1, <2>6, <2>7, <3>2 DEF ReservingRow
        <4>2. ToDo(c, p)'
          BY <2>7, <3>1, <3>2
        <4>3. resv'[RowOf(c, p)] = row /\ ilock' = ilock /\ pc'[c] = "try"
          BY <1>3, <2>1, <2>4, <3>2 DEF stockVars
        <4> QED
          BY <2>2, <2>4, <3>1, <3>2, <4>1, <4>2, <4>3 DEF ReservingRow, row
      <3>3. CASE p # Target(c)
        <4>1. RowOf(c, p) # Key(c)
          BY <1>1, <2>4, <3>3, RowsOfProducts
        <4>2. ReservingRow(c, p)
          BY <2>6
        <4>3. ~(rlock[RowOf(c, p)] = c /\ ToDo(c, p))
          BY <1>1, <4>2 DEF ReservingRow
        <4> QED
          BY <1>3, <2>4, <3>1, <4>1, <4>2, <4>3 DEF ReservingRow, Held, stockVars
      <3> QED
        BY <3>2, <3>3
    <2>9. CallOnCourse(c)'
      BY <2>1, <2>6, <2>8 DEF CallOnCourse, NoRepeats, Reserving, Releasing
    <2> QED
      BY <1>1, <1>3, <2>1, <2>4, <2>5, <2>9, MidCallPreserves DEF Writing, stockVars
  <1> QED
    BY <1>2, <1>3 DEF UpsertPending

LEMMA TryReserveKeeps ==
    ASSUME IInv, SInv, NEW c \in Calls, TryReserve(c)
    PROVE  SInv'
  <1> DEFINE p == Target(c)
  <1> DEFINE q == Qty(c)
  <1>1. pc[c] = "try" /\ order[c] \in Orders /\ todo[c] # <<>>
    BY DEF TryReserve, IInv, CallsInOrder, CallInOrder
  <1>2. /\ Key(c) = RowOf(c, p) /\ Key(c) \in Keys /\ p \in Products
        /\ rlock[Key(c)] = c /\ RowFree(c)
    BY <1>1, ItemTyped, KeyTyped DEF IInv, RowOf, RowFree, CallsInOrder, CallInOrder
  <1>3. ListsOnce(todo[c]) /\ \A x \in Products : ReservingRow(c, x)
    BY <1>1 DEF SInv, CallOnCourse, NoRepeats, Reserving
  <1>4. ToDo(c, p)
    BY <1>1, ItemTyped DEF ToDo, IInv, Target
  <1>5. resv[Key(c)] = [qty |-> q, status |-> "PENDING"] /\ ilock[p] # c
    BY <1>2, <1>3, <1>4 DEF ReservingRow, Held
  <1>6. q \in 1 .. MaxInt /\ q > 0
    BY <1>1, MaxIntAssumption DEF IInv, CallsInOrder, CallInOrder
  <1>7. CASE Rollback(c)
    BY <1>7, RollbackKeeps
  <1>8. CASE /\ \/ Mark(c, "FAILED") /\ UNCHANGED stockVars
                \/ Mark(c, "RESERVED") /\ WriteStock(c, p, Taken(inv[p], q)) /\ StockFree(c, p)
             /\ Advance(c, "product")
    <2>1. /\ OnlyCallMoves(c) /\ pc'[c] = "product" /\ order'[c] = order[c]
          /\ todo'[c] = Tail(todo[c])
      BY <1>1, <1>8, AdvanceTyped DEF IInv, Labels
    <2>2. ListsOnce(todo'[c]) /\ \A x : ToDo(c, x)' <=> ToDo(c, x) /\ x # p
      BY <1>1, <1>3, <2>1, AdvanceWork DEF IInv
    <2>3. PICK status \in {"FAILED", "RESERVED"} :
             /\ WriteRow(c, [qty |-> q, status |-> status])
             /\ status = "FAILED" => UNCHANGED stockVars
             /\ status = "RESERVED" => WriteStock(c, p, Taken(inv[p], q)) /\ StockFree(c, p)
      <3>1. ASSUME NEW st \in {"FAILED", "RESERVED"}, Mark(c, st)
            PROVE  WriteRow(c, [qty |-> q, status |-> st])
        BY <1>5, <3>1 DEF Mark
      <3> QED
        BY <1>8, <3>1
    <2> DEFINE row == [qty |-> q, status |-> status]
    <2>4. row \in Row /\ row.qty > 0
      BY <1>6, MaxIntAssumption DEF Row, Statuses
    <2>5. /\ resv'[Key(c)] = row /\ rlock'[Key(c)] = c /\ cresv' = cresv
          /\ \A k \in Keys \ {Key(c)} : resv'[k] = resv[k] /\ rlock'[k] = rlock[k]
          /\ \A k \in Keys : rlock'[k] \in {rlock[k], None, c}
          /\ RowsArePositive'
          /\ \A o \in Orders \ {order[c]}, x \in Products :
                /\ resv'[<<o, x>>] = resv[<<o, x>>]
                /\ cresv'[<<o, x>>] = cresv[<<o, x>>]
                /\ rlock'[<<o, x>>] = rlock[<<o, x>>]
      <3> HIDE DEF row, p, q
      <3>1. WriteRow(c, row)
        BY <2>3 DEF row
      <3> QED
        BY <1>1, <1>2, <2>4, <3>1, WritesOwnRow
    <2>6. /\ cinv' = cinv
          /\ \A x \in Products \ {p} : inv'[x] = inv[x] /\ ilock'[x] = ilock[x]
          /\ status = "FAILED" => inv'[p] = inv[p] /\ ilock'[p] = ilock[p]
          /\ status = "RESERVED" =>
                /\ ilock[p] = None /\ ilock'[p] = c
                /\ inv'[p].reserved = cinv[p].reserved + q
      <3> HIDE DEF p, q
      <3>1. CASE status = "FAILED"
        BY <2>3, <3>1 DEF stockVars
      <3>2. CASE status = "RESERVED"
        <4>1. ilock[p] = None /\ inv[p] = cinv[p]
          BY <1>2, <1>5, <2>3, <3>2 DEF StockFree, IInv, OneVersionUnlessLocked
        <4> QED
          BY <1>2, <2>3, <3>2, <4>1 DEF WriteStock, Taken, IInv, TypeOK
      <3> QED
        BY <3>1, <3>2
    <2> HIDE DEF p, q
    <2>7. OwnOnly(c)
      <3>1. \A x \in Products : ilock'[x] \in {ilock[x], None, c}
        BY <2>3, <2>6
      <3>2. \A x \in Products : ilock[x] \notin {None, c} =>
                ilock'[x] = ilock[x] /\ inv'[x] = inv[x] /\ cinv'[x] = cinv[x]
        BY <2>3, <2>6
      <3> QED
        BY <2>5, <3>1, <3>2 DEF OwnOnly
    <2>8. ASSUME NEW x \in Products PROVE ReservingRow(c, x)'
      <3>1. RowOf(c, x)' = RowOf(c, x) /\ RowOf(c, x) \in Keys
        BY <1>1, <2>1, RowsOfProducts DEF RowOf
      <3>2. ReservingRow(c, x)
        BY <1>3
      <3>3. CASE x = p
        <4>1. ~ToDo(c, x)' /\ cresv'[RowOf(c, x)] = NoRow /\ resv'[RowOf(c, x)] = row
              /\ rlock'[RowOf(c, x)] = c
          BY <1>2, <2>2, <2>5, <3>2, <3>3 DEF ReservingRow
        <4>2. CASE status = "FAILED"
          BY <1>5, <2>6, <3>1, <3>3, <4>1, <4>2 DEF ReservingRow, Held
        <4>3. CASE status = "RESERVED"
          BY <2>6, <3>1, <3>3, <4>1, <4>3 DEF ReservingRow, Held
        <4> QED
          BY <2>3, <4>2, <4>3
      <3>4. CASE x # p
        <4>1. RowOf(c, x) # Key(c)
          BY <1>1, <1>2, <3>4, RowsOfProducts
        <4>2. ~(rlock[RowOf(c, x)] = c /\ ToDo(c, x))
          BY <3>2, <3>4 DEF ReservingRow, p
        <4> QED
          BY <2>2, <2>5, <2>6, <3>1, <3>2, <3>4, <4>1, <4>2 DEF ReservingRow, Held
      <3> QED
        BY <3>3, <3>4
    <2>9. CallOnCourse(c)'
      BY <2>1, <2>2, <2>8 DEF CallOnCourse, NoRepeats, Reserving, Releasing
    <2> QED
      BY <1>1, <2>1, <2>5, <2>6, <2>7, <2>9, MidCallPreserves DEF Writing
  <1> QED
    BY <1>7, <1>8 DEF TryReserve

-----------------------------------------------------------------------------
(* Every step preserves SInv: a Release, a Confirm.                        *)

(* ListByOrder returns each row of the order once, and all of them.        *)
LEMMA ListingComplete ==
    ASSUME TypeOK, NEW o \in Orders, NEW rows \in Listing(o)
    PROVE  /\ ListsOnce(rows)
           /\ \A i \in 1 .. Len(rows) :
                 /\ rows[i].qty = cresv[<<o, rows[i].product>>].qty
                 /\ rows[i].held = Held(cresv[<<o, rows[i].product>>])
           /\ \A p \in RowsOf(o) : \E i \in 1 .. Len(rows) : rows[i].product = p
  <1> DEFINE Of(p) == [product |-> p, qty |-> cresv[<<o, p>>].qty, held |-> Held(cresv[<<o, p>>])]
  <1> DEFINE S == {Of(p) : p \in RowsOf(o)}
  <1> DEFINE n == Cardinality(RowsOf(o))
  <1>1. IsFiniteSet(RowsOf(o)) /\ n \in Nat
    BY ProductsAssumption, FS_Subset, FS_CardinalityType DEF RowsOf
  <1>2. rows \in [1 .. n -> S] /\ \A i, j \in 1 .. n : rows[i] = rows[j] => i = j
    BY DEF Listing
  <1>3. Len(rows) = n
    <2> HIDE DEF S, n
    <2> QED BY <1>1, <1>2
  <1>4. \A s \in S : /\ s = Of(s.product)
                     /\ s.qty = cresv[<<o, s.product>>].qty
                     /\ s.held = Held(cresv[<<o, s.product>>])
    <2>1. ASSUME NEW p \in RowsOf(o)
          PROVE  /\ Of(p).product = p
                 /\ Of(p).qty = cresv[<<o, p>>].qty /\ Of(p).held = Held(cresv[<<o, p>>])
      OBVIOUS
    <2>2. ASSUME NEW s \in S
          PROVE  /\ s = Of(s.product)
                 /\ s.qty = cresv[<<o, s.product>>].qty /\ s.held = Held(cresv[<<o, s.product>>])
      <3>1. PICK p \in RowsOf(o) : s = Of(p)
        OBVIOUS
      <3>2. s.product = p
        BY <2>1, <3>1
      <3> QED
        BY <2>1, <3>1, <3>2
    <2> QED
      BY <2>2
  <1>5. ListsOnce(rows)
    <2> HIDE DEF S, Of, n
    <2>1. ASSUME NEW i \in 1 .. n, NEW j \in 1 .. n, rows[i].product = rows[j].product
          PROVE  i = j
      <3>1. rows[i] = Of(rows[i].product) /\ rows[j] = Of(rows[j].product)
        BY <1>2, <1>4
      <3>2. rows[i] = rows[j]
        BY <2>1, <3>1
      <3> QED
        BY <1>2, <3>2
    <2> QED
      BY <1>3, <2>1 DEF ListsOnce
  <1>6. \A i \in 1 .. Len(rows) :
           /\ rows[i].qty = cresv[<<o, rows[i].product>>].qty
           /\ rows[i].held = Held(cresv[<<o, rows[i].product>>])
    <2> HIDE DEF S, Of, n
    <2> QED BY <1>2, <1>3, <1>4
  <1>7. IsFiniteSet(S) /\ Cardinality(S) = n
    <2> DEFINE f == [p \in RowsOf(o) |-> Of(p)]
    <2>1. f \in Bijection(RowsOf(o), S)
      BY DEF Bijection, Injection, Surjection, IsInjective
    <2>2. ExistsBijection(RowsOf(o), S)
      BY <2>1 DEF ExistsBijection
    <2> HIDE DEF S, f
    <2> QED BY <1>1, <2>2, FS_Bijection
  <1>8. rows \in Surjection(1 .. n, S)
    <2> HIDE DEF S, n
    <2>1. rows \in Injection(1 .. n, S)
      BY <1>2 DEF Injection, IsInjective
    <2>2. Cardinality(1 .. n) = n
      BY <1>1, FS_Interval
    <2> QED
      BY <1>7, <2>1, <2>2, FS_Injection
  <1>9. \A s \in S : \E i \in 1 .. n : rows[i] = s
    <2> HIDE DEF S, n
    <2> QED BY <1>8 DEF Surjection
  <1>10. ASSUME NEW p \in RowsOf(o) PROVE \E i \in 1 .. Len(rows) : rows[i].product = p
    <2>1. Of(p) \in S /\ Of(p).product = p
      OBVIOUS
    <2> HIDE DEF S, Of, n
    <2> QED BY <1>3, <1>9, <2>1
  <1> QED
    BY <1>5, <1>6, <1>10

LEMMA ListByOrderKeeps ==
    ASSUME IInv, SInv, NEW c \in Calls, ListByOrder(c)
    PROVE  SInv'
  <1>1. /\ pc[c] \in {"listRelease", "listConfirm"} /\ order[c] \in Orders
        /\ UNCHANGED <<stockVars, rowVars>>
    BY DEF ListByOrder, IInv, CallsInOrder, CallInOrder
  <1>2. PICK rows \in Listing(order[c]) : todo' = [todo EXCEPT ![c] = rows]
    BY DEF ListByOrder
  <1>3. /\ OwnOnly(c) /\ RowsArePositive'
        /\ \A k \in Keys : rlock'[k] \in {rlock[k], None, c}
    BY <1>1, MovesAreOwn DEF SInv
  <1>4. /\ \A p \in Products : ilock[p] # c /\ ilock'[p] # c
        /\ \A k \in Keys : rlock[k] # c /\ rlock'[k] # c
    BY <1>1, NoLocksOutside DEF Writing, stockVars, rowVars
  <1>5. /\ OnlyCallMoves(c) /\ pc'[c] \in {"release", "confirm"}
        /\ order'[c] = order[c] /\ todo'[c] = rows
    BY <1>2 DEF ListByOrder, Goto, OnlyCallMoves, IInv, TypeOK
  <1>6. CASE pc'[c] = "release"
    <2>1. /\ ListsOnce(rows)
          /\ \A i \in 1 .. Len(rows) :
                /\ rows[i].qty = cresv[<<order[c], rows[i].product>>].qty
                /\ rows[i].held = Held(cresv[<<order[c], rows[i].product>>])
          /\ \A p \in RowsOf(order[c]) : \E i \in 1 .. Len(rows) : rows[i].product = p
      BY <1>1, ListingComplete DEF IInv
    <2>2. ASSUME NEW i \in 1 .. Len(rows) PROVE ListedRow(c, i)'
      BY <1>1, <1>5, <2>1 DEF ListedRow, RowOf, rowVars, Held
    <2>3. ASSUME NEW p \in Products PROVE ReleasingRow(c, p)'
      <3>1. RowOf(c, p) \in Keys /\ RowOf(c, p)' = RowOf(c, p)
        BY <1>1, <1>5 DEF RowOf, Keys
      <3>2. ASSUME cresv[RowOf(c, p)] # NoRow PROVE ToDo(c, p)'
        <4>1. p \in RowsOf(order[c])
          BY <3>1, <3>2 DEF RowsOf, RowOf, IInv, RowsStay
        <4> QED
          BY <1>5, <2>1, <4>1 DEF ToDo
      <3>3. Held(cresv[RowOf(c, p)]) => cresv[RowOf(c, p)] # NoRow
        BY DEF Held, NoRow
      <3> QED
        BY <1>1, <1>4, <1>6, <3>1, <3>2, <3>3 DEF ReleasingRow, Returning, Held, stockVars, rowVars
    <2>4. CallOnCourse(c)'
      BY <1>5, <1>6, <2>1, <2>2, <2>3 DEF CallOnCourse, NoRepeats, Reserving, Releasing
    <2> QED
      BY <1>1, <1>3, <1>5, <1>6, <2>4, MidCallPreserves DEF Writing, stockVars, rowVars
  <1>7. CASE pc'[c] = "confirm"
    <2>1. CallOnCourse(c)'
      BY <1>7 DEF CallOnCourse, NoRepeats, Reserving, Releasing
    <2> QED
      BY <1>1, <1>3, <1>4, <1>5, <1>7, <2>1, MidCallPreserves DEF stockVars, rowVars
  <1> QED
    BY <1>5, <1>6, <1>7

(* The reserved column covers every row that holds units.                  *)
LEMMA ColumnCoversRow ==
    ASSUME TypeOK, ReservedIsHeld, NEW o \in Orders, NEW p \in Products, Held(cresv[<<o, p>>])
    PROVE  cresv[<<o, p>>].qty <= cinv[p].reserved
  <1> DEFINE f == [x \in Orders |-> IF Held(cresv[<<x, p>>]) THEN cresv[<<x, p>>].qty ELSE 0]
  <1>1. \A x \in Orders : cresv[<<x, p>>].qty \in Nat
    BY MaxIntAssumption DEF TypeOK, Keys, Row
  <1>2. f \in [Orders -> Nat]
    BY <1>1
  <1>3. f[o] <= SumFunctionOnSet(f, Orders)
    <2> HIDE DEF f
    <2> QED BY <1>2, OrdersAssumption, SumAtLeast
  <1> QED
    BY <1>3 DEF ReservedIsHeld, HeldUnits

LEMMA ReleaseStockKeeps ==
    ASSUME IInv, SInv, NEW c \in Calls, ReleaseStock(c)
    PROVE  SInv'
  <1> DEFINE p == Target(c)
  <1> DEFINE q == Qty(c)
  <1>1. pc[c] = "release" /\ todo[c] # <<>> /\ order[c] \in Orders
    BY DEF ReleaseStock, IInv, CallsInOrder, CallInOrder
  <1>2. /\ p \in Products /\ ToDo(c, p) /\ 1 \in 1 .. Len(todo[c])
        /\ Item(c) = todo[c][1] /\ p = todo[c][1].product
    BY <1>1, ItemTyped DEF ToDo, IInv, Target
  <1>3. /\ ListsOnce(todo[c])
        /\ \A x \in Products : ReleasingRow(c, x)
        /\ \A i \in 1 .. Len(todo[c]) : ListedRow(c, i)
    BY <1>1 DEF SInv, CallOnCourse, NoRepeats, Releasing
  <1>4. Item(c).held = Held(cresv[RowOf(c, p)]) /\ q = cresv[RowOf(c, p)].qty
    <2>1. Item(c).qty \in 0 .. MaxInt /\ Item(c).qty \in UInt
      BY <1>1, <1>2, ItemTyped DEF IInv, CallsInOrder, CallInOrder, Work
    <2> QED
      BY <1>2, <1>3, <2>1, ToInt32Range DEF ListedRow, Qty
  <1>5. ilock[p] # c
    BY <1>1, <1>2, <1>3 DEF ReleasingRow, Returning
  <1>6. CASE Rollback(c)
    BY <1>6, RollbackKeeps
  <1>7. CASE /\ Goto(c, "mark") /\ UNCHANGED <<product, rowVars, todo>>
             /\ \/ /\ ~Item(c).held \/ Visible(c, p).reserved < q
                   /\ UNCHANGED stockVars
                \/ /\ Item(c).held /\ StockFree(c, p)
                   /\ WriteStock(c, p, Returned(inv[p], q))
    <2>1. OnlyCallMoves(c) /\ pc'[c] = "mark" /\ order'[c] = order[c] /\ todo'[c] = todo[c]
      BY <1>7, GotoTyped DEF IInv, Labels
    <2>2. /\ cinv' = cinv
          /\ \A x \in Products \ {p} : inv'[x] = inv[x] /\ ilock'[x] = ilock[x]
          /\ \A x \in Products : ilock'[x] \in {ilock[x], None, c}
          /\ \A x \in Products : ilock[x] \notin {None, c} => ilock'[x] = ilock[x] /\ inv'[x] = inv[x]
          /\ ilock'[p] = c <=> Held(cresv[RowOf(c, p)])
          /\ ilock'[p] = c => inv'[p].reserved = cinv[p].reserved - q
      <3>1. CASE /\ ~Item(c).held \/ Visible(c, p).reserved < q
                 /\ UNCHANGED stockVars
        <4>1. ~Held(cresv[RowOf(c, p)])
          <5>1. CASE Item(c).held
            <6>1. cinv[p].reserved < q
              BY <1>5, <3>1, <5>1 DEF Visible
            <6>2. cinv[p].reserved \in Int /\ q \in Int
              BY <1>1, <1>2, <1>4, RowsOfProducts DEF IInv, TypeOK, Stock, Row
            <6>3. Held(cresv[RowOf(c, p)]) => q <= cinv[p].reserved
              BY <1>1, <1>2, <1>4, ColumnCoversRow DEF IInv, SInv, RowOf
            <6> QED
              BY <6>1, <6>2, <6>3
          <5>2. CASE ~Item(c).held
            BY <1>4, <5>2
          <5> QED
            BY <5>1, <5>2
        <4> QED
          BY <1>5, <3>1, <4>1 DEF stockVars
      <3>2. CASE /\ Item(c).held /\ StockFree(c, p)
                 /\ WriteStock(c, p, Returned(inv[p], q))
        <4> HIDE DEF p, q
        <4>1. ilock[p] = None /\ inv[p] = cinv[p]
          BY <1>2, <1>5, <3>2 DEF StockFree, IInv, OneVersionUnlessLocked
        <4> QED
          BY <1>2, <1>4, <3>2, <4>1 DEF WriteStock, Returned, IInv, TypeOK
      <3> QED
        BY <1>7, <3>1, <3>2
    <2> HIDE DEF p, q
    <2>3. OwnOnly(c) /\ RowsArePositive' /\ \A k \in Keys : rlock'[k] \in {rlock[k], None, c}
      BY <1>7, <2>2 DEF OwnOnly, SInv, RowsArePositive, rowVars
    <2>4. ASSUME NEW x \in Products PROVE ReleasingRow(c, x)'
      <3>1. /\ RowOf(c, x)' = RowOf(c, x) /\ (ToDo(c, x)' <=> ToDo(c, x))
            /\ Target(c)' = p
        BY <2>1 DEF RowOf, ToDo, Target, Item, p
      <3>2. ReleasingRow(c, x)
        BY <1>3
      <3>3. CASE x = p
        BY <1>2, <1>4, <1>7, <2>1, <2>2, <3>1, <3>2, <3>3 DEF ReleasingRow, Returning, Held, rowVars
      <3>4. CASE x # p
        BY <1>1, <1>7, <2>1, <2>2, <3>1, <3>2, <3>4 DEF ReleasingRow, Returning, Held, rowVars
      <3> QED
        BY <3>3, <3>4
    <2>5. ASSUME NEW i \in 1 .. Len(todo[c]) PROVE ListedRow(c, i)'
      BY <1>3, <1>7, <2>1 DEF ListedRow, RowOf, Held, rowVars
    <2>6. CallOnCourse(c)'
      BY <1>3, <2>1, <2>4, <2>5 DEF CallOnCourse, NoRepeats, Reserving, Releasing
    <2> QED
      BY <1>1, <1>7, <2>1, <2>2, <2>3, <2>6, MidCallPreserves DEF Writing, rowVars
  <1> QED
    BY <1>6, <1>7 DEF ReleaseStock

LEMMA MarkReleasedKeeps ==
    ASSUME IInv, SInv, NEW c \in Calls, MarkReleased(c)
    PROVE  SInv'
  <1> DEFINE p == Target(c)
  <1>1. pc[c] = "mark" /\ RowFree(c) /\ todo[c] # <<>> /\ order[c] \in Orders
    BY DEF MarkReleased, IInv, CallsInOrder, CallInOrder
  <1>2. /\ Key(c) = RowOf(c, p) /\ Key(c) \in Keys /\ p \in Products
        /\ ToDo(c, p) /\ 1 \in 1 .. Len(todo[c]) /\ p = todo[c][1].product
    BY <1>1, ItemTyped, KeyTyped DEF IInv, RowOf, ToDo, Target
  <1>3. /\ ListsOnce(todo[c])
        /\ \A x \in Products : ReleasingRow(c, x)
        /\ \A i \in 1 .. Len(todo[c]) : ListedRow(c, i)
    BY <1>1 DEF SInv, CallOnCourse, NoRepeats, Releasing
  <1>4. cresv[Key(c)] # NoRow
    BY <1>1, <1>2 DEF IInv, CallsInOrder, CallInOrder, RowOf
  <1>5. resv[Key(c)] = cresv[Key(c)]
    <2>1. rlock[Key(c)] = None
      BY <1>1, <1>2, <1>3 DEF ReleasingRow, RowFree
    <2> QED
      BY <1>2, <2>1 DEF IInv, OneVersionUnlessLocked
  <1> DEFINE row == [cresv[Key(c)] EXCEPT !.status = "RELEASED"]
  <1>6. row \in Row /\ row.qty > 0
    BY <1>2, <1>4, MaxIntAssumption DEF IInv, TypeOK, SInv, RowsArePositive, Row, Statuses
  <1>7. WriteRow(c, row) /\ Advance(c, "release") /\ UNCHANGED <<product, stockVars>>
    BY <1>5 DEF MarkReleased, Mark
  <1>8. /\ resv'[Key(c)] = row /\ rlock'[Key(c)] = c /\ cresv' = cresv
        /\ \A k \in Keys \ {Key(c)} : resv'[k] = resv[k] /\ rlock'[k] = rlock[k]
        /\ \A k \in Keys : rlock'[k] \in {rlock[k], None, c}
        /\ RowsArePositive'
        /\ \A o \in Orders \ {order[c]}, x \in Products :
              /\ resv'[<<o, x>>] = resv[<<o, x>>]
              /\ cresv'[<<o, x>>] = cresv[<<o, x>>]
              /\ rlock'[<<o, x>>] = rlock[<<o, x>>]
    <2> HIDE DEF row, p
    <2> QED
      BY <1>1, <1>6, <1>7, WritesOwnRow
  <1>9. OwnOnly(c)
    BY <1>7, <1>8 DEF OwnOnly, stockVars
  <1>10. /\ OnlyCallMoves(c) /\ pc'[c] = "release" /\ order'[c] = order[c]
         /\ todo'[c] = Tail(todo[c])
    BY <1>1, <1>7, AdvanceTyped DEF IInv, Labels
  <1>11. /\ ListsOnce(todo'[c])
         /\ \A x : ToDo(c, x)' <=> ToDo(c, x) /\ x # p
         /\ \A i \in 1 .. Len(todo'[c]) : i + 1 \in 1 .. Len(todo[c]) /\ todo'[c][i] = todo[c][i + 1]
    BY <1>1, <1>3, <1>10, AdvanceWork DEF IInv
  <1> HIDE DEF p
  <1>12. ASSUME NEW x \in Products PROVE ReleasingRow(c, x)'
    <2>1. RowOf(c, x)' = RowOf(c, x) /\ RowOf(c, x) \in Keys
      BY <1>1, <1>10, RowsOfProducts DEF RowOf
    <2>2. ReleasingRow(c, x)
      BY <1>3
    <2>3. CASE x = p
      <3>1. ~ToDo(c, x)' /\ Returning(c, x)' /\ Returning(c, x)
        BY <1>1, <1>11, <2>3 DEF Returning, p
      <3> QED
        BY <1>2, <1>4, <1>7, <1>8, <2>1, <2>2, <2>3, <3>1 DEF ReleasingRow, Held, stockVars
    <2>4. CASE x # p
      <3>1. (ToDo(c, x)' <=> ToDo(c, x)) /\ (Returning(c, x)' <=> Returning(c, x))
        BY <1>1, <1>10, <1>11, <2>4 DEF Returning, p
      <3>2. RowOf(c, x) # Key(c)
        BY <1>1, <1>2, <2>4, RowsOfProducts
      <3> QED
        BY <1>7, <1>8, <2>1, <2>2, <3>1, <3>2 DEF ReleasingRow, Held, stockVars
    <2> QED
      BY <2>3, <2>4
  <1>13. ASSUME NEW i \in 1 .. Len(todo'[c]) PROVE ListedRow(c, i)'
    <2>1. ListedRow(c, i + 1)
      BY <1>3, <1>11
    <2> QED
      BY <1>8, <1>10, <1>11, <2>1 DEF ListedRow, RowOf, Held
  <1>14. CallOnCourse(c)'
    BY <1>10, <1>11, <1>12, <1>13 DEF CallOnCourse, NoRepeats, Reserving, Releasing
  <1> QED
    BY <1>1, <1>7, <1>8, <1>9, <1>10, <1>14, MidCallPreserves DEF Writing, stockVars

LEMMA ConfirmStockKeeps ==
    ASSUME IInv, SInv, NEW c \in Calls, ConfirmStock(c)
    PROVE  SInv' /\ cinv' = cinv /\ cresv' = cresv
  <1>1. /\ pc[c] = "confirm" /\ todo[c] # <<>> /\ order[c] \in Orders
        /\ cinv' = cinv /\ UNCHANGED rowVars /\ Advance(c, "confirm")
    BY DEF ConfirmStock, IInv, CallsInOrder, CallInOrder
  <1>2. inv' = inv /\ ilock' = ilock
    <2> DEFINE id == ReservationId(order[c], Target(c))
    <2> DEFINE hit == {p \in Products : Item(c).held /\ p = id /\ Visible(c, p).reserved >= Qty(c)}
    <2>1. hit = {}
      <3>1. id \in Orders \X Products
        BY <1>1, ItemTyped DEF IInv, ReservationId
      <3> QED
        BY <3>1, IdsAssumption
    <2>2. /\ inv' = [p \in Products |-> IF p \in hit THEN WrittenOff(inv[p], Qty(c)) ELSE inv[p]]
          /\ ilock' = [p \in Products |-> IF p \in hit THEN c ELSE ilock[p]]
      BY DEF ConfirmStock
    <2> HIDE DEF hit
    <2> QED
      BY <2>1, <2>2 DEF IInv, TypeOK
  <1>3. UNCHANGED <<stockVars, rowVars>>
    BY <1>1, <1>2 DEF stockVars
  <1>4. /\ OwnOnly(c) /\ RowsArePositive'
        /\ \A k \in Keys : rlock'[k] \in {rlock[k], None, c}
    BY <1>3, MovesAreOwn DEF SInv
  <1>5. /\ \A p \in Products : ilock'[p] # c
        /\ \A k \in Keys : rlock'[k] # c
    BY <1>1, <1>3, NoLocksOutside DEF Writing, stockVars, rowVars
  <1>6. OnlyCallMoves(c) /\ pc'[c] = "confirm" /\ order'[c] = order[c]
    BY <1>1, AdvanceTyped DEF IInv, Labels
  <1>7. CallOnCourse(c)'
    BY <1>6 DEF CallOnCourse, NoRepeats, Reserving, Releasing
  <1> QED
    BY <1>1, <1>3, <1>4, <1>5, <1>6, <1>7, MidCallPreserves DEF stockVars, rowVars

-----------------------------------------------------------------------------
(* Every step preserves SInv: commits, deletions and the catalogue.        *)

(* What a commit makes of the order's row of a product.                    *)
CommittedRow(c, p) ==
    /\ cresv'[RowOf(c, p)] = IF rlock[RowOf(c, p)] = c THEN resv[RowOf(c, p)] ELSE cresv[RowOf(c, p)]
    /\ cinv'[p] = IF ilock[p] = c THEN inv[p] ELSE cinv[p]

LEMMA CommitWrites ==
    ASSUME IInv, SInv, NEW c \in Calls, Commit(c)
    PROVE  /\ order[c] \in Orders /\ order[c] # None /\ \A p : ~ToDo(c, p)
           /\ \A p \in Products : CommittedRow(c, p)
           /\ \A o \in Orders \ {order[c]}, p \in Products : cresv'[<<o, p>>] = cresv[<<o, p>>]
  <1>1. order[c] \in Orders /\ order[c] # None /\ todo[c] = <<>>
    BY NoneAssumption DEF Commit, IInv, CallsInOrder, CallInOrder
  <1>2. \A p : ~ToDo(c, p)
    BY <1>1 DEF ToDo
  <1>3. /\ \A k \in Keys : cresv'[k] = IF rlock[k] = c THEN resv[k] ELSE cresv[k]
        /\ \A p \in Products : cinv'[p] = IF ilock[p] = c THEN inv[p] ELSE cinv[p]
    BY DEF Commit
  <1>4. \A p \in Products : CommittedRow(c, p)
    BY <1>1, <1>3 DEF CommittedRow, RowOf, Keys
  <1>5. \A o \in Orders \ {order[c]}, p \in Products : <<o, p>> \in Keys /\ rlock[<<o, p>>] # c
    BY OwnRows DEF Keys
  <1> QED
    BY <1>1, <1>2, <1>3, <1>4, <1>5

(* A Reserve gives the order the rows it has written, and takes the units  *)
(* of those that are RESERVED.                                             *)
LEMMA ReserveCommits ==
    ASSUME IInv, SInv, NEW c \in Calls, Commit(c), pc[c] = "product", NEW p \in Products
    PROVE  /\ cresv[RowOf(c, p)] = NoRow
           /\ rlock[RowOf(c, p)] = c => cresv'[RowOf(c, p)] = resv[RowOf(c, p)]
           /\ rlock[RowOf(c, p)] # c => cresv'[RowOf(c, p)] = NoRow
           /\ cinv'[p].reserved =
                 cinv[p].reserved +
                    IF Held(cresv'[RowOf(c, p)]) THEN cresv'[RowOf(c, p)].qty ELSE 0
  <1>1. CommittedRow(c, p) /\ RowOf(c, p) \in Keys
    BY CommitWrites DEF RowOf, Keys
  <1>2. ReservingRow(c, p)
    BY DEF SInv, CallOnCourse, Reserving
  <1>3. cinv[p].reserved \in Int
    BY DEF IInv, TypeOK, Stock
  <1>4. CASE ilock[p] = c
    BY <1>1, <1>2, <1>4 DEF CommittedRow, ReservingRow
  <1>5. CASE ilock[p] # c
    BY <1>1, <1>2, <1>3, <1>5 DEF CommittedRow, ReservingRow, Held, NoRow
  <1> QED
    BY <1>4, <1>5

(* A Release turns every row of the order into a RELEASED one, and returns *)
(* the units of those that were RESERVED.                                  *)
LEMMA ReleaseCommits ==
    ASSUME IInv, SInv, NEW c \in Calls, Commit(c), pc[c] = "release", NEW p \in Products
    PROVE  /\ cresv'[RowOf(c, p)] =
                 IF cresv[RowOf(c, p)] = NoRow THEN NoRow
                 ELSE [cresv[RowOf(c, p)] EXCEPT !.status = "RELEASED"]
           /\ cinv'[p].reserved =
                 cinv[p].reserved - IF Held(cresv[RowOf(c, p)]) THEN cresv[RowOf(c, p)].qty ELSE 0
  <1>1. CommittedRow(c, p) /\ RowOf(c, p) \in Keys /\ ~ToDo(c, p)
    BY CommitWrites DEF RowOf, Keys
  <1>2. ReleasingRow(c, p)
    BY DEF SInv, CallOnCourse, Releasing
  <1>3. cinv[p].reserved \in Int
    BY DEF IInv, TypeOK, Stock
  <1>4. ilock[p] = c <=> Held(cresv[RowOf(c, p)])
    BY <1>1, <1>2 DEF ReleasingRow, Returning
  <1>5. CASE ilock[p] = c
    BY <1>1, <1>2, <1>4, <1>5 DEF CommittedRow, ReleasingRow, Held, NoRow
  <1>6. CASE ilock[p] # c
    BY <1>1, <1>2, <1>3, <1>4, <1>6 DEF CommittedRow, ReleasingRow
  <1> QED
    BY <1>5, <1>6

(* A Confirm has nothing to commit.                                        *)
LEMMA ConfirmCommits ==
    ASSUME IInv, SInv, NEW c \in Calls, Commit(c), pc[c] = "confirm"
    PROVE  cinv' = cinv /\ cresv' = cresv
  <1>1. (\A p \in Products : ilock[p] # c) /\ (\A k \in Keys : rlock[k] # c)
    BY NoLocksOutside DEF Writing
  <1>2. /\ cinv' = [p \in Products |-> IF ilock[p] = c THEN inv[p] ELSE cinv[p]]
        /\ cresv' = [k \in Keys |-> IF rlock[k] = c THEN resv[k] ELSE cresv[k]]
    BY DEF Commit
  <1>3. cinv \in [Products -> Stock] /\ cresv \in [Keys -> Row]
    BY DEF IInv, TypeOK
  <1>4. cinv' = cinv
    BY <1>1, <1>2, <1>3
  <1>5. cresv' = cresv
    BY <1>1, <1>2, <1>3
  <1> QED
    BY <1>4, <1>5

(* The column moves by what the sum does: one order's row changes.         *)
LEMMA CommitAddsUp ==
    ASSUME IInv, IInv', SInv, NEW c \in Calls, Commit(c)
    PROVE  ReservedIsHeld'
  <1>1. CASE pc[c] = "confirm"
    BY <1>1, ConfirmCommits, SameReserved DEF SInv
  <1>2. ASSUME pc[c] # "confirm", NEW p \in Products PROVE cinv'[p].reserved = HeldUnits(cresv', p)
    <2> DEFINE o == order[c]
    <2> DEFINE f == [x \in Orders |-> IF Held(cresv[<<x, p>>]) THEN cresv[<<x, p>>].qty ELSE 0]
    <2> DEFINE g == [x \in Orders |-> IF Held(cresv'[<<x, p>>]) THEN cresv'[<<x, p>>].qty ELSE 0]
    <2>1. o \in Orders /\ \A x \in Orders \ {o} : cresv'[<<x, p>>] = cresv[<<x, p>>]
      BY CommitWrites
    <2>2. f \in [Orders -> Nat]
      <3>1. \A x \in Orders : cresv[<<x, p>>].qty \in Nat
        BY MaxIntAssumption DEF IInv, TypeOK, Keys, Row
      <3> QED
        BY <3>1
    <2>3. g \in [Orders -> Nat]
      <3>1. \A x \in Orders : cresv'[<<x, p>>].qty \in Nat
        BY MaxIntAssumption DEF IInv, TypeOK, Keys, Row
      <3> QED
        BY <3>1
    <2>4. \A x \in Orders \ {o} : g[x] = f[x]
      BY <2>1
    <2>5. cinv'[p].reserved = cinv[p].reserved - f[o] + g[o]
      <3>1. cinv[p].reserved \in Int
        BY DEF IInv, TypeOK, Stock
      <3>2. CASE pc[c] = "product"
        <4>1. ~Held(cresv[RowOf(c, p)])
          BY <3>2, ReserveCommits DEF Held, NoRow
        <4>2. cinv'[p].reserved = cinv[p].reserved +
                IF Held(cresv'[RowOf(c, p)]) THEN cresv'[RowOf(c, p)].qty ELSE 0
          BY <3>2, ReserveCommits
        <4> QED
          BY <2>1, <3>1, <4>1, <4>2 DEF RowOf
      <3>3. CASE pc[c] = "release"
        <4>1. cresv[RowOf(c, p)] \in Row
          BY CommitWrites DEF IInv, TypeOK, RowOf, Keys
        <4>2. ~Held(cresv'[RowOf(c, p)])
          <5>1. cresv'[RowOf(c, p)] =
                   IF cresv[RowOf(c, p)] = NoRow THEN NoRow
                   ELSE [cresv[RowOf(c, p)] EXCEPT !.status = "RELEASED"]
            BY <3>3, ReleaseCommits
          <5>2. CASE cresv[RowOf(c, p)] = NoRow
            BY <5>1, <5>2 DEF Held, NoRow
          <5>3. CASE cresv[RowOf(c, p)] # NoRow
            BY <4>1, <5>1, <5>3 DEF Held, Row
          <5> QED
            BY <5>2, <5>3
        <4>3. cinv'[p].reserved = cinv[p].reserved -
                IF Held(cresv[RowOf(c, p)]) THEN cresv[RowOf(c, p)].qty ELSE 0
          BY <3>3, ReleaseCommits
        <4>4. f[o] = IF Held(cresv[RowOf(c, p)]) THEN cresv[RowOf(c, p)].qty ELSE 0
          BY <2>1 DEF RowOf
        <4>5. g[o] = 0 /\ f[o] \in Nat
          BY <2>1, <2>2, <4>2 DEF RowOf
        <4> HIDE DEF f, g
        <4> QED
          BY <3>1, <4>3, <4>4, <4>5
      <3> QED
        BY <1>2, <3>2, <3>3 DEF Commit
    <2>6. SumFunctionOnSet(g, Orders) = SumFunctionOnSet(f, Orders) - f[o] + g[o]
      <3> HIDE DEF f, g
      <3> QED
        BY <2>1, <2>2, <2>3, <2>4, OrdersAssumption, SumChanges
    <2>7. cinv[p].reserved = SumFunctionOnSet(f, Orders)
      BY DEF SInv, ReservedIsHeld, HeldUnits
    <2>8. HeldUnits(cresv', p) = SumFunctionOnSet(g, Orders)
      BY DEF HeldUnits
    <2> HIDE DEF f, g
    <2> QED
      BY <2>5, <2>6, <2>7, <2>8
  <1> QED
    BY <1>1, <1>2 DEF ReservedIsHeld

LEMMA CommitKeeps ==
    ASSUME IInv, IInv', SInv, NEW c \in Calls, Commit(c)
    PROVE  SInv'
  <1>1. /\ \A p \in Products : cinv'[p] = IF ilock[p] = c THEN inv[p] ELSE cinv[p]
        /\ \A p \in Products : ilock'[p] = IF ilock[p] = c THEN None ELSE ilock[p]
        /\ \A k \in Keys : cresv'[k] = IF rlock[k] = c THEN resv[k] ELSE cresv[k]
        /\ \A k \in Keys : rlock'[k] = IF rlock[k] = c THEN None ELSE rlock[k]
        /\ inv' = inv /\ resv' = resv /\ c # None
    BY NoneAssumption DEF Commit, Unlock
  <1>2. OnlyCallMoves(c) /\ pc'[c] = "idle" /\ order'[c] = None
    BY FinishTyped DEF IInv, TypeOK, Commit, Finish
  <1>3. OwnOnly(c)
    <2>1. \A o \in Orders \ {order[c]}, p \in Products : <<o, p>> \in Keys /\ rlock[<<o, p>>] # c
      BY OwnRows DEF Keys
    <2> QED
      BY <1>1, <2>1 DEF OwnOnly
  <1>4. /\ \A k \in Keys : rlock'[k] # c /\ rlock'[k] \in {rlock[k], None}
        /\ \A p \in Products : ilock'[p] # c
    BY <1>1
  <1>5. RowsArePositive'
    BY <1>1 DEF SInv, RowsArePositive
  <1> QED
    BY <1>2, <1>3, <1>4, <1>5, CommitAddsUp, EndPreserves

LEMMA DeleteKeeps ==
    ASSUME IInv, SInv, NEW c \in Calls, Delete(c)
    PROVE  /\ SInv' /\ cresv' = cresv
           /\ \A p \in Products :
                 cinv'[p] = cinv[p] \/ (p = Target(c) /\ cinv'[p] = NoStock)
  <1> DEFINE d == Target(c)
  <1>1. pc[c] = "delete" /\ d \in Products /\ ~KeyShared(d) /\ ilock[d] = None /\ UNCHANGED rowVars
    BY ItemTyped DEF Delete, IInv, CallsInOrder, CallInOrder
  <1>2. OnlyCallMoves(c) /\ pc'[c] = "idle" /\ order'[c] = None
    BY FinishTyped DEF IInv, TypeOK, Delete, Finish
  <1>3. \/ UNCHANGED stockVars
        \/ /\ ~DeleteRefused(d) /\ ilock' = ilock
           /\ inv' = [inv EXCEPT ![d] = NoStock]
           /\ cinv' = [cinv EXCEPT ![d] = NoStock]
    BY DEF Delete
  <1>4. (\A p \in Products : ilock[p] # c) /\ (\A k \in Keys : rlock[k] # c)
    BY <1>1, NoLocksOutside DEF Writing
  <1> HIDE DEF d
  <1>5. /\ ilock' = ilock
        /\ \A p \in Products \ {d} : inv'[p] = inv[p] /\ cinv'[p] = cinv[p]
        /\ cinv'[d] = cinv[d] \/ (~DeleteRefused(d) /\ cinv'[d] = NoStock)
    BY <1>1, <1>3 DEF stockVars, IInv, TypeOK
  <1>6. OwnOnly(c)
    BY <1>1, <1>5 DEF OwnOnly, rowVars
  <1>7. RowsArePositive'
    BY <1>1 DEF SInv, RowsArePositive, rowVars
  <1>8. ReservedIsHeld'
    <2>1. cinv'[d].reserved = cinv[d].reserved
      BY <1>1, <1>5, DeletedHasNothing DEF NoStock
    <2> QED
      BY <1>1, <1>5, <2>1, SameReserved DEF SInv, rowVars
  <1>9. SInv'
    BY <1>1, <1>2, <1>4, <1>5, <1>6, <1>7, <1>8, EndPreserves DEF rowVars
  <1> QED
    BY <1>1, <1>5, <1>9 DEF rowVars, d

LEMMA CatalogueKeeps ==
    ASSUME IInv, SInv, Catalogue
    PROVE  /\ SInv' /\ cresv' = cresv
           /\ \/ cinv' = cinv
              \/ \E p \in Products, n \in 0 .. MaxInt : cinv' = [cinv EXCEPT ![p].available = n]
  <1>1. /\ UNCHANGED <<ilock, rowVars, callVars>>
        /\ \/ UNCHANGED stockVars
           \/ \E p \in Products, n \in 0 .. MaxInt :
                 /\ ilock[p] = None
                 /\ inv' = [inv EXCEPT ![p].available = n]
                 /\ cinv' = [cinv EXCEPT ![p].available = n]
    <2>1. ASSUME NEW p \in Products, CreateProduct(p) \/ \E st \in Live : UpdateProduct(p, st)
          PROVE  UNCHANGED <<stockVars, ilock, rowVars, callVars>>
      BY <2>1 DEF CreateProduct, UpdateProduct, stockVars
    <2>2. ASSUME NEW p \in Products, NEW n \in StockArgs, SetStock(p, n)
          PROVE  /\ UNCHANGED <<ilock, rowVars, callVars>> /\ ilock[p] = None /\ n \in 0 .. MaxInt
                 /\ inv' = [inv EXCEPT ![p].available = n]
                 /\ cinv' = [cinv EXCEPT ![p].available = n]
      BY <2>2 DEF SetStock
    <2>3. ASSUME NEW p \in Products, NEW n \in StockArgs, AdjustStock(p, n)
          PROVE  /\ UNCHANGED <<ilock, rowVars, callVars>> /\ ilock[p] = None
                 /\ inv[p].available + n \in 0 .. MaxInt
                 /\ inv' = [inv EXCEPT ![p].available = inv[p].available + n]
                 /\ cinv' = [cinv EXCEPT ![p].available = inv[p].available + n]
      <3>1. inv[p] = cinv[p]
        BY <2>3 DEF AdjustStock, IInv, OneVersionUnlessLocked
      <3> QED
        BY <2>3, <3>1 DEF AdjustStock, IInv, TypeOK
    <2> QED
      BY <2>1, <2>2, <2>3 DEF Catalogue
  <1>2. /\ \A p \in Products : inv'[p].reserved = inv[p].reserved /\ cinv'[p].reserved = cinv[p].reserved
        /\ cresv' = cresv
    <2>1. cresv' = cresv
      BY <1>1 DEF rowVars
    <2>2. inv \in [Products -> Stock] /\ cinv \in [Products -> Stock]
      BY DEF IInv, TypeOK
    <2>3. CASE UNCHANGED stockVars
      BY <2>1, <2>3 DEF stockVars
    <2>4. ASSUME NEW q \in Products, NEW n \in 0 .. MaxInt,
                 inv' = [inv EXCEPT ![q].available = n],
                 cinv' = [cinv EXCEPT ![q].available = n]
          PROVE  \A p \in Products :
                    inv'[p].reserved = inv[p].reserved /\ cinv'[p].reserved = cinv[p].reserved
      <3>1. ASSUME NEW p \in Products, p # q
            PROVE  inv'[p].reserved = inv[p].reserved /\ cinv'[p].reserved = cinv[p].reserved
        BY <2>2, <2>4, <3>1
      <3>2. inv[q] \in Stock /\ cinv[q] \in Stock
        BY <2>2
      <3>3. /\ inv'[q] = [inv[q] EXCEPT !.available = n]
            /\ cinv'[q] = [cinv[q] EXCEPT !.available = n]
        BY <2>2, <2>4
      <3>4. inv'[q].reserved = inv[q].reserved /\ cinv'[q].reserved = cinv[q].reserved
        BY <3>2, <3>3 DEF Stock
      <3> QED
        BY <3>1, <3>4
    <2> QED
      BY <1>1, <2>1, <2>3, <2>4
  <1>3. \A d \in Calls : CallOnCourse(d)'
    <2>1. ASSUME NEW d \in Calls PROVE SameCall(d) /\ SameRows(d) /\ SameStock(d)
      BY <1>1, <1>2 DEF SameCall, SameRows, SameStock, rowVars, callVars
    <2> QED
      BY <2>1, CourseKept DEF IInv, SInv
  <1>4. OneCallPerOrder' /\ LocksAreOwn' /\ RowsArePositive'
    BY <1>1 DEF SInv, OneCallPerOrder, LocksAreOwn, RowsArePositive, rowVars, callVars
  <1>5. ReservedIsHeld'
    BY <1>2, SameReserved DEF SInv
  <1> QED
    BY <1>1, <1>2, <1>3, <1>4, <1>5 DEF SInv, stockVars
-----------------------------------------------------------------------------
(* SInv is an invariant of Inventory when callers are orderly.             *)

LEMMA SerialInit == Init => SInv
  <1> SUFFICES ASSUME Init PROVE SInv
    OBVIOUS
  <1>1. OneCallPerOrder /\ LocksAreOwn /\ RowsArePositive
    BY NoneAssumption DEF Init, OneCallPerOrder, LocksAreOwn, RowsArePositive, Keys
  <1>2. \A c \in Calls : CallOnCourse(c)
    BY EndedIsOnCourse DEF Init
  <1>3. ASSUME NEW p \in Products PROVE cinv[p].reserved = HeldUnits(cresv, p)
    <2> DEFINE f == [o \in Orders |-> IF Held(cresv[<<o, p>>]) THEN cresv[<<o, p>>].qty ELSE 0]
    <2>1. \A o \in Orders : cresv[<<o, p>>] = NoRow
      BY DEF Init, Keys
    <2>2. f \in [Orders -> Nat] /\ \A o \in Orders : f[o] = 0
      BY <2>1 DEF Held, NoRow
    <2>3. SumFunctionOnSet(f, Orders) = 0
      <3> HIDE DEF f
      <3> QED
        BY <2>2, OrdersAssumption, SumOfNaturals
    <2>4. cinv[p].reserved = 0
      BY DEF Init, NoStock
    <2> QED
      BY <2>3, <2>4 DEF HeldUnits
  <1> QED
    BY <1>1, <1>2, <1>3 DEF SInv, ReservedIsHeld

LEMMA SerialStep ==
    ASSUME OrderlyCallers, IInv, IInv', SInv, [Next]_vars
    PROVE  SInv'
  <1>1. CASE UNCHANGED vars
    <2>1. UNCHANGED <<inv, cinv, ilock, resv, cresv, rlock, pc, order, todo>>
      BY <1>1 DEF vars
    <2>2. ASSUME NEW d \in Calls PROVE CallOnCourse(d)'
      <3>1. SameCall(d) /\ SameRows(d) /\ SameStock(d)
        BY <2>1 DEF SameCall, SameRows, SameStock, RowOf
      <3> QED
        BY <3>1, CourseKept DEF IInv, SInv
    <2>3. OneCallPerOrder' /\ LocksAreOwn' /\ RowsArePositive'
      BY <2>1 DEF SInv, OneCallPerOrder, LocksAreOwn, RowsArePositive
    <2> QED
      BY <2>1, <2>2, <2>3, SameReserved DEF SInv
  <1>2. ASSUME NEW c \in Calls, Begin(c) PROVE SInv'
    BY <1>2, BeginKeeps
  <1>3. ASSUME NEW c \in Calls, Step(c) PROVE SInv'
    BY <1>3, CheckExistingKeeps, ReadProductKeeps, UpsertPendingKeeps, TryReserveKeeps,
       ListByOrderKeeps, ReleaseStockKeeps, MarkReleasedKeeps, ConfirmStockKeeps,
       CommitKeeps, DeleteKeeps
       DEF Step
  <1>4. ASSUME NEW c \in Calls, Abort(c) \/ DeadlockVictim(c) PROVE SInv'
    BY <1>4, RollbackKeeps DEF Abort, DeadlockVictim
  <1>5. CASE Catalogue
    BY <1>5, CatalogueKeeps
  <1> QED
    BY <1>1, <1>2, <1>3, <1>4, <1>5 DEF Next

(* When callers are orderly, every open transaction stands where SInv says *)
(* and the reserved column adds up.                                        *)
THEOREM SerialInvariance ==
    ASSUME OrderlyCallers
    PROVE  Spec => []SInv
  <1>1. IInv /\ IInv' /\ SInv /\ [Next]_vars => SInv'
    BY SerialStep
  <1> QED
    BY <1>1, SerialInit, Invariance, PTL DEF Spec

(* When callers are orderly, the reserved column of a product is what the  *)
(* RESERVED rows of all orders add up to, however many orders, products    *)
(* and calls there are and wherever calls are cut short.                   *)
THEOREM ReservedStaysHeld ==
    ASSUME OrderlyCallers
    PROVE  Spec => []ReservedIsHeld
  <1>1. SInv => ReservedIsHeld
    BY DEF SInv
  <1> QED
    BY <1>1, SerialInvariance, PTL

(* When callers are orderly, a Release that commits leaves the order no    *)
(* row in any other status.                                                *)
THEOREM ReleasesAreComplete ==
    ASSUME OrderlyCallers
    PROVE  Spec => ReleaseIsComplete
  <1>1. ASSUME IInv, SInv, NEW c \in Calls, pc[c] = "release", Commit(c), NEW p \in Products
        PROVE  cresv'[<<order[c], p>>].status \in {"none", "RELEASED"}
    <2>1. cresv[RowOf(c, p)] \in Row
      BY <1>1, CommitWrites DEF IInv, TypeOK, RowOf, Keys
    <2>2. cresv'[RowOf(c, p)] =
             IF cresv[RowOf(c, p)] = NoRow THEN NoRow
             ELSE [cresv[RowOf(c, p)] EXCEPT !.status = "RELEASED"]
      BY <1>1, ReleaseCommits
    <2>3. cresv'[RowOf(c, p)].status \in {"none", "RELEASED"}
      BY <2>1, <2>2 DEF NoRow, Row
    <2> QED
      BY <2>3 DEF RowOf
  <1>2. IInv /\ SInv /\ [Next]_vars =>
           [\A c \in Calls : pc[c] = "release" /\ Commit(c) =>
              \A p \in Products : cresv'[<<order[c], p>>].status \in {"none", "RELEASED"}]_vars
    BY <1>1
  <1> QED
    BY <1>2, Invariance, SerialInvariance, PTL DEF Spec, ReleaseIsComplete

-----------------------------------------------------------------------------
(* Inventory implements StockLedger: a call's effect is that of its commit.*)

(* A commit leaves a product as many units as it had, and the stock that   *)
(* it leaves available is what it does not leave reserved.                 *)
LEMMA CommitMovesUnits ==
    ASSUME IInv, IInv', NEW c \in Calls, Commit(c), NEW p \in Products
    PROVE  /\ cinv'[p].available = cinv[p].available + cinv[p].reserved - cinv'[p].reserved
           /\ cinv'[p].available \in Nat /\ cinv[p].available \in Nat
           /\ cinv'[p].reserved \in Nat /\ cinv[p].reserved \in Nat
  <1>1. cinv[p] \in Stock /\ inv[p] \in Stock /\ cinv'[p] \in Stock
    BY DEF IInv, TypeOK
  <1>2. cinv'[p] = IF ilock[p] = c THEN inv[p] ELSE cinv[p]
    BY DEF Commit
  <1>3. inv[p].available + inv[p].reserved = cinv[p].available + cinv[p].reserved
    BY DEF IInv, SameTotal
  <1>4. /\ cinv[p].available \in Nat /\ cinv[p].reserved \in Nat
        /\ inv[p].available \in Nat /\ inv[p].reserved \in Nat
    BY <1>1, MaxIntAssumption DEF Stock
  <1> QED
    BY <1>2, <1>3, <1>4

(* What a Reserve leaves of one product: a line in full, or nothing.       *)
LEMMA ReserveMovesUnits ==
    ASSUME IInv, IInv', SInv, NEW c \in Calls, Commit(c), pc[c] = "product", NEW p \in Products
    PROVE  /\ cresv[RowOf(c, p)] = NoRow
           /\ rlock[RowOf(c, p)] # c =>
                 cresv'[RowOf(c, p)] = NoRow /\ cinv'[p].available = cinv[p].available
           /\ rlock[RowOf(c, p)] = c =>
                 /\ resv[RowOf(c, p)] \in Ledger!Line
                 /\ cresv'[RowOf(c, p)] = resv[RowOf(c, p)]
                 /\ resv[RowOf(c, p)].status # "RESERVED" =>
                       cinv'[p].available = cinv[p].available
                 /\ resv[RowOf(c, p)].status = "RESERVED" =>
                       /\ resv[RowOf(c, p)].qty <= cinv[p].available
                       /\ cinv'[p].available = cinv[p].available - resv[RowOf(c, p)].qty
  <1> DEFINE row == resv[RowOf(c, p)]
  <1>1. /\ cresv[RowOf(c, p)] = NoRow
        /\ rlock[RowOf(c, p)] = c => cresv'[RowOf(c, p)] = row
        /\ rlock[RowOf(c, p)] # c => cresv'[RowOf(c, p)] = NoRow
        /\ cinv'[p].reserved =
              cinv[p].reserved + IF Held(cresv'[RowOf(c, p)]) THEN cresv'[RowOf(c, p)].qty ELSE 0
    BY ReserveCommits
  <1>2. /\ cinv'[p].available = cinv[p].available + cinv[p].reserved - cinv'[p].reserved
        /\ cinv'[p].available \in Nat /\ cinv[p].available \in Nat
        /\ cinv'[p].reserved \in Nat /\ cinv[p].reserved \in Nat
    BY CommitMovesUnits
  <1>3. CASE rlock[RowOf(c, p)] # c
    BY <1>1, <1>2, <1>3 DEF Held, NoRow
  <1>4. CASE rlock[RowOf(c, p)] = c
    <2>1. ReservingRow(c, p) /\ ~ToDo(c, p)
      BY CommitWrites DEF SInv, CallOnCourse, Reserving
    <2>2. RowOf(c, p) \in Keys
      BY CommitWrites DEF RowOf, Keys
    <2>3. row \in Row /\ row.status \in {"RESERVED", "FAILED"}
      BY <1>4, <2>1, <2>2 DEF IInv, TypeOK, ReservingRow
    <2>4. row.qty \in 1 .. MaxInt
      <3>1. row # NoRow
        BY <2>3 DEF NoRow
      <3> QED
        BY <2>2, <2>3, <3>1, MaxIntAssumption DEF SInv, RowsArePositive, Row
    <2>5. row \in Ledger!Line
      BY <2>3, <2>4 DEF Ledger!Line, Row
    <2> HIDE DEF row
    <2>6. row.qty \in Nat
      BY <2>4, MaxIntAssumption
    <2>7. CASE row.status = "RESERVED"
      BY <1>1, <1>2, <1>4, <2>5, <2>6, <2>7 DEF Held, row
    <2>8. CASE row.status # "RESERVED"
      BY <1>1, <1>2, <1>4, <2>5, <2>8 DEF Held, row
    <2> QED
      BY <2>7, <2>8
  <1> QED
    BY <1>3, <1>4

LEMMA ReserveIsStep ==
    ASSUME IInv, IInv', SInv, NEW c \in Calls, Commit(c), pc[c] = "product",
           NEW o \in Orders, o = order[c]
    PROVE  Ledger!Reserve(o)
  <1> DEFINE S == {p \in Products : rlock[<<o, p>>] = c}
  <1> DEFINE line == [p \in S |-> resv[<<o, p>>]]
  <1>1. \A x \in Orders \ {o}, p \in Products : cresv'[<<x, p>>] = cresv[<<x, p>>]
    BY CommitWrites
  <1>2. ASSUME NEW p \in Products
        PROVE  /\ cresv[<<o, p>>] = NoRow
               /\ p \notin S => cresv'[<<o, p>>] = NoRow /\ cinv'[p].available = cinv[p].available
               /\ p \in S =>
                     /\ line[p] \in Ledger!Line
                     /\ cresv'[<<o, p>>] = line[p]
                     /\ line[p].status # "RESERVED" => cinv'[p].available = cinv[p].available
                     /\ line[p].status = "RESERVED" =>
                           /\ line[p].qty <= cinv[p].available
                           /\ cinv'[p].available = cinv[p].available - line[p].qty
    BY ReserveMovesUnits DEF RowOf
  <1>3. S \in SUBSET Products /\ line \in [S -> Ledger!Line]
    BY <1>2
  <1>4. cresv' \in [Orders \X Products -> Row]
    BY DEF IInv, TypeOK, Keys
  <1> HIDE DEF S, line
  <1>5. Ledger!ProductsOf(o) = {}
    BY <1>2 DEF Ledger!ProductsOf, Ledger!NoEntry, NoRow
  <1>6. cresv' = [k \in Orders \X Products |->
                    IF k[1] = o /\ k[2] \in S THEN line[k[2]] ELSE cresv[k]]
    <2>1. ASSUME NEW x \in Orders, NEW p \in Products
          PROVE  cresv'[<<x, p>>] = IF x = o /\ p \in S THEN line[p] ELSE cresv[<<x, p>>]
      BY <1>1, <1>2
    <2> QED
      BY <1>4, <2>1
  <1>7. \A p \in S : line[p].status = "RESERVED" => line[p].qty <= cinv[p].available
    BY <1>2, <1>3
  <1>8. [p \in Products |-> cinv'[p].available] =
           [p \in Products |-> IF p \in S /\ line[p].status = "RESERVED"
                               THEN cinv[p].available - line[p].qty ELSE cinv[p].available]
    BY <1>2
  <1>9. \A p \in Products : [q \in Products |-> cinv[q].available][p] = cinv[p].available
    OBVIOUS
  <1> QED
    BY <1>3, <1>5, <1>6, <1>7, <1>8, <1>9 DEF Ledger!Reserve

LEMMA ReleaseIsStep ==
    ASSUME IInv, IInv', SInv, NEW c \in Calls, Commit(c), pc[c] = "release",
           NEW o \in Orders, o = order[c]
    PROVE  Ledger!Release(o)
  <1>1. \A x \in Orders \ {o}, p \in Products : cresv'[<<x, p>>] = cresv[<<x, p>>]
    BY CommitWrites
  <1>2. ASSUME NEW p \in Products
        PROVE  /\ cresv'[<<o, p>>] = IF cresv[<<o, p>>] = NoRow THEN NoRow
                                     ELSE [cresv[<<o, p>>] EXCEPT !.status = "RELEASED"]
               /\ cinv'[p].available = IF Held(cresv[<<o, p>>])
                                       THEN cinv[p].available + cresv[<<o, p>>].qty
                                       ELSE cinv[p].available
    <2>1. /\ cresv'[<<o, p>>] = IF cresv[<<o, p>>] = NoRow THEN NoRow
                                ELSE [cresv[<<o, p>>] EXCEPT !.status = "RELEASED"]
          /\ cinv'[p].reserved =
                cinv[p].reserved - IF Held(cresv[<<o, p>>]) THEN cresv[<<o, p>>].qty ELSE 0
      BY ReleaseCommits DEF RowOf
    <2>2. cresv[<<o, p>>].qty \in Nat
      <3>1. cresv[<<o, p>>] \in Row
        BY <1>1 DEF IInv, TypeOK, Keys
      <3> QED
        BY <3>1, MaxIntAssumption DEF Row
    <2>3. /\ cinv'[p].available = cinv[p].available + cinv[p].reserved - cinv'[p].reserved
          /\ cinv[p].available \in Nat /\ cinv[p].reserved \in Nat
      BY CommitMovesUnits
    <2> QED
      BY <2>1, <2>2, <2>3
  <1>3. cresv' \in [Orders \X Products -> Row]
    BY DEF IInv, TypeOK, Keys
  <1>4. cresv' = [k \in Orders \X Products |->
                    IF k[1] = o /\ cresv[k] # NoRow
                    THEN [cresv[k] EXCEPT !.status = "RELEASED"] ELSE cresv[k]]
    <2>1. ASSUME NEW x \in Orders, NEW p \in Products
          PROVE  cresv'[<<x, p>>] = IF x = o /\ cresv[<<x, p>>] # NoRow
                                    THEN [cresv[<<x, p>>] EXCEPT !.status = "RELEASED"]
                                    ELSE cresv[<<x, p>>]
      BY <1>1, <1>2
    <2> DEFINE new == [k \in Orders \X Products |->
                         IF k[1] = o /\ cresv[k] # NoRow
                         THEN [cresv[k] EXCEPT !.status = "RELEASED"] ELSE cresv[k]]
    <2>2. ASSUME NEW x \in Orders, NEW p \in Products
          PROVE  new[<<x, p>>] = IF x = o /\ cresv[<<x, p>>] # NoRow
                                 THEN [cresv[<<x, p>>] EXCEPT !.status = "RELEASED"]
                                 ELSE cresv[<<x, p>>]
      OBVIOUS
    <2>3. DOMAIN new = Orders \X Products /\ new = [k \in Orders \X Products |-> new[k]]
      OBVIOUS
    <2> HIDE DEF new
    <2>4. \A k \in Orders \X Products : cresv'[k] = new[k]
      <3>1. ASSUME NEW x \in Orders, NEW p \in Products PROVE cresv'[<<x, p>>] = new[<<x, p>>]
        BY <2>1, <2>2
      <3> QED
        BY <3>1
    <2>5. cresv' = new
      BY <1>3, <2>3, <2>4
    <2> QED
      BY <2>5 DEF new
  <1>5. [p \in Products |-> cinv'[p].available] =
           [p \in Products |-> IF Ledger!HeldFor(o, p)
                               THEN cinv[p].available + cresv[<<o, p>>].qty
                               ELSE cinv[p].available]
    BY <1>2 DEF Ledger!HeldFor, Held
  <1>6. \A p \in Products : [q \in Products |-> cinv[q].available][p] = cinv[p].available
    OBVIOUS
  <1>7. Ledger!NoEntry = NoRow
    BY DEF Ledger!NoEntry, NoRow
  <1> QED
    BY <1>4, <1>5, <1>6, <1>7 DEF Ledger!Release

(* A new count of one product is a step of the ledger.                     *)
LEMMA CountIsStep ==
    ASSUME NEW q \in Products, cresv' = cresv, cinv'[q].available \in 0 .. MaxInt,
           \A p \in Products \ {q} : cinv'[p].available = cinv[p].available
    PROVE  Ledger!Count(q)
  <1> DEFINE now == [p \in Products |-> cinv[p].available]
  <1>1. [p \in Products |-> cinv'[p].available] = [now EXCEPT ![q] = cinv'[q].available]
    OBVIOUS
  <1> QED
    BY <1>1 DEF Ledger!Count

LEMMA StepIsLedger ==
    ASSUME IInv, IInv', SInv, [Next]_vars
    PROVE  [Ledger!Next]_(Ledger!vars)
  <1>1. CASE cinv' = cinv /\ cresv' = cresv
    BY <1>1 DEF Ledger!vars
  <1>2. ASSUME NEW c \in Calls, Commit(c) PROVE [Ledger!Next]_(Ledger!vars)
    <2>1. PICK o \in Orders : o = order[c]
      BY <1>2, CommitWrites
    <2>2. CASE pc[c] = "product"
      <3>1. Ledger!Reserve(o)
        BY <1>2, <2>1, <2>2, ReserveIsStep
      <3> QED
        BY <3>1 DEF Ledger!Next
    <2>3. CASE pc[c] = "release"
      <3>1. Ledger!Release(o)
        BY <1>2, <2>1, <2>3, ReleaseIsStep
      <3> QED
        BY <3>1 DEF Ledger!Next
    <2>4. CASE pc[c] = "confirm"
      BY <1>1, <1>2, <2>4, ConfirmCommits
    <2> QED
      BY <1>2, <2>2, <2>3, <2>4 DEF Commit
  <1>3. ASSUME NEW c \in Calls, Delete(c) PROVE [Ledger!Next]_(Ledger!vars)
    <2>1. PICK q \in Products : q = Target(c)
      BY <1>3, ItemTyped DEF Delete, IInv, CallsInOrder, CallInOrder
    <2>2. /\ cresv' = cresv
          /\ \A p \in Products : cinv'[p] = cinv[p] \/ (p = q /\ cinv'[p] = NoStock)
      BY <1>3, <2>1, DeleteKeeps
    <2>3. cinv'[q].available \in 0 .. MaxInt
      BY DEF IInv, TypeOK, Stock
    <2>4. \A p \in Products \ {q} : cinv'[p].available = cinv[p].available
      BY <2>2
    <2>5. Ledger!Count(q)
      BY <2>2, <2>3, <2>4, CountIsStep
    <2> QED
      BY <2>5 DEF Ledger!Next
  <1>4. CASE Catalogue
    <2>1. /\ cresv' = cresv
          /\ \/ cinv' = cinv
             \/ \E p \in Products, n \in 0 .. MaxInt : cinv' = [cinv EXCEPT ![p].available = n]
      BY <1>4, CatalogueKeeps
    <2>2. ASSUME NEW q \in Products, NEW n \in 0 .. MaxInt, cinv' = [cinv EXCEPT ![q].available = n]
          PROVE  Ledger!Count(q)
      <3>1. cinv \in [Products -> Stock] /\ cinv[q] \in Stock
        BY DEF IInv, TypeOK
      <3>2. cinv'[q] = [cinv[q] EXCEPT !.available = n]
        BY <2>2, <3>1
      <3>3. cinv'[q].available \in 0 .. MaxInt
        BY <3>1, <3>2 DEF Stock
      <3>4. \A p \in Products \ {q} : cinv'[p].available = cinv[p].available
        BY <2>2, <3>1
      <3> QED
        BY <2>1, <3>3, <3>4, CountIsStep
    <2> QED
      BY <1>1, <2>1, <2>2 DEF Ledger!Next
  <1>5. \/ cinv' = cinv /\ cresv' = cresv
        \/ \E c \in Calls : Commit(c) \/ Delete(c)
        \/ Catalogue
    <2>1. ASSUME NEW c \in Calls, Begin(c) PROVE cinv' = cinv /\ cresv' = cresv
      BY <2>1 DEF Begin, StartReserve, StartRelease, StartConfirm, StartDelete, Start,
         stockVars, rowVars
    <2>2. ASSUME NEW c \in Calls, Rollback(c) PROVE cinv' = cinv /\ cresv' = cresv
      BY <2>2 DEF Rollback
    <2>3. ASSUME NEW c \in Calls, Step(c)
          PROVE  (cinv' = cinv /\ cresv' = cresv) \/ Commit(c) \/ Delete(c)
      BY <2>2, <2>3 DEF Step, CheckExisting, ReadProduct, UpsertPending, TryReserve, ListByOrder,
         ReleaseStock, MarkReleased, ConfirmStock, WriteStock, WriteRow, Mark, stockVars, rowVars
    <2>4. UNCHANGED vars => cinv' = cinv /\ cresv' = cresv
      BY DEF vars
    <2> QED
      BY <2>1, <2>2, <2>3, <2>4 DEF Next, Abort, DeadlockVictim
  <1> QED
    BY <1>1, <1>2, <1>3, <1>4, <1>5

(* When callers are orderly, Inventory implements StockLedger: whatever it *)
(* interleaves with and wherever it is cut short, a Reserve or a Release   *)
(* is one step for the whole order, taken when it commits, or no step.     *)
THEOREM LedgerIsImplemented ==
    ASSUME OrderlyCallers
    PROVE  Spec => IsLedger
  <1>1. Init => Ledger!Init
    BY DEF Init, Ledger!Init, Ledger!NoEntry, NoRow, NoStock, Keys
  <1>2. IInv /\ IInv' /\ SInv /\ [Next]_vars => [Ledger!Next]_(Ledger!vars)
    BY StepIsLedger
  <1> QED
    BY <1>1, <1>2, Invariance, SerialInvariance, PTL DEF Spec, IsLedger, Ledger!Spec

=============================================================================
