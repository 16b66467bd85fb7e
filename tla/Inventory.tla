----------------------------- MODULE Inventory -----------------------------
(***************************************************************************)
(* The stock of the inventory service and its reservations: the gRPC calls *)
(* Reserve, Release, Confirm, DeleteProduct, SetStock, AdjustStock,        *)
(* CreateProduct and UpdateProduct, run by concurrent handler goroutines   *)
(* against one PostgreSQL database at isolation level READ COMMITTED.      *)
(*                                                                         *)
(* A call is interleaved with the others at the granularity of its SQL     *)
(* statements.  For each table the model keeps the newest version of a row *)
(* (what the transaction that holds its lock has written), the committed   *)
(* version (what every other statement reads) and the row's lock.  An      *)
(* UPDATE first evaluates its WHERE clause on the version its snapshot     *)
(* shows: a row that does not qualify is skipped without waiting, and a    *)
(* row that does is waited for.                                            *)
(***************************************************************************)
EXTENDS Integers, Sequences, FiniteSetsExt

CONSTANTS
    Products,   \* ids the database may generate for products
    Orders,     \* order ids the callers use
    Calls,      \* handler goroutines that may run at once
    None,       \* "no call" as a lock holder, "no order" for an idle call
    MaxInt,     \* the largest int32
    ItemLists,  \* the item lists callers pass to Reserve
    StockArgs,  \* the arguments of SetStock and AdjustStock
    Overlap     \* whether two calls about one order may be in flight together

Keys == Orders \X Products
UInt == 0 .. (2 * MaxInt + 1)
Live == {"active", "inactive"}
Statuses == {"none", "PENDING", "RESERVED", "RELEASED", "FAILED"}

(* An item of a Reserve request, or a reservation row as ListByOrder       *)
(* returned it ("held": its status was RESERVED).                          *)
Work == [product : Products, qty : UInt, held : BOOLEAN]
Stock == [available : 0 .. MaxInt, reserved : 0 .. MaxInt]
Row == [qty : 0 .. MaxInt, status : Statuses]

ASSUME ProductsAssumption == IsFiniteSet(Products)
ASSUME OrdersAssumption == IsFiniteSet(Orders)
ASSUME NoneAssumption == None \notin Calls \cup Orders
ASSUME MaxIntAssumption == MaxInt \in Nat \ {0}
ASSUME ItemListsAssumption ==
    ItemLists \subseteq Seq([product : Products, qty : UInt, held : {FALSE}])
ASSUME StockArgsAssumption == StockArgs \subseteq Int
ASSUME OverlapAssumption == Overlap \in BOOLEAN
(* A reservation's primary key and a product's are both random UUIDs.      *)
ASSUME IdsAssumption == (Orders \X Products) \cap Products = {}

VARIABLES
    product,    \* products: the row's life, and is_active while it lives
    inv,        \* inventories: the newest version of each row
    cinv,       \* ... and its committed version
    ilock,      \* the call whose transaction has the row locked
    resv,       \* reservations by (order, product): the newest version
    cresv,      \* ... and its committed version
    rlock,      \* the call whose transaction has the row locked
    pc,         \* what each call does next
    order,      \* the order a call is about
    todo        \* the items or rows a call has still to go through

vars == <<product, inv, cinv, ilock, resv, cresv, rlock, pc, order, todo>>
stockVars == <<inv, cinv, ilock>>
rowVars == <<resv, cresv, rlock>>
callVars == <<pc, order, todo>>

NoStock == [available |-> 0, reserved |-> 0]
NoRow == [qty |-> 0, status |-> "none"]

Init ==
    /\ product = [p \in Products |-> "unborn"]
    /\ inv = [p \in Products |-> NoStock]
    /\ cinv = inv
    /\ ilock = [p \in Products |-> None]
    /\ resv = [k \in Keys |-> NoRow]
    /\ cresv = resv
    /\ rlock = [k \in Keys |-> None]
    /\ pc = [c \in Calls |-> "idle"]
    /\ order = [c \in Calls |-> None]
    /\ todo = [c \in Calls |-> <<>>]

-----------------------------------------------------------------------------
(* Conversions, row operations and what the database lets a call see.      *)

ToInt32(q) == IF q > MaxInt THEN q - (2 * MaxInt + 2) ELSE q

(* What TryReserve, Release and Confirm assign to an inventories row.      *)
Taken(s, q) == [available |-> s.available - q, reserved |-> s.reserved + q]
WrittenOff(s, q) == [s EXCEPT !.reserved = @ - q]
(* Mutant: Release forgets "available = available + q".                    *)
ReturnedNowhere(s, q) == [s EXCEPT !.reserved = @ - q]
Returned(s, q) == [available |-> s.available + q, reserved |-> s.reserved - q]

(* The version of an inventories row that a statement of call c sees.      *)
Visible(c, p) == IF ilock[p] = c THEN inv[p] ELSE cinv[p]
StockFree(c, p) == ilock[p] \in {None, c}

Item(c) == Head(todo[c])
Target(c) == Item(c).product
Qty(c) == ToInt32(Item(c).qty)
Key(c) == <<order[c], Target(c)>>
RowFree(c) == rlock[Key(c)] \in {None, c}

(* The FOR KEY SHARE lock that inserting a reservation takes on its        *)
(* product, which a DELETE of the product waits for.                       *)
KeyShared(p) == \E o \in Orders : rlock[<<o, p>>] # None /\ cresv[<<o, p>>] = NoRow

(* Reservation rows of an order as a plain SELECT of another transaction   *)
(* returns them.  Mutant: ListByOrder returns the RESERVED rows only.      *)
RowsHeldOf(o) == {p \in Products : cresv[<<o, p>>].status = "RESERVED"}
RowsOf(o) == {p \in Products : cresv[<<o, p>>].status # "none"}

(* Mutant: an order whose rows are RELEASED or FAILED may reserve again.   *)
HoldsUnits(o) == RowsHeldOf(o) # {}
AlreadyReserved(o) == RowsOf(o) # {}

(* Mutant: Release takes every row that is not RELEASED yet for a held one.*)
HeldUnlessReleased(row) == row.status # "RELEASED"
Held(row) == row.status = "RESERVED"

(* ListByOrder sorts by created_at; the model lets the rows come in any    *)
(* order.                                                                  *)
Listing(o) ==
    LET rows == {[product |-> p, qty |-> cresv[<<o, p>>].qty, held |-> Held(cresv[<<o, p>>])] :
                    p \in RowsOf(o)}
    IN  {s \in [1 .. Cardinality(RowsOf(o)) -> rows] :
            \A i, j \in DOMAIN s : s[i] = s[j] => i = j}

-----------------------------------------------------------------------------
(* Transactions.                                                           *)

Finish(c) ==
    /\ pc' = [pc EXCEPT ![c] = "idle"]
    /\ order' = [order EXCEPT ![c] = None]
    /\ todo' = [todo EXCEPT ![c] = <<>>]

Goto(c, label) == pc' = [pc EXCEPT ![c] = label] /\ UNCHANGED order

Advance(c, label) == Goto(c, label) /\ todo' = [todo EXCEPT ![c] = Tail(@)]

Unlock(c) ==
    /\ ilock' = [p \in Products |-> IF ilock[p] = c THEN None ELSE ilock[p]]
    /\ rlock' = [k \in Keys |-> IF rlock[k] = c THEN None ELSE rlock[k]]

Rollback(c) ==
    /\ inv' = [p \in Products |-> IF ilock[p] = c THEN cinv[p] ELSE inv[p]]
    /\ resv' = [k \in Keys |-> IF rlock[k] = c THEN cresv[k] ELSE resv[k]]
    /\ Unlock(c)
    /\ Finish(c)
    /\ UNCHANGED <<product, cinv, cresv>>

(* The closure passed to WithTx has gone through its loop and returned nil.*)
Commit(c) ==
    /\ pc[c] \in {"product", "release", "confirm"} /\ todo[c] = <<>>
    /\ cinv' = [p \in Products |-> IF ilock[p] = c THEN inv[p] ELSE cinv[p]]
    /\ cresv' = [k \in Keys |-> IF rlock[k] = c THEN resv[k] ELSE cresv[k]]
    /\ Unlock(c)
    /\ Finish(c)
    /\ UNCHANGED <<product, inv, resv>>

(* The request's context is cancelled, the connection is lost or the       *)
(* process is killed: the database rolls the open transaction back.        *)
Abort(c) == pc[c] # "idle" /\ Rollback(c)

MayStart(c, o) == pc[c] = "idle" /\ (Overlap \/ \A d \in Calls : order[d] # o)

Start(c, o, label) ==
    /\ MayStart(c, o)
    /\ pc' = [pc EXCEPT ![c] = label]
    /\ order' = [order EXCEPT ![c] = o]
    /\ UNCHANGED <<product, stockVars, rowVars>>

-----------------------------------------------------------------------------
(* Reserve.                                                                *)

StartReserve(c, o, items) ==
    /\ items # <<>>
    /\ Start(c, o, "check")
    /\ todo' = [todo EXCEPT ![c] = items]

(* The look-up of earlier rows runs before, and outside, the transaction.  *)
CheckExisting(c) ==
    /\ pc[c] = "check"
    /\ \/ AlreadyReserved(order[c]) /\ Finish(c)
       \/ ~AlreadyReserved(order[c]) /\ Goto(c, "product") /\ UNCHANGED todo
    /\ UNCHANGED <<product, stockVars, rowVars>>

(* The product is read through the service's own repository, not the       *)
(* transaction's; a missing product is an error of the look-up, and fails  *)
(* the call.                                                               *)
(* Mutant: an inactive product is looked at again instead of passed over.  *)
ReadProductRetrying(c) ==
    /\ pc[c] = "product" /\ todo[c] # <<>>
    /\ \/ /\ Item(c).qty = 0 \/ product[Target(c)] \notin Live
          /\ Rollback(c)
       \/ /\ Item(c).qty # 0 /\ product[Target(c)] \in Live
          /\ Goto(c, IF product[Target(c)] = "inactive" THEN "product" ELSE "upsert")
          /\ UNCHANGED <<product, stockVars, rowVars, todo>>

ReadProduct(c) ==
    /\ pc[c] = "product" /\ todo[c] # <<>>
    /\ \/ /\ Item(c).qty = 0 \/ product[Target(c)] \notin Live
          /\ Rollback(c)
       \/ /\ Item(c).qty # 0 /\ product[Target(c)] = "inactive"
          /\ Advance(c, "product")
          /\ UNCHANGED <<product, stockVars, rowVars>>
       \/ /\ Item(c).qty # 0 /\ product[Target(c)] = "active"
          /\ Goto(c, "upsert")
          /\ UNCHANGED <<product, stockVars, rowVars, todo>>

WriteRow(c, row) ==
    /\ resv' = [resv EXCEPT ![Key(c)] = row]
    /\ rlock' = [rlock EXCEPT ![Key(c)] = c]
    /\ UNCHANGED cresv

(* INSERT ... ON CONFLICT (order_id, product_id) DO UPDATE.  A quantity    *)
(* that wraps to a negative int32 fails the CHECK; inserting the row of a  *)
(* deleted product fails the foreign key.                                  *)
(* Mutant: the table was migrated without chk_reservations_quantity_gt_zero*)
UpsertRefusedByKeyOnly(c) ==
    resv[Key(c)] = NoRow /\ product[Target(c)] \notin Live

UpsertRefused(c) ==
    \/ Qty(c) <= 0
    \/ resv[Key(c)] = NoRow /\ product[Target(c)] \notin Live

(* Mutant: the row is written through s.repo, outside the transaction.     *)
UpsertPendingAtOnce(c) ==
    /\ pc[c] = "upsert" /\ RowFree(c)
    /\ \/ UpsertRefused(c) /\ Rollback(c)
       \/ /\ ~UpsertRefused(c)
          /\ resv' = [resv EXCEPT ![Key(c)] = [qty |-> Qty(c), status |-> "PENDING"]]
          /\ cresv' = [cresv EXCEPT ![Key(c)] = resv'[Key(c)]]
          /\ Goto(c, "try")
          /\ UNCHANGED <<product, stockVars, rlock, todo>>

UpsertPending(c) ==
    /\ pc[c] = "upsert" /\ RowFree(c)
    /\ \/ UpsertRefused(c) /\ Rollback(c)
       \/ /\ ~UpsertRefused(c)
          /\ WriteRow(c, [qty |-> Qty(c), status |-> "PENDING"])
          /\ Goto(c, "try")
          /\ UNCHANGED <<product, stockVars, todo>>

Mark(c, status) == WriteRow(c, [resv[Key(c)] EXCEPT !.status = status])

(* Mutant: the UPDATE goes through s.repo, outside the transaction.        *)
WriteStockAtOnce(c, p, s) ==
    /\ inv' = [inv EXCEPT ![p] = s]
    /\ cinv' = [cinv EXCEPT ![p] = s]
    /\ UNCHANGED ilock

WriteStock(c, p, s) ==
    /\ inv' = [inv EXCEPT ![p] = s]
    /\ ilock' = [ilock EXCEPT ![p] = c]
    /\ UNCHANGED cinv

(* UPDATE inventories ... WHERE available >= q, then MarkReserved or       *)
(* MarkFailed on the row this transaction has just written: no other call  *)
(* can come between the two.  A sum beyond int32 is an error.              *)
TryReserve(c) ==
    LET p == Target(c)
        q == Qty(c)
    IN  /\ pc[c] = "try"
        /\ \/ /\ Visible(c, p).available < q
              /\ Mark(c, "FAILED")
              /\ Advance(c, "product")
              /\ UNCHANGED <<product, stockVars>>
           \/ /\ Visible(c, p).available >= q /\ StockFree(c, p)
              /\ inv[p].reserved + q > MaxInt
              /\ Rollback(c)
           \/ /\ Visible(c, p).available >= q /\ StockFree(c, p)
              /\ inv[p].reserved + q <= MaxInt
              /\ WriteStock(c, p, Taken(inv[p], q))
              /\ Mark(c, "RESERVED")
              /\ Advance(c, "product")
              /\ UNCHANGED product

-----------------------------------------------------------------------------
(* Release and Confirm.                                                    *)

StartRelease(c, o) == Start(c, o, "listRelease") /\ UNCHANGED todo
StartConfirm(c, o) == Start(c, o, "listConfirm") /\ UNCHANGED todo

(* A plain SELECT: it takes no lock on the rows it returns.                *)
ListByOrder(c) ==
    /\ \/ pc[c] = "listRelease" /\ Goto(c, "release")
       \/ pc[c] = "listConfirm" /\ Goto(c, "confirm")
    /\ \E rows \in Listing(order[c]) : todo' = [todo EXCEPT ![c] = rows]
    /\ UNCHANGED <<product, stockVars, rowVars>>

(* UPDATE inventories ... WHERE reserved >= q for a row listed RESERVED.   *)
ReleaseStock(c) ==
    LET p == Target(c)
        q == Qty(c)
    IN  /\ pc[c] = "release" /\ todo[c] # <<>>
        /\ \/ /\ ~Item(c).held \/ Visible(c, p).reserved < q
              /\ Goto(c, "mark")
              /\ UNCHANGED <<product, stockVars, rowVars, todo>>
           \/ /\ Item(c).held /\ Visible(c, p).reserved >= q /\ StockFree(c, p)
              /\ inv[p].available + q > MaxInt
              /\ Rollback(c)
           \/ /\ Item(c).held /\ Visible(c, p).reserved >= q /\ StockFree(c, p)
              /\ inv[p].available + q <= MaxInt
              /\ WriteStock(c, p, Returned(inv[p], q))
              /\ Goto(c, "mark")
              /\ UNCHANGED <<product, rowVars, todo>>

(* Every listed row is marked, whatever its status was.                    *)
MarkReleased(c) ==
    /\ pc[c] = "mark" /\ RowFree(c)
    /\ Mark(c, "RELEASED")
    /\ Advance(c, "release")
    /\ UNCHANGED <<product, stockVars>>

(* Confirm passes the reservation's own id where the statement compares    *)
(* product_id, so the row it updates is the one of a product with that id. *)
ReservationId(o, p) == <<o, p>>

ConfirmStock(c) ==
    LET id == ReservationId(order[c], Target(c))
        q == Qty(c)
        hit == {p \in Products : Item(c).held /\ p = id /\ Visible(c, p).reserved >= q}
    IN  /\ pc[c] = "confirm" /\ todo[c] # <<>>
        /\ \A p \in hit : StockFree(c, p)
        /\ inv' = [p \in Products |-> IF p \in hit THEN WrittenOff(inv[p], q) ELSE inv[p]]
        /\ ilock' = [p \in Products |-> IF p \in hit THEN c ELSE ilock[p]]
        /\ Advance(c, "confirm")
        /\ UNCHANGED <<product, cinv, rowVars>>

-----------------------------------------------------------------------------
(* The catalogue calls that touch stock.                                   *)

(* CreateProduct inserts the product and its inventories row in one        *)
(* transaction, under an id no other call knows yet.  A false is_active is *)
(* replaced by the default of the column, which the model's tag declares.  *)
CreateProduct(p) ==
    /\ product[p] = "unborn"
    /\ product' = [product EXCEPT ![p] = "active"]
    /\ UNCHANGED <<stockVars, rowVars, callVars>>

(* UpdateProduct with is_active in the patch.                              *)
UpdateProduct(p, status) ==
    /\ product[p] \in Live \ {status}
    /\ product' = [product EXCEPT ![p] = status]
    /\ UNCHANGED <<stockVars, rowVars, callVars>>

SetStock(p, available) ==
    /\ product[p] \in Live /\ ilock[p] = None
    /\ available \in 0 .. MaxInt
    /\ inv' = [inv EXCEPT ![p].available = available]
    /\ cinv' = [cinv EXCEPT ![p].available = available]
    /\ UNCHANGED <<product, ilock, rowVars, callVars>>

AdjustStock(p, delta) ==
    /\ product[p] \in Live /\ ilock[p] = None
    /\ inv[p].available + delta \in 0 .. MaxInt
    /\ inv' = [inv EXCEPT ![p].available = @ + delta]
    /\ cinv' = [cinv EXCEPT ![p].available = @ + delta]
    /\ UNCHANGED <<product, ilock, rowVars, callVars>>

(* DeleteProduct reads the product and its stock, and deletes later.       *)
StartDelete(c, p) ==
    /\ pc[c] = "idle"
    /\ product[p] \in Live /\ cinv[p].reserved = 0
    /\ pc' = [pc EXCEPT ![c] = "delete"]
    /\ todo' = [todo EXCEPT ![c] = <<[product |-> p, qty |-> 0, held |-> FALSE]>>]
    /\ UNCHANGED <<product, stockVars, rowVars, order>>

(* fk_reservations_product is ON DELETE RESTRICT, for a row of any status. *)
(* Mutant: only a row that holds stock keeps the product.                  *)
DeleteRefusedIfHeld(p) == \E o \in Orders : cresv[<<o, p>>].status = "RESERVED"
DeleteRefused(p) == \E o \in Orders : cresv[<<o, p>>].status # "none"

(* The DELETE waits for key-share locks on the product and, cascading to   *)
(* inventories, for the lock of the product's row there.                   *)
Delete(c) ==
    LET p == Target(c)
    IN  /\ pc[c] = "delete"
        /\ ~KeyShared(p) /\ ilock[p] = None
        /\ \/ /\ DeleteRefused(p) \/ product[p] \notin Live
              /\ UNCHANGED <<product, stockVars>>
           \/ /\ ~DeleteRefused(p) /\ product[p] \in Live
              /\ product' = [product EXCEPT ![p] = "deleted"]
              /\ inv' = [inv EXCEPT ![p] = NoStock]
              /\ cinv' = [cinv EXCEPT ![p] = NoStock]
              /\ UNCHANGED ilock
        /\ Finish(c)
        /\ UNCHANGED rowVars

-----------------------------------------------------------------------------
(* Deadlocks.  A waiting statement waits for exactly one lock holder.      *)

WaitsFor(c, d) ==
    /\ d # c
    /\ \/ pc[c] \in {"upsert", "mark"} /\ rlock[Key(c)] = d
       \/ pc[c] = "try" /\ Visible(c, Target(c)).available >= Qty(c)
                        /\ ilock[Target(c)] = d
       \/ /\ pc[c] = "release" /\ todo[c] # <<>>
          /\ Item(c).held /\ Visible(c, Target(c)).reserved >= Qty(c)
          /\ ilock[Target(c)] = d

(* PostgreSQL's deadlock detector aborts a transaction on a wait cycle.    *)
DeadlockVictim(c) ==
    /\ \E cycle \in SUBSET Calls :
          /\ c \in cycle
          /\ \A d \in cycle : \E e \in cycle : WaitsFor(d, e)
          /\ \A e \in cycle : \E d \in cycle : WaitsFor(d, e)
    /\ Rollback(c)

-----------------------------------------------------------------------------

(* The next statement of a call that has started.                          *)
Step(c) ==
    \/ CheckExisting(c) \/ ReadProduct(c) \/ UpsertPending(c) \/ TryReserve(c)
    \/ ListByOrder(c) \/ ReleaseStock(c) \/ MarkReleased(c) \/ ConfirmStock(c)
    \/ Commit(c) \/ Delete(c)

Begin(c) ==
    \/ \E o \in Orders, items \in ItemLists : StartReserve(c, o, items)
    \/ \E o \in Orders : StartRelease(c, o) \/ StartConfirm(c, o)
    \/ \E p \in Products : StartDelete(c, p)

Catalogue ==
    \E p \in Products :
        \/ CreateProduct(p)
        \/ \E status \in Live : UpdateProduct(p, status)
        \/ \E n \in StockArgs : SetStock(p, n) \/ AdjustStock(p, n)

Next ==
    \/ \E c \in Calls : Begin(c) \/ Step(c) \/ Abort(c) \/ DeadlockVictim(c)
    \/ Catalogue

Spec == Init /\ [][Next]_vars

(* A goroutine keeps running its call, a statement that waits for a row    *)
(* lock is queued for it, and the deadlock detector runs.  No call need    *)
(* ever be made, and none need be cut short.                               *)
FairSpec ==
    /\ Spec
    /\ \A c \in Calls : SF_vars(Step(c)) /\ WF_vars(DeadlockVictim(c))
-----------------------------------------------------------------------------
(* Properties.                                                             *)

Labels == {"idle", "check", "product", "upsert", "try", "listRelease",
           "listConfirm", "release", "mark", "confirm", "delete"}

(* Every variable keeps its type: in particular no interleaving, rollback  *)
(* or overflow takes a stock column out of the non-negative int32 range    *)
(* that chk_inventories_non_negative demands.                              *)
TypeOK ==
    /\ product \in [Products -> Live \cup {"unborn", "deleted"}]
    /\ inv \in [Products -> Stock] /\ cinv \in [Products -> Stock]
    /\ ilock \in [Products -> Calls \cup {None}]
    /\ resv \in [Keys -> Row] /\ cresv \in [Keys -> Row]
    /\ rlock \in [Keys -> Calls \cup {None}]
    /\ pc \in [Calls -> Labels]
    /\ order \in [Calls -> Orders \cup {None}]
    /\ todo \in [Calls -> Seq(Work)]

(* UpsertPending's PENDING status never outlives its transaction: whatever *)
(* is aborted or killed in between, no other call ever reads a PENDING row.*)
NoCommittedPending ==
    \A k \in Keys : cresv[k].status # "PENDING"

(* Stock is only ever held on behalf of somebody: a product with reserved  *)
(* units has a reservation row, the row that keeps fk_reservations_product *)
(* from letting the product, and its inventories row, be deleted.          *)
ReservedHasRow ==
    \A p \in Products : cinv[p].reserved > 0 => \E o \in Orders : cresv[<<o, p>>] # NoRow

(* A reservation row, committed or not, belongs to a product that exists,  *)
(* however DeleteProduct interleaves with Reserve.                         *)
RowsHaveProducts ==
    \A o \in Orders, p \in Products : resv[<<o, p>>] # NoRow => product[p] \in Live

ListsOnce(work) ==
    \A i, j \in 1 .. Len(work) : work[i].product = work[j].product => i = j

(* Callers that make one call about an order at a time, and list a product *)
(* once: what the code relies on, for it looks and lists without a lock.   *)
OrderlyCallers == ~Overlap /\ \A items \in ItemLists : ListsOnce(items)

(* What the rows of all orders hold of a product.                          *)
HeldUnits(rows, p) ==
    SumFunctionOnSet(
        [o \in Orders |-> IF Held(rows[<<o, p>>]) THEN rows[<<o, p>>].qty ELSE 0], Orders)

(* When callers are orderly, the reserved column of a product is what the  *)
(* RESERVED rows of all orders add up to: nothing is stranded, released    *)
(* twice, or handed to another order.                                      *)
ReservedIsHeld == \A p \in Products : cinv[p].reserved = HeldUnits(cresv, p)

(* Reserve, Release and Confirm move units between available and reserved  *)
(* and neither make nor lose any; a deleted product takes no reserved unit *)
(* with it, though the deletion was decided on an older reading.           *)
StockConserved ==
    [][\A p \in Products :
         \/ Catalogue
         \/ cinv'[p].available + cinv'[p].reserved = cinv[p].available + cinv[p].reserved
         \/ product'[p] = "deleted" /\ cinv[p].reserved = 0]_vars

(* When callers are orderly, a Release that commits leaves the order no    *)
(* row in any other status.                                                *)
ReleaseIsComplete ==
    [][\A c \in Calls : pc[c] = "release" /\ Commit(c) =>
         \A p \in Products : cresv'[<<order[c], p>>].status \in {"none", "RELEASED"}]_vars

(* When callers are orderly, each call about an order is one step of the   *)
(* ledger: whatever it interleaves with, a Reserve or a Release is done    *)
(* for the whole order or not at all, a row is decided once, and available *)
(* alone accounts for the units the orders hold (inventory_service.go:294- *)
(* 343, :356-376).                                                         *)
Ledger == INSTANCE StockLedger
    WITH available <- [p \in Products |-> cinv[p].available], entry <- cresv
IsLedger == Ledger!Spec

(* Every call that starts is answered: lock waits end, and a Reserve (row, *)
(* then stock) and a Release (stock, then row) of one order that wait for  *)
(* each other are told apart by a deadlock victim.                         *)
EveryCallEnds == \A c \in Calls : pc[c] # "idle" ~> pc[c] = "idle"

(* inventory_service.go:283, "the order already has reservations: a second *)
(* reservation is not allowed": a Reserve that commits takes no units when *)
(* an earlier one holds units for the same order.                          *)
NoSecondReservation ==
    [][\A c \in Calls :
         /\ pc[c] = "product" /\ Commit(c)
         /\ \E p \in Products : Held(cresv[<<order[c], p>>])
         => \A p \in Products : cinv'[p].reserved = cinv[p].reserved]_vars

(* inventory_repo.go:22, "Confirm: reserved -= qty": confirming a held row *)
(* takes its quantity out of the product's reserved column.                *)
ConfirmWritesOff ==
    [][\A c \in Calls :
         /\ pc[c] = "confirm" /\ todo[c] # <<>> /\ Item(c).held
         /\ inv[Target(c)].reserved >= Qty(c) /\ ConfirmStock(c)
         => inv'[Target(c)].reserved = inv[Target(c)].reserved - Qty(c)]_vars
=============================================================================
