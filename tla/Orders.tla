------------------------------- MODULE Orders -------------------------------
(***************************************************************************)
(* The order service: CreateOrder, CancelOrder and GetOrder, run by        *)
(* concurrent handler goroutines.  CreateOrder opens a transaction, but    *)
(* writes the row of orders outside of it, through the repository of the   *)
(* service: that row is visible, and stays, whatever becomes of the        *)
(* transaction.  One action is one SQL statement.                          *)
(***************************************************************************)
EXTENDS Integers, Sequences

CONSTANTS
    Products,
    Users,
    Admins,     \* users with the role ADMIN
    OrderIds,   \* ids the database may generate
    Calls,      \* handler goroutines that may run at once
    None,       \* "no user", "no order", "no reason"
    Reasons,    \* reasons a caller may give for cancelling
    Baskets,    \* the item lists callers may send
    Prices,     \* unit prices, in cents
    MaxInt,     \* the largest value of an int column (2^31 - 1)
    MaxCents    \* ... and of a bigint column (2^63 - 1)

(* What the inventory service may answer: prices in RUB of some products.  *)
(* One with another currency makes CreateOrder fail as a missing one does. *)
Quotes == UNION {[S -> Prices] : S \in SUBSET Products}

-----------------------------------------------------------------------------
(* The arithmetic of CreateOrder, in int64.                                *)

Wrap(n) == ((n + MaxCents + 1) % (2 * (MaxCents + 1))) - (MaxCents + 1)

Lines(basket, quote) ==
    [i \in DOMAIN basket |->
        [product |-> basket[i].product, quantity |-> basket[i].quantity,
         total |-> Wrap(basket[i].quantity * quote[basket[i].product])]]

Total(lines) ==
    LET sum[i \in 0 .. Len(lines)] ==
            IF i = 0 THEN 0 ELSE Wrap(sum[i - 1] + lines[i].total)
    IN  sum[Len(lines)]

(* What the loop over the items lets pass.                                 *)
Acceptable(basket, quote) ==
    \A i \in DOMAIN basket : basket[i].quantity # 0 /\ basket[i].product \in DOMAIN quote

(* What PostgreSQL lets into order_items: the width of quantity, the CHECK *)
(* on the line total, the unique index on order and product.               *)
Storable(lines) ==
    /\ \A i \in DOMAIN lines : lines[i].quantity =< MaxInt /\ lines[i].total >= 0
    /\ \A i, j \in DOMAIN lines : lines[i].product = lines[j].product => i = j

(* What it lets into orders.  Mutant: the CHECK is missing.                *)
AnyRow(row) == TRUE
RowAllowed(row) == row.total >= 0

Pricings == {pricing \in Baskets \X Quotes : Acceptable(pricing[1], pricing[2])}
AllLines == {Lines(pricing[1], pricing[2]) : pricing \in Pricings}
Totals == {Total(lines) : lines \in AllLines} \cup {0}

(* A row of orders, and what a handler has in its local variables.  Nobody *)
(* sets the status CONFIRMED.                                              *)
Order == [state : {"none", "pending", "cancelled"}, user : Users \cup {None},
          total : {t \in Totals : t >= 0}, reason : Reasons \cup {None}]
Steps == {"idle", "prices", "begin", "create", "items", "totals", "commit",
          "find", "update", "show", "read", "preload", "got"}
Call == [pc : Steps, user : Users \cup {None}, order : OrderIds \cup {None},
         basket : Baskets \cup {<<>>}, quote : Quotes \cup {<<>>}, lines : AllLines \cup {<<>>},
         total : Totals, reason : Reasons \cup {None}]

ASSUME NoneAssumption == None \notin Users \cup OrderIds \cup Reasons
ASSUME BoundsAssumption == MaxInt \in Nat /\ MaxCents \in Nat /\ Prices \subseteq 0 .. MaxCents
ASSUME BasketsAssumption == Baskets \subseteq Seq([product : Products, quantity : Nat])

VARIABLES
    orders,     \* the rows of orders
    items,      \* the committed rows of order_items, per order
    call,       \* each handler's locals and place in the code
    answered    \* history: the orders a CreateOrder was answered with

vars == <<orders, items, call, answered>>

NoOrder == [state |-> "none", user |-> None, total |-> 0, reason |-> None]
Idle == [pc |-> "idle", user |-> None, order |-> None, basket |-> <<>>,
         quote |-> <<>>, lines |-> <<>>, total |-> 0, reason |-> None]

Init ==
    /\ orders = [o \in OrderIds |-> NoOrder]
    /\ items = [o \in OrderIds |-> <<>>]
    /\ call = [c \in Calls |-> Idle]
    /\ answered = {}

-----------------------------------------------------------------------------
Exists(o) == orders[o].state # "none"
MaySee(u, o) == Exists(o) /\ (u \in Admins \/ orders[o].user = u)

(* Only the UPDATE of CreateOrder's transaction locks a row of orders for  *)
(* longer than a statement.                                                *)
RowFree(o) == \A c \in Calls : ~(call[c].pc = "commit" /\ call[c].order = o)

Goto(c, step) == call' = [call EXCEPT ![c].pc = step]
Return(c) == call' = [call EXCEPT ![c] = Idle]

-----------------------------------------------------------------------------
(* CreateOrder.  Mutant: an empty list of items is let through.            *)
StartAnyCreate(c, u, basket) ==
    /\ call[c].pc = "idle"
    /\ call' = [call EXCEPT ![c] = [Idle EXCEPT !.pc = "prices", !.user = u, !.basket = basket]]
    /\ UNCHANGED <<orders, items, answered>>
StartCreate(c, u, basket) == basket # <<>> /\ StartAnyCreate(c, u, basket)

(* One BatchGetProducts call; products that are unknown or inactive have   *)
(* no price.                                                               *)
GetPrices(c) ==
    /\ call[c].pc = "prices"
    /\ \E quote \in Quotes :
          call' = [call EXCEPT ![c].pc = "begin", ![c].quote = quote]
    /\ UNCHANGED <<orders, items, answered>>

(* BEGIN, and the loop over the items.  Mutant: the total is that of the   *)
(* last item.                                                              *)
LastLine(lines) == lines[Len(lines)].total
Sum(lines) == Total(lines)
Begin(c) ==
    /\ call[c].pc = "begin"
    /\ IF Acceptable(call[c].basket, call[c].quote)
       THEN LET lines == Lines(call[c].basket, call[c].quote)
            IN  call' = [call EXCEPT ![c].pc = "create", ![c].lines = lines,
                                     ![c].total = Sum(lines),
                                     ![c].basket = <<>>, ![c].quote = <<>>]
       ELSE Return(c)
    /\ UNCHANGED <<orders, items, answered>>

(* The row of orders, as the code fills it in before its Create.  Mutant:  *)
(* the total is left to UpdateTotals.                                      *)
WithoutTotal(k) == [state |-> "pending", user |-> k.user, total |-> 0, reason |-> None]
NewOrder(k) == [state |-> "pending", user |-> k.user, total |-> k.total, reason |-> None]

(* Orders.Create on the service's repository, not the transaction's: it is *)
(* committed at once.                                                      *)
CreateRow(c) ==
    /\ call[c].pc = "create"
    /\ IF RowAllowed(NewOrder(call[c]))
       THEN \E o \in OrderIds :
               /\ ~Exists(o)
               /\ orders' = [orders EXCEPT ![o] = NewOrder(call[c])]
               /\ call' = [call EXCEPT ![c].pc = "items", ![c].order = o]
       ELSE Return(c) /\ UNCHANGED orders
    /\ UNCHANGED <<items, answered>>

(* The INSERT of all items; an error rolls the transaction back, and the   *)
(* row of orders stays.                                                    *)
BulkCreate(c) ==
    /\ call[c].pc = "items"
    /\ IF Storable(call[c].lines) THEN Goto(c, "totals") ELSE Return(c)
    /\ UNCHANGED <<orders, items, answered>>

(* The UPDATE of the total locks the row.  Nobody sees its effect before   *)
(* Commit; then the order is read back.                                    *)
UpdateTotals(c) ==
    /\ call[c].pc = "totals"
    /\ Goto(c, "commit")
    /\ UNCHANGED <<orders, items, answered>>

(* What the UPDATE makes of the row.  Mutants: the whole row is saved, not *)
(* two columns; the total is added to the one that is there.               *)
Saved(row, k) == NewOrder(k)
AddedTwice(row, k) == [row EXCEPT !.total = Wrap(row.total + k.total)]
Totalled(row, k) == [row EXCEPT !.total = k.total]

(* COMMIT; the answer may get lost all the same.                           *)
Commit(c) ==
    /\ call[c].pc = "commit"
    /\ LET o == call[c].order
       IN  /\ orders' = [orders EXCEPT ![o] = Totalled(@, call[c])]
           /\ items' = [items EXCEPT ![o] = call[c].lines]
           /\ answered' \in {answered, answered \cup {o}}
    /\ Return(c)

-----------------------------------------------------------------------------
(* CancelOrder: find, check, update, read again, without a transaction.    *)

StartCancel(c, u, o, reason) ==
    /\ call[c].pc = "idle"
    /\ call' = [call EXCEPT ![c] =
          [Idle EXCEPT !.pc = "find", !.user = u, !.order = o, !.reason = reason]]
    /\ UNCHANGED <<orders, items, answered>>

FindOrder(c) ==
    /\ call[c].pc = "find"
    /\ IF MaySee(call[c].user, call[c].order) /\ orders[call[c].order].state # "cancelled"
       THEN Goto(c, "update")
       ELSE Return(c)
    /\ UNCHANGED <<orders, items, answered>>

(* The UPDATE has no condition on the status; a reason that is not given   *)
(* leaves the column alone.                                                *)
Cancelled(row, reason) ==
    [row EXCEPT !.state = "cancelled", !.reason = IF reason = None THEN row.reason ELSE reason]
UpdateStatus(c) ==
    /\ call[c].pc = "update" /\ RowFree(call[c].order)
    /\ orders' = [orders EXCEPT ![call[c].order] = Cancelled(@, call[c].reason)]
    /\ Goto(c, "show")
    /\ UNCHANGED <<items, answered>>

ShowOrder(c) ==
    /\ call[c].pc = "show"
    /\ Return(c)
    /\ UNCHANGED <<orders, items, answered>>

-----------------------------------------------------------------------------
(* GetOrder: the order, then its items, each in a snapshot of its own.     *)

StartGet(c, u, o) ==
    /\ call[c].pc = "idle"
    /\ call' = [call EXCEPT ![c] = [Idle EXCEPT !.pc = "read", !.user = u, !.order = o]]
    /\ UNCHANGED <<orders, items, answered>>

ReadOrder(c) ==
    /\ call[c].pc = "read"
    /\ IF MaySee(call[c].user, call[c].order)
       THEN call' = [call EXCEPT ![c].pc = "preload",
                                 ![c].total = orders[call[c].order].total]
       ELSE Return(c)
    /\ UNCHANGED <<orders, items, answered>>

ReadItems(c) ==
    /\ call[c].pc = "preload"
    /\ call' = [call EXCEPT ![c].pc = "got", ![c].lines = items[call[c].order]]
    /\ UNCHANGED <<orders, items, answered>>

Answer(c) ==
    /\ call[c].pc = "got"
    /\ Return(c)
    /\ UNCHANGED <<orders, items, answered>>

(* A statement or the inventory service fails, the caller goes away or the *)
(* process is killed: the transaction is rolled back, and nothing else.    *)
Abort(c) ==
    /\ call[c].pc # "idle"
    /\ Return(c)
    /\ UNCHANGED <<orders, items, answered>>

-----------------------------------------------------------------------------
Start(c) ==
    \E u \in Users :
        \/ \E basket \in Baskets : StartCreate(c, u, basket)
        \/ \E o \in OrderIds :
              \/ StartGet(c, u, o)
              \/ \E reason \in Reasons \cup {None} : StartCancel(c, u, o, reason)

Create(c) ==
    GetPrices(c) \/ Begin(c) \/ CreateRow(c) \/ BulkCreate(c) \/ UpdateTotals(c) \/ Commit(c)
Cancel(c) == FindOrder(c) \/ UpdateStatus(c) \/ ShowOrder(c)
Get(c) == ReadOrder(c) \/ ReadItems(c) \/ Answer(c)

Next == \E c \in Calls : Start(c) \/ Create(c) \/ Cancel(c) \/ Get(c) \/ Abort(c)

Spec == Init /\ [][Next]_vars

-----------------------------------------------------------------------------
(* Types of the rows and of the handlers' locals; no negative total is     *)
(* stored, however the sum wraps.                                          *)
TypeOK ==
    /\ orders \in [OrderIds -> Order]
    /\ items \in [OrderIds -> AllLines \cup {<<>>}]
    /\ call \in [Calls -> Call]
    /\ answered \subseteq OrderIds

(* Committed items are all the items of a CreateOrder, and the total of    *)
(* their order is theirs, although the two are committed separately        *)
(* (order_service.go:109, :117).                                           *)
ItemsMatchTotal ==
    \A o \in OrderIds : items[o] # <<>> =>
        /\ Exists(o)
        /\ Storable(items[o])
        /\ orders[o].total = Total(items[o])

(* An order that a caller was told of has its items, for good.             *)
AnsweredIsWhole == \A o \in answered : items[o] # <<>>

(* What GetOrder answers is an order without items or one whose items make *)
(* up its total, although it reads them with two statements.               *)
AnswerAddsUp ==
    \A c \in Calls : call[c].pc = "got" =>
        call[c].lines = <<>> \/ call[c].total = Total(call[c].lines)

(* The total of an order that can be seen does not change: UpdateTotals    *)
(* repeats what Create wrote.                                              *)
TotalIsFinal ==
    [][\A o \in OrderIds : Exists(o) => orders'[o].total = orders[o].total]_vars

(* An order that was cancelled stays cancelled, in particular if that was  *)
(* before its CreateOrder committed.                                       *)
CancelIsFinal ==
    [][\A o \in OrderIds :
          orders[o].state = "cancelled" => orders'[o].state = "cancelled"]_vars

(* CreateOrder refuses an order without items (order_service.go:47).  When *)
(* nothing is under way, there is none.                                    *)
NoEmptyOrders ==
    (\A c \in Calls : call[c].pc = "idle") =>
        \A o \in OrderIds : Exists(o) => items[o] # <<>>
=============================================================================
