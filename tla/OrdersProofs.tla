---------------------------- MODULE OrdersProofs ----------------------------
(***************************************************************************)
(* Theorems about Orders, for any products, users, order ids, calls, item  *)
(* lists and prices, and any width of the columns.                         *)
(*                                                                         *)
(* Between the INSERT of the row of an order and the COMMIT of its items,  *)
(* the call that makes the order keeps the promises about it: the order is *)
(* that call's alone, it has no items yet, and its total is already the    *)
(* one the call computed.  CallFits says this of the locals of a call.     *)
(***************************************************************************)
EXTENDS Orders, TLAPS

Creating == {"items", "totals", "commit"}
Priced == {"create"} \cup Creating

CallFits(k) ==
    /\ k \in Call
    /\ k.pc \in {"prices", "begin"} => k.basket \in Baskets /\ k.basket # <<>>
    /\ k.pc = "begin" => k.quote \in Quotes
    /\ k.pc \in Priced => k.lines \in AllLines /\ k.lines # <<>> /\ k.total = Total(k.lines)
    /\ k.pc \in {"totals", "commit"} => Storable(k.lines)
    /\ k.pc \in Creating =>
          /\ k.order \in OrderIds
          /\ Exists(k.order)
          /\ items[k.order] = <<>>
          /\ orders[k.order].total = k.total
    /\ k.pc \in {"find", "update", "show", "read"} => k.order \in OrderIds
    /\ k.pc \in {"update", "show"} => Exists(k.order)
    /\ k.pc \in {"preload", "got"} =>
          /\ k.order \in OrderIds
          /\ Exists(k.order)
          /\ k.total = orders[k.order].total
    /\ k.pc = "got" => k.lines = <<>> \/ k.total = Total(k.lines)

CallsFit == \A c \in Calls : CallFits(call[c])

(* No order is made by two calls.                                          *)
Alone ==
    \A c, d \in Calls :
        /\ call[c].pc \in Creating /\ call[d].pc \in Creating
        /\ call[c].order = call[d].order
        => c = d

IInv == TypeOK /\ CallsFit /\ Alone /\ ItemsMatchTotal /\ AnsweredIsWhole

-----------------------------------------------------------------------------
(* An idle handler has nothing to answer for.                              *)
LEMMA IdleFits == CallFits(Idle)
BY NoneAssumption DEF CallFits, Idle, Call, Steps, Priced, Creating, Totals

LEMMA InitFits == Init => IInv
<1> SUFFICES ASSUME Init PROVE IInv
  OBVIOUS
<1>1. TypeOK
  BY IdleFits DEF Init, TypeOK, NoOrder, Order, Totals, CallFits
<1>2. CallsFit
  BY IdleFits DEF Init, CallsFit
<1>3. Alone
  BY DEF Init, Alone, Idle, Creating
<1>4. ItemsMatchTotal /\ AnsweredIsWhole
  BY DEF Init, ItemsMatchTotal, AnsweredIsWhole
<1> QED
  BY <1>1, <1>2, <1>3, <1>4 DEF IInv

(* The lines of a list of items: one per item, so some if it has some.     *)
LEMMA LinesFit ==
    ASSUME NEW basket \in Baskets, NEW quote \in Quotes, basket # <<>>,
           Acceptable(basket, quote)
    PROVE  /\ Lines(basket, quote) \in AllLines
           /\ Lines(basket, quote) # <<>>
           /\ Total(Lines(basket, quote)) \in Totals
<1>1. <<basket, quote>> \in Pricings
  BY DEF Pricings
<1>2. Lines(basket, quote) \in AllLines
  BY <1>1 DEF AllLines
<1>3. basket \in Seq([product : Products, quantity : Nat])
  BY BasketsAssumption
<1>4. Len(basket) \in Nat /\ Len(basket) # 0 /\ DOMAIN basket = 1 .. Len(basket)
  BY <1>3
<1>5. DOMAIN Lines(basket, quote) = 1 .. Len(basket)
  BY <1>4 DEF Lines
<1>6. Lines(basket, quote) # <<>>
  BY <1>4, <1>5
<1> QED
  BY <1>2, <1>6 DEF Totals

(* A step that only changes the locals of one call, which goes on with an  *)
(* order it already made, if any.                                          *)
LEMMA LocalStep ==
    ASSUME IInv, NEW c \in Calls, NEW k, CallFits(k),
           call' = [call EXCEPT ![c] = k],
           UNCHANGED <<orders, items, answered>>,
           k.pc \in Creating => call[c].pc \in Creating /\ k.order = call[c].order
    PROVE  IInv'
<1>1. call' = [d \in Calls |-> IF d = c THEN k ELSE call[d]]
  BY DEF IInv, TypeOK
<1>2. TypeOK'
  BY <1>1 DEF IInv, TypeOK, CallFits
<1>3. ItemsMatchTotal' /\ AnsweredIsWhole'
  BY DEF IInv, ItemsMatchTotal, AnsweredIsWhole, Exists
<1>4. Alone'
  BY <1>1 DEF IInv, Alone
<1>5. CallsFit'
  <2> SUFFICES ASSUME NEW d \in Calls PROVE CallFits(call[d])'
    BY DEF CallsFit
  <2>1. CallFits(call'[d])
    BY <1>1 DEF IInv, CallsFit
  <2> QED
    BY <2>1 DEF CallFits, Exists
<1> QED
  BY <1>2, <1>3, <1>4, <1>5 DEF IInv

(* A call that ends, whatever it was doing.                                *)
LEMMA ReturnStep ==
    ASSUME IInv, NEW c \in Calls, Return(c), UNCHANGED <<orders, items, answered>>
    PROVE  IInv'
BY IdleFits, LocalStep DEF Return, Idle, Creating

(* How a call begins.                                                      *)
LEMMA StartStep ==
    ASSUME IInv, NEW c \in Calls, Start(c)
    PROVE  IInv'
<1> USE DEF Idle, Call, Steps, CallFits, Priced, Creating
<1>1. CallFits(Idle) /\ Idle \in Call
  BY IdleFits
<1>2. ASSUME NEW u \in Users, NEW basket \in Baskets, StartCreate(c, u, basket)
      PROVE  IInv'
  <2> DEFINE k == [Idle EXCEPT !.pc = "prices", !.user = u, !.basket = basket]
  <2>1. CallFits(k) /\ k.pc \notin Creating
    BY <1>1, <1>2 DEF StartCreate
  <2>2. call' = [call EXCEPT ![c] = k] /\ UNCHANGED <<orders, items, answered>>
    BY <1>2 DEF StartCreate, StartAnyCreate
  <2> HIDE DEF k, Idle, Call, Steps, CallFits, Priced, Creating
  <2> QED
    BY <2>1, <2>2, LocalStep
<1>3. ASSUME NEW u \in Users, NEW o \in OrderIds, StartGet(c, u, o)
      PROVE  IInv'
  <2> DEFINE k == [Idle EXCEPT !.pc = "read", !.user = u, !.order = o]
  <2>1. CallFits(k) /\ k.pc \notin Creating
    BY <1>1
  <2>2. call' = [call EXCEPT ![c] = k] /\ UNCHANGED <<orders, items, answered>>
    BY <1>3 DEF StartGet
  <2> HIDE DEF k, Idle, Call, Steps, CallFits, Priced, Creating
  <2> QED
    BY <2>1, <2>2, LocalStep
<1>4. ASSUME NEW u \in Users, NEW o \in OrderIds, NEW reason \in Reasons \cup {None},
             StartCancel(c, u, o, reason)
      PROVE  IInv'
  <2> DEFINE k == [Idle EXCEPT !.pc = "find", !.user = u, !.order = o, !.reason = reason]
  <2>1. CallFits(k) /\ k.pc \notin Creating
    BY <1>1
  <2>2. call' = [call EXCEPT ![c] = k] /\ UNCHANGED <<orders, items, answered>>
    BY <1>4 DEF StartCancel
  <2> HIDE DEF k, Idle, Call, Steps, CallFits, Priced, Creating
  <2> QED
    BY <2>1, <2>2, LocalStep
<1> QED
  BY <1>2, <1>3, <1>4 DEF Start

(* A call that goes on, with the order that it already had.                *)
LEMMA GotoStep ==
    ASSUME IInv, NEW c \in Calls, NEW step \in Steps, Goto(c, step),
           UNCHANGED <<orders, items, answered>>,
           CallFits([call[c] EXCEPT !.pc = step]),
           step \in Creating => call[c].pc \in Creating
    PROVE  IInv'
<1>1. PICK k : k = [call[c] EXCEPT !.pc = step]
  OBVIOUS
<1>2. call[c] \in Call
  BY DEF IInv, TypeOK
<1>3. k.pc = step /\ k.order = call[c].order
  BY <1>1, <1>2 DEF Call
<1>4. call' = [call EXCEPT ![c] = k]
  BY <1>1 DEF Goto
<1> QED
  BY <1>1, <1>3, <1>4, LocalStep

(* The steps of CreateOrder that change no row.                            *)
LEMMA CreateLocalStep ==
    ASSUME IInv, NEW c \in Calls, GetPrices(c) \/ Begin(c) \/ BulkCreate(c) \/ UpdateTotals(c)
    PROVE  IInv'
<1>1. call[c] \in Call /\ CallFits(call[c])
  BY DEF IInv, TypeOK, CallsFit
<1>2. CASE GetPrices(c)
  <2>1. PICK quote \in Quotes :
          call' = [call EXCEPT ![c].pc = "begin", ![c].quote = quote]
    BY <1>2 DEF GetPrices
  <2>2. PICK k : k = [call[c] EXCEPT !.pc = "begin", !.quote = quote]
    OBVIOUS
  <2>3. CallFits(k) /\ k.pc \notin Creating
    BY <1>1, <1>2, <2>2 DEF GetPrices, CallFits, Call, Steps, Priced, Creating
  <2>4. call' = [call EXCEPT ![c] = k]
    BY <2>1, <2>2
  <2> QED
    BY <1>2, <2>3, <2>4, LocalStep DEF GetPrices
<1>3. CASE Begin(c)
  <2>1. CASE ~Acceptable(call[c].basket, call[c].quote)
    BY <1>3, <2>1, ReturnStep DEF Begin
  <2>2. CASE Acceptable(call[c].basket, call[c].quote)
    <3>1. PICK lines : lines = Lines(call[c].basket, call[c].quote)
      OBVIOUS
    <3>2. lines \in AllLines /\ lines # <<>> /\ Total(lines) \in Totals
      BY <1>1, <1>3, <2>2, <3>1, LinesFit DEF Begin, CallFits
    <3>3. PICK k : k = [call[c] EXCEPT !.pc = "create", !.lines = lines,
                            !.total = Total(lines), !.basket = <<>>, !.quote = <<>>]
      OBVIOUS
    <3>4. CallFits(k) /\ k.pc \notin Creating
      BY <1>1, <3>2, <3>3 DEF CallFits, Call, Steps, Priced, Creating
    <3>5. call' = [call EXCEPT ![c] = k]
      BY <1>3, <2>2, <3>1, <3>3 DEF Begin, Sum
    <3> QED
      BY <1>3, <3>4, <3>5, LocalStep DEF Begin
  <2> QED
    BY <2>1, <2>2
<1>4. CASE BulkCreate(c)
  <2>1. CASE ~Storable(call[c].lines)
    BY <1>4, <2>1, ReturnStep DEF BulkCreate
  <2>2. CASE Storable(call[c].lines)
    <3>1. CallFits([call[c] EXCEPT !.pc = "totals"])
      BY <1>1, <1>4, <2>2 DEF BulkCreate, CallFits, Call, Steps, Priced, Creating
    <3> QED
      BY <1>4, <2>2, <3>1, GotoStep DEF BulkCreate, Steps, Creating
  <2> QED
    BY <2>1, <2>2
<1>5. CASE UpdateTotals(c)
  <2>1. CallFits([call[c] EXCEPT !.pc = "commit"])
    BY <1>1, <1>5 DEF UpdateTotals, CallFits, Call, Steps, Priced, Creating
  <2> QED
    BY <1>5, <2>1, GotoStep DEF UpdateTotals, Steps, Creating
<1> QED
  BY <1>2, <1>3, <1>4, <1>5

(* The steps of CancelOrder and GetOrder that change no row.               *)
LEMMA ReadingStep ==
    ASSUME IInv, NEW c \in Calls,
           FindOrder(c) \/ ShowOrder(c) \/ Get(c) \/ Abort(c)
    PROVE  IInv'
<1>1. call[c] \in Call /\ CallFits(call[c])
  BY DEF IInv, TypeOK, CallsFit
<1>2. CASE FindOrder(c)
  <2>1. CASE ~(MaySee(call[c].user, call[c].order) /\ orders[call[c].order].state # "cancelled")
    BY <1>2, <2>1, ReturnStep DEF FindOrder
  <2>2. CASE MaySee(call[c].user, call[c].order) /\ orders[call[c].order].state # "cancelled"
    <3>1. CallFits([call[c] EXCEPT !.pc = "update"])
      BY <1>1, <1>2, <2>2 DEF FindOrder, MaySee, CallFits, Call, Steps, Priced, Creating
    <3> QED
      BY <1>2, <2>2, <3>1, GotoStep DEF FindOrder, Steps, Creating
  <2> QED
    BY <2>1, <2>2
<1>3. CASE ReadOrder(c)
  <2>1. CASE ~MaySee(call[c].user, call[c].order)
    BY <1>3, <2>1, ReturnStep DEF ReadOrder
  <2>2. CASE MaySee(call[c].user, call[c].order)
    <3>1. PICK k : k = [call[c] EXCEPT !.pc = "preload", !.total = orders[call[c].order].total]
      OBVIOUS
    <3>2. orders[call[c].order].total \in Totals
      BY <1>1, <1>3 DEF ReadOrder, CallFits, IInv, TypeOK, Order
    <3>3. CallFits(k) /\ k.pc \notin Creating
      BY <1>1, <1>3, <2>2, <3>1, <3>2
      DEF ReadOrder, MaySee, CallFits, Call, Steps, Priced, Creating
    <3>4. call' = [call EXCEPT ![c] = k]
      BY <1>3, <2>2, <3>1 DEF ReadOrder
    <3> QED
      BY <1>3, <3>3, <3>4, LocalStep DEF ReadOrder
  <2> QED
    BY <2>1, <2>2
<1>4. CASE ReadItems(c)
  <2>1. PICK k : k = [call[c] EXCEPT !.pc = "got", !.lines = items[call[c].order]]
    OBVIOUS
  <2>2. /\ call[c].order \in OrderIds
        /\ items[call[c].order] \in AllLines \cup {<<>>}
        /\ items[call[c].order] = <<>> \/ call[c].total = Total(items[call[c].order])
    BY <1>1, <1>4 DEF ReadItems, CallFits, IInv, TypeOK, ItemsMatchTotal
  <2>3. CallFits(k) /\ k.pc \notin Creating
    BY <1>1, <1>4, <2>1, <2>2 DEF ReadItems, CallFits, Call, Steps, Priced, Creating
  <2>4. call' = [call EXCEPT ![c] = k]
    BY <1>4, <2>1 DEF ReadItems
  <2> QED
    BY <1>4, <2>3, <2>4, LocalStep DEF ReadItems
<1>5. CASE ShowOrder(c) \/ Answer(c) \/ Abort(c)
  BY <1>5, ReturnStep DEF ShowOrder, Answer, Abort
<1> QED
  BY <1>2, <1>3, <1>4, <1>5 DEF Get

-----------------------------------------------------------------------------
(* A row that exists keeps existing, and keeps its total.                  *)
Kept(o) == Exists(o) => Exists(o)' /\ orders'[o].total = orders[o].total

(* A step that adds or changes a row of orders that no other call makes.   *)
LEMMA RowStep ==
    ASSUME IInv, NEW c \in Calls, NEW k, call' = [call EXCEPT ![c] = k],
           UNCHANGED <<items, answered>>,
           orders' \in [OrderIds -> Order],
           \A o \in OrderIds : Kept(o),
           k \in Call, CallFits(call[c])',
           k.pc \in Creating => ~Exists(k.order)
    PROVE  IInv'
<1>1. call' = [d \in Calls |-> IF d = c THEN k ELSE call[d]]
  BY DEF IInv, TypeOK
<1>2. TypeOK'
  BY <1>1 DEF IInv, TypeOK
<1>3. ItemsMatchTotal' /\ AnsweredIsWhole'
  BY DEF IInv, ItemsMatchTotal, AnsweredIsWhole, Kept
<1>4. Alone'
  BY <1>1 DEF IInv, Alone, CallsFit, CallFits
<1>5. CallsFit'
  <2> SUFFICES ASSUME NEW d \in Calls, d # c PROVE CallFits(call[d])'
    BY DEF CallsFit
  <2>1. CallFits(call[d]) /\ call'[d] = call[d]
    BY <1>1 DEF IInv, CallsFit
  <2> QED
    BY <2>1 DEF CallFits, Kept
<1> QED
  BY <1>2, <1>3, <1>4, <1>5 DEF IInv

LEMMA CreateRowStep ==
    ASSUME IInv, NEW c \in Calls, CreateRow(c)
    PROVE  IInv' /\ \A o \in OrderIds : Kept(o)
<1>1. call[c] \in Call /\ CallFits(call[c]) /\ call[c].pc = "create"
  BY DEF IInv, TypeOK, CallsFit, CreateRow
<1>2. CASE ~RowAllowed(NewOrder(call[c]))
  BY <1>2, ReturnStep DEF CreateRow, Kept, Exists
<1>3. CASE RowAllowed(NewOrder(call[c]))
  <2>1. PICK o \in OrderIds :
          /\ ~Exists(o)
          /\ orders' = [orders EXCEPT ![o] = NewOrder(call[c])]
          /\ call' = [call EXCEPT ![c].pc = "items", ![c].order = o]
    BY <1>3 DEF CreateRow
  <2>2. PICK k : k = [call[c] EXCEPT !.pc = "items", !.order = o]
    OBVIOUS
  <2>3. call' = [call EXCEPT ![c] = k] /\ call'[c] = k
    BY <2>1, <2>2 DEF IInv, TypeOK
  <2>4. NewOrder(call[c]) \in Order
    BY <1>1, <1>3 DEF NewOrder, RowAllowed, Order, Call
  <2>5. orders' \in [OrderIds -> Order] /\ \A x \in OrderIds : Kept(x)
    BY <2>1, <2>4 DEF IInv, TypeOK, Kept, Exists
  <2>6. k \in Call /\ k.pc = "items" /\ k.order = o
    BY <1>1, <2>2 DEF Call, Steps
  <2>7. items'[o] = <<>>
    BY <2>1 DEF CreateRow, IInv, ItemsMatchTotal
  <2>8. CallFits(k)'
    BY <1>1, <2>1, <2>2, <2>6, <2>7
    DEF CallFits, IInv, TypeOK, NewOrder, Exists, Priced, Creating, Call
  <2> QED
    BY <2>1, <2>3, <2>5, <2>6, <2>8, RowStep DEF CreateRow
<1> QED
  BY <1>2, <1>3

LEMMA UpdateStatusStep ==
    ASSUME IInv, NEW c \in Calls, UpdateStatus(c)
    PROVE  IInv' /\ \A o \in OrderIds : Kept(o)
<1>1. call[c] \in Call /\ CallFits(call[c]) /\ call[c].pc = "update"
  BY DEF IInv, TypeOK, CallsFit, UpdateStatus
<1>2. PICK k : k = [call[c] EXCEPT !.pc = "show"]
  OBVIOUS
<1>3. call' = [call EXCEPT ![c] = k] /\ call'[c] = k
  BY <1>2 DEF IInv, TypeOK, UpdateStatus, Goto
<1>4. orders' \in [OrderIds -> Order] /\ \A x \in OrderIds : Kept(x)
  <2>1. \A row \in Order : /\ Cancelled(row, call[c].reason) \in Order
                           /\ Cancelled(row, call[c].reason).total = row.total
                           /\ Cancelled(row, call[c].reason).state = "cancelled"
    BY <1>1 DEF Cancelled, Order, Call
  <2> QED
    BY <1>1, <2>1 DEF UpdateStatus, CallFits, IInv, TypeOK, Kept, Exists
<1>5. k \in Call /\ k.pc = "show" /\ k.order = call[c].order
  BY <1>1, <1>2 DEF Call, Steps
<1>6. CallFits(k)'
  BY <1>1, <1>4, <1>5 DEF CallFits, Kept, Priced, Creating
<1> QED
  BY <1>3, <1>4, <1>5, <1>6, RowStep DEF UpdateStatus, Creating

(* COMMIT does not change the row of the order: UpdateTotals repeated what *)
(* Create had written.                                                     *)
LEMMA CommitStep ==
    ASSUME IInv, NEW c \in Calls, Commit(c)
    PROVE  IInv' /\ orders' = orders
<1>1. call[c] \in Call /\ CallFits(call[c]) /\ call[c].pc = "commit"
  BY DEF IInv, TypeOK, CallsFit, Commit
<1>2. PICK o : o = call[c].order
  OBVIOUS
<1>3. /\ o \in OrderIds /\ Exists(o) /\ items[o] = <<>>
      /\ orders[o].total = call[c].total /\ orders[o] \in Order
      /\ call[c].lines \in AllLines /\ call[c].lines # <<>>
      /\ call[c].total = Total(call[c].lines) /\ Storable(call[c].lines)
  BY <1>1, <1>2 DEF CallFits, IInv, TypeOK, Priced, Creating
<1>4. Totalled(orders[o], call[c]) = orders[o]
  BY <1>3 DEF Totalled, Order
<1>5. orders' = orders
  BY <1>2, <1>3, <1>4 DEF Commit, IInv, TypeOK
<1>6. /\ items' = [items EXCEPT ![o] = call[c].lines]
      /\ answered' \subseteq answered \cup {o}
      /\ call' = [d \in Calls |-> IF d = c THEN Idle ELSE call[d]]
  BY <1>2 DEF Commit, Return, IInv, TypeOK
<1>7. TypeOK'
  BY <1>3, <1>5, <1>6, IdleFits DEF IInv, TypeOK, CallFits
<1>8. ItemsMatchTotal' /\ AnsweredIsWhole'
  BY <1>3, <1>5, <1>6 DEF IInv, TypeOK, ItemsMatchTotal, AnsweredIsWhole, Exists
<1>9. Alone'
  BY <1>6 DEF IInv, Alone, Idle, Creating
<1>10. CallsFit'
  <2> SUFFICES ASSUME NEW d \in Calls PROVE CallFits(call[d])'
    BY DEF CallsFit
  <2>1. CASE d = c
    BY <2>1, <1>6 DEF CallFits, Idle, Call, Steps, Priced, Creating, Totals
  <2>2. CASE d # c
    <3>1. CallFits(call[d]) /\ call'[d] = call[d]
      BY <2>2, <1>6 DEF IInv, CallsFit
    <3>2. call[d].pc \in Creating => call[d].order # o
      BY <1>1, <1>2, <2>2 DEF IInv, Alone, Creating
    <3>3. \A x \in OrderIds : x # o => items'[x] = items[x]
      BY <1>6 DEF IInv, TypeOK
    <3> QED
      BY <1>5, <3>1, <3>2, <3>3 DEF CallFits, Exists
  <2> QED
    BY <2>1, <2>2
<1> QED
  BY <1>5, <1>7, <1>8, <1>9, <1>10 DEF IInv

-----------------------------------------------------------------------------
LEMMA StepFits == IInv /\ [Next]_vars => IInv'
<1> SUFFICES ASSUME IInv, [Next]_vars PROVE IInv'
  OBVIOUS
<1>1. CASE UNCHANGED vars
  BY <1>1 DEF vars, IInv, TypeOK, CallsFit, CallFits, Alone, ItemsMatchTotal,
              AnsweredIsWhole, Exists
<1>2. ASSUME NEW c \in Calls, Start(c) \/ Create(c) \/ Cancel(c) \/ Get(c) \/ Abort(c)
      PROVE  IInv'
  BY <1>2, StartStep, CreateLocalStep, ReadingStep, CreateRowStep, UpdateStatusStep, CommitStep
  DEF Create, Cancel
<1> QED
  BY <1>1, <1>2 DEF Next

THEOREM Invariance == Spec => []IInv
BY InitFits, StepFits, PTL DEF Spec

(* Types, and no negative total is stored, however the sum wraps.          *)
THEOREM TypeCorrect == Spec => []TypeOK
<1>1. IInv => TypeOK
  BY DEF IInv
<1> QED
  BY <1>1, Invariance, PTL

(* Items and totals agree, although Create and BulkCreate are committed    *)
(* separately (order_service.go:109, :117).                                *)
THEOREM TotalsAgree == Spec => []ItemsMatchTotal
<1>1. IInv => ItemsMatchTotal
  BY DEF IInv
<1> QED
  BY <1>1, Invariance, PTL

(* An order that was answered has items: CreateOrder answers after COMMIT, *)
(* and never with an empty list (order_service.go:47).                     *)
THEOREM AnsweredWhole == Spec => []AnsweredIsWhole
<1>1. IInv => AnsweredIsWhole
  BY DEF IInv
<1> QED
  BY <1>1, Invariance, PTL

(* The two SELECTs of GetByID never show items that another total belongs  *)
(* to.                                                                     *)
THEOREM ReadsAddUp == Spec => []AnswerAddsUp
<1>1. IInv => AnswerAddsUp
  BY DEF IInv, CallsFit, CallFits, AnswerAddsUp
<1> QED
  BY <1>1, Invariance, PTL

-----------------------------------------------------------------------------
(* What a step may do to the rows of orders.                               *)
LEMMA RowsOfStep ==
    ASSUME IInv, [Next]_vars
    PROVE  \A o \in OrderIds :
               Kept(o) /\ (orders[o].state = "cancelled" => orders'[o].state = "cancelled")
<1>1. CASE orders' = orders
  BY <1>1 DEF Kept, Exists
<1>2. ASSUME NEW c \in Calls, CreateRow(c)
      PROVE  \A o \in OrderIds :
               Kept(o) /\ (orders[o].state = "cancelled" => orders'[o].state = "cancelled")
  <2>1. \A o \in OrderIds : orders[o].state = "cancelled" => orders'[o] = orders[o]
    BY <1>2 DEF CreateRow, Exists, IInv, TypeOK
  <2> QED
    BY <1>2, <2>1, CreateRowStep
<1>3. ASSUME NEW c \in Calls, UpdateStatus(c)
      PROVE  \A o \in OrderIds :
               Kept(o) /\ (orders[o].state = "cancelled" => orders'[o].state = "cancelled")
  <2>1. \A o \in OrderIds : orders'[o].state \in {orders[o].state, "cancelled"}
    BY <1>3 DEF UpdateStatus, Cancelled, IInv, TypeOK, Order
  <2> QED
    BY <1>3, <2>1, UpdateStatusStep
<1>4. \A c \in Calls : Commit(c) => orders' = orders
  BY CommitStep
<1> QED
  BY <1>1, <1>2, <1>3, <1>4
  DEF Next, vars, Start, StartCreate, StartAnyCreate, StartGet, StartCancel, Create,
      Cancel, Get, GetPrices, Begin, BulkCreate, UpdateTotals, FindOrder, ShowOrder,
      ReadOrder, ReadItems, Answer, Abort

(* The total of an order is final from its first INSERT on.                *)
THEOREM FinalTotal == Spec => TotalIsFinal
<1>1. IInv /\ [Next]_vars =>
          [\A o \in OrderIds : Exists(o) => orders'[o].total = orders[o].total]_vars
  BY RowsOfStep DEF Kept
<1> QED
  BY <1>1, Invariance, PTL DEF Spec, TotalIsFinal

(* No COMMIT of a CreateOrder takes a cancellation back (order_service.go  *)
(* :121, :245).                                                            *)
THEOREM FinalCancel == Spec => CancelIsFinal
<1>1. IInv /\ [Next]_vars =>
          [\A o \in OrderIds :
              orders[o].state = "cancelled" => orders'[o].state = "cancelled"]_vars
  BY RowsOfStep
<1> QED
  BY <1>1, Invariance, PTL DEF Spec, CancelIsFinal
=============================================================================
