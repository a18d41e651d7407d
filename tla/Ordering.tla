------------------------------ MODULE Ordering ------------------------------
(***************************************************************************)
(* Ordering food and paying for it: OrderingController, the bill           *)
(* calculator and PaymentService with its retries, over the order table.   *)
(* Concurrent requests take one step per await on the database or on the   *)
(* payment provider; the transaction of a save is one step, as in          *)
(* StoreSales.  What the provider has charged is kept in `charges`: it is  *)
(* not the database's to roll back.                                        *)
(*                                                                         *)
(* Foods are read in one step although the handler reads them twice: a     *)
(* food, its store and its price never change.  An UPDATE that waits for   *)
(* the lock of a delivery is refused after it as it is here at once: the   *)
(* order is paid already.  The notification of a paid order, scheduled by  *)
(* a promise that nobody awaits, is left out.                              *)
(***************************************************************************)
EXTENDS OrderTable, Sequences, FiniteSets, FiniteSetsExt

CONSTANTS
  Requests,      \* HTTP requests; each is served once
  StoreOf,       \* food -> the store that cooks it
  PricePerPlate, \* food -> its price
  Baskets,       \* what customers put in an order: sequences of foods
  MaxRetries,    \* Setting.payment.retry.max
  NoOrderId

ASSUME FoodAssumption ==
  StoreOf \in [Foods -> Stores] /\ PricePerPlate \in [Foods -> Nat]
ASSUME BasketAssumption ==
  \A basket \in Baskets :
    basket # <<>> /\ basket \in Seq({basket[i] : i \in DOMAIN basket})
ASSUME RetryAssumption ==
  MaxRetries \in Nat \ {0} /\ Requests \X (1..MaxRetries) \subseteq PaymentIds
ASSUME NoOrderIdAssumption == NoOrderId \notin Orders

VARIABLES
  charges, \* what the payment provider has charged: [order, paymentId]
  pc,      \* where each request is
  work     \* what each request holds in memory

orderingVars == <<charges, pc, work>>

------------------------------------------------------------------------------
(* Baskets.                                                                 *)

\* SELECT ... WHERE id IN (...): each food that exists, once.
findManyById(basket) == {basket[i] : i \in DOMAIN basket} \cap Foods

\* Nobody asks whether the food is there twice or not at all.
SomeNotFoundUnasked(basket) == FALSE

\* Only the size of the result tells that a food is missing, or is there twice.
SomeNotFound(basket) == Cardinality(findManyById(basket)) # Len(basket)

\* Each food once: the bill does not look at the plates of an item.
calculateTotal(basket) ==
  MapThenSumSet(LAMBDA food : PricePerPlate[food], findManyById(basket))

findDistinctStore(basket) == {StoreOf[food] : food \in findManyById(basket)}

------------------------------------------------------------------------------
(* Requests.                                                                *)

NoWork ==
  [op |-> "NONE", order |-> NoOrderId, basket |-> <<>>, card |-> FALSE, retries |-> 0,
   entity |-> NoOrder, seen |-> NoOrder]

OrderingInit ==
  /\ charges = {}
  /\ pc = [r \in Requests |-> "idle"]
  /\ work = [r \in Requests |-> NoWork]

Goto(r, label) == pc' = [pc EXCEPT ![r] = label]

\* The handler throws, or answers, before it has anything to save.
Answer(r, label) ==
  Goto(r, label) /\ UNCHANGED <<order, orderEvents, charges, work>>

\* POST ordering/init, up to the save of the new order.
orderFood(r, basket, o) ==
  /\ pc[r] = "idle"
  /\ isNew(order[o]) /\ \A q \in Requests : work[q].order # o
  /\ IF Broken("food") THEN Answer(r, "failed")
     ELSE IF SomeNotFound(basket) THEN Answer(r, "rejected")
     ELSE IF Broken("stores") THEN Answer(r, "failed")
     ELSE IF Cardinality(findDistinctStore(basket)) # 1 \/ Broken("earnings")
     THEN Answer(r, "rejected")
     ELSE /\ \E store \in findDistinctStore(basket) :
               work' = [work EXCEPT ![r] =
                          [NoWork EXCEPT !.op = "orderFood", !.order = o, !.basket = basket,
                             !.entity = OrderCreated(store, calculateTotal(basket))]]
          /\ Goto(r, "write")
          /\ UNCHANGED <<order, orderEvents, charges>>

\* POST ordering/pay, up to the payment; `card` is one the provider accepts.
makeOrderPayment(r, o, card) ==
  /\ pc[r] = "idle"
  /\ IF isNew(order[o]) THEN Answer(r, "rejected")
     ELSE IF Broken("customer") THEN Answer(r, "failed")
     ELSE /\ work' = [work EXCEPT ![r] =
                        [NoWork EXCEPT !.op = "makeOrderPayment", !.order = o, !.card = card,
                                       !.retries = MaxRetries, !.entity = order[o]]]
          /\ Goto(r, "pay")
          /\ UNCHANGED <<order, orderEvents, charges>>

\* A try that fails is not counted.
PaymentFailsForever(r) ==
  /\ pc[r] = "pay"
  /\ ~(work[r].card /\ work[r].entity.totalBill > 0)
  /\ UNCHANGED <<order, orderEvents, charges, pc, work>>

\* Retry tries until its counter is below zero.
PaymentFailsOnceMore(r) ==
  /\ pc[r] = "pay"
  /\ ~(work[r].card /\ work[r].entity.totalBill > 0)
  /\ work' = [work EXCEPT ![r].retries = @ - 1]
  /\ Goto(r, IF work[r].retries < 0 THEN "rejected" ELSE "pay")
  /\ UNCHANGED <<order, orderEvents, charges>>

\* PaymentService.makePayment under Retry: a charge that fails is tried again,
\* until none of its tries is left.
PaymentFails(r) ==
  /\ pc[r] = "pay"
  /\ ~(work[r].card /\ work[r].entity.totalBill > 0)
  /\ work' = [work EXCEPT ![r].retries = @ - 1]
  /\ Goto(r, IF work[r].retries = 1 THEN "rejected" ELSE "pay")
  /\ UNCHANGED <<order, orderEvents, charges>>

\* The payment id of this try.
PaymentId(r) == <<r, work[r].retries>>

\* The loop of Retry does not stop at a charge that succeeds.
PaymentSucceedsOnAndOn(r) ==
  LET row == work[r].entity
  IN  /\ pc[r] = "pay"
      /\ work[r].card /\ row.totalBill > 0
      /\ charges' = charges \cup {[order |-> work[r].order, paymentId |-> PaymentId(r)]}
      /\ IF work[r].retries > 1
         THEN work' = [work EXCEPT ![r].retries = @ - 1] /\ UNCHANGED pc
         ELSE work' = [work EXCEPT ![r].entity = OrderBillPaid(row, PaymentId(r))]
              /\ Goto(r, "select")
      /\ UNCHANGED <<order, orderEvents>>

\* A charge succeeds; only then does payBill look whether the order, as it was
\* loaded, has been paid.
PaymentSucceeds(r) ==
  LET row == work[r].entity
  IN  /\ pc[r] = "pay"
      /\ work[r].card /\ row.totalBill > 0
      /\ charges' = charges \cup {[order |-> work[r].order, paymentId |-> PaymentId(r)]}
      /\ IF hasBillPaid(row)
         THEN Goto(r, "rejected") /\ UNCHANGED work
         ELSE /\ work' = [work EXCEPT ![r].entity = OrderBillPaid(row, PaymentId(r))]
              /\ Goto(r, "select")
      /\ UNCHANGED <<order, orderEvents>>

\* save of the paid order, first half.  Its payment id is new: it differs.
SelectOrder(r) ==
  /\ pc[r] = "select"
  /\ work' = [work EXCEPT ![r].seen = order[work[r].order]]
  /\ Goto(r, "write")
  /\ UNCHANGED <<order, orderEvents, charges>>

\* No unique constraint on the log.
OrderRefusedUnlessValid(r) == ValidationThrows

OrderRefused(r) ==
  ValidationThrows \/ VersionTaken(orderEvents, work[r].order, work[r].entity.version)

\* Second half: the row and its event, or neither.
CommitOrder(r) ==
  LET o == work[r].order
      type == IF work[r].op = "orderFood" THEN "OrderCreated" ELSE "OrderBillPaid"
  IN  /\ pc[r] = "write"
      /\ ~OrderRefused(r)
      /\ order' = [order EXCEPT ![o] = MergedOrder(work[r].entity, work[r].seen, @)]
      /\ orderEvents' = orderEvents \cup {OrderEvent(o, work[r].entity, type)}
      /\ Goto(r, "ok")
      /\ UNCHANGED <<charges, work>>

\* Second half, refused: the error ends the request.
RollbackOrder(r) ==
  /\ pc[r] = "write"
  /\ OrderRefused(r)
  /\ Answer(r, "failed")

InFlight == {"pay", "select", "write"}

\* A request that has been taken in runs on by itself.
OrderingStep(r) ==
  \/ PaymentFails(r)
  \/ PaymentSucceeds(r)
  \/ SelectOrder(r)
  \/ CommitOrder(r)
  \/ RollbackOrder(r)

OrderingNext ==
  \E r \in Requests :
    \/ \E basket \in Baskets, o \in Orders : orderFood(r, basket, o)
    \/ \E o \in Orders, card \in BOOLEAN : makeOrderPayment(r, o, card)
    \/ OrderingStep(r)

\* The process dies: requests in flight get no answer, charges stand.
OrderingDies ==
  /\ pc' = [r \in Requests |-> IF pc[r] \in InFlight THEN "failed" ELSE pc[r]]
  /\ UNCHANGED <<charges, work>>

------------------------------------------------------------------------------
(* Properties.                                                              *)

OrderingTypeOK ==
  /\ charges \in SUBSET [order : Orders, paymentId : PaymentIds]
  /\ pc \in [Requests -> InFlight \cup {"idle", "rejected", "ok", "failed"}]
  /\ work \in [Requests ->
       [op : {"NONE", "orderFood", "makeOrderPayment"}, order : Orders \cup {NoOrderId},
        basket : Baskets \cup {<<>>}, card : BOOLEAN, retries : 0..MaxRetries,
        entity : OrderRow, seen : OrderRow]]

\* A customer who is told that the order is paid has paid it: its payment is the
\* one this request charged, and stays that, whatever other payments race it.
AcknowledgedPaymentCounts ==
  \A r \in Requests :
    (pc[r] = "ok" /\ work[r].op = "makeOrderPayment") =>
      /\ order[work[r].order].paymentId = PaymentId(r)
      /\ [order |-> work[r].order, paymentId |-> PaymentId(r)] \in charges

\* However often a request retries, it charges at most once.
RetryChargesOnce ==
  \A c, d \in charges : c.paymentId[1] = d.paymentId[1] => c = d

\* What a customer was told to have ordered is what is stored: every item is of
\* the order's store and is on the bill.
OrderMatchesBasket ==
  \A r \in Requests :
    (pc[r] = "ok" /\ work[r].op = "orderFood") =>
      LET basket == work[r].basket
          row == order[work[r].order]
      IN  /\ \A i \in DOMAIN basket : StoreOf[basket[i]] = row.store
          /\ row.totalBill =
               MapThenSumSet(LAMBDA i : PricePerPlate[basket[i]], DOMAIN basket)

\* Every request is answered: no payment is tried for ever, nobody waits for
\* what never comes.
Answered ==
  (\E r \in Requests : pc[r] \in InFlight) ~> (\A r \in Requests : pc[r] \notin InFlight)

\* order.entity.ts: a bill that has been paid is not paid again.
PaidOnce == \A c, d \in charges : c.order = d.order => c = d
==============================================================================
