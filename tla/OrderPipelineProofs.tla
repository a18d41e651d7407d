------------------------ MODULE OrderPipelineProofs ------------------------
(***************************************************************************)
(* OrderPipeline for any number of requests, orders, jobs, stores and      *)
(* vendors: the order table, the requests and what the jobs do to orders.  *)
(* (VendorEarningsProofs goes on to the vendors.)                          *)
(*                                                                         *)
(* The argument: the version of a row says how far its order has got, and  *)
(* the versions in its log are 1 .. that version.  So the unique           *)
(* constraint lets a request commit only the version that comes next; what *)
(* it holds was then made from the row that is still there, and save's     *)
(* column by column UPDATE writes exactly what it holds.  A job holds      *)
(* orders in their last version, and the rows it has locked for its        *)
(* transaction stay as it has read them.                                   *)
(***************************************************************************)
EXTENDS OrderPipeline, SetSums

------------------------------------------------------------------------------
(* The inductive invariant.                                                 *)

\* The version of a row says which of its columns are set.
LegalRow ==
  {row \in OrderRow :
     /\ row.version \in 0..3
     /\ row.version >= 1 <=> row.store \in Stores
     /\ row.version = 0 => row.totalBill = 0
     /\ row.version >= 2 <=> hasBillPaid(row)
     /\ row.version >= 2 <=> row.deliveryBatch # 0
     /\ row.version = 3 <=> hasBeenDelivered(row)}

\* What a row can still become.
GrowsInto(old, new) ==
  /\ new.version >= old.version
  /\ new.version = old.version => new = old
  /\ old.version >= 1 => new.store = old.store /\ new.totalBill = old.totalBill
  /\ old.version >= 2 =>
       new.paymentId = old.paymentId /\ new.deliveryBatch = old.deliveryBatch

\* The row of a paid order, and of the same order delivered.
DeliveredInto(old, new) ==
  /\ old.version = 2 /\ new.version = 3
  /\ GrowsInto(old, new)

EventTypeOf(version) ==
  IF version = 1 THEN "OrderCreated" ELSE IF version = 2 THEN "OrderBillPaid" ELSE "OrderDelivered"

\* The versions logged for an order are exactly those its row went through.
LogIsComplete ==
  /\ \A e \in orderEvents :
       e.version \in 1..order[e.aggregateId].version /\ e.type = EventTypeOf(e.version)
  /\ \A o \in Orders : \A n \in 1..order[o].version : VersionTaken(orderEvents, o, n)

Tables == (\A o \in Orders : order[o] \in LegalRow) /\ LogIsComplete /\ DeliveredIsDue

\* The order and its bill are what the basket asks for.
Fits(basket, row) ==
  /\ \A i \in DOMAIN basket : StoreOf[basket[i]] = row.store
  /\ row.totalBill = MapThenSumSet(LAMBDA i : PricePerPlate[basket[i]], DOMAIN basket)

ChargeOf(r) == [order |-> work[r].order, paymentId |-> PaymentId(r)]

Placing(r) == pc[r] = "write" /\ work[r].op = "orderFood"
SavingPayment(r) ==
  pc[r] = "select" \/ (pc[r] = "write" /\ work[r].op = "makeOrderPayment")
HasPaid(r) == pc[r] = "ok" /\ work[r].op = "makeOrderPayment"

\* A request that saves a new order has its id for itself: there is no row yet.
PlacingHeld(r) ==
  LET w == work[r]
  IN  Placing(r) =>
        /\ w.order \in Orders /\ isNew(order[w.order]) /\ w.seen = NoOrder
        /\ w.entity \in LegalRow /\ w.entity.version = 1 /\ Fits(w.basket, w.entity)
        /\ \A q \in Requests \ {r} : work[q].order # w.order

PlacedHeld(r) ==
  LET w == work[r]
  IN  pc[r] = "ok" /\ w.op = "orderFood" =>
        w.order \in Orders /\ ~isNew(order[w.order]) /\ Fits(w.basket, order[w.order])

\* A request that pays holds a row of its order, be it an old one.
PayHeld(r) ==
  LET w == work[r]
  IN  pc[r] = "pay" =>
        /\ w.op = "makeOrderPayment" /\ w.order \in Orders /\ w.retries \in 1..MaxRetries
        /\ w.entity \in LegalRow /\ ~isNew(w.entity) /\ GrowsInto(w.entity, order[w.order])

\* A request that saves a payment has charged it, and holds the second version of
\* its order.  If the first is still in the table, it is the one it has read.
SaveHeld(r) ==
  LET w == work[r]
      row == order[w.order]
  IN  SavingPayment(r) =>
        /\ w.op = "makeOrderPayment" /\ w.order \in Orders /\ w.retries \in 1..MaxRetries
        /\ ChargeOf(r) \in charges
        /\ ~isNew(row)
        /\ w.entity \in LegalRow /\ w.entity.version = 2 /\ w.entity.paymentId = PaymentId(r)
        /\ w.entity.store = row.store /\ w.entity.totalBill = row.totalBill
        /\ pc[r] = "write" /\ row.version = 1 => w.seen = row

PaidHeld(r) ==
  LET w == work[r]
  IN  HasPaid(r) =>
        /\ w.order \in Orders /\ w.retries \in 1..MaxRetries
        /\ order[w.order].version >= 2 /\ order[w.order].paymentId = PaymentId(r)
        /\ ChargeOf(r) \in charges

Held(r) ==
  /\ pc[r] = "write" => work[r].op \in {"orderFood", "makeOrderPayment"}
  /\ PlacingHeld(r) /\ PlacedHeld(r) /\ PayHeld(r) /\ SaveHeld(r) /\ PaidHeld(r)

\* Each charge is the one of a request that is past it.
ChargesAreOfRequests ==
  \A c \in charges : \E r \in Requests : pc[r] \notin {"idle", "pay"} /\ c = ChargeOf(r)

\* Each paid order has been paid by a request.
PaidByRequests ==
  \A o \in Orders : hasBillPaid(order[o]) => \E r \in Requests : HasPaid(r) /\ work[r].order = o

Memory == (\A r \in Requests : Held(r)) /\ ChargesAreOfRequests /\ PaidByRequests

\* What the saga of an order holds.
SagaState ==
  [at : {"load", "done"}] \cup [at : {"select"}, mine : VendorRow]
    \cup [at : {"update"}, mine : VendorRow, read : VendorRow]

CreditEvent == [aggregateId : Vendors, version : Nat, amount : Nat]

JobsTypeOK ==
  /\ batch = [d \in Jobs |-> batch[d]]
  /\ seen = [d \in Jobs |-> seen[d]]
  /\ saga = [d \in Jobs |-> saga[d]]
  /\ \A d \in Jobs : saga[d] \in [DOMAIN saga[d] -> SagaState]
  /\ credited \in [Jobs -> [vendor : [Vendors -> VendorRow], events : SUBSET CreditEvent]]

\* What a job holds, by where it is.
JobDomains(d) ==
  /\ job[d] \notin {"select", "update", "sagas"} => DOMAIN batch[d] = {}
  /\ DOMAIN seen[d] = IF job[d] \in {"update", "sagas"} THEN DOMAIN batch[d] ELSE {}
  /\ DOMAIN saga[d] = IF InTransaction(d) THEN Changed(d) ELSE {}

\* A job holds orders that were due when it loaded them, in their last version.
\* The rows it has written in its transaction are those it has read.
BatchHeld(d, o) ==
  LET mine == batch[d][o]
  IN  /\ mine \in LegalRow /\ mine.version = 3 /\ mine.deliveryBatch <= now
      /\ order[o] = mine \/ DeliveredInto(order[o], mine)
      /\ o \in DOMAIN seen[d] =>
           /\ seen[d][o] \in LegalRow
           /\ (seen[d][o] = mine /\ order[o] = mine) \/ DeliveredInto(seen[d][o], mine)
           /\ InTransaction(d) /\ mine # seen[d][o] => order[o] = seen[d][o]

JobHeld(d) == JobDomains(d) /\ \A o \in DOMAIN batch[d] : BatchHeld(d, o)

\* No order is in two transactions.
OrdersAreLocked ==
  \A d, e \in Jobs :
    d # e /\ InTransaction(d) /\ InTransaction(e) => Changed(d) \cap Changed(e) = {}

JobMemory == JobsTypeOK /\ (\A d \in Jobs : JobHeld(d)) /\ OrdersAreLocked

IInv == TypeOK /\ Tables /\ Memory /\ JobMemory

------------------------------------------------------------------------------
(* Rows.                                                                    *)

\* The constants have the types that their assumptions say.
LEMMA ConstantTypes ==
  /\ NoStore \notin Stores /\ NoPayment \notin PaymentIds /\ NoOrderId \notin Orders
  /\ MaxRetries \in Nat \ {0} /\ BatchInterval \in Nat \ {0}
  /\ \A r \in Requests : \A n \in 1..MaxRetries : <<r, n>> \in PaymentIds
  /\ \A f \in Foods : StoreOf[f] \in Stores /\ PricePerPlate[f] \in Nat
  /\ \A s \in Stores : OwnerOf[s] \in Vendors
  BY NullAssumption, NoOrderIdAssumption, RetryAssumption, BatchAssumption, FoodAssumption,
     OwnerAssumption

\* The columns of a row.
LEMMA RowTypes ==
  ASSUME NEW row \in OrderRow
  PROVE  /\ row.version \in Nat /\ row.store \in Stores \cup {NoStore}
         /\ row.totalBill \in Nat /\ row.paymentId \in PaymentIds \cup {NoPayment}
         /\ row.deliveryBatch \in Nat /\ row.delivered \in BOOLEAN
         /\ row = [version |-> row.version, store |-> row.store, totalBill |-> row.totalBill,
                   paymentId |-> row.paymentId, deliveryBatch |-> row.deliveryBatch,
                   delivered |-> row.delivered]
         /\ DOMAIN row =
              {"version", "store", "totalBill", "paymentId", "deliveryBatch", "delivered"}
  BY DEF OrderRow

\* Two rows with the same columns are the same.
LEMMA SameRow ==
  ASSUME NEW a \in OrderRow, NEW b \in OrderRow,
         a.version = b.version, a.store = b.store, a.totalBill = b.totalBill,
         a.paymentId = b.paymentId, a.deliveryBatch = b.deliveryBatch, a.delivered = b.delivered
  PROVE  a = b
  BY DEF OrderRow

\* What the version of a row says of its columns.
LEMMA LegalRowFacts ==
  ASSUME NEW row \in LegalRow
  PROVE  /\ row \in OrderRow /\ row.version \in 0..3
         /\ row.version = 0 => row = NoOrder
         /\ row.version >= 1 => row.store \in Stores
         /\ row.version >= 2 <=> row.paymentId # NoPayment
         /\ row.version >= 2 <=> row.deliveryBatch # 0
         /\ row.version = 3 <=> row.delivered
<1>1. ASSUME row.version = 0 PROVE row = NoOrder
  <2>1. NoOrder \in OrderRow /\ NoOrder.version = 0 /\ NoOrder.store = NoStore
        /\ NoOrder.totalBill = 0 /\ NoOrder.paymentId = NoPayment
        /\ NoOrder.deliveryBatch = 0 /\ NoOrder.delivered = FALSE
    BY DEF NoOrder, OrderRow
  <2>2. row \in OrderRow /\ row.store = NoStore /\ row.totalBill = 0
        /\ row.paymentId = NoPayment /\ row.deliveryBatch = 0 /\ row.delivered = FALSE
    BY <1>1, RowTypes DEF LegalRow, hasBillPaid, hasBeenDelivered
  <2> HIDE DEF NoOrder
  <2> QED BY <1>1, <2>1, <2>2, SameRow
<1> QED BY <1>1, RowTypes DEF LegalRow, hasBillPaid, hasBeenDelivered

\* The row that is not in the table.
LEMMA NoOrderFacts ==
  /\ NoOrder \in LegalRow /\ NoOrder.version = 0 /\ NoOrder.store = NoStore
  /\ NoOrder.totalBill = 0 /\ NoOrder.paymentId = NoPayment
  /\ NoOrder.deliveryBatch = 0 /\ NoOrder.delivered = FALSE
  BY ConstantTypes DEF NoOrder, OrderRow, LegalRow, hasBillPaid, hasBeenDelivered

\* Growing is an order on legal rows.
LEMMA GrowsReflexive == ASSUME NEW row \in LegalRow PROVE GrowsInto(row, row)
  BY LegalRowFacts DEF GrowsInto

LEMMA GrowsTransitive ==
  ASSUME NEW a \in LegalRow, NEW b \in LegalRow, NEW c \in LegalRow,
         GrowsInto(a, b), GrowsInto(b, c)
  PROVE  GrowsInto(a, c)
  BY LegalRowFacts DEF GrowsInto

\* What a payment makes of a created order, whoever has created it.
LEMMA PaidRow ==
  ASSUME NEW row \in LegalRow, row.version = 1, NEW id \in PaymentIds, now \in Nat
  PROVE  LET paid == OrderBillPaid(row, id)
         IN  /\ paid \in LegalRow /\ paid.version = 2 /\ paid.paymentId = id
             /\ paid.store = row.store /\ paid.totalBill = row.totalBill
<1> DEFINE paid == OrderBillPaid(row, id)
<1>1. row \in OrderRow
  BY LegalRowFacts
<1>2. nextVersion(row) = 2
  BY DEF nextVersion
<1>3. nextDeliveryBatch \in Nat \ {0}
  BY ConstantTypes DEF nextDeliveryBatch
<1>4. paid = [version |-> 2, store |-> row.store, totalBill |-> row.totalBill, paymentId |-> id,
              deliveryBatch |-> nextDeliveryBatch, delivered |-> row.delivered]
  <2> DEFINE one == [row EXCEPT !.version = 2]
             two == [one EXCEPT !.paymentId = id]
  <2>1. one = [version |-> 2, store |-> row.store, totalBill |-> row.totalBill,
               paymentId |-> row.paymentId, deliveryBatch |-> row.deliveryBatch,
               delivered |-> row.delivered]
    BY <1>1 DEF OrderRow
  <2>2. paid = [two EXCEPT !.deliveryBatch = nextDeliveryBatch]
    BY <1>2 DEF OrderBillPaid
  <2> HIDE DEF one
  <2>3. two = [version |-> 2, store |-> row.store, totalBill |-> row.totalBill,
               paymentId |-> id, deliveryBatch |-> row.deliveryBatch, delivered |-> row.delivered]
    BY <2>1
  <2> HIDE DEF two
  <2> QED BY <2>2, <2>3
<1>5. row.store \in Stores /\ row.totalBill \in Nat /\ row.delivered = FALSE
  BY <1>1, LegalRowFacts, RowTypes
<1> HIDE DEF paid
<1>6. paid \in OrderRow
  BY <1>3, <1>4, <1>5 DEF OrderRow
<1>7. paid.version = 2 /\ paid.paymentId = id /\ paid.store = row.store
      /\ paid.totalBill = row.totalBill /\ paid.deliveryBatch # 0 /\ paid.delivered = FALSE
  BY <1>3, <1>4, <1>5
<1>8. paid \in LegalRow
  BY <1>5, <1>6, <1>7, ConstantTypes DEF LegalRow, hasBillPaid, hasBeenDelivered
<1> QED BY <1>7, <1>8 DEF paid

\* What delivering makes of a paid order.
LEMMA DeliveredRow ==
  ASSUME NEW row \in LegalRow, row.version = 2
  PROVE  LET new == OrderDelivered(row)
         IN  new \in LegalRow /\ DeliveredInto(row, new)
             /\ new.deliveryBatch = row.deliveryBatch
<1> DEFINE new == OrderDelivered(row)
<1>1. row \in OrderRow
  BY LegalRowFacts
<1>2. nextVersion(row) = 3
  BY DEF nextVersion
<1>4. new = [version |-> 3, store |-> row.store, totalBill |-> row.totalBill,
             paymentId |-> row.paymentId, deliveryBatch |-> row.deliveryBatch, delivered |-> TRUE]
  <2> DEFINE one == [row EXCEPT !.version = 3]
  <2>1. one = [version |-> 3, store |-> row.store, totalBill |-> row.totalBill,
               paymentId |-> row.paymentId, deliveryBatch |-> row.deliveryBatch,
               delivered |-> row.delivered]
    BY <1>1 DEF OrderRow
  <2>2. new = [one EXCEPT !.delivered = TRUE]
    BY <1>2 DEF OrderDelivered
  <2> HIDE DEF one
  <2> QED BY <2>1, <2>2
<1>5. row.store \in Stores /\ row.totalBill \in Nat /\ row.paymentId \in PaymentIds
      /\ row.deliveryBatch \in Nat /\ row.deliveryBatch # 0 /\ row.paymentId # NoPayment
  BY <1>1, LegalRowFacts, RowTypes
<1> HIDE DEF new
<1>6. new \in OrderRow
  BY <1>4, <1>5 DEF OrderRow
<1>7. new.version = 3 /\ new.paymentId = row.paymentId /\ new.store = row.store
      /\ new.totalBill = row.totalBill /\ new.deliveryBatch = row.deliveryBatch
      /\ new.delivered = TRUE
  BY <1>4
<1>8. new \in LegalRow
  BY <1>5, <1>6, <1>7, ConstantTypes DEF LegalRow, hasBillPaid, hasBeenDelivered
<1> QED BY <1>7, <1>8 DEF new, DeliveredInto, GrowsInto

\* An UPDATE over the row that was read leaves the row in memory.
LEMMA MergedOverSame ==
  ASSUME NEW mine \in OrderRow, NEW row \in OrderRow
  PROVE  MergedOrder(mine, row, row) = mine
  BY DEF MergedOrder, Written, OrderRow

------------------------------------------------------------------------------
(* Baskets.                                                                 *)

\* Sums of prices over the foods of a basket, and over its items, are sums of
\* functions.
LEMMA BillIsTotal ==
  ASSUME NEW basket, IsFiniteSet(findManyById(basket))
  PROVE  calculateTotal(basket) = Total(PricePerPlate, findManyById(basket))
  BY DEF calculateTotal, Total

\* The bill of a basket is a natural number.
LEMMA BillType ==
  ASSUME NEW basket \in Baskets
  PROVE  IsFiniteSet(findManyById(basket)) /\ calculateTotal(basket) \in Nat
<1>1. Len(basket) \in Nat /\ DOMAIN basket = 1..Len(basket)
  BY BasketAssumption
<1>2. IsFiniteSet(1..Len(basket))
  BY <1>1, FS_Interval
<1> DEFINE foods == {basket[i] : i \in DOMAIN basket}
<1>3. IsFiniteSet(foods)
  <2>1. [i \in 1..Len(basket) |-> basket[i]] \in Surjection(1..Len(basket), foods)
    BY <1>1 DEF Surjection
  <2> QED BY <1>2, <2>1, FS_Surjection
<1>4. IsFiniteSet(findManyById(basket)) /\ findManyById(basket) \subseteq Foods
  BY <1>3, FS_Subset DEF findManyById
<1> QED BY <1>4, BillIsTotal, TotalNat, ConstantTypes

\* A basket that is not refused names each of its foods once, and all are cooked by
\* one store: the bill counts every item, and every item is of that store.
LEMMA AcceptedBasketFits ==
  ASSUME NEW basket \in Baskets, ~SomeNotFound(basket),
         NEW shop \in findDistinctStore(basket), Cardinality(findDistinctStore(basket)) = 1
  PROVE  Fits(basket, OrderCreated(shop, calculateTotal(basket)))
         /\ OrderCreated(shop, calculateTotal(basket)) \in LegalRow
         /\ OrderCreated(shop, calculateTotal(basket)).version = 1
<1> DEFINE n == Len(basket)
           foods == findManyById(basket)
           named == {basket[i] : i \in 1..n}
           item == [i \in 1..n |-> basket[i]]
           price == [i \in 1..n |-> PricePerPlate[basket[i]]]
           row == OrderCreated(shop, calculateTotal(basket))
<1>1. n \in Nat /\ DOMAIN basket = 1..n /\ IsFiniteSet(1..n) /\ Cardinality(1..n) = n
  <2>1. n \in Nat /\ DOMAIN basket = 1..n
    BY BasketAssumption
  <2>2. IsFiniteSet(1..n) /\ Cardinality(1..n) = IF 1 > n THEN 0 ELSE n - 1 + 1
    BY <2>1, FS_Interval
  <2> QED BY <2>1, <2>2
<1>2. item \in Surjection(1..n, named)
  BY DEF Surjection
<1>3. IsFiniteSet(named) /\ Cardinality(named) <= n
      /\ (Cardinality(named) = n <=> item \in Injection(1..n, named))
  <2> HIDE DEF item, named
  <2> QED BY <1>1, <1>2, FS_Surjection
<1>4. foods \subseteq named /\ Cardinality(foods) = n
  BY <1>1 DEF SomeNotFound, findManyById
<1>5. Cardinality(named) = n /\ foods = named
  BY <1>1, <1>3, <1>4, FS_Subset, FS_CardinalityType
<1>6. item \in Bijection(1..n, foods)
  BY <1>2, <1>3, <1>5 DEF Bijection
<1>7. \A i \in 1..n : basket[i] \in Foods
  BY <1>5 DEF findManyById
<1>8. IntsOn(price, 1..n) /\ \A i \in 1..n : PricePerPlate[item[i]] = price[i]
  BY <1>7, ConstantTypes DEF IntsOn
<1>9. Total(PricePerPlate, foods) = Total(price, 1..n)
  <2> HIDE DEF item, price, foods
  <2> QED BY <1>1, <1>6, <1>8, TotalRenamed
<1>10. MapThenSumSet(LAMBDA i : PricePerPlate[basket[i]], DOMAIN basket) = Total(price, 1..n)
  <2> DEFINE Recursion(h) ==
        h = [s \in SUBSET (1..n) |->
               IF s = {} THEN 0 ELSE PricePerPlate[basket[Chosen(s)]] + h[s \ {Chosen(s)}]]
      h == CHOOSE i : Recursion(i)
  <2>1. MapThenSumSet(LAMBDA i : PricePerPlate[basket[i]], DOMAIN basket) = h[1..n]
    BY <1>1 DEF MapThenSumSet, MapThenFoldSet, Chosen
  <2>2. (\E i : Recursion(i)) => Recursion(h)
    <3> HIDE DEF Recursion
    <3> QED OBVIOUS
  <2>3. \A s \in SUBSET (1..n) : s # {} => PricePerPlate[basket[Chosen(s)]] = price[Chosen(s)]
    <3>1. \A s \in SUBSET (1..n) : s # {} => Chosen(s) \in 1..n
      BY DEF Chosen
    <3> QED BY <3>1
  <2> HIDE DEF h, price
  <2>4. ASSUME NEW g,
               g = [s \in SUBSET (1..n) |->
                      IF s = {} THEN 0 ELSE price[Chosen(s)] + g[s \ {Chosen(s)}]]
        PROVE  Recursion(g)
    BY <2>3, <2>4
  <2>5. ASSUME Recursion(h)
        PROVE  h = [s \in SUBSET (1..n) |->
                      IF s = {} THEN 0 ELSE price[Chosen(s)] + h[s \ {Chosen(s)}]]
    BY <2>3, <2>5
  <2> HIDE DEF Recursion
  <2>6. Obeys(h, price, SUBSET (1..n))
    BY <1>1, <1>8, <2>2, <2>4, <2>5, ChosenObeys
  <2> QED BY <1>1, <1>8, <2>1, <2>6, TotalObeys
<1>11. \A i \in 1..n : StoreOf[basket[i]] = shop
  <2>1. \A i \in 1..n : StoreOf[basket[i]] \in findDistinctStore(basket)
    BY <1>5 DEF findDistinctStore
  <2>2. IsFiniteSet(findDistinctStore(basket))
    <3>1. [food \in foods |-> StoreOf[food]] \in Surjection(foods, findDistinctStore(basket))
      BY DEF Surjection, findDistinctStore
    <3> QED BY <3>1, BillType, FS_Surjection
  <2> QED BY <2>1, <2>2, FS_Singleton
<1>12. row.store = shop /\ row.totalBill = calculateTotal(basket) /\ row.version = 1
       /\ row.paymentId = NoPayment /\ row.deliveryBatch = 0 /\ row.delivered = FALSE
       /\ row \in OrderRow
  <2>1. shop \in Stores
    BY <1>7, ConstantTypes DEF findDistinctStore, findManyById
  <2> DEFINE one == [NoOrder EXCEPT !.version = 1]
             two == [one EXCEPT !.store = shop]
  <2>2. NoOrder \in OrderRow /\ NoOrder.store = NoStore /\ NoOrder.totalBill = 0
        /\ NoOrder.paymentId = NoPayment /\ NoOrder.deliveryBatch = 0
        /\ NoOrder.delivered = FALSE
    BY NoOrderFacts, LegalRowFacts
  <2>3. row = [two EXCEPT !.totalBill = calculateTotal(basket)]
    BY DEF OrderCreated
  <2>4. one = [version |-> 1, store |-> NoOrder.store, totalBill |-> NoOrder.totalBill,
               paymentId |-> NoOrder.paymentId, deliveryBatch |-> NoOrder.deliveryBatch,
               delivered |-> NoOrder.delivered]
    BY <2>2 DEF OrderRow
  <2> HIDE DEF one
  <2>5. two = [version |-> 1, store |-> shop, totalBill |-> NoOrder.totalBill,
               paymentId |-> NoOrder.paymentId, deliveryBatch |-> NoOrder.deliveryBatch,
               delivered |-> NoOrder.delivered]
    BY <2>4
  <2> HIDE DEF two
  <2>6. row = [version |-> 1, store |-> shop, totalBill |-> calculateTotal(basket),
               paymentId |-> NoOrder.paymentId, deliveryBatch |-> NoOrder.deliveryBatch,
               delivered |-> NoOrder.delivered]
    BY <2>3, <2>5
  <2> HIDE DEF row
  <2> QED BY <2>1, <2>2, <2>6, BillType DEF OrderRow
<1>13. shop \in Stores
  BY <1>7, ConstantTypes DEF findDistinctStore, findManyById
<1> HIDE DEF row
<1>14. row \in LegalRow
  BY <1>12, <1>13, ConstantTypes DEF LegalRow, hasBillPaid, hasBeenDelivered
<1>15. Fits(basket, row)
  BY <1>1, <1>9, <1>10, <1>11, <1>12, BillIsTotal, BillType DEF Fits
<1> QED BY <1>12, <1>14, <1>15 DEF row

------------------------------------------------------------------------------
(* What growing rows leave true.                                            *)

\* The log says how far a row has got.
LEMMA LoggedVersions ==
  ASSUME OrderTypeOK, Tables, NEW o \in Orders, NEW n \in Nat
  PROVE  VersionTaken(orderEvents, o, n) <=> n \in 1..order[o].version
  BY DEF OrderTypeOK, Tables, LogIsComplete, VersionTaken

\* The log, told version by version.
LEMMA HistoryFromLog == ASSUME OrderTypeOK, Tables PROVE OrderHistoryIsLegal
<1> SUFFICES ASSUME NEW o \in Orders
             PROVE  {<<e.version, e.type>> : e \in {f \in orderEvents : f.aggregateId = o}} =
                      (IF isNew(order[o]) THEN {} ELSE {<<1, "OrderCreated">>})
                        \cup (IF hasBillPaid(order[o]) THEN {<<2, "OrderBillPaid">>} ELSE {})
                        \cup (IF hasBeenDelivered(order[o]) THEN {<<3, "OrderDelivered">>} ELSE {})
  BY DEF OrderHistoryIsLegal
<1> DEFINE told == {<<e.version, e.type>> : e \in {f \in orderEvents : f.aggregateId = o}}
           v == order[o].version
<1>1. v \in 0..3 /\ (isNew(order[o]) <=> v = 0) /\ (hasBillPaid(order[o]) <=> v >= 2)
      /\ (hasBeenDelivered(order[o]) <=> v = 3)
  BY LegalRowFacts DEF Tables, isNew, hasBillPaid, hasBeenDelivered
<1>2. \A e \in orderEvents : e.aggregateId = o => e.version \in 1..v /\ e.type = EventTypeOf(e.version)
  BY DEF Tables, LogIsComplete
<1>3. ASSUME NEW n \in 1..v PROVE <<n, EventTypeOf(n)>> \in told
  <2>1. PICK e \in orderEvents : e.aggregateId = o /\ e.version = n
    BY <1>3 DEF Tables, LogIsComplete, VersionTaken
  <2> QED BY <2>1, <1>2
<1>4. \A t \in told : \E n \in 1..v : t = <<n, EventTypeOf(n)>>
  BY <1>2
<1>5. EventTypeOf(1) = "OrderCreated" /\ EventTypeOf(2) = "OrderBillPaid"
      /\ EventTypeOf(3) = "OrderDelivered"
  BY DEF EventTypeOf
<1> HIDE DEF told, v
<1>6. told = {<<n, EventTypeOf(n)>> : n \in 1..v}
  BY <1>3, <1>4
<1>7. 1..v = (IF v = 0 THEN {} ELSE {1}) \cup (IF v >= 2 THEN {2} ELSE {})
               \cup (IF v = 3 THEN {3} ELSE {})
  BY <1>1
<1>8. told = (IF v = 0 THEN {} ELSE {<<1, "OrderCreated">>})
               \cup (IF v >= 2 THEN {<<2, "OrderBillPaid">>} ELSE {})
               \cup (IF v = 3 THEN {<<3, "OrderDelivered">>} ELSE {})
  BY <1>1, <1>5, <1>6, <1>7
<1> QED BY <1>1, <1>8 DEF told

\* A request that others overtake holds what it held.
LEMMA HeldGrows ==
  ASSUME NEW q \in Requests, Held(q), pc'[q] = pc[q], work'[q] = work[q],
         charges \subseteq charges',
         \A o \in Orders : order[o] \in LegalRow /\ order'[o] \in LegalRow
                           /\ GrowsInto(order[o], order'[o]),
         Placing(q) => /\ order'[work[q].order] = order[work[q].order]
                       /\ \A p \in Requests \ {q} : work'[p].order # work[q].order
  PROVE  Held(q)'
<1> DEFINE o == work[q].order
<1>1. PlacingHeld(q)'
  BY DEF Held, PlacingHeld, Placing
<1>2. PlacedHeld(q)'
  <2> SUFFICES ASSUME pc[q] = "ok", work[q].op = "orderFood"
               PROVE  o \in Orders /\ ~isNew(order'[o]) /\ Fits(work[q].basket, order'[o])
    BY DEF PlacedHeld
  <2>1. o \in Orders /\ ~isNew(order[o]) /\ Fits(work[q].basket, order[o])
    BY DEF Held, PlacedHeld
  <2>2. order'[o].store = order[o].store /\ order'[o].totalBill = order[o].totalBill
        /\ order'[o].version >= 1
    BY <2>1, LegalRowFacts DEF GrowsInto, isNew
  <2> QED BY <2>1, <2>2 DEF Fits, isNew
<1>3. PayHeld(q)'
  BY GrowsTransitive DEF Held, PayHeld
<1>4. SaveHeld(q)'
  <2> SUFFICES ASSUME SavingPayment(q)
               PROVE  SaveHeld(q)'
    BY DEF SaveHeld, SavingPayment
  <2>1. o \in Orders /\ order[o].version >= 1 /\ order[o].version \in Nat
    BY LegalRowFacts DEF Held, SaveHeld, isNew
  <2>2. order'[o].store = order[o].store /\ order'[o].totalBill = order[o].totalBill
        /\ order'[o].version >= 1 /\ (order'[o].version = 1 => order'[o] = order[o])
    BY <2>1, LegalRowFacts DEF GrowsInto
  <2> QED BY <2>1, <2>2 DEF Held, SaveHeld, SavingPayment, ChargeOf, PaymentId, isNew
<1>5. PaidHeld(q)'
  <2> SUFFICES ASSUME HasPaid(q)
               PROVE  PaidHeld(q)'
    BY DEF PaidHeld, HasPaid
  <2>1. o \in Orders /\ order[o].version >= 2
    BY DEF Held, PaidHeld
  <2>2. order'[o].version >= 2 /\ order'[o].paymentId = order[o].paymentId
    BY <2>1, LegalRowFacts DEF GrowsInto
  <2> QED BY <2>1, <2>2 DEF Held, PaidHeld, HasPaid, ChargeOf, PaymentId
<1> QED BY <1>1, <1>2, <1>3, <1>4, <1>5 DEF Held

\* So does a job, as long as nobody writes the rows of its transaction.
LEMMA BatchGrows ==
  ASSUME NEW d \in Jobs, NEW o \in DOMAIN batch[d], BatchHeld(d, o), o \in Orders,
         batch'[d] = batch[d], seen'[d] = seen[d], job'[d] = job[d],
         now \in Nat, now' \in Nat, now' >= now,
         order[o] \in LegalRow, order'[o] \in LegalRow, GrowsInto(order[o], order'[o]),
         InTransaction(d) /\ o \in Changed(d) => order'[o] = order[o]
  PROVE  BatchHeld(d, o)'
<1> DEFINE mine == batch[d][o]
<1>1. mine \in LegalRow /\ mine.version = 3 /\ mine.deliveryBatch <= now
      /\ (order[o] = mine \/ DeliveredInto(order[o], mine))
      /\ (o \in DOMAIN seen[d] =>
            /\ seen[d][o] \in LegalRow
            /\ (seen[d][o] = mine /\ order[o] = mine) \/ DeliveredInto(seen[d][o], mine)
            /\ InTransaction(d) /\ mine # seen[d][o] => order[o] = seen[d][o])
  BY DEF BatchHeld
<1>2. mine.deliveryBatch \in Nat /\ mine.deliveryBatch <= now'
  BY <1>1, LegalRowFacts, RowTypes
<1>3. order[o] = mine => order'[o] = mine
  BY <1>1, LegalRowFacts DEF GrowsInto
<1>4. ASSUME DeliveredInto(order[o], mine) PROVE order'[o] = mine \/ DeliveredInto(order'[o], mine)
  <2>1. order'[o].version = 2 \/ order'[o].version = 3
    BY <1>4, LegalRowFacts DEF DeliveredInto, GrowsInto
  <2>2. CASE order'[o].version = 2
    BY <1>4, <2>2 DEF DeliveredInto, GrowsInto
  <2>3. CASE order'[o].version = 3
    <3>1. order'[o].store = mine.store /\ order'[o].totalBill = mine.totalBill
          /\ order'[o].paymentId = mine.paymentId /\ order'[o].deliveryBatch = mine.deliveryBatch
      BY <1>4 DEF DeliveredInto, GrowsInto
    <3>2. order'[o].delivered = TRUE /\ mine.delivered = TRUE
      BY <1>1, <2>3, LegalRowFacts, RowTypes
    <3>3. mine \in OrderRow /\ order'[o] \in OrderRow
      BY <1>1, LegalRowFacts
    <3> QED BY <1>1, <2>3, <3>1, <3>2, <3>3, SameRow
  <2> QED BY <2>1, <2>2, <2>3
<1>5. o \in DOMAIN seen[d] /\ mine # seen[d][o] => o \in Changed(d)
  BY DEF Changed
<1> QED BY <1>1, <1>2, <1>3, <1>4, <1>5 DEF BatchHeld, InTransaction

------------------------------------------------------------------------------
(* Requests.                                                                *)

Work ==
  [op : {"NONE", "orderFood", "makeOrderPayment"}, order : Orders \cup {NoOrderId},
   basket : Baskets \cup {<<>>}, card : BOOLEAN, retries : 0..MaxRetries,
   entity : OrderRow, seen : OrderRow]

Labels == InFlight \cup {"idle", "rejected", "ok", "failed"}

\* A request that goes on with something in its hands keeps the types.
LEMMA WorkTypeOK ==
  ASSUME OrderingTypeOK, NEW r \in Requests, NEW w \in Work, NEW label \in Labels,
         work' = [work EXCEPT ![r] = w], Goto(r, label),
         charges' \in SUBSET [order : Orders, paymentId : PaymentIds]
  PROVE  /\ OrderingTypeOK'
         /\ work'[r] = w /\ pc'[r] = label
         /\ \A q \in Requests \ {r} : pc'[q] = pc[q] /\ work'[q] = work[q]
  BY DEF OrderingTypeOK, Work, Labels, Goto

\* As does one that only goes on.
LEMMA GotoTypeOK ==
  ASSUME OrderingTypeOK, NEW r \in Requests, NEW label \in Labels, UNCHANGED work,
         Goto(r, label), charges' \in SUBSET [order : Orders, paymentId : PaymentIds]
  PROVE  /\ OrderingTypeOK'
         /\ work'[r] = work[r] /\ pc'[r] = label
         /\ \A q \in Requests \ {r} : pc'[q] = pc[q] /\ work'[q] = work[q]
  BY DEF OrderingTypeOK, Labels, Goto

\* The types of what is in a request's hands.
LEMMA WorkTypes ==
  ASSUME OrderingTypeOK, NEW r \in Requests
  PROVE  /\ work[r] \in Work /\ pc[r] \in Labels
         /\ work[r].op \in {"NONE", "orderFood", "makeOrderPayment"}
         /\ work[r].order \in Orders \cup {NoOrderId} /\ work[r].card \in BOOLEAN
         /\ work[r].basket \in Baskets \cup {<<>>} /\ work[r].retries \in 0..MaxRetries
         /\ work[r].entity \in OrderRow /\ work[r].seen \in OrderRow
  BY DEF OrderingTypeOK, Work, Labels

\* What is in a request's hands before it has begun.
LEMMA NoWorkFacts ==
  /\ NoWork \in Work /\ NoWork.order = NoOrderId /\ NoWork.entity = NoOrder
  /\ NoWork.seen = NoOrder
<1>1. NoOrder \in OrderRow
  BY NoOrderFacts, LegalRowFacts
<1> QED BY <1>1, ConstantTypes DEF NoWork, Work

\* Jobs do not notice what happens to orders that are not in their batches.
LEMMA JobsUndisturbed ==
  ASSUME IInv, UNCHANGED deliveryVars, now' \in Nat, now' >= now,
         \A d \in Jobs : \A o \in DOMAIN batch[d] : order'[o] = order[o]
  PROVE  JobMemory'
<1>1. batch' = batch /\ seen' = seen /\ saga' = saga /\ credited' = credited /\ job' = job
  BY DEF deliveryVars
<1>2. JobsTypeOK'
  BY <1>1 DEF IInv, JobMemory, JobsTypeOK
<1>3. \A d \in Jobs : JobDomains(d)'
  BY <1>1 DEF IInv, JobMemory, JobHeld, JobDomains, InTransaction, Changed
<1>4. ASSUME NEW d \in Jobs, NEW o \in DOMAIN batch[d] PROVE BatchHeld(d, o)'
  <2>1. BatchHeld(d, o) /\ o \in Orders
    BY DEF IInv, JobMemory, JobHeld, TypeOK, DeliveryTypeOK
  <2>2. order[o] \in LegalRow /\ GrowsInto(order[o], order[o]) /\ now \in Nat
    BY <2>1, GrowsReflexive DEF IInv, Tables, TypeOK, OrderTypeOK
  <2> QED BY <1>1, <2>1, <2>2, BatchGrows
<1>5. OrdersAreLocked'
  BY <1>1 DEF IInv, JobMemory, OrdersAreLocked, InTransaction, Changed
<1> QED BY <1>1, <1>2, <1>3, <1>4, <1>5 DEF JobMemory, JobHeld

\* A step of a request that writes no table keeps the invariant if it keeps what
\* is said of this request and of charges, and takes nobody's new order.
LEMMA RequestIInv ==
  ASSUME IInv, NEW r \in Requests, UNCHANGED <<order, orderEvents, now, deliveryVars>>,
         OrderingTypeOK', charges \subseteq charges',
         \A q \in Requests \ {r} : pc'[q] = pc[q] /\ work'[q] = work[q],
         \A q \in Requests \ {r} : Placing(q) => work'[r].order # work[q].order,
         pc[r] # "ok", Held(r)', ChargesAreOfRequests'
  PROVE  IInv'
<1>1. TypeOK'
  BY DEF IInv, TypeOK, OrderTypeOK, DeliveryTypeOK, deliveryVars
<1>2. Tables'
  BY DEF IInv, Tables, LogIsComplete, VersionTaken, DeliveredIsDue
<1>3. JobMemory'
  <2>1. now \in Nat
    BY DEF IInv, TypeOK, OrderTypeOK
  <2> QED BY <2>1, JobsUndisturbed
<1>4. \A o \in Orders : order[o] \in LegalRow /\ order'[o] \in LegalRow
                        /\ GrowsInto(order[o], order'[o])
  BY GrowsReflexive DEF IInv, Tables
<1>5. ASSUME NEW q \in Requests \ {r} PROVE Held(q)'
  <2>1. Held(q)
    BY DEF IInv, Memory
  <2>2. Placing(q) => \A p \in Requests \ {q} : work'[p].order # work[q].order
    BY <2>1 DEF Held, PlacingHeld, Placing
  <2> QED BY <1>4, <2>1, <2>2, HeldGrows
<1>6. PaidByRequests'
  BY DEF IInv, Memory, PaidByRequests, HasPaid
<1> QED BY <1>1, <1>2, <1>3, <1>5, <1>6 DEF IInv, Memory

\* The charges of a request that is not at its payment stay its own.
LEMMA ChargesStay ==
  ASSUME ChargesAreOfRequests, NEW r \in Requests, UNCHANGED charges,
         \A q \in Requests \ {r} : pc'[q] = pc[q] /\ work'[q] = work[q],
         \/ pc[r] \in {"idle", "pay"}
         \/ pc'[r] \notin {"idle", "pay"} /\ work'[r].order = work[r].order
            /\ work'[r].retries = work[r].retries
  PROVE  ChargesAreOfRequests'
<1> SUFFICES ASSUME NEW c \in charges
             PROVE  \E q \in Requests : pc'[q] \notin {"idle", "pay"} /\ c = ChargeOf(q)'
  BY DEF ChargesAreOfRequests
<1>1. PICK q \in Requests : pc[q] \notin {"idle", "pay"} /\ c = ChargeOf(q)
  BY DEF ChargesAreOfRequests
<1> QED BY <1>1 DEF ChargeOf, PaymentId

\* An answer that is not "ok" leaves nothing to be said of the request.
LEMMA AnswerIInv ==
  ASSUME IInv, NEW r \in Requests, pc[r] # "ok", NEW label \in {"rejected", "failed"},
         Answer(r, label), UNCHANGED <<now, deliveryVars>>
  PROVE  IInv'
<1>1. charges' \in SUBSET [order : Orders, paymentId : PaymentIds] /\ label \in Labels
  BY DEF Answer, IInv, TypeOK, OrderingTypeOK, Labels
<1>2. /\ OrderingTypeOK' /\ work'[r] = work[r] /\ pc'[r] = label
      /\ \A q \in Requests \ {r} : pc'[q] = pc[q] /\ work'[q] = work[q]
  BY <1>1, GotoTypeOK DEF Answer, IInv, TypeOK
<1>3. Held(r)'
  BY <1>2 DEF Held, PlacingHeld, PlacedHeld, PayHeld, SaveHeld, PaidHeld, Placing,
              SavingPayment, HasPaid
<1>4. ChargesAreOfRequests'
  BY <1>2, ChargesStay DEF Answer, IInv, Memory
<1>5. \A q \in Requests \ {r} : Placing(q) => work'[r].order # work[q].order
  BY <1>2 DEF IInv, Memory, Held, PlacingHeld
<1> QED BY <1>2, <1>3, <1>4, <1>5, RequestIInv DEF Answer

\* Ordering food.
LEMMA orderFoodIInv ==
  ASSUME IInv, NEW r \in Requests, NEW basket \in Baskets, NEW o \in Orders,
         orderFood(r, basket, o), UNCHANGED <<now, deliveryVars>>
  PROVE  IInv'
<1>1. pc[r] = "idle" /\ isNew(order[o]) /\ \A q \in Requests : work[q].order # o
  BY DEF orderFood
<1>2. CASE Answer(r, "failed") \/ Answer(r, "rejected")
  BY <1>1, <1>2, AnswerIInv
<1>3. ASSUME ~SomeNotFound(basket), Cardinality(findDistinctStore(basket)) = 1,
             NEW shop \in findDistinctStore(basket),
             work' = [work EXCEPT ![r] =
                        [NoWork EXCEPT !.op = "orderFood", !.order = o, !.basket = basket,
                           !.entity = OrderCreated(shop, calculateTotal(basket))]],
             Goto(r, "write"), UNCHANGED <<order, orderEvents, charges>>
      PROVE  IInv'
  <2> DEFINE entity == OrderCreated(shop, calculateTotal(basket))
             a == [NoWork EXCEPT !.op = "orderFood"]
             b == [a EXCEPT !.order = o]
             c == [b EXCEPT !.basket = basket]
             w == [c EXCEPT !.entity = entity]
  <2>1. entity \in LegalRow /\ entity.version = 1 /\ Fits(basket, entity)
    BY <1>3, AcceptedBasketFits
  <2>2. entity \in OrderRow /\ NoOrder \in OrderRow
    BY <2>1, NoOrderFacts, LegalRowFacts
  <2>3. work' = [work EXCEPT ![r] = w]
    BY <1>3
  <2> HIDE DEF entity
  <2>4. a = [op |-> "orderFood", order |-> NoWork.order, basket |-> NoWork.basket,
             card |-> NoWork.card, retries |-> NoWork.retries, entity |-> NoWork.entity,
             seen |-> NoWork.seen]
    BY NoWorkFacts DEF Work
  <2> HIDE DEF a
  <2>5. b = [op |-> "orderFood", order |-> o, basket |-> NoWork.basket, card |-> NoWork.card,
             retries |-> NoWork.retries, entity |-> NoWork.entity, seen |-> NoWork.seen]
    BY <2>4
  <2> HIDE DEF b
  <2>6. c = [op |-> "orderFood", order |-> o, basket |-> basket, card |-> NoWork.card,
             retries |-> NoWork.retries, entity |-> NoWork.entity, seen |-> NoWork.seen]
    BY <2>5
  <2> HIDE DEF c
  <2>7. w = [op |-> "orderFood", order |-> o, basket |-> basket, card |-> NoWork.card,
             retries |-> NoWork.retries, entity |-> entity, seen |-> NoWork.seen]
    BY <2>6
  <2> HIDE DEF w
  <2>8. w \in Work /\ w.op = "orderFood" /\ w.order = o /\ w.basket = basket
        /\ w.entity = entity /\ w.seen = NoOrder
    BY <2>2, <2>7, NoWorkFacts DEF Work
  <2>9. /\ OrderingTypeOK' /\ work'[r] = w /\ pc'[r] = "write"
        /\ \A q \in Requests \ {r} : pc'[q] = pc[q] /\ work'[q] = work[q]
    <3>1. charges' \in SUBSET [order : Orders, paymentId : PaymentIds] /\ "write" \in Labels
      BY <1>3 DEF IInv, TypeOK, OrderingTypeOK, Labels, InFlight
    <3>2. OrderingTypeOK /\ Goto(r, "write") /\ w \in Work
      BY <1>3, <2>8 DEF IInv, TypeOK
    <3> QED BY <2>3, <3>1, <3>2, WorkTypeOK
  <2>10. Held(r)'
    <3>1. order' = order /\ \A q \in Requests \ {r} : work'[q].order # o
      BY <1>1, <1>3, <2>9
    <3>2. PlacingHeld(r)'
      <4>1. work'[r].order = o /\ work'[r].seen = NoOrder /\ work'[r].entity = entity
            /\ work'[r].basket = basket
        BY <2>8, <2>9
      <4>2. isNew(order'[work'[r].order])
        BY <1>1, <3>1, <4>1
      <4>3. Fits(work'[r].basket, work'[r].entity)
        BY <2>1, <4>1
      <4> QED BY <2>1, <3>1, <4>1, <4>2, <4>3 DEF PlacingHeld
    <3> QED BY <2>8, <2>9, <3>2 DEF Held, PlacedHeld, PayHeld, SaveHeld, PaidHeld, Placing,
            SavingPayment, HasPaid
  <2>11. ChargesAreOfRequests'
    BY <1>1, <1>3, <2>9, ChargesStay DEF IInv, Memory
  <2>12. \A q \in Requests \ {r} : Placing(q) => work'[r].order # work[q].order
    BY <1>1, <2>8, <2>9
  <2> QED BY <1>1, <1>3, <2>9, <2>10, <2>11, <2>12, RequestIInv
<1> QED BY <1>2, <1>3 DEF orderFood

\* Asking to pay.
LEMMA makeOrderPaymentIInv ==
  ASSUME IInv, NEW r \in Requests, NEW o \in Orders, NEW card \in BOOLEAN,
         makeOrderPayment(r, o, card), UNCHANGED <<now, deliveryVars>>
  PROVE  IInv'
<1>1. pc[r] = "idle"
  BY DEF makeOrderPayment
<1>2. CASE Answer(r, "failed") \/ Answer(r, "rejected")
  BY <1>1, <1>2, AnswerIInv
<1>3. ASSUME ~isNew(order[o]),
             work' = [work EXCEPT ![r] =
                        [NoWork EXCEPT !.op = "makeOrderPayment", !.order = o, !.card = card,
                                       !.retries = MaxRetries, !.entity = order[o]]],
             Goto(r, "pay"), UNCHANGED <<order, orderEvents, charges>>
      PROVE  IInv'
  <2> DEFINE row == order[o]
             a == [NoWork EXCEPT !.op = "makeOrderPayment"]
             b == [a EXCEPT !.order = o]
             c == [b EXCEPT !.card = card]
             d == [c EXCEPT !.retries = MaxRetries]
             w == [d EXCEPT !.entity = row]
  <2>1. row \in LegalRow
    BY DEF IInv, Tables
  <2>2. row \in OrderRow /\ NoOrder \in OrderRow /\ GrowsInto(row, row)
    BY <2>1, NoOrderFacts, LegalRowFacts, GrowsReflexive
  <2>3. work' = [work EXCEPT ![r] = w]
    BY <1>3
  <2> HIDE DEF row
  <2>4. a = [op |-> "makeOrderPayment", order |-> NoWork.order, basket |-> NoWork.basket,
             card |-> NoWork.card, retries |-> NoWork.retries, entity |-> NoWork.entity,
             seen |-> NoWork.seen]
    BY NoWorkFacts DEF Work
  <2> HIDE DEF a
  <2>5. b = [op |-> "makeOrderPayment", order |-> o, basket |-> NoWork.basket, card |-> NoWork.card,
             retries |-> NoWork.retries, entity |-> NoWork.entity, seen |-> NoWork.seen]
    BY <2>4
  <2> HIDE DEF b
  <2>6. c = [op |-> "makeOrderPayment", order |-> o, basket |-> NoWork.basket, card |-> card,
             retries |-> NoWork.retries, entity |-> NoWork.entity, seen |-> NoWork.seen]
    BY <2>5
  <2> HIDE DEF c
  <2>7. d = [op |-> "makeOrderPayment", order |-> o, basket |-> NoWork.basket, card |-> card,
             retries |-> MaxRetries, entity |-> NoWork.entity, seen |-> NoWork.seen]
    BY <2>6
  <2> HIDE DEF d
  <2>8. w = [op |-> "makeOrderPayment", order |-> o, basket |-> NoWork.basket, card |-> card,
             retries |-> MaxRetries, entity |-> row, seen |-> NoWork.seen]
    BY <2>7
  <2> HIDE DEF w
  <2>9. w \in Work /\ w.op = "makeOrderPayment" /\ w.order = o /\ w.retries = MaxRetries
        /\ w.entity = row
    BY <2>2, <2>8, NoWorkFacts, ConstantTypes DEF Work
  <2>10. /\ OrderingTypeOK' /\ work'[r] = w /\ pc'[r] = "pay"
         /\ \A q \in Requests \ {r} : pc'[q] = pc[q] /\ work'[q] = work[q]
    <3>1. charges' \in SUBSET [order : Orders, paymentId : PaymentIds] /\ "pay" \in Labels
      BY <1>3 DEF IInv, TypeOK, OrderingTypeOK, Labels, InFlight
    <3>2. OrderingTypeOK /\ Goto(r, "pay") /\ w \in Work
      BY <1>3, <2>9 DEF IInv, TypeOK
    <3> QED BY <2>3, <3>1, <3>2, WorkTypeOK
  <2>11. Held(r)'
    BY <1>3, <2>1, <2>2, <2>9, <2>10, ConstantTypes DEF Held, PlacingHeld, PlacedHeld, PayHeld,
       SaveHeld, PaidHeld, Placing, SavingPayment, HasPaid, row
  <2>12. ChargesAreOfRequests'
    BY <1>1, <1>3, <2>10, ChargesStay DEF IInv, Memory
  <2>13. \A q \in Requests \ {r} : Placing(q) => work'[r].order # work[q].order
    BY <1>3, <2>9, <2>10 DEF IInv, Memory, Held, PlacingHeld
  <2> QED BY <1>1, <1>3, <2>10, <2>11, <2>12, <2>13, RequestIInv
<1> QED BY <1>2, <1>3 DEF makeOrderPayment

\* A try that fails.
LEMMA PaymentFailsIInv ==
  ASSUME IInv, NEW r \in Requests, PaymentFails(r), UNCHANGED <<now, deliveryVars>>
  PROVE  IInv'
<1> DEFINE w == [work[r] EXCEPT !.retries = @ - 1]
           label == IF work[r].retries = 1 THEN "rejected" ELSE "pay"
<1>1. pc[r] = "pay" /\ work[r] \in Work /\ PayHeld(r)
      /\ UNCHANGED <<order, orderEvents, charges>>
  BY WorkTypes DEF PaymentFails, IInv, TypeOK, Memory, Held
<1>2. work[r].retries \in 1..MaxRetries
  BY <1>1 DEF PayHeld
<1>3. w \in Work /\ w.retries = work[r].retries - 1 /\ w.op = work[r].op
      /\ w.order = work[r].order /\ w.entity = work[r].entity
  <2>1. work[r].retries - 1 \in 0..MaxRetries
    BY <1>2, ConstantTypes
  <2> QED BY <1>1, <2>1 DEF Work
<1>4. work' = [work EXCEPT ![r] = w] /\ Goto(r, label)
  BY DEF PaymentFails
<1>5. label \in Labels /\ (label = "pay" => work[r].retries # 1) /\ label \in {"pay", "rejected"}
  BY DEF Labels, InFlight
<1> HIDE DEF w, label
<1>6. /\ OrderingTypeOK' /\ work'[r] = w /\ pc'[r] = label
      /\ \A q \in Requests \ {r} : pc'[q] = pc[q] /\ work'[q] = work[q]
  <2>1. OrderingTypeOK /\ charges' \in SUBSET [order : Orders, paymentId : PaymentIds]
    BY <1>1 DEF IInv, TypeOK, OrderingTypeOK
  <2> QED BY <1>3, <1>4, <1>5, <2>1, WorkTypeOK
<1>7. Held(r)'
  <2>1. PayHeld(r)'
    <3>1. pc'[r] = "pay" => w.retries \in 1..MaxRetries
      BY <1>2, <1>3, <1>5, <1>6, ConstantTypes
    <3> QED BY <1>1, <1>3, <1>6, <3>1 DEF PayHeld
  <2> QED BY <1>5, <1>6, <2>1 DEF Held, PlacingHeld, PlacedHeld, SaveHeld, PaidHeld, Placing,
          SavingPayment, HasPaid
<1>8. ChargesAreOfRequests'
  BY <1>1, <1>6, ChargesStay DEF IInv, Memory
<1>9. \A q \in Requests \ {r} : Placing(q) => work'[r].order # work[q].order
  BY <1>3, <1>6 DEF IInv, Memory, Held, PlacingHeld
<1> QED BY <1>1, <1>6, <1>7, <1>8, <1>9, RequestIInv

\* A charge that succeeds is the first of its request.
LEMMA PaymentSucceedsIInv ==
  ASSUME IInv, NEW r \in Requests, PaymentSucceeds(r), UNCHANGED <<now, deliveryVars>>
  PROVE  IInv'
<1> DEFINE o == work[r].order
           row == work[r].entity
<1>1. pc[r] = "pay" /\ work[r] \in Work /\ PayHeld(r)
      /\ UNCHANGED <<order, orderEvents>> /\ OrderingTypeOK
  BY WorkTypes DEF PaymentSucceeds, IInv, TypeOK, Memory, Held
<1>2. work[r].op = "makeOrderPayment" /\ o \in Orders /\ work[r].retries \in 1..MaxRetries
      /\ row \in LegalRow /\ ~isNew(row) /\ GrowsInto(row, order[o]) /\ order[o] \in LegalRow
  BY <1>1 DEF PayHeld, IInv, Tables
<1>3. charges' = charges \cup {ChargeOf(r)}
  BY DEF PaymentSucceeds, ChargeOf
<1>4. PaymentId(r) \in PaymentIds
  BY <1>2, ConstantTypes DEF PaymentId
<1>5. charges' \in SUBSET [order : Orders, paymentId : PaymentIds]
  BY <1>1, <1>2, <1>3, <1>4 DEF OrderingTypeOK, ChargeOf
<1>6. ASSUME \A q \in Requests \ {r} : pc'[q] = pc[q] /\ work'[q] = work[q],
             pc'[r] \notin {"idle", "pay"}, work'[r].order = o,
             work'[r].retries = work[r].retries
      PROVE  ChargesAreOfRequests'
  <2> SUFFICES ASSUME NEW c \in charges'
               PROVE  \E q \in Requests : pc'[q] \notin {"idle", "pay"} /\ c = ChargeOf(q)'
    BY DEF ChargesAreOfRequests
  <2>1. CASE c \in charges
    <3>1. PICK q \in Requests : pc[q] \notin {"idle", "pay"} /\ c = ChargeOf(q)
      BY <2>1 DEF IInv, Memory, ChargesAreOfRequests
    <3> QED BY <1>1, <1>6, <3>1 DEF ChargeOf, PaymentId
  <2>2. CASE c = ChargeOf(r)
    BY <1>6, <2>2 DEF ChargeOf, PaymentId
  <2> QED BY <1>3, <2>1, <2>2
<1>7. ASSUME hasBillPaid(row), Goto(r, "rejected"), UNCHANGED work
      PROVE  IInv'
  <2>1. "rejected" \in Labels
    BY DEF Labels
  <2>2. /\ OrderingTypeOK' /\ work'[r] = work[r] /\ pc'[r] = "rejected"
        /\ \A q \in Requests \ {r} : pc'[q] = pc[q] /\ work'[q] = work[q]
    BY <1>1, <1>5, <1>7, <2>1, GotoTypeOK
  <2>3. Held(r)'
    BY <2>2 DEF Held, PlacingHeld, PlacedHeld, PayHeld, SaveHeld, PaidHeld, Placing,
       SavingPayment, HasPaid
  <2>4. ChargesAreOfRequests'
    BY <1>6, <2>2
  <2>5. \A q \in Requests \ {r} : Placing(q) => work'[r].order # work[q].order
    BY <2>2 DEF IInv, Memory, Held, PlacingHeld
  <2> QED BY <1>1, <1>3, <2>2, <2>3, <2>4, <2>5, RequestIInv
<1>8. ASSUME ~hasBillPaid(row), Goto(r, "select"),
             work' = [work EXCEPT ![r].entity = OrderBillPaid(row, PaymentId(r))]
      PROVE  IInv'
  <2> DEFINE paid == OrderBillPaid(row, PaymentId(r))
             w == [work[r] EXCEPT !.entity = paid]
  <2>1. row.version = 1
    BY <1>2, <1>8, LegalRowFacts DEF isNew, hasBillPaid
  <2>2. paid \in LegalRow /\ paid.version = 2 /\ paid.paymentId = PaymentId(r)
        /\ paid.store = row.store /\ paid.totalBill = row.totalBill /\ paid \in OrderRow
    <3>1. now \in Nat
      BY DEF IInv, TypeOK, OrderTypeOK
    <3> QED BY <1>2, <1>4, <2>1, <3>1, PaidRow, LegalRowFacts
  <2>3. order[o].store = row.store /\ order[o].totalBill = row.totalBill /\ ~isNew(order[o])
    BY <1>2, <2>1, LegalRowFacts DEF GrowsInto, isNew
  <2>4. work' = [work EXCEPT ![r] = w] /\ "select" \in Labels
    BY <1>8 DEF Labels, InFlight
  <2> HIDE DEF paid
  <2>5. w \in Work /\ w.entity = paid /\ w.op = work[r].op /\ w.order = o
        /\ w.retries = work[r].retries
    BY <1>1, <2>2 DEF Work
  <2> HIDE DEF w
  <2>6. /\ OrderingTypeOK' /\ work'[r] = w /\ pc'[r] = "select"
        /\ \A q \in Requests \ {r} : pc'[q] = pc[q] /\ work'[q] = work[q]
    BY <1>1, <1>5, <1>8, <2>4, <2>5, WorkTypeOK
  <2>7. Held(r)'
    <3>1. ChargeOf(r)' = ChargeOf(r) /\ PaymentId(r)' = PaymentId(r)
      BY <2>5, <2>6 DEF ChargeOf, PaymentId
    <3>2. SaveHeld(r)'
      BY <1>1, <1>2, <1>3, <2>2, <2>3, <2>5, <2>6, <3>1 DEF SaveHeld, isNew
    <3> QED BY <2>6, <3>2 DEF Held, PlacingHeld, PlacedHeld, PayHeld, PaidHeld, Placing,
            SavingPayment, HasPaid
  <2>8. ChargesAreOfRequests'
    BY <1>6, <2>5, <2>6
  <2>9. \A q \in Requests \ {r} : Placing(q) => work'[r].order # work[q].order
    BY <2>5, <2>6 DEF IInv, Memory, Held, PlacingHeld
  <2> QED BY <1>1, <1>3, <2>6, <2>7, <2>8, <2>9, RequestIInv
<1> QED BY <1>7, <1>8 DEF PaymentSucceeds

\* The first half of saving a paid order.
LEMMA SelectOrderIInv ==
  ASSUME IInv, NEW r \in Requests, SelectOrder(r), UNCHANGED <<now, deliveryVars>>
  PROVE  IInv'
<1> DEFINE o == work[r].order
           row == order[o]
           w == [work[r] EXCEPT !.seen = row]
<1>1. pc[r] = "select" /\ work[r] \in Work /\ OrderingTypeOK
      /\ UNCHANGED <<order, orderEvents, charges>>
  BY WorkTypes DEF SelectOrder, IInv, TypeOK
<1>2. SaveHeld(r) /\ SavingPayment(r)
  BY <1>1 DEF IInv, Memory, Held, SavingPayment
<1>3. o \in Orders /\ row \in OrderRow
  BY <1>2, LegalRowFacts DEF SaveHeld, IInv, Tables
<1>4. work' = [work EXCEPT ![r] = w] /\ Goto(r, "write") /\ "write" \in Labels
  BY DEF SelectOrder, Labels, InFlight
<1> HIDE DEF row
<1>5. w \in Work /\ w.seen = row /\ w.op = work[r].op /\ w.order = o
      /\ w.retries = work[r].retries /\ w.entity = work[r].entity
  BY <1>1, <1>3 DEF Work
<1> HIDE DEF w
<1>6. /\ OrderingTypeOK' /\ work'[r] = w /\ pc'[r] = "write"
      /\ \A q \in Requests \ {r} : pc'[q] = pc[q] /\ work'[q] = work[q]
  <2>1. charges' \in SUBSET [order : Orders, paymentId : PaymentIds]
    BY <1>1 DEF OrderingTypeOK
  <2> QED BY <1>1, <1>4, <1>5, <2>1, WorkTypeOK
<1>7. Held(r)'
  <2>1. ChargeOf(r)' = ChargeOf(r) /\ PaymentId(r)' = PaymentId(r) /\ order'[o] = row
    BY <1>1, <1>5, <1>6 DEF ChargeOf, PaymentId, row
  <2>2. work[r].op = "makeOrderPayment" /\ o \in Orders /\ work[r].retries \in 1..MaxRetries
        /\ ChargeOf(r) \in charges /\ ~isNew(row)
        /\ work[r].entity \in LegalRow /\ work[r].entity.version = 2
        /\ work[r].entity.paymentId = PaymentId(r)
        /\ work[r].entity.store = row.store /\ work[r].entity.totalBill = row.totalBill
    BY <1>2 DEF SaveHeld, row
  <2>3. SaveHeld(r)'
    BY <1>1, <1>5, <1>6, <2>1, <2>2 DEF SaveHeld
  <2> QED BY <1>5, <1>6, <2>2, <2>3 DEF Held, PlacingHeld, PlacedHeld, PayHeld, PaidHeld, Placing,
          SavingPayment, HasPaid
<1>8. ChargesAreOfRequests'
  BY <1>1, <1>5, <1>6, ChargesStay DEF IInv, Memory
<1>9. \A q \in Requests \ {r} : Placing(q) => work'[r].order # work[q].order
  BY <1>5, <1>6 DEF IInv, Memory, Held, PlacingHeld
<1> QED BY <1>1, <1>6, <1>7, <1>8, <1>9, RequestIInv

\* The error of a refused save ends the request.
LEMMA RollbackOrderIInv ==
  ASSUME IInv, NEW r \in Requests, RollbackOrder(r), UNCHANGED <<now, deliveryVars>>
  PROVE  IInv'
  BY AnswerIInv DEF RollbackOrder

\* What a commit of an order does, whatever was read when: the row that is written is
\* the one the request holds, one version ahead of the row that was there.
LEMMA CommitOrderEffect ==
  ASSUME IInv, NEW r \in Requests, CommitOrder(r)
  PROVE  LET o == work[r].order
             row == work[r].entity
         IN  /\ o \in Orders /\ row \in LegalRow /\ GrowsInto(order[o], row)
             /\ row.version = order[o].version + 1 /\ row.version \in {1, 2}
             /\ order' = [order EXCEPT ![o] = row]
             /\ orderEvents' = orderEvents \cup {OrderEvent(o, row, EventTypeOf(row.version))}
             /\ (Placing(r) /\ row.version = 1) \/ (SavingPayment(r) /\ row.version = 2)
<1> DEFINE o == work[r].order
           row == work[r].entity
<1>1. pc[r] = "write" /\ Held(r) /\ (Placing(r) \/ SavingPayment(r))
      /\ (work[r].op = "orderFood" <=> Placing(r))
  BY DEF CommitOrder, IInv, Memory, Held, Placing, SavingPayment
<1>2. o \in Orders /\ row \in LegalRow /\ row.version \in Nat
      /\ (Placing(r) => row.version = 1 /\ isNew(order[o]) /\ work[r].seen = NoOrder)
      /\ (SavingPayment(r) =>
            /\ row.version = 2 /\ ~isNew(order[o])
            /\ row.store = order[o].store /\ row.totalBill = order[o].totalBill
            /\ (order[o].version = 1 => work[r].seen = order[o]))
  BY <1>1, LegalRowFacts DEF Held, PlacingHeld, SaveHeld
<1>3. order[o] \in LegalRow /\ order[o].version \in 0..3
  BY <1>2, LegalRowFacts DEF IInv, Tables
<1>4. ~VersionTaken(orderEvents, o, row.version)
  BY DEF CommitOrder, OrderRefused
<1>5. row.version \notin 1..order[o].version
  BY <1>2, <1>4, LoggedVersions DEF IInv, TypeOK
<1>6. work[r].seen = order[o] /\ row.version = order[o].version + 1
  <2>1. CASE Placing(r)
    BY <1>2, <1>3, <2>1, LegalRowFacts DEF isNew
  <2>2. CASE SavingPayment(r)
    BY <1>2, <1>3, <1>5, <2>2 DEF isNew
  <2> QED BY <1>1, <2>1, <2>2
<1>7. MergedOrder(row, work[r].seen, order[o]) = row
  BY <1>2, <1>3, <1>6, MergedOverSame, LegalRowFacts
<1>8. order' = [order EXCEPT ![o] = row]
  BY <1>7 DEF CommitOrder
<1>9. EventTypeOf(row.version) = IF work[r].op = "orderFood" THEN "OrderCreated" ELSE "OrderBillPaid"
  BY <1>1, <1>2 DEF EventTypeOf, Placing, SavingPayment
<1>10. orderEvents' = orderEvents \cup {OrderEvent(o, row, EventTypeOf(row.version))}
  BY <1>9 DEF CommitOrder
<1>11. GrowsInto(order[o], row)
  <2>1. CASE Placing(r)
    BY <1>2, <1>6, <2>1 DEF GrowsInto, isNew
  <2>2. CASE SavingPayment(r)
    BY <1>2, <1>3, <1>6, <2>2 DEF GrowsInto
  <2> QED BY <1>1, <2>1, <2>2
<1>12. row.version \in {1, 2}
       /\ ((Placing(r) /\ row.version = 1) \/ (SavingPayment(r) /\ row.version = 2))
  BY <1>1, <1>2
<1> QED BY <1>2, <1>6, <1>8, <1>10, <1>11, <1>12

\* The rows and the log after a step that takes some orders one version further.
LEMMA TablesAdvance ==
  ASSUME OrderTypeOK, Tables, NEW advanced \in SUBSET Orders, now' = now,
         order' \in [Orders -> LegalRow],
         \A o \in Orders : IF o \in advanced THEN order'[o].version = order[o].version + 1
                                             ELSE order'[o] = order[o],
         orderEvents' = orderEvents \cup
           {OrderEvent(o, order'[o], EventTypeOf(order'[o].version)) : o \in advanced},
         \A o \in advanced : order'[o].version = 3 => order'[o].deliveryBatch <= now
  PROVE  OrderTypeOK' /\ Tables'
<1>1. \A o \in Orders : /\ order[o] \in LegalRow /\ order[o].version \in 0..3
                        /\ order'[o] \in LegalRow /\ order'[o].version \in 0..3
                        /\ order'[o] \in OrderRow
  BY LegalRowFacts DEF Tables
<1>2. \A n \in 1..3 : EventTypeOf(n) \in {"OrderCreated", "OrderBillPaid", "OrderDelivered"}
  BY DEF EventTypeOf
<1>3. \A o \in advanced : order'[o].version \in 1..3
  BY <1>1
<1>4. OrderTypeOK'
  <2>1. order' \in [Orders -> OrderRow]
    BY <1>1
  <2>2. \A o \in advanced :
          OrderEvent(o, order'[o], EventTypeOf(order'[o].version)) \in
            [aggregateId : Orders, version : Nat,
             type : {"OrderCreated", "OrderBillPaid", "OrderDelivered"}]
    BY <1>2, <1>3 DEF OrderEvent
  <2> QED BY <2>1, <2>2 DEF OrderTypeOK
<1>5. LogIsComplete'
  <2>1. ASSUME NEW e \in orderEvents'
        PROVE  e.version \in 1..order'[e.aggregateId].version /\ e.type = EventTypeOf(e.version)
    <3>1. CASE e \in orderEvents
      <4>1. e.aggregateId \in Orders /\ e.version \in 1..order[e.aggregateId].version
            /\ e.type = EventTypeOf(e.version)
        BY <3>1 DEF OrderTypeOK, Tables, LogIsComplete
      <4> QED BY <1>1, <4>1
    <3>2. CASE e \notin orderEvents
      <4>1. PICK o \in advanced : e = OrderEvent(o, order'[o], EventTypeOf(order'[o].version))
        BY <3>2
      <4> QED BY <1>3, <4>1 DEF OrderEvent
    <3> QED BY <3>1, <3>2
  <2>2. ASSUME NEW o \in Orders, NEW n \in 1..order'[o].version
        PROVE  VersionTaken(orderEvents', o, n)
    <3>1. CASE n \in 1..order[o].version
      BY <3>1 DEF Tables, LogIsComplete, VersionTaken
    <3>2. CASE n \notin 1..order[o].version
      <4>1. o \in advanced /\ n = order'[o].version
        BY <1>1, <3>2
      <4>2. OrderEvent(o, order'[o], EventTypeOf(order'[o].version)) \in orderEvents'
        BY <4>1
      <4> QED BY <4>1, <4>2 DEF VersionTaken, OrderEvent
    <3> QED BY <3>1, <3>2
  <2> QED BY <2>1, <2>2 DEF LogIsComplete
<1>6. DeliveredIsDue'
  <2> SUFFICES ASSUME NEW o \in Orders, order'[o].delivered
               PROVE  order'[o].paymentId # NoPayment /\ order'[o].deliveryBatch <= now
    BY DEF DeliveredIsDue, hasBeenDelivered, hasBillPaid
  <2>1. order'[o].version = 3 /\ order'[o].paymentId # NoPayment
    BY <1>1, LegalRowFacts
  <2>2. o \notin advanced => order'[o].deliveryBatch <= now
    BY DEF Tables, DeliveredIsDue, hasBeenDelivered
  <2> QED BY <2>1, <2>2
<1> QED BY <1>1, <1>4, <1>5, <1>6 DEF Tables

\* The second half of saving an order.
LEMMA CommitOrderIInv ==
  ASSUME IInv, NEW r \in Requests, CommitOrder(r), UNCHANGED <<now, deliveryVars>>
  PROVE  IInv'
<1> DEFINE o == work[r].order
           row == work[r].entity
<1>1. /\ o \in Orders /\ row \in LegalRow /\ GrowsInto(order[o], row)
      /\ row.version = order[o].version + 1 /\ row.version \in {1, 2}
      /\ order' = [order EXCEPT ![o] = row]
      /\ orderEvents' = orderEvents \cup {OrderEvent(o, row, EventTypeOf(row.version))}
      /\ (Placing(r) /\ row.version = 1) \/ (SavingPayment(r) /\ row.version = 2)
  BY CommitOrderEffect
<1>2. order \in [Orders -> OrderRow] /\ now \in Nat
      /\ \A p \in Orders : order[p] \in LegalRow
  BY DEF IInv, TypeOK, OrderTypeOK, Tables
<1>3. order'[o] = row /\ (\A p \in Orders \ {o} : order'[p] = order[p])
      /\ order' \in [Orders -> LegalRow]
  BY <1>1, <1>2
<1>4. \A p \in Orders : order[p] \in LegalRow /\ order'[p] \in LegalRow
                        /\ GrowsInto(order[p], order'[p])
  BY <1>1, <1>2, <1>3, GrowsReflexive
<1>5. OrderTypeOK' /\ Tables'
  <2> DEFINE advanced == {o}
  <2>1. \A p \in Orders : IF p \in advanced THEN order'[p].version = order[p].version + 1
                                            ELSE order'[p] = order[p]
    BY <1>1, <1>3
  <2>2. orderEvents' = orderEvents \cup
          {OrderEvent(p, order'[p], EventTypeOf(order'[p].version)) : p \in advanced}
    BY <1>1, <1>3
  <2>3. \A p \in advanced : order'[p].version = 3 => order'[p].deliveryBatch <= now
    BY <1>1, <1>3
  <2>4. advanced \in SUBSET Orders
    BY <1>1
  <2> HIDE DEF advanced
  <2> QED BY <1>3, <2>1, <2>2, <2>3, <2>4, TablesAdvance DEF IInv, TypeOK
<1>6. OrderingTypeOK' /\ pc'[r] = "ok" /\ UNCHANGED <<charges, work>>
      /\ \A q \in Requests \ {r} : pc'[q] = pc[q] /\ work'[q] = work[q]
  <2>1. OrderingTypeOK /\ "ok" \in Labels /\ UNCHANGED <<charges, work>> /\ Goto(r, "ok")
    BY DEF IInv, TypeOK, Labels, CommitOrder
  <2>2. charges' \in SUBSET [order : Orders, paymentId : PaymentIds]
    BY <2>1 DEF OrderingTypeOK
  <2> QED BY <2>1, <2>2, GotoTypeOK
<1>7. DeliveryTypeOK'
  BY DEF IInv, TypeOK, DeliveryTypeOK, deliveryVars
<1>8. JobMemory'
  <2>1. ASSUME NEW d \in Jobs, NEW p \in DOMAIN batch[d] PROVE order'[p] = order[p]
    <3>1. p \in Orders /\ BatchHeld(d, p)
      BY DEF IInv, JobMemory, JobHeld, TypeOK, DeliveryTypeOK
    <3>2. order[p].version \in {2, 3}
      BY <3>1 DEF BatchHeld, DeliveredInto
    <3>3. order[o].version \in {0, 1}
      BY <1>1, <1>4, LegalRowFacts
    <3> QED BY <1>3, <3>1, <3>2, <3>3
  <2> QED BY <1>2, <2>1, JobsUndisturbed
<1>9. ASSUME NEW q \in Requests PROVE Held(q)'
  <2>1. CASE q # r
    <3>1. Held(q)
      BY DEF IInv, Memory
    <3>2. Placing(q) => /\ order'[work[q].order] = order[work[q].order]
                        /\ \A p \in Requests \ {q} : work'[p].order # work[q].order
      BY <1>3, <1>6, <2>1, <3>1 DEF Held, PlacingHeld
    <3> QED BY <1>4, <1>6, <2>1, <3>1, <3>2, HeldGrows
  <2>2. CASE q = r
    <3>1. Held(r) /\ work'[r] = work[r]
      BY <1>6 DEF IInv, Memory
    <3>2. PlacedHeld(r)'
      <4> SUFFICES ASSUME work[r].op = "orderFood"
                   PROVE  o \in Orders /\ ~isNew(order'[o]) /\ Fits(work[r].basket, order'[o])
        BY <1>6 DEF PlacedHeld
      <4>1. Placing(r)
        BY DEF CommitOrder, Placing
      <4> QED BY <1>1, <1>3, <3>1, <4>1 DEF Held, PlacingHeld, isNew
    <3>3. PaidHeld(r)'
      <4> SUFFICES ASSUME work[r].op = "makeOrderPayment"
                   PROVE  PaidHeld(r)'
        BY <1>6 DEF PaidHeld, HasPaid
      <4>1. SavingPayment(r) /\ row.version = 2
        BY <1>1 DEF CommitOrder, SavingPayment, Placing
      <4>2. work[r].retries \in 1..MaxRetries /\ ChargeOf(r) \in charges
            /\ row.paymentId = PaymentId(r)
        BY <3>1, <4>1 DEF Held, SaveHeld
      <4>3. ChargeOf(r)' = ChargeOf(r) /\ PaymentId(r)' = PaymentId(r)
        BY <1>6 DEF ChargeOf, PaymentId
      <4> QED BY <1>1, <1>3, <1>6, <4>1, <4>2, <4>3 DEF PaidHeld
    <3> QED BY <1>6, <2>2, <3>2, <3>3 DEF Held, PlacingHeld, PayHeld, SaveHeld, Placing,
            SavingPayment
  <2> QED BY <2>1, <2>2
<1>10. ChargesAreOfRequests'
  <2>1. pc[r] = "write"
    BY DEF CommitOrder
  <2> QED BY <1>6, <2>1, ChargesStay DEF IInv, Memory
<1>11. PaidByRequests'
  <2> SUFFICES ASSUME NEW p \in Orders, hasBillPaid(order'[p])
               PROVE  \E q \in Requests : HasPaid(q)' /\ work'[q].order = p
    BY DEF PaidByRequests
  <2>1. CASE p = o
    <3>1. row.version = 2
      BY <1>1, <1>3, <2>1, LegalRowFacts DEF hasBillPaid
    <3>2. SavingPayment(r) /\ pc[r] = "write"
      BY <1>1, <3>1 DEF CommitOrder
    <3> QED BY <1>6, <2>1, <3>2 DEF HasPaid, SavingPayment
  <2>2. CASE p # o
    <3>1. PICK q \in Requests : HasPaid(q) /\ work[q].order = p
      BY <1>3, <2>2 DEF IInv, Memory, PaidByRequests
    <3>2. q # r
      BY <2>2, <3>1
    <3> QED BY <1>6, <3>1, <3>2 DEF HasPaid
  <2> QED BY <2>1, <2>2
<1> QED BY <1>5, <1>6, <1>7, <1>8, <1>9, <1>10, <1>11 DEF IInv, TypeOK, Memory

------------------------------------------------------------------------------
(* Jobs.                                                                    *)

\* The types of what one job holds.
JobType(d) ==
  /\ batch[d] \in [DOMAIN batch[d] -> OrderRow] /\ DOMAIN batch[d] \subseteq Orders
  /\ seen[d] \in [DOMAIN seen[d] -> OrderRow] /\ DOMAIN seen[d] \subseteq DOMAIN batch[d]
  /\ DOMAIN saga[d] \subseteq DOMAIN batch[d]
  /\ saga[d] \in [DOMAIN saga[d] -> SagaState]

JobLabels == {"idle", "count", "find", "select", "update", "sagas", "done", "dead"}

\* What the invariant says of the types of a job.
LEMMA JobTypes ==
  ASSUME IInv, NEW d \in Jobs
  PROVE  JobType(d) /\ job[d] \in JobLabels /\ JobHeld(d)
  BY DEF IInv, TypeOK, DeliveryTypeOK, JobMemory, JobsTypeOK, JobType, JobLabels

\* What an order that is due looks like.
LEMMA DueRow ==
  ASSUME IInv, NEW o \in PendingDelivery
  PROVE  o \in Orders /\ order[o] \in LegalRow /\ order[o].version = 2
         /\ order[o].deliveryBatch <= now
<1>1. o \in Orders /\ order[o] \in LegalRow /\ now \in Nat
      /\ order[o].deliveryBatch \in 1..now /\ ~order[o].delivered
  BY DEF PendingDelivery, IInv, TypeOK, OrderTypeOK, Tables, hasBeenDelivered
<1> QED BY <1>1, LegalRowFacts

\* What a step of a job leaves alone, and keeps of its function's types.
OthersKeep(d) ==
  /\ UNCHANGED <<order, orderEvents, now, orderingVars, vendor, vendorEvents>>
  /\ job' \in [Jobs -> JobLabels]
  /\ batch' = [e \in Jobs |-> batch'[e]]
  /\ seen' = [e \in Jobs |-> seen'[e]]
  /\ saga' = [e \in Jobs |-> saga'[e]]
  /\ credited' \in [Jobs -> [vendor : [Vendors -> VendorRow], events : SUBSET CreditEvent]]
  /\ \A e \in Jobs \ {d} :
       job'[e] = job[e] /\ batch'[e] = batch[e] /\ seen'[e] = seen[e] /\ saga'[e] = saga[e]

\* A step of a job that commits nothing keeps the invariant if it keeps what is said
\* of this job, and takes no order that another transaction has.
LEMMA JobIInv ==
  ASSUME IInv, NEW d \in Jobs, OthersKeep(d), JobType(d)', JobHeld(d)',
         \A e \in Jobs \ {d} : InTransaction(e) /\ InTransaction(d)'
                                 => Changed(d)' \cap Changed(e) = {}
  PROVE  IInv'
<1>1. order' = order /\ orderEvents' = orderEvents /\ now' = now /\ charges' = charges
      /\ pc' = pc /\ work' = work /\ vendor' = vendor /\ vendorEvents' = vendorEvents
  BY DEF OthersKeep, orderingVars
<1>2. OrderTypeOK' /\ OrderingTypeOK'
  BY <1>1 DEF IInv, TypeOK, OrderTypeOK, OrderingTypeOK
<1>3. Tables'
  BY <1>1 DEF IInv, Tables, LogIsComplete, VersionTaken, DeliveredIsDue
<1>4. Memory'
  <2>1. ASSUME NEW q \in Requests PROVE Held(q)'
    <3>1. Held(q)
      BY DEF IInv, Memory
    <3>2. \A o \in Orders : order[o] \in LegalRow /\ GrowsInto(order[o], order[o])
      BY GrowsReflexive DEF IInv, Tables
    <3>3. Placing(q) => \A p \in Requests \ {q} : work[p].order # work[q].order
      BY <3>1 DEF Held, PlacingHeld
    <3> QED BY <1>1, <3>1, <3>2, <3>3, HeldGrows
  <2>2. ChargesAreOfRequests'
    BY <1>1 DEF IInv, Memory, ChargesAreOfRequests, ChargeOf, PaymentId
  <2>3. PaidByRequests'
    BY <1>1 DEF IInv, Memory, PaidByRequests, HasPaid
  <2> QED BY <2>1, <2>2, <2>3 DEF Memory
<1>5. ASSUME NEW e \in Jobs PROVE JobType(e)' /\ JobHeld(e)'
  <2>1. CASE e = d
    BY <2>1
  <2>2. CASE e # d
    <3>1. JobType(e) /\ JobHeld(e)
      BY JobTypes
    <3>2. job'[e] = job[e] /\ batch'[e] = batch[e] /\ seen'[e] = seen[e] /\ saga'[e] = saga[e]
      BY <2>2 DEF OthersKeep
    <3>3. JobType(e)'
      BY <3>1, <3>2 DEF JobType
    <3>4. JobDomains(e)'
      BY <3>1, <3>2 DEF JobHeld, JobDomains, InTransaction, Changed
    <3>5. \A o \in DOMAIN batch[e] : BatchHeld(e, o)'
      BY <1>1, <3>1, <3>2 DEF JobHeld, BatchHeld, InTransaction
    <3> QED BY <3>2, <3>3, <3>4, <3>5 DEF JobHeld
  <2> QED BY <2>1, <2>2
<1>6. DeliveryTypeOK'
  <2>1. vendor' \in [Vendors -> VendorRow]
        /\ vendorEvents' \in SUBSET [aggregateId : Vendors, version : Nat, amount : Nat]
    BY <1>1 DEF IInv, TypeOK, DeliveryTypeOK
  <2>2. \A e \in Jobs : credited'[e].vendor \in [Vendors -> VendorRow]
    BY DEF OthersKeep
  <2> QED BY <1>5, <2>1, <2>2 DEF DeliveryTypeOK, JobType, OthersKeep, JobLabels
<1>7. JobMemory'
  <2>1. JobsTypeOK'
    BY <1>5 DEF JobsTypeOK, JobType, OthersKeep
  <2>2. \A e \in Jobs \ {d} : InTransaction(e)' = InTransaction(e) /\ Changed(e)' = Changed(e)
    BY DEF OthersKeep, InTransaction, Changed
  <2>3. OrdersAreLocked'
    <3> SUFFICES ASSUME NEW e \in Jobs, NEW f \in Jobs, e # f, InTransaction(e)', InTransaction(f)'
                 PROVE  Changed(e)' \cap Changed(f)' = {}
      BY DEF OrdersAreLocked
    <3>1. CASE e # d /\ f # d
      BY <2>2, <3>1 DEF IInv, JobMemory, OrdersAreLocked
    <3>2. CASE e = d
      BY <2>2, <3>2
    <3>3. CASE f = d
      BY <2>2, <3>3
    <3> QED BY <3>1, <3>2, <3>3
  <2> QED BY <1>5, <2>1, <2>3 DEF JobMemory
<1> QED BY <1>2, <1>3, <1>4, <1>6, <1>7 DEF IInv, TypeOK

\* The functions over the jobs are functions.
LEMMA JobFunctions ==
  ASSUME IInv
  PROVE  /\ job \in [Jobs -> JobLabels]
         /\ batch = [d \in Jobs |-> batch[d]] /\ seen = [d \in Jobs |-> seen[d]]
         /\ saga = [d \in Jobs |-> saga[d]]
         /\ credited \in [Jobs -> [vendor : [Vendors -> VendorRow], events : SUBSET CreditEvent]]
         /\ vendor \in [Vendors -> VendorRow]
  BY DEF IInv, TypeOK, DeliveryTypeOK, JobMemory, JobsTypeOK, JobLabels

\* What is forgotten has the type of what was there.
LEMMA ForgetType ==
  ASSUME IInv, NEW jobs, Forget(jobs)
  PROVE  credited' \in [Jobs -> [vendor : [Vendors -> VendorRow], events : SUBSET CreditEvent]]
<1>1. NothingCredited \in [vendor : [Vendors -> VendorRow], events : SUBSET CreditEvent]
  BY DEF NothingCredited, NoVendorRow, VendorRow
<1> HIDE DEF NothingCredited
<1> QED BY <1>1, JobFunctions DEF Forget

\* A job that has nothing in memory.
LEMMA EmptyJob ==
  ASSUME NEW d \in Jobs, DOMAIN batch'[d] = {}, DOMAIN seen'[d] = {}, DOMAIN saga'[d] = {},
         batch'[d] = [o \in DOMAIN batch'[d] |-> batch'[d][o]],
         seen'[d] = [o \in DOMAIN seen'[d] |-> seen'[d][o]],
         saga'[d] = [o \in DOMAIN saga'[d] |-> saga'[d][o]],
         job'[d] \notin {"select", "update", "sagas"}
  PROVE  JobType(d)' /\ JobHeld(d)' /\ ~InTransaction(d)'
  BY DEF JobType, JobHeld, JobDomains, InTransaction

\* A job that starts, and one that counts.
LEMMA deliveryNextOrderIInv ==
  ASSUME IInv, NEW d \in Jobs, deliveryNextOrder(d) \/ countPendingDelivery(d),
         UNCHANGED <<now, orderingVars>>
  PROVE  IInv'
<1>1. job[d] \in {"idle", "count"}
      /\ UNCHANGED <<order, orderEvents, vendor, vendorEvents, batch, seen, saga, credited>>
  BY DEF deliveryNextOrder, countPendingDelivery
<1>2. PICK label \in {"count", "done", "find"} : Become(d, label)
  BY DEF deliveryNextOrder, countPendingDelivery
<1>3. job'[d] = label /\ job' \in [Jobs -> JobLabels] /\ \A e \in Jobs \ {d} : job'[e] = job[e]
  BY <1>2, JobFunctions DEF Become, JobLabels
<1>4. OthersKeep(d)
  BY <1>1, <1>3, JobFunctions DEF OthersKeep
<1>5. DOMAIN batch[d] = {} /\ DOMAIN seen[d] = {} /\ DOMAIN saga[d] = {} /\ JobType(d)
  BY <1>1, JobTypes DEF JobHeld, JobDomains, InTransaction
<1>6. JobType(d)' /\ JobHeld(d)' /\ ~InTransaction(d)'
  BY <1>1, <1>3, <1>5, EmptyJob DEF JobType
<1> QED BY <1>4, <1>6, JobIInv

\* A job that loads what is due.
LEMMA findManyPendingDeliveryIInv ==
  ASSUME IInv, NEW d \in Jobs, findManyPendingDelivery(d), UNCHANGED <<now, orderingVars>>
  PROVE  IInv'
<1>1. job[d] = "find" /\ Become(d, "select")
      /\ UNCHANGED <<order, orderEvents, vendor, vendorEvents, seen, saga, credited>>
  BY DEF findManyPendingDelivery
<1>2. PICK found \in SUBSET PendingDelivery :
        batch' = [batch EXCEPT ![d] = [o \in found |-> OrderDelivered(order[o])]]
  BY DEF findManyPendingDelivery, kSubset
<1>3. job'[d] = "select" /\ job' \in [Jobs -> JobLabels] /\ \A e \in Jobs \ {d} : job'[e] = job[e]
  BY <1>1, JobFunctions DEF Become, JobLabels
<1> DEFINE loaded == [o \in found |-> OrderDelivered(order[o])]
<1>4. batch'[d] = loaded /\ batch' = [e \in Jobs |-> batch'[e]]
      /\ \A e \in Jobs \ {d} : batch'[e] = batch[e]
  <2> HIDE DEF loaded
  <2> QED BY <1>2, JobFunctions DEF loaded
<1>5. OthersKeep(d)
  BY <1>1, <1>3, <1>4, JobFunctions DEF OthersKeep
<1>6. \A o \in found : /\ o \in Orders /\ order[o] \in LegalRow /\ order[o].version = 2
                       /\ order[o].deliveryBatch <= now
                       /\ loaded[o] = OrderDelivered(order[o])
  BY <1>2, DueRow
<1>7. DOMAIN loaded = found
  OBVIOUS
<1> HIDE DEF loaded
<1>8. \A o \in found : /\ loaded[o] \in LegalRow /\ loaded[o].version = 3
                       /\ loaded[o].deliveryBatch <= now /\ DeliveredInto(order[o], loaded[o])
  BY <1>6, DeliveredRow DEF DeliveredInto
<1>9. DOMAIN seen[d] = {} /\ DOMAIN saga[d] = {} /\ JobType(d)
  BY <1>1, JobTypes DEF JobHeld, JobDomains, InTransaction
<1>10. JobType(d)'
  <2>1. loaded \in [found -> OrderRow]
    BY <1>7, <1>8, LegalRowFacts DEF loaded
  <2> QED BY <1>1, <1>4, <1>6, <1>7, <1>9, <2>1 DEF JobType
<1>11. JobHeld(d)'
  <2>1. JobDomains(d)'
    BY <1>1, <1>3, <1>9 DEF JobDomains, InTransaction
  <2>2. ASSUME NEW o \in found PROVE BatchHeld(d, o)'
    BY <1>1, <1>3, <1>4, <1>6, <1>8, <1>9 DEF BatchHeld
  <2> QED BY <1>4, <1>7, <2>1, <2>2 DEF JobHeld
<1>12. ~InTransaction(d)'
  BY <1>3 DEF InTransaction
<1> QED BY <1>5, <1>10, <1>11, <1>12, JobIInv

\* The rows that are saved are read again.
LEMMA SelectBatchIInv ==
  ASSUME IInv, NEW d \in Jobs, SelectBatch(d), UNCHANGED <<now, orderingVars>>
  PROVE  IInv'
<1> DEFINE stored == [o \in DOMAIN batch[d] |-> order[o]]
<1>1. job[d] = "select" /\ UNCHANGED <<order, orderEvents, vendor, vendorEvents>>
  BY DEF SelectBatch
<1>2. JobType(d) /\ JobHeld(d) /\ DOMAIN saga[d] = {} /\ job \in [Jobs -> JobLabels]
  BY <1>1, JobTypes, JobFunctions DEF JobHeld, JobDomains, InTransaction
<1>3. ASSUME Become(d, "find"), Forget({d}) PROVE IInv'
  <2>1. job'[d] = "find" /\ job' \in [Jobs -> JobLabels] /\ \A e \in Jobs \ {d} : job'[e] = job[e]
    BY <1>2, <1>3 DEF Become, JobLabels
  <2>2. batch'[d] = None /\ seen'[d] = None /\ saga'[d] = None
        /\ batch' = [e \in Jobs |-> batch'[e]] /\ seen' = [e \in Jobs |-> seen'[e]]
        /\ saga' = [e \in Jobs |-> saga'[e]]
        /\ \A e \in Jobs \ {d} : batch'[e] = batch[e] /\ seen'[e] = seen[e] /\ saga'[e] = saga[e]
    <3> HIDE DEF None
    <3> QED BY <1>3 DEF Forget
  <2>3. credited' \in [Jobs -> [vendor : [Vendors -> VendorRow], events : SUBSET CreditEvent]]
    BY <1>3, ForgetType
  <2>4. OthersKeep(d)
    BY <1>1, <2>1, <2>2, <2>3 DEF OthersKeep
  <2>5. DOMAIN None = {} /\ None = [o \in DOMAIN None |-> None[o]]
    BY DEF None
  <2>6. JobType(d)' /\ JobHeld(d)' /\ ~InTransaction(d)'
    BY <2>1, <2>2, <2>5, EmptyJob
  <2> QED BY <2>4, <2>6, JobIInv
<1>4. ASSUME seen' = [seen EXCEPT ![d] = stored], Become(d, "update"),
             UNCHANGED <<batch, saga, credited>>
      PROVE  IInv'
  <2>1. job'[d] = "update" /\ job' \in [Jobs -> JobLabels] /\ \A e \in Jobs \ {d} : job'[e] = job[e]
    BY <1>2, <1>4 DEF Become, JobLabels
  <2>2. DOMAIN stored = DOMAIN batch[d] /\ \A o \in DOMAIN batch[d] : stored[o] = order[o]
    OBVIOUS
  <2>3. stored \in [DOMAIN stored -> OrderRow]
    BY <1>2, LegalRowFacts DEF JobType, IInv, Tables
  <2> HIDE DEF stored
  <2>4. seen'[d] = stored /\ seen' = [e \in Jobs |-> seen'[e]]
        /\ \A e \in Jobs \ {d} : seen'[e] = seen[e]
    BY <1>4, JobFunctions
  <2>5. OthersKeep(d)
    BY <1>1, <1>4, <2>1, <2>4, JobFunctions DEF OthersKeep
  <2>6. JobType(d)'
    BY <1>2, <1>4, <2>2, <2>3, <2>4 DEF JobType
  <2>7. JobDomains(d)'
    BY <1>2, <1>4, <2>1, <2>2, <2>4 DEF JobDomains, InTransaction
  <2>8. ASSUME NEW o \in DOMAIN batch[d] PROVE BatchHeld(d, o)'
    <3>1. BatchHeld(d, o)
      BY <1>2 DEF JobHeld
    <3>2. seen'[d][o] = order[o] /\ ~InTransaction(d)'
      BY <2>1, <2>2, <2>4 DEF InTransaction
    <3>3. order[o] \in LegalRow
      BY <1>2 DEF IInv, Tables, JobType
    <3> QED BY <1>1, <1>4, <3>1, <3>2, <3>3 DEF BatchHeld
  <2>9. JobHeld(d)' /\ ~InTransaction(d)'
    BY <1>4, <2>1, <2>7, <2>8 DEF JobHeld, InTransaction
  <2> QED BY <2>5, <2>6, <2>9, JobIInv
<1> QED BY <1>3, <1>4 DEF SelectBatch

\* What is locked for a transaction is in its last but one version, as it was read.
LEMMA UpdateBatchEffect ==
  ASSUME IInv, NEW d \in Jobs, UpdateBatch(d), NEW o \in Changed(d)
  PROVE  o \in DOMAIN batch[d] /\ order[o] = seen[d][o]
<1>1. job[d] = "update" /\ ~BatchRefused(d)
  BY DEF UpdateBatch, AtBatchUpdate
<1>2. o \in DOMAIN seen[d] /\ o \in DOMAIN batch[d] /\ o \in Orders
      /\ batch[d][o] # seen[d][o] /\ seen[d][o] \in OrderRow
  BY JobTypes DEF Changed, JobType
<1>3. BatchHeld(d, o) /\ order[o] \in LegalRow
  BY <1>2, JobTypes DEF JobHeld, IInv, Tables
<1>4. batch[d][o] \in LegalRow /\ batch[d][o].version = 3
      /\ (order[o] = batch[d][o] \/ DeliveredInto(order[o], batch[d][o]))
      /\ DeliveredInto(seen[d][o], batch[d][o]) /\ seen[d][o] \in LegalRow
  BY <1>2, <1>3 DEF BatchHeld
<1>5. ~VersionTaken(orderEvents, o, 3)
  BY <1>1, <1>4 DEF BatchRefused
<1>6. order[o].version # 3
  BY <1>2, <1>5, LoggedVersions DEF IInv, TypeOK
<1>7. DeliveredInto(order[o], batch[d][o])
  BY <1>4, <1>6
<1>8. order[o].store = seen[d][o].store /\ order[o].totalBill = seen[d][o].totalBill
      /\ order[o].paymentId = seen[d][o].paymentId
      /\ order[o].deliveryBatch = seen[d][o].deliveryBatch
      /\ order[o].version = 2 /\ seen[d][o].version = 2
  BY <1>4, <1>7 DEF DeliveredInto, GrowsInto
<1>9. order[o].delivered = FALSE /\ seen[d][o].delivered = FALSE
      /\ order[o] \in OrderRow /\ seen[d][o] \in OrderRow
  BY <1>3, <1>4, <1>8, LegalRowFacts, RowTypes
<1> QED BY <1>2, <1>8, <1>9, SameRow

\* Locking the rows of a batch.
LEMMA UpdateBatchIInv ==
  ASSUME IInv, NEW d \in Jobs, UpdateBatch(d), UNCHANGED <<now, orderingVars>>
  PROVE  IInv'
<1> DEFINE started == [o \in Changed(d) |-> [at |-> "load"]]
<1>1. job[d] = "update" /\ Become(d, "sagas") /\ saga' = [saga EXCEPT ![d] = started]
      /\ UNCHANGED <<order, orderEvents, vendor, vendorEvents, batch, seen, credited>>
  BY DEF UpdateBatch, AtBatchUpdate
<1>2. JobType(d) /\ JobHeld(d) /\ job \in [Jobs -> JobLabels]
  BY JobTypes, JobFunctions
<1>3. job'[d] = "sagas" /\ job' \in [Jobs -> JobLabels] /\ \A e \in Jobs \ {d} : job'[e] = job[e]
  BY <1>1, <1>2 DEF Become, JobLabels
<1>4. started \in [Changed(d) -> SagaState] /\ DOMAIN started = Changed(d)
  <2>1. [at |-> "load"] \in SagaState
    BY DEF SagaState
  <2> QED BY <2>1
<1> HIDE DEF started
<1>5. saga'[d] = started /\ saga' = [e \in Jobs |-> saga'[e]]
      /\ \A e \in Jobs \ {d} : saga'[e] = saga[e]
  BY <1>1, JobFunctions
<1>6. OthersKeep(d)
  BY <1>1, <1>3, <1>5, JobFunctions DEF OthersKeep
<1>7. Changed(d)' = Changed(d) /\ Changed(d) \subseteq DOMAIN batch[d]
  BY <1>1, <1>2 DEF Changed, JobType
<1>8. JobType(d)'
  BY <1>1, <1>2, <1>4, <1>5, <1>7 DEF JobType
<1>9. JobDomains(d)'
  BY <1>1, <1>2, <1>3, <1>4, <1>5, <1>7 DEF JobHeld, JobDomains, InTransaction
<1>10. ASSUME NEW o \in DOMAIN batch[d] PROVE BatchHeld(d, o)'
  <2>1. BatchHeld(d, o)
    BY <1>2 DEF JobHeld
  <2>2. o \in DOMAIN seen[d] /\ batch[d][o] # seen[d][o] => order[o] = seen[d][o]
    BY UpdateBatchEffect DEF Changed
  <2> QED BY <1>1, <1>3, <2>1, <2>2 DEF BatchHeld
<1>11. JobHeld(d)'
  BY <1>1, <1>9, <1>10 DEF JobHeld
<1>12. \A e \in Jobs \ {d} : InTransaction(e) => Changed(d)' \cap Changed(e) = {}
  BY <1>7 DEF UpdateBatch, AtBatchUpdate, OrderLocked
<1> QED BY <1>6, <1>8, <1>11, <1>12, JobIInv

\* Only a job in its transaction has sagas.
LEMMA SagaRuns ==
  ASSUME IInv, NEW d \in Jobs, NEW o \in DOMAIN saga[d]
  PROVE  /\ InTransaction(d) /\ o \in Changed(d) /\ DOMAIN saga[d] = Changed(d)
         /\ o \in DOMAIN batch[d] /\ o \in Orders /\ batch[d][o] \in LegalRow
         /\ batch[d][o].version = 3 /\ saga[d][o] \in SagaState
         /\ OwnerOfOrder(d, o) \in Vendors
         /\ order[o] = seen[d][o] /\ DeliveredInto(order[o], batch[d][o])
<1>1. InTransaction(d) /\ o \in Changed(d) /\ DOMAIN saga[d] = Changed(d)
      /\ o \in DOMAIN batch[d] /\ o \in Orders /\ saga[d][o] \in SagaState
  BY JobTypes DEF JobHeld, JobDomains, JobType
<1>2. BatchHeld(d, o)
  BY <1>1, JobTypes DEF JobHeld
<1>3. batch[d][o] \in LegalRow /\ batch[d][o].version = 3
      /\ order[o] = seen[d][o] /\ DeliveredInto(order[o], batch[d][o])
  BY <1>1, <1>2 DEF BatchHeld, Changed
<1>4. batch[d][o].store \in Stores
  BY <1>3, LegalRowFacts
<1> QED BY <1>1, <1>3, <1>4, ConstantTypes DEF OwnerOfOrder

\* A step of the saga of one order.
LEMMA SagaIInv ==
  ASSUME IInv, NEW d \in Jobs, NEW o \in DOMAIN saga[d], NEW state \in SagaState,
         saga' = [saga EXCEPT ![d][o] = state],
         UNCHANGED <<order, orderEvents, now, orderingVars, vendor, vendorEvents, job, batch, seen>>,
         credited' \in [Jobs -> [vendor : [Vendors -> VendorRow], events : SUBSET CreditEvent]]
  PROVE  IInv'
<1>1. JobType(d) /\ JobHeld(d)
  BY JobTypes
<1>2. saga'[d] = [saga[d] EXCEPT ![o] = state] /\ saga' = [e \in Jobs |-> saga'[e]]
      /\ \A e \in Jobs \ {d} : saga'[e] = saga[e]
  BY JobFunctions
<1>3. DOMAIN saga'[d] = DOMAIN saga[d] /\ saga'[d] \in [DOMAIN saga[d] -> SagaState]
  BY <1>1, <1>2 DEF JobType
<1>4. OthersKeep(d)
  BY <1>2, JobFunctions DEF OthersKeep
<1>5. JobType(d)'
  BY <1>1, <1>3 DEF JobType
<1>6. JobDomains(d)'
  BY <1>1, <1>3 DEF JobHeld, JobDomains, InTransaction, Changed
<1>7. \A p \in DOMAIN batch[d] : BatchHeld(d, p)'
  BY <1>1 DEF JobHeld, BatchHeld, InTransaction
<1>8. \A e \in Jobs \ {d} : InTransaction(e) => Changed(d)' \cap Changed(e) = {}
  BY SagaRuns DEF IInv, JobMemory, OrdersAreLocked, Changed
<1> QED BY <1>4, <1>5, <1>6, <1>7, <1>8, JobIInv DEF JobHeld

\* The rows of vendors that a transaction sees.
LEMMA VisibleVendorType ==
  ASSUME IInv, NEW d \in Jobs, NEW v \in Vendors
  PROVE  VisibleVendor(d, v) \in VendorRow /\ credited[d].vendor[v] \in VendorRow
  BY JobFunctions DEF VisibleVendor

\* Earnings are natural numbers.
LEMMA EarningType ==
  ASSUME NEW row, row.totalBill \in Nat
  PROVE  vendorEarning(row) \in Nat
<1>1. SplitNumerator \in Nat /\ SplitDenominator \in Nat \ {0}
  BY SplitAssumption
<1>2. \A a, b \in Nat : a * b \in Nat
  OBVIOUS
<1>3. \A a \in Nat, b \in Nat \ {0} : a \div b \in Nat
  OBVIOUS
<1> QED BY <1>1, <1>2, <1>3 DEF vendorEarning

\* A credit gives a vendor's row.
LEMMA CreditedRow ==
  ASSUME NEW row \in VendorRow, NEW amount \in Nat
  PROVE  LET new == VendorCredited(row, amount)
         IN  new \in VendorRow /\ new.version = row.version + 1
             /\ new.earningBalance = row.earningBalance + amount
  BY DEF VendorCredited, VendorRow, nextVersion

\* The saga of an order loads its vendor and credits it.
LEMMA LoadVendorIInv ==
  ASSUME IInv, NEW d \in Jobs, NEW o \in DOMAIN saga[d], LoadVendor(d, o),
         UNCHANGED <<now, orderingVars>>
  PROVE  IInv'
<1> DEFINE read == VisibleVendor(d, OwnerOfOrder(d, o))
           mine == VendorCredited(read, vendorEarning(batch[d][o]))
           state == [at |-> "select", mine |-> mine]
<1>1. read \in VendorRow
  BY SagaRuns, VisibleVendorType
<1>2. vendorEarning(batch[d][o]) \in Nat
  BY SagaRuns, LegalRowFacts, RowTypes, EarningType
<1>3. mine \in VendorRow
  BY <1>1, <1>2, CreditedRow
<1>4. saga' = [saga EXCEPT ![d][o] = state]
      /\ UNCHANGED <<order, orderEvents, vendor, vendorEvents, job, batch, seen, credited>>
  BY DEF LoadVendor
<1> HIDE DEF mine
<1>5. state \in SagaState
  BY <1>3 DEF SagaState
<1> HIDE DEF state
<1> QED BY <1>4, <1>5, SagaIInv, JobFunctions

\* It reads the vendor again.
LEMMA SelectVendorIInv ==
  ASSUME IInv, NEW d \in Jobs, NEW o \in DOMAIN saga[d], SelectVendor(d, o),
         UNCHANGED <<now, orderingVars>>
  PROVE  IInv'
<1> DEFINE read == VisibleVendor(d, OwnerOfOrder(d, o))
           mine == saga[d][o].mine
           done == [at |-> "done"]
           update == [at |-> "update", mine |-> mine, read |-> read]
           state == IF mine = read THEN done ELSE update
<1>1. saga[d][o].at = "select" /\ saga' = [saga EXCEPT ![d][o] = state]
      /\ UNCHANGED <<order, orderEvents, vendor, vendorEvents, job, batch, seen, credited>>
  BY DEF SelectVendor
<1>2. read \in VendorRow /\ mine \in VendorRow
  BY <1>1, SagaRuns, VisibleVendorType DEF SagaState
<1> HIDE DEF read, mine
<1>3. done \in SagaState /\ update \in SagaState
  BY <1>2 DEF SagaState
<1> HIDE DEF done, update
<1>4. state \in SagaState
  BY <1>3
<1> HIDE DEF state
<1> QED BY <1>1, <1>4, SagaIInv, JobFunctions

\* A transaction writes one vendor's row and one event more.
WritesCredit(d, v, row, event) ==
  /\ credited' \in [Jobs -> [vendor : [Vendors -> VendorRow], events : SUBSET CreditEvent]]
  /\ credited'[d].vendor[v] = row
  /\ \A w \in Vendors \ {v} : credited'[d].vendor[w] = credited[d].vendor[w]
  /\ credited'[d].events = credited[d].events \cup {event}
  /\ \A e \in Jobs \ {d} : credited'[e] = credited[e]

\* What a transaction has written of a vendor.
LEMMA CreditWritten ==
  ASSUME credited \in [Jobs -> [vendor : [Vendors -> VendorRow], events : SUBSET CreditEvent]],
         NEW d \in Jobs, NEW v \in Vendors, NEW row \in VendorRow, NEW event \in CreditEvent,
         credited' = [credited EXCEPT ![d].vendor[v] = row, ![d].events = @ \cup {event}]
  PROVE  WritesCredit(d, v, row, event)
<1> DEFINE Written1 == [vendor : [Vendors -> VendorRow], events : SUBSET CreditEvent]
           one == [credited EXCEPT ![d].vendor[v] = row]
           rows == [credited[d].vendor EXCEPT ![v] = row]
           events == credited[d].events \cup {event}
<1>1. rows \in [Vendors -> VendorRow] /\ events \in SUBSET CreditEvent
  OBVIOUS
<1>2. one \in [Jobs -> Written1] /\ one[d].vendor = rows /\ one[d].events = credited[d].events
      /\ \A e \in Jobs \ {d} : one[e] = credited[e]
  <2>1. one = [credited EXCEPT ![d] = [@ EXCEPT !.vendor = rows]]
    OBVIOUS
  <2> HIDE DEF one, rows
  <2> QED BY <1>1, <2>1
<1>3. credited' = [one EXCEPT ![d].events = events]
  BY <1>2
<1> HIDE DEF one, rows, events
<1>4. credited' = [one EXCEPT ![d] = [@ EXCEPT !.events = events]]
  BY <1>3
<1>5. credited' \in [Jobs -> Written1] /\ credited'[d].vendor = rows /\ credited'[d].events = events
      /\ \A e \in Jobs \ {d} : credited'[e] = credited[e]
  <2> DEFINE two == [one[d] EXCEPT !.events = events]
  <2>1. two \in Written1 /\ two.vendor = rows /\ two.events = events
    BY <1>1, <1>2
  <2>2. credited' = [one EXCEPT ![d] = two]
    BY <1>4
  <2> HIDE DEF two, Written1
  <2> QED BY <1>2, <2>1, <2>2
<1>6. rows[v] = row /\ \A w \in Vendors \ {v} : rows[w] = credited[d].vendor[w]
  BY DEF rows
<1> QED BY <1>5, <1>6 DEF events, WritesCredit

\* It writes the vendor, in the transaction of the batch.
LEMMA UpdateVendorIInv ==
  ASSUME IInv, NEW d \in Jobs, NEW o \in DOMAIN saga[d], UpdateVendor(d, o),
         UNCHANGED <<now, orderingVars>>
  PROVE  IInv'
<1> DEFINE v == OwnerOfOrder(d, o)
           mine == saga[d][o].mine
           read == saga[d][o].read
           row == MergedVendor(mine, read, VisibleVendor(d, v))
           event == VendorEvent(v, mine, vendorEarning(batch[d][o]))
           state == [at |-> "done"]
<1>1. saga[d][o].at = "update" /\ saga' = [saga EXCEPT ![d][o] = state]
      /\ UNCHANGED <<order, orderEvents, vendor, vendorEvents, job, batch, seen>>
      /\ credited' = [credited EXCEPT ![d].vendor[v] = row, ![d].events = @ \cup {event}]
  BY DEF UpdateVendor, AtVendorUpdate
<1>2. v \in Vendors /\ mine \in VendorRow /\ read \in VendorRow /\ VisibleVendor(d, v) \in VendorRow
  BY <1>1, SagaRuns, VisibleVendorType DEF SagaState
<1>3. row \in VendorRow
  BY <1>2 DEF MergedVendor, Written, VendorRow
<1>4. vendorEarning(batch[d][o]) \in Nat
  BY SagaRuns, LegalRowFacts, RowTypes, EarningType
<1> HIDE DEF v, mine, read
<1>5. event \in CreditEvent
  BY <1>2, <1>4 DEF CreditEvent, VendorEvent, VendorRow
<1>6. state \in SagaState
  BY DEF SagaState
<1> HIDE DEF row, event, state
<1>7. credited' \in [Jobs -> [vendor : [Vendors -> VendorRow], events : SUBSET CreditEvent]]
  <2>1. credited \in [Jobs -> [vendor : [Vendors -> VendorRow], events : SUBSET CreditEvent]]
    BY JobFunctions
  <2>2. WritesCredit(d, v, row, event)
    BY <1>1, <1>2, <1>3, <1>5, <2>1, CreditWritten
  <2> QED BY <2>2 DEF WritesCredit
<1> QED BY <1>1, <1>6, <1>7, SagaIInv

\* What the commit of a batch does to orders: each that it changes is written as the
\* job holds it, one version ahead of its row.
LEMMA CommitBatchEffect ==
  ASSUME IInv, NEW d \in Jobs, CommitBatch(d)
  PROVE  /\ Changed(d) \subseteq Orders /\ Changed(d) \subseteq DOMAIN batch[d]
         /\ \A o \in Changed(d) :
              /\ order'[o] = batch[d][o] /\ order[o].version = 2 /\ order'[o].version = 3
              /\ order'[o] \in LegalRow /\ GrowsInto(order[o], order'[o])
              /\ order'[o].deliveryBatch <= now
         /\ \A o \in Orders \ Changed(d) : order'[o] = order[o]
         /\ order' \in [Orders -> LegalRow]
<1>1. InTransaction(d) /\ JobType(d) /\ JobHeld(d)
  BY JobTypes DEF CommitBatch
<1>2. Changed(d) \subseteq Orders /\ Changed(d) \subseteq DOMAIN batch[d]
  BY <1>1 DEF JobType, Changed
<1>3. ASSUME NEW o \in Changed(d)
      PROVE  /\ order'[o] = batch[d][o] /\ order[o].version = 2 /\ batch[d][o].version = 3
             /\ batch[d][o] \in LegalRow /\ GrowsInto(order[o], batch[d][o])
             /\ batch[d][o].deliveryBatch <= now
  <2>1. BatchHeld(d, o)
    BY <1>1, <1>2 DEF JobHeld
  <2>2. batch[d][o] \in LegalRow /\ order[o] = seen[d][o] /\ DeliveredInto(order[o], batch[d][o])
        /\ batch[d][o].deliveryBatch <= now
    BY <1>1, <2>1 DEF BatchHeld, Changed
  <2>3. order[o] \in OrderRow /\ batch[d][o] \in OrderRow
    BY <1>2, <2>2, LegalRowFacts DEF IInv, Tables
  <2>4. MergedOrder(batch[d][o], seen[d][o], order[o]) = batch[d][o]
    BY <2>2, <2>3, MergedOverSame
  <2>5. order'[o] = batch[d][o]
    BY <1>2, <2>4 DEF CommitBatch
  <2> QED BY <2>2, <2>5 DEF DeliveredInto
<1>4. \A o \in Orders \ Changed(d) : order'[o] = order[o]
  BY DEF CommitBatch
<1>5. order' = [o \in Orders |-> order'[o]]
  BY DEF CommitBatch
<1>6. order' \in [Orders -> LegalRow]
  BY <1>3, <1>4, <1>5 DEF IInv, Tables
<1> QED BY <1>2, <1>3, <1>4, <1>6

\* The commit of a batch.
LEMMA CommitBatchIInv ==
  ASSUME IInv, NEW d \in Jobs, CommitBatch(d), UNCHANGED <<now, orderingVars>>
  PROVE  IInv'
<1>1. /\ Changed(d) \subseteq Orders /\ Changed(d) \subseteq DOMAIN batch[d]
      /\ \A o \in Changed(d) :
           /\ order'[o] = batch[d][o] /\ order[o].version = 2 /\ order'[o].version = 3
           /\ order'[o] \in LegalRow /\ GrowsInto(order[o], order'[o])
           /\ order'[o].deliveryBatch <= now
      /\ \A o \in Orders \ Changed(d) : order'[o] = order[o]
      /\ order' \in [Orders -> LegalRow]
  BY CommitBatchEffect
<1>2. InTransaction(d) /\ Become(d, "find") /\ Forget({d})
      /\ charges' = charges /\ pc' = pc /\ work' = work /\ now' = now
  BY DEF CommitBatch, orderingVars
<1>3. \A o \in Orders : order[o] \in LegalRow /\ order'[o] \in LegalRow
                        /\ GrowsInto(order[o], order'[o])
  BY <1>1, GrowsReflexive DEF IInv, Tables
<1>4. OrderTypeOK' /\ Tables'
  <2>1. \A o \in Orders : IF o \in Changed(d) THEN order'[o].version = order[o].version + 1
                                              ELSE order'[o] = order[o]
    BY <1>1
  <2>2. EventTypeOf(3) = "OrderDelivered"
    BY DEF EventTypeOf
  <2>3. \A o \in Changed(d) : OrderEvent(o, batch[d][o], "OrderDelivered") =
                                OrderEvent(o, order'[o], EventTypeOf(order'[o].version))
    BY <1>1, <2>2
  <2>4. orderEvents' = orderEvents \cup
          {OrderEvent(o, order'[o], EventTypeOf(order'[o].version)) : o \in Changed(d)}
    BY <2>3 DEF CommitBatch
  <2>5. \A o \in Changed(d) : order'[o].version = 3 => order'[o].deliveryBatch <= now
    BY <1>1
  <2> QED BY <1>1, <1>2, <2>1, <2>4, <2>5, TablesAdvance DEF IInv, TypeOK
<1>5. OrderingTypeOK'
  BY <1>2 DEF IInv, TypeOK, OrderingTypeOK
<1>6. Memory'
  <2>1. ASSUME NEW q \in Requests PROVE Held(q)'
    <3>1. Held(q)
      BY DEF IInv, Memory
    <3>2. Placing(q) => order'[work[q].order] = order[work[q].order]
                        /\ \A p \in Requests \ {q} : work[p].order # work[q].order
      BY <1>1, <3>1 DEF Held, PlacingHeld, isNew
    <3> QED BY <1>2, <1>3, <3>1, <3>2, HeldGrows
  <2>2. ChargesAreOfRequests'
    BY <1>2 DEF IInv, Memory, ChargesAreOfRequests, ChargeOf, PaymentId
  <2>3. PaidByRequests'
    <3> SUFFICES ASSUME NEW o \in Orders, hasBillPaid(order'[o])
                 PROVE  \E r \in Requests : HasPaid(r)' /\ work'[r].order = o
      BY DEF PaidByRequests
    <3>1. hasBillPaid(order[o])
      BY <1>1, <1>3, LegalRowFacts DEF hasBillPaid
    <3> QED BY <1>2, <3>1 DEF IInv, Memory, PaidByRequests, HasPaid
  <2> QED BY <2>1, <2>2, <2>3 DEF Memory
<1>7. job' \in [Jobs -> JobLabels] /\ job'[d] = "find" /\ \A e \in Jobs \ {d} : job'[e] = job[e]
  BY <1>2, JobFunctions DEF Become, JobLabels
<1>8. batch'[d] = None /\ seen'[d] = None /\ saga'[d] = None
      /\ batch' = [e \in Jobs |-> batch'[e]] /\ seen' = [e \in Jobs |-> seen'[e]]
      /\ saga' = [e \in Jobs |-> saga'[e]]
      /\ \A e \in Jobs \ {d} : batch'[e] = batch[e] /\ seen'[e] = seen[e] /\ saga'[e] = saga[e]
  <2> HIDE DEF None
  <2> QED BY <1>2 DEF Forget
<1>9. credited' \in [Jobs -> [vendor : [Vendors -> VendorRow], events : SUBSET CreditEvent]]
  BY <1>2, ForgetType
<1>10. ASSUME NEW e \in Jobs PROVE JobType(e)' /\ JobHeld(e)'
  <2>1. CASE e = d
    <3>1. DOMAIN None = {} /\ None = [o \in DOMAIN None |-> None[o]]
      BY DEF None
    <3> QED BY <1>7, <1>8, <2>1, <3>1, EmptyJob
  <2>2. CASE e # d
    <3>1. JobType(e) /\ JobHeld(e) /\ job'[e] = job[e] /\ batch'[e] = batch[e]
          /\ seen'[e] = seen[e] /\ saga'[e] = saga[e]
      BY <1>7, <1>8, <2>2, JobTypes
    <3>2. JobType(e)'
      BY <3>1 DEF JobType
    <3>3. JobDomains(e)'
      BY <3>1 DEF JobHeld, JobDomains, InTransaction, Changed
    <3>4. ASSUME NEW o \in DOMAIN batch[e] PROVE BatchHeld(e, o)'
      <4>1. BatchHeld(e, o) /\ o \in Orders /\ now \in Nat
        BY <3>1 DEF JobHeld, JobType, IInv, TypeOK, OrderTypeOK
      <4>2. InTransaction(e) /\ o \in Changed(e) => order'[o] = order[o]
        BY <1>1, <1>2, <2>2, <4>1 DEF IInv, JobMemory, OrdersAreLocked
      <4> QED BY <1>2, <1>3, <3>1, <4>1, <4>2, BatchGrows
    <3> QED BY <3>1, <3>2, <3>3, <3>4 DEF JobHeld
  <2> QED BY <2>1, <2>2
<1>11. DeliveryTypeOK'
  <2>1. vendor' \in [Vendors -> VendorRow]
    BY VisibleVendorType DEF CommitBatch
  <2>2. vendorEvents' \in SUBSET [aggregateId : Vendors, version : Nat, amount : Nat]
    BY JobFunctions DEF CommitBatch, CreditEvent, IInv, TypeOK, DeliveryTypeOK
  <2>3. \A e \in Jobs : credited'[e].vendor \in [Vendors -> VendorRow]
    BY <1>9
  <2> QED BY <1>7, <1>10, <2>1, <2>2, <2>3 DEF DeliveryTypeOK, JobType, JobLabels
<1>12. JobMemory'
  <2>1. JobsTypeOK'
    BY <1>8, <1>9, <1>10 DEF JobsTypeOK, JobType
  <2>2. OrdersAreLocked'
    <3> SUFFICES ASSUME NEW e \in Jobs, NEW f \in Jobs, e # f, InTransaction(e)', InTransaction(f)'
                 PROVE  Changed(e)' \cap Changed(f)' = {}
      BY DEF OrdersAreLocked
    <3>1. e # d /\ f # d
      BY <1>7 DEF InTransaction
    <3> QED BY <1>7, <1>8, <3>1 DEF IInv, JobMemory, OrdersAreLocked, InTransaction, Changed
  <2> QED BY <1>10, <2>1, <2>2 DEF JobMemory
<1> QED BY <1>4, <1>5, <1>6, <1>11, <1>12 DEF IInv, TypeOK

------------------------------------------------------------------------------
(* The process.                                                             *)

\* Time passes.
LEMMA TickIInv == ASSUME IInv, Tick PROVE IInv'
<1>1. now \in Nat \ {0} /\ now' = now + 1 /\ UNCHANGED deliveryVars
      /\ order' = order /\ orderEvents' = orderEvents /\ charges' = charges /\ pc' = pc
      /\ work' = work
  BY DEF Tick, IInv, TypeOK, OrderTypeOK, orderingVars
<1>2. OrderTypeOK' /\ OrderingTypeOK' /\ DeliveryTypeOK'
  BY <1>1 DEF IInv, TypeOK, OrderTypeOK, OrderingTypeOK, DeliveryTypeOK, deliveryVars
<1>3. Tables'
  <2>1. (\A o \in Orders : order'[o] \in LegalRow) /\ LogIsComplete'
    BY <1>1 DEF IInv, Tables, LogIsComplete, VersionTaken
  <2>2. \A o \in Orders : order[o].deliveryBatch \in Nat
    BY LegalRowFacts, RowTypes DEF IInv, Tables
  <2>3. DeliveredIsDue'
    BY <1>1, <2>2 DEF IInv, Tables, DeliveredIsDue
  <2> QED BY <2>1, <2>3 DEF Tables
<1>4. ASSUME NEW q \in Requests PROVE Held(q)'
  <2>1. Held(q)
    BY DEF IInv, Memory
  <2>2. \A o \in Orders : order[o] \in LegalRow /\ GrowsInto(order[o], order[o])
    BY GrowsReflexive DEF IInv, Tables
  <2>3. Placing(q) => \A p \in Requests \ {q} : work[p].order # work[q].order
    BY <2>1 DEF Held, PlacingHeld
  <2> QED BY <1>1, <2>1, <2>2, <2>3, HeldGrows
<1>5. ChargesAreOfRequests' /\ PaidByRequests'
  BY <1>1 DEF IInv, Memory, ChargesAreOfRequests, ChargeOf, PaymentId, PaidByRequests, HasPaid
<1>6. JobMemory'
  BY <1>1, JobsUndisturbed
<1> QED BY <1>2, <1>3, <1>4, <1>5, <1>6 DEF IInv, TypeOK, Memory

\* The process dies: what it held is gone, what it wrote stands.
LEMMA ProcessDiesIInv == ASSUME IInv, ProcessDies PROVE IInv'
<1>1. order' = order /\ orderEvents' = orderEvents /\ now' = now /\ charges' = charges
      /\ work' = work /\ vendor' = vendor /\ vendorEvents' = vendorEvents
  BY DEF ProcessDies, OrderingDies, DeliveryDies
<1>2. pc' = [r \in Requests |-> IF pc[r] \in InFlight THEN "failed" ELSE pc[r]]
      /\ job' = [d \in Jobs |-> IF job[d] \in {"idle", "done"} THEN job[d] ELSE "dead"]
      /\ Forget(Jobs)
  BY DEF ProcessDies, OrderingDies, DeliveryDies
<1>3. OrderTypeOK' /\ Tables'
  BY <1>1 DEF IInv, TypeOK, OrderTypeOK, Tables, LogIsComplete, VersionTaken, DeliveredIsDue
<1>4. OrderingTypeOK'
  BY <1>1, <1>2 DEF IInv, TypeOK, OrderingTypeOK
<1>5. ASSUME NEW q \in Requests PROVE Held(q)'
  <2>1. Held(q)
    BY DEF IInv, Memory
  <2>2. CASE pc[q] \in InFlight
    <3>1. pc'[q] = "failed"
      BY <1>2, <2>2
    <3> QED BY <3>1 DEF Held, PlacingHeld, PlacedHeld, PayHeld, SaveHeld, PaidHeld, Placing,
            SavingPayment, HasPaid
  <2>3. CASE pc[q] \notin InFlight
    <3>1. pc'[q] = pc[q]
      BY <1>2, <2>3
    <3>2. \A o \in Orders : order[o] \in LegalRow /\ GrowsInto(order[o], order[o])
      BY GrowsReflexive DEF IInv, Tables
    <3>3. Placing(q) => \A p \in Requests \ {q} : work[p].order # work[q].order
      BY <2>1 DEF Held, PlacingHeld
    <3> QED BY <1>1, <2>1, <3>1, <3>2, <3>3, HeldGrows
  <2> QED BY <2>2, <2>3
<1>6. ChargesAreOfRequests'
  <2>1. \A r \in Requests : pc[r] \notin {"idle", "pay"} => pc'[r] \notin {"idle", "pay"}
    BY <1>2
  <2> QED BY <1>1, <2>1 DEF IInv, Memory, ChargesAreOfRequests, ChargeOf, PaymentId
<1>7. PaidByRequests'
  <2>1. \A r \in Requests : HasPaid(r) => HasPaid(r)'
    BY <1>1, <1>2 DEF HasPaid, InFlight
  <2> QED BY <1>1, <2>1 DEF IInv, Memory, PaidByRequests
<1>8. /\ batch' = [e \in Jobs |-> batch'[e]] /\ seen' = [e \in Jobs |-> seen'[e]]
      /\ saga' = [e \in Jobs |-> saga'[e]]
      /\ \A e \in Jobs : batch'[e] = None /\ seen'[e] = None /\ saga'[e] = None
  <2> HIDE DEF None
  <2> QED BY <1>2 DEF Forget
<1>9. job' \in [Jobs -> JobLabels]
      /\ \A e \in Jobs : job'[e] \notin {"select", "update", "sagas"}
  BY <1>2 DEF JobLabels
<1>10. ASSUME NEW e \in Jobs PROVE JobType(e)' /\ JobHeld(e)' /\ ~InTransaction(e)'
  <2>1. DOMAIN None = {} /\ None = [o \in DOMAIN None |-> None[o]]
    BY DEF None
  <2> QED BY <1>8, <1>9, <2>1, EmptyJob
<1>11. credited' \in [Jobs -> [vendor : [Vendors -> VendorRow], events : SUBSET CreditEvent]]
  BY <1>2, ForgetType
<1>12. DeliveryTypeOK'
  <2>1. vendor' \in [Vendors -> VendorRow]
        /\ vendorEvents' \in SUBSET [aggregateId : Vendors, version : Nat, amount : Nat]
    BY <1>1 DEF IInv, TypeOK, DeliveryTypeOK
  <2>2. \A e \in Jobs : credited'[e].vendor \in [Vendors -> VendorRow]
    BY <1>11
  <2> QED BY <1>9, <1>10, <2>1, <2>2 DEF DeliveryTypeOK, JobType, JobLabels
<1>13. JobMemory'
  BY <1>8, <1>10, <1>11 DEF JobMemory, JobsTypeOK, JobType, OrdersAreLocked
<1> QED BY <1>3, <1>4, <1>5, <1>6, <1>7, <1>12, <1>13 DEF IInv, TypeOK, Memory

\* It starts with empty tables and nothing in anyone's hands.
LEMMA InitIInv == Init => IInv
<1> SUFFICES ASSUME Init PROVE IInv
  OBVIOUS
<1>1. order = [o \in Orders |-> NoOrder] /\ orderEvents = {} /\ now = StartTime
      /\ charges = {} /\ pc = [r \in Requests |-> "idle"] /\ work = [r \in Requests |-> NoWork]
      /\ vendor = [v \in Vendors |-> [version |-> 2, earningBalance |-> 0]] /\ vendorEvents = {}
      /\ job = [d \in Jobs |-> "idle"] /\ batch = [d \in Jobs |-> None]
      /\ seen = [d \in Jobs |-> None] /\ saga = [d \in Jobs |-> None]
      /\ credited = [d \in Jobs |-> NothingCredited]
  BY DEF Init, OrderingInit, DeliveryInit
<1>2. NoOrder \in LegalRow /\ NoOrder \in OrderRow /\ NoOrder.version = 0
      /\ NoOrder.paymentId = NoPayment /\ NoOrder.delivered = FALSE
  BY NoOrderFacts, LegalRowFacts
<1>3. \A o \in Orders : order[o] = NoOrder
  BY <1>1
<1>4. OrderTypeOK
  <2> HIDE DEF NoOrder
  <2> QED BY <1>1, <1>2, BoundAssumption DEF OrderTypeOK
<1>5. OrderingTypeOK
  <2>1. NoWork \in Work
    BY NoWorkFacts
  <2> HIDE DEF NoWork
  <2>2. work \in [Requests -> Work] /\ pc \in [Requests -> Labels] /\ charges = {}
    BY <1>1, <2>1 DEF Labels
  <2> QED BY <2>2 DEF OrderingTypeOK, Work, Labels
<1>6. Tables
  BY <1>1, <1>2, <1>3 DEF Tables, LogIsComplete, DeliveredIsDue, hasBeenDelivered
<1>7. Memory
  <2>1. \A r \in Requests : pc[r] = "idle"
    BY <1>1
  <2>2. \A r \in Requests : Held(r)
    BY <2>1 DEF Held, PlacingHeld, PlacedHeld, PayHeld, SaveHeld, PaidHeld, Placing,
       SavingPayment, HasPaid
  <2>3. PaidByRequests
    BY <1>2, <1>3 DEF PaidByRequests, hasBillPaid
  <2> QED BY <1>1, <2>2, <2>3 DEF Memory, ChargesAreOfRequests
<1>8. NothingCredited \in [vendor : [Vendors -> VendorRow], events : SUBSET CreditEvent]
  BY DEF NothingCredited, NoVendorRow, VendorRow
<1>9. DOMAIN None = {} /\ None = [o \in DOMAIN None |-> None[o]]
  BY DEF None
<1> HIDE DEF NothingCredited, None
<1>10. credited \in [Jobs -> [vendor : [Vendors -> VendorRow], events : SUBSET CreditEvent]]
  BY <1>1, <1>8
<1>11. \A d \in Jobs : /\ job[d] = "idle" /\ batch[d] = None /\ seen[d] = None /\ saga[d] = None
                       /\ credited[d].vendor \in [Vendors -> VendorRow]
  BY <1>1, <1>10
<1>12. \A d \in Jobs : JobType(d) /\ JobHeld(d) /\ ~InTransaction(d)
  BY <1>9, <1>11 DEF JobType, JobHeld, JobDomains, InTransaction
<1>13. DeliveryTypeOK
  <2>1. vendor \in [Vendors -> VendorRow]
    BY <1>1 DEF VendorRow
  <2>2. job \in [Jobs -> JobLabels]
    BY <1>1 DEF JobLabels
  <2> QED BY <1>1, <1>11, <1>12, <2>1, <2>2 DEF DeliveryTypeOK, JobType, JobLabels
<1>14. JobMemory
  <2>1. /\ batch = [d \in Jobs |-> batch[d]] /\ seen = [d \in Jobs |-> seen[d]]
        /\ saga = [d \in Jobs |-> saga[d]]
    BY <1>1
  <2> QED BY <1>10, <1>12, <2>1 DEF JobMemory, JobsTypeOK, JobType, OrdersAreLocked
<1> QED BY <1>4, <1>5, <1>6, <1>7, <1>13, <1>14 DEF IInv, TypeOK

\* Nothing happens.
LEMMA StutterIInv == ASSUME IInv, UNCHANGED vars PROVE IInv'
<1>1. order' = order /\ orderEvents' = orderEvents /\ now' = now /\ UNCHANGED deliveryVars
      /\ charges' = charges /\ pc' = pc /\ work' = work /\ now \in Nat
  BY DEF vars, orderingVars, IInv, TypeOK, OrderTypeOK
<1>2. OrderTypeOK' /\ OrderingTypeOK' /\ DeliveryTypeOK'
  BY <1>1 DEF IInv, TypeOK, OrderTypeOK, OrderingTypeOK, DeliveryTypeOK, deliveryVars
<1>3. Tables'
  BY <1>1 DEF IInv, Tables, LogIsComplete, VersionTaken, DeliveredIsDue
<1>4. ASSUME NEW q \in Requests PROVE Held(q)'
  <2>1. Held(q)
    BY DEF IInv, Memory
  <2>2. \A o \in Orders : order[o] \in LegalRow /\ GrowsInto(order[o], order[o])
    BY GrowsReflexive DEF IInv, Tables
  <2>3. Placing(q) => \A p \in Requests \ {q} : work[p].order # work[q].order
    BY <2>1 DEF Held, PlacingHeld
  <2> QED BY <1>1, <2>1, <2>2, <2>3, HeldGrows
<1>5. ChargesAreOfRequests' /\ PaidByRequests'
  BY <1>1 DEF IInv, Memory, ChargesAreOfRequests, ChargeOf, PaymentId, PaidByRequests, HasPaid
<1>6. JobMemory'
  BY <1>1, JobsUndisturbed
<1> QED BY <1>2, <1>3, <1>4, <1>5, <1>6 DEF IInv, TypeOK, Memory

\* Every step keeps the invariant.
LEMMA NextIInv == IInv /\ [Next]_vars => IInv'
<1> SUFFICES ASSUME IInv, [Next]_vars PROVE IInv'
  OBVIOUS
<1>1. ASSUME NEW r \in Requests, UNCHANGED <<now, deliveryVars>>,
             \/ \E basket \in Baskets, o \in Orders : orderFood(r, basket, o)
             \/ \E o \in Orders, card \in BOOLEAN : makeOrderPayment(r, o, card)
             \/ OrderingStep(r)
      PROVE  IInv'
  <2>1. CASE \E basket \in Baskets, o \in Orders : orderFood(r, basket, o)
    BY <1>1, <2>1, orderFoodIInv
  <2>2. CASE \E o \in Orders, card \in BOOLEAN : makeOrderPayment(r, o, card)
    BY <1>1, <2>2, makeOrderPaymentIInv
  <2>3. CASE PaymentFails(r)
    BY <1>1, <2>3, PaymentFailsIInv
  <2>4. CASE PaymentSucceeds(r)
    BY <1>1, <2>4, PaymentSucceedsIInv
  <2>5. CASE SelectOrder(r)
    BY <1>1, <2>5, SelectOrderIInv
  <2>6. CASE CommitOrder(r)
    BY <1>1, <2>6, CommitOrderIInv
  <2>7. CASE RollbackOrder(r)
    BY <1>1, <2>7, RollbackOrderIInv
  <2> QED BY <1>1, <2>1, <2>2, <2>3, <2>4, <2>5, <2>6, <2>7 DEF OrderingStep
<1>2. ASSUME NEW d \in Jobs, UNCHANGED <<now, orderingVars>>,
             deliveryNextOrder(d) \/ DeliveryStep(d)
      PROVE  IInv'
  <2>1. CASE deliveryNextOrder(d) \/ countPendingDelivery(d)
    BY <1>2, <2>1, deliveryNextOrderIInv
  <2>2. CASE findManyPendingDelivery(d)
    BY <1>2, <2>2, findManyPendingDeliveryIInv
  <2>3. CASE SelectBatch(d)
    BY <1>2, <2>3, SelectBatchIInv
  <2>4. CASE UpdateBatch(d)
    BY <1>2, <2>4, UpdateBatchIInv
  <2>5. CASE \E o \in DOMAIN saga[d] : LoadVendor(d, o) \/ SelectVendor(d, o) \/ UpdateVendor(d, o)
    BY <1>2, <2>5, LoadVendorIInv, SelectVendorIInv, UpdateVendorIInv
  <2>6. CASE CommitBatch(d)
    BY <1>2, <2>6, CommitBatchIInv
  <2> QED BY <1>2, <2>1, <2>2, <2>3, <2>4, <2>5, <2>6 DEF DeliveryStep
<1>3. CASE Tick
  BY <1>3, TickIInv
<1>4. CASE UnhandledRejection \/ Crash
  BY <1>4, ProcessDiesIInv DEF UnhandledRejection, Crash
<1>5. CASE UNCHANGED vars
  BY <1>5, StutterIInv
<1> QED BY <1>1, <1>2, <1>3, <1>4, <1>5 DEF Next, Run, OrderingNext, DeliveryNext

------------------------------------------------------------------------------
(* Theorems.                                                                *)

\* Whatever requests, jobs and crashes do, the invariant holds.
THEOREM Invariance == Spec => []IInv
<1>1. Init => IInv
  BY InitIInv
<1>2. IInv /\ [Next]_vars => IInv'
  BY NextIInv
<1> QED BY <1>1, <1>2, PTL DEF Spec

\* The order and vendor tables, their logs, the charges and what requests and jobs
\* hold in memory keep their types.
THEOREM TypeCorrect == Spec => []TypeOK
<1>1. IInv => TypeOK
  BY DEF IInv
<1> QED BY <1>1, Invariance, PTL

\* The log of an order says created, paid, delivered, in this order and each once, as
\* far as its row has got, whatever races and dies (entity.subscriber.ts, order.entity.ts).
THEOREM HistoryLegal == Spec => []OrderHistoryIsLegal
<1>1. IInv => OrderHistoryIsLegal
  BY HistoryFromLog DEF IInv, TypeOK
<1> QED BY <1>1, Invariance, PTL

\* No order is delivered before its batch is due, or unpaid (delivery.controller.ts).
THEOREM DeliveryIsDue == Spec => []DeliveredIsDue
<1>1. IInv => DeliveredIsDue
  BY DEF IInv, Tables
<1> QED BY <1>1, Invariance, PTL

\* A customer who is told that the order is paid has paid it, and no payment that races
\* or follows takes its place (ordering.controller.ts).
THEOREM AcknowledgedCounts == Spec => []AcknowledgedPaymentCounts
<1>1. IInv => AcknowledgedPaymentCounts
  <2> SUFFICES ASSUME IInv, NEW r \in Requests, HasPaid(r)
               PROVE  /\ order[work[r].order].paymentId = PaymentId(r)
                      /\ [order |-> work[r].order, paymentId |-> PaymentId(r)] \in charges
    BY DEF AcknowledgedPaymentCounts, HasPaid
  <2> QED BY DEF IInv, Memory, Held, PaidHeld, ChargeOf
<1> QED BY <1>1, Invariance, PTL

\* However often a request retries, it charges at most once (payment.service.ts, retry.ts).
THEOREM ChargesOnce == Spec => []RetryChargesOnce
<1>1. IInv => RetryChargesOnce
  <2> SUFFICES ASSUME IInv, NEW c \in charges, NEW d \in charges, c.paymentId[1] = d.paymentId[1]
               PROVE  c = d
    BY DEF RetryChargesOnce
  <2>1. PICK r \in Requests : c = ChargeOf(r)
    BY DEF IInv, Memory, ChargesAreOfRequests
  <2>2. PICK q \in Requests : d = ChargeOf(q)
    BY DEF IInv, Memory, ChargesAreOfRequests
  <2>3. c.paymentId[1] = r /\ d.paymentId[1] = q
    BY <2>1, <2>2 DEF ChargeOf, PaymentId
  <2> QED BY <2>1, <2>2, <2>3
<1> QED BY <1>1, Invariance, PTL

\* What a customer was told to have ordered is what is stored, whatever happens to it
\* later: each item is of its store and on its bill (order-bill-calculator.service.ts).
THEOREM OrderIsItsBasket == Spec => []OrderMatchesBasket
<1>1. IInv => OrderMatchesBasket
  <2> SUFFICES ASSUME IInv, NEW r \in Requests, pc[r] = "ok", work[r].op = "orderFood"
               PROVE  Fits(work[r].basket, order[work[r].order])
    BY DEF OrderMatchesBasket, Fits
  <2> QED BY DEF IInv, Memory, Held, PlacedHeld
<1> QED BY <1>1, Invariance, PTL
==============================================================================
