----------------------------- MODULE OrderTable -----------------------------
(***************************************************************************)
(* The Order aggregate: its table, its log and the commands on it, shared  *)
(* by Ordering and Delivery.                                               *)
(*                                                                         *)
(* At this commit no order can be saved.  Each fault that stops one is an  *)
(* element of Faults, tested where the code trips over it; `Repaired` says *)
(* which of them are taken as repaired.  Repaired = {} is the code as it   *)
(* is, Repaired = Faults the same code behind its faults.                  *)
(*                                                                         *)
(* A tick of the clock is one second.                                      *)
(***************************************************************************)
EXTENDS Persistence

CONSTANTS
  Orders,        \* the ids `new Order()` can draw
  Stores,
  Foods,         \* ids of food cooking spaces
  PaymentIds,    \* ids that payments can get
  NoStore,
  NoPayment,
  BatchInterval, \* Setting.order.batchIntervalInMs, in seconds
  Repaired

Faults ==
  {"food",        \* FoodCookingSpace is no @Entity: every use of its repository throws
   "stores",      \* findDistinctStore does not return the ids of stores
   "earnings",    \* OrderEarnings has nothing to validate, which validateDefined refuses
   "items",       \* @Length(each) on the items: validateAsync(order) throws
   "customer",    \* Customer.email is no @Column: getCustomerEmail() throws
   "credit",      \* VendorCredited never assigns its amount: add(undefined) throws
   "superAdmin"}  \* no SuperAdmin can be saved, and none has a balance

ASSUME RepairedAssumption == Repaired \subseteq Faults
ASSUME BatchAssumption == BatchInterval \in Nat \ {0}
ASSUME NullAssumption == NoStore \notin Stores /\ NoPayment \notin PaymentIds

VARIABLES
  order,       \* table order: id -> row
  orderEvents, \* table order_event
  now          \* the clock; 0 is `null`

Broken(fault) == fault \notin Repaired

\* beforeSave validates the order with its items, and throws.
ValidationThrows == Broken("items")

------------------------------------------------------------------------------
(* Rows and events.                                                         *)

NoOrder ==
  [version |-> 0, store |-> NoStore, totalBill |-> 0, paymentId |-> NoPayment,
   deliveryBatch |-> 0, delivered |-> FALSE]

hasBillPaid(row) == row.paymentId # NoPayment
hasBeenDelivered(row) == row.delivered

OrderCreated(store, totalBill) ==
  [NoOrder EXCEPT !.version = 1, !.store = store, !.totalBill = totalBill]

\* The number of the interval that comes next, taken for a number of seconds.
nextDeliveryBatch == now \div BatchInterval + 1

OrderBillPaid(row, paymentId) ==
  [row EXCEPT !.version = nextVersion(row), !.paymentId = paymentId,
              !.deliveryBatch = nextDeliveryBatch]

OrderDelivered(row) == [row EXCEPT !.version = nextVersion(row), !.delivered = TRUE]

OrderEvent(id, row, type) == [aggregateId |-> id, version |-> row.version, type |-> type]

\* The row after an UPDATE of the columns in which `mine` differs from `seen`.
MergedOrder(mine, seen, stored) ==
  [column \in DOMAIN stored |-> Written(mine[column], seen[column], stored[column])]

\* The query does not look at the batch.
PendingDeliveryOfAnyBatch == {o \in Orders : hasBillPaid(order[o]) /\ ~hasBeenDelivered(order[o])}

\* findManyPendingDelivery and countPendingDelivery: a null batch is never due.
PendingDelivery ==
  {o \in Orders : order[o].deliveryBatch \in 1..now /\ ~hasBeenDelivered(order[o])}

------------------------------------------------------------------------------
(* What a table without lost or invented history looks like.                *)

OrderRow ==
  [version : Nat, store : Stores \cup {NoStore}, totalBill : Nat,
   paymentId : PaymentIds \cup {NoPayment}, deliveryBatch : Nat, delivered : BOOLEAN]

OrderTypeOK ==
  /\ order \in [Orders -> OrderRow]
  /\ orderEvents \in SUBSET [aggregateId : Orders, version : Nat,
                             type : {"OrderCreated", "OrderBillPaid", "OrderDelivered"}]
  /\ now \in Nat \ {0}

\* The log of an order is created, paid, delivered, in this order and each once,
\* as far as its row has got.
OrderHistoryIsLegal ==
  \A o \in Orders :
    {<<e.version, e.type>> : e \in {f \in orderEvents : f.aggregateId = o}} =
      (IF isNew(order[o]) THEN {} ELSE {<<1, "OrderCreated">>})
        \cup (IF hasBillPaid(order[o]) THEN {<<2, "OrderBillPaid">>} ELSE {})
        \cup (IF hasBeenDelivered(order[o]) THEN {<<3, "OrderDelivered">>} ELSE {})

\* An order is delivered in its batch, never before.
DeliveredIsDue ==
  \A o \in Orders :
    hasBeenDelivered(order[o]) =>
      hasBillPaid(order[o]) /\ order[o].deliveryBatch <= now
==============================================================================
