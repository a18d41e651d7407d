---------------------------- MODULE OrderPipeline ----------------------------
(***************************************************************************)
(* Orders from the basket to the vendor's balance: Ordering and Delivery   *)
(* in one process, over one order table.                                   *)
(***************************************************************************)
EXTENDS Ordering, Delivery

CONSTANTS
  StartTime, \* of the clock
  MaxTime,   \* its bound
  MayCrash   \* whether the process also dies by itself

ASSUME BoundAssumption ==
  StartTime \in Nat \ {0} /\ MaxTime \in Nat /\ MayCrash \in BOOLEAN

vars == <<order, orderEvents, now, orderingVars, deliveryVars>>

Init ==
  /\ order = [o \in Orders |-> NoOrder]
  /\ orderEvents = {}
  /\ now = StartTime
  /\ OrderingInit
  /\ DeliveryInit

ProcessDies ==
  /\ OrderingDies
  /\ DeliveryDies
  /\ UNCHANGED <<order, orderEvents, now>>

\* A job of deliveryNextOrder throws inside a promise that nobody awaits.
UnhandledRejection == \E d \in Jobs : JobThrows(d) /\ ProcessDies

Busy ==
  \/ \E r \in Requests : pc[r] \in InFlight
  \/ \E d \in Jobs : job[d] \notin {"idle", "done", "dead"}

Crash == MayCrash /\ Busy /\ ProcessDies

Tick ==
  /\ now < MaxTime
  /\ now' = now + 1
  /\ UNCHANGED <<order, orderEvents, orderingVars, deliveryVars>>

\* What happens while the process lives.
Run ==
  \/ OrderingNext /\ UNCHANGED <<now, deliveryVars>>
  \/ DeliveryNext /\ UNCHANGED <<now, orderingVars>>
  \/ Tick

Next == Run \/ UnhandledRejection \/ Crash

Spec == Init /\ [][Next]_vars

\* What goes on by itself: the event loop, PostgreSQL and the payment provider with
\* what they were asked, and the clock.
OrdersGoOn ==
  \/ \E r \in Requests : OrderingStep(r) /\ UNCHANGED <<now, deliveryVars>>
  \/ \E d \in Jobs : DeliveryStep(d) /\ UNCHANGED <<now, orderingVars>>
  \/ Tick

\* As long as something can go on, something does.
FairSpec == Spec /\ WF_vars(OrdersGoOn \/ UnhandledRejection)

------------------------------------------------------------------------------
(* Properties.                                                              *)

\* The order and vendor tables, their logs, the charges and what requests and
\* jobs hold in memory keep their types.
TypeOK == OrderTypeOK /\ OrderingTypeOK /\ DeliveryTypeOK

\* What all that races here comes to: OrderContract.  Payments that overtake each
\* other, batches that overlap and jobs that die are steps of it, or none.
Phase(row) ==
  IF isNew(row) THEN "absent"
  ELSE IF ~hasBillPaid(row) THEN "created"
  ELSE IF ~hasBeenDelivered(row) THEN "paid" ELSE "delivered"

Contract == INSTANCE OrderContract WITH
  phase <- [o \in Orders |-> Phase(order[o])],
  bill <- [o \in Orders |-> [store |-> order[o].store, totalBill |-> order[o].totalBill]],
  payment <- [o \in Orders |-> order[o].paymentId],
  balance <- [v \in Vendors |-> vendor[v].earningBalance],
  NoBill <- [store |-> NoStore, totalBill |-> 0],
  EarningOf <- vendorEarning

ImplementsContract == Contract!Spec
==============================================================================
