------------------------------ MODULE Delivery ------------------------------
(***************************************************************************)
(* Delivering the orders that are due: OrderDeliveryController, and        *)
(* VendorEarningDisbursement, which credits the vendor of each order in    *)
(* the transaction that delivers its batch.                                *)
(*                                                                         *)
(* A POST admin/deliver is answered at once; a job it leaves behind goes   *)
(* on.  The sagas of a batch run side by side inside its transaction, one  *)
(* per order.  They send the same queries down the transaction's one       *)
(* connection, first in first out, so that none is a query ahead of        *)
(* another.  The writes show to other jobs at COMMIT only; the rows they   *)
(* are about stay locked until then.  A job that throws rejects a promise  *)
(* nobody handles: the process dies (JobThrows).                           *)
(*                                                                         *)
(* The balance of the super admin is left out: no SuperAdmin can be saved  *)
(* (fault "superAdmin"), and with the fault repaired its saga is taken to  *)
(* succeed.                                                                *)
(***************************************************************************)
EXTENDS OrderTable, FiniteSets, FiniteSetsExt

CONSTANTS
  Jobs,     \* deliveries the super admin asks for; each is started once
  Vendors,
  OwnerOf,  \* store -> the vendor that owns it
  MaxBatch, \* Setting.order.delivery.maxBatch
  SplitNumerator, SplitDenominator \* vendorToAdminSplit

ASSUME OwnerAssumption == OwnerOf \in [Stores -> Vendors]
ASSUME BatchSizeAssumption == MaxBatch \in Nat \ {0}
ASSUME SplitAssumption ==
  /\ SplitDenominator \in Nat \ {0}
  /\ SplitNumerator \in 0..SplitDenominator

VARIABLES
  vendor,       \* table vendor: id -> its version and balance
  vendorEvents, \* the VendorCredited events of table vendor_event
  job,          \* where each job is
  batch,        \* the orders each job has delivered in memory: id -> row
  seen,         \* their rows as save has read them
  saga,         \* what the saga of each order holds in memory
  credited      \* uncommitted: the vendor rows and events a job has written

deliveryVars == <<vendor, vendorEvents, job, batch, seen, saga, credited>>

------------------------------------------------------------------------------
(* Earnings.                                                                *)

vendorEarning(row) == (row.totalBill * SplitNumerator) \div SplitDenominator

VendorCredited(row, amount) ==
  [version |-> nextVersion(row), earningBalance |-> row.earningBalance + amount]

VendorEvent(v, row, amount) == [aggregateId |-> v, version |-> row.version, amount |-> amount]

MergedVendor(mine, read, stored) ==
  [column \in DOMAIN stored |-> Written(mine[column], read[column], stored[column])]

------------------------------------------------------------------------------
(* Jobs.                                                                    *)

None == [o \in {} |-> o]
NoVendorRow == [version |-> 0, earningBalance |-> 0]
NothingCredited == [vendor |-> [v \in Vendors |-> NoVendorRow], events |-> {}]

\* Verified vendors have two events behind them: created and verified.
DeliveryInit ==
  /\ vendor = [v \in Vendors |-> [version |-> 2, earningBalance |-> 0]]
  /\ vendorEvents = {}
  /\ job = [d \in Jobs |-> "idle"]
  /\ batch = [d \in Jobs |-> None]
  /\ seen = [d \in Jobs |-> None]
  /\ saga = [d \in Jobs |-> None]
  /\ credited = [d \in Jobs |-> NothingCredited]

Become(d, label) == job' = [job EXCEPT ![d] = label]

\* The orders of the batch whose stored rows differ from those in memory.
Changed(d) == {o \in DOMAIN seen[d] : batch[d][o] # seen[d][o]}

OwnerOfOrder(d, o) == OwnerOf[batch[d][o].store]

InTransaction(d) == job[d] = "sagas"

\* Another job's transaction has written, and so locks, the row.
OrderLocked(d, o) == \E e \in Jobs \ {d} : InTransaction(e) /\ o \in Changed(e)
LocksVendor(e, v) == ~isNew(credited[e].vendor[v])
VendorLocked(d, v) == \E e \in Jobs \ {d} : LocksVendor(e, v)

\* What the transaction of a job sees of a vendor: its own writes, or the table.
VisibleVendor(d, v) == IF LocksVendor(d, v) THEN credited[d].vendor[v] ELSE vendor[v]

\* What these jobs hold in memory or have not committed is gone.
Forget(jobs) ==
  /\ batch' = [d \in Jobs |-> IF d \in jobs THEN None ELSE batch[d]]
  /\ seen' = [d \in Jobs |-> IF d \in jobs THEN None ELSE seen[d]]
  /\ saga' = [d \in Jobs |-> IF d \in jobs THEN None ELSE saga[d]]
  /\ credited' = [d \in Jobs |-> IF d \in jobs THEN NothingCredited ELSE credited[d]]

\* POST admin/deliver: the job starts by counting what is due.
deliveryNextOrder(d) ==
  /\ job[d] = "idle"
  /\ Become(d, "count")
  /\ UNCHANGED <<order, orderEvents, vendor, vendorEvents, batch, seen, saga, credited>>

\* Nothing is due: the job ends.  Otherwise it never does, `offset` stays 0.
countPendingDelivery(d) ==
  /\ job[d] = "count"
  /\ Become(d, IF PendingDelivery = {} THEN "done" ELSE "find")
  /\ UNCHANGED <<order, orderEvents, vendor, vendorEvents, batch, seen, saga, credited>>

\* Load up to MaxBatch due orders, any of them, and deliver them in memory.  When
\* there is none the job asks again, which changes nothing.
findManyPendingDelivery(d) ==
  /\ job[d] = "find"
  /\ \E found \in kSubset(Min({MaxBatch, Cardinality(PendingDelivery)}), PendingDelivery) :
       /\ found # {}
       /\ batch' = [batch EXCEPT ![d] = [o \in found |-> OrderDelivered(order[o])]]
       /\ Become(d, "select")
       /\ UNCHANGED <<order, orderEvents, vendor, vendorEvents, seen, saga, credited>>

\* saveAll, first half: read the stored rows.  When none differs, since another
\* job has delivered them all, nothing is written.
SelectBatch(d) ==
  LET stored == [o \in DOMAIN batch[d] |-> order[o]]
  IN  /\ job[d] = "select"
      /\ IF batch[d] = stored THEN Become(d, "find") /\ Forget({d})
         ELSE /\ seen' = [seen EXCEPT ![d] = stored]
              /\ Become(d, "update")
              /\ UNCHANGED <<batch, saga, credited>>
      /\ UNCHANGED <<order, orderEvents, vendor, vendorEvents>>

\* It waits for the locks of other jobs.
AtBatchUpdate(d) == job[d] = "update" /\ \A o \in Changed(d) : ~OrderLocked(d, o)

\* No unique constraint on the log of orders.
BatchRefusedUnlessValid(d) == ValidationThrows

BatchRefused(d) ==
  \/ ValidationThrows
  \/ \E o \in Changed(d) : VersionTaken(orderEvents, o, batch[d][o].version)

\* Second half: lock and update the rows, and insert the events; each starts the
\* saga of its order.
UpdateBatch(d) ==
  /\ AtBatchUpdate(d)
  /\ ~BatchRefused(d)
  /\ saga' = [saga EXCEPT ![d] = [o \in Changed(d) |-> [at |-> "load"]]]
  /\ Become(d, "sagas")
  /\ UNCHANGED <<order, orderEvents, vendor, vendorEvents, batch, seen, credited>>

\* credit() throws, in one of the two sagas of the order.
SagaThrows == Broken("credit") \/ Broken("superAdmin")

\* The saga of one order loads the vendor and credits it in memory.
LoadVendor(d, o) ==
  LET mine == VendorCredited(VisibleVendor(d, OwnerOfOrder(d, o)), vendorEarning(batch[d][o]))
  IN  /\ saga[d][o].at = "load"
      /\ ~SagaThrows
      /\ saga' = [saga EXCEPT ![d][o] = [at |-> "select", mine |-> mine]]
      /\ UNCHANGED <<order, orderEvents, vendor, vendorEvents, job, batch, seen, credited>>

\* No saga of the job has a query at one of these places before it in the connection.
NoneBehind(d, places) == \A o \in DOMAIN saga[d] : saga[d][o].at \notin places

\* save of the vendor, first half: with no difference, nothing is written.
SelectVendor(d, o) ==
  LET read == VisibleVendor(d, OwnerOfOrder(d, o))
      mine == saga[d][o].mine
  IN  /\ saga[d][o].at = "select" /\ NoneBehind(d, {"load"})
      /\ saga' = [saga EXCEPT ![d][o] =
                    IF mine = read THEN [at |-> "done"]
                    ELSE [at |-> "update", mine |-> mine, read |-> read]]
      /\ UNCHANGED <<order, orderEvents, vendor, vendorEvents, job, batch, seen, credited>>

AtVendorUpdate(d, o) ==
  /\ saga[d][o].at = "update" /\ NoneBehind(d, {"load", "select"})
  /\ ~VendorLocked(d, OwnerOfOrder(d, o))

\* The credits of a vendor have no unique constraint.
CreditAccepted(d, o) == FALSE

CreditRefused(d, o) ==
  VersionTaken(vendorEvents \cup credited[d].events, OwnerOfOrder(d, o), saga[d][o].mine.version)

\* Second half: lock and update its row, and insert the event.
UpdateVendor(d, o) ==
  LET v == OwnerOfOrder(d, o)
      mine == saga[d][o].mine
      row == MergedVendor(mine, saga[d][o].read, VisibleVendor(d, v))
  IN  /\ AtVendorUpdate(d, o)
      /\ ~CreditRefused(d, o)
      /\ credited' = [credited EXCEPT
           ![d].vendor[v] = row,
           ![d].events = @ \cup {VendorEvent(v, mine, vendorEarning(batch[d][o]))}]
      /\ saga' = [saga EXCEPT ![d][o] = [at |-> "done"]]
      /\ UNCHANGED <<order, orderEvents, vendor, vendorEvents, job, batch, seen>>

\* Nobody waits for the sagas.
SagasUnawaited(d) == TRUE

\* The subscriber hands the promises of its sagas back, and TypeORM awaits them.
SagasDone(d) == \A o \in Changed(d) : saga[d][o].at = "done"

\* The job ends with its first batch.
CommitOnlyBatch(d) ==
  /\ InTransaction(d)
  /\ SagasDone(d)
  /\ order' = [o \in Orders |->
       IF o \in Changed(d) THEN MergedOrder(batch[d][o], seen[d][o], order[o]) ELSE order[o]]
  /\ orderEvents' =
       orderEvents \cup {OrderEvent(o, batch[d][o], "OrderDelivered") : o \in Changed(d)}
  /\ vendor' = [v \in Vendors |-> VisibleVendor(d, v)]
  /\ vendorEvents' = vendorEvents \cup credited[d].events
  /\ Become(d, "done")
  /\ Forget({d})

\* COMMIT: the orders of the batch, their events, and all credits.
CommitBatch(d) ==
  /\ InTransaction(d)
  /\ SagasDone(d)
  /\ order' = [o \in Orders |->
       IF o \in Changed(d) THEN MergedOrder(batch[d][o], seen[d][o], order[o]) ELSE order[o]]
  /\ orderEvents' =
       orderEvents \cup {OrderEvent(o, batch[d][o], "OrderDelivered") : o \in Changed(d)}
  /\ vendor' = [v \in Vendors |-> VisibleVendor(d, v)]
  /\ vendorEvents' = vendorEvents \cup credited[d].events
  /\ Become(d, "find")
  /\ Forget({d})

\* Jobs whose updates wait for each other: PostgreSQL aborts one of them.  Two
\* batches lock their orders one by one, in no fixed order.
WaitsFor(d, e) ==
  \/ /\ job[d] = "update" /\ job[e] = "update"
     /\ Cardinality(Changed(d) \cap Changed(e)) > 1
  \/ \E o \in DOMAIN saga[d] :
       saga[d][o].at = "update" /\ d # e /\ LocksVendor(e, OwnerOfOrder(d, o))
Deadlocked(d) ==
  \E cycle \in SUBSET Jobs :
    d \in cycle /\ Cardinality(cycle) > 1 /\ \A e \in cycle : \E f \in cycle \ {e} : WaitsFor(e, f)

\* The job's transaction fails and is rolled back.
JobThrows(d) ==
  \/ AtBatchUpdate(d) /\ BatchRefused(d)
  \/ \E o \in DOMAIN saga[d] :
       \/ saga[d][o].at = "load" /\ SagaThrows
       \/ AtVendorUpdate(d, o) /\ CreditRefused(d, o)
  \/ Deadlocked(d)

DeliveryDies ==
  /\ job' = [d \in Jobs |-> IF job[d] \in {"idle", "done"} THEN job[d] ELSE "dead"]
  /\ Forget(Jobs)
  /\ UNCHANGED <<vendor, vendorEvents>>

DeliveryStep(d) ==
  \/ countPendingDelivery(d)
  \/ findManyPendingDelivery(d)
  \/ SelectBatch(d)
  \/ UpdateBatch(d)
  \/ \E o \in DOMAIN saga[d] : LoadVendor(d, o) \/ SelectVendor(d, o) \/ UpdateVendor(d, o)
  \/ CommitBatch(d)

DeliveryNext == \E d \in Jobs : deliveryNextOrder(d) \/ DeliveryStep(d)

------------------------------------------------------------------------------
(* Properties.                                                              *)

VendorRow == [version : Nat, earningBalance : Nat]

DeliveryTypeOK ==
  /\ vendor \in [Vendors -> VendorRow]
  /\ vendorEvents \in SUBSET [aggregateId : Vendors, version : Nat, amount : Nat]
  /\ job \in [Jobs -> {"idle", "count", "find", "select", "update", "sagas", "done", "dead"}]
  /\ \A d \in Jobs :
       /\ batch[d] \in [DOMAIN batch[d] -> OrderRow] /\ DOMAIN batch[d] \subseteq Orders
       /\ seen[d] \in [DOMAIN seen[d] -> OrderRow] /\ DOMAIN seen[d] \subseteq DOMAIN batch[d]
       /\ DOMAIN saga[d] \subseteq DOMAIN batch[d]
       /\ credited[d].vendor \in [Vendors -> VendorRow]

\* A vendor's balance is the sum of the credits in its log, one per version.
BalanceFollowsLog ==
  \A v \in Vendors :
    LET credits == {e \in vendorEvents : e.aggregateId = v}
    IN  /\ vendor[v].version = 2 + Cardinality(credits)
        /\ vendor[v].earningBalance = MapThenSumSet(LAMBDA e : e.amount, credits)

EarningsOf(v) ==
  MapThenSumSet(LAMBDA o : vendorEarning(order[o]),
                {o \in Orders : hasBeenDelivered(order[o]) /\ OwnerOf[order[o].store] = v})

\* However batches and their sagas interleave, no order is paid to its vendor
\* before it is delivered, or twice.
NeverOverpaid == \A v \in Vendors : vendor[v].earningBalance <= EarningsOf(v)

\* A job that has begun to deliver gets through all that is due, in as many batches
\* as it takes, unless it dies: it does not end with orders left over.
DueIsDelivered ==
  \A d \in Jobs, o \in Orders :
    (o \in PendingDelivery /\ job[d] = "find") ~> (hasBeenDelivered(order[o]) \/ job[d] = "dead")

\* delivery.controller.ts: orders are delivered in batches; none of them kills its job.
BatchesAreDelivered == \A d \in Jobs : job[d] # "dead"

\* README.md: vendors get their payment, for each order that has been delivered.
EarningsDisbursed == \A v \in Vendors : vendor[v].earningBalance = EarningsOf(v)
==============================================================================
