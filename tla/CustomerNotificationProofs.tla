---------------------- MODULE CustomerNotificationProofs ----------------------
(***************************************************************************)
(* CustomerNotification for any number of requests, orders and jobs, and   *)
(* any number of stalls.                                                   *)
(*                                                                         *)
(* The argument: the row lock and the unique constraint of the log let one *)
(* payment of an order insert its event, and none after one has committed. *)
(* So a promise that has started runs for a transaction that can only      *)
(* commit, or die with the process; and unless one died that had told the  *)
(* queue, an order has one promise in its life and the queue sees one job  *)
(* of it: the job's id, which Bull would take again once the job is        *)
(* completed, never is used twice.  A job that has not been sent has had   *)
(* as many mails as stalls.                                                *)
(***************************************************************************)
EXTENDS CustomerNotification, OrderPipelineProofs

------------------------------------------------------------------------------
(* The inductive invariant.                                                 *)

\* A promise that has started is that of a payment which has been charged; as long as
\* the payment is under way its order is not paid, and as long as the promise has not
\* been kept the queue has not heard of the order, unless from a payment that died.
PromiseHeld(r) ==
  LET o == work[r].order
  IN  promise[r] # "none" =>
        /\ work[r].op = "makeOrderPayment" /\ o \in Orders /\ ChargeOf(r) \in charges
        /\ pc[r] \in {"write", "ok", "failed"}
        /\ pc[r] = "write" => ~ValidationThrows /\ ~hasBillPaid(order[o])
        /\ promise[r] = "pending" => pc[r] # "failed"
        /\ promise[r] = "pending" /\ DiedTelling(o) = {} => queue[o].at = "none"

\* No two payments of one order are inserted and not committed.
OneInserts ==
  \A r, q \in Requests :
    HasInserted(r) /\ HasInserted(q) /\ work[r].order = work[q].order => r = q

\* The queue hears of an order from a promise.
QueuedIsTold ==
  \A o \in Orders :
    queue[o].at # "none" => \E r \in Requests : promise[r] = "settled" /\ work[r].order = o

\* As long as its job has not been sent, an order has had a mail for each stall.
MailsFit(o) ==
  /\ queue[o].at = "none" => mails[o] = 0
  /\ DiedTelling(o) = {} /\ queue[o].at \in {"delayed", "active"} => mails[o] <= queue[o].stalls
  /\ DiedTelling(o) = {} => mails[o] <= 1 + queue[o].stalls

NInv ==
  /\ NotifyTypeOK
  /\ \A r \in Requests : PromiseHeld(r)
  /\ OneInserts
  /\ QueuedIsTold
  /\ \A o \in Orders : MailsFit(o)

------------------------------------------------------------------------------
(* The orders under the notifications.                                      *)

\* What the process does to orders and requests, notifications left out.
OrderStep == [Next]_vars \/ ProcessDies

\* A step of the notifications is one of the orders, or none; a crash may find only
\* notifications to kill.
LEMMA NotifyStepIsOrderStep == [NotifyNext]_notifyVars => OrderStep
  BY DEF NotifyNext, notifyVars, OrderStep, Next, NotifyCrash, UnhandledRejection,
         NotificationStep, InsertOrderBillPaid, Schedule, TakeJob, sendMail, CompleteJob

\* Such a step keeps the invariant of the orders.
LEMMA OrderStepIInv == IInv /\ OrderStep => IInv'
  BY NextIInv, ProcessDiesIInv DEF OrderStep

\* A row that is paid: its version is two or more.
LEMMA PaidVersion ==
  ASSUME IInv, NEW o \in Orders
  PROVE  order[o].version \in 0..3 /\ (hasBillPaid(order[o]) <=> order[o].version >= 2)
  BY LegalRowFacts DEF IInv, Tables, hasBillPaid

\* The order of a request that has paid is paid.
LEMMA PayerHasPaid ==
  ASSUME IInv, NEW r \in Requests, HasPaid(r)
  PROVE  work[r].order \in Orders /\ hasBillPaid(order[work[r].order])
  BY PaidVersion DEF IInv, Memory, Held, PaidHeld

\* No two requests have paid for one order.
LEMMA OnePayer ==
  ASSUME IInv, NEW r \in Requests, NEW q \in Requests, HasPaid(r), HasPaid(q),
         work[r].order = work[q].order
  PROVE  r = q
  BY DEF IInv, Memory, Held, PaidHeld, PaymentId

\* A row changes when its payment or its creation commits; delivery finds it paid.
LEMMA RowAdvances ==
  ASSUME IInv, Run, NEW o \in Orders
  PROVE  \/ order'[o] = order[o]
         \/ hasBillPaid(order[o])
         \/ \E r \in Requests : CommitOrder(r) /\ work[r].order = o
<1>1. ASSUME NEW r \in Requests, CommitOrder(r), work[r].order # o PROVE order'[o] = order[o]
  <2> DEFINE row == work[r].entity
             q == work[r].order
  <2>1. order' = [order EXCEPT ![q] = row]
    BY <1>1, CommitOrderEffect
  <2>2. order \in [Orders -> OrderRow]
    BY DEF IInv, TypeOK, OrderTypeOK
  <2> HIDE DEF row
  <2> QED BY <1>1, <2>1, <2>2
<1>2. ASSUME NEW d \in Jobs, CommitBatch(d)
      PROVE  order'[o] = order[o] \/ hasBillPaid(order[o])
  <2>1. order'[o] = order[o] \/ order[o].version = 2
    BY <1>2, CommitBatchEffect
  <2> QED BY <2>1, PaidVersion
<1>3. \/ \E r \in Requests : CommitOrder(r)
      \/ \E d \in Jobs : CommitBatch(d)
      \/ order' = order
  <2>1. CASE Tick
    BY <2>1 DEF Tick
  <2>2. CASE OrderingNext
    BY <2>2 DEF OrderingNext, OrderingStep, orderFood, makeOrderPayment, Answer, PaymentFails,
                PaymentSucceeds, SelectOrder, RollbackOrder
  <2>3. CASE DeliveryNext
    BY <2>3 DEF DeliveryNext, DeliveryStep, deliveryNextOrder, countPendingDelivery,
                findManyPendingDelivery, SelectBatch, UpdateBatch, LoadVendor, SelectVendor,
                UpdateVendor
  <2> QED BY <2>1, <2>2, <2>3 DEF Run
<1> QED BY <1>1, <1>2, <1>3

\* As long as the process lives, no request gets out of its last save but by a commit or
\* a refusal, and none comes back from an answer.
LEMMA SavedStays ==
  ASSUME IInv, Run, NEW r \in Requests, pc[r] \in {"write", "ok", "failed"}
  PROVE  /\ work'[r] = work[r]
         /\ \/ pc'[r] = pc[r]
            \/ pc[r] = "write" /\ pc'[r] = "ok" /\ CommitOrder(r)
            \/ RollbackOrder(r)
<1>1. pc \in [Requests -> InFlight \cup {"idle", "rejected", "ok", "failed"}]
      /\ work = [q \in Requests |-> work[q]]
  BY DEF IInv, TypeOK, OrderingTypeOK
<1>2. ASSUME NEW q \in Requests,
             \/ \E basket \in Baskets, o \in Orders : orderFood(q, basket, o)
             \/ \E o \in Orders, card \in BOOLEAN : makeOrderPayment(q, o, card)
             \/ OrderingStep(q)
      PROVE  /\ work'[r] = work[r]
             /\ \/ pc'[r] = pc[r]
                \/ pc[r] = "write" /\ pc'[r] = "ok" /\ CommitOrder(r)
                \/ RollbackOrder(r)
  <2>1. \A label : Goto(q, label) => \A p \in Requests \ {q} : pc'[p] = pc[p]
    BY <1>1 DEF Goto
  <2>2. CASE \E basket \in Baskets, o \in Orders : orderFood(q, basket, o)
    BY <1>1, <2>1, <2>2 DEF orderFood, Answer
  <2>3. CASE \E o \in Orders, card \in BOOLEAN : makeOrderPayment(q, o, card)
    BY <1>1, <2>1, <2>3 DEF makeOrderPayment, Answer
  <2>4. CASE CommitOrder(q)
    BY <1>1, <2>1, <2>4 DEF CommitOrder, Goto
  <2>5. CASE RollbackOrder(q)
    BY <1>1, <2>1, <2>5 DEF RollbackOrder, Answer
  <2>6. CASE PaymentFails(q) \/ PaymentSucceeds(q) \/ SelectOrder(q)
    BY <1>1, <2>1, <2>6 DEF PaymentFails, PaymentSucceeds, SelectOrder
  <2> QED BY <1>2, <2>2, <2>3, <2>4, <2>5, <2>6 DEF OrderingStep
<1>3. CASE UNCHANGED <<pc, work>>
  BY <1>3
<1>4. UNCHANGED <<pc, work>> \/ OrderingNext
  BY DEF Run, Tick, orderingVars
<1> QED BY <1>2, <1>3, <1>4 DEF OrderingNext

\* What has been charged is not taken back.
LEMMA ChargesStand == ASSUME Run PROVE charges \subseteq charges'
<1>1. CASE OrderingNext
  BY <1>1 DEF OrderingNext, OrderingStep, orderFood, makeOrderPayment, Answer, PaymentFails,
              PaymentSucceeds, SelectOrder, CommitOrder, RollbackOrder
<1>2. CASE charges' = charges
  BY <1>2
<1>3. OrderingNext \/ charges' = charges
  BY DEF Run, Tick, orderingVars
<1> QED BY <1>1, <1>2, <1>3

\* An unpaid order whose payment is to be saved: the log will not refuse it.
LEMMA UnpaidIsNotRefused ==
  ASSUME IInv, NEW r \in Requests, pc[r] = "write", work[r].op = "makeOrderPayment"
  PROVE  /\ work[r].order \in Orders /\ ChargeOf(r) \in charges
         /\ ~OrderRefused(r) <=> ~ValidationThrows /\ ~hasBillPaid(order[work[r].order])
<1>1. SaveHeld(r) /\ SavingPayment(r)
  BY DEF IInv, Memory, Held, SavingPayment
<1>2. /\ work[r].order \in Orders /\ ChargeOf(r) \in charges /\ work[r].entity.version = 2
      /\ ~isNew(order[work[r].order])
  BY <1>1 DEF SaveHeld
<1>3. PICK o \in Orders : o = work[r].order
  BY <1>2
<1>4. VersionTaken(orderEvents, o, 2) <=> 2 \in 1..order[o].version
  BY LoggedVersions DEF IInv, TypeOK
<1>5. VersionTaken(orderEvents, o, 2) <=> hasBillPaid(order[o])
  BY <1>4, PaidVersion
<1> QED BY <1>2, <1>3, <1>5 DEF OrderRefused

------------------------------------------------------------------------------
(* The queue.                                                               *)

Job == [at : {"none", "delayed", "active", "sent", "completed", "failed"},
        ready : Nat, stalls : 0..MaxStalledCount]

\* The columns of a job, and the same job somewhere else.
LEMMA JobMoves ==
  ASSUME NEW j \in Job, NEW label \in {"delayed", "active", "sent", "completed", "failed"}
  PROVE  /\ j.stalls \in Nat
         /\ [j EXCEPT !.at = label] \in Job
         /\ [j EXCEPT !.at = label].at = label
         /\ [j EXCEPT !.at = label].stalls = j.stalls
  BY NotificationAssumption DEF Job

\* A stalled job waits again, with one more stall, or has failed.
LEMMA StalledJob ==
  ASSUME NEW j \in Job
  PROVE  /\ Stalled(j) \in Job
         /\ \/ Stalled(j).at = "delayed" /\ Stalled(j).stalls = j.stalls + 1
            \/ Stalled(j).at = "failed" /\ Stalled(j).stalls = j.stalls
<1>1. CASE j.stalls < MaxStalledCount
  <2> DEFINE n == j.stalls + 1
             k == [j EXCEPT !.at = "delayed"]
  <2>1. n \in 0..MaxStalledCount
    BY <1>1, NotificationAssumption DEF Job
  <2>2. Stalled(j) = [k EXCEPT !.stalls = n]
    BY <1>1 DEF Stalled, Job
  <2>3. k \in Job /\ k.at = "delayed"
    BY JobMoves
  <2> HIDE DEF k, n
  <2>4. Stalled(j) \in Job /\ Stalled(j).at = "delayed" /\ Stalled(j).stalls = n
    BY <2>1, <2>2, <2>3 DEF Job
  <2> QED BY <2>4 DEF n
<1>2. CASE ~(j.stalls < MaxStalledCount)
  <2>1. Stalled(j) = [j EXCEPT !.at = "failed"]
    BY <1>2 DEF Stalled
  <2>2. /\ [j EXCEPT !.at = "failed"] \in Job
        /\ [j EXCEPT !.at = "failed"].at = "failed"
        /\ [j EXCEPT !.at = "failed"].stalls = j.stalls
    BY JobMoves
  <2> QED BY <2>1, <2>2
<1> QED BY <1>1, <1>2

\* Where the parts of the notifications' state are.
LEMMA NotifyTypes ==
  ASSUME NInv
  PROVE  /\ queue \in [Orders -> Job] /\ mails \in [Orders -> Nat]
         /\ promise \in [Requests -> {"none", "pending", "settled", "lost"}]
         /\ \A o \in Orders : MailsFit(o)
  BY DEF NInv, NotifyTypeOK, Job

\* A promise whose payment is under way or committed does not share its order.
LEMMA OnePromise ==
  ASSUME IInv, NInv, NEW r \in Requests, NEW q \in Requests,
         promise[r] # "none", promise[q] # "none", pc[r] # "failed", pc[q] # "failed",
         work[r].order = work[q].order
  PROVE  r = q
<1>1. PromiseHeld(r) /\ PromiseHeld(q)
  BY DEF NInv
<1>2. CASE pc[r] = "write" /\ pc[q] = "write"
  BY <1>2 DEF NInv, OneInserts, HasInserted
<1>3. CASE pc[r] = "ok" /\ pc[q] = "ok"
  BY <1>1, <1>3, OnePayer DEF PromiseHeld, HasPaid
<1>4. CASE pc[r] = "ok" /\ pc[q] = "write"
  BY <1>1, <1>4, PayerHasPaid DEF PromiseHeld, HasPaid
<1>5. CASE pc[r] = "write" /\ pc[q] = "ok"
  BY <1>1, <1>5, PayerHasPaid DEF PromiseHeld, HasPaid
<1> QED BY <1>1, <1>2, <1>3, <1>4, <1>5 DEF PromiseHeld

------------------------------------------------------------------------------
(* The steps.                                                               *)

\* What the steps of the orders do to a promise that has started: nothing, but that
\* its payment commits.
LEMMA RunKeepsPromise ==
  ASSUME IInv, NInv, Run, CommitsInserted, NEW r \in Requests, promise[r] # "none"
  PROVE  /\ PromiseHeld(r) /\ promise'[r] = promise[r] /\ work'[r] = work[r]
         /\ pc'[r] = pc[r] \/ (pc[r] = "write" /\ pc'[r] = "ok")
<1>1. PromiseHeld(r) /\ promise'[r] = promise[r]
  BY DEF NInv, CommitsInserted, notificationVars
<1>2. pc[r] \in {"write", "ok", "failed"} /\ work[r].op = "makeOrderPayment"
  BY <1>1 DEF PromiseHeld
<1>3. pc[r] = "write" => ~OrderRefused(r)
  BY <1>1, <1>2, UnpaidIsNotRefused DEF PromiseHeld
<1>4. ~RollbackOrder(r)
  BY <1>3 DEF RollbackOrder
<1> QED BY <1>1, <1>2, <1>4, SavedStays

\* A payment that dies with its process has told the queue for ever.
LEMMA RunKeepsTelling ==
  ASSUME IInv, NInv, Run, CommitsInserted, NEW o \in Orders
  PROVE  DiedTelling(o) \subseteq DiedTelling(o)'
<1>1. ASSUME NEW r \in DiedTelling(o)
      PROVE  work'[r].order = o /\ promise'[r] = "settled" /\ pc'[r] = "failed"
  BY RunKeepsPromise DEF DiedTelling
<1> QED BY <1>1 DEF DiedTelling

\* An order whose payment is inserted stays unpaid until that commits: nobody else
\* inserts a payment of it, it is there already, and it is not delivered.
LEMMA RunKeepsUnpaid ==
  ASSUME IInv, NInv, Run, CommitsInserted, NEW r \in Requests, promise[r] # "none",
         pc'[r] = "write"
  PROVE  pc[r] = "write" /\ ~hasBillPaid(order'[work[r].order])
<1> DEFINE o == work[r].order
<1>1. PromiseHeld(r) /\ pc[r] = "write" /\ work[r].op = "makeOrderPayment"
  BY RunKeepsPromise DEF PromiseHeld
<1>2. o \in Orders /\ ~hasBillPaid(order[o])
  BY <1>1 DEF PromiseHeld
<1>3. ASSUME NEW q \in Requests, CommitOrder(q), work[q].order = o PROVE FALSE
  <2>1. pc[q] = "write" /\ pc'[q] = "ok" /\ q # r
    BY <1>3 DEF CommitOrder, Goto, IInv, TypeOK, OrderingTypeOK
  <2>2. CASE work[q].op = "makeOrderPayment"
    <3>1. HasInserted(q) /\ HasInserted(r)
      BY <1>1, <2>1, <2>2 DEF CommitsInserted, HasInserted
    <3> QED BY <1>3, <2>1, <3>1 DEF NInv, OneInserts
  <2>3. CASE work[q].op # "makeOrderPayment"
    <3>1. Placing(q) /\ PlacingHeld(q)
      BY <2>1, <2>3 DEF IInv, Memory, Held, Placing
    <3> QED BY <1>3, <2>1, <3>1 DEF PlacingHeld
  <2> QED BY <2>2, <2>3
<1>4. order'[o] = order[o]
  BY <1>2, <1>3, RowAdvances
<1> QED BY <1>1, <1>2, <1>4

\* A step of the orders.
LEMMA RunNInv ==
  ASSUME IInv, NInv, Run, CommitsInserted
  PROVE  NInv'
<1>1. promise' = promise /\ queue' = queue /\ mails' = mails
  BY DEF CommitsInserted, notificationVars
<1>2. NotifyTypeOK'
  BY <1>1 DEF NInv, NotifyTypeOK
<1>3. ASSUME NEW r \in Requests PROVE PromiseHeld(r)'
  <2> SUFFICES ASSUME promise[r] # "none" PROVE PromiseHeld(r)'
    BY <1>1 DEF PromiseHeld
  <2>1. PromiseHeld(r) /\ work'[r] = work[r] /\ (pc'[r] = pc[r] \/ (pc[r] = "write" /\ pc'[r] = "ok"))
    BY RunKeepsPromise
  <2>2. PICK o \in Orders : o = work[r].order
    BY <2>1 DEF PromiseHeld
  <2>3. /\ work[r].op = "makeOrderPayment" /\ ChargeOf(r) \in charges
        /\ pc[r] \in {"write", "ok", "failed"}
        /\ pc[r] = "write" => ~ValidationThrows
        /\ promise[r] = "pending" => pc[r] # "failed"
        /\ promise[r] = "pending" /\ DiedTelling(o) = {} => queue[o].at = "none"
    BY <2>1, <2>2 DEF PromiseHeld
  <2>4. ChargeOf(r)' = ChargeOf(r)
    BY <2>1 DEF ChargeOf, PaymentId
  <2>5. ChargeOf(r)' \in charges'
    BY <2>3, <2>4, ChargesStand
  <2>6. DiedTelling(o)' = {} => DiedTelling(o) = {}
    BY RunKeepsTelling
  <2>7. pc'[r] = "write" => ~ValidationThrows /\ ~hasBillPaid(order'[o])
    BY <2>1, <2>3, <2>2, RunKeepsUnpaid
  <2>8. work'[r].order = o /\ DiedTelling(work[r].order)' = DiedTelling(o)'
    BY <2>1, <2>2 DEF DiedTelling
  <2>9. promise'[r] = "pending" /\ DiedTelling(o)' = {} => queue'[o].at = "none"
    BY <1>1, <2>3, <2>6
  <2> QED BY <1>1, <2>1, <2>3, <2>5, <2>7, <2>8, <2>9 DEF PromiseHeld, ValidationThrows
<1>4. OneInserts'
  <2>1. ASSUME NEW r \in Requests, HasInserted(r)' PROVE HasInserted(r) /\ work'[r] = work[r]
    BY <1>1, <2>1, RunKeepsPromise, RunKeepsUnpaid DEF HasInserted
  <2> QED BY <2>1 DEF NInv, OneInserts
<1>5. QueuedIsTold'
  <2>1. ASSUME NEW r \in Requests, promise[r] = "settled" PROVE work'[r] = work[r]
    BY <2>1, RunKeepsPromise
  <2> QED BY <1>1, <2>1 DEF NInv, QueuedIsTold
<1>6. ASSUME NEW o \in Orders PROVE MailsFit(o)'
  <2>1. MailsFit(o) /\ (DiedTelling(o)' = {} => DiedTelling(o) = {})
    BY RunKeepsTelling DEF NInv
  <2> QED BY <1>1, <2>1 DEF MailsFit
<1> QED BY <1>2, <1>3, <1>4, <1>5, <1>6 DEF NInv

\* The payment that inserts its event is the first of its order that does, but for
\* those that died.
LEMMA InsertNInv ==
  ASSUME IInv, NInv, NEW r \in Requests, InsertOrderBillPaid(r)
  PROVE  NInv'
<1>1. /\ pc[r] = "write" /\ work[r].op = "makeOrderPayment" /\ promise[r] = "none"
      /\ ~PaymentLocked(r) /\ ~OrderRefused(r)
      /\ promise' = [promise EXCEPT ![r] = "pending"]
      /\ order' = order /\ orderEvents' = orderEvents /\ charges' = charges
      /\ pc' = pc /\ work' = work /\ queue' = queue /\ mails' = mails
  BY DEF InsertOrderBillPaid, vars, orderingVars
<1>2. promise' \in [Requests -> {"none", "pending", "settled", "lost"}]
      /\ promise'[r] = "pending" /\ \A q \in Requests \ {r} : promise'[q] = promise[q]
  BY <1>1, NotifyTypes
<1>3. /\ work[r].order \in Orders /\ ChargeOf(r) \in charges
      /\ ~ValidationThrows /\ ~hasBillPaid(order[work[r].order])
  BY <1>1, UnpaidIsNotRefused
<1>4. \A o \in Orders : DiedTelling(o)' = DiedTelling(o)
  BY <1>1, <1>2 DEF DiedTelling
<1>5. DiedTelling(work[r].order) = {} => queue[work[r].order].at = "none"
  <2> SUFFICES ASSUME queue[work[r].order].at # "none"
               PROVE  \E q \in Requests : q \in DiedTelling(work[r].order)
    OBVIOUS
  <2>1. PICK q \in Requests : promise[q] = "settled" /\ work[q].order = work[r].order
    BY <1>3 DEF NInv, QueuedIsTold
  <2>2. PromiseHeld(q) /\ q # r
    BY <1>1, <2>1 DEF NInv
  <2>3. pc[q] # "write"
    BY <1>1, <2>1, <2>2 DEF PaymentLocked, HasInserted
  <2>4. pc[q] # "ok"
    BY <1>3, <2>1, <2>2, PayerHasPaid DEF PromiseHeld, HasPaid
  <2> QED BY <2>1, <2>2, <2>3, <2>4 DEF PromiseHeld, DiedTelling
<1>6. NotifyTypeOK'
  BY <1>1, <1>2 DEF NInv, NotifyTypeOK
<1>7. ASSUME NEW q \in Requests PROVE PromiseHeld(q)'
  <2>1. ChargeOf(q)' = ChargeOf(q)
    BY <1>1 DEF ChargeOf, PaymentId
  <2>2. DiedTelling(work[q].order)' = {p \in Requests :
          work[p].order = work[q].order /\ promise'[p] = "settled" /\ pc[p] = "failed"}
    BY <1>1 DEF DiedTelling
  <2>3. DiedTelling(work[q].order)' = DiedTelling(work[q].order)
    BY <1>1, <1>2, <2>2 DEF DiedTelling
  <2>4. CASE q = r
    BY <1>1, <1>2, <1>3, <1>5, <2>1, <2>3, <2>4 DEF PromiseHeld, ValidationThrows
  <2>5. CASE q # r
    <3>1. PromiseHeld(q) /\ promise'[q] = promise[q]
      BY <1>2, <2>5 DEF NInv
    <3> QED BY <1>1, <2>1, <2>3, <3>1 DEF PromiseHeld, ValidationThrows
  <2> QED BY <2>4, <2>5
<1>8. OneInserts'
  <2>1. ASSUME NEW q \in Requests, HasInserted(q), work[q].order = work[r].order PROVE FALSE
    BY <1>1, <2>1 DEF PaymentLocked, HasInserted
  <2>2. \A q \in Requests \ {r} : HasInserted(q)' <=> HasInserted(q)
    BY <1>1, <1>2 DEF HasInserted
  <2> QED BY <1>1, <2>1, <2>2 DEF NInv, OneInserts
<1>9. QueuedIsTold'
  <2>1. \A q \in Requests : promise[q] = "settled" => promise'[q] = "settled"
    BY <1>1, <1>2
  <2> QED BY <1>1, <2>1 DEF NInv, QueuedIsTold
<1>10. \A o \in Orders : MailsFit(o)'
  BY <1>1, <1>4 DEF NInv, MailsFit
<1> QED BY <1>6, <1>7, <1>8, <1>9, <1>10 DEF NInv

\* The largest of 0 and a number.
LEMMA MaxOfZero == ASSUME NEW n \in Int PROVE Max({0, n}) \in Nat
<1>1. \E x \in {0, n} : \A y \in {0, n} : x >= y
  <2>1. CASE n >= 0
    BY <2>1
  <2>2. CASE ~(n >= 0)
    BY <2>2
  <2> QED BY <2>1, <2>2
<1>2. Max({0, n}) \in {0, n} /\ \A y \in {0, n} : Max({0, n}) >= y
  BY <1>1 DEF Max
<1> QED BY <1>2

\* Promises die with the process, and the jobs it had at hand stall.
LEMMA NotificationsDieNInv ==
  ASSUME IInv, NInv, ProcessDies, NotificationsDie
  PROVE  NInv'
<1>1. /\ promise' = [r \in Requests |-> IF promise[r] = "pending" THEN "lost" ELSE promise[r]]
      /\ queue' = [o \in Orders |-> IF BeingProcessed(o) THEN Stalled(queue[o]) ELSE queue[o]]
      /\ mails' = mails /\ order' = order /\ charges' = charges /\ work' = work
      /\ pc' = [r \in Requests |-> IF pc[r] \in InFlight THEN "failed" ELSE pc[r]]
  BY DEF NotificationsDie, ProcessDies, OrderingDies
<1>2. \A o \in Orders : queue[o] \in Job /\ mails[o] \in Nat /\ queue[o].stalls \in Nat
  BY NotifyTypes, JobMoves
<1>3. \A o \in Orders : queue'[o] = IF BeingProcessed(o) THEN Stalled(queue[o]) ELSE queue[o]
  BY <1>1
<1>4. \A r \in Requests : promise'[r] = (IF promise[r] = "pending" THEN "lost" ELSE promise[r])
                          /\ pc'[r] = (IF pc[r] \in InFlight THEN "failed" ELSE pc[r])
  BY <1>1
<1>5. NotifyTypeOK'
  <2>1. \A o \in Orders : queue'[o] \in Job
    BY <1>2, <1>3, StalledJob
  <2>2. queue' \in [Orders -> Job]
    BY <1>1, <2>1
  <2> QED BY <1>1, <2>2, NotifyTypes DEF NotifyTypeOK, Job
<1>6. ASSUME NEW r \in Requests PROVE PromiseHeld(r)'
  <2>1. ChargeOf(r)' = ChargeOf(r) /\ PromiseHeld(r)
    BY <1>1 DEF ChargeOf, PaymentId, NInv
  <2>2. promise'[r] # "pending" /\ pc'[r] # "write" /\ (promise'[r] # "none" => promise[r] # "none")
        /\ (pc[r] \in {"write", "ok", "failed"} => pc'[r] \in {"ok", "failed"})
    BY <1>4 DEF InFlight
  <2> QED BY <1>1, <2>1, <2>2 DEF PromiseHeld
<1>7. OneInserts'
  BY <1>4 DEF OneInserts, HasInserted, InFlight
<1>8. QueuedIsTold'
  <2>1. \A o \in Orders : queue'[o].at # "none" => queue[o].at # "none"
    BY <1>3 DEF BeingProcessed
  <2>2. \A r \in Requests : promise[r] = "settled" => promise'[r] = "settled"
    BY <1>4
  <2> QED BY <1>1, <2>1, <2>2 DEF NInv, QueuedIsTold
<1>9. ASSUME NEW o \in Orders PROVE MailsFit(o)'
  <2>1. MailsFit(o)
    BY NotifyTypes
  <2>2. DiedTelling(o) \subseteq DiedTelling(o)'
    BY <1>1, <1>4 DEF DiedTelling, InFlight
  <2>3. DiedTelling(o)' = {} => DiedTelling(o) = {}
    BY <2>2
  <2>4. CASE BeingProcessed(o)
    <3>1. \/ queue'[o].at = "delayed" /\ queue'[o].stalls = queue[o].stalls + 1
          \/ queue'[o].at = "failed" /\ queue'[o].stalls = queue[o].stalls
      BY <1>2, <1>3, <2>4, StalledJob
    <3> QED BY <1>1, <1>2, <2>1, <2>3, <3>1 DEF MailsFit
  <2>5. CASE ~BeingProcessed(o)
    BY <1>1, <1>3, <2>1, <2>3, <2>5 DEF MailsFit
  <2> QED BY <2>4, <2>5
<1> QED BY <1>5, <1>6, <1>7, <1>8, <1>9 DEF NInv

\* The batch of an order, stored or about to be.
LEMMA VisibleBatch ==
  ASSUME IInv, NInv, NEW r \in Requests, promise[r] = "pending"
  PROVE  VisibleOrder(r).deliveryBatch \in Nat
<1> DEFINE stored == order[work[r].order]
<1>1. PromiseHeld(r) /\ pc[r] \in {"write", "ok"} /\ work[r].order \in Orders
      /\ work[r].op = "makeOrderPayment"
  BY DEF NInv, PromiseHeld
<1>2. stored \in OrderRow /\ stored.deliveryBatch \in Nat /\ "deliveryBatch" \in DOMAIN stored
  BY <1>1 DEF IInv, TypeOK, OrderTypeOK, OrderRow
<1>3. work[r].entity.deliveryBatch \in Nat
  BY DEF IInv, TypeOK, OrderingTypeOK, OrderRow
<1> HIDE DEF stored
<1>4. MergedOrder(work[r].entity, work[r].seen, stored).deliveryBatch \in Nat
  BY <1>2, <1>3 DEF MergedOrder, Written
<1> QED BY <1>2, <1>4 DEF VisibleOrder, stored

\* The promise of an order is the only one it has, and adds the only job, unless a
\* payment of the order died.
LEMMA ScheduleNInv ==
  ASSUME IInv, NInv, NEW r \in Requests, Schedule(r)
  PROVE  NInv'
<1> DEFINE p == work[r].order
           ready == now + getMilliSecondsToDelivery(VisibleOrder(r).deliveryBatch)
           j == [at |-> "delayed", ready |-> ready, stalls |-> 0]
<1>1. promise[r] = "pending" /\ PromiseHeld(r)
  BY DEF Schedule, NInv
<1>2. p \in Orders /\ pc[r] # "failed" /\ (DiedTelling(p) = {} => queue[p].at = "none")
  BY <1>1 DEF PromiseHeld
<1>3. ready \in Nat
  <2>1. VisibleOrder(r).deliveryBatch \in Nat /\ now \in Nat
    BY <1>1, VisibleBatch DEF IInv, TypeOK, OrderTypeOK
  <2> HIDE DEF p
  <2>2. now - VisibleOrder(r).deliveryBatch - NotificationTime \in Int
    BY <2>1, NotificationAssumption
  <2>3. getMilliSecondsToDelivery(VisibleOrder(r).deliveryBatch) \in Nat
    BY <2>2, MaxOfZero DEF getMilliSecondsToDelivery
  <2> QED BY <2>1, <2>3
<1>4. /\ promise' = [promise EXCEPT ![r] = "settled"]
      /\ queue' = IF HasJob(p) THEN queue ELSE [queue EXCEPT ![p] = j]
      /\ UNCHANGED <<vars, mails>>
  BY DEF Schedule
<1> HIDE DEF ready
<1>5. j \in Job /\ j.at = "delayed" /\ j.stalls = 0
  BY <1>3, NotificationAssumption DEF Job
<1> HIDE DEF j, p
<1>6. /\ order' = order /\ charges' = charges /\ pc' = pc /\ work' = work /\ mails' = mails
      /\ promise'[r] = "settled" /\ \A q \in Requests \ {r} : promise'[q] = promise[q]
      /\ \A o \in Orders \ {p} : queue'[o] = queue[o]
      /\ queue'[p] = (IF HasJob(p) THEN queue[p] ELSE j)
      /\ queue' \in [Orders -> Job]
  BY <1>2, <1>4, <1>5, NotifyTypes DEF vars, orderingVars
<1>7. NotifyTypeOK'
  <2>1. promise' \in [Requests -> {"none", "pending", "settled", "lost"}]
    BY <1>4, NotifyTypes
  <2> QED BY <1>6, <2>1, NotifyTypes DEF NotifyTypeOK, Job
<1>8. ASSUME NEW o PROVE DiedTelling(o)' = DiedTelling(o)
  BY <1>1, <1>2, <1>6 DEF DiedTelling
<1>9. ASSUME NEW q \in Requests PROVE PromiseHeld(q)'
  <2>1. ChargeOf(q)' = ChargeOf(q) /\ PromiseHeld(q)
    BY <1>6 DEF ChargeOf, PaymentId, NInv
  <2>2. DiedTelling(work[q].order)' = {x \in Requests :
          work[x].order = work[q].order /\ promise'[x] = "settled" /\ pc[x] = "failed"}
    BY <1>6 DEF DiedTelling
  <2>3. DiedTelling(work[q].order)' = DiedTelling(work[q].order)
    BY <1>1, <1>2, <1>6, <2>2 DEF DiedTelling
  <2>4. CASE q = r
    BY <1>1, <1>6, <2>1, <2>3, <2>4 DEF PromiseHeld, ValidationThrows
  <2>5. CASE q # r
    <3>1. promise'[q] = "pending" => promise[q] = "pending" /\ work[q].order # p
      BY <1>1, <1>2, <1>6, <2>1, <2>5, OnePromise DEF PromiseHeld, p
    <3>2. promise'[q] = promise[q]
      BY <1>6, <2>5
    <3>3. promise'[q] = "pending" => queue'[work[q].order] = queue[work[q].order]
      BY <1>6, <2>1, <3>1, <3>2 DEF PromiseHeld
    <3> QED BY <1>6, <2>1, <2>3, <3>2, <3>3 DEF PromiseHeld, ValidationThrows
  <2> QED BY <2>4, <2>5
<1>10. OneInserts'
  <2>1. \A q \in Requests : HasInserted(q)' => HasInserted(q)
    BY <1>1, <1>6 DEF HasInserted
  <2> QED BY <1>6, <2>1 DEF NInv, OneInserts
<1>11. QueuedIsTold'
  <2>1. \A q \in Requests : promise[q] = "settled" => promise'[q] = "settled"
    BY <1>6
  <2>2. ASSUME NEW o \in Orders, queue'[o].at # "none"
        PROVE  \E q \in Requests : promise'[q] = "settled" /\ work[q].order = o
    <3>1. CASE o = p
      BY <1>6, <3>1 DEF p
    <3>2. CASE o # p
      BY <1>6, <2>1, <2>2, <3>2 DEF NInv, QueuedIsTold
    <3> QED BY <3>1, <3>2
  <2> QED BY <1>6, <2>2 DEF QueuedIsTold
<1>12. ASSUME NEW o \in Orders PROVE MailsFit(o)'
  <2>1. MailsFit(o) /\ mails[o] \in Nat /\ DiedTelling(o)' = DiedTelling(o)
    BY <1>8, NotifyTypes
  <2>2. CASE o = p
    <3>1. DiedTelling(p) = {} => mails[p] = 0
      BY <1>2, <2>1, <2>2 DEF MailsFit
    <3>2. HasJob(p) => queue[p].at # "none"
      BY DEF HasJob
    <3>3. DiedTelling(p) = {} => queue'[p] = j
      BY <1>2, <1>6, <3>2
    <3>4. queue'[p].at # "none"
      BY <1>5, <1>6, <3>2
    <3> QED BY <1>5, <1>6, <2>1, <2>2, <3>1, <3>3, <3>4 DEF MailsFit
  <2>3. CASE o # p
    BY <1>6, <2>1, <2>3 DEF MailsFit
  <2> QED BY <2>2, <2>3
<1> QED BY <1>7, <1>9, <1>10, <1>11, <1>12 DEF NInv

\* What the processor does to the job of one order.
LEMMA JobNInv ==
  ASSUME IInv, NInv, NEW o \in Orders, queue[o].at # "none",
         NEW label \in {"active", "sent", "completed"}, NEW n \in Nat,
         queue' = [queue EXCEPT ![o].at = label], mails' = [mails EXCEPT ![o] = n],
         UNCHANGED <<vars, promise>>,
         DiedTelling(o) = {} => n <= 1 + queue[o].stalls,
         DiedTelling(o) = {} /\ label = "active" => n <= queue[o].stalls
  PROVE  NInv'
<1> DEFINE j == [queue[o] EXCEPT !.at = label]
<1>1. queue[o] \in Job
  BY NotifyTypes
<1>2. j \in Job /\ j.at = label /\ j.stalls = queue[o].stalls /\ j.stalls \in Nat
  <2>1. label \in {"delayed", "active", "sent", "completed", "failed"}
    OBVIOUS
  <2>2. /\ queue[o].stalls \in Nat
        /\ [queue[o] EXCEPT !.at = label] \in Job
        /\ [queue[o] EXCEPT !.at = label].at = label
        /\ [queue[o] EXCEPT !.at = label].stalls = queue[o].stalls
    BY <1>1, <2>1, JobMoves
  <2> QED BY <2>2
<1>3. queue' = [queue EXCEPT ![o] = j]
  BY NotifyTypes
<1> HIDE DEF j
<1>4. /\ order' = order /\ charges' = charges /\ pc' = pc /\ work' = work
      /\ promise' = promise
      /\ queue'[o] = j /\ mails'[o] = n
      /\ \A p \in Orders \ {o} : queue'[p] = queue[p] /\ mails'[p] = mails[p]
  BY <1>3, NotifyTypes DEF vars, orderingVars
<1>5. NotifyTypeOK'
  <2>1. queue' \in [Orders -> Job] /\ mails' \in [Orders -> Nat]
    BY <1>2, <1>3, NotifyTypes
  <2> QED BY <1>4, <2>1, NotifyTypes DEF NotifyTypeOK, Job
<1>6. ASSUME NEW p PROVE DiedTelling(p)' = DiedTelling(p)
  BY <1>4 DEF DiedTelling
<1>7. ASSUME NEW r \in Requests PROVE PromiseHeld(r)'
  <2>1. ChargeOf(r)' = ChargeOf(r) /\ PromiseHeld(r)
    BY <1>4 DEF ChargeOf, PaymentId, NInv
  <2>2. DiedTelling(work[r].order)' = DiedTelling(work[r].order)
    BY <1>4 DEF DiedTelling
  <2>3. queue[work[r].order].at = "none" => work[r].order # o
    OBVIOUS
  <2>4. promise[r] = "pending" /\ DiedTelling(work[r].order) = {} =>
          queue'[work[r].order].at = "none"
    BY <1>4, <2>1, <2>3 DEF PromiseHeld
  <2> QED BY <1>4, <2>1, <2>2, <2>4 DEF PromiseHeld, ValidationThrows
<1>8. OneInserts' /\ QueuedIsTold'
  BY <1>4 DEF NInv, OneInserts, HasInserted, QueuedIsTold
<1>9. ASSUME NEW p \in Orders PROVE MailsFit(p)'
  <2>1. MailsFit(p) /\ DiedTelling(p)' = DiedTelling(p)
    BY <1>6, NotifyTypes
  <2>2. CASE p = o
    BY <1>2, <1>4, <2>1, <2>2 DEF MailsFit
  <2>3. CASE p # o
    BY <1>4, <2>1, <2>3 DEF MailsFit
  <2> QED BY <2>2, <2>3
<1> QED BY <1>5, <1>7, <1>8, <1>9 DEF NInv

\* The steps of the processor.
LEMMA ProcessorNInv ==
  ASSUME IInv, NInv, NEW o \in Orders, TakeJob(o) \/ sendMail(o) \/ CompleteJob(o)
  PROVE  NInv'
<1>1. MailsFit(o) /\ mails[o] \in Nat /\ queue[o] \in Job /\ queue[o].stalls \in Nat
      /\ mails = [p \in Orders |-> mails[p]]
  BY NotifyTypes, JobMoves
<1>2. mails = [mails EXCEPT ![o] = mails[o]]
  BY <1>1
<1>3. CASE TakeJob(o)
  <2>1. queue[o].at = "delayed" /\ queue' = [queue EXCEPT ![o].at = "active"]
        /\ mails' = [mails EXCEPT ![o] = mails[o]] /\ UNCHANGED <<vars, promise>>
    BY <1>2, <1>3 DEF TakeJob
  <2>2. DiedTelling(o) = {} => mails[o] <= queue[o].stalls /\ mails[o] <= 1 + queue[o].stalls
    BY <1>1, <2>1 DEF MailsFit
  <2> QED BY <1>1, <2>1, <2>2, JobNInv
<1>4. CASE sendMail(o)
  <2>1. queue[o].at = "active" /\ queue' = [queue EXCEPT ![o].at = "sent"]
        /\ mails' = [mails EXCEPT ![o] = mails[o] + 1] /\ UNCHANGED <<vars, promise>>
    BY <1>4 DEF sendMail
  <2>2. mails[o] + 1 \in Nat /\ (DiedTelling(o) = {} => mails[o] + 1 <= 1 + queue[o].stalls)
    BY <1>1, <2>1 DEF MailsFit
  <2> QED BY <2>1, <2>2, JobNInv
<1>5. CASE CompleteJob(o)
  <2>1. queue[o].at = "sent" /\ queue' = [queue EXCEPT ![o].at = "completed"]
        /\ mails' = [mails EXCEPT ![o] = mails[o]] /\ UNCHANGED <<vars, promise>>
    BY <1>2, <1>5 DEF CompleteJob
  <2>2. DiedTelling(o) = {} => mails[o] <= 1 + queue[o].stalls
    BY <1>1 DEF MailsFit
  <2> QED BY <1>1, <2>1, <2>2, JobNInv
<1> QED BY <1>3, <1>4, <1>5

------------------------------------------------------------------------------
(* Theorems.                                                                *)

\* It holds before anything has been ordered.
LEMMA InitNInv == NotifyInit => NInv
<1> SUFFICES ASSUME NotifyInit PROVE NInv
  OBVIOUS
<1>1. NoJob \in Job /\ NoJob.at = "none" /\ NoJob.stalls = 0
  BY NotificationAssumption DEF NoJob, Job
<1>2. /\ promise = [r \in Requests |-> "none"] /\ queue = [o \in Orders |-> NoJob]
      /\ mails = [o \in Orders |-> 0]
  BY DEF NotifyInit
<1> HIDE DEF NoJob
<1>3. NotifyTypeOK
  BY <1>1, <1>2 DEF NotifyTypeOK, Job
<1>4. /\ QueuedIsTold /\ OneInserts
      /\ (\A o \in Orders : MailsFit(o)) /\ \A r \in Requests : PromiseHeld(r)
  BY <1>1, <1>2 DEF QueuedIsTold, OneInserts, HasInserted, MailsFit, PromiseHeld
<1> QED BY <1>3, <1>4 DEF NInv

\* Every step keeps it.
LEMMA NextNInv == IInv /\ NInv /\ [NotifyNext]_notifyVars => NInv'
<1> SUFFICES ASSUME IInv, NInv, [NotifyNext]_notifyVars PROVE NInv'
  OBVIOUS
<1>1. CASE Run /\ CommitsInserted
  BY <1>1, RunNInv
<1>2. CASE UnhandledRejection /\ NotificationsDie
  BY <1>2, NotificationsDieNInv DEF UnhandledRejection
<1>3. CASE NotifyCrash
  BY <1>3, NotificationsDieNInv DEF NotifyCrash
<1>4. CASE NotificationStep
  BY <1>4, InsertNInv, ScheduleNInv, ProcessorNInv DEF NotificationStep
<1>5. CASE UNCHANGED notifyVars
  BY <1>5 DEF notifyVars, notificationVars, vars, orderingVars, NInv, NotifyTypeOK, PromiseHeld,
              ChargeOf, PaymentId, DiedTelling, OneInserts, HasInserted, QueuedIsTold, MailsFit,
              ValidationThrows
<1> QED BY <1>1, <1>2, <1>3, <1>4, <1>5 DEF NotifyNext

\* However payments, promises, mails and crashes interleave, the invariants of the
\* orders and of their notifications hold.
THEOREM NotifyInvariance == NotifySpec => [](IInv /\ NInv)
<1>1. NotifyInit => IInv /\ NInv
  BY InitIInv, InitNInv DEF NotifyInit
<1>2. IInv /\ NInv /\ [NotifyNext]_notifyVars => IInv' /\ NInv'
  BY NotifyStepIsOrderStep, OrderStepIInv, NextNInv
<1> QED BY <1>1, <1>2, PTL DEF NotifySpec

\* Promises, the queue and the mails keep their types; no job stalls more often than
\* Bull allows (delivery-customer-notification.processor.ts).
THEOREM NotifyTypeCorrect == NotifySpec => []NotifyTypeOK
<1>1. NInv => NotifyTypeOK
  BY DEF NInv
<1> QED BY <1>1, NotifyInvariance, PTL

\* The promise that the saga starts before the COMMIT runs for a payment that has been
\* charged and that the database has taken: it commits, unless the process dies first
\* (delivery-customer-notification-schedule.saga.ts).
THEOREM ToldOnlyWhenPaid == NotifySpec => []ToldIsPaid
<1>1. IInv /\ NInv => ToldIsPaid
  <2> SUFFICES ASSUME IInv, NInv PROVE ToldIsPaid
    OBVIOUS
  <2>1. ASSUME NEW r \in Requests, promise[r] # "none"
        PROVE  /\ ChargeOf(r) \in charges
               /\ \/ pc[r] = "ok" /\ order[work[r].order].paymentId = PaymentId(r)
                  \/ pc[r] = "write" /\ ~hasBillPaid(order[work[r].order]) /\ ~OrderRefused(r)
                  \/ pc[r] = "failed"
    <3>1. PromiseHeld(r)
      BY DEF NInv
    <3>2. CASE pc[r] = "ok"
      BY <2>1, <3>1, <3>2 DEF PromiseHeld, IInv, Memory, Held, PaidHeld, HasPaid
    <3>3. CASE pc[r] = "write"
      BY <2>1, <3>1, <3>3, UnpaidIsNotRefused DEF PromiseHeld
    <3> QED BY <2>1, <3>1, <3>2, <3>3 DEF PromiseHeld
  <2>2. \A o \in Orders : HasJob(o) \/ mails[o] > 0 => queue[o].at # "none"
    BY DEF NInv, MailsFit, HasJob
  <2> QED BY <2>1, <2>2 DEF NInv, QueuedIsTold, ToldIsPaid, ChargeOf
<1> QED BY <1>1, NotifyInvariance, PTL

\* A customer is mailed once, and again only for a process that died over the mail, or
\* over the payment
\* (delivery-customer-notification.processor.ts).
THEOREM MailedOnlyOnce == NotifySpec => []MailedOnce
<1>1. NInv => MailedOnce
  BY DEF NInv, MailsFit, MailedOnce
<1> QED BY <1>1, NotifyInvariance, PTL
===============================================================================
