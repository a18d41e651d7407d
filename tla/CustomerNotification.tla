------------------------ MODULE CustomerNotification ------------------------
(***************************************************************************)
(* Telling customers of their delivery, on top of OrderPipeline: the saga  *)
(* CustomerDeliveryTimeSlotNotificationScheduler, the Bull queue in Redis  *)
(* and DeliveryCustomerNotificationProcessor, which mails.                 *)
(*                                                                         *)
(* The saga starts its promise when the OrderBillPaid has been inserted,  *)
(* in the transaction of the payment, and does not await it.  The queries  *)
(* of the promise and the COMMIT go down the connection of the transaction *)
(* in an order that nothing in the code decides: the promise may add its   *)
(* job before the COMMIT, and the process may die between the two.  Bull   *)
(* keeps a job until it is completed; one that a dead process leaves       *)
(* active has stalled, and is taken again, MaxStalledCount times.          *)
(*                                                                         *)
(* The wording of mails is left out, and so are a mail server that fails   *)
(* and the time out of a job: sendMail takes three seconds at the most, of *)
(* the five that a job has.                                                *)
(***************************************************************************)
EXTENDS OrderPipeline

CONSTANTS
  NotificationTime, \* Setting.order.delivery.notificationTimeInMs, in seconds
  MaxStalledCount   \* how often Bull takes a stalled job again

ASSUME NotificationAssumption == NotificationTime \in Nat /\ MaxStalledCount \in Nat

VARIABLES
  promise, \* what has become of the promise of each payment
  queue,   \* the job of each order: its job id is the order's id
  mails    \* how many mails each order's customer has got

notificationVars == <<promise, queue, mails>>
notifyVars == <<vars, notificationVars>>

------------------------------------------------------------------------------
(* The queue.                                                               *)

NoJob == [at |-> "none", ready |-> 0, stalls |-> 0]

\* Completed and failed jobs are removed; here they leave behind how they ended.
HasJob(o) == queue[o].at \in {"delayed", "active", "sent"}

BeingProcessed(o) == queue[o].at \in {"active", "sent"}

\* Nobody counts how often.
StalledForEver(j) == [j EXCEPT !.at = "delayed", !.stalls = @ + 1]

\* A stalled job is taken again, but not for ever.
Stalled(j) ==
  IF j.stalls < MaxStalledCount THEN [j EXCEPT !.at = "delayed", !.stalls = @ + 1]
  ELSE [j EXCEPT !.at = "failed"]

\* How long it is to the delivery: or rather, how long ago it was.
getMilliSecondsToDelivery(deliveryTime) == Max({0, now - deliveryTime - NotificationTime})

------------------------------------------------------------------------------
(* Actions.                                                                 *)

NotifyInit ==
  /\ Init
  /\ promise = [r \in Requests |-> "none"]
  /\ queue = [o \in Orders |-> NoJob]
  /\ mails = [o \in Orders |-> 0]

\* The payment has written its row and its event, and not committed them.
HasInserted(r) == pc[r] = "write" /\ promise[r] # "none"

\* Another payment has, and locks the row of the order.
PaymentLocked(r) ==
  \E q \in Requests \ {r} : HasInserted(q) /\ work[q].order = work[r].order

\* beforeInsert: the promise starts whether or not the event can be inserted.
BeforeOrderBillPaid(r) ==
  /\ pc[r] = "write" /\ work[r].op = "makeOrderPayment"
  /\ promise[r] = "none"
  /\ promise' = [promise EXCEPT ![r] = "pending"]
  /\ UNCHANGED <<vars, queue, mails>>

\* afterInsert of an OrderBillPaid: the saga starts its promise and returns.
InsertOrderBillPaid(r) ==
  /\ pc[r] = "write" /\ work[r].op = "makeOrderPayment"
  /\ promise[r] = "none"
  /\ ~PaymentLocked(r) /\ ~OrderRefused(r)
  /\ promise' = [promise EXCEPT ![r] = "pending"]
  /\ UNCHANGED <<vars, queue, mails>>

\* In a step of OrderPipeline a payment commits what it has inserted.
CommitsInserted ==
  /\ \A r \in Requests :
       (pc[r] = "write" /\ work[r].op = "makeOrderPayment" /\ pc'[r] = "ok") => HasInserted(r)
  /\ UNCHANGED notificationVars

\* The order as the connection of the payment sees it.
VisibleOrder(r) ==
  LET stored == order[work[r].order]
  IN  IF pc[r] = "write" THEN MergedOrder(work[r].entity, work[r].seen, stored) ELSE stored

\* The promise has loaded the order and adds a job, unless there is one of its id.
Schedule(r) ==
  LET o == work[r].order
      ready == now + getMilliSecondsToDelivery(VisibleOrder(r).deliveryBatch)
  IN  /\ promise[r] = "pending"
      /\ promise' = [promise EXCEPT ![r] = "settled"]
      /\ queue' = IF HasJob(o) THEN queue
                  ELSE [queue EXCEPT ![o] = [at |-> "delayed", ready |-> ready, stalls |-> 0]]
      /\ UNCHANGED <<vars, mails>>

\* Bull hands the processor one job at a time.
TakeJob(o) ==
  /\ queue[o].at = "delayed" /\ queue[o].ready <= now
  /\ \A p \in Orders : ~BeingProcessed(p)
  /\ queue' = [queue EXCEPT ![o].at = "active"]
  /\ UNCHANGED <<vars, promise, mails>>

\* The processor throws after the mail, and Bull tries again.
SendMailAndRetry(o) ==
  /\ queue[o].at = "active"
  /\ mails' = [mails EXCEPT ![o] = @ + 1]
  /\ queue' = [queue EXCEPT ![o].at = "delayed"]
  /\ UNCHANGED <<vars, promise>>

\* The processor mails the customer.
sendMail(o) ==
  /\ queue[o].at = "active"
  /\ mails' = [mails EXCEPT ![o] = @ + 1]
  /\ queue' = [queue EXCEPT ![o].at = "sent"]
  /\ UNCHANGED <<vars, promise>>

\* The processor has returned: removeOnComplete.
CompleteJob(o) ==
  /\ queue[o].at = "sent"
  /\ queue' = [queue EXCEPT ![o].at = "completed"]
  /\ UNCHANGED <<vars, promise, mails>>

\* A queue in memory.
JobsDieToo ==
  /\ promise' = [r \in Requests |-> IF promise[r] = "pending" THEN "lost" ELSE promise[r]]
  /\ queue' = [o \in Orders |-> NoJob]
  /\ UNCHANGED mails

\* Promises die with the process, jobs do not.
NotificationsDie ==
  /\ promise' = [r \in Requests |-> IF promise[r] = "pending" THEN "lost" ELSE promise[r]]
  /\ queue' = [o \in Orders |-> IF BeingProcessed(o) THEN Stalled(queue[o]) ELSE queue[o]]
  /\ UNCHANGED mails

NotifyCrash ==
  /\ MayCrash
  /\ \/ Busy
     \/ \E r \in Requests : promise[r] = "pending"
     \/ \E o \in Orders : BeingProcessed(o)
  /\ ProcessDies
  /\ NotificationsDie

NotificationStep ==
  \/ \E r \in Requests : InsertOrderBillPaid(r) \/ Schedule(r)
  \/ \E o \in Orders : TakeJob(o) \/ sendMail(o) \/ CompleteJob(o)

NotifyNext ==
  \/ Run /\ CommitsInserted
  \/ UnhandledRejection /\ NotificationsDie
  \/ NotifyCrash
  \/ NotificationStep

NotifySpec == NotifyInit /\ [][NotifyNext]_notifyVars

\* What goes on by itself: besides the orders, Redis, and Bull with its timers.
GoesOn ==
  \/ OrdersGoOn /\ CommitsInserted
  \/ UnhandledRejection /\ NotificationsDie
  \/ NotificationStep

\* As long as something can go on, something does.
NotifyFairSpec == NotifySpec /\ WF_notifyVars(GoesOn)

------------------------------------------------------------------------------
(* Properties.                                                              *)

NotifyTypeOK ==
  /\ promise \in [Requests -> {"none", "pending", "settled", "lost"}]
  /\ queue \in [Orders -> [at : {"none", "delayed", "active", "sent", "completed", "failed"},
                           ready : Nat, stalls : 0..MaxStalledCount]]
  /\ mails \in [Orders -> Nat]

\* The saga works for a transaction that it does not wait for.  Whoever is told of a
\* delivery has been charged for it, and the payment is stored, or can only be stored:
\* another has not been, nor will the log refuse it.  But the process may have died
\* before the COMMIT.
ToldIsPaid ==
  /\ \A r \in Requests :
       promise[r] # "none" =>
         /\ [order |-> work[r].order, paymentId |-> PaymentId(r)] \in charges
         /\ \/ pc[r] = "ok" /\ order[work[r].order].paymentId = PaymentId(r)
            \/ pc[r] = "write" /\ ~hasBillPaid(order[work[r].order]) /\ ~OrderRefused(r)
            \/ pc[r] = "failed"
  /\ \A o \in Orders :
       (HasJob(o) \/ mails[o] > 0) =>
         \E r \in Requests : promise[r] = "settled" /\ work[r].order = o

\* Payments of an order that had told the queue when they died with the process.
DiedTelling(o) ==
  {r \in Requests : work[r].order = o /\ promise[r] = "settled" /\ pc[r] = "failed"}

\* However many payments race for an order, its customer is mailed once; again only
\* when the process died over a mail, as often as a job may stall, or when it died
\* over a payment that had told the queue, and another is made.
MailedOnce ==
  \A o \in Orders : DiedTelling(o) = {} => mails[o] <= 1 + queue[o].stalls

\* Every customer who has paid is mailed in the end, over crashes too, unless the
\* promise of the payment died with the process or the job stalled too often.  (The
\* delay of a job may lead beyond the bound of the clock.)
PaidIsMailed ==
  \A o \in Orders :
    hasBillPaid(order[o]) ~>
      \/ mails[o] > 0
      \/ queue[o].at = "failed"
      \/ queue[o].ready > MaxTime
      \/ \E r \in Requests : work[r].order = o /\ pc[r] = "ok" /\ promise[r] = "lost"

\* README.md: customers are informed before their delivery.
InformedBeforeDelivery == \A o \in Orders : hasBeenDelivered(order[o]) => mails[o] > 0
==============================================================================
