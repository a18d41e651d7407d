# Verification of food-ordering

TLA+ models of the food-ordering service (NestJS, TypeORM over PostgreSQL, Bull over
Redis), the TLC runs that check them and the TLAPS proofs about them. Source paths below
are relative to the repository; its TypeScript is under `src/`.

`tlc -config X.cfg M` runs one configuration (PROJECT.json pairs the configurations with
their modules); `tlapm M.tla` checks the proofs of module `M`, for each of `StoreSalesProofs`,
`AccountVerificationProofs`, `SetSums`, `OrderPipelineProofs`, `VendorEarningsProofs`,
`FoodCookingProofs`, `CustomerNotificationProofs` and `WebSocketSessionsProofs`.

## 1. Inventory

| part | state | operations | interacts with | what must hold |
|---|---|---|---|---|
| **persistence** (`domain/event-sourced-aggregate.ts`, `domain/domain-event.ts`, `presistence/entity.subscriber.ts`, `presistence/domain-event-listener.ts`) | one row and one event log per aggregate | `save`: re-read, difference, one transaction with events and sagas | every component; TypeORM, PostgreSQL | row and log never part; one event per version |
| **store** (`domain/model/store/store.entity.ts`, `app/store/store.controller.ts`) | `store`, `store_event` | create; open, close (vendor); open, close (inspection) | guards, persistence | a legal history; one store per vendor; a suspended store stays shut |
| **vendor account** (`vendor.entity.ts`, `vendor-account.controller.ts`) | `vendor`, `vendor_event` | register, initialize, verify, login, credit | verification, sagas | verified exactly when a verification completed |
| **super admin account** (`super-admin.entity.ts`, `super-admin-account.controller.ts`) | `super_admin` (state based) | the same | verification, sagas | the same; only the configured email |
| **verification** (`verification.entity.ts`, `account-verification.saga.ts`) | `verification`, `verification_event` | initialize, complete | its saga verifies the account in the same transaction | completed once; moves together with the account |
| **authentication, guards** (`authentication.service.ts`, `auth.guard.ts`) | none (JWT) | sign, extract; two guards | accounts | a session only for a verified account, of its own type |
| **food cooking space** (`food-cooking-space.entity.ts`) | plates of a food | create, cook, sell | store | plates are neither lost nor sold twice |
| **ordering, payment** (`ordering.controller.ts`, `order.entity.ts`, `payment.service.ts`, `lib/retry.ts`) | `order`, `order_event`, the payment provider's charges | order food, pay with retries | food cooking space, notification | the payment recorded is the one charged |
| **delivery, disbursement** (`delivery.controller.ts`, `earning-disbursement.saga.ts`) | `order`, `vendor`, `super_admin` | deliver all due orders in batches, credit both parties | order, vendor, super admin | delivered once, credited once |
| **delivery notification** (`delivery-customer-notification/*`, `delivery-time-customer-notification.vo.ts`, `mail/*`) | a promise per payment, Bull's queue in Redis | schedule on payment, send | order; Redis | mails only for payments that are charged and can be stored; one per paid order, and none lost but with the process |
| **websocket** (`lib/websocket/*`, `web-socket.service.ts`) | open connections | upgrade, message, close | ws library | the service is told of each connection in order and, once it has begun to close, to its end |
| DTOs, validation, filters, logging, settings, wiring, tests | none | | | |

What is hard: every request is an async handler that reads, decides and saves in separate
awaits, against a database shared with all others; `save` itself reads again before it
writes, and writes only columns that differ; sagas run in the transaction of the event
that triggers them; the process can die between any two awaits; delivery and scheduling
start promises nobody awaits. PROJECT.json lists these hazards line by line.

### What the code cannot do at this commit

The models say so where it matters, and the README of the code does not:

- A `SuperAdmin` can never be saved: `afterSave` (`entity.subscriber.ts:58-64`) compares its
  version with metadata that no code sets. A row of `super_admin` can only have been put
  there otherwise; the models let their initial states have one or not.
- `FoodCookingSpace` has no `@Entity()`, so all use of its repository throws. No order can
  therefore be created (`order-bill-calculator.service.ts:12`), and other faults behind
  that one would stop it too, of which these were met while modelling:
  `findDistinctStore` that returns no ids (`food-cooking-space.repository.ts:52`), an
  `OrderEarnings` in which `validateDefined` finds nothing to validate and refuses
  (`order-earnings.vo.ts:20`), `@Length(.., { each: true })` on the items
  (`order.entity.ts:35`), `Customer.email` without `@Column` (`customer.vo.ts:4`),
  `VendorCredited` that never assigns its amount (`vendor.entity.ts:126`).
- The OTP of a verification is returned by `initialize` and dropped by both controllers: the
  code mails it to nobody. The models let a request know the right OTP or not.

## 2. Modules

| module | what it is |
|---|---|
| `Persistence` | the operators of `save` shared by all components: `isNew`, `nextVersion`, the unique constraint on (aggregateId, version), the column by column UPDATE |
| `StoreContract` | abstract: what a store promises, each request one indivisible step |
| `StoreSales` | detailed: the Store aggregate, its repository and its endpoints under concurrent requests; implements `StoreContract` |
| `StoreSalesProofs` | TLAPS: invariants of `StoreSales` and its refinement, for all constants |
| `AccountContract` | abstract: what accounts and verifications promise, each request one indivisible step |
| `AccountVerification` | vendors, super admin, verifications and the saga between them, sessions and guards, crashes; implements `AccountContract` |
| `AccountVerificationProofs` | TLAPS: invariants of `AccountVerification` and its refinement, for all constants |
| `FoodCooking` | composes with `StoreSales`: food created and cooked in stores that open and close |
| `FoodCookingProofs` | TLAPS: invariants of `FoodCooking`, over those of `StoreSales` |
| `OrderTable` | the Order aggregate, its table and log; the faults and which are repaired |
| `Ordering` | ordering food, payment with retries, the charges of the provider |
| `Delivery` | the deliveries of what is due and the sagas that credit the vendors |
| `OrderContract` | abstract: an order created, paid and delivered, and its vendor's earning, each in one step |
| `OrderPipeline` | composes `Ordering` and `Delivery` in one process: clock, crashes, unhandled rejections; implements `OrderContract` |
| `SetSums` | TLAPS: sums over finite sets, as `MapThenSumSet` of the community modules defines them |
| `OrderPipelineProofs` | TLAPS: invariants of orders, payments and of the orders that jobs hold |
| `VendorEarningsProofs` | TLAPS: invariants of the vendors' balances; the refinement of `OrderContract` |
| `CustomerNotification` | composes `OrderPipeline` with the scheduler saga, Bull's queue and the processor that mails; the fairness of it all |
| `CustomerNotificationProofs` | TLAPS: invariants of `CustomerNotification`, over those of `OrderPipeline` |
| `WebSocketSessions` | the web socket handler and service, against ws and a client |
| `WebSocketSessionsProofs` | TLAPS: invariants of `WebSocketSessions` |
| `MCAccountVerification`, `MCFoodCooking`, `MCOrderPipeline`, `MCCustomerNotification`, `MCWebSocketSessions` | model values and symmetry for TLC |

### StoreSales

`store` and `events` are the two tables. A request (`pc`, `work`) runs in the three
steps its handler has awaits between:

1. the action named like the controller's method loads a row with one of the three finders
   and runs the command (`Permitted`, `Applied`) on it in memory, or rejects;
2. `SelectStored`: `save` reads the stored row again. No difference: it returns, without
   event, and the handler answers success;
3. `Commit` or `Rollback`: the transaction. It is one step because from its first write it
   holds the lock of the row (or the pending entry of the unique index), so that what it
   tests cannot change before its end, and its effects show at COMMIT only.

Left out: names of stores; the race of two lookups inside one finder (one SELECT).
`HasSuperAdmin` says whether a verified super admin exists, since no code can save one.

### AccountVerification

`account`, `accountEvents`, `verification`, `verificationEvents` are the tables. Here the
transaction is not one step: `UpdateVerification` takes the lock of the verification's row,
`LoadAccount` and `SelectAccount` are the saga's reads inside the transaction (READ
COMMITTED: they see what others committed meanwhile), `UpdateAccount` waits for the lock of
the account's row while it holds the other, and `Commit` makes both rows and both logs
visible. Each of them rolls everything back when the code throws there. Vendors may have
registered before the first request. `Crash` kills every request in flight; the database
rolls its transactions back and the service starts again. An OTP is right or wrong (a
disjunct of `verifyAccount`), as is a password (a disjunct of `login`). Ids of new
verifications are drawn from `Verifications`, each once. `now` is the clock, in units of
which `DurationInSeconds` are the time out of a verification.

A request that is answered with a session has one for the account it holds; `userType` is
what it is signed for, and the two guards are predicates over the session and the tables.
The login of a vendor signs for the wrong type: that no session opens what is not its
account's to open is a property (`SessionFitsItsGuard`), that a login opens what is, is not
(`vendor_login`).
The contract maps a verification to its subject and to whether it has completed, and an
account to absent, unverified or verified: completing and verifying are one step there,
four here. It does not say that a verified account is not verified again, since the code
does not keep to it (`account_already_verified`).

### FoodCooking

`food` and `foodEvents` are the tables, `at` and `hand` a request's place and memory. A
request finds the vendor's opened store in the table of `StoreSales`, which the requests of
that module change meanwhile, then the food (`LoadAndCook`), then saves as stores do.
`FoodMapped = FALSE` is the code as it is, `TRUE` the code with the missing `@Entity` and
`@ChildEntity` decorators. Prices never change and are left out.

### OrderTable, Ordering, Delivery, OrderPipeline

Nothing can be ordered at this commit, and whatever happened behind that could not be
checked if the models stopped there. Every fault that stops an order is an element of
`Faults` and is tested at the place where the code trips over it; the constant `Repaired`
says which are taken as repaired. `Repaired = {}` is the code as it is, in which the first
request to order food fails and nothing follows; the runs have `Repaired = Faults`: the
code unchanged but for those seven places. That there is no eighth is not claimed.

`Ordering`: a request is `idle`, then waits for the payment provider (`pay`), for the
SELECT of save (`select`), for its transaction (`write`), and is answered: `ok`, `rejected`
(a domain exception) or `failed` (500). `charges` is what the provider has taken; a crash
does not undo it. A payment id is the request and the try that drew it. The ids of foods
in a basket matter; their plates do not, since the bill does not look at them. Whether a
card is accepted is chosen once for a request: `payment.service.ts` decides by the card and
the amount, which are the same at each try.

`Delivery`: a job counts (`count`), loads a batch (`find`), and saves it: `select`,
`update`, then `sagas`, in which each order of the batch has a saga of its own that loads
(`load`), re-reads (`select`) and writes (`update`) its vendor inside the job's transaction.
The sagas of a transaction send the same queries down its one connection, in turn, so that
none reads again before all have loaded, nor writes before all have read (`NoneBehind`);
sagas of two transactions interleave freely. `credited` is what the transaction has written
and not committed; it is what the job's own sagas see (`VisibleVendor`) and what other jobs
wait for. `CommitBatch` makes it all visible. A job whose transaction fails throws inside a
promise that nobody awaits: `UnhandledRejection` takes the process down with all requests
and jobs in it. The process is then taken to be started again, by whatever runs its
container; its jobs are not.

Left out: the super admin's balance (no row to hold it can be saved, and what a repaired
version check would do with two sagas that credit the one super admin is for the repair to
say); floating point in the split of earnings.

`OrderContract` maps the requests, batches, sagas and locks away. Its `Deliver` credits
each vendor for all or some of its orders in the batch, but for one at least unless orders
of the vendor have been delivered before: it is the strongest statement that holds of code
which may drop a credit (`earnings_disbursed`). A batch pays a vendor nothing when another
batch commits an equal credit of the vendor between a saga's `load` and its `select`: the
row that save reads is then the one it is about to write, and it writes nothing.

### CustomerNotification

`promise` is what has become of the promise that the saga starts for each payment. A
payment's transaction is three steps here: `InsertOrderBillPaid` has written the row and
inserted the event, whose `afterInsert` starts the promise, which nobody awaits;
`CommitOrder` of `Ordering` is the COMMIT, and comes only after the insert
(`CommitsInserted`); or the process dies between the two. The insert waits while another
payment of the order has inserted and not committed (`PaymentLocked`: the lock of the row),
and does not happen when the log refuses the version. The promise loads the order on the
connection of the transaction and so sees its writes (`VisibleOrder`), before the COMMIT or
after it: the model leaves the order open. Then it adds its job (`Schedule`), or dies with
the process. `queue` is Bull's job of each order; it survives the process, in Redis. Bull
hands the processor one job at a time (`TakeJob`), `sendMail` mails, `CompleteJob` is the
acknowledgement to Bull. A crash between the last two leaves a job that is taken to have
stalled and taken again, `MaxStalledCount` times. An error in the promise, such as Redis
refusing the job, is an unhandled rejection and ends the process: it is a `NotifyCrash`.

So a customer can be mailed about a payment that is charged and never stored: its promise
has told the queue, and the process died before the COMMIT. `ToldIsPaid` says that this is
the only way. The order is then unpaid and can be paid again, and the customer mailed
again, which `MailedOnce` excepts (`DiedTelling`).

### WebSocketSessions

`ws` and `client` are the readyState of the two ends, `toServer` and `toClient` the frames
under way. One action per kind of frame that arrives; `afterConnectionEstablished` is the
state and the frames in which the service's method leaves a new connection: at once
CLOSING. `calls` records the calls of the service's methods. What the ws library does by
itself (dropping what is sent after close(), answering a close frame, the time out of a
close) is external, and so is the client. The payloads of messages are left out.

## 3. Runs

| run | question | bounds |
|---|---|---|
| `stores_and_food` | Do rows follow logs, are logs legal, is success recorded, does it all implement `StoreContract`? Do plates follow their log, stay non-negative and in the hands of the store's owner? | 4 requests on stores, 3 on food, 2 vendors, 2 stores, 2 foods, one name; amounts 2, 1 and -1: two racing creations and two commands on the result, or a stale writer between two others |
| `account_verification` | Do verification and account move together, is each completed once, does a session open no other kind's guard, and after a verification its own, does anybody wait in a circle, does it all implement `AccountContract`? | 4 requests, 1 vendor who has registered or not, 2 admin emails of which one is the super admin's, 2 verifications, clock to 2, crashes anywhere |
| `account_already_verified` | an exception of the code that racing verifications get round; PROJECT.json `findings` quotes it | as `account_verification` |
| `vendor_login` | README: vendors are verified so that they can log in. Violated: the session of a login does not open the guard of vendors | as `account_verification` |
| `order_pipeline` | Is what customers are told of orders and payments what is stored, is each request charged once? Are histories legal, deliveries due, balances the sum of their logs and no larger than what was delivered? Does it all implement `OrderContract`? | 4 requests (two orders paid, or one paid up to three times at once), 2 orders, 2 tries a payment, 5 baskets of which 3 must be refused, 2 overlapping jobs, batches of 2, earnings equal or not, clock to 2, crashes anywhere |
| `orders_go_on` | Does every request get an answer, over retries, and does a job deliver all that is due, over several turns of its loop? | 4 requests, 2 tries a payment, 2 orders, 1 job, batches of 1, clock to 2, crashes anywhere |
| `notification` | Is nobody told but of payments that are charged and stored, or can only be stored, or died with the process? Is nobody mailed twice but for a crash? Is whoever paid mailed in the end? | 3 requests (two payments of an order race), 1 try, 1 order, 2 overlapping jobs, one stall, clock from 2 to 3 with a batch that is past, crashes anywhere |
| `informed_before_delivery` | README: customers are informed before their delivery. Violated: deliveries do not wait, mails do | 2 requests, 1 job |
| `web_socket` | Is the service told of a connection in order, to its end, whatever the code? Is anything sent after the close frame? Does a session that has begun to close end? | 1 connection (they share nothing), 4 frames, 2 paths, the lowest and highest code a client may close with |
| `order_paid_once`, `batches_are_delivered`, `earnings_disbursed` | three statements of code and README that ordering and delivery do not keep | 3 or 4 requests; no job, 1 job with a batch of 2, 2 jobs with batches of 1 |

`DeliveredIsDue` needs orders whose batch lies ahead. With the code's factor (the number of
the next interval, in seconds) that happens only when the interval is one second, which is
what `BatchInterval` is in `order_pipeline`; the property then holds deliveries to the date
of the order, and says nothing of how that date was computed. Two orders and two jobs are
enough for the sagas of a batch to conflict, and for one job to find an order that another
has in its transaction; a third of either adds no new pair. With two orders and batches of
two, though, two batches that both commit never overlap; the refinement is proved for every
number and size.

Two orders in batches of one are what makes a job go round its loop: with one order, a job
that ended after its first batch would pass.

Symmetry (requests, stores, vendors, verifications: sets whose members the specifications
and the properties treat alike) is used for safety properties only; the liveness runs have none.
All runs end in states where every request is served: `CHECK_DEADLOCK FALSE`.

**Fairness.** `WebSocketSessions` has weak fairness of each connection's own steps on the
server: sockets are read and timers fire. A client is never obliged to say anything.

`OrderPipeline` has less: one weak fairness of `OrdersGoOn` and `UnhandledRejection`, "as
long as something can go on, something does", the clock included; `CustomerNotification`
the same of `GoesOn`. A handler whose await has resolved is run by the event loop,
PostgreSQL serves a statement once its lock is free. It is enough because nothing there can
go on for ever without getting anywhere: each step uses up a try, a job, a label or a
tick. A request is never obliged to arrive, and a crash is no part of it and may happen
instead of anything.

`AccountVerification` needs none. Each step takes its request nearer to its answer, so what
could keep a request from being answered is only that all wait: `SomeRequestGoesOn` is an
invariant, that of the requests in flight one is always able to go on.

What a liveness property excepts is what the code does not promise. `PaidIsMailed` leaves
out a promise that died with the process, a job that stalled once too often, and a job
whose delay leads beyond the bound of the clock. `DueIsDelivered` leaves out jobs that die:
a batch with two orders of one vendor does (`batches_are_delivered`). `ClosingIsTold` is
about sessions that have begun to close: whether one closes at all is the service's to
decide.

### Read while modelling, in need of no run

These hold in every state, so that a model checker says no more about them than the lines do:

- `entity.subscriber.ts:63`: the first registration of a super admin is rolled back, which
  `test/integration/admin-auth.spec.ts:32` expects to succeed (`AfterSaveThrows` in the model).
- `order.entity.ts:87`: the number of the next interval is multiplied by 1000 and not by the
  interval; with the five seconds of `devops/dev/docker-compose.yml:42` every batch is long
  past, and orders are due as soon as they are paid. No property of the models tells the
  wrong factor from the right one.
- `order-bill-calculator.service.ts:20`: the bill adds up prices per plate without the
  number of plates, and no plates are sold: the models leave the plates of a basket out.
- `save` without a difference acknowledges the second of two equal commands (README.md:66 of
  the repository: OCC by version). For a store nothing is lost by it, which is what
  `ImplementsContract` says; of two requests that cook as many plates of one food at once,
  the plates of one are lost (`store.controller.ts:81`).
- `verification.entity.ts:62`: complete() compares no time, so that a verification is completed
  after its timeOutAfter, which the comment of line 16 calls stale.
- `delivery-time-customer-notification.vo.ts:43`: the delay of a mail is now minus the delivery,
  not the delivery minus now. With the batches of `order.entity.ts:87`, which lie decades back,
  it is decades long: the models' clock, which starts near 0, makes such delays short enough
  for the queue to do something.
- `web-socket.service.ts:24`: the service closes each connection as it opens, so that the
  message which `test/integration/web-socket.spec.ts:20` waits for is dropped by ws. No
  property here asks for it, and none would be violated by a service that kept its
  connections open.
- `abstract-web-socket-handler.ts:39`: an upgrade to a path without handler is never answered.

## 4. Proofs

Every safety property of section 3 that holds, and each refinement, is proved for all
values of the constants; what follows says from which assumptions and how. Each inductive
invariant was checked by TLC, as an invariant of the run of its component, before it was
proved.

`StoreSalesProofs` proves, for every set of requests, stores and vendors (assuming only
that `NoStore` is no store and `NoVendor` no vendor): `[]TypeOK`, `[]RowIsLastEvent`,
`[]HistoryIsLegal`, `[]AcknowledgedIsRecorded` and `Spec => ImplementsContract`.

None of them is inductive: a commit is safe because of what its request saw when it
decided. `IInv` adds two conjuncts. `LogIsComplete`: the versions logged for a store are
exactly 1 to the version of its row. `SnapshotIsCurrent`: a request waiting to be saved
whose entity is one version ahead of the table was decided on the very row that is still
there (and, after `SelectStored`, has read that row again). With the first, the unique
constraint lets a request commit only when it is one version ahead; with the second,
the UPDATE then writes exactly the row the command computed. The refinement uses the same
facts: a commit is the decision its event names, every other step a stutter.

`AccountVerificationProofs` proves, for every set of requests, vendors, super admin emails
and verifications, every time out and every bound of the clock, with crashes anywhere
(assuming that no email is both a vendor's and a super admin's, that the setting names one
of the latter, and that `NoAccount` and `NoVerification` are neither): `[]TypeOK`,
`[]VerifiedByCompletion`, `[]VendorVerifiedOnce`, `[]CompletedOnce`,
`[]SessionFitsItsGuard` and `Spec => ImplementsContract`.

Here `IInv` has two parts. `Tables` says which rows there can be: a verification has
version 1, and version 2 exactly once it is completed (`VerificationRows`); its log has no
other versions, and has 2 when the row has (`VerificationLog`); a vendor's row is absent,
created or verified, with versions 0, 1 and 2 (`AccountRows`). `Memory` says what each
request holds at each place, of which three conjuncts carry the argument.
`InTransactionAhead`: the unique constraint lets a request into its transaction only with
an entity one version ahead of the row, and the row's lock keeps it so until the commit;
with `SavesOverRead` the row that was read is then the one the UPDATE is applied to.
`SagaCompletesFirst`: the saga goes on only with an account that is not verified, and by
`VerifiedByCompletion` no verification of it is completed then, so that the commit takes
version 1 to 2. `SagaReadAccount`: of two transactions that verify one vendor at once, the
second finds either the verified row, and writes nothing, or its event refused.
`AccountHeld`: what `UpdateAccount` found of the account's log still holds at the commit,
since the lock of the row keeps any other writer of it out. `CommitEffect`
puts these together: whatever was read when, a commit writes the two rows its request
computed. The refinement rests on it: a commit is `Complete`, the inserts are `Register` and
`Initialize`, every other step is a stutter.

`OrderPipelineProofs` proves, for every set of requests, orders, jobs, foods, stores and
vendors, every basket that is a sequence with an item, every price, number of tries, size
of a batch, batch interval and clock, every choice of repaired faults, with crashes or
without: `[]TypeOK`, `[]OrderHistoryIsLegal`, `[]DeliveredIsDue`,
`[]AcknowledgedPaymentCounts`, `[]RetryChargesOnce` and `[]OrderMatchesBasket`. It assumes
that the names that stand for null name nothing, that each food has a store and a price and
each store an owner, that each try of a request draws a payment id of its own (a UUID in the
code), and that the vendors' share of a bill is between nothing and all of it.

`IInv` is `TypeOK` and three parts. `Tables`: which rows there can be (`LegalRow`: the
version says which columns are set), that the versions logged for an order are 1 to the
version of its row, and `DeliveredIsDue`. `Memory` is what each request holds: one that
saves a new order has its id for itself (`PlacingHeld`); one that pays holds an old or the
present row of its order (`PayHeld`), and from the charge on the second version, read over
the first if the first is still there (`SaveHeld`); and every charge is that of a request
that is past it, every paid order that of one that has succeeded, which is what
`RetryChargesOnce` needs. `JobMemory` is what each job holds: orders in their third version
over rows that were due (`BatchHeld`), which do not change once its transaction has
locked them, and no order is in two transactions (`OrdersAreLocked`). The argument is then
that of stores: the unique constraint lets only the next version commit, what holds the next
version was made from the row that is still there, and so the column by column UPDATE writes
the entity itself.

`VendorEarningsProofs` goes on to the vendors, under the same assumptions:
`[]BalanceFollowsLog`, `[]NeverOverpaid` and
`Spec => ImplementsContract`. `VInv` says that what a transaction sees of a vendor,
committed or its own, follows the log that it sees with a version per credit (`Follows`);
that what it has added to a balance are earnings of orders whose sagas are done, each once
(`CreditsHeld`); that what a saga holds was made from the row it would be written over, or
is refused (`CreditMade`); that no vendor is written in two transactions
(`VendorsAreLocked`); and that all balances are within what was delivered (`VendorTables`).
With it a `CommitBatch` is the contract's `Deliver` of the orders it changes, a
`CommitOrder` its `Create` or `Pay`, and every other step a stutter. The contract had to be
weakened for it: that a batch always credits each of its vendors at least once is true of
batches that overlap and of the instance that TLC checks, and not of two disjoint batches
that race for one vendor with equal earnings.

`FoodCookingProofs` proves for every set of requests, vendors, stores, foods and names, any
integer amounts and the code with or without its decorators: `[]FoodTypeOK`,
`[]PlatesFollowLog`, `[]PlatesNeverNegative`, `[]FoodNamesAreUnique` and `[]CookedByOwner`.
`FInv` adds that each food's log has one event per version of its row and sums up to its
plates (`FoodFollows`), and that what a request is about to save, if it is one version
ahead, was made from the row that is still there (`HandsAreCurrent`): so what is written
is the entity that `beforeSave` validated, and a negative one never is. `CookedByOwner`
needs the invariant of `StoreSales` as well, whose requests go on meanwhile
(`StoresGoOn`: every behaviour here is one of `StoreSales`).

`CustomerNotificationProofs` proves for every set of requests, orders and jobs and every
number of stalls: `[]NotifyTypeOK`, `[]ToldIsPaid` and `[]MailedOnce`. What has to be shown
is that a promise ahead of its COMMIT belongs to a payment that will not be refused.
`OneInserts`: by the lock of the row, no two payments of one order have inserted and not
committed. `PromiseHeld`: from its insert on a payment has been charged and its order is
not paid by anybody else, so that the unique constraint keeps letting it in; and while its
promise is pending the queue has no job of the order, unless a payment died that had told
it. `ToldIsPaid` follows with the invariant of `OrderPipeline`, which says what a request
that saves a payment holds (`SaveHeld`). With `AcknowledgedPaymentCounts`, which allows one
payment to an order, there is then one promise and one job in the life of an order, although
Bull would accept a second once the first is completed. `MailsFit` counts the mails of a job
that is not acknowledged by its stalls.

`WebSocketSessionsProofs` proves for every set of connections and paths, every number of
frames and all codes that ws lets through (1000 to 4999): `[]TypeOK`, `[]CallsInOrder` and
`[]ClosedIsLast`. `WInv` says what the service has been told of a connection in each of its
states (`Told`), and that a close frame is under way only from an end that is not open any
more and to one that has not got it, with nothing behind it (`Sent`).

`SetSums` is what the balances, bills and plates rest on. `MapThenSumSet` is a recursive
function over subsets that picks elements with CHOOSE. That such a function exists and is
the only one, that sums do not depend on the order in which elements are picked, and how
they change with their set, are proved by induction over a set of numbers (from
`WellFoundedInduction`); the induction theorems of the library take operators, which no
prover here instantiates. The lemmas are about functions for the same reason, so each sum
of the models is first shown to be one of a function (`AmountsAreTotal`,
`EarningsAreTotal`, `PlatesAreTotal`).

Only model-checked: liveness (`Answered`, `PaidIsMailed`, `DueIsDelivered`,
`ClosingIsTold`) and `SomeRequestGoesOn`, since fairness and ENABLED are out of the provers'
reach. The runs
that expect a violation have no theorem: their counterexamples are the result.

## 5. Plan

What is left:

1. Invariants that the proofs have brought up and no run names: which credits are lost, and
   that a job that dies leaves the tables as they were; what holds of two requests that
   pay for one order at once.
2. Action properties that follow from the contracts by refinement: an order that is paid
   keeps its payment, a delivered one its batch.

Not planned: DTOs, validation, logging and wiring, which keep no state; `lib/duration.ts`,
which only a test calls; the super admin's balance.
