----------------------------- MODULE StoreSales -----------------------------
(***************************************************************************)
(* The stores: StoreController over the Store aggregate, run by concurrent *)
(* HTTP requests against one store table and one store_event table.        *)
(*                                                                         *)
(* A request runs in three steps, one per point where its handler awaits   *)
(* the database: the handler loads a row and applies the command to it in  *)
(* memory; save reads the stored row again; save's transaction writes.     *)
(* The transaction is one step: from its first write it holds the row lock *)
(* (or the pending unique-index entry), its effects show at COMMIT only,   *)
(* and the constraint it can break cannot change while it holds the lock.  *)
(***************************************************************************)
EXTENDS Persistence

CONSTANTS
  Requests,   \* HTTP requests; each is served once
  Stores,     \* the ids `new Store()` can draw
  Vendors,    \* vendors that VerifiedVendorGuard lets through
  HasSuperAdmin, \* a verified super admin exists (no code can save one)
  NoStore,    \* no store id yet
  NoVendor    \* the owner of a store that has not been created

ASSUME NoStoreAssumption == NoStore \notin Stores
ASSUME NoVendorAssumption == NoVendor \notin Vendors
ASSUME HasSuperAdminAssumption == HasSuperAdmin \in BOOLEAN

VARIABLES
  store,      \* table store: id -> row
  events,     \* table store_event
  pc,         \* where each request is
  work        \* what each request holds in memory

vars == <<store, events, pc, work>>

------------------------------------------------------------------------------
(* The Store aggregate.                                                     *)

EmptyRow ==
  [version |-> 0, owner |-> NoVendor,
   operationStatus |-> "NONE", orchestrator |-> "NONE"]

isOpened(row) == row.operationStatus = "OPEN"
isClosed(row) == row.operationStatus = "CLOSED"
isClosedBySuperAdmin(row) == isClosed(row) /\ row.orchestrator = "SUPER_ADMIN"

EventTypes ==
  {"StoreCreated", "OpenedForSale", "ClosedAfterSale",
   "OpenedAfterInspection", "ClosedAfterInspection"}

\* The command behind an event is allowed on this row (else DomainException).
Permitted(type, row) ==
  \/ type = "StoreCreated" /\ isNew(row)
  \/ type = "OpenedForSale" /\ ~isOpened(row) /\ ~isClosedBySuperAdmin(row)
  \/ type = "ClosedAfterSale" /\ ~isClosed(row)
  \/ type = "OpenedAfterInspection" /\ isClosedBySuperAdmin(row)
  \/ type = "ClosedAfterInspection" /\ ~isClosedBySuperAdmin(row)

StatusAfter(type) ==
  IF type \in {"OpenedForSale", "OpenedAfterInspection"} THEN "OPEN" ELSE "CLOSED"

OrchestratorAfter(type) ==
  IF type \in {"OpenedAfterInspection", "ClosedAfterInspection"}
  THEN "SUPER_ADMIN" ELSE "VENDOR"

\* StoreCreated does not hand the owner over.
AppliedWithoutOwner(type, row, v) ==
  [version |-> nextVersion(row), owner |-> row.owner,
   operationStatus |-> StatusAfter(type), orchestrator |-> OrchestratorAfter(type)]

\* The row in memory after the command has added its event and applied it.
\* Only StoreCreated sets the owner.
Applied(type, row, v) ==
  [version |-> nextVersion(row),
   owner |-> IF type = "StoreCreated" THEN v ELSE row.owner,
   operationStatus |-> StatusAfter(type),
   orchestrator |-> OrchestratorAfter(type)]

------------------------------------------------------------------------------
(* Requests.                                                                *)

NoWork == [store |-> NoStore, type |-> "NONE", entity |-> EmptyRow, seen |-> EmptyRow]

Init ==
  /\ store = [s \in Stores |-> EmptyRow]
  /\ events = {}
  /\ pc = [r \in Requests |-> "idle"]
  /\ work = [r \in Requests |-> NoWork]

\* NullException or DomainException: nothing was saved.
Reject(r) ==
  /\ pc' = [pc EXCEPT ![r] = "rejected"]
  /\ UNCHANGED <<store, events, work>>

\* The command succeeds in memory and the handler calls save.
Save(r, s, type, v) ==
  /\ pc' = [pc EXCEPT ![r] = "save"]
  /\ work' = [work EXCEPT ![r] =
                [store |-> s, type |-> type,
                 entity |-> Applied(type, store[s], v), seen |-> EmptyRow]]
  /\ UNCHANGED <<store, events>>

\* Load one of the stores the finder matches and run the command on it.
LoadAndRun(r, found, type) ==
  /\ pc[r] = "idle"
  /\ \/ found = {} /\ Reject(r)
     \/ \E s \in found :
          IF Permitted(type, store[s]) THEN Save(r, s, type, NoVendor) ELSE Reject(r)

findById(s) == {t \in {s} : ~isNew(store[t])}
findByOwner(v) == {s \in Stores : ~isNew(store[s]) /\ store[s].owner = v}
findOpenedByOwner(v) == {s \in findByOwner(v) : isOpened(store[s])}

\* POST api/store: a Store made by `new`, whose uuid nobody else has drawn.
createStore(r, v, s) ==
  /\ pc[r] = "idle"
  /\ isNew(store[s])
  /\ \A q \in Requests : work[q].store # s
  /\ Save(r, s, "StoreCreated", v)

\* POST api/store/sales/open and sales/close, by the owner.
openStoreForSales(r, v) == LoadAndRun(r, findByOwner(v), "OpenedForSale")
closeStoreAfterSales(r, v) == LoadAndRun(r, findOpenedByOwner(v), "ClosedAfterSale")

\* POST api/store/:storeId/inspection/open and close, by the super admin.
open(r, s) == HasSuperAdmin /\ LoadAndRun(r, findById(s), "OpenedAfterInspection")
closeShop(r, s) == HasSuperAdmin /\ LoadAndRun(r, findById(s), "ClosedAfterInspection")

\* A save that rebases a stale command on the row it reads, unasked.
SelectStoredRebases(r) ==
  LET stored == store[work[r].store]
  IN  /\ pc[r] = "save"
      /\ work' = [work EXCEPT ![r].seen = stored,
                              ![r].entity = Applied(work[r].type, stored, @.owner)]
      /\ pc' = [pc EXCEPT ![r] = "write"]
      /\ UNCHANGED <<store, events>>

\* save, first half: read the stored row.  No difference, nothing to write.
SelectStored(r) ==
  LET stored == store[work[r].store]
  IN  /\ pc[r] = "save"
      /\ work' = [work EXCEPT ![r].seen = stored]
      /\ pc' = [pc EXCEPT ![r] = IF work[r].entity = stored THEN "ok" ELSE "write"]
      /\ UNCHANGED <<store, events>>

\* The event table has no unique constraint.
UniqueOwnerOnly(r) ==
  /\ isNew(work[r].seen)
  /\ \E t \in Stores : ~isNew(store[t]) /\ store[t].owner = work[r].entity.owner

\* The owner column has none.
UniqueVersionOnly(r) == VersionTaken(events, work[r].store, work[r].entity.version)

\* A unique constraint of the two tables refuses the request's rows.
UniqueViolation(r) ==
  \/ VersionTaken(events, work[r].store, work[r].entity.version)
  \/ /\ isNew(work[r].seen)
     /\ \E t \in Stores : ~isNew(store[t]) /\ store[t].owner = work[r].entity.owner

Merged(mine, seen, stored) ==
  [version |-> Written(mine.version, seen.version, stored.version),
   owner |-> Written(mine.owner, seen.owner, stored.owner),
   operationStatus |->
     Written(mine.operationStatus, seen.operationStatus, stored.operationStatus),
   orchestrator |-> Written(mine.orchestrator, seen.orchestrator, stored.orchestrator)]

EventOf(r) ==
  [aggregateId |-> work[r].store, version |-> work[r].entity.version,
   type |-> work[r].type]

\* save, second half: the transaction commits the row and its event, or
\* rolls back and the request answers 500.
Commit(r) ==
  /\ pc[r] = "write"
  /\ ~UniqueViolation(r)
  /\ store' = [store EXCEPT ![work[r].store] = Merged(work[r].entity, work[r].seen, @)]
  /\ events' = events \cup {EventOf(r)}
  /\ pc' = [pc EXCEPT ![r] = "ok"]
  /\ UNCHANGED work

\* The handler swallows the error of its transaction.
RollbackSwallowed(r) ==
  /\ pc[r] = "write"
  /\ UniqueViolation(r)
  /\ pc' = [pc EXCEPT ![r] = "ok"]
  /\ UNCHANGED <<store, events, work>>

Rollback(r) ==
  /\ pc[r] = "write"
  /\ UniqueViolation(r)
  /\ pc' = [pc EXCEPT ![r] = "failed"]
  /\ UNCHANGED <<store, events, work>>

Next ==
  \E r \in Requests :
    \/ \E v \in Vendors, s \in Stores : createStore(r, v, s)
    \/ \E v \in Vendors : openStoreForSales(r, v)
    \/ \E v \in Vendors : closeStoreAfterSales(r, v)
    \/ \E s \in Stores : open(r, s)
    \/ \E s \in Stores : closeShop(r, s)
    \/ SelectStored(r)
    \/ Commit(r)
    \/ Rollback(r)

Spec == Init /\ [][Next]_vars

------------------------------------------------------------------------------
(* Properties.                                                              *)

Statuses == {"OPEN", "CLOSED"}
Orchestrators == {"VENDOR", "SUPER_ADMIN"}

SavedRow ==
  [version : Nat \ {0}, owner : Vendors, operationStatus : Statuses,
   orchestrator : Orchestrators]

Event == [aggregateId : Stores, version : Nat \ {0}, type : EventTypes]

Work ==
  [store : Stores, type : EventTypes, entity : SavedRow, seen : SavedRow \cup {EmptyRow}]

\* Types: a row in the table has an owner and a state, a row that is not there
\* has neither, and a request past its handler holds a complete entity.
TypeOK ==
  /\ store \in [Stores -> SavedRow \cup {EmptyRow}]
  /\ events \in SUBSET Event
  /\ pc \in [Requests -> {"idle", "rejected", "save", "write", "ok", "failed"}]
  /\ work \in [Requests -> Work \cup {NoWork}]
  /\ \A r \in Requests : pc[r] \in {"save", "write", "ok", "failed"} => work[r] \in Work

\* The row of a store is what its last event left behind, and no event is
\* missing or ahead of the row.
RowIsLastEvent ==
  \A s \in Stores :
    /\ \A e \in events : e.aggregateId = s => e.version <= store[s].version
    /\ ~isNew(store[s]) =>
         \E e \in events :
           /\ e.aggregateId = s
           /\ e.version = store[s].version
           /\ store[s].operationStatus = StatusAfter(e.type)
           /\ store[s].orchestrator = OrchestratorAfter(e.type)

\* The log of a store is a run of the aggregate taken one command at a time:
\* it starts with StoreCreated, has one event per version with no gap, and each
\* command was permitted in the state its predecessor left, although every
\* request decided on a snapshot that others may have overtaken.
HistoryIsLegal ==
  \A e \in events :
    /\ \A f \in events :
         (f.aggregateId = e.aggregateId /\ f.version = e.version) => f = e
    /\ IF e.version = 1
       THEN e.type = "StoreCreated"
       ELSE \E p \in events :
              /\ p.aggregateId = e.aggregateId
              /\ p.version + 1 = e.version
              /\ Permitted(e.type, [version |-> p.version, owner |-> NoVendor,
                                    operationStatus |-> StatusAfter(p.type),
                                    orchestrator |-> OrchestratorAfter(p.type)])

\* A request that was answered with success finds its own decision in the log.
AcknowledgedIsRecorded ==
  \A r \in Requests : pc[r] = "ok" => EventOf(r) \in events

\* The stale reads, the re-read, the partial UPDATE and the unique constraints
\* together behave as if each request were served at one instant.
Phase(row) ==
  IF isNew(row) THEN "absent"
  ELSE IF isOpened(row) THEN "selling"
  ELSE IF isClosedBySuperAdmin(row) THEN "suspended" ELSE "shut"

Contract == INSTANCE StoreContract WITH
  phase <- [s \in Stores |-> Phase(store[s])],
  owner <- [s \in Stores |-> store[s].owner],
  decisions <- [s \in Stores |-> store[s].version]

ImplementsContract == Contract!Spec
==============================================================================
