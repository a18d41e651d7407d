-------------------------- MODULE StoreSalesProofs --------------------------
(***************************************************************************)
(* StoreSales for any number of requests, stores and vendors.              *)
(*                                                                         *)
(* The argument: the versions in the log of a store are 1 .. the version   *)
(* of its row (LogIsComplete).  A request that decided on version n wants  *)
(* to add n + 1, so the unique constraint lets it commit only while the    *)
(* row is still the one it decided on (SnapshotIsCurrent): then save's     *)
(* column by column UPDATE writes exactly the row the command computed.    *)
(***************************************************************************)
EXTENDS StoreSales, TLAPS

------------------------------------------------------------------------------
(* The inductive invariant.                                                 *)

\* The versions logged for a store are exactly those its row went through.
LogIsComplete ==
  /\ \A e \in events : e.version <= store[e.aggregateId].version
  /\ \A s \in Stores : \A n \in 1..store[s].version : VersionTaken(events, s, n)

\* The command a request holds was decided on this row.
DecidedOn(w, row) ==
  /\ Permitted(w.type, row)
  /\ \E v \in Vendors \cup {NoVendor} : w.entity = Applied(w.type, row, v)

\* What a request that has decided, and waits at `label` to be saved, holds:
\* the state its command leaves, at most one version ahead of the table, and
\* when it is ahead, of the very row that is still there.
Pending(w, row, label) ==
  /\ w.entity.operationStatus = StatusAfter(w.type)
  /\ w.entity.orchestrator = OrchestratorAfter(w.type)
  /\ w.entity.version = 1 <=> w.type = "StoreCreated"
  /\ w.entity.version <= row.version + 1
  /\ w.entity.version = row.version + 1 =>
       DecidedOn(w, row) /\ (label = "write" => w.seen = row)

SnapshotIsCurrent ==
  \A r \in Requests :
    pc[r] \in {"save", "write"} => Pending(work[r], store[work[r].store], pc[r])

IInv ==
  /\ TypeOK
  /\ LogIsComplete
  /\ RowIsLastEvent
  /\ HistoryIsLegal
  /\ SnapshotIsCurrent
  /\ AcknowledgedIsRecorded

------------------------------------------------------------------------------
(* Lemmas.                                                                  *)

\* A permitted command on a row (saved, or new for StoreCreated) makes a row
\* that can be saved: one version further, with its owner.
LEMMA AppliedType ==
  ASSUME NEW type \in EventTypes, NEW row \in SavedRow \cup {EmptyRow},
         NEW v \in Vendors \cup {NoVendor},
         type = "StoreCreated" => v \in Vendors,
         type # "StoreCreated" => row \in SavedRow
  PROVE  Applied(type, row, v) \in SavedRow
  BY DEF Applied, SavedRow, EmptyRow, nextVersion, StatusAfter, OrchestratorAfter,
         Statuses, Orchestrators

\* An UPDATE over the very row that was read leaves the row in memory.
LEMMA MergedOverSame ==
  ASSUME NEW mine \in SavedRow, NEW row \in SavedRow \cup {EmptyRow}
  PROVE  Merged(mine, row, row) = mine
  BY DEF Merged, Written, SavedRow, EmptyRow

\* A row that is in the table is not the row that is not.
LEMMA SavedIsNotNew ==
  ASSUME NEW row \in SavedRow \cup {EmptyRow}
  PROVE  /\ isNew(row) <=> row = EmptyRow
         /\ ~isNew(row) <=> row \in SavedRow
  BY DEF SavedRow, EmptyRow, isNew

------------------------------------------------------------------------------
(* Types.                                                                   *)

\* The initial state has the types.
LEMMA InitTypeOK == Init => TypeOK
  BY DEF Init, TypeOK, NoWork

\* A handler that reaches its save holds a complete entity.
LEMMA SaveTypeOK ==
  ASSUME TypeOK, NEW r \in Requests, NEW s \in Stores, NEW type \in EventTypes,
         NEW v \in Vendors \cup {NoVendor},
         type = "StoreCreated" => v \in Vendors,
         type # "StoreCreated" => ~isNew(store[s]),
         Save(r, s, type, v)
  PROVE  TypeOK'
<1>1. store[s] \in SavedRow \cup {EmptyRow}
  BY DEF TypeOK
<1>2. Applied(type, store[s], v) \in SavedRow
  BY <1>1, AppliedType, SavedIsNotNew
<1> DEFINE w == [store |-> s, type |-> type, entity |-> Applied(type, store[s], v),
                 seen |-> EmptyRow]
<1>3. w \in Work
  BY <1>2 DEF Work
<1>4. work' = [work EXCEPT ![r] = w] /\ pc' = [pc EXCEPT ![r] = "save"]
      /\ UNCHANGED <<store, events>>
  BY DEF Save
<1> HIDE DEF w
<1> QED
  BY <1>3, <1>4 DEF TypeOK

\* A rejected request leaves its types as they were.
LEMMA RejectTypeOK ==
  ASSUME TypeOK, NEW r \in Requests, Reject(r)
  PROVE  TypeOK'
  BY DEF TypeOK, Reject

\* What a finder finds is in the table.
LEMMA LoadAndRunTypeOK ==
  ASSUME TypeOK, NEW r \in Requests, NEW type \in EventTypes \ {"StoreCreated"},
         NEW found \in SUBSET {s \in Stores : ~isNew(store[s])},
         LoadAndRun(r, found, type)
  PROVE  TypeOK'
<1>1. CASE Reject(r)
  BY <1>1, RejectTypeOK
<1>2. CASE \E s \in found : Save(r, s, type, NoVendor)
  BY <1>2, SaveTypeOK
<1> QED
  BY <1>1, <1>2 DEF LoadAndRun

------------------------------------------------------------------------------
(* The steps that write nothing.                                            *)

\* Neither the rows nor the log: everything said about those two stays true.
LEMMA TablesUnchanged ==
  ASSUME IInv, UNCHANGED <<store, events>>
  PROVE  LogIsComplete' /\ RowIsLastEvent' /\ HistoryIsLegal'
  BY DEF IInv, LogIsComplete, RowIsLastEvent, HistoryIsLegal, VersionTaken

\* Rejecting a request keeps the invariant.
LEMMA RejectIInv ==
  ASSUME IInv, NEW r \in Requests, Reject(r)
  PROVE  IInv'
<1>1. TypeOK'
  BY RejectTypeOK DEF IInv
<1>2. LogIsComplete' /\ RowIsLastEvent' /\ HistoryIsLegal'
  BY TablesUnchanged DEF Reject
<1>3. SnapshotIsCurrent'
  BY DEF IInv, TypeOK, SnapshotIsCurrent, Reject, Pending, DecidedOn
<1>4. AcknowledgedIsRecorded'
  BY DEF IInv, TypeOK, AcknowledgedIsRecorded, Reject, EventOf
<1> QED
  BY <1>1, <1>2, <1>3, <1>4 DEF IInv

\* A handler that reaches its save has decided on the row that is stored.
LEMMA SaveIInv ==
  ASSUME IInv, NEW r \in Requests, NEW s \in Stores, NEW type \in EventTypes,
         NEW v \in Vendors \cup {NoVendor},
         type = "StoreCreated" => v \in Vendors,
         type = "StoreCreated" <=> isNew(store[s]),
         Permitted(type, store[s]),
         Save(r, s, type, v)
  PROVE  IInv'
<1>1. TypeOK'
  BY SaveTypeOK DEF IInv
<1>2. LogIsComplete' /\ RowIsLastEvent' /\ HistoryIsLegal'
  BY TablesUnchanged DEF Save
<1>3. SnapshotIsCurrent'
  <2> SUFFICES ASSUME NEW q \in Requests, pc'[q] \in {"save", "write"}
               PROVE  Pending(work'[q], store'[work'[q].store], pc'[q])
    BY DEF SnapshotIsCurrent, Pending, DecidedOn
  <2>1. CASE q # r
    <3>1. pc'[q] = pc[q] /\ work'[q] = work[q] /\ store' = store
      BY <2>1 DEF Save, IInv, TypeOK
    <3> QED
      BY <3>1 DEF IInv, SnapshotIsCurrent
  <2>2. CASE q = r
    <3>1. /\ pc'[r] = "save" /\ store' = store
          /\ work'[r] = [store |-> s, type |-> type,
                         entity |-> Applied(type, store[s], v), seen |-> EmptyRow]
      BY DEF Save, IInv, TypeOK
    <3>2. store[s] \in SavedRow \cup {EmptyRow}
      BY DEF IInv, TypeOK
    <3>3. store[s].version \in Nat
      BY <3>2 DEF SavedRow, EmptyRow
    <3>4. Applied(type, store[s], v).version = store[s].version + 1
      BY DEF Applied, nextVersion
    <3> QED
      BY <2>2, <3>1, <3>3, <3>4 DEF Pending, DecidedOn, isNew, Applied
  <2> QED
    BY <2>1, <2>2
<1>4. AcknowledgedIsRecorded'
  BY DEF IInv, TypeOK, AcknowledgedIsRecorded, Save, EventOf
<1> QED
  BY <1>1, <1>2, <1>3, <1>4 DEF IInv

\* The endpoints on an existing store.
LEMMA LoadAndRunIInv ==
  ASSUME IInv, NEW r \in Requests, NEW type \in EventTypes \ {"StoreCreated"},
         NEW found \in SUBSET {s \in Stores : ~isNew(store[s])},
         LoadAndRun(r, found, type)
  PROVE  IInv'
<1>1. CASE Reject(r)
  BY <1>1, RejectIInv
<1>2. CASE \E s \in found : Permitted(type, store[s]) /\ Save(r, s, type, NoVendor)
  BY <1>2, SaveIInv
<1> QED
  BY <1>1, <1>2 DEF LoadAndRun

\* The endpoint that creates a store.
LEMMA CreateStoreIInv ==
  ASSUME IInv, NEW r \in Requests, NEW v \in Vendors, NEW s \in Stores,
         createStore(r, v, s)
  PROVE  IInv'
<1>1. Permitted("StoreCreated", store[s]) /\ "StoreCreated" \in EventTypes
  BY DEF createStore, Permitted, EventTypes
<1> QED
  BY <1>1, SaveIInv DEF createStore

\* The two states an event leaves tell which event it was, among those of a
\* store that has been created, and among those of version 1.
LEMMA EventFromState ==
  ASSUME NEW t \in EventTypes, NEW u \in EventTypes,
         t = "StoreCreated" <=> u = "StoreCreated",
         StatusAfter(t) = StatusAfter(u),
         OrchestratorAfter(t) = OrchestratorAfter(u)
  PROVE  t = u
  BY DEF EventTypes, StatusAfter, OrchestratorAfter

\* Only the first version of a store is its creation.
LEMMA CreationIsFirst ==
  ASSUME IInv, NEW e \in events
  PROVE  e.version = 1 <=> e.type = "StoreCreated"
<1>1. CASE e.version = 1
  BY <1>1 DEF IInv, HistoryIsLegal
<1>2. CASE e.version # 1
  <2>1. PICK p \in events :
          Permitted(e.type, [version |-> p.version, owner |-> NoVendor,
                             operationStatus |-> StatusAfter(p.type),
                             orchestrator |-> OrchestratorAfter(p.type)])
    BY <1>2 DEF IInv, HistoryIsLegal
  <2>2. p.version # 0
    BY DEF IInv, TypeOK, Event
  <2> QED
    BY <1>2, <2>1, <2>2 DEF Permitted, isNew
<1> QED
  BY <1>1, <1>2

\* save finds nothing to write only when the decision is in the log already.
LEMMA SelectStoredIInv ==
  ASSUME IInv, NEW r \in Requests, SelectStored(r)
  PROVE  IInv'
<1> DEFINE stored == store[work[r].store]
<1>0. /\ pc[r] = "save" /\ work[r] \in Work /\ work[r].store \in Stores
      /\ stored \in SavedRow \cup {EmptyRow}
  BY DEF SelectStored, IInv, TypeOK, Work
<1>a. /\ work' = [work EXCEPT ![r].seen = stored] /\ UNCHANGED <<store, events>>
      /\ pc' = [pc EXCEPT ![r] = IF work[r].entity = stored THEN "ok" ELSE "write"]
  BY DEF SelectStored
<1>b. /\ work'[r].store = work[r].store /\ work'[r].type = work[r].type
      /\ work'[r].entity = work[r].entity /\ work'[r].seen = stored
      /\ \A q \in Requests : q # r => work'[q] = work[q] /\ pc'[q] = pc[q]
  BY <1>0, <1>a DEF IInv, TypeOK, Work
<1> HIDE DEF stored
<1>1. TypeOK'
  <2>1. work'[r] \in Work
    BY <1>0, <1>a DEF IInv, TypeOK, Work
  <2>2. work' \in [Requests -> Work \cup {NoWork}]
    BY <1>a, <1>b, <2>1 DEF IInv, TypeOK
  <2> QED
    BY <1>a, <1>b, <2>1, <2>2 DEF IInv, TypeOK
<1>2. LogIsComplete' /\ RowIsLastEvent' /\ HistoryIsLegal'
  BY <1>a, TablesUnchanged
<1>3. SnapshotIsCurrent'
  <2> SUFFICES ASSUME NEW q \in Requests, pc'[q] \in {"save", "write"}
               PROVE  Pending(work'[q], store'[work'[q].store], pc'[q])
    BY DEF SnapshotIsCurrent, Pending, DecidedOn
  <2>1. CASE q # r
    BY <2>1, <1>a, <1>b DEF IInv, SnapshotIsCurrent
  <2>2. CASE q = r
    BY <2>2, <1>0, <1>a, <1>b DEF IInv, SnapshotIsCurrent, Pending, DecidedOn, stored
  <2> QED
    BY <2>1, <2>2
<1>4. AcknowledgedIsRecorded'
  <2> SUFFICES ASSUME NEW q \in Requests, pc'[q] = "ok"
               PROVE  EventOf(q)' \in events
    BY <1>a DEF AcknowledgedIsRecorded
  <2>1. EventOf(q)' = EventOf(q)
    BY <1>b DEF EventOf
  <2>2. CASE q # r
    BY <2>1, <2>2, <1>b DEF IInv, AcknowledgedIsRecorded
  <2>3. CASE q = r
    <3>1. work[r].entity = stored
      BY <2>3, <1>0, <1>a DEF IInv, TypeOK
    <3>2. stored \in SavedRow /\ ~isNew(stored)
      BY <3>1, <1>0, SavedIsNotNew DEF Work
    <3>3. PICK e \in events :
            /\ e.aggregateId = work[r].store
            /\ e.version = stored.version
            /\ stored.operationStatus = StatusAfter(e.type)
            /\ stored.orchestrator = OrchestratorAfter(e.type)
      BY <1>0, <3>2 DEF IInv, RowIsLastEvent, stored
    <3>4. e.type = "StoreCreated" <=> work[r].type = "StoreCreated"
      BY <1>0, <3>1, <3>3, CreationIsFirst DEF IInv, SnapshotIsCurrent, Pending
    <3>5. /\ StatusAfter(e.type) = StatusAfter(work[r].type)
          /\ OrchestratorAfter(e.type) = OrchestratorAfter(work[r].type)
      BY <1>0, <3>1, <3>3 DEF IInv, SnapshotIsCurrent, Pending
    <3>6. e.type \in EventTypes /\ work[r].type \in EventTypes
      BY <1>0 DEF IInv, TypeOK, Event, Work
    <3>7. e.type = work[r].type
      BY <3>4, <3>5, <3>6, EventFromState
    <3>8. e = EventOf(r)
      BY <3>1, <3>3, <3>7 DEF IInv, TypeOK, Event, EventOf
    <3> QED
      BY <2>1, <2>3, <3>8
  <2> QED
    BY <2>2, <2>3
<1> QED
  BY <1>1, <1>2, <1>3, <1>4 DEF IInv

------------------------------------------------------------------------------
(* The step that writes.                                                    *)

\* A transaction that commits found the row its command was decided on, and
\* leaves the row the command computed.
LEMMA CommitEffect ==
  ASSUME IInv, NEW r \in Requests, Commit(r)
  PROVE  /\ work[r] \in Work
         /\ work[r].entity.version = store[work[r].store].version + 1
         /\ DecidedOn(work[r], store[work[r].store])
         /\ work[r].seen = store[work[r].store]
         /\ store' = [store EXCEPT ![work[r].store] = work[r].entity]
<1> DEFINE s == work[r].store
           n == work[r].entity.version
<1>1. work[r] \in Work /\ pc[r] = "write"
  BY DEF Commit, IInv, TypeOK
<1>2. s \in Stores /\ work[r].entity \in SavedRow /\ n \in Nat \ {0}
  BY <1>1 DEF Work, SavedRow
<1>3. store[s] \in SavedRow \cup {EmptyRow} /\ store[s].version \in Nat
  BY <1>2 DEF IInv, TypeOK, SavedRow, EmptyRow
<1>4. n \notin 1..store[s].version
  BY <1>2 DEF Commit, UniqueViolation, IInv, LogIsComplete
<1>5. Pending(work[r], store[s], "write")
  BY <1>1 DEF IInv, SnapshotIsCurrent
<1>6. n = store[s].version + 1
  BY <1>2, <1>3, <1>4, <1>5 DEF Pending
<1>7. DecidedOn(work[r], store[s]) /\ work[r].seen = store[s]
  BY <1>5, <1>6 DEF Pending
<1>8. Merged(work[r].entity, work[r].seen, store[s]) = work[r].entity
  BY <1>2, <1>3, <1>7, MergedOverSame
<1> QED
  BY <1>1, <1>2, <1>6, <1>7, <1>8 DEF Commit, IInv, TypeOK

\* A commit adds the event that follows the last one of its store.
LEMMA CommitIInv ==
  ASSUME IInv, NEW r \in Requests, Commit(r)
  PROVE  IInv'
<1> DEFINE s == work[r].store
           w == work[r]
           e == EventOf(r)
<1>1. /\ w \in Work /\ s \in Stores /\ w.entity \in SavedRow
      /\ store[s] \in SavedRow \cup {EmptyRow} /\ store[s].version \in Nat
  BY CommitEffect DEF Work, IInv, TypeOK, SavedRow, EmptyRow
<1>2. /\ w.entity.version = store[s].version + 1
      /\ DecidedOn(w, store[s])
      /\ w.seen = store[s]
  BY CommitEffect
<1>3. /\ store' = [store EXCEPT ![s] = w.entity] /\ events' = events \cup {e}
      /\ pc' = [pc EXCEPT ![r] = "ok"] /\ work' = work
  BY CommitEffect DEF Commit
<1>4. /\ e = [aggregateId |-> s, version |-> store[s].version + 1, type |-> w.type]
      /\ e \in Event
  BY <1>1, <1>2 DEF EventOf, Event, Work
<1>5. /\ w.entity.operationStatus = StatusAfter(w.type)
      /\ w.entity.orchestrator = OrchestratorAfter(w.type)
      /\ w.entity.version = 1 <=> w.type = "StoreCreated"
  BY DEF Commit, IInv, SnapshotIsCurrent, Pending
<1>6. /\ store'[s] = w.entity
      /\ \A t \in Stores \ {s} : store'[t] = store[t]
  BY <1>1, <1>3 DEF IInv, TypeOK
<1>7. \A f \in events : /\ f \in Event
                        /\ f.aggregateId = s => f.version <= store[s].version
  BY DEF IInv, TypeOK, LogIsComplete
<1> HIDE DEF e
<1>a. TypeOK'
  BY <1>1, <1>3, <1>4 DEF IInv, TypeOK
<1>b. LogIsComplete'
  <2>1. \A f \in events' : f.version <= store'[f.aggregateId].version
    <3> SUFFICES ASSUME NEW f \in events' PROVE f.version <= store'[f.aggregateId].version
      OBVIOUS
    <3>1. CASE f = e
      BY <3>1, <1>1, <1>2, <1>4, <1>6
    <3>2. CASE f \in events /\ f.aggregateId = s
      BY <3>2, <1>1, <1>2, <1>6, <1>7 DEF Event
    <3>3. CASE f \in events /\ f.aggregateId # s
      BY <3>3, <1>6, <1>7 DEF IInv, LogIsComplete, Event
    <3> QED
      BY <3>1, <3>2, <3>3, <1>3
  <2>2. \A t \in Stores : \A n \in 1..store'[t].version : VersionTaken(events', t, n)
    <3> SUFFICES ASSUME NEW t \in Stores, NEW n \in 1..store'[t].version
                 PROVE  VersionTaken(events', t, n)
      OBVIOUS
    <3>1. CASE t = s /\ n = store[s].version + 1
      BY <3>1, <1>3, <1>4 DEF VersionTaken
    <3>2. CASE ~(t = s /\ n = store[s].version + 1)
      <4>1. n \in 1..store[t].version
        BY <3>2, <1>1, <1>2, <1>6
      <4>2. VersionTaken(events, t, n)
        BY <4>1 DEF IInv, LogIsComplete
      <4> QED
        BY <4>2, <1>3 DEF VersionTaken
    <3> QED
      BY <3>1, <3>2
  <2> QED
    BY <2>1, <2>2 DEF LogIsComplete, VersionTaken
<1>c. RowIsLastEvent'
  <2> SUFFICES ASSUME NEW t \in Stores
               PROVE  /\ \A f \in events' : f.aggregateId = t => f.version <= store'[t].version
                      /\ ~isNew(store'[t]) =>
                           \E f \in events' :
                             /\ f.aggregateId = t
                             /\ f.version = store'[t].version
                             /\ store'[t].operationStatus = StatusAfter(f.type)
                             /\ store'[t].orchestrator = OrchestratorAfter(f.type)
    BY DEF RowIsLastEvent, isNew
  <2>1. \A f \in events' : f.aggregateId = t => f.version <= store'[t].version
    BY <1>b DEF LogIsComplete
  <2>2. CASE t = s
    BY <2>1, <2>2, <1>2, <1>3, <1>4, <1>5, <1>6
  <2>3. CASE t # s
    BY <2>1, <2>3, <1>3, <1>6 DEF IInv, RowIsLastEvent
  <2> QED
    BY <2>2, <2>3
<1>d. HistoryIsLegal'
  <2>1. \A f, g \in events' :
          (g.aggregateId = f.aggregateId /\ g.version = f.version) => g = f
    <3>1. \A f \in events : f.aggregateId = s => f.version # e.version
      BY <1>1, <1>4, <1>7 DEF Event
    <3>2. e.aggregateId = s
      BY <1>4
    <3> QED
      BY <3>1, <3>2, <1>3 DEF IInv, HistoryIsLegal
  <2>2. ASSUME NEW f \in events, f.version # 1
        PROVE  \E p \in events' :
                 /\ p.aggregateId = f.aggregateId
                 /\ p.version + 1 = f.version
                 /\ Permitted(f.type, [version |-> p.version, owner |-> NoVendor,
                                       operationStatus |-> StatusAfter(p.type),
                                       orchestrator |-> OrchestratorAfter(p.type)])
    BY <2>2, <1>3 DEF IInv, HistoryIsLegal
  <2>3. ASSUME e.version # 1
        PROVE  \E p \in events' :
                 /\ p.aggregateId = e.aggregateId
                 /\ p.version + 1 = e.version
                 /\ Permitted(e.type, [version |-> p.version, owner |-> NoVendor,
                                       operationStatus |-> StatusAfter(p.type),
                                       orchestrator |-> OrchestratorAfter(p.type)])
    <3>1. ~isNew(store[s])
      BY <2>3, <1>1, <1>4 DEF isNew
    <3>2. PICK p \in events :
            /\ p.aggregateId = s
            /\ p.version = store[s].version
            /\ store[s].operationStatus = StatusAfter(p.type)
            /\ store[s].orchestrator = OrchestratorAfter(p.type)
      BY <3>1, <1>1 DEF IInv, RowIsLastEvent
    <3>3. Permitted(w.type, store[s])
      BY <1>2 DEF DecidedOn
    <3>4. Permitted(w.type, [version |-> p.version, owner |-> NoVendor,
                             operationStatus |-> StatusAfter(p.type),
                             orchestrator |-> OrchestratorAfter(p.type)])
      BY <3>2, <3>3 DEF Permitted, isNew, isOpened, isClosed, isClosedBySuperAdmin
    <3> QED
      BY <3>2, <3>4, <1>3, <1>4
  <2>4. \A f \in events' : f.version = 1 => f.type = "StoreCreated"
    BY <1>2, <1>3, <1>4, <1>5 DEF IInv, HistoryIsLegal
  <2> QED
    BY <2>1, <2>2, <2>3, <2>4, <1>3 DEF HistoryIsLegal
<1>e. SnapshotIsCurrent'
  <2> SUFFICES ASSUME NEW q \in Requests, pc'[q] \in {"save", "write"}
               PROVE  Pending(work[q], store'[work[q].store], pc'[q])
    BY <1>3 DEF SnapshotIsCurrent, Pending, DecidedOn
  <2>1. q # r /\ pc'[q] = pc[q]
    BY <1>3 DEF IInv, TypeOK
  <2>2. Pending(work[q], store[work[q].store], pc[q])
    BY <2>1 DEF IInv, SnapshotIsCurrent
  <2>3. work[q] \in Work
    BY <2>1 DEF IInv, TypeOK
  <2>4. CASE work[q].store = s
    <3>1. work[q].entity.version <= store[s].version + 1 /\ work[q].entity.version \in Nat
      BY <2>2, <2>3, <2>4 DEF Pending, Work, SavedRow
    <3>2. work[q].entity.version <= store'[s].version
      BY <3>1, <1>2, <1>6
    <3>3. store'[s].version \in Nat
      BY <1>1, <1>2, <1>6
    <3> QED
      BY <2>2, <2>4, <3>1, <3>2, <3>3 DEF Pending
  <2>5. CASE work[q].store # s
    BY <2>1, <2>2, <2>3, <2>5, <1>6 DEF Work
  <2> QED
    BY <2>4, <2>5
<1>f. AcknowledgedIsRecorded'
  <2> SUFFICES ASSUME NEW q \in Requests, pc'[q] = "ok" PROVE EventOf(q)' \in events'
    BY DEF AcknowledgedIsRecorded
  <2>1. EventOf(q)' = EventOf(q)
    BY <1>3 DEF EventOf
  <2>2. CASE q = r
    BY <2>1, <2>2, <1>3 DEF e
  <2>3. CASE q # r
    BY <2>1, <2>3, <1>3 DEF IInv, TypeOK, AcknowledgedIsRecorded
  <2> QED
    BY <2>2, <2>3
<1> QED
  BY <1>a, <1>b, <1>c, <1>d, <1>e, <1>f DEF IInv

\* A rollback drops the request's work: no row, no event.
LEMMA RollbackIInv ==
  ASSUME IInv, NEW r \in Requests, Rollback(r)
  PROVE  IInv'
<1>1. TypeOK'
  <2>1. pc[r] = "write" /\ work[r] \in Work
    BY DEF Rollback, IInv, TypeOK
  <2> QED
    BY <2>1 DEF IInv, TypeOK, Rollback
<1>2. LogIsComplete' /\ RowIsLastEvent' /\ HistoryIsLegal'
  BY TablesUnchanged DEF Rollback
<1>3. SnapshotIsCurrent'
  BY DEF IInv, TypeOK, SnapshotIsCurrent, Rollback, Pending, DecidedOn
<1>4. AcknowledgedIsRecorded'
  BY DEF IInv, TypeOK, AcknowledgedIsRecorded, Rollback, EventOf
<1> QED
  BY <1>1, <1>2, <1>3, <1>4 DEF IInv

------------------------------------------------------------------------------
(* The invariant.                                                           *)

\* No row and no event: the invariant holds.
LEMMA InitIInv == Init => IInv
<1> SUFFICES ASSUME Init PROVE IInv
  OBVIOUS
<1>1. TypeOK
  BY InitTypeOK
<1>2. LogIsComplete /\ RowIsLastEvent /\ HistoryIsLegal
  BY DEF Init, LogIsComplete, RowIsLastEvent, HistoryIsLegal, EmptyRow, isNew
<1>3. SnapshotIsCurrent /\ AcknowledgedIsRecorded
  BY DEF Init, SnapshotIsCurrent, AcknowledgedIsRecorded
<1> QED
  BY <1>1, <1>2, <1>3 DEF IInv

\* Every step of every request keeps it.
LEMMA NextIInv == IInv /\ [Next]_vars => IInv'
<1> SUFFICES ASSUME IInv, [Next]_vars PROVE IInv'
  OBVIOUS
<1>1. ASSUME NEW r \in Requests, NEW v \in Vendors, NEW s \in Stores, createStore(r, v, s)
      PROVE  IInv'
  BY <1>1, CreateStoreIInv
<1>2. ASSUME NEW r \in Requests, NEW v \in Vendors, openStoreForSales(r, v)
      PROVE  IInv'
  BY <1>2, LoadAndRunIInv DEF openStoreForSales, findByOwner, EventTypes
<1>3. ASSUME NEW r \in Requests, NEW v \in Vendors, closeStoreAfterSales(r, v)
      PROVE  IInv'
  BY <1>3, LoadAndRunIInv DEF closeStoreAfterSales, findOpenedByOwner, findByOwner, EventTypes
<1>4. ASSUME NEW r \in Requests, NEW s \in Stores, open(r, s)
      PROVE  IInv'
  BY <1>4, LoadAndRunIInv DEF open, findById, EventTypes
<1>5. ASSUME NEW r \in Requests, NEW s \in Stores, closeShop(r, s)
      PROVE  IInv'
  BY <1>5, LoadAndRunIInv DEF closeShop, findById, EventTypes
<1>6. ASSUME NEW r \in Requests, SelectStored(r) \/ Commit(r) \/ Rollback(r)
      PROVE  IInv'
  BY <1>6, SelectStoredIInv, CommitIInv, RollbackIInv
<1>7. CASE UNCHANGED vars
  <2>1. LogIsComplete' /\ RowIsLastEvent' /\ HistoryIsLegal'
    BY <1>7, TablesUnchanged DEF vars
  <2>2. TypeOK' /\ SnapshotIsCurrent' /\ AcknowledgedIsRecorded'
    BY <1>7 DEF IInv, vars, TypeOK, SnapshotIsCurrent, Pending, DecidedOn,
                AcknowledgedIsRecorded, EventOf
  <2> QED
    BY <2>1, <2>2 DEF IInv
<1> QED
  BY <1>1, <1>2, <1>3, <1>4, <1>5, <1>6, <1>7 DEF Next

\* The inductive invariant: types, complete logs, legal logs, and, for every
\* request in flight, what the row and the log were when it decided.
THEOREM Invariance == Spec => []IInv
  BY InitIInv, NextIInv, PTL DEF Spec

\* The store table, its log and the memory of every request keep their types.
THEOREM TypeCorrect == Spec => []TypeOK
<1>1. IInv => TypeOK
  BY DEF IInv
<1> QED
  BY <1>1, Invariance, PTL

\* No interleaving of requests separates the row of a store from its log.
THEOREM RowFollowsLog == Spec => []RowIsLastEvent
<1>1. IInv => RowIsLastEvent
  BY DEF IInv
<1> QED
  BY <1>1, Invariance, PTL

\* However stale the snapshots requests decide on, the log of every store is a
\* run of the aggregate taken one command at a time.
THEOREM HistoryLegal == Spec => []HistoryIsLegal
<1>1. IInv => HistoryIsLegal
  BY DEF IInv
<1> QED
  BY <1>1, Invariance, PTL

\* Success is answered only for a decision that is in the log.
THEOREM AcknowledgedRecorded == Spec => []AcknowledgedIsRecorded
<1>1. IInv => AcknowledgedIsRecorded
  BY DEF IInv
<1> QED
  BY <1>1, Invariance, PTL

------------------------------------------------------------------------------
(* The refinement.                                                          *)

\* No row, no store.
LEMMA InitRefines == Init => Contract!Init
  BY DEF Init, Contract!Init, Phase, isNew, EmptyRow

\* The steps that leave the table alone are stutters of the contract.
LEMMA QuietStep ==
  ASSUME UNCHANGED store
  PROVE  UNCHANGED Contract!vars
  BY DEF Contract!vars, Phase, isNew, isOpened, isClosed, isClosedBySuperAdmin

\* A commit is the one decision of the contract that its event names.
LEMMA CommitRefines ==
  ASSUME IInv, IInv', NEW r \in Requests, Commit(r)
  PROVE  Contract!Next
<1>0. PICK s \in Stores : s = work[r].store
  BY CommitEffect DEF Work
<1> DEFINE w == work[r]
           phase == [t \in Stores |-> Phase(store[t])]
           owner == [t \in Stores |-> store[t].owner]
           decisions == [t \in Stores |-> store[t].version]
<1>1. /\ w \in Work /\ w.type \in EventTypes
      /\ store' = [store EXCEPT ![s] = w.entity]
      /\ w.entity.version = store[s].version + 1
      /\ w.seen = store[s]
      /\ store[s] \in SavedRow \cup {EmptyRow}
      /\ w.entity \in SavedRow
  BY <1>0, CommitEffect DEF Work, IInv, TypeOK
<1>2. PICK v \in Vendors \cup {NoVendor} : w.entity = Applied(w.type, store[s], v)
  BY <1>0, CommitEffect DEF DecidedOn
<1>3. Permitted(w.type, store[s])
  BY <1>0, CommitEffect DEF DecidedOn
<1>4. /\ store'[s] = w.entity
      /\ \A t \in Stores \ {s} : store'[t] = store[t]
  BY <1>1 DEF IInv, TypeOK
<1>5. /\ phase' = [phase EXCEPT ![s] = Phase(w.entity)]
      /\ owner' = [owner EXCEPT ![s] = w.entity.owner]
      /\ decisions' = [decisions EXCEPT ![s] = decisions[s] + 1]
  <2>1. phase' = [t \in Stores |-> Phase(store'[t])]
    BY DEF Phase, isNew, isOpened, isClosed, isClosedBySuperAdmin
  <2>2. phase' = [phase EXCEPT ![s] = Phase(w.entity)]
    BY <2>1, <1>4
  <2>3. owner' = [owner EXCEPT ![s] = w.entity.owner]
    BY <1>4
  <2>4. decisions' = [decisions EXCEPT ![s] = decisions[s] + 1]
    <3>1. store'[s].version = decisions[s] + 1
      BY <1>1, <1>4
    <3>2. \A t \in Stores \ {s} : store'[t].version = decisions[t]
      BY <1>4
    <3> QED
      BY <3>1, <3>2
  <2> QED
    BY <2>2, <2>3, <2>4
<1>6. w.type = "StoreCreated" <=> isNew(store[s])
  <2>1. Pending(w, store[s], "write") /\ store[s].version \in Nat
    BY <1>0, <1>1 DEF Commit, IInv, SnapshotIsCurrent, SavedRow, EmptyRow
  <2> QED
    BY <2>1, <1>1 DEF Pending, isNew
<1>7. w.type # "StoreCreated" => w.entity.owner = store[s].owner
  BY <1>2 DEF Applied
<1>8. owner' = owner \/ w.type = "StoreCreated"
  BY <1>1, <1>5, <1>7
<1>9. Phase(w.entity) = IF w.type \in {"OpenedForSale", "OpenedAfterInspection"} THEN "selling"
                        ELSE IF w.type = "ClosedAfterInspection" THEN "suspended" ELSE "shut"
  BY <1>1, <1>2 DEF Phase, Applied, StatusAfter, OrchestratorAfter, SavedRow, EventTypes,
                    isNew, isOpened, isClosed, isClosedBySuperAdmin
<1>10. phase[s] = Phase(store[s])
  BY <1>1
<1>a. CASE w.type = "StoreCreated"
  <2>1. PICK u \in Vendors : u = w.entity.owner
    BY <1>1 DEF SavedRow
  <2>2. \A t \in Stores : owner[t] # w.entity.owner
    <3> SUFFICES ASSUME NEW t \in Stores PROVE store[t].owner # w.entity.owner
      OBVIOUS
    <3>1. isNew(w.seen)
      BY <1>a, <1>1, <1>6
    <3>2. isNew(store[t]) \/ store[t].owner # w.entity.owner
      BY <3>1 DEF Commit, UniqueViolation
    <3>3. store[t] \in SavedRow \cup {EmptyRow}
      BY DEF IInv, TypeOK
    <3>4. CASE isNew(store[t])
      BY <3>3, <3>4, <2>1, SavedIsNotNew, NoVendorAssumption DEF EmptyRow
    <3> QED
      BY <3>2, <3>4
  <2>3. phase[s] = "absent" /\ Phase(w.entity) = "shut"
    BY <1>a, <1>6, <1>9, <1>10 DEF Phase
  <2>4. Contract!Create(s, u)
    BY <2>1, <2>2, <2>3, <1>5 DEF Contract!Create, Contract!Decide
  <2> QED
    BY <2>4 DEF Contract!Next
<1>b. CASE w.type = "OpenedForSale"
  <2>1. phase[s] = "shut" /\ Phase(w.entity) = "selling"
    BY <1>b, <1>3, <1>6, <1>9, <1>10 DEF Phase, Permitted
  <2>2. Contract!VendorOpens(s)
    BY <2>1, <1>b, <1>5, <1>8 DEF Contract!VendorOpens, Contract!Decide
  <2> QED
    BY <2>2 DEF Contract!Next
<1>c. CASE w.type = "ClosedAfterSale"
  <2>1. phase[s] = "selling" /\ Phase(w.entity) = "shut"
    BY <1>c, <1>1, <1>3, <1>6, <1>9, <1>10, SavedIsNotNew
       DEF Phase, Permitted, isOpened, isClosed, SavedRow, Statuses
  <2>2. Contract!VendorCloses(s)
    BY <2>1, <1>c, <1>5, <1>8 DEF Contract!VendorCloses, Contract!Decide
  <2> QED
    BY <2>2 DEF Contract!Next
<1>d. CASE w.type = "ClosedAfterInspection"
  <2>1. phase[s] \in {"selling", "shut"} /\ Phase(w.entity) = "suspended"
    BY <1>d, <1>3, <1>6, <1>9, <1>10 DEF Phase, Permitted
  <2>2. Contract!AdminSuspends(s)
    BY <2>1, <1>d, <1>5, <1>8 DEF Contract!AdminSuspends, Contract!Decide
  <2> QED
    BY <2>2 DEF Contract!Next
<1>e. CASE w.type = "OpenedAfterInspection"
  <2>1. phase[s] = "suspended" /\ Phase(w.entity) = "selling"
    BY <1>e, <1>3, <1>6, <1>9, <1>10
       DEF Phase, Permitted, isOpened, isClosed, isClosedBySuperAdmin
  <2>2. Contract!AdminReopens(s)
    BY <2>1, <1>e, <1>5, <1>8 DEF Contract!AdminReopens, Contract!Decide
  <2> QED
    BY <2>2 DEF Contract!Next
<1> QED
  BY <1>1, <1>a, <1>b, <1>c, <1>d, <1>e DEF EventTypes

\* Every step is a step of the contract or none of its business.
LEMMA StepRefines == IInv /\ IInv' /\ [Next]_vars => [Contract!Next]_(Contract!vars)
<1> SUFFICES ASSUME IInv, IInv', [Next]_vars PROVE Contract!Next \/ UNCHANGED Contract!vars
  OBVIOUS
<1>1. CASE \E r \in Requests : Commit(r)
  BY <1>1, CommitRefines
<1>2. CASE UNCHANGED store
  BY <1>2, QuietStep
<1>3. (\E r \in Requests : Commit(r)) \/ UNCHANGED store
  BY DEF Next, vars, createStore, openStoreForSales, closeStoreAfterSales, open, closeShop,
         LoadAndRun, Save, Reject, SelectStored, Rollback
<1> QED
  BY <1>1, <1>2, <1>3

\* Concurrent requests over the two tables do what the contract promises of
\* requests served one at a time.
THEOREM Refinement == Spec => ImplementsContract
<1>1. Init /\ [][Next]_vars /\ []IInv => Contract!Init /\ [][Contract!Next]_(Contract!vars)
  BY InitRefines, StepRefines, PTL
<1> QED
  BY <1>1, Invariance, PTL DEF Spec, ImplementsContract, Contract!Spec
==============================================================================
