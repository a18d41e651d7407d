---------------------- MODULE AccountVerificationProofs ----------------------
(***************************************************************************)
(* AccountVerification for any number of requests, accounts and            *)
(* verifications, with crashes anywhere.                                   *)
(*                                                                         *)
(* The argument: a verification has version 1, and version 2 once it is    *)
(* completed.  The unique constraint lets a transaction begin only when it *)
(* is one version ahead of the row, and the row's lock keeps it so until   *)
(* the commit (InTransactionAhead).  The saga goes on only with an account *)
(* that is not verified, so that its verification has not been completed   *)
(* either (SagaCompletesFirst); and what it has read of the account is     *)
(* what the UPDATE finds, or its event is refused (SagaReadAccount), and   *)
(* what the commit finds, by the lock of that row (AccountHeld).           *)
(***************************************************************************)
EXTENDS AccountVerification, TLAPS

------------------------------------------------------------------------------
(* The inductive invariant: tables.                                         *)

VerifiedVendor == [version |-> 2, verified |-> TRUE]

\* The rows that an account can have.
AccountRows ==
  /\ \A a \in Vendors : account[a] \in {NoRow, Created, VerifiedVendor}
  /\ \A a \in Admins : account[a] \in {NoRow, Created, CreatedAndVerified}

\* A verification has been drawn, initialized or completed.
VerificationRows ==
  \A v \in Verifications :
    \/ verification[v] = NoVerificationRow
    \/ /\ verification[v].version \in {1, 2}
       /\ verification[v].completedAt # 0 <=> verification[v].version = 2
       /\ verification[v].account \in Accounts
       /\ ~isNew(account[verification[v].account])

\* Nobody can be made a verified super admin, and no such verification completes.
AdminsStay ==
  \A v \in Verifications :
    verification[v].account \in Admins =>
      ~account[verification[v].account].verified /\ verification[v].completedAt = 0

\* The log of a verification has the versions of its row.
VerificationLog ==
  /\ \A e \in verificationEvents :
       /\ e.version \in 1..verification[e.aggregateId].version
       /\ e.type = "VerificationInitialized" <=> e.version = 1
  /\ \A v \in Verifications :
       verification[v].version = 2 => VersionTaken(verificationEvents, v, 2)

------------------------------------------------------------------------------
(* The inductive invariant: what requests hold.                             *)

\* A new account is not verified.
RegistersUnverified(r) ==
  pc[r] = "insertAccount" =>
    work[r].op = "register" /\ work[r].account \in Accounts /\ work[r].owner = Created

\* An id that has been drawn is nobody else's.
DrawsAlone(r) ==
  pc[r] = "insertVerification" =>
    LET w == work[r]
    IN  /\ w.op = "initialize"
        /\ w.verification \in Verifications /\ isNew(verification[w.verification])
        /\ w.entity.version = 1 /\ w.entity.completedAt = 0
        /\ w.entity.account \in Accounts /\ ~isNew(account[w.entity.account])
        /\ w.entity.account \in Admins => ~account[w.entity.account].verified
        /\ \A q \in Requests \ {r} : work[q].verification # w.verification

\* The verification that a request completes is the one that it has loaded.
DecidesOnLoaded(r) ==
  pc[r] \in {"select", "update"} \cup InTransaction =>
    LET w == work[r]
        row == verification[w.verification]
    IN  /\ w.op = "verifyAccount"
        /\ w.verification \in Verifications /\ row.account \in Accounts /\ row.account = w.account
        /\ w.entity.account = row.account /\ w.entity.timeOutAfter = row.timeOutAfter
        /\ w.entity.completedAt # 0
        /\ w.entity.version \in 2..row.version + 1

\* What save has read is the stored row, or one before it.
SavesOverRead(r) ==
  pc[r] \in {"update"} \cup InTransaction =>
    LET w == work[r]
        row == verification[w.verification]
    IN  /\ w.seen.version <= row.version /\ w.entity.version <= w.seen.version + 1
        /\ w.seen.version = row.version => w.seen = row
        /\ w.seen.version \in {1, 2}

\* In a transaction a request is one version ahead, and alone.
InTransactionAhead(r) ==
  pc[r] \in InTransaction =>
    /\ work[r].entity.version = verification[work[r].verification].version + 1
    /\ \A q \in Requests \ {r} :
         pc[q] \in InTransaction => work[q].verification # work[r].verification

\* The saga has found an account that was not verified.
SagaCompletesFirst(r) ==
  pc[r] \in {"selectAccount", "updateAccount", "commit"} =>
    /\ verification[work[r].verification].version = 1
    /\ work[r].owner.verified
    /\ work[r].account \in Vendors => work[r].owner = VerifiedVendor

\* The saga's second read of the account.
SagaReadAccount(r) ==
  pc[r] \in {"updateAccount", "commit"} =>
    /\ work[r].ownerSeen.verified => account[work[r].account].verified
    /\ work[r].account \in Vendors => work[r].ownerSeen \in {Created, VerifiedVendor}

\* An account that a transaction has updated was not refused, and is nobody else's
\* to update: so that nothing is refused at the commit.
AccountHeld(r) ==
  (pc[r] = "commit" /\ AccountDiffers(r)) =>
    /\ ~AccountRefused(r)
    /\ \A q \in Requests \ {r} :
         (pc[q] = "commit" /\ AccountDiffers(q)) => work[q].account # work[r].account

\* Sessions are given to verified accounts.
SessionIsVerified(r) ==
  HasSession(r) => work[r].account \in Accounts /\ account[work[r].account].verified

Held(r) ==
  /\ RegistersUnverified(r) /\ DrawsAlone(r) /\ DecidesOnLoaded(r) /\ SavesOverRead(r)
  /\ InTransactionAhead(r) /\ SagaCompletesFirst(r) /\ SagaReadAccount(r) /\ AccountHeld(r)
  /\ SessionIsVerified(r)

Tables ==
  /\ AccountRows /\ VerificationRows /\ AdminsStay /\ VerificationLog
  /\ VendorVerifiedOnce /\ VerifiedByCompletion

Memory == \A r \in Requests : Held(r)

IInv == TypeOK /\ Tables /\ Memory

------------------------------------------------------------------------------
(* Types.                                                                   *)

\* The rows without a record are records as well.
LEMMA ConstantTypes ==
  /\ NoRow \in AccountRow /\ Created \in AccountRow /\ CreatedAndVerified \in AccountRow
  /\ VerifiedVendor \in AccountRow
  /\ NoVerificationRow \in VerificationRow
  /\ NoWork \in Work
  BY DEF NoRow, Created, CreatedAndVerified, VerifiedVendor, AccountRow, NoVerificationRow,
         VerificationRow, NoWork, Work

\* The columns of the rows.
LEMMA RowFields ==
  /\ NoRow.version = 0 /\ Created.version = 1 /\ CreatedAndVerified.version = 1
  /\ VerifiedVendor.version = 2
  /\ NoRow.verified = FALSE /\ Created.verified = FALSE
  /\ CreatedAndVerified.verified = TRUE /\ VerifiedVendor.verified = TRUE
  BY DEF NoRow, Created, CreatedAndVerified, VerifiedVendor

\* The initial state has the types.
LEMMA InitTypeOK == Init => TypeOK
<1> SUFFICES ASSUME Init PROVE TypeOK
  OBVIOUS
<1>1. account \in [Accounts -> AccountRow]
  BY ConstantTypes DEF Init
<1>2. \A a \in Vendors : ~isNew(account[a]) => account[a].version = 1
  BY RowFields DEF Init, Accounts, isNew
<1>3. accountEvents \in SUBSET [aggregateId : Vendors, version : Nat,
                               type : {"VendorAccountCreated", "VendorVerified"}]
  BY <1>2 DEF Init, Event
<1> QED
  BY <1>1, <1>3, ConstantTypes DEF Init, TypeOK, InTransaction, InFlight

\* A request that goes on without a write keeps the types, if what it holds has them.
LEMMA HoldTypeOK ==
  ASSUME TypeOK, UNCHANGED <<tables, now>>, NEW r \in Requests, NEW w \in Work,
         NEW label \in InFlight \cup {"idle", "rejected", "ok", "failed"},
         work' = [work EXCEPT ![r] = w], pc' = [pc EXCEPT ![r] = label],
         label \in InTransaction => ~isNew(w.entity) /\ ~isNew(w.seen)
  PROVE  TypeOK'
<1>1. /\ work' \in [Requests -> Work]
      /\ pc' \in [Requests -> InFlight \cup {"idle", "rejected", "ok", "failed"}]
  BY DEF TypeOK
<1>2. \A q \in Requests :
        pc'[q] \in InTransaction => ~isNew(work'[q].entity) /\ ~isNew(work'[q].seen)
  BY DEF TypeOK
<1> QED
  BY <1>1, <1>2 DEF TypeOK, tables

\* An answer keeps the types.
LEMMA AnswerTypeOK ==
  ASSUME TypeOK, NEW r \in Requests, NEW label \in {"rejected", "failed", "ok"}, Answer(r, label)
  PROVE  TypeOK'
<1>1. work[r] \in Work /\ work' = [work EXCEPT ![r] = work[r]]
  BY DEF TypeOK, Answer
<1>2. label \notin InTransaction
  BY DEF InTransaction
<1> QED
  BY <1>1, <1>2, HoldTypeOK DEF Answer, Goto


------------------------------------------------------------------------------
(* The steps that write nothing.                                            *)

\* Everything said about the tables stays true.
LEMMA TablesUnchanged ==
  ASSUME IInv, UNCHANGED tables
  PROVE  Tables'
  BY DEF IInv, Tables, tables, AccountRows, VerificationRows, AdminsStay, VerificationLog,
         VendorVerifiedOnce, VerifiedByCompletion, VersionTaken, Event

\* What the other requests hold stays true, if r takes no id that one of them has
\* drawn and no row that one of them has locked.
LEMMA OthersUnchanged ==
  ASSUME IInv, UNCHANGED tables, NEW r \in Requests,
         NEW q \in Requests \ {r}, pc'[q] = pc[q], work'[q] = work[q],
         \A p \in Requests \ {r} : pc'[p] = pc[p] /\ work'[p] = work[p],
         pc[q] = "insertVerification" => work'[r].verification # work[q].verification,
         pc'[r] \in InTransaction /\ pc[q] \in InTransaction =>
           work'[r].verification # work[q].verification,
         pc'[r] = "commit" /\ AccountDiffers(r)' /\ pc[q] = "commit" /\ AccountDiffers(q) =>
           work'[r].account # work[q].account
  PROVE  Held(q)'
<1>1. Held(q)
  BY DEF IInv, Memory
<1>2. RegistersUnverified(q)' /\ DecidesOnLoaded(q)' /\ SavesOverRead(q)'
  BY <1>1 DEF Held, RegistersUnverified, DecidesOnLoaded, SavesOverRead, tables
<1>3. SagaCompletesFirst(q)' /\ SagaReadAccount(q)' /\ SessionIsVerified(q)'
  BY <1>1 DEF Held, SagaCompletesFirst, SagaReadAccount, AccountHeld, SessionIsVerified, HasSession, tables
<1>4. DrawsAlone(q)'
  BY <1>1 DEF Held, DrawsAlone, tables
<1>5. InTransactionAhead(q)'
  BY <1>1 DEF Held, InTransactionAhead, tables
<1>6. AccountHeld(q)'
  BY <1>1 DEF Held, AccountHeld, AccountDiffers, AccountRefused, VersionTaken, tables
<1> QED
  BY <1>2, <1>3, <1>4, <1>5, <1>6 DEF Held

\* What a request holds when it is at rest matters to nobody.
LEMMA AtRest ==
  ASSUME NEW r \in Requests, pc[r] \in {"idle", "rejected", "failed"}
  PROVE  Held(r)
  BY DEF Held, RegistersUnverified, DrawsAlone, DecidesOnLoaded, SavesOverRead,
     InTransactionAhead, SagaCompletesFirst, SagaReadAccount, AccountHeld, SessionIsVerified,
     HasSession, InTransaction

\* A request that goes on without a write keeps the invariant, if what it holds is as it should be.
LEMMA HoldIInv ==
  ASSUME IInv, TypeOK', UNCHANGED tables, NEW r \in Requests,
         \A p \in Requests \ {r} : pc'[p] = pc[p] /\ work'[p] = work[p],
         \A q \in Requests \ {r} :
           pc[q] = "insertVerification" => work'[r].verification # work[q].verification,
         pc'[r] \in InTransaction =>
           \A q \in Requests \ {r} :
             pc[q] \in InTransaction => work'[r].verification # work[q].verification,
         pc'[r] = "commit" /\ AccountDiffers(r)' =>
           \A q \in Requests \ {r} :
             pc[q] = "commit" /\ AccountDiffers(q) => work'[r].account # work[q].account,
         Held(r)'
  PROVE  IInv'
<1>1. \A q \in Requests \ {r} : Held(q)'
  BY OthersUnchanged
<1> QED
  BY <1>1, TablesUnchanged DEF IInv, Memory

\* An account that has been updated stays its request's when another goes on to write,
\* as long as no event of its version is inserted.
LEMMA AccountStaysHeld ==
  ASSUME NEW r \in Requests, NEW q \in Requests \ {r}, Held(q), work' = work,
         pc'[r] # "commit", \A p \in Requests \ {r} : pc'[p] = pc[p],
         \A e \in accountEvents' \ accountEvents :
           (pc[q] = "commit" /\ AccountDiffers(q) /\ ~AfterSaveThrows(work[q].account)) =>
             ~(e.aggregateId = work[q].account /\ e.version = work[q].owner.version)
  PROVE  AccountHeld(q)'
<1> SUFFICES ASSUME pc[q] = "commit", AccountDiffers(q)
             PROVE  /\ ~AccountRefused(q)'
                    /\ \A p \in Requests \ {q} :
                         (pc'[p] = "commit" /\ AccountDiffers(p)) =>
                           work[p].account # work[q].account
  BY DEF AccountHeld, AccountDiffers
<1>1. AccountHeld(q)
  BY DEF Held
<1>2. /\ ~AfterSaveThrows(work[q].account)
      /\ ~VersionTaken(accountEvents, work[q].account, work[q].owner.version)
      /\ \A p \in Requests \ {q} :
           (pc[p] = "commit" /\ AccountDiffers(p)) => work[p].account # work[q].account
  BY <1>1 DEF AccountHeld, AccountRefused
<1>3. ~VersionTaken(accountEvents', work[q].account, work[q].owner.version)
  BY <1>2 DEF VersionTaken
<1>4. ~AccountRefused(q)'
  BY <1>2, <1>3 DEF AccountRefused, AfterSaveThrows
<1> QED
  BY <1>2, <1>4

\* No request holds an id that another has drawn and not inserted yet.
LEMMA DrawnByOne ==
  ASSUME IInv, NEW r \in Requests, NEW q \in Requests \ {r}, pc[q] = "insertVerification"
  PROVE  work[r].verification # work[q].verification /\ isNew(verification[work[q].verification])
         /\ work[q].verification \in Verifications
  BY DEF IInv, Memory, Held, DrawsAlone

\* An answer without a session ends what a request holds.
LEMMA AnswerIInv ==
  ASSUME IInv, NEW r \in Requests, NEW label \in {"rejected", "failed"}, Answer(r, label)
  PROVE  IInv'
<1>1. /\ work[r] \in Work /\ work' = [work EXCEPT ![r] = work[r]]
      /\ pc' = [pc EXCEPT ![r] = label] /\ UNCHANGED <<tables, now>> /\ pc'[r] = label
  BY DEF Answer, Goto, IInv, TypeOK
<1>2. label \notin InTransaction
  BY DEF InTransaction
<1>3. Held(r)'
  BY <1>1 DEF Held, RegistersUnverified, DrawsAlone, DecidesOnLoaded, SavesOverRead,
     InTransactionAhead, SagaCompletesFirst, SagaReadAccount, AccountHeld, SessionIsVerified,
     HasSession, InTransaction
<1> QED
  BY <1>1, <1>2, <1>3, AnswerTypeOK, DrawnByOne, HoldIInv DEF IInv, TypeOK

\* register: the request holds a new account.
LEMMA RegisterIInv ==
  ASSUME IInv, NEW r \in Requests, NEW a \in Accounts, register(r, a)
  PROVE  IInv'
<1> DEFINE w == [NoWork EXCEPT !.op = "register", !.account = a, !.owner = Created]
<1>1. CASE Answer(r, "rejected")
  BY <1>1, AnswerIInv
<1>2. CASE Hold(r, w) /\ Goto(r, "insertAccount") /\ UNCHANGED <<tables, now>>
  <2>1. /\ w \in Work /\ w.verification = NoVerification /\ w.account = a /\ w.owner = Created
        /\ w.op = "register"
    BY ConstantTypes DEF Work, NoWork
  <2>2. /\ work' = [work EXCEPT ![r] = w] /\ pc' = [pc EXCEPT ![r] = "insertAccount"]
        /\ UNCHANGED <<tables, now>>
    BY <1>2 DEF Hold, Goto
  <2> HIDE DEF w
  <2>3. /\ work'[r] = w /\ pc'[r] = "insertAccount"
        /\ \A p \in Requests \ {r} : pc'[p] = pc[p] /\ work'[p] = work[p]
    BY <2>2 DEF IInv, TypeOK
  <2>4. Held(r)'
    BY <2>1, <2>3 DEF Held, RegistersUnverified, DrawsAlone, DecidesOnLoaded, SavesOverRead,
       InTransactionAhead, SagaCompletesFirst, SagaReadAccount, AccountHeld, SessionIsVerified,
       HasSession, InTransaction
  <2>5. \A q \in Requests \ {r} :
          pc[q] = "insertVerification" => w.verification # work[q].verification
    BY <2>1, DrawnByOne, AccountAssumption
  <2>6. TypeOK'
    BY <2>1, <2>2, HoldTypeOK DEF IInv, InFlight, InTransaction
  <2> QED
    BY <2>2, <2>3, <2>4, <2>5, <2>6, HoldIInv DEF InTransaction
<1> QED
  BY <1>1, <1>2 DEF register

\* initialize: the request holds a verification of an account that is there, with an
\* id that nobody else holds.
LEMMA InitializeIInv ==
  ASSUME IInv, NEW r \in Requests, NEW a \in Accounts, NEW v \in Verifications, initialize(r, a, v)
  PROVE  IInv'
<1> DEFINE w == [NoWork EXCEPT !.op = "initialize", !.account = a, !.verification = v,
                               !.entity = Initialized(a)]
<1>1. CASE Answer(r, "rejected")
  BY <1>1, AnswerIInv
<1>2. CASE /\ existsAndUnVerifiedByEmail(a)
           /\ Hold(r, w) /\ Goto(r, "insertVerification") /\ UNCHANGED <<tables, now>>
  <2>1. /\ Initialized(a) \in VerificationRow /\ Initialized(a).version = 1
        /\ Initialized(a).completedAt = 0 /\ Initialized(a).account = a
    BY TimeAssumption DEF Initialized, VerificationRow, IInv, TypeOK
  <2>2. w \in Work /\ w.verification = v /\ w.entity = Initialized(a) /\ w.op = "initialize"
    BY <2>1, ConstantTypes DEF Work, NoWork
  <2>3. /\ work' = [work EXCEPT ![r] = w] /\ pc' = [pc EXCEPT ![r] = "insertVerification"]
        /\ UNCHANGED <<tables, now>>
    BY <1>2 DEF Hold, Goto
  <2> HIDE DEF w
  <2>4. /\ work'[r] = w /\ pc'[r] = "insertVerification"
        /\ \A q \in Requests \ {r} : pc'[q] = pc[q] /\ work'[q] = work[q]
    BY <2>3 DEF IInv, TypeOK
  <2>5. \A q \in Requests : work[q].verification # v
    BY DEF initialize
  <2>6. DrawsAlone(r)'
    BY <1>2, <2>1, <2>2, <2>3, <2>4, <2>5
    DEF DrawsAlone, existsAndUnVerifiedByEmail, tables, isNew, initialize
  <2>7. Held(r)'
    BY <2>4, <2>6 DEF Held, RegistersUnverified, DecidesOnLoaded, SavesOverRead,
       InTransactionAhead, SagaCompletesFirst, SagaReadAccount, AccountHeld, SessionIsVerified,
       HasSession, InTransaction
  <2>8. TypeOK'
    BY <2>2, <2>3, HoldTypeOK DEF IInv, InFlight, InTransaction
  <2> QED
    BY <2>2, <2>3, <2>4, <2>5, <2>7, <2>8, HoldIInv DEF InTransaction
<1> QED
  BY <1>1, <1>2 DEF initialize

\* complete() moves a verification one version on and keeps whose it is.
LEMMA CompletedRow ==
  ASSUME NEW row \in VerificationRow, now \in Nat \ {0}
  PROVE  /\ Completed(row) \in VerificationRow
         /\ Completed(row).version = row.version + 1
         /\ Completed(row).completedAt # 0
         /\ Completed(row).account = row.account
         /\ Completed(row).timeOutAfter = row.timeOutAfter
<1> DEFINE done == [version |-> row.version + 1, account |-> row.account,
                    timeOutAfter |-> row.timeOutAfter, completedAt |-> now]
<1>0. row = [version |-> row.version, account |-> row.account,
             timeOutAfter |-> row.timeOutAfter, completedAt |-> row.completedAt]
  BY DEF VerificationRow
<1>1. Completed(row) = done
  <2> DEFINE next == [row EXCEPT !.version = row.version + 1]
  <2>1. next = [version |-> row.version + 1, account |-> row.account,
                timeOutAfter |-> row.timeOutAfter, completedAt |-> row.completedAt]
    BY <1>0
  <2> HIDE DEF next
  <2>2. [next EXCEPT !.completedAt = now] = done
    BY <2>1
  <2> QED
    BY <2>2 DEF Completed, nextVersion, next
<1>2. done \in VerificationRow
  BY DEF VerificationRow
<1> QED
  BY <1>1, <1>2

\* verifyAccount: the request holds the row it has loaded, completed.
LEMMA VerifyAccountIInv ==
  ASSUME IInv, NEW r \in Requests, NEW a \in Accounts, verifyAccount(r, a)
  PROVE  IInv'
<1>1. CASE Answer(r, "rejected")
  BY <1>1, AnswerIInv
<1>2. ASSUME NEW v \in findLatestByEmail(a),
             Hold(r, [NoWork EXCEPT !.op = "verifyAccount", !.account = a,
                                    !.verification = v, !.entity = Completed(verification[v])]),
             Goto(r, "select"), UNCHANGED <<tables, now>>
      PROVE  IInv'
  <2> DEFINE w == [NoWork EXCEPT !.op = "verifyAccount", !.account = a,
                                 !.verification = v, !.entity = Completed(verification[v])]
  <2>1. v \in Verifications /\ verification[v].account = a /\ a # NoAccount
    BY AccountAssumption DEF findLatestByEmail
  <2>2. verification[v].version \in {1, 2} /\ verification[v] \in VerificationRow
    BY <2>1 DEF IInv, TypeOK, Tables, VerificationRows, NoVerificationRow
  <2>3. /\ Completed(verification[v]) \in VerificationRow
        /\ Completed(verification[v]).version = verification[v].version + 1
        /\ Completed(verification[v]).completedAt # 0
        /\ Completed(verification[v]).account = a
        /\ Completed(verification[v]).timeOutAfter = verification[v].timeOutAfter
    BY <2>1, <2>2, CompletedRow DEF IInv, TypeOK
  <2>4. /\ w \in Work /\ w.verification = v /\ w.entity = Completed(verification[v])
        /\ w.op = "verifyAccount" /\ w.account = a
    BY <2>1, <2>3, ConstantTypes DEF Work, NoWork
  <2>5. /\ work' = [work EXCEPT ![r] = w] /\ pc' = [pc EXCEPT ![r] = "select"]
        /\ UNCHANGED <<tables, now>>
    BY <1>2 DEF Hold, Goto
  <2> HIDE DEF w
  <2>6. /\ work'[r] = w /\ pc'[r] = "select" /\ verification' = verification
        /\ \A p \in Requests \ {r} : pc'[p] = pc[p] /\ work'[p] = work[p]
    BY <2>5 DEF IInv, TypeOK, tables
  <2>7. DecidesOnLoaded(r)'
    BY <2>1, <2>2, <2>3, <2>4, <2>6 DEF DecidesOnLoaded
  <2>8. Held(r)'
    BY <2>6, <2>7 DEF Held, RegistersUnverified, DrawsAlone, SavesOverRead,
       InTransactionAhead, SagaCompletesFirst, SagaReadAccount, AccountHeld, SessionIsVerified,
       HasSession, InTransaction
  <2>9. \A q \in Requests \ {r} :
          pc[q] = "insertVerification" => w.verification # work[q].verification
    BY <2>2, <2>4, DrawnByOne DEF isNew
  <2>10. TypeOK'
    BY <2>4, <2>5, HoldTypeOK DEF IInv, InFlight, InTransaction
  <2> QED
    BY <2>5, <2>6, <2>8, <2>9, <2>10, HoldIInv DEF InTransaction
<1> QED
  BY <1>1, <1>2 DEF verifyAccount

\* login: the session is of an account that is verified.
LEMMA LoginIInv ==
  ASSUME IInv, NEW r \in Requests, NEW a \in Accounts, login(r, a)
  PROVE  IInv'
<1> DEFINE w == [NoWork EXCEPT !.op = "login", !.account = a]
<1>1. CASE Answer(r, "rejected")
  BY <1>1, AnswerIInv
<1>2. CASE account[a].verified /\ Hold(r, w) /\ Goto(r, "ok") /\ UNCHANGED <<tables, now>>
  <2>1. w \in Work /\ w.verification = NoVerification /\ w.account = a
    BY ConstantTypes DEF Work, NoWork
  <2>2. /\ work' = [work EXCEPT ![r] = w] /\ pc' = [pc EXCEPT ![r] = "ok"]
        /\ UNCHANGED <<tables, now>>
    BY <1>2 DEF Hold, Goto
  <2> HIDE DEF w
  <2>3. /\ work'[r] = w /\ pc'[r] = "ok" /\ account' = account
        /\ \A p \in Requests \ {r} : pc'[p] = pc[p] /\ work'[p] = work[p]
    BY <2>2 DEF IInv, TypeOK, tables
  <2>4. Held(r)'
    BY <1>2, <2>1, <2>3 DEF Held, RegistersUnverified, DrawsAlone, DecidesOnLoaded, SavesOverRead,
       InTransactionAhead, SagaCompletesFirst, SagaReadAccount, AccountHeld, SessionIsVerified,
       HasSession, InTransaction
  <2>5. \A q \in Requests \ {r} :
          pc[q] = "insertVerification" => w.verification # work[q].verification
    BY <2>1, DrawnByOne, AccountAssumption
  <2>6. TypeOK'
    BY <2>1, <2>2, HoldTypeOK DEF IInv, InFlight, InTransaction
  <2> QED
    BY <2>2, <2>3, <2>4, <2>5, <2>6, HoldIInv DEF InTransaction
<1> QED
  BY <1>1, <1>2 DEF login


\* SelectVerification: what is read is the stored row; no difference means that the
\* verification is completed, and its account verified, already.
LEMMA SelectVerificationIInv ==
  ASSUME IInv, NEW r \in Requests, SelectVerification(r)
  PROVE  IInv'
<1> DEFINE v == work[r].verification
           w == [work[r] EXCEPT !.seen = verification[v]]
<1>1. /\ DecidesOnLoaded(r) /\ pc[r] = "select" /\ work[r] \in Work
      /\ VerificationRows /\ AdminsStay /\ VerifiedByCompletion
  BY DEF SelectVerification, IInv, TypeOK, Tables, Memory, Held
<1>2. /\ v \in Verifications /\ work[r].op = "verifyAccount" /\ verification[v] \in VerificationRow
      /\ verification[v].account = work[r].account /\ work[r].account \in Accounts
      /\ work[r].entity.completedAt # 0
      /\ work[r].entity.version \in 2..verification[v].version + 1
  BY <1>1 DEF DecidesOnLoaded, IInv, TypeOK
<1>3. verification[v].version \in {1, 2}
  BY <1>1, <1>2, AccountAssumption DEF VerificationRows, NoVerificationRow
<1>4. /\ w \in Work /\ w.verification = v /\ w.op = work[r].op /\ w.account = work[r].account
      /\ w.entity = work[r].entity /\ w.owner = work[r].owner /\ w.seen = verification[v]
  BY <1>1, <1>2 DEF Work
<1>5. /\ work' = [work EXCEPT ![r] = w] /\ UNCHANGED <<tables, now>>
      /\ pc' = [pc EXCEPT ![r] = IF work[r].entity = verification[v] THEN "ok" ELSE "update"]
  BY DEF SelectVerification, Goto
<1> HIDE DEF w
<1>6. /\ work'[r] = w
      /\ pc'[r] = IF work[r].entity = verification[v] THEN "ok" ELSE "update"
      /\ \A p \in Requests \ {r} : pc'[p] = pc[p] /\ work'[p] = work[p]
      /\ verification' = verification /\ account' = account
  BY <1>5 DEF IInv, TypeOK, tables
<1> HIDE DEF v
<1>7. TypeOK'
  <2> DEFINE label == IF work[r].entity = verification[v] THEN "ok" ELSE "update"
  <2>1. label \in InFlight \cup {"ok"} /\ label \notin InTransaction
    BY DEF InFlight, InTransaction
  <2>2. pc' = [pc EXCEPT ![r] = label]
    BY <1>5
  <2> HIDE DEF label
  <2> QED
    BY <1>4, <1>5, <2>1, <2>2, HoldTypeOK DEF IInv
<1>8. Held(r)'
  <2>1. CASE work[r].entity = verification[v]
    <3>1. work[r].account \in Vendors
      BY <2>1, <1>1, <1>2 DEF AdminsStay, Accounts
    <3>2. account[work[r].account].verified
      BY <2>1, <3>1, <1>1, <1>2 DEF VerifiedByCompletion
    <3> QED
      BY <2>1, <3>2, <1>2, <1>4, <1>6 DEF Held, RegistersUnverified, DrawsAlone, DecidesOnLoaded,
         SavesOverRead, InTransactionAhead, SagaCompletesFirst, SagaReadAccount, AccountHeld,
         SessionIsVerified, InTransaction
  <2>2. CASE work[r].entity # verification[v]
    <3>1. pc'[r] = "update"
      BY <2>2, <1>6
    <3>2. DecidesOnLoaded(r)'
      BY <1>1, <1>4, <1>6 DEF DecidesOnLoaded, v
    <3>3. SavesOverRead(r)'
      BY <1>2, <1>3, <1>4, <1>6 DEF SavesOverRead
    <3> QED
      BY <3>1, <3>2, <3>3 DEF Held, RegistersUnverified, DrawsAlone, InTransactionAhead,
         SagaCompletesFirst, SagaReadAccount, AccountHeld, SessionIsVerified, HasSession, InTransaction
  <2> QED
    BY <2>1, <2>2
<1>9. \A q \in Requests \ {r} :
        pc[q] = "insertVerification" => w.verification # work[q].verification
  BY <1>4, DrawnByOne DEF v
<1>10. pc'[r] \notin InTransaction
  BY <1>6 DEF InTransaction
<1> QED
  BY <1>5, <1>6, <1>7, <1>8, <1>9, <1>10, HoldIInv

\* UpdateVerification: the unique constraint lets a request into the transaction only
\* one version ahead, and the row's lock only alone.
LEMMA UpdateVerificationIInv ==
  ASSUME IInv, NEW r \in Requests, UpdateVerification(r)
  PROVE  IInv'
<1> DEFINE v == work[r].verification
<1>1. CASE Answer(r, "failed")
  BY <1>1, AnswerIInv
<1>2. CASE ~VersionTaken(verificationEvents, v, work[r].entity.version) /\ Answer(r, "loadAccount")
  <2>1. /\ DecidesOnLoaded(r) /\ SavesOverRead(r) /\ pc[r] = "update" /\ work[r] \in Work
        /\ VerificationRows /\ VerificationLog
    BY DEF UpdateVerification, IInv, TypeOK, Tables, Memory, Held
  <2>2. /\ v \in Verifications /\ verification[v] \in VerificationRow
        /\ verification[v].account \in Accounts
        /\ work[r].entity.version \in 2..verification[v].version + 1
        /\ work[r].seen.version \in {1, 2}
    BY <2>1 DEF DecidesOnLoaded, SavesOverRead, IInv, TypeOK
  <2>3. verification[v].version \in {1, 2}
    BY <2>1, <2>2, AccountAssumption DEF VerificationRows, NoVerificationRow
  <2>4. work[r].entity.version = verification[v].version + 1
    BY <2>1, <2>2, <2>3, <1>2 DEF VerificationLog
  <2>5. /\ UNCHANGED <<tables, now>> /\ work' = work /\ pc' = [pc EXCEPT ![r] = "loadAccount"]
        /\ work' = [work EXCEPT ![r] = work[r]] /\ pc'[r] = "loadAccount"
        /\ \A p \in Requests \ {r} : pc'[p] = pc[p]
        /\ verification' = verification
    BY <1>2 DEF Answer, Goto, IInv, TypeOK, tables
  <2>6. TypeOK'
    <3>1. ~isNew(work[r].entity) /\ ~isNew(work[r].seen)
      BY <2>2, <2>3, <2>4 DEF isNew
    <3> QED
      BY <2>1, <2>5, <3>1, HoldTypeOK DEF IInv, InFlight, InTransaction
  <2>7. \A q \in Requests : pc[q] \in InTransaction => work[q].verification # v
    BY DEF UpdateVerification, Locked
  <2>8. DecidesOnLoaded(r)' /\ SavesOverRead(r)'
    BY <2>1, <2>5 DEF DecidesOnLoaded, SavesOverRead, InTransaction
  <2>9. InTransactionAhead(r)'
    BY <2>4, <2>5, <2>7 DEF InTransactionAhead
  <2>10. Held(r)'
    BY <2>5, <2>8, <2>9 DEF Held, RegistersUnverified, DrawsAlone, SagaCompletesFirst,
       SagaReadAccount, AccountHeld, SessionIsVerified, HasSession
  <2> QED
    BY <2>5, <2>6, <2>7, <2>10, DrawnByOne, HoldIInv
<1> QED
  BY <1>1, <1>2 DEF UpdateVerification

\* LoadAccount: an account that is not verified has no completed verification.
LEMMA LoadAccountIInv ==
  ASSUME IInv, NEW r \in Requests, LoadAccount(r)
  PROVE  IInv'
<1> DEFINE v == work[r].verification
           a == work[r].account
           w == [work[r] EXCEPT !.owner = Verified(a, account[a])]
<1>1. CASE Answer(r, "rejected")
  BY <1>1, AnswerIInv
<1>2. CASE /\ ~account[a].verified /\ UNCHANGED <<tables, now>>
           /\ work' = [work EXCEPT ![r] = w] /\ pc' = [pc EXCEPT ![r] = "selectAccount"]
  <2>1. /\ DecidesOnLoaded(r) /\ SavesOverRead(r) /\ InTransactionAhead(r)
        /\ pc[r] = "loadAccount" /\ work[r] \in Work
        /\ ~isNew(work[r].entity) /\ ~isNew(work[r].seen)
        /\ AccountRows /\ VerificationRows /\ AdminsStay /\ VerifiedByCompletion
    BY DEF LoadAccount, IInv, TypeOK, Tables, Memory, Held, InTransaction
  <2>2. /\ v \in Verifications /\ verification[v].account = a /\ a \in Accounts
        /\ account[a] \in AccountRow
    BY <2>1 DEF DecidesOnLoaded, IInv, TypeOK, InTransaction
  <2>3. /\ verification[v] # NoVerificationRow
        /\ verification[v].completedAt # 0 <=> verification[v].version = 2
        /\ verification[v].version \in {1, 2} /\ ~isNew(account[a])
    BY <2>1, <2>2, AccountAssumption DEF VerificationRows, NoVerificationRow
  <2>4. verification[v].completedAt = 0
    BY <1>2, <2>1, <2>2 DEF VerifiedByCompletion, AdminsStay, Accounts
  <2>5. a \in Vendors => account[a] = Created
    BY <1>2, <2>1, <2>3 DEF AccountRows, VerifiedVendor, NoRow, isNew
  <2>6. /\ Verified(a, account[a]) \in AccountRow /\ Verified(a, account[a]).verified
        /\ a \in Vendors => Verified(a, account[a]) = VerifiedVendor
    <3>1. account[a].version \in Nat
      BY <2>2 DEF AccountRow
    <3>2. /\ Verified(a, account[a]).verified
          /\ Verified(a, account[a]) \in AccountRow
      BY <3>1 DEF Verified, AccountRow, nextVersion
    <3>3. a \in Vendors => Verified(a, account[a]) = VerifiedVendor
      <4>1. a \in Vendors => nextVersion(account[a]) = 2
        BY <2>5 DEF Created, nextVersion
      <4> QED
        BY <4>1 DEF Verified, VerifiedVendor
    <3> QED
      BY <3>2, <3>3
  <2>7. /\ w \in Work /\ w.verification = v /\ w.account = a /\ w.entity = work[r].entity
        /\ w.seen = work[r].seen /\ w.op = work[r].op /\ w.owner = Verified(a, account[a])
    BY <2>1, <2>6 DEF Work
  <2> HIDE DEF w
  <2>8. /\ work'[r] = w /\ pc'[r] = "selectAccount"
        /\ \A p \in Requests \ {r} : pc'[p] = pc[p] /\ work'[p] = work[p]
        /\ verification' = verification
    BY <1>2 DEF IInv, TypeOK, tables
  <2>9. TypeOK'
    BY <1>2, <2>1, <2>7, HoldTypeOK DEF IInv, InFlight, InTransaction
  <2>10. DecidesOnLoaded(r)' /\ SavesOverRead(r)'
    BY <2>1, <2>7, <2>8 DEF DecidesOnLoaded, SavesOverRead, InTransaction
  <2>11. InTransactionAhead(r)'
    BY <2>1, <2>7, <2>8 DEF InTransactionAhead, InTransaction
  <2>12. SagaCompletesFirst(r)'
    BY <2>3, <2>4, <2>6, <2>7, <2>8 DEF SagaCompletesFirst
  <2>13. Held(r)'
    BY <2>8, <2>10, <2>11, <2>12 DEF Held, RegistersUnverified, DrawsAlone,
       SagaReadAccount, AccountHeld, SessionIsVerified, HasSession
  <2>14. \A q \in Requests \ {r} : pc[q] \in InTransaction => work[q].verification # v
    BY <2>1 DEF InTransactionAhead, InTransaction
  <2> QED
    BY <1>2, <2>7, <2>8, <2>9, <2>13, <2>14, DrawnByOne, HoldIInv
<1> QED
  BY <1>1, <1>2 DEF LoadAccount, Goto

\* SelectAccount: the second read of the account.
LEMMA SelectAccountIInv ==
  ASSUME IInv, NEW r \in Requests, SelectAccount(r)
  PROVE  IInv'
<1> DEFINE v == work[r].verification
           a == work[r].account
           w == [work[r] EXCEPT !.ownerSeen = account[a]]
<1>1. /\ DecidesOnLoaded(r) /\ SavesOverRead(r) /\ InTransactionAhead(r) /\ SagaCompletesFirst(r)
      /\ pc[r] = "selectAccount" /\ work[r] \in Work
      /\ ~isNew(work[r].entity) /\ ~isNew(work[r].seen)
      /\ AccountRows /\ VerificationRows
  BY DEF SelectAccount, IInv, TypeOK, Tables, Memory, Held, InTransaction
<1>2. /\ v \in Verifications /\ verification[v].account = a /\ a \in Accounts
      /\ account[a] \in AccountRow
  BY <1>1 DEF DecidesOnLoaded, IInv, TypeOK, InTransaction
<1>3. ~isNew(account[a])
  BY <1>1, <1>2, AccountAssumption DEF VerificationRows, NoVerificationRow
<1>4. a \in Vendors => account[a] \in {Created, VerifiedVendor}
  BY <1>1, <1>3 DEF AccountRows, NoRow, isNew
<1>5. /\ w \in Work /\ w.verification = v /\ w.account = a /\ w.entity = work[r].entity
      /\ w.seen = work[r].seen /\ w.op = work[r].op /\ w.owner = work[r].owner
      /\ w.ownerSeen = account[a]
  BY <1>1, <1>2 DEF Work
<1>6. /\ UNCHANGED <<tables, now>> /\ work' = [work EXCEPT ![r] = w]
      /\ pc' = [pc EXCEPT ![r] = "updateAccount"]
  BY DEF SelectAccount, Goto
<1> HIDE DEF w
<1>7. /\ work'[r] = w /\ pc'[r] = "updateAccount"
      /\ \A p \in Requests \ {r} : pc'[p] = pc[p] /\ work'[p] = work[p]
      /\ verification' = verification /\ account' = account
  BY <1>6 DEF IInv, TypeOK, tables
<1>8. TypeOK'
  BY <1>1, <1>5, <1>6, HoldTypeOK DEF IInv, InFlight, InTransaction
<1>9. DecidesOnLoaded(r)' /\ SavesOverRead(r)'
  BY <1>1, <1>5, <1>7 DEF DecidesOnLoaded, SavesOverRead, InTransaction
<1>10. InTransactionAhead(r)'
  BY <1>1, <1>5, <1>7 DEF InTransactionAhead, InTransaction
<1>11. SagaCompletesFirst(r)' /\ SagaReadAccount(r)'
  BY <1>1, <1>4, <1>5, <1>7 DEF SagaCompletesFirst, SagaReadAccount
<1>12. Held(r)'
  BY <1>7, <1>9, <1>10, <1>11 DEF Held, RegistersUnverified, DrawsAlone, AccountHeld,
     SessionIsVerified, HasSession
<1>13. \A q \in Requests \ {r} : pc[q] \in InTransaction => work[q].verification # v
  BY <1>1 DEF InTransactionAhead, InTransaction
<1> QED
  BY <1>5, <1>6, <1>7, <1>8, <1>12, <1>13, DrawnByOne, HoldIInv

\* UpdateAccount: the lock of the account's row, or an answer without a session.
LEMMA UpdateAccountIInv ==
  ASSUME IInv, NEW r \in Requests, UpdateAccount(r)
  PROVE  IInv'
<1>1. CASE AccountRefused(r)
  BY <1>1, AnswerIInv DEF UpdateAccount
<1>2. CASE ~AccountRefused(r)
  <2>1. /\ Held(r) /\ pc[r] = "updateAccount" /\ work[r] \in Work
        /\ ~isNew(work[r].entity) /\ ~isNew(work[r].seen)
        /\ AccountDiffers(r) => ~AccountLocked(work[r].account)
    BY DEF UpdateAccount, IInv, TypeOK, Memory, InTransaction
  <2>2. /\ UNCHANGED <<tables, now>> /\ work' = work /\ pc' = [pc EXCEPT ![r] = "commit"]
        /\ work' = [work EXCEPT ![r] = work[r]]
    BY <1>2 DEF UpdateAccount, Answer, Goto, IInv, TypeOK
  <2>3. /\ pc'[r] = "commit" /\ \A p \in Requests \ {r} : pc'[p] = pc[p]
        /\ verification' = verification /\ account' = account /\ accountEvents' = accountEvents
    BY <2>2 DEF IInv, TypeOK, tables
  <2>4. TypeOK'
    BY <2>1, <2>2, HoldTypeOK DEF IInv, InFlight, InTransaction
  <2>5. AccountDiffers(r)' <=> AccountDiffers(r)
    BY <2>2 DEF AccountDiffers
  <2>6. AccountDiffers(r) =>
          \A q \in Requests \ {r} :
            (pc[q] = "commit" /\ AccountDiffers(q)) => work[q].account # work[r].account
    BY <2>1 DEF AccountLocked
  <2>7. AccountHeld(r)'
    BY <1>2, <2>2, <2>3, <2>5, <2>6 DEF AccountHeld, AccountDiffers, AccountRefused, VersionTaken
  <2>8. DecidesOnLoaded(r)' /\ SavesOverRead(r)' /\ InTransactionAhead(r)'
    BY <2>1, <2>2, <2>3 DEF Held, DecidesOnLoaded, SavesOverRead, InTransactionAhead, InTransaction
  <2>9. SagaCompletesFirst(r)' /\ SagaReadAccount(r)'
    BY <2>1, <2>2, <2>3 DEF Held, SagaCompletesFirst, SagaReadAccount
  <2>10. Held(r)'
    BY <2>3, <2>7, <2>8, <2>9 DEF Held, RegistersUnverified, DrawsAlone, SessionIsVerified,
       HasSession
  <2>11. \A q \in Requests \ {r} :
           pc[q] \in InTransaction => work[q].verification # work[r].verification
    BY <2>1 DEF Held, InTransactionAhead, InTransaction
  <2> QED
    BY <2>2, <2>3, <2>4, <2>5, <2>6, <2>10, <2>11, DrawnByOne, HoldIInv
<1> QED
  BY <1>1, <1>2

\* Crash: every request in flight is at rest.
LEMMA CrashIInv ==
  ASSUME IInv, Crash
  PROVE  IInv'
<1>1. /\ UNCHANGED tables /\ work' = work
      /\ \A r \in Requests : pc'[r] = IF pc[r] \in InFlight THEN "failed" ELSE pc[r]
  BY DEF Crash
<1>2. TypeOK'
  BY DEF Crash, IInv, TypeOK, InTransaction, InFlight, tables
<1>3. \A r \in Requests : Held(r)'
  <2> SUFFICES ASSUME NEW r \in Requests PROVE Held(r)'
    OBVIOUS
  <2>1. SessionIsVerified(r)'
    BY <1>1 DEF IInv, Memory, Held, SessionIsVerified, HasSession, tables
  <2> QED
    BY <1>1, <2>1 DEF Held, RegistersUnverified, DrawsAlone, DecidesOnLoaded, SavesOverRead,
       InTransactionAhead, SagaCompletesFirst, SagaReadAccount, AccountHeld, InTransaction, InFlight
<1> QED
  BY <1>1, <1>2, <1>3, TablesUnchanged DEF IInv, Memory

\* Tick, and the steps that change nothing: only the clock moves.
LEMMA TickIInv ==
  ASSUME IInv, UNCHANGED <<tables, pc, work>>, now' \in Nat \ {0}
  PROVE  IInv'
<1>1. TypeOK'
  BY DEF IInv, TypeOK, tables
<1>2. \A r \in Requests : Held(r)'
  BY DEF IInv, Memory, Held, RegistersUnverified, DrawsAlone, DecidesOnLoaded, SavesOverRead,
     InTransactionAhead, SagaCompletesFirst, SagaReadAccount, AccountHeld, AccountDiffers,
     AccountRefused, VersionTaken, SessionIsVerified, HasSession, tables
<1> QED
  BY <1>1, <1>2, TablesUnchanged DEF IInv, Memory


------------------------------------------------------------------------------
(* The steps that write.                                                    *)

\* InsertAccount: the new account is a vendor's, and verified by nobody yet.
LEMMA InsertAccountIInv ==
  ASSUME IInv, NEW r \in Requests, InsertAccount(r)
  PROVE  IInv'
<1> DEFINE a == work[r].account
<1>1. CASE Answer(r, "failed")
  BY <1>1, AnswerIInv
<1>2. CASE /\ isNew(account[a]) /\ ~AfterSaveThrows(a)
           /\ account' = [account EXCEPT ![a] = work[r].owner]
           /\ accountEvents' = accountEvents \cup {Event(a, work[r].owner, "VendorAccountCreated")}
           /\ pc' = [pc EXCEPT ![r] = "ok"]
           /\ UNCHANGED <<verification, verificationEvents, now, work>>
  <2>1. /\ pc[r] = "insertAccount" /\ RegistersUnverified(r)
        /\ AccountRows /\ VerificationRows /\ AdminsStay /\ VerificationLog
        /\ VendorVerifiedOnce /\ VerifiedByCompletion
    BY DEF InsertAccount, IInv, Tables, Memory, Held
  <2>2. /\ a \in Vendors /\ a \in Accounts /\ a \notin Admins /\ work[r].owner = Created
        /\ work[r].op = "register"
    BY <1>2, <2>1, AccountAssumption DEF RegistersUnverified, AfterSaveThrows, Accounts
  <2>3. account[a] = NoRow
    BY <1>2, <2>1, <2>2, RowFields DEF AccountRows, isNew
  <2>4. /\ account'[a] = Created /\ \A b \in Accounts \ {a} : account'[b] = account[b]
        /\ account' \in [Accounts -> AccountRow]
    BY <1>2, <2>2, ConstantTypes DEF IInv, TypeOK
  <2>5. \A b \in Accounts : /\ account'[b].verified = account[b].verified
                            /\ ~isNew(account[b]) => ~isNew(account'[b])
    <3>1. account'[a].verified = account[a].verified /\ isNew(account[a])
      BY <2>3, <2>4, RowFields DEF isNew
    <3> QED
      BY <2>4, <3>1
  <2>6. /\ pc'[r] = "ok" /\ work' = work /\ verification' = verification
        /\ \A p \in Requests \ {r} : pc'[p] = pc[p]
    BY <1>2 DEF IInv, TypeOK
  <2> HIDE DEF a
  <2>a. TypeOK'
    <3>1. Event(a, Created, "VendorAccountCreated") =
            [aggregateId |-> a, version |-> 1, type |-> "VendorAccountCreated"]
      BY DEF Event, Created
    <3> QED
      BY <1>2, <2>2, <2>4, <3>1 DEF IInv, TypeOK, InFlight, InTransaction
  <2>b. Tables'
    <3>1. AccountRows'
      BY <2>1, <2>2, <2>4 DEF AccountRows, Accounts
    <3>2. VerificationRows'
      BY <2>1, <2>5, <2>6 DEF VerificationRows
    <3>3. AdminsStay'
      BY <2>1, <2>5, <2>6 DEF AdminsStay, Accounts
    <3>4. VerificationLog'
      BY <1>2, <2>1 DEF VerificationLog, VersionTaken
    <3>5. VendorVerifiedOnce'
      <4>1. {b \in Vendors : ~isNew(account'[b])} = {b \in Vendors : ~isNew(account[b])} \cup {a}
        BY <2>2, <2>4 DEF Created, isNew, Accounts
      <4>2. {b \in Vendors : account'[b].verified} = {b \in Vendors : account[b].verified}
        BY <2>5 DEF Accounts
      <4>3. accountEvents' = accountEvents \cup {Event(a, Created, "VendorAccountCreated")}
        BY <1>2, <2>2
      <4> DEFINE E(b) == Event(b, Created, "VendorAccountCreated")
                 S == {b \in Vendors : ~isNew(account[b])}
      <4>4. {E(b) : b \in S \cup {a}} = {E(b) : b \in S} \cup {E(a)}
        OBVIOUS
      <4> QED
        BY <2>1, <4>1, <4>2, <4>3, <4>4 DEF VendorVerifiedOnce, Event
    <3>6. VerifiedByCompletion'
      BY <2>1, <2>5, <2>6 DEF VerifiedByCompletion, Accounts
    <3> QED
      BY <3>1, <3>2, <3>3, <3>4, <3>5, <3>6 DEF Tables
  <2>c. \A q \in Requests \ {r} : Held(q)'
    <3> SUFFICES ASSUME NEW q \in Requests \ {r} PROVE Held(q)'
      OBVIOUS
    <3>1. Held(q)
      BY DEF IInv, Memory
    <3>2. RegistersUnverified(q)' /\ DecidesOnLoaded(q)' /\ SavesOverRead(q)'
          /\ SagaCompletesFirst(q)'
      BY <2>6, <3>1 DEF Held, RegistersUnverified, DecidesOnLoaded, SavesOverRead,
         SagaCompletesFirst
    <3>3. DrawsAlone(q)'
      BY <2>5, <2>6, <3>1 DEF Held, DrawsAlone
    <3>4. InTransactionAhead(q)'
      BY <2>6, <3>1 DEF Held, InTransactionAhead, InTransaction
    <3>5. SagaReadAccount(q)'
      <4>1. pc[q] \in {"updateAccount", "commit"} => work[q].account \in Accounts
        BY <3>1 DEF Held, DecidesOnLoaded, InTransaction
      <4> QED
        BY <2>5, <2>6, <3>1, <4>1 DEF Held, SagaReadAccount
    <3>6. SessionIsVerified(q)'
      BY <2>5, <2>6, <3>1 DEF Held, SessionIsVerified, HasSession
    <3>7. AccountHeld(q)'
      <4>1. \A e \in accountEvents' \ accountEvents : e.version = 1
        BY <1>2, <2>2, RowFields DEF Event
      <4>2. pc[q] = "commit" => work[q].account \in Accounts
        BY <3>1 DEF Held, DecidesOnLoaded, InTransaction
      <4>3. (pc[q] = "commit" /\ ~AfterSaveThrows(work[q].account)) => work[q].owner.version = 2
        BY <3>1, <4>2, RowFields DEF Held, SagaCompletesFirst, AfterSaveThrows, Accounts
      <4> QED
        BY <2>6, <3>1, <4>1, <4>3, AccountStaysHeld
    <3> QED
      BY <3>2, <3>3, <3>4, <3>5, <3>6, <3>7 DEF Held
  <2>d. Held(r)'
    BY <2>2, <2>6 DEF Held, RegistersUnverified, DrawsAlone, DecidesOnLoaded, SavesOverRead,
       InTransactionAhead, SagaCompletesFirst, SagaReadAccount, AccountHeld, SessionIsVerified,
       HasSession, InTransaction
  <2> QED
    BY <2>a, <2>b, <2>c, <2>d DEF IInv, Memory
<1> QED
  BY <1>1, <1>2 DEF InsertAccount, Goto

\* InsertVerification: a first event and a row that nobody else is about.
LEMMA InsertVerificationIInv ==
  ASSUME IInv, NEW r \in Requests, InsertVerification(r)
  PROVE  IInv'
<1> DEFINE v == work[r].verification
           row == work[r].entity
           e == Event(v, row, "VerificationInitialized")
<1>1. /\ pc[r] = "insertVerification" /\ DrawsAlone(r) /\ work[r] \in Work
      /\ AccountRows /\ VerificationRows /\ AdminsStay /\ VerificationLog
      /\ VendorVerifiedOnce /\ VerifiedByCompletion
  BY DEF InsertVerification, IInv, TypeOK, Tables, Memory, Held
<1>2. /\ v \in Verifications /\ isNew(verification[v]) /\ row \in VerificationRow
      /\ row.version = 1 /\ row.completedAt = 0 /\ row.account \in Accounts
      /\ ~isNew(account[row.account])
      /\ row.account \in Admins => ~account[row.account].verified
      /\ \A q \in Requests \ {r} : work[q].verification # v
      /\ work[r].op = "initialize"
  BY <1>1 DEF DrawsAlone, Work
<1>3. verification[v] = NoVerificationRow
  BY <1>1, <1>2 DEF VerificationRows, isNew
<1>4. /\ verification' = [verification EXCEPT ![v] = row]
      /\ verificationEvents' = verificationEvents \cup {e}
      /\ UNCHANGED <<account, accountEvents, now, work>>
      /\ pc' = [pc EXCEPT ![r] = "ok"]
  BY DEF InsertVerification, Goto
<1>5. e = [aggregateId |-> v, version |-> 1, type |-> "VerificationInitialized"]
  BY <1>2 DEF Event
<1>6. /\ verification'[v] = row /\ pc'[r] = "ok"
      /\ \A u \in Verifications \ {v} : verification'[u] = verification[u]
      /\ \A p \in Requests \ {r} : pc'[p] = pc[p]
  BY <1>2, <1>4 DEF IInv, TypeOK
<1> HIDE DEF v, row, e
<1>a. TypeOK'
  BY <1>2, <1>4, <1>5 DEF IInv, TypeOK, InFlight, InTransaction
<1>b. Tables'
  <2>1. AccountRows' /\ VendorVerifiedOnce'
    BY <1>1, <1>4 DEF AccountRows, VendorVerifiedOnce, Event
  <2>2. VerificationRows'
    BY <1>1, <1>2, <1>4, <1>6 DEF VerificationRows
  <2>3. AdminsStay'
    BY <1>1, <1>2, <1>4, <1>6 DEF AdminsStay
  <2>4. VerificationLog'
    <3>1. \A f \in verificationEvents' :
            /\ f.version \in 1..verification'[f.aggregateId].version
            /\ f.type = "VerificationInitialized" <=> f.version = 1
      <4> SUFFICES ASSUME NEW f \in verificationEvents'
                   PROVE  /\ f.version \in 1..verification'[f.aggregateId].version
                          /\ f.type = "VerificationInitialized" <=> f.version = 1
        OBVIOUS
      <4>1. CASE f = e
        BY <4>1, <1>2, <1>5, <1>6
      <4>2. CASE f \in verificationEvents
        <5>1. /\ f.version \in 1..verification[f.aggregateId].version
              /\ f.aggregateId \in Verifications
          BY <4>2, <1>1 DEF VerificationLog, IInv, TypeOK
        <5>2. f.aggregateId # v
          BY <5>1, <1>3 DEF NoVerificationRow
        <5> QED
          BY <4>2, <5>1, <5>2, <1>1, <1>6 DEF VerificationLog
      <4> QED
        BY <4>1, <4>2, <1>4
    <3>2. \A u \in Verifications :
            verification'[u].version = 2 => VersionTaken(verificationEvents', u, 2)
      BY <1>1, <1>2, <1>4, <1>6 DEF VerificationLog, VersionTaken
    <3> QED
      BY <3>1, <3>2 DEF VerificationLog, VersionTaken
  <2>5. VerifiedByCompletion'
    <3>1. \A u \in Verifications : \A a \in Vendors :
            (verification'[u].account = a /\ verification'[u].completedAt # 0)
              <=> (verification[u].account = a /\ verification[u].completedAt # 0)
      BY <1>2, <1>3, <1>6 DEF NoVerificationRow
    <3> QED
      BY <1>1, <1>4, <3>1 DEF VerifiedByCompletion
  <2> QED
    BY <2>1, <2>2, <2>3, <2>4, <2>5 DEF Tables
<1>c. \A q \in Requests \ {r} : Held(q)'
  <2> SUFFICES ASSUME NEW q \in Requests \ {r} PROVE Held(q)'
    OBVIOUS
  <2>1. Held(q) /\ work[q].verification # v /\ work' = work /\ account' = account /\ pc'[q] = pc[q]
    BY <1>2, <1>4, <1>6 DEF IInv, Memory
  <2>2. RegistersUnverified(q)' /\ SagaReadAccount(q)' /\ SessionIsVerified(q)'
    BY <2>1 DEF Held, RegistersUnverified, SagaReadAccount, AccountHeld, SessionIsVerified, HasSession
  <2>3. DrawsAlone(q)'
    BY <2>1, <1>6 DEF Held, DrawsAlone
  <2>4. pc[q] \in {"select", "update"} \cup InTransaction =>
          verification'[work[q].verification] = verification[work[q].verification]
    BY <2>1, <1>6 DEF Held, DecidesOnLoaded
  <2>5. DecidesOnLoaded(q)' /\ SavesOverRead(q)' /\ SagaCompletesFirst(q)'
    BY <2>1, <2>4 DEF Held, DecidesOnLoaded, SavesOverRead, SagaCompletesFirst, InTransaction
  <2>6. InTransactionAhead(q)'
    BY <2>1, <2>4, <1>6 DEF Held, InTransactionAhead, InTransaction
  <2>7. AccountHeld(q)'
    BY <2>1, <1>4, <1>6, AccountStaysHeld
  <2> QED
    BY <2>2, <2>3, <2>5, <2>6, <2>7 DEF Held
<1>d. Held(r)'
  BY <1>2, <1>4, <1>6 DEF Held, RegistersUnverified, DrawsAlone, DecidesOnLoaded, SavesOverRead,
     InTransactionAhead, SagaCompletesFirst, SagaReadAccount, AccountHeld, SessionIsVerified,
     HasSession, InTransaction
<1> QED
  BY <1>a, <1>b, <1>c, <1>d DEF IInv, Memory


\* A commit writes the rows its request has computed, of a vendor and of a verification
\* that was not completed, whatever has been read when.
LEMMA CommitEffect ==
  ASSUME IInv, NEW r \in Requests, Commit(r)
  PROVE  LET a == work[r].account
             v == work[r].verification
             row == work[r].entity
         IN  /\ a \in Vendors /\ ~isNew(account[a])
             /\ v \in Verifications /\ verification[v].account = a
             /\ verification[v].version = 1 /\ verification[v].completedAt = 0
             /\ row \in VerificationRow /\ row.version = 2 /\ row.completedAt # 0
             /\ row.account = a /\ row.timeOutAfter = verification[v].timeOutAfter
             /\ verification' = [verification EXCEPT ![v] = row]
             /\ account' = [account EXCEPT ![a] = VerifiedVendor]
             /\ accountEvents' = accountEvents \cup
                  {[aggregateId |-> a, version |-> 2, type |-> "VendorVerified"]}
<1> DEFINE a == work[r].account
           v == work[r].verification
           row == work[r].entity
           seen == work[r].seen
<1>1. /\ pc[r] = "commit" /\ work[r] \in Work
      /\ DecidesOnLoaded(r) /\ SavesOverRead(r) /\ InTransactionAhead(r)
      /\ SagaCompletesFirst(r) /\ SagaReadAccount(r) /\ ~AccountRefused(r)
      /\ AccountRows /\ VerificationRows /\ AdminsStay /\ VendorVerifiedOnce
  BY DEF Commit, IInv, TypeOK, Tables, Memory, Held, AccountHeld, AccountRefused
<1>2. /\ v \in Verifications /\ verification[v] \in VerificationRow
      /\ verification[v].account = a /\ a \in Accounts
      /\ verification[v].version = 1 /\ row.version = 2 /\ row.completedAt # 0
      /\ row.account = a /\ row.timeOutAfter = verification[v].timeOutAfter
      /\ row \in VerificationRow
  BY <1>1 DEF DecidesOnLoaded, InTransactionAhead, SagaCompletesFirst, InTransaction, Work,
     IInv, TypeOK
<1>3. verification[v].completedAt = 0 /\ ~isNew(account[a])
  BY <1>1, <1>2, AccountAssumption DEF VerificationRows, NoVerificationRow
<1>4. seen = verification[v]
  <2>1. seen.version <= 1 /\ seen.version \in {1, 2}
    BY <1>1, <1>2 DEF SavesOverRead, InTransaction
  <2> QED
    BY <2>1, <1>1, <1>2 DEF SavesOverRead, InTransaction
<1>5. MergedVerification(row, seen, verification[v]) = row
  <2>1. MergedVerification(row, seen, verification[v]) =
          [verification[v] EXCEPT !.version = 2, !.completedAt = row.completedAt]
    BY <1>2, <1>3, <1>4 DEF MergedVerification, Written
  <2> DEFINE next == [verification[v] EXCEPT !.version = 2]
  <2>2. next = [version |-> 2, account |-> a, timeOutAfter |-> verification[v].timeOutAfter,
                completedAt |-> verification[v].completedAt]
    BY <1>2 DEF VerificationRow
  <2>3. row = [version |-> 2, account |-> a, timeOutAfter |-> verification[v].timeOutAfter,
               completedAt |-> row.completedAt]
    BY <1>2 DEF VerificationRow
  <2> HIDE DEF next, row, a
  <2>4. [next EXCEPT !.completedAt = row.completedAt] = row
    BY <2>2, <2>3
  <2> QED
    BY <2>1, <2>4 DEF next
<1>6. a \in Vendors
  <2> SUFFICES ASSUME a \in Admins PROVE FALSE
    BY <1>2 DEF Accounts
  <2>1. ~account[a].verified
    BY <1>1, <1>2 DEF AdminsStay
  <2>2. ~work[r].ownerSeen.verified /\ work[r].owner.verified
    BY <2>1, <1>1 DEF SagaReadAccount, SagaCompletesFirst
  <2> QED
    BY <2>2, <1>1 DEF AccountRefused, AccountDiffers, AfterSaveThrows
<1>7. /\ work[r].owner = VerifiedVendor /\ work[r].ownerSeen \in {Created, VerifiedVendor}
      /\ account[a] \in {Created, VerifiedVendor}
  BY <1>1, <1>3, <1>6, RowFields DEF SagaCompletesFirst, SagaReadAccount, AccountRows, isNew
<1>8. account[a].verified <=> VersionTaken(accountEvents, a, 2)
  <2> DEFINE done(b) == [aggregateId |-> b, version |-> 2, type |-> "VendorVerified"]
  <2>1. \A b : Event(b, Created, "VendorAccountCreated").version = 1
    BY RowFields DEF Event
  <2>2. \A b : done(b).aggregateId = b /\ done(b).version = 2
    OBVIOUS
  <2> HIDE DEF done, a
  <2>3. ASSUME account[a].verified PROVE VersionTaken(accountEvents, a, 2)
    <3>1. done(a) \in accountEvents
      BY <2>3, <1>1, <1>6 DEF VendorVerifiedOnce, done
    <3> QED
      BY <2>2, <3>1 DEF VersionTaken
  <2>4. ASSUME NEW e \in accountEvents, e.aggregateId = a, e.version = 2
        PROVE  account[a].verified
    <3>1. PICK b \in {b \in Vendors : account[b].verified} : e = done(b)
      BY <2>1, <2>4, <1>1 DEF VendorVerifiedOnce, done
    <3> QED
      BY <2>2, <2>4, <3>1
  <2> QED
    BY <2>3, <2>4 DEF VersionTaken
<1>9. CASE work[r].ownerSeen = Created
  <2>1. AccountDiffers(r)
    BY <1>7, <1>9, RowFields DEF AccountDiffers
  <2>2. account[a] = Created
    BY <2>1, <1>1, <1>7, <1>8, RowFields DEF AccountRefused
  <2>3. MergedAccount(VerifiedVendor, Created, account[a]) = VerifiedVendor
    BY <2>2, RowFields DEF MergedAccount, Written, VerifiedVendor
  <2>4. Event(a, work[r].owner, "VendorVerified") =
          [aggregateId |-> a, version |-> 2, type |-> "VendorVerified"]
    BY <1>7, RowFields DEF Event
  <2> QED
    BY <1>2, <1>3, <1>5, <1>6, <1>7, <1>9, <2>1, <2>3, <2>4 DEF Commit, IInv, TypeOK
<1>10. CASE work[r].ownerSeen = VerifiedVendor
  <2>1. ~AccountDiffers(r)
    BY <1>7, <1>10 DEF AccountDiffers
  <2>2. account[a] = VerifiedVendor
    BY <1>1, <1>7, <1>10, RowFields DEF SagaReadAccount
  <2>3. MergedAccount(VerifiedVendor, VerifiedVendor, account[a]) = VerifiedVendor
    BY <2>2, RowFields DEF MergedAccount, Written, VerifiedVendor
  <2>4. [aggregateId |-> a, version |-> 2, type |-> "VendorVerified"] \in accountEvents
    BY <1>1, <1>6, <2>2, RowFields DEF VendorVerifiedOnce
  <2> QED
    BY <1>2, <1>3, <1>5, <1>6, <1>7, <1>10, <2>1, <2>3, <2>4 DEF Commit, IInv, TypeOK
<1> QED
  BY <1>7, <1>9, <1>10

\* Commit: the verification completes in the step that verifies its vendor.
LEMMA CommitIInv ==
  ASSUME IInv, NEW r \in Requests, Commit(r)
  PROVE  IInv'
<1> DEFINE a == work[r].account
           v == work[r].verification
           row == work[r].entity
           e == Event(v, row, "VerificationCompleted")
<1>1. /\ pc[r] = "commit" /\ DecidesOnLoaded(r) /\ InTransactionAhead(r)
      /\ AccountRows /\ VerificationRows /\ AdminsStay /\ VerificationLog
      /\ VendorVerifiedOnce /\ VerifiedByCompletion
  BY DEF Commit, IInv, Tables, Memory, Held
<1>2. /\ a \in Vendors /\ ~isNew(account[a]) /\ a \in Accounts /\ a \notin Admins
      /\ v \in Verifications /\ verification[v].account = a
      /\ verification[v].version = 1 /\ verification[v].completedAt = 0
      /\ row \in VerificationRow /\ row.version = 2 /\ row.completedAt # 0
      /\ row.account = a /\ row.timeOutAfter = verification[v].timeOutAfter
  BY CommitEffect, AccountAssumption DEF Accounts
<1>3. /\ verification' = [verification EXCEPT ![v] = row]
      /\ account' = [account EXCEPT ![a] = VerifiedVendor]
      /\ accountEvents' = accountEvents \cup
           {[aggregateId |-> a, version |-> 2, type |-> "VendorVerified"]}
  BY CommitEffect
<1>4. /\ verificationEvents' = verificationEvents \cup {e}
      /\ e = [aggregateId |-> v, version |-> 2, type |-> "VerificationCompleted"]
      /\ pc' = [pc EXCEPT ![r] = "ok"] /\ UNCHANGED <<now, work>>
  BY <1>2 DEF Commit, Goto, Event
<1>5. /\ account'[a] = VerifiedVendor /\ \A b \in Accounts \ {a} : account'[b] = account[b]
      /\ verification'[v] = row
      /\ \A u \in Verifications \ {v} : verification'[u] = verification[u]
      /\ pc'[r] = "ok" /\ \A p \in Requests \ {r} : pc'[p] = pc[p]
  BY <1>2, <1>3, <1>4 DEF IInv, TypeOK
<1>6. \A b \in Accounts : /\ account[b].verified => account'[b].verified
                          /\ ~isNew(account[b]) => ~isNew(account'[b])
  BY <1>5, RowFields DEF isNew
<1> HIDE DEF a, v, row, e
<1>a. TypeOK'
  BY <1>2, <1>3, <1>4, ConstantTypes DEF IInv, TypeOK, InFlight, InTransaction
<1>b. Tables'
  <2>1. AccountRows'
    BY <1>1, <1>2, <1>5 DEF AccountRows, Accounts
  <2>2. VerificationRows'
    BY <1>1, <1>2, <1>5, <1>6 DEF VerificationRows
  <2>3. AdminsStay'
    BY <1>1, <1>2, <1>5 DEF AdminsStay, Accounts
  <2>4. VerificationLog'
    <3>1. \A f \in verificationEvents' :
            /\ f.version \in 1..verification'[f.aggregateId].version
            /\ f.type = "VerificationInitialized" <=> f.version = 1
      <4> SUFFICES ASSUME NEW f \in verificationEvents'
                   PROVE  /\ f.version \in 1..verification'[f.aggregateId].version
                          /\ f.type = "VerificationInitialized" <=> f.version = 1
        OBVIOUS
      <4>1. CASE f = e
        BY <4>1, <1>2, <1>4, <1>5
      <4>2. CASE f \in verificationEvents
        <5>1. /\ f.version \in 1..verification[f.aggregateId].version
              /\ f.aggregateId \in Verifications
          BY <4>2, <1>1 DEF VerificationLog, IInv, TypeOK
        <5>2. f.version \in 1..verification'[f.aggregateId].version
          BY <5>1, <1>2, <1>5
        <5> QED
          BY <4>2, <5>2, <1>1 DEF VerificationLog
      <4> QED
        BY <4>1, <4>2, <1>4
    <3>2. \A u \in Verifications :
            verification'[u].version = 2 => VersionTaken(verificationEvents', u, 2)
      BY <1>1, <1>4, <1>5 DEF VerificationLog, VersionTaken
    <3> QED
      BY <3>1, <3>2 DEF VerificationLog, VersionTaken
  <2>5. VendorVerifiedOnce'
    <3>1. {b \in Vendors : ~isNew(account'[b])} = {b \in Vendors : ~isNew(account[b])}
      BY <1>2, <1>5, RowFields DEF isNew, Accounts
    <3>2. {b \in Vendors : account'[b].verified} = {b \in Vendors : account[b].verified} \cup {a}
      BY <1>2, <1>5, RowFields DEF Accounts
    <3> DEFINE E(b) == [aggregateId |-> b, version |-> 2, type |-> "VendorVerified"]
               S == {b \in Vendors : account[b].verified}
    <3>3. {E(b) : b \in S \cup {a}} = {E(b) : b \in S} \cup {E(a)}
      OBVIOUS
    <3> QED
      BY <1>1, <1>3, <3>1, <3>2, <3>3 DEF VendorVerifiedOnce, Event
  <2>6. VerifiedByCompletion'
    <3> SUFFICES ASSUME NEW b \in Vendors
                 PROVE  account'[b].verified <=>
                          \E u \in Verifications :
                            verification'[u].account = b /\ verification'[u].completedAt # 0
      BY DEF VerifiedByCompletion
    <3>1. CASE b = a
      BY <3>1, <1>2, <1>5, RowFields
    <3>2. CASE b # a
      <4>1. \A u \in Verifications :
              (verification'[u].account = b /\ verification'[u].completedAt # 0)
                <=> (verification[u].account = b /\ verification[u].completedAt # 0)
        BY <3>2, <1>2, <1>5
      <4>2. account'[b] = account[b]
        BY <3>2, <1>5 DEF Accounts
      <4> QED
        BY <4>1, <4>2, <1>1 DEF VerifiedByCompletion
    <3> QED
      BY <3>1, <3>2
  <2> QED
    BY <2>1, <2>2, <2>3, <2>4, <2>5, <2>6 DEF Tables
<1>c. \A q \in Requests \ {r} : Held(q)'
  <2> SUFFICES ASSUME NEW q \in Requests \ {r} PROVE Held(q)'
    OBVIOUS
  <2>1. Held(q) /\ work' = work /\ pc'[q] = pc[q]
    BY <1>4, <1>5 DEF IInv, Memory
  <2>2. pc[q] \in InTransaction => work[q].verification # v
    BY <1>1 DEF InTransactionAhead, InTransaction, v
  <2>3. RegistersUnverified(q)'
    BY <2>1 DEF Held, RegistersUnverified
  <2>4. DrawsAlone(q)'
    <3>1. pc[q] = "insertVerification" =>
            /\ work[q].verification \in Verifications
            /\ isNew(verification[work[q].verification])
            /\ work[q].entity.account \in Accounts
      BY <2>1 DEF Held, DrawsAlone
    <3>2. pc[q] = "insertVerification" => work[q].verification # v
      BY <3>1, <1>2 DEF isNew
    <3> QED
      BY <2>1, <3>1, <3>2, <1>2, <1>5, <1>6 DEF Held, DrawsAlone
  <2>5. DecidesOnLoaded(q)' /\ SavesOverRead(q)'
    <3>1. pc[q] \in {"select", "update"} \cup InTransaction =>
            LET old == verification[work[q].verification]
                new == verification'[work[q].verification]
            IN  /\ new = old \/ (old.version = 1 /\ new.version = 2)
                /\ new.account = old.account /\ new.timeOutAfter = old.timeOutAfter
      BY <2>1, <1>2, <1>5 DEF Held, DecidesOnLoaded
    <3>2. DecidesOnLoaded(q)'
      BY <2>1, <3>1 DEF Held, DecidesOnLoaded
    <3>3. SavesOverRead(q)'
      BY <2>1, <3>1 DEF Held, SavesOverRead
    <3> QED
      BY <3>2, <3>3
  <2>6. pc[q] \in InTransaction =>
          verification'[work[q].verification] = verification[work[q].verification]
    BY <2>1, <2>2, <1>5 DEF Held, DecidesOnLoaded
  <2>7. InTransactionAhead(q)'
    BY <2>1, <2>6, <1>5 DEF Held, InTransactionAhead, InTransaction
  <2>8. SagaCompletesFirst(q)'
    BY <2>1, <2>6 DEF Held, SagaCompletesFirst, InTransaction
  <2>9. SagaReadAccount(q)'
    <3>1. pc[q] \in {"updateAccount", "commit"} => work[q].account \in Accounts
      BY <2>1 DEF Held, DecidesOnLoaded, InTransaction
    <3> QED
      BY <2>1, <3>1, <1>6 DEF Held, SagaReadAccount
  <2>10. SessionIsVerified(q)'
    BY <2>1, <1>6 DEF Held, SessionIsVerified, HasSession
  <2>11. AccountHeld(q)'
    <3>1. accountEvents' = accountEvents \cup
            (IF AccountDiffers(r) THEN {Event(a, work[r].owner, "VendorVerified")} ELSE {})
      BY DEF Commit, a
    <3>2. (pc[q] = "commit" /\ AccountDiffers(q) /\ AccountDiffers(r)) => work[q].account # a
      BY <2>1, <1>1 DEF Held, AccountHeld, a
    <3>3. \A f \in accountEvents' \ accountEvents : AccountDiffers(r) /\ f.aggregateId = a
      BY <3>1 DEF Event
    <3> QED
      BY <2>1, <1>5, <3>2, <3>3, AccountStaysHeld
  <2> QED
    BY <2>3, <2>4, <2>5, <2>7, <2>8, <2>9, <2>10, <2>11 DEF Held
<1>d. Held(r)'
  <2>1. SessionIsVerified(r)'
    BY <1>2, <1>4, <1>5, RowFields DEF SessionIsVerified, a
  <2> QED
    BY <2>1, <1>5 DEF Held, RegistersUnverified, DrawsAlone, DecidesOnLoaded, SavesOverRead,
       InTransactionAhead, SagaCompletesFirst, SagaReadAccount, AccountHeld, InTransaction
<1> QED
  BY <1>a, <1>b, <1>c, <1>d DEF IInv, Memory

------------------------------------------------------------------------------
(* The invariant, and what follows from it.                                 *)

\* No request and no verification is there at first.
LEMMA InitIInv == Init => IInv
<1> SUFFICES ASSUME Init PROVE IInv
  OBVIOUS
<1>1. \A r \in Requests : pc[r] = "idle"
  BY DEF Init
<1>2. \A r \in Requests : Held(r)
  BY <1>1, AtRest
<1>3. /\ \A v \in Verifications : verification[v] = NoVerificationRow
      /\ verificationEvents = {}
  BY DEF Init
<1>4. \A a \in Vendors : account[a] \in {NoRow, Created}
  BY RowFields DEF Init, Accounts
<1>5. AccountRows /\ VerificationRows
  BY <1>3, <1>4 DEF AccountRows, VerificationRows, Init, Accounts
<1>6. AdminsStay
  BY <1>3, AccountAssumption DEF AdminsStay, NoVerificationRow, Accounts
<1>7. VerificationLog
  BY <1>3 DEF VerificationLog, NoVerificationRow
<1>8. VendorVerifiedOnce
  <2>1. \A a \in {b \in Vendors : ~isNew(account[b])} : account[a] = Created
    BY <1>4, RowFields DEF isNew
  <2>2. {b \in Vendors : account[b].verified} = {}
    BY <1>4, RowFields
  <2>3. accountEvents = {Event(a, Created, "VendorAccountCreated") :
                           a \in {b \in Vendors : ~isNew(account[b])}}
    BY <2>1 DEF Init
  <2> QED
    BY <2>2, <2>3 DEF VendorVerifiedOnce
<1>9. VerifiedByCompletion
  BY <1>3, <1>4, RowFields DEF VerifiedByCompletion, NoVerificationRow
<1> QED
  BY <1>2, <1>5, <1>6, <1>7, <1>8, <1>9, InitTypeOK DEF IInv, Tables, Memory

\* Every step keeps the invariant.
LEMMA NextIInv == IInv /\ [Next]_vars => IInv'
<1> SUFFICES ASSUME IInv, [Next]_vars PROVE IInv'
  OBVIOUS
<1>1. ASSUME NEW r \in Requests, NEW a \in Accounts,
             register(r, a) \/ (\E v \in Verifications : initialize(r, a, v))
               \/ verifyAccount(r, a) \/ login(r, a)
      PROVE  IInv'
  BY <1>1, RegisterIInv, InitializeIInv, VerifyAccountIInv, LoginIInv
<1>2. ASSUME NEW r \in Requests, Step(r)
      PROVE  IInv'
  BY <1>2, InsertAccountIInv, InsertVerificationIInv, SelectVerificationIInv,
     UpdateVerificationIInv, LoadAccountIInv, SelectAccountIInv, UpdateAccountIInv, CommitIInv
     DEF Step
<1>3. CASE Crash
  BY <1>3, CrashIInv
<1>4. CASE Tick
  <2>1. now' \in Nat \ {0}
    BY <1>4 DEF Tick, IInv, TypeOK
  <2> QED
    BY <1>4, <2>1, TickIInv DEF Tick
<1>5. CASE UNCHANGED vars
  <2>1. UNCHANGED <<tables, pc, work>> /\ now' = now
    BY <1>5 DEF vars
  <2>2. now' \in Nat \ {0}
    BY <2>1 DEF IInv, TypeOK
  <2> QED
    BY <2>1, <2>2, TickIInv
<1> QED
  BY <1>1, <1>2, <1>3, <1>4, <1>5 DEF Next

\* IInv holds in every reachable state.
THEOREM Invariance == Spec => []IInv
  BY InitIInv, NextIInv, PTL DEF Spec

\* The four tables, the clock and the memory of every request keep their types, and a
\* request in a transaction has read both rows it is about.
THEOREM TypeCorrect == Spec => []TypeOK
<1>1. IInv => TypeOK
  BY DEF IInv
<1> QED
  BY <1>1, Invariance, PTL

\* Wherever a request crashes, fails or meets another, the saga leaves a vendor verified
\* exactly when a verification of that vendor is completed.
THEOREM SagaIsAtomic == Spec => []VerifiedByCompletion
<1>1. IInv => VerifiedByCompletion
  BY DEF IInv, Tables
<1> QED
  BY <1>1, Invariance, PTL

\* However many verifications of a vendor complete at once, its log says so once.
THEOREM VerifiedOnce == Spec => []VendorVerifiedOnce
<1>1. IInv => VendorVerifiedOnce
  BY DEF IInv, Tables
<1> QED
  BY <1>1, Invariance, PTL

\* The same OTP, sent again at once or later, completes nothing.
THEOREM CompletesOnce == Spec => []CompletedOnce
<1>1. IInv => CompletedOnce
  <2> SUFFICES ASSUME IInv, NEW e \in verificationEvents, NEW f \in verificationEvents,
                      e.aggregateId = f.aggregateId, e.type = f.type
               PROVE  e = f
    BY DEF CompletedOnce
  <2>1. \A g \in {e, f} :
          /\ g \in [aggregateId : Verifications, version : Nat,
                    type : {"VerificationInitialized", "VerificationCompleted"}]
          /\ g.version \in 1..verification[g.aggregateId].version
          /\ g.type = "VerificationInitialized" <=> g.version = 1
    BY DEF IInv, TypeOK, Tables, VerificationLog
  <2>2. verification[e.aggregateId].version \in {0, 1, 2}
    BY <2>1 DEF IInv, Tables, VerificationRows, NoVerificationRow
  <2>3. e.version = f.version
    BY <2>1, <2>2
  <2> QED
    BY <2>1, <2>3
<1> QED
  BY <1>1, Invariance, PTL

\* Whatever a session is signed for, it opens no guard for the other kind of account;
\* and whoever verifies an account, in a saga of its own or after another's, gets
\* a session that opens the guard of that account.
THEOREM GuardsOpenForTheirOwn == Spec => []SessionFitsItsGuard
<1>1. IInv => SessionFitsItsGuard
  <2> SUFFICES ASSUME IInv, NEW r \in Requests, HasSession(r)
               PROVE  /\ VerifiedSuperAdminGuard(r) => work[r].account \in Admins
                      /\ VerifiedVendorGuard(r) => work[r].account \in Vendors
                      /\ work[r].op = "verifyAccount" => GuardOfItsKind(r)
    BY DEF SessionFitsItsGuard
  <2>1. work[r].account \in Accounts /\ account[work[r].account].verified
    BY DEF IInv, Memory, Held, SessionIsVerified
  <2> QED
    BY <2>1, AccountAssumption
    DEF VerifiedSuperAdminGuard, VerifiedVendorGuard, GuardOfItsKind, userType, isVerified,
        Accounts
<1> QED
  BY <1>1, Invariance, PTL

------------------------------------------------------------------------------
(* The refinement.                                                          *)

\* Accounts are there or not, verified or not; no verification is there.
LEMMA InitRefines == Init => Contract!Init
<1> SUFFICES ASSUME Init PROVE Contract!Init
  OBVIOUS
<1>1. \A a \in Accounts : Status(account[a]) \in {"absent", "unverified", "verified"}
  BY DEF Status
<1>2. \A v \in Verifications :
        verification[v].account = NoAccount /\ verification[v].completedAt = 0
  BY DEF Init, NoVerificationRow
<1> QED
  BY <1>1, <1>2 DEF Contract!Init

\* A step that leaves the tables alone is a stutter.
LEMMA TablesStutter ==
  ASSUME UNCHANGED tables
  PROVE  UNCHANGED Contract!vars
  BY DEF tables, Contract!vars, Status, isNew

\* An account is inserted where there is none.
LEMMA InsertAccountRefines ==
  ASSUME IInv, NEW r \in Requests, InsertAccount(r)
  PROVE  [Contract!Next]_(Contract!vars)
<1> DEFINE a == work[r].account
<1>1. CASE Answer(r, "failed")
  BY <1>1, TablesStutter DEF Answer
<1>2. CASE /\ isNew(account[a])
           /\ account' = [account EXCEPT ![a] = work[r].owner]
           /\ UNCHANGED verification
  <2>1. RegistersUnverified(r) /\ pc[r] = "insertAccount"
    BY DEF IInv, Memory, Held, InsertAccount
  <2>2. a \in Accounts /\ work[r].owner = Created
    BY <2>1 DEF RegistersUnverified
  <2>3. account' = [account EXCEPT ![a] = Created] /\ account \in [Accounts -> AccountRow]
    BY <1>2, <2>2 DEF IInv, TypeOK
  <2>4. Status(account[a]) = "absent" /\ Status(Created) = "unverified"
    BY <1>2, RowFields DEF Status, isNew
  <2> HIDE DEF a
  <2>5. [b \in Accounts |-> Status(account'[b])] =
          [[b \in Accounts |-> Status(account[b])] EXCEPT ![a] = "unverified"]
    BY <2>2, <2>3, <2>4
  <2>6. Contract!Register(a)
    BY <1>2, <2>2, <2>4, <2>5 DEF Contract!Register, Status, isNew
  <2> QED
    BY <2>2, <2>6 DEF Contract!Next
<1> QED
  BY <1>1, <1>2 DEF InsertAccount

\* A verification is inserted for an account that is there.
LEMMA InsertVerificationRefines ==
  ASSUME IInv, NEW r \in Requests, InsertVerification(r)
  PROVE  [Contract!Next]_(Contract!vars)
<1> DEFINE id == work[r].verification
           row == work[r].entity
<1>1. DrawsAlone(r) /\ pc[r] = "insertVerification" /\ VerificationRows
  BY DEF IInv, Tables, Memory, Held, InsertVerification
<1>2. /\ id \in Verifications /\ verification[id].version = 0
      /\ row.completedAt = 0 /\ row.account \in Accounts /\ ~isNew(account[row.account])
  BY <1>1 DEF DrawsAlone, isNew
<1>3. verification[id].account = NoAccount /\ verification[id].completedAt = 0
  BY <1>1, <1>2 DEF VerificationRows, NoVerificationRow
<1>4. /\ verification' = [verification EXCEPT ![id] = row] /\ account' = account
      /\ verification \in [Verifications -> VerificationRow]
  BY DEF InsertVerification, IInv, TypeOK
<1> HIDE DEF id, row
<1>5. Status(account[row.account]) # "absent"
  BY <1>2 DEF Status
<1>6. [u \in Verifications |-> verification'[u].account] =
        [[u \in Verifications |-> verification[u].account] EXCEPT ![id] = row.account]
  BY <1>2, <1>4
<1>7. {u \in Verifications : verification'[u].completedAt # 0} =
        {u \in Verifications : verification[u].completedAt # 0}
  BY <1>2, <1>3, <1>4
<1>8. Contract!Initialize(id, row.account)
  BY <1>2, <1>3, <1>4, <1>5, <1>6, <1>7 DEF Contract!Initialize, Status, isNew
<1> QED
  BY <1>2, <1>8 DEF Contract!Next, Contract!Initialize

\* A commit completes its verification and verifies its account, in one step.
LEMMA CommitRefines ==
  ASSUME IInv, NEW r \in Requests, Commit(r)
  PROVE  [Contract!Next]_(Contract!vars)
<1> DEFINE a == work[r].account
           id == work[r].verification
           row == work[r].entity
<1>1. /\ a \in Vendors /\ id \in Verifications /\ verification[id].account = a
      /\ verification[id].completedAt = 0 /\ row.completedAt # 0 /\ row.account = a
      /\ verification' = [verification EXCEPT ![id] = row]
      /\ account' = [account EXCEPT ![a] = VerifiedVendor]
  BY CommitEffect
<1>2. /\ a \in Accounts /\ a # NoAccount
      /\ verification \in [Verifications -> VerificationRow] /\ account \in [Accounts -> AccountRow]
  BY <1>1, AccountAssumption DEF IInv, TypeOK, Accounts
<1> HIDE DEF a, id, row
<1>3. Status(VerifiedVendor) = "verified"
  BY RowFields DEF Status, isNew
<1>4. [b \in Accounts |-> Status(account'[b])] =
        [[b \in Accounts |-> Status(account[b])] EXCEPT ![a] = "verified"]
  BY <1>1, <1>2, <1>3
<1>5. [u \in Verifications |-> verification'[u].account] =
        [u \in Verifications |-> verification[u].account]
  BY <1>1, <1>2
<1>6. {u \in Verifications : verification'[u].completedAt # 0} =
        {u \in Verifications : verification[u].completedAt # 0} \cup {id}
  BY <1>1, <1>2
<1>7. Contract!Complete(id)
  BY <1>1, <1>2, <1>4, <1>5, <1>6 DEF Contract!Complete, Status, isNew
<1> QED
  BY <1>1, <1>7 DEF Contract!Next, Contract!Complete

\* Every other step is a stutter.
LEMMA StepRefines == IInv /\ [Next]_vars => [Contract!Next]_(Contract!vars)
<1> SUFFICES ASSUME IInv, [Next]_vars PROVE [Contract!Next]_(Contract!vars)
  OBVIOUS
<1>1. CASE UNCHANGED tables
  BY <1>1, TablesStutter
<1>2. ASSUME NEW r \in Requests, NEW a \in Accounts,
             register(r, a) \/ (\E v \in Verifications : initialize(r, a, v))
               \/ verifyAccount(r, a) \/ login(r, a)
      PROVE  UNCHANGED tables
  BY <1>2 DEF register, initialize, verifyAccount, login, Answer
<1>3. ASSUME NEW r \in Requests, Step(r)
      PROVE  [Contract!Next]_(Contract!vars)
  <2>1. CASE InsertAccount(r) \/ InsertVerification(r) \/ Commit(r)
    BY <2>1, InsertAccountRefines, InsertVerificationRefines, CommitRefines
  <2>2. CASE SelectVerification(r) \/ UpdateVerification(r) \/ LoadAccount(r)
               \/ SelectAccount(r) \/ UpdateAccount(r)
    <3>1. UNCHANGED tables
      BY <2>2 DEF SelectVerification, UpdateVerification, LoadAccount, SelectAccount,
         UpdateAccount, Answer
    <3> QED
      BY <3>1, TablesStutter
  <2> QED
    BY <1>3, <2>1, <2>2 DEF Step
<1>4. CASE Crash \/ Tick \/ UNCHANGED vars
  <2>1. UNCHANGED tables
    BY <1>4 DEF Crash, Tick, vars
  <2> QED
    BY <2>1, TablesStutter
<1> QED
  BY <1>1, <1>2, <1>3, <1>4 DEF Next

\* Stale reads, locks, partial UPDATEs, rollbacks and crashes together do what the
\* contract promises of requests that are each one step.
THEOREM Refinement == Spec => ImplementsContract
<1>1. Init /\ [][Next]_vars /\ []IInv => Contract!Init /\ [][Contract!Next]_(Contract!vars)
  BY InitRefines, StepRefines, PTL
<1> QED
  BY <1>1, Invariance, PTL DEF Spec, ImplementsContract, Contract!Spec
==============================================================================
