------------------------- MODULE AccountVerification -------------------------
(***************************************************************************)
(* Accounts and their verification: VendorAccountController and            *)
(* SuperAdminAccountController over the Vendor, SuperAdmin and             *)
(* Verification aggregates, and AccountVerificationSaga, which verifies    *)
(* the account inside the transaction that completes the verification.     *)
(*                                                                         *)
(* Concurrent requests take one step per point where a handler awaits the  *)
(* database.  A transaction that has updated a row, of a verification or   *)
(* of an account, holds its lock until it ends; its writes show at COMMIT  *)
(* only (READ COMMITTED), so its own are kept in `work` until then.        *)
(***************************************************************************)
EXTENDS Persistence

CONSTANTS
  Requests,        \* HTTP requests; each is served once
  Vendors,         \* emails given to the vendor endpoints
  Admins,          \* emails given to the super admin endpoints
  SuperAdminEmail, \* the one that Setting.superAdmin.email names
  Verifications,   \* the ids `new Verification()` can draw
  NoAccount,
  NoVerification,
  MaxTime,         \* bound on the clock
  DurationInSeconds

Accounts == Vendors \cup Admins

ASSUME AccountAssumption ==
  /\ Vendors \cap Admins = {}
  /\ SuperAdminEmail \in Admins
  /\ NoAccount \notin Accounts
  /\ NoVerification \notin Verifications
ASSUME TimeAssumption == MaxTime \in Nat /\ DurationInSeconds \in Nat

VARIABLES
  account,            \* tables vendor and super_admin: email -> row
  accountEvents,      \* table vendor_event (a super admin has no events)
  verification,       \* table verification: id -> row
  verificationEvents, \* table verification_event
  now,                \* the clock, from 1; 0 is `null`
  pc,                 \* where each request is
  work                \* what each request holds in memory

tables == <<account, accountEvents, verification, verificationEvents>>
vars == <<tables, now, pc, work>>

------------------------------------------------------------------------------
(* Rows.                                                                    *)

NoRow == [version |-> 0, verified |-> FALSE]
Created == [version |-> 1, verified |-> FALSE]
CreatedAndVerified == [version |-> 1, verified |-> TRUE]
NoVerificationRow ==
  [version |-> 0, account |-> NoAccount, timeOutAfter |-> 0, completedAt |-> 0]

\* verify() of either account.  The version of a SuperAdmin is TypeORM's to
\* change, not the aggregate's.
Verified(a, row) ==
  [version |-> IF a \in Vendors THEN nextVersion(row) ELSE row.version, verified |-> TRUE]

Initialized(a) ==
  [version |-> 1, account |-> a, timeOutAfter |-> now + DurationInSeconds, completedAt |-> 0]
Completed(row) == [row EXCEPT !.version = nextVersion(row), !.completedAt = now]

Event(id, row, type) == [aggregateId |-> id, version |-> row.version, type |-> type]

existsAndUnVerifiedByEmail(a) == ~isNew(account[a]) /\ ~account[a].verified

\* ORDER BY timeOutAfter DESC LIMIT 1: any of those that tie.
findLatestByEmail(a) ==
  LET found == {v \in Verifications : verification[v].account = a}
  IN  {v \in found :
         \A w \in found : verification[w].timeOutAfter <= verification[v].timeOutAfter}

\* EntitySubscriber compares the version of a StateBasedAggregate with metadata
\* that no code sets, so it throws after every INSERT and UPDATE of one.
AfterSaveThrows(a) == a \in Admins

------------------------------------------------------------------------------
(* Requests.                                                                *)

NoWork ==
  [op |-> "NONE", account |-> NoAccount, verification |-> NoVerification,
   entity |-> NoVerificationRow, seen |-> NoVerificationRow,
   owner |-> NoRow, ownerSeen |-> NoRow]

\* A transaction that failed never released its locks.
InTransactionLeaked == {"loadAccount", "selectAccount", "updateAccount", "commit", "failed"}
InTransaction == {"loadAccount", "selectAccount", "updateAccount", "commit"}
InFlight == InTransaction \cup {"insertAccount", "insertVerification", "select", "update"}

\* The row of this verification is locked by a transaction in progress.
Locked(v) == \E q \in Requests : pc[q] \in InTransaction /\ work[q].verification = v

\* The service starts over a database in which vendors may have registered.  No
\* code can write a row of super_admin (AfterSaveThrows): one that is there was
\* put there by an earlier release or by hand.
Init ==
  /\ account \in [Accounts -> {NoRow, Created, CreatedAndVerified}]
  /\ \A a \in Vendors : ~account[a].verified
  /\ \A a \in Admins \ {SuperAdminEmail} : account[a] = NoRow
  /\ accountEvents = {Event(a, account[a], "VendorAccountCreated") :
                        a \in {b \in Vendors : ~isNew(account[b])}}
  /\ verification = [v \in Verifications |-> NoVerificationRow]
  /\ verificationEvents = {}
  /\ now = 1
  /\ pc = [r \in Requests |-> "idle"]
  /\ work = [r \in Requests |-> NoWork]

Goto(r, label) == pc' = [pc EXCEPT ![r] = label]
Hold(r, w) == work' = [work EXCEPT ![r] = w]

\* The handler throws, or answers, before it has anything to save.
Answer(r, label) == Goto(r, label) /\ UNCHANGED <<tables, now, work>>

\* createAccount of a SuperAdmin throws for any email but the setting's.
MayRegister(a) == a \in Vendors \/ a = SuperAdminEmail

\* POST register.
register(r, a) ==
  /\ pc[r] = "idle"
  /\ IF MayRegister(a)
     THEN /\ Hold(r, [NoWork EXCEPT !.op = "register", !.account = a, !.owner = Created])
          /\ Goto(r, "insertAccount")
          /\ UNCHANGED <<tables, now>>
     ELSE Answer(r, "rejected")

\* save of the new account: its id is fresh, its email must be too.
InsertAccount(r) ==
  LET a == work[r].account
  IN  /\ pc[r] = "insertAccount"
      /\ IF isNew(account[a]) /\ ~AfterSaveThrows(a)
         THEN /\ account' = [account EXCEPT ![a] = work[r].owner]
              /\ accountEvents' =
                   accountEvents \cup {Event(a, work[r].owner, "VendorAccountCreated")}
              /\ Goto(r, "ok")
              /\ UNCHANGED <<verification, verificationEvents, now, work>>
         ELSE Answer(r, "failed")

\* POST verification/initialize: a Verification whose id nobody else has drawn.
initialize(r, a, v) ==
  /\ pc[r] = "idle"
  /\ isNew(verification[v]) /\ \A q \in Requests : work[q].verification # v
  /\ IF existsAndUnVerifiedByEmail(a)
     THEN /\ Hold(r, [NoWork EXCEPT !.op = "initialize", !.account = a,
                                    !.verification = v, !.entity = Initialized(a)])
          /\ Goto(r, "insertVerification")
          /\ UNCHANGED <<tables, now>>
     ELSE Answer(r, "rejected")

InsertVerification(r) ==
  LET v == work[r].verification
  IN  /\ pc[r] = "insertVerification"
      /\ verification' = [verification EXCEPT ![v] = work[r].entity]
      /\ verificationEvents' =
           verificationEvents \cup {Event(v, work[r].entity, "VerificationInitialized")}
      /\ Goto(r, "ok")
      /\ UNCHANGED <<account, accountEvents, now, work>>

\* POST verification/verify: load the latest verification and complete it in
\* memory.  complete() looks at nothing but the OTP, which is right or wrong.
verifyAccount(r, a) ==
  /\ pc[r] = "idle"
  /\ \/ \E v \in findLatestByEmail(a) :
          /\ Hold(r, [NoWork EXCEPT !.op = "verifyAccount", !.account = a,
                                    !.verification = v, !.entity = Completed(verification[v])])
          /\ Goto(r, "select")
          /\ UNCHANGED <<tables, now>>
     \/ Answer(r, "rejected")

\* save does not keep the row it has just read.
SelectVerificationForgets(r) ==
  /\ pc[r] = "select"
  /\ Goto(r, IF work[r].entity = verification[work[r].verification] THEN "ok" ELSE "update")
  /\ UNCHANGED <<tables, now, work>>

\* save(verification), first half: read the stored row.  Without a difference
\* nothing is written, no saga runs, and the handler answers with a session.
SelectVerification(r) ==
  LET stored == verification[work[r].verification]
  IN  /\ pc[r] = "select"
      /\ work' = [work EXCEPT ![r].seen = stored]
      /\ Goto(r, IF work[r].entity = stored THEN "ok" ELSE "update")
      /\ UNCHANGED <<tables, now>>

\* The verification is committed before the saga runs, not with it.
UpdateVerificationAutoCommits(r) ==
  LET v == work[r].verification
  IN  /\ pc[r] = "update"
      /\ ~VersionTaken(verificationEvents, v, work[r].entity.version)
      /\ verification' = [verification EXCEPT ![v] = work[r].entity]
      /\ Goto(r, "loadAccount")
      /\ UNCHANGED <<account, accountEvents, verificationEvents, now, work>>

\* Second half: UPDATE the row once its lock is free and INSERT the event, both
\* unseen by others until the commit; or roll back on the unique constraint.
UpdateVerification(r) ==
  LET v == work[r].verification
  IN  /\ pc[r] = "update"
      /\ ~Locked(v)
      /\ Answer(r, IF VersionTaken(verificationEvents, v, work[r].entity.version)
                   THEN "failed" ELSE "loadAccount")

\* The saga does not ask whether the account is verified already.
LoadAccountUnchecked(r) ==
  /\ pc[r] = "loadAccount"
  /\ work' = [work EXCEPT ![r].owner = Verified(work[r].account, account[work[r].account])]
  /\ Goto(r, "selectAccount")
  /\ UNCHANGED <<tables, now>>

\* AccountVerificationSaga, in the same transaction: load the account and verify
\* it in memory, or throw ALREADY_VERIFIED and roll everything back.
LoadAccount(r) ==
  LET a == work[r].account
  IN  /\ pc[r] = "loadAccount"
      /\ IF account[a].verified
         THEN Answer(r, "rejected")
         ELSE /\ work' = [work EXCEPT ![r].owner = Verified(a, account[a])]
              /\ Goto(r, "selectAccount")
              /\ UNCHANGED <<tables, now>>

\* save takes the entity in memory for the stored row and finds no difference.
SelectAccountFromMemory(r) ==
  /\ pc[r] = "selectAccount"
  /\ work' = [work EXCEPT ![r].ownerSeen = work[r].owner]
  /\ Goto(r, "updateAccount")
  /\ UNCHANGED <<tables, now>>

\* save(account) inside the transaction, first half.
SelectAccount(r) ==
  /\ pc[r] = "selectAccount"
  /\ work' = [work EXCEPT ![r].ownerSeen = account[work[r].account]]
  /\ Goto(r, "updateAccount")
  /\ UNCHANGED <<tables, now>>

AccountDiffers(r) == work[r].owner # work[r].ownerSeen

\* The row of this account has been updated by a transaction in progress.
AccountLocked(a) ==
  \E q \in Requests : pc[q] = "commit" /\ work[q].account = a /\ AccountDiffers(q)

AccountRefused(r) ==
  /\ AccountDiffers(r)
  /\ \/ AfterSaveThrows(work[r].account)
     \/ VersionTaken(accountEvents, work[r].account, work[r].owner.version)

\* Second half: UPDATE the account, if it differs, once the lock of its row is
\* free, and INSERT its event; or roll back everything.
UpdateAccount(r) ==
  /\ pc[r] = "updateAccount"
  /\ AccountDiffers(r) => ~AccountLocked(work[r].account)
  /\ Answer(r, IF AccountRefused(r) THEN "failed" ELSE "commit")

MergedVerification(mine, seen, stored) ==
  [stored EXCEPT
     !.version = Written(mine.version, seen.version, @),
     !.completedAt = Written(mine.completedAt, seen.completedAt, @)]

MergedAccount(mine, seen, stored) ==
  [version |-> Written(mine.version, seen.version, stored.version),
   verified |-> Written(mine.verified, seen.verified, stored.verified)]

\* COMMIT: what has been written of both aggregates shows.
Commit(r) ==
  LET a == work[r].account
      v == work[r].verification
  IN  /\ pc[r] = "commit"
      /\ verification' =
           [verification EXCEPT ![v] = MergedVerification(work[r].entity, work[r].seen, @)]
      /\ verificationEvents' =
           verificationEvents \cup {Event(v, work[r].entity, "VerificationCompleted")}
      /\ account' = [account EXCEPT ![a] = MergedAccount(work[r].owner, work[r].ownerSeen, @)]
      /\ accountEvents' = accountEvents \cup
           (IF AccountDiffers(r) THEN {Event(a, work[r].owner, "VendorVerified")} ELSE {})
      /\ Goto(r, "ok")
      /\ UNCHANGED <<now, work>>

\* POST login: one read; the password is right or wrong.
login(r, a) ==
  /\ pc[r] = "idle"
  /\ \/ /\ ~isNew(account[a]) /\ account[a].verified
        /\ Hold(r, [NoWork EXCEPT !.op = "login", !.account = a])
        /\ Goto(r, "ok")
        /\ UNCHANGED <<tables, now>>
     \/ Answer(r, "rejected")

------------------------------------------------------------------------------
(* Sessions and guards.                                                     *)

HasSession(r) == pc[r] = "ok" /\ work[r].op \in {"verifyAccount", "login"}

\* The user type that a session is signed for: the login of a vendor calls the
\* service's method for super admins.
userType(r) ==
  IF work[r].account \in Vendors /\ work[r].op = "verifyAccount" THEN "VENDOR" ELSE "SUPER_ADMIN"

\* isVerified of either repository: the id of a session is looked up in its table.
isVerified(table, a) == a \in table /\ account[a].verified

\* The guard trusts the user type.
SuperAdminGuardByType(r) == userType(r) = "SUPER_ADMIN"

VerifiedSuperAdminGuard(r) == userType(r) = "SUPER_ADMIN" /\ isVerified(Admins, work[r].account)
VerifiedVendorGuard(r) == userType(r) = "VENDOR" /\ isVerified(Vendors, work[r].account)

------------------------------------------------------------------------------
(* Crashes and time.                                                        *)

\* The process dies: the database rolls back what had not committed.
Crash ==
  /\ \E r \in Requests : pc[r] \in InFlight
  /\ pc' = [r \in Requests |-> IF pc[r] \in InFlight THEN "failed" ELSE pc[r]]
  /\ UNCHANGED <<tables, now, work>>

Tick ==
  /\ now < MaxTime
  /\ now' = now + 1
  /\ UNCHANGED <<tables, pc, work>>

\* A request that has been taken in runs on by itself.
Step(r) ==
  \/ InsertAccount(r)
  \/ InsertVerification(r)
  \/ SelectVerification(r)
  \/ UpdateVerification(r)
  \/ LoadAccount(r)
  \/ SelectAccount(r)
  \/ UpdateAccount(r)
  \/ Commit(r)

Next ==
  \/ \E r \in Requests, a \in Accounts :
       \/ register(r, a)
       \/ \E v \in Verifications : initialize(r, a, v)
       \/ verifyAccount(r, a)
       \/ login(r, a)
  \/ \E r \in Requests : Step(r)
  \/ Crash
  \/ Tick

Spec == Init /\ [][Next]_vars

------------------------------------------------------------------------------
(* Properties.                                                              *)

AccountRow == [version : Nat, verified : BOOLEAN]
VerificationRow ==
  [version : Nat, account : Accounts \cup {NoAccount}, timeOutAfter : Nat, completedAt : Nat]
Work ==
  [op : {"NONE", "register", "initialize", "verifyAccount", "login"},
   account : Accounts \cup {NoAccount}, verification : Verifications \cup {NoVerification},
   entity : VerificationRow, seen : VerificationRow,
   owner : AccountRow, ownerSeen : AccountRow]

\* Types: and a request in a transaction has read both rows it is about.
TypeOK ==
  /\ account \in [Accounts -> AccountRow]
  /\ accountEvents \in SUBSET [aggregateId : Vendors, version : Nat,
                               type : {"VendorAccountCreated", "VendorVerified"}]
  /\ verification \in [Verifications -> VerificationRow]
  /\ verificationEvents \in SUBSET [aggregateId : Verifications, version : Nat,
                                    type : {"VerificationInitialized", "VerificationCompleted"}]
  /\ now \in Nat \ {0}
  /\ pc \in [Requests -> InFlight \cup {"idle", "rejected", "ok", "failed"}]
  /\ work \in [Requests -> Work]
  /\ \A r \in Requests :
       pc[r] \in InTransaction => ~isNew(work[r].entity) /\ ~isNew(work[r].seen)

\* The saga's two aggregates move together: a vendor is verified if and only if
\* a verification of that vendor has been completed, whatever crashed, rolled
\* back or ran in between.
VerifiedByCompletion ==
  \A a \in Vendors :
    account[a].verified <=>
      \E v \in Verifications :
        verification[v].account = a /\ verification[v].completedAt # 0

\* The logs are exactly the histories their rows tell: VendorAccountCreated,
\* then at most one VendorVerified.
VendorVerifiedOnce ==
  accountEvents =
    {Event(a, Created, "VendorAccountCreated") : a \in {b \in Vendors : ~isNew(account[b])}}
      \cup {[aggregateId |-> a, version |-> 2, type |-> "VendorVerified"] :
              a \in {b \in Vendors : account[b].verified}}

\* A verification is completed at most once, although complete() does not look
\* at completedAt: the same OTP, sent twice, at once or later, is refused.
CompletedOnce ==
  \A e, f \in verificationEvents :
    (e.aggregateId = f.aggregateId /\ e.type = f.type) => e = f

\* The guard for accounts of the kind that a request is about.
GuardOfItsKind(r) ==
  IF work[r].account \in Vendors THEN VerifiedVendorGuard(r) ELSE VerifiedSuperAdminGuard(r)

\* A session opens no guard for the other kind of account, whatever it is signed
\* for.  Whoever verifies gets one that opens the account's own, also when save
\* found nothing to write and the saga never ran: the account is verified by then.
SessionFitsItsGuard ==
  \A r \in Requests :
    HasSession(r) =>
      /\ VerifiedSuperAdminGuard(r) => work[r].account \in Admins
      /\ VerifiedVendorGuard(r) => work[r].account \in Vendors
      /\ work[r].op = "verifyAccount" => GuardOfItsKind(r)

\* Stale reads, row locks, partial UPDATEs, rollbacks and crashes together behave
\* as AccountContract: a verification completes in the step that verifies its account.
Status(row) == IF isNew(row) THEN "absent" ELSE IF row.verified THEN "verified" ELSE "unverified"

Contract == INSTANCE AccountContract WITH
  status <- [a \in Accounts |-> Status(account[a])],
  subject <- [v \in Verifications |-> verification[v].account],
  completed <- {v \in Verifications : verification[v].completedAt # 0}

ImplementsContract == Contract!Spec

\* Nobody waits in a circle for the rows of verifications and accounts, and no lock
\* outlives its transaction, committed, rolled back or dead with the process: while
\* requests are in flight, one of them can go on.
SomeRequestGoesOn ==
  (\E r \in Requests : pc[r] \in InFlight) => \E r \in Requests : ENABLED Step(r)

\* vendor.entity.ts: verifying a verified vendor throws ALREADY_VERIFIED, so no
\* verification of that vendor completes any more.
AlreadyVerifiedIsRefused ==
  [][\A v \in Verifications :
       LET a == verification'[v].account
       IN  (verification[v].completedAt = 0 /\ verification'[v].completedAt # 0)
             => ~account[a].verified]_vars

\* README.md: vendors are verified so that they can log in and have their store;
\* so a login opens what is behind the guard of its account's kind.
LoginOpensItsGuard ==
  \A r \in Requests : (HasSession(r) /\ work[r].op = "login") => GuardOfItsKind(r)
==============================================================================
