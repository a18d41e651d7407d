--------------------------- MODULE AccountContract ---------------------------
(***************************************************************************)
(* What accounts and their verification promise, as if every request were  *)
(* one indivisible step: an account is registered once; a verification is  *)
(* of one account, which exists; it completes once, and its account is     *)
(* verified in the same step.  Accounts may be there from the start.       *)
(***************************************************************************)
CONSTANTS Accounts, Verifications, NoAccount

VARIABLES
  status,   \* of each account
  subject,  \* the account of each verification
  completed \* the verifications that have completed

vars == <<status, subject, completed>>

Init ==
  /\ status \in [Accounts -> {"absent", "unverified", "verified"}]
  /\ subject = [v \in Verifications |-> NoAccount]
  /\ completed = {}

Register(a) ==
  /\ status[a] = "absent"
  /\ status' = [status EXCEPT ![a] = "unverified"]
  /\ UNCHANGED <<subject, completed>>

Initialize(v, a) ==
  /\ subject[v] = NoAccount /\ status[a] # "absent"
  /\ subject' = [subject EXCEPT ![v] = a]
  /\ UNCHANGED <<status, completed>>

Complete(v) ==
  /\ subject[v] # NoAccount /\ v \notin completed
  /\ completed' = completed \cup {v}
  /\ status' = [status EXCEPT ![subject[v]] = "verified"]
  /\ UNCHANGED subject

Next ==
  \/ \E a \in Accounts : Register(a) \/ \E v \in Verifications : Initialize(v, a)
  \/ \E v \in Verifications : Complete(v)

Spec == Init /\ [][Next]_vars
==============================================================================
