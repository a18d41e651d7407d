---------------------------- MODULE StoreContract ----------------------------
(***************************************************************************)
(* What the store component promises, as if every request were one         *)
(* indivisible step: a vendor has at most one store; the vendor opens and  *)
(* closes it; the super admin suspends it upon inspection, and a suspended *)
(* store sells again only when the super admin says so.  `decisions`       *)
(* counts the decisions taken on a store, so a decision can neither be     *)
(* lost nor be taken twice in one step.                                    *)
(***************************************************************************)
EXTENDS Naturals

CONSTANTS Stores, Vendors, NoVendor

VARIABLES phase, owner, decisions

vars == <<phase, owner, decisions>>

Init ==
  /\ phase = [s \in Stores |-> "absent"]
  /\ owner = [s \in Stores |-> NoVendor]
  /\ decisions = [s \in Stores |-> 0]

Decide(s, from, to) ==
  /\ phase[s] \in from
  /\ phase' = [phase EXCEPT ![s] = to]
  /\ decisions' = [decisions EXCEPT ![s] = decisions[s] + 1]

Create(s, v) ==
  /\ \A t \in Stores : owner[t] # v
  /\ Decide(s, {"absent"}, "shut")
  /\ owner' = [owner EXCEPT ![s] = v]

VendorOpens(s)  == Decide(s, {"shut"}, "selling") /\ UNCHANGED owner
VendorCloses(s) == Decide(s, {"selling"}, "shut") /\ UNCHANGED owner
AdminSuspends(s) == Decide(s, {"selling", "shut"}, "suspended") /\ UNCHANGED owner
AdminReopens(s) == Decide(s, {"suspended"}, "selling") /\ UNCHANGED owner

Next ==
  \E s \in Stores :
    \/ \E v \in Vendors : Create(s, v)
    \/ VendorOpens(s)
    \/ VendorCloses(s)
    \/ AdminSuspends(s)
    \/ AdminReopens(s)

Spec == Init /\ [][Next]_vars
==============================================================================
