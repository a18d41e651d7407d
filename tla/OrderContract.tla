---------------------------- MODULE OrderContract ----------------------------
(***************************************************************************)
(* What ordering and delivery promise, as if requests and deliveries were  *)
(* indivisible: an order is created, paid with a payment of its own and    *)
(* delivered, each once, and its store and bill never change.  Orders are  *)
(* delivered in batches, and in the step that delivers a batch, and in no  *)
(* other, its vendors earn.  Not all that they should: of a vendor's       *)
(* orders in a batch some may go uncredited, and when other batches have   *)
(* been delivered to its customers before, all of them.                    *)
(***************************************************************************)
EXTENDS Naturals, FiniteSets, FiniteSetsExt

CONSTANTS Orders, Vendors, NoBill, NoPayment, OwnerOf, EarningOf(_)

VARIABLES
  phase,   \* of each order
  bill,    \* [store, totalBill] of each order
  payment, \* the payment of each order
  balance  \* of each vendor

vars == <<phase, bill, payment, balance>>

Init ==
  /\ phase = [o \in Orders |-> "absent"]
  /\ bill = [o \in Orders |-> NoBill]
  /\ payment = [o \in Orders |-> NoPayment]
  /\ balance = [v \in Vendors |-> 0]

Advance(orders, from, to) ==
  /\ \A o \in orders : phase[o] = from
  /\ phase' = [o \in Orders |-> IF o \in orders THEN to ELSE phase[o]]

Create(o) ==
  /\ Advance({o}, "absent", "created")
  /\ bill' = [bill EXCEPT ![o] = bill'[o]] /\ bill'[o] # NoBill
  /\ UNCHANGED <<payment, balance>>

Pay(o) ==
  /\ Advance({o}, "created", "paid")
  /\ payment' = [payment EXCEPT ![o] = payment'[o]]
  /\ payment'[o] # NoPayment /\ \A p \in Orders : payment[p] # payment'[o]
  /\ UNCHANGED <<bill, balance>>

OrdersOf(v, orders) == {o \in orders : OwnerOf[bill[o].store] = v}

HasEarned(v) == OrdersOf(v, {o \in Orders : phase[o] = "delivered"}) # {}

\* What a vendor has got for these orders, or for some of them.
Earns(v, orders) ==
  \E credited \in SUBSET orders :
    /\ orders # {} => credited # {} \/ HasEarned(v)
    /\ balance'[v] = balance[v] + MapThenSumSet(LAMBDA o : EarningOf(bill[o]), credited)

Deliver(orders) ==
  /\ Advance(orders, "paid", "delivered")
  /\ balance' \in [Vendors -> Nat]
  /\ \A v \in Vendors : Earns(v, OrdersOf(v, orders))
  /\ UNCHANGED <<bill, payment>>

Next ==
  \/ \E o \in Orders : Create(o) \/ Pay(o)
  \/ \E orders \in (SUBSET Orders) \ {{}} : Deliver(orders)

Spec == Init /\ [][Next]_vars
==============================================================================
