------------------------ MODULE VendorEarningsProofs ------------------------
(***************************************************************************)
(* What the deliveries of OrderPipeline do to vendors, for any number of   *)
(* jobs, orders and vendors and any size of a batch: their balances, and   *)
(* that the whole implements OrderContract.                                *)
(*                                                                         *)
(* The argument: what a transaction sees of a vendor always follows the    *)
(* log that it sees, with a version per credit.  So the unique constraint  *)
(* lets a saga write only the version that comes next, which it then has   *)
(* made from the row that is still there; and while a transaction has      *)
(* written a vendor, no other can.  What it has added to a balance is the  *)
(* earning of orders whose sagas are done, each once.                      *)
(***************************************************************************)
EXTENDS OrderPipelineProofs

------------------------------------------------------------------------------
(* The inductive invariant.                                                 *)

Amounts == [e \in CreditEvent |-> e.amount]

\* A vendor's row is what its credits make of it, one per version after the second.
Follows(row, credits) ==
  /\ IsFiniteSet(credits) /\ credits \subseteq CreditEvent
  /\ row.version = 2 + Cardinality(credits)
  /\ row.earningBalance = Total(Amounts, credits)
  /\ \A e \in credits : e.version \in 3..row.version
  /\ \A n \in 3..row.version : \E e \in credits : e.version = n

CreditsOf(v) == {e \in vendorEvents : e.aggregateId = v}

\* What the transaction of a job sees of the log.
CreditsSeen(d, v) == {e \in vendorEvents \cup credited[d].events : e.aggregateId = v}

\* Sagas of a vendor's orders that are done, and what the orders of a batch earn.
DoneFor(d, v) == {o \in DOMAIN saga[d] : saga[d][o].at = "done" /\ OwnerOfOrder(d, o) = v}
EarningIn(d) == [o \in DOMAIN batch[d] |-> vendorEarning(batch[d][o])]

\* What a transaction has added to a vendor's balance are earnings of its orders.  When
\* one was not credited, the vendor has been credited for another.
CreditsHeld(d, v) ==
  /\ Follows(VisibleVendor(d, v), CreditsSeen(d, v))
  /\ LocksVendor(d, v) \/ \A e \in credited[d].events : e.aggregateId # v
  /\ \E orders \in SUBSET DoneFor(d, v) :
       /\ LocksVendor(d, v) => orders # {}
       /\ VisibleVendor(d, v).earningBalance =
            vendor[v].earningBalance + Total(EarningIn(d), orders)
  /\ DoneFor(d, v) # {} => VisibleVendor(d, v).version > 2

\* What a saga holds of a vendor was made from the row it would be written over, or is
\* out of date.
CreditMade(state, visible, earning) ==
  state.at \in {"select", "update"} =>
    /\ state.mine.version \in 3..(visible.version + 1)
    /\ state.mine.version = visible.version + 1 =>
         /\ state.mine = VendorCredited(visible, earning)
         /\ state.at = "update" => state.read = visible

SagaHeld(d, o) ==
  CreditMade(saga[d][o], VisibleVendor(d, OwnerOfOrder(d, o)), vendorEarning(batch[d][o]))

JobCredits(d) ==
  /\ InTransaction(d) \/ credited[d] = NothingCredited
  /\ \A v \in Vendors : CreditsHeld(d, v)
  /\ \A o \in DOMAIN saga[d] : SagaHeld(d, o)

\* No vendor is written in two transactions.
VendorsAreLocked ==
  \A d, e \in Jobs : \A v \in Vendors : LocksVendor(d, v) /\ LocksVendor(e, v) => d = e

DeliveredFor(v) == {o \in Orders : hasBeenDelivered(order[o]) /\ OwnerOf[order[o].store] = v}

\* Credits are for orders that have been delivered.
VendorTables ==
  \A v \in Vendors :
    /\ Follows(vendor[v], CreditsOf(v))
    /\ vendor[v].version > 2 => DeliveredFor(v) # {}
    /\ vendor[v].earningBalance <= EarningsOf(v)

OrdersAreFinite == IsFiniteSet({o \in Orders : ~isNew(order[o])})

VInv ==
  OrdersAreFinite /\ VendorTables /\ VendorsAreLocked /\ \A d \in Jobs : JobCredits(d)

------------------------------------------------------------------------------
(* Sums and rows.                                                           *)

\* The credits of a log add up to a sum of a function.
LEMMA AmountsAreTotal ==
  ASSUME NEW S, IsFiniteSet(S), S \subseteq CreditEvent
  PROVE  /\ MapThenSumSet(LAMBDA e : e.amount, S) = Total(Amounts, S)
         /\ Total(Amounts, S) \in Nat
<1> DEFINE Recursion(h) ==
      h = [s \in SUBSET S |-> IF s = {} THEN 0 ELSE Chosen(s).amount + h[s \ {Chosen(s)}]]
           h == CHOOSE i : Recursion(i)
<1>1. MapThenSumSet(LAMBDA e : e.amount, S) = h[S]
  BY DEF MapThenSumSet, MapThenFoldSet, Chosen
<1>2. (\E i : Recursion(i)) => Recursion(h)
  <2> HIDE DEF Recursion
  <2> QED OBVIOUS
<1>3. \A s \in SUBSET S : s # {} => Chosen(s).amount = Amounts[Chosen(s)]
  <2>1. \A s \in SUBSET S : s # {} => Chosen(s) \in CreditEvent
    BY DEF Chosen
  <2> QED BY <2>1 DEF Amounts
<1>4. \A e \in S : Amounts[e] \in Nat
  BY DEF Amounts, CreditEvent
<1> HIDE DEF h
<1>5. ASSUME NEW g,
             g = [s \in SUBSET S |-> IF s = {} THEN 0 ELSE Amounts[Chosen(s)] + g[s \ {Chosen(s)}]]
      PROVE  Recursion(g)
  BY <1>3, <1>5
<1>6. ASSUME Recursion(h)
      PROVE  h = [s \in SUBSET S |->
                    IF s = {} THEN 0 ELSE Amounts[Chosen(s)] + h[s \ {Chosen(s)}]]
  BY <1>3, <1>6
<1> HIDE DEF Recursion
<1>7. IntsOn(Amounts, S)
  BY <1>4 DEF IntsOn
<1>8. Obeys(h, Amounts, SUBSET S)
  BY <1>2, <1>5, <1>6, <1>7, ChosenObeys
<1> QED BY <1>1, <1>4, <1>7, <1>8, TotalObeys, TotalNat

\* So do the earnings of orders.
LEMMA EarningsAreTotal ==
  ASSUME NEW row, NEW S, IsFiniteSet(S), \A o \in S : vendorEarning(row[o]) \in Nat
  PROVE  MapThenSumSet(LAMBDA o : vendorEarning(row[o]), S) =
           Total([o \in S |-> vendorEarning(row[o])], S)
<1> DEFINE f == [o \in S |-> vendorEarning(row[o])]
           Recursion(h) ==
             h = [s \in SUBSET S |->
                    IF s = {} THEN 0 ELSE vendorEarning(row[Chosen(s)]) + h[s \ {Chosen(s)}]]
           h == CHOOSE i : Recursion(i)
<1>1. MapThenSumSet(LAMBDA o : vendorEarning(row[o]), S) = h[S]
  BY DEF MapThenSumSet, MapThenFoldSet, Chosen
<1>2. (\E i : Recursion(i)) => Recursion(h)
  <2> HIDE DEF Recursion
  <2> QED OBVIOUS
<1>3. \A s \in SUBSET S : s # {} => vendorEarning(row[Chosen(s)]) = f[Chosen(s)]
  <2>1. \A s \in SUBSET S : s # {} => Chosen(s) \in S
    BY DEF Chosen
  <2> QED BY <2>1
<1>4. IntsOn(f, S)
  BY DEF IntsOn
<1> HIDE DEF h, f
<1>5. ASSUME NEW g,
             g = [s \in SUBSET S |-> IF s = {} THEN 0 ELSE f[Chosen(s)] + g[s \ {Chosen(s)}]]
      PROVE  Recursion(g)
  BY <1>3, <1>5
<1>6. ASSUME Recursion(h)
      PROVE  h = [s \in SUBSET S |-> IF s = {} THEN 0 ELSE f[Chosen(s)] + h[s \ {Chosen(s)}]]
  BY <1>3, <1>6
<1> HIDE DEF Recursion
<1>7. Obeys(h, f, SUBSET S)
  BY <1>2, <1>4, <1>5, <1>6, ChosenObeys
<1> QED BY <1>1, <1>4, <1>7, TotalObeys DEF f

\* One more credit, made from the row that follows the log.
LEMMA NextCredit ==
  ASSUME NEW row \in VendorRow, NEW credits, Follows(row, credits),
         NEW v \in Vendors, NEW amount \in Nat
  PROVE  LET mine == VendorCredited(row, amount)
             event == VendorEvent(v, mine, amount)
         IN  /\ Follows(mine, credits \cup {event})
             /\ mine.version = row.version + 1 /\ mine.version > 2
<1> DEFINE mine == VendorCredited(row, amount)
           event == VendorEvent(v, mine, amount)
<1>1. mine \in VendorRow /\ mine.version = row.version + 1
      /\ mine.earningBalance = row.earningBalance + amount
  BY CreditedRow
<1>2. IsFiniteSet(credits) /\ credits \subseteq CreditEvent /\ Cardinality(credits) \in Nat
      /\ row.version = 2 + Cardinality(credits)
      /\ row.earningBalance = Total(Amounts, credits)
      /\ (\A e \in credits : e.version \in 3..row.version)
      /\ (\A n \in 3..row.version : \E e \in credits : e.version = n)
  BY FS_CardinalityType DEF Follows
<1> HIDE DEF mine
<1>3. event \in CreditEvent /\ event.version = mine.version /\ event.amount = amount
  BY <1>1 DEF VendorEvent, CreditEvent, VendorRow
<1> HIDE DEF event
<1>4. event \notin credits
  BY <1>1, <1>2, <1>3
<1>5. IsFiniteSet(credits \cup {event})
      /\ Cardinality(credits \cup {event}) = Cardinality(credits) + 1
  BY <1>2, <1>4, FS_AddElement
<1>6. Total(Amounts, credits \cup {event}) = Total(Amounts, credits) + amount
  <2>1. IntsOn(Amounts, credits \cup {event}) /\ Amounts[event] = amount
    BY <1>2, <1>3 DEF IntsOn, Amounts, CreditEvent
  <2>2. IsFiniteSet(credits)
    BY <1>2
  <2>3. Total(Amounts, credits \cup {event}) = Total(Amounts, credits) + Amounts[event]
    BY <1>4, <2>1, <2>2, TotalAdd
  <2> QED BY <2>1, <2>3
<1>7. \A e \in credits \cup {event} : e.version \in 3..mine.version
  BY <1>1, <1>2, <1>3
<1>8. \A n \in 3..mine.version : \E e \in credits \cup {event} : e.version = n
  <2> SUFFICES ASSUME NEW n \in 3..mine.version
               PROVE  \E e \in credits \cup {event} : e.version = n
    OBVIOUS
  <2>1. CASE n = mine.version
    BY <1>3, <2>1
  <2>2. CASE n # mine.version
    <3>1. n \in 3..row.version
      BY <1>1, <1>2, <2>2
    <3> QED BY <1>2, <3>1
  <2> QED BY <2>1, <2>2
<1>9. Follows(mine, credits \cup {event})
  BY <1>1, <1>2, <1>3, <1>5, <1>6, <1>7, <1>8 DEF Follows
<1> QED BY <1>1, <1>2, <1>9 DEF mine, event

\* The version of a row that follows its log.
LEMMA FollowsVersion ==
  ASSUME NEW row, NEW credits, Follows(row, credits)
  PROVE  row.version \in Nat /\ row.version >= 2
         /\ \A n \in 3..row.version : \E e \in credits : e.version = n
  BY FS_CardinalityType DEF Follows

\* Delivered orders are finitely many, and what they earn is a sum of a function.
LEMMA DeliveredEarnings ==
  IInv /\ OrdersAreFinite =>
    \A v \in Vendors :
      /\ IsFiniteSet(DeliveredFor(v))
      /\ \A o \in DeliveredFor(v) : vendorEarning(order[o]) \in Nat
      /\ EarningsOf(v) = Total([o \in DeliveredFor(v) |-> vendorEarning(order[o])], DeliveredFor(v))
<1> SUFFICES ASSUME IInv, OrdersAreFinite, NEW v \in Vendors
             PROVE  /\ IsFiniteSet(DeliveredFor(v))
                    /\ \A o \in DeliveredFor(v) : vendorEarning(order[o]) \in Nat
                    /\ EarningsOf(v) = Total([o \in DeliveredFor(v) |-> vendorEarning(order[o])],
                                             DeliveredFor(v))
  OBVIOUS
<1>1. \A o \in Orders : order[o] \in LegalRow
  BY DEF IInv, Tables
<1>2. \A o \in DeliveredFor(v) : ~isNew(order[o])
  BY <1>1, LegalRowFacts DEF DeliveredFor, hasBeenDelivered, isNew
<1>3. IsFiniteSet(DeliveredFor(v))
  <2>1. DeliveredFor(v) \subseteq {o \in Orders : ~isNew(order[o])}
    BY <1>2 DEF DeliveredFor
  <2> QED BY <2>1, FS_Subset DEF OrdersAreFinite
<1>4. \A o \in DeliveredFor(v) : vendorEarning(order[o]) \in Nat
  BY <1>1, EarningType, LegalRowFacts, RowTypes DEF DeliveredFor
<1> QED BY <1>3, <1>4, EarningsAreTotal DEF EarningsOf, DeliveredFor

\* The same of the next state.
LEMMA DeliveredEarningsNext ==
  (IInv /\ OrdersAreFinite =>
    \A v \in Vendors :
      /\ IsFiniteSet(DeliveredFor(v))
      /\ \A o \in DeliveredFor(v) : vendorEarning(order[o]) \in Nat
      /\ EarningsOf(v) =
           Total([o \in DeliveredFor(v) |-> vendorEarning(order[o])], DeliveredFor(v)))'
  BY DeliveredEarnings, PTL

------------------------------------------------------------------------------
(* Steps that write no vendor.                                              *)

\* As long as no order is delivered, nobody earns.
LEMMA VendorTablesStay ==
  ASSUME IInv, IInv', VInv, OrdersAreFinite', vendor' = vendor, vendorEvents' = vendorEvents,
         \A o \in Orders : /\ hasBeenDelivered(order'[o]) <=> hasBeenDelivered(order[o])
                           /\ hasBeenDelivered(order[o]) => order'[o] = order[o]
  PROVE  VendorTables'
<1> SUFFICES ASSUME NEW v \in Vendors
             PROVE  /\ Follows(vendor[v], CreditsOf(v)')
                    /\ vendor[v].version > 2 => DeliveredFor(v)' # {}
                    /\ vendor[v].earningBalance <= EarningsOf(v)'
  BY DEF VendorTables
<1>1. Follows(vendor[v], CreditsOf(v)) /\ (vendor[v].version > 2 => DeliveredFor(v) # {})
      /\ vendor[v].earningBalance <= EarningsOf(v)
  BY DEF VInv, VendorTables
<1>2. CreditsOf(v)' = CreditsOf(v)
  BY DEF CreditsOf
<1>3. DeliveredFor(v)' = DeliveredFor(v)
  BY DEF DeliveredFor
<1> DEFINE D == DeliveredFor(v)
           f == [o \in D |-> vendorEarning(order[o])]
           g == [o \in D |-> vendorEarning(order'[o])]
<1>4. IsFiniteSet(D) /\ EarningsOf(v) = Total(f, D) /\ \A o \in D : vendorEarning(order[o]) \in Nat
  BY DeliveredEarnings DEF VInv
<1>5. EarningsOf(v)' = Total(g, D)
  BY <1>3, DeliveredEarningsNext
<1>6. f = g
  <2>1. \A o \in D : order'[o] = order[o]
    BY DEF DeliveredFor
  <2> HIDE DEF D
  <2> QED BY <2>1
<1> HIDE DEF D, f, g
<1> QED BY <1>1, <1>2, <1>3, <1>4, <1>5, <1>6 DEF D

\* A job whose transaction has written no vendor.
LEMMA NoCredits ==
  \A d \in Jobs :
    /\ VendorTables /\ (\A v \in Vendors : vendor[v].earningBalance \in Nat)
    /\ credited[d] = NothingCredited /\ \A o \in DOMAIN saga[d] : saga[d][o].at = "load"
    => JobCredits(d) /\ \A v \in Vendors : ~LocksVendor(d, v)
<1> SUFFICES ASSUME NEW d \in Jobs, VendorTables,
                    \A v \in Vendors : vendor[v].earningBalance \in Nat,
                    credited[d] = NothingCredited,
                    \A o \in DOMAIN saga[d] : saga[d][o].at = "load"
             PROVE  JobCredits(d) /\ \A v \in Vendors : ~LocksVendor(d, v)
  OBVIOUS
<1>1. NothingCredited.events = {} /\ \A v \in Vendors : NothingCredited.vendor[v].version = 0
  BY DEF NothingCredited, NoVendorRow
<1> HIDE DEF NothingCredited
<1>2. \A v \in Vendors : ~LocksVendor(d, v) /\ VisibleVendor(d, v) = vendor[v]
  BY <1>1 DEF LocksVendor, isNew, VisibleVendor
<1>3. ASSUME NEW v \in Vendors PROVE CreditsHeld(d, v)
  <2>1. CreditsSeen(d, v) = CreditsOf(v) /\ \A e \in credited[d].events : e.aggregateId # v
    BY <1>1 DEF CreditsSeen, CreditsOf
  <2>2. DoneFor(d, v) = {}
    BY DEF DoneFor
  <2>3. vendor[v].earningBalance = vendor[v].earningBalance + Total(EarningIn(d), {})
    BY TotalEmpty
  <2>4. Follows(vendor[v], CreditsOf(v))
    BY DEF VendorTables
  <2>5. \E orders \in SUBSET DoneFor(d, v) :
          /\ LocksVendor(d, v) => orders # {}
          /\ VisibleVendor(d, v).earningBalance =
               vendor[v].earningBalance + Total(EarningIn(d), orders)
    BY <1>2, <2>2, <2>3
  <2> QED BY <1>2, <2>1, <2>2, <2>4, <2>5 DEF CreditsHeld
<1>4. \A o \in DOMAIN saga[d] : SagaHeld(d, o)
  BY DEF SagaHeld, CreditMade
<1> QED BY <1>2, <1>3, <1>4 DEF JobCredits

LEMMA NoCreditsNext ==
  (\A d \in Jobs :
    /\ VendorTables /\ (\A v \in Vendors : vendor[v].earningBalance \in Nat)
    /\ credited[d] = NothingCredited /\ \A o \in DOMAIN saga[d] : saga[d][o].at = "load"
    => JobCredits(d) /\ \A v \in Vendors : ~LocksVendor(d, v))'
  BY NoCredits, PTL

\* A job that is left alone.
LEMMA CreditsStay ==
  ASSUME NEW d \in Jobs, JobCredits(d), vendor' = vendor, vendorEvents' = vendorEvents,
         credited'[d] = credited[d], saga'[d] = saga[d], batch'[d] = batch[d], job'[d] = job[d]
  PROVE  JobCredits(d)' /\ \A v \in Vendors : LocksVendor(d, v)' = LocksVendor(d, v)
<1>1. \A v \in Vendors : LocksVendor(d, v)' = LocksVendor(d, v)
  BY DEF LocksVendor
<1>2. \A v \in Vendors : VisibleVendor(d, v)' = VisibleVendor(d, v)
  BY <1>1 DEF VisibleVendor, LocksVendor
<1>3. EarningIn(d)' = EarningIn(d)
  BY DEF EarningIn
<1>4. \A o \in DOMAIN saga[d] : OwnerOfOrder(d, o)' = OwnerOfOrder(d, o)
  BY DEF OwnerOfOrder
<1>5. \A v \in Vendors : DoneFor(d, v)' = DoneFor(d, v) /\ CreditsSeen(d, v)' = CreditsSeen(d, v)
  BY <1>4 DEF DoneFor, CreditsSeen
<1>6. ASSUME NEW v \in Vendors PROVE CreditsHeld(d, v)'
  BY <1>1, <1>2, <1>3, <1>5 DEF JobCredits, CreditsHeld
<1>7. ASSUME NEW o \in DOMAIN saga[d] PROVE SagaHeld(d, o)'
  <2>1. VisibleVendor(d, OwnerOfOrder(d, o))' = VisibleVendor(d, OwnerOfOrder(d, o))
    BY <1>4 DEF VisibleVendor, LocksVendor
  <2> QED BY <2>1 DEF JobCredits, SagaHeld
<1> QED BY <1>1, <1>6, <1>7 DEF JobCredits, InTransaction

\* A step that leaves vendors and jobs alone and delivers no order.
LEMMA QuietVInv ==
  ASSUME IInv, IInv', VInv, UNCHANGED deliveryVars,
         \A o \in Orders : /\ hasBeenDelivered(order'[o]) <=> hasBeenDelivered(order[o])
                           /\ hasBeenDelivered(order[o]) => order'[o] = order[o],
         NEW x, \A o \in Orders \ {x} : isNew(order[o]) => isNew(order'[o])
  PROVE  VInv'
<1>1. vendor' = vendor /\ vendorEvents' = vendorEvents /\ job' = job /\ batch' = batch
      /\ saga' = saga /\ credited' = credited
  BY DEF deliveryVars
<1>2. OrdersAreFinite'
  <2> DEFINE old == {o \in Orders : ~isNew(order[o])}
             new == {o \in Orders : ~isNew(order'[o])}
  <2>1. new \subseteq old \cup {x}
    OBVIOUS
  <2>2. IsFiniteSet(old \cup {x})
    BY FS_AddElement DEF VInv, OrdersAreFinite
  <2> HIDE DEF old
  <2>3. IsFiniteSet(new)
    BY <2>1, <2>2, FS_Subset
  <2> QED BY <2>3 DEF OrdersAreFinite
<1>3. VendorTables'
  BY <1>1, <1>2, VendorTablesStay
<1>4. \A d \in Jobs : JobCredits(d)' /\ \A v \in Vendors : LocksVendor(d, v)' = LocksVendor(d, v)
  BY <1>1, CreditsStay DEF VInv
<1>5. VendorsAreLocked'
  BY <1>4 DEF VInv, VendorsAreLocked
<1> QED BY <1>2, <1>3, <1>4, <1>5 DEF VInv

\* Requests.
LEMMA OrderingVInv ==
  ASSUME IInv, IInv', VInv, OrderingNext, UNCHANGED deliveryVars
  PROVE  VInv'
<1>1. PICK r \in Requests :
        \/ \E basket \in Baskets, o \in Orders : orderFood(r, basket, o)
        \/ \E o \in Orders, card \in BOOLEAN : makeOrderPayment(r, o, card)
        \/ OrderingStep(r)
  BY DEF OrderingNext
<1>2. CASE CommitOrder(r)
  <2> DEFINE o == work[r].order
             row == work[r].entity
  <2>1. o \in Orders /\ row \in LegalRow /\ row.version = order[o].version + 1
        /\ row.version \in {1, 2} /\ order' = [order EXCEPT ![o] = row]
    BY <1>2, CommitOrderEffect
  <2>2. order \in [Orders -> OrderRow] /\ order[o] \in LegalRow
    BY <2>1 DEF IInv, TypeOK, OrderTypeOK, Tables
  <2>3. order'[o] = row /\ \A p \in Orders \ {o} : order'[p] = order[p]
    BY <2>1, <2>2
  <2>4. ~hasBeenDelivered(order[o]) /\ ~hasBeenDelivered(row)
    BY <2>1, <2>2, LegalRowFacts DEF hasBeenDelivered
  <2> QED BY <2>3, <2>4, QuietVInv
<1>3. CASE order' = order
  BY <1>3, QuietVInv
<1>4. CommitOrder(r) \/ order' = order
  BY <1>1 DEF orderFood, makeOrderPayment, OrderingStep, PaymentFails, PaymentSucceeds,
     SelectOrder, RollbackOrder, Answer
<1> QED BY <1>2, <1>3, <1>4

\* A step that leaves orders and vendors alone, and of jobs all but those whose
\* transactions have written no vendor.
LEMMA NothingWrittenVInv ==
  ASSUME IInv, IInv', VInv, NEW jobs \in SUBSET Jobs,
         order' = order, vendor' = vendor, vendorEvents' = vendorEvents,
         \A d \in jobs : /\ credited'[d] = NothingCredited
                         /\ \A o \in DOMAIN saga'[d] : saga'[d][o].at = "load",
         \A d \in Jobs \ jobs : /\ credited'[d] = credited[d] /\ saga'[d] = saga[d]
                                /\ batch'[d] = batch[d] /\ job'[d] = job[d]
  PROVE  VInv'
<1>1. OrdersAreFinite'
  BY DEF VInv, OrdersAreFinite
<1>2. VendorTables'
  BY <1>1, VendorTablesStay
<1>3. \A v \in Vendors : vendor'[v].earningBalance \in Nat
  BY DEF IInv, TypeOK, DeliveryTypeOK, VendorRow
<1>4. \A d \in jobs : JobCredits(d)' /\ \A v \in Vendors : ~LocksVendor(d, v)'
  BY <1>2, <1>3, NoCreditsNext
<1>5. \A d \in Jobs \ jobs : /\ JobCredits(d)'
                             /\ \A v \in Vendors : LocksVendor(d, v)' = LocksVendor(d, v)
  BY CreditsStay DEF VInv
<1>6. VendorsAreLocked'
  BY <1>4, <1>5 DEF VInv, VendorsAreLocked
<1> QED BY <1>1, <1>2, <1>4, <1>5, <1>6 DEF VInv

\* Jobs before their transactions, and one that opens it.
LEMMA BeforeTransactionVInv ==
  ASSUME IInv, IInv', VInv, NEW d \in Jobs,
         \/ deliveryNextOrder(d) \/ countPendingDelivery(d) \/ findManyPendingDelivery(d)
         \/ SelectBatch(d) \/ UpdateBatch(d)
  PROVE  VInv'
<1>1. order' = order /\ vendor' = vendor /\ vendorEvents' = vendorEvents
  BY DEF deliveryNextOrder, countPendingDelivery, findManyPendingDelivery, SelectBatch, UpdateBatch
<1>2. job \in [Jobs -> JobLabels] /\ credited[d] = NothingCredited
  <2>1. ~InTransaction(d)
    BY DEF deliveryNextOrder, countPendingDelivery, findManyPendingDelivery, SelectBatch,
       UpdateBatch, AtBatchUpdate, InTransaction
  <2> QED BY <2>1, JobFunctions DEF VInv, JobCredits
<1>3. PICK label \in JobLabels : Become(d, label)
  BY DEF deliveryNextOrder, countPendingDelivery, findManyPendingDelivery, SelectBatch,
     UpdateBatch, JobLabels
<1>4. job'[d] = label /\ \A e \in Jobs \ {d} : job'[e] = job[e]
  BY <1>2, <1>3 DEF Become
<1>5. ASSUME \A e \in Jobs \ {d} : credited'[e] = credited[e] /\ saga'[e] = saga[e] /\ batch'[e] = batch[e],
             credited'[d] = NothingCredited, \A o \in DOMAIN saga'[d] : saga'[d][o].at = "load"
      PROVE  VInv'
  <2> DEFINE jobs == {d}
  <2>1. \A e \in jobs : credited'[e] = NothingCredited
                        /\ \A o \in DOMAIN saga'[e] : saga'[e][o].at = "load"
    BY <1>5
  <2>2. \A e \in Jobs \ jobs : credited'[e] = credited[e] /\ saga'[e] = saga[e]
                               /\ batch'[e] = batch[e] /\ job'[e] = job[e]
    BY <1>4, <1>5
  <2>3. jobs \in SUBSET Jobs
    OBVIOUS
  <2> HIDE DEF jobs
  <2> QED BY <1>1, <2>1, <2>2, <2>3, NothingWrittenVInv
<1>6. CASE UpdateBatch(d)
  <2> DEFINE started == [o \in Changed(d) |-> [at |-> "load"]]
  <2>1. saga' = [saga EXCEPT ![d] = started] /\ batch' = batch /\ credited' = credited
    BY <1>6 DEF UpdateBatch
  <2>2. \A o \in DOMAIN started : started[o].at = "load"
    OBVIOUS
  <2> HIDE DEF started
  <2>3. saga'[d] = started /\ \A e \in Jobs \ {d} : saga'[e] = saga[e]
    BY <2>1, JobFunctions
  <2> QED BY <1>2, <1>5, <2>1, <2>2, <2>3
<1>7. CASE ~UpdateBatch(d)
  <2>1. job'[d] # "sagas"
    <3>1. ~Become(d, "sagas")
      BY <1>2, <1>7 DEF deliveryNextOrder, countPendingDelivery, findManyPendingDelivery,
         SelectBatch, Become
    <3> QED BY <1>3, <1>4, <3>1
  <2>2. DOMAIN saga'[d] = {}
    BY <2>1 DEF IInv, JobMemory, JobHeld, JobDomains, InTransaction
  <2>3. CASE Forget({d})
    <3>1. credited'[d] = NothingCredited
          /\ \A e \in Jobs \ {d} : credited'[e] = credited[e] /\ saga'[e] = saga[e] /\ batch'[e] = batch[e]
      <4> HIDE DEF NothingCredited, None
      <4> QED BY <2>3 DEF Forget
    <3> QED BY <1>5, <2>2, <3>1
  <2>4. CASE ~Forget({d})
    <3>1. credited' = credited /\ saga' = saga
      BY <1>7, <2>4 DEF deliveryNextOrder, countPendingDelivery, findManyPendingDelivery,
         SelectBatch
    <3>2. \A e \in Jobs \ {d} : batch'[e] = batch[e]
      BY <1>7, <2>4, JobFunctions DEF deliveryNextOrder, countPendingDelivery,
         findManyPendingDelivery, SelectBatch
    <3> QED BY <1>2, <1>5, <2>2, <3>1, <3>2
  <2> QED BY <2>3, <2>4
<1> QED BY <1>6, <1>7

\* The process dies.
LEMMA ProcessDiesVInv == ASSUME IInv, IInv', VInv, ProcessDies PROVE VInv'
<1>1. order' = order /\ vendor' = vendor /\ vendorEvents' = vendorEvents /\ Forget(Jobs)
  BY DEF ProcessDies, OrderingDies, DeliveryDies
<1>2. \A d \in Jobs : credited'[d] = NothingCredited /\ saga'[d] = None
  <2> HIDE DEF NothingCredited, None
  <2> QED BY <1>1 DEF Forget
<1>3. DOMAIN None = {}
  BY DEF None
<1> QED BY <1>1, <1>2, <1>3, NothingWrittenVInv

------------------------------------------------------------------------------
(* The sagas of a batch.                                                    *)

\* What one of them earns for its vendor, and what the transaction sees of it.
LEMMA SagaEarning ==
  ASSUME IInv, VInv, NEW d \in Jobs, NEW o \in DOMAIN saga[d]
  PROVE  LET v == OwnerOfOrder(d, o)
         IN  /\ v \in Vendors /\ vendorEarning(batch[d][o]) \in Nat
             /\ EarningIn(d)[o] = vendorEarning(batch[d][o])
             /\ VisibleVendor(d, v) \in VendorRow /\ VisibleVendor(d, v).version >= 2
             /\ CreditsHeld(d, v) /\ SagaHeld(d, o) /\ saga[d][o] \in SagaState
<1>1. OwnerOfOrder(d, o) \in Vendors /\ saga[d][o] \in SagaState /\ o \in DOMAIN batch[d]
      /\ vendorEarning(batch[d][o]) \in Nat
  BY SagaRuns, LegalRowFacts, RowTypes, EarningType
<1>2. VisibleVendor(d, OwnerOfOrder(d, o)) \in VendorRow
  BY <1>1, VisibleVendorType
<1>3. CreditsHeld(d, OwnerOfOrder(d, o)) /\ SagaHeld(d, o)
  BY <1>1 DEF VInv, JobCredits
<1>4. VisibleVendor(d, OwnerOfOrder(d, o)).version >= 2
  BY <1>3, FollowsVersion DEF CreditsHeld
<1> QED BY <1>1, <1>2, <1>3, <1>4 DEF EarningIn

\* The orders of a transaction are finitely many, and each earns a natural number.
LEMMA SagasAreFinite ==
  ASSUME IInv, VInv, NEW d \in Jobs
  PROVE  IsFiniteSet(DOMAIN saga[d]) /\ IntsOn(EarningIn(d), DOMAIN saga[d])
         /\ \A o \in DOMAIN saga[d] : EarningIn(d)[o] \in Nat
<1>1. \A o \in DOMAIN saga[d] : o \in Orders /\ ~isNew(order[o])
  BY SagaRuns DEF DeliveredInto, isNew
<1>2. IsFiniteSet(DOMAIN saga[d])
  <2>1. DOMAIN saga[d] \subseteq {o \in Orders : ~isNew(order[o])}
    BY <1>1
  <2> QED BY <2>1, FS_Subset DEF VInv, OrdersAreFinite
<1>3. \A o \in DOMAIN saga[d] : EarningIn(d)[o] \in Nat
  BY SagaEarning
<1> QED BY <1>2, <1>3 DEF IntsOn

\* A saga that writes nothing, and is done only when its vendor has been credited.
LEMMA SagaTurnsVInv ==
  ASSUME IInv, IInv', VInv, NEW d \in Jobs, NEW o \in DOMAIN saga[d], NEW state,
         saga' = [saga EXCEPT ![d][o] = state], saga[d][o].at # "done",
         UNCHANGED <<order, vendor, vendorEvents, job, batch, credited>>,
         CreditMade(state, VisibleVendor(d, OwnerOfOrder(d, o)), vendorEarning(batch[d][o])),
         state.at = "done" => VisibleVendor(d, OwnerOfOrder(d, o)).version > 2
  PROVE  VInv'
<1>1. OrdersAreFinite' /\ VendorTables'
  <2>1. OrdersAreFinite'
    BY DEF VInv, OrdersAreFinite
  <2> QED BY <2>1, VendorTablesStay
<1>2. saga'[d] = [saga[d] EXCEPT ![o] = state] /\ \A e \in Jobs \ {d} : saga'[e] = saga[e]
  BY JobFunctions
<1>3. DOMAIN saga'[d] = DOMAIN saga[d] /\ saga'[d][o] = state
      /\ \A p \in DOMAIN saga[d] \ {o} : saga'[d][p] = saga[d][p]
  BY <1>2
<1>4. \A e \in Jobs : \A v \in Vendors : LocksVendor(e, v)' = LocksVendor(e, v)
  BY DEF LocksVendor
<1>5. VendorsAreLocked'
  BY <1>4 DEF VInv, VendorsAreLocked
<1>6. ASSUME NEW e \in Jobs \ {d} PROVE JobCredits(e)'
  BY <1>2, CreditsStay DEF VInv
<1>7. /\ \A v : VisibleVendor(d, v)' = VisibleVendor(d, v)
      /\ \A v : CreditsSeen(d, v)' = CreditsSeen(d, v)
      /\ \A p : OwnerOfOrder(d, p)' = OwnerOfOrder(d, p)
      /\ EarningIn(d)' = EarningIn(d)
  BY DEF VisibleVendor, LocksVendor, CreditsSeen, OwnerOfOrder, EarningIn
<1>8. ASSUME NEW v \in Vendors PROVE CreditsHeld(d, v)'
  <2>1. CreditsHeld(d, v)
    BY DEF VInv, JobCredits
  <2>2. DoneFor(d, v) \subseteq DoneFor(d, v)'
        /\ \A p \in DoneFor(d, v)' \ DoneFor(d, v) :
             p = o /\ state.at = "done" /\ v = OwnerOfOrder(d, o)
    BY <1>3, <1>7 DEF DoneFor
  <2>3. \E orders \in SUBSET DoneFor(d, v)' :
          /\ LocksVendor(d, v)' => orders # {}
          /\ VisibleVendor(d, v)'.earningBalance =
               vendor'[v].earningBalance + Total(EarningIn(d)', orders)
    BY <1>4, <1>7, <2>1, <2>2 DEF CreditsHeld
  <2>4. DoneFor(d, v)' # {} => VisibleVendor(d, v)'.version > 2
    BY <1>7, <2>1, <2>2 DEF CreditsHeld
  <2>5. Follows(VisibleVendor(d, v)', CreditsSeen(d, v)')
        /\ (LocksVendor(d, v)' \/ \A e \in credited'[d].events : e.aggregateId # v)
    BY <1>4, <1>7, <2>1 DEF CreditsHeld
  <2> QED BY <2>3, <2>4, <2>5 DEF CreditsHeld
<1>9. ASSUME NEW p \in DOMAIN saga[d] PROVE SagaHeld(d, p)'
  <2>1. SagaHeld(d, p)
    BY DEF VInv, JobCredits
  <2>2. CASE p = o
    BY <1>3, <1>7, <2>2 DEF SagaHeld
  <2>3. CASE p # o
    BY <1>3, <1>7, <2>1, <2>3 DEF SagaHeld
  <2> QED BY <2>2, <2>3
<1>10. JobCredits(d)'
  BY <1>3, <1>8, <1>9 DEF VInv, JobCredits, InTransaction
<1> QED BY <1>1, <1>5, <1>6, <1>10 DEF VInv

\* The saga of an order loads its vendor and credits it in memory.
LEMMA LoadVendorVInv ==
  ASSUME IInv, IInv', VInv, NEW d \in Jobs, NEW o \in DOMAIN saga[d], LoadVendor(d, o)
  PROVE  VInv'
<1> DEFINE read == VisibleVendor(d, OwnerOfOrder(d, o))
           earning == vendorEarning(batch[d][o])
           mine == VendorCredited(read, earning)
           state == [at |-> "select", mine |-> mine]
<1>1. saga[d][o].at = "load" /\ saga' = [saga EXCEPT ![d][o] = state]
      /\ UNCHANGED <<order, vendor, vendorEvents, job, batch, credited>>
  BY DEF LoadVendor
<1>2. read \in VendorRow /\ read.version >= 2 /\ earning \in Nat
  BY SagaEarning
<1>3. mine.version = read.version + 1
  BY <1>2, CreditedRow
<1>4. CreditMade(state, read, earning)
  <2>1. state.at = "select" /\ state.mine = mine
    OBVIOUS
  <2>2. mine.version \in 3..(read.version + 1)
    BY <1>2, <1>3 DEF VendorRow
  <2> HIDE DEF state, read, earning
  <2> QED BY <2>1, <2>2 DEF CreditMade
<1>5. state.at = "select"
  OBVIOUS
<1> HIDE DEF state
<1> QED BY <1>1, <1>4, <1>5, SagaTurnsVInv

\* It reads the vendor again; when others have made the same of it, it writes nothing.
LEMMA SelectVendorVInv ==
  ASSUME IInv, IInv', VInv, NEW d \in Jobs, NEW o \in DOMAIN saga[d], SelectVendor(d, o)
  PROVE  VInv'
<1> DEFINE read == VisibleVendor(d, OwnerOfOrder(d, o))
           earning == vendorEarning(batch[d][o])
           mine == saga[d][o].mine
           update == [at |-> "update", mine |-> mine, read |-> read]
           state == IF mine = read THEN [at |-> "done"] ELSE update
<1>1. saga[d][o].at = "select" /\ saga' = [saga EXCEPT ![d][o] = state]
      /\ UNCHANGED <<order, vendor, vendorEvents, job, batch, credited>>
  BY DEF SelectVendor
<1>2. SagaHeld(d, o) /\ read \in VendorRow /\ read.version >= 2
  BY SagaEarning
<1>3. mine.version \in 3..(read.version + 1)
      /\ (mine.version = read.version + 1 => mine = VendorCredited(read, earning))
  BY <1>1, <1>2 DEF SagaHeld, CreditMade
<1> HIDE DEF read, earning, mine
<1>4. CASE mine = read
  <2>1. state.at = "done" /\ read.version > 2
    BY <1>2, <1>3, <1>4 DEF VendorRow
  <2> HIDE DEF state
  <2>2. CreditMade(state, read, earning)
    BY <2>1 DEF CreditMade
  <2> QED BY <1>1, <2>1, <2>2, SagaTurnsVInv DEF read, earning
<1>5. CASE mine # read
  <2>1. state.at = "update" /\ state.mine = mine /\ state.read = read
    BY <1>5
  <2> HIDE DEF state
  <2>2. CreditMade(state, read, earning)
    BY <1>3, <2>1 DEF CreditMade
  <2> QED BY <1>1, <2>1, <2>2, SagaTurnsVInv DEF read, earning
<1> QED BY <1>4, <1>5

\* What it writes is made from the row that the transaction sees, in the next version.
LEMMA UpdateVendorEffect ==
  ASSUME IInv, VInv, NEW d \in Jobs, NEW o \in DOMAIN saga[d], UpdateVendor(d, o)
  PROVE  LET v == OwnerOfOrder(d, o)
             visible == VisibleVendor(d, v)
             mine == VendorCredited(visible, vendorEarning(batch[d][o]))
             event == VendorEvent(v, mine, vendorEarning(batch[d][o]))
         IN  /\ saga[d][o].at = "update" /\ mine \in VendorRow /\ event \in CreditEvent
             /\ credited' = [credited EXCEPT ![d].vendor[v] = mine, ![d].events = @ \cup {event}]
<1> DEFINE v == OwnerOfOrder(d, o)
           visible == VisibleVendor(d, v)
           earning == vendorEarning(batch[d][o])
           held == saga[d][o].mine
           read == saga[d][o].read
           row == MergedVendor(held, read, visible)
<1>1. saga[d][o].at = "update" /\ ~CreditRefused(d, o)
      /\ credited' = [credited EXCEPT ![d].vendor[v] = row,
                        ![d].events = @ \cup {VendorEvent(v, held, earning)}]
  BY DEF UpdateVendor, AtVendorUpdate
<1>2. v \in Vendors /\ earning \in Nat /\ visible \in VendorRow
      /\ CreditsHeld(d, v) /\ SagaHeld(d, o)
  BY SagaEarning
<1>3. held.version \in 3..(visible.version + 1)
      /\ (held.version = visible.version + 1 =>
            held = VendorCredited(visible, earning) /\ read = visible)
  BY <1>1, <1>2 DEF SagaHeld, CreditMade
<1>4. held.version = visible.version + 1
  <2>1. \A e \in CreditsSeen(d, v) : e.version # held.version
    BY <1>1 DEF CreditRefused, VersionTaken, CreditsSeen
  <2>2. \A n \in 3..visible.version : \E e \in CreditsSeen(d, v) : e.version = n
    BY <1>2 DEF CreditsHeld, Follows
  <2>3. visible.version \in Nat
    BY <1>2 DEF VendorRow
  <2> HIDE DEF held, visible
  <2>4. held.version \notin 3..visible.version
    BY <2>1, <2>2
  <2> QED BY <1>3, <2>3, <2>4
<1>5. held = VendorCredited(visible, earning) /\ read = visible
  BY <1>3, <1>4
<1> HIDE DEF visible, earning, v, held, read
<1>6. held \in VendorRow
  BY <1>2, <1>5, CreditedRow
<1>7. row = held
  BY <1>2, <1>5, <1>6 DEF MergedVendor, Written, VendorRow
<1>8. VendorEvent(v, held, earning) \in CreditEvent
  BY <1>2, <1>6 DEF VendorEvent, CreditEvent, VendorRow
<1> QED BY <1>1, <1>5, <1>6, <1>7, <1>8 DEF visible, earning, v

\* The credit of one more order.
LEMMA UpdateVendorVInv ==
  ASSUME IInv, IInv', VInv, NEW d \in Jobs, NEW o \in DOMAIN saga[d], UpdateVendor(d, o)
  PROVE  VInv'
<1>0. PICK v \in Vendors : v = OwnerOfOrder(d, o)
  BY SagaEarning
<1> DEFINE visible == VisibleVendor(d, v)
           earning == vendorEarning(batch[d][o])
           mine == VendorCredited(visible, earning)
           event == VendorEvent(v, mine, earning)
           done == [at |-> "done"]
<1>1. saga' = [saga EXCEPT ![d][o] = done] /\ ~VendorLocked(d, v)
      /\ UNCHANGED <<order, vendor, vendorEvents, job, batch>>
  BY <1>0 DEF UpdateVendor, AtVendorUpdate
<1>2. v \in Vendors /\ earning \in Nat /\ EarningIn(d)[o] = earning
      /\ visible \in VendorRow /\ visible.version >= 2 /\ CreditsHeld(d, v)
  BY <1>0, SagaEarning
<1>3. saga[d][o].at = "update" /\ mine \in VendorRow /\ event \in CreditEvent
      /\ credited' = [credited EXCEPT ![d].vendor[v] = mine, ![d].events = @ \cup {event}]
  BY <1>0, UpdateVendorEffect
<1>4. Follows(mine, CreditsSeen(d, v) \cup {event}) /\ mine.version = visible.version + 1
      /\ mine.version > 2 /\ mine.earningBalance = visible.earningBalance + earning
      /\ event.aggregateId = v
  <2>1. Follows(visible, CreditsSeen(d, v))
    BY <1>2 DEF CreditsHeld
  <2>2. event.aggregateId = v
    BY DEF VendorEvent
  <2> HIDE DEF visible, earning
  <2> QED BY <1>2, <2>1, <2>2, NextCredit, CreditedRow
<1>5. done.at = "done"
  OBVIOUS
<1> HIDE DEF earning, mine, event, done
<1>6. /\ credited'[d].vendor[v] = mine
      /\ \A w \in Vendors \ {v} : credited'[d].vendor[w] = credited[d].vendor[w]
      /\ credited'[d].events = credited[d].events \cup {event}
      /\ \A e \in Jobs \ {d} : credited'[e] = credited[e]
    <2>1. credited \in [Jobs -> [vendor : [Vendors -> VendorRow], events : SUBSET CreditEvent]]
    BY JobFunctions
  <2>2. mine \in VendorRow /\ event \in CreditEvent
    BY <1>3
  <2>3. credited' = [credited EXCEPT ![d].vendor[v] = mine, ![d].events = @ \cup {event}]
    BY <1>3, Zenon
  <2>4. WritesCredit(d, v, mine, event)
    BY <2>1, <2>2, <2>3, CreditWritten
  <2> QED BY <2>4 DEF WritesCredit
<1>7. OrdersAreFinite' /\ VendorTables'
  <2>1. OrdersAreFinite'
    BY <1>1 DEF VInv, OrdersAreFinite
  <2> QED BY <1>1, <2>1, VendorTablesStay
<1>8. saga'[d] = [saga[d] EXCEPT ![o] = done] /\ \A e \in Jobs \ {d} : saga'[e] = saga[e]
  BY <1>1, JobFunctions
<1>9. DOMAIN saga'[d] = DOMAIN saga[d] /\ saga'[d][o] = done
      /\ \A p \in DOMAIN saga[d] \ {o} : saga'[d][p] = saga[d][p]
  BY <1>8
<1>10. \A e \in Jobs \ {d} : JobCredits(e)' /\ \A w \in Vendors : LocksVendor(e, w)' = LocksVendor(e, w)
  BY <1>1, <1>6, <1>8, CreditsStay DEF VInv
<1>11. LocksVendor(d, v)' /\ \A w \in Vendors \ {v} : LocksVendor(d, w)' = LocksVendor(d, w)
  BY <1>4, <1>6 DEF LocksVendor, isNew
<1>12. VendorsAreLocked'
  <2>1. \A e \in Jobs \ {d} : ~LocksVendor(e, v)
    BY <1>1 DEF VendorLocked
  <2>2. \A e, f \in Jobs : \A w \in Vendors : LocksVendor(e, w)' /\ LocksVendor(f, w)' => e = f
    <3> SUFFICES ASSUME NEW e \in Jobs, NEW f \in Jobs, NEW w \in Vendors,
                        LocksVendor(e, w)', LocksVendor(f, w)', e # f
                 PROVE  FALSE
      OBVIOUS
    <3>1. CASE w = v
      <4>1. (e # d /\ LocksVendor(e, v)) \/ (f # d /\ LocksVendor(f, v))
        BY <1>10, <3>1
      <4> QED BY <2>1, <4>1
    <3>2. CASE w # v
      <4>1. LocksVendor(e, w) /\ LocksVendor(f, w)
        BY <1>10, <1>11, <3>2
      <4> QED BY <4>1 DEF VInv, VendorsAreLocked
    <3> QED BY <3>1, <3>2
  <2> QED BY <2>2 DEF VendorsAreLocked
<1>13. VisibleVendor(d, v)' = mine
       /\ \A w \in Vendors \ {v} : VisibleVendor(d, w)' = VisibleVendor(d, w)
  BY <1>1, <1>6, <1>11 DEF VisibleVendor
<1>14. CreditsSeen(d, v)' = CreditsSeen(d, v) \cup {event}
       /\ \A w \in Vendors \ {v} : CreditsSeen(d, w)' = CreditsSeen(d, w)
  BY <1>1, <1>4, <1>6 DEF CreditsSeen
<1>15. EarningIn(d)' = EarningIn(d) /\ \A p : OwnerOfOrder(d, p)' = OwnerOfOrder(d, p)
  BY <1>1 DEF EarningIn, OwnerOfOrder
<1>16. DoneFor(d, v)' = DoneFor(d, v) \cup {o} /\ o \notin DoneFor(d, v)
       /\ \A w \in Vendors \ {v} : DoneFor(d, w)' = DoneFor(d, w)
  BY <1>0, <1>3, <1>5, <1>9, <1>15 DEF DoneFor
<1>17. CreditsHeld(d, v)'
  <2>1. PICK orders \in SUBSET DoneFor(d, v) :
          visible.earningBalance = vendor[v].earningBalance + Total(EarningIn(d), orders)
    BY <1>2 DEF CreditsHeld
  <2>2. orders \subseteq DOMAIN saga[d] /\ o \notin orders
    BY <1>16 DEF DoneFor
  <2>3. IsFiniteSet(orders) /\ IntsOn(EarningIn(d), orders \cup {o})
        /\ \A p \in orders : EarningIn(d)[p] \in Nat
    BY <2>2, SagasAreFinite, FS_Subset DEF IntsOn
  <2>4. Total(EarningIn(d), orders \cup {o}) = Total(EarningIn(d), orders) + earning
    BY <1>2, <2>2, <2>3, TotalAdd
  <2>5. Total(EarningIn(d), orders) \in Nat
    BY <2>3, TotalNat
  <2>6. vendor[v].earningBalance \in Nat
    BY <1>2, JobFunctions DEF VendorRow
  <2>7. mine.earningBalance = vendor[v].earningBalance + Total(EarningIn(d), orders \cup {o})
    BY <1>2, <1>4, <2>1, <2>4, <2>5, <2>6
  <2> DEFINE more == orders \cup {o}
  <2>8. more \in SUBSET DoneFor(d, v)' /\ more # {}
    BY <1>16
  <2> HIDE DEF more
  <2>9. VisibleVendor(d, v)'.earningBalance = vendor'[v].earningBalance + Total(EarningIn(d)', more)
    BY <1>1, <1>13, <1>15, <2>7 DEF more
  <2> QED BY <1>4, <1>11, <1>13, <1>14, <2>8, <2>9 DEF CreditsHeld
<1>18. ASSUME NEW w \in Vendors \ {v} PROVE CreditsHeld(d, w)'
  <2>1. CreditsHeld(d, w)
    BY DEF VInv, JobCredits
  <2>2. \A e \in {event} : e.aggregateId # w
    BY <1>4
  <2> QED BY <1>1, <1>6, <1>11, <1>13, <1>14, <1>15, <1>16, <2>1, <2>2 DEF CreditsHeld
<1>19. ASSUME NEW p \in DOMAIN saga[d] PROVE SagaHeld(d, p)'
  <2>1. SagaHeld(d, p) /\ OwnerOfOrder(d, p) \in Vendors /\ saga[d][p] \in SagaState
    BY SagaEarning
  <2>2. CASE p = o
    BY <1>5, <1>9, <2>2 DEF SagaHeld, CreditMade
  <2>3. CASE p # o /\ OwnerOfOrder(d, p) = v
    <3> DEFINE state == saga[d][p]
    <3>1. state.at \in {"select", "update"} =>
            state.mine.version \in 3..(mine.version + 1) /\ state.mine.version # mine.version + 1
      BY <1>2, <1>4, <2>1, <2>3 DEF SagaHeld, CreditMade, VendorRow
    <3>2. saga'[d][p] = state
      BY <1>9, <2>3
    <3>3. VisibleVendor(d, OwnerOfOrder(d, p))' = mine
      BY <1>13, <1>15, <2>3
    <3> HIDE DEF state
    <3> QED BY <3>1, <3>2, <3>3 DEF SagaHeld, CreditMade
  <2>4. CASE p # o /\ OwnerOfOrder(d, p) # v
    <3>1. VisibleVendor(d, OwnerOfOrder(d, p))' = VisibleVendor(d, OwnerOfOrder(d, p))
      BY <1>13, <1>15, <2>1, <2>4
    <3>2. saga'[d][p] = saga[d][p] /\ batch'[d][p] = batch[d][p]
      BY <1>1, <1>9, <2>4
    <3> QED BY <2>1, <3>1, <3>2 DEF SagaHeld
  <2> QED BY <2>2, <2>3, <2>4
<1>20. InTransaction(d)'
  BY <1>1, SagaRuns DEF InTransaction
<1>21. JobCredits(d)'
  <2>1. \A w \in Vendors : CreditsHeld(d, w)'
    BY <1>17, <1>18
    <2> QED BY <1>9, <1>19, <1>20, <2>1 DEF JobCredits
<1> QED BY <1>7, <1>10, <1>12, <1>21 DEF VInv

------------------------------------------------------------------------------
(* The commit of a batch.                                                   *)

\* A row that follows a longer log is a later one.
LEMMA LongerLog ==
  ASSUME NEW old \in VendorRow, NEW new \in VendorRow, NEW T, NEW S \in SUBSET T,
         Follows(old, S), Follows(new, T)
  PROVE  new.version >= old.version /\ (new.version = old.version => new = old)
<1>1. Cardinality(S) \in Nat /\ Cardinality(T) \in Nat /\ Cardinality(S) <= Cardinality(T)
      /\ (Cardinality(S) = Cardinality(T) => S = T)
  BY FS_CardinalityType, FS_Subset DEF Follows
<1>2. old.version = 2 + Cardinality(S) /\ old.earningBalance = Total(Amounts, S)
      /\ new.version = 2 + Cardinality(T) /\ new.earningBalance = Total(Amounts, T)
  BY DEF Follows
<1>3. ASSUME new.version = old.version PROVE new = old
  <2>1. S = T
    BY <1>1, <1>2, <1>3
  <2>2. new.earningBalance = old.earningBalance
    BY <1>2, <2>1
  <2> QED BY <1>3, <2>2 DEF VendorRow
<1> QED BY <1>1, <1>2, <1>3

\* What the job commits, and what it forgets.
LEMMA CommitBatchCredits ==
  ASSUME IInv, NEW d \in Jobs, CommitBatch(d)
  PROVE  /\ \A v \in Vendors : vendor'[v] = VisibleVendor(d, v)
         /\ vendorEvents' = vendorEvents \cup credited[d].events
         /\ credited'[d] = NothingCredited /\ DOMAIN saga'[d] = {}
         /\ DOMAIN saga[d] = Changed(d) /\ \A o \in Changed(d) : saga[d][o].at = "done"
         /\ \A e \in Jobs \ {d} : /\ credited'[e] = credited[e] /\ saga'[e] = saga[e]
                                  /\ batch'[e] = batch[e] /\ job'[e] = job[e]
<1>1. vendor' = [v \in Vendors |-> VisibleVendor(d, v)] /\ InTransaction(d) /\ SagasDone(d)
      /\ vendorEvents' = vendorEvents \cup credited[d].events
      /\ Become(d, "find") /\ Forget({d})
  BY DEF CommitBatch
<1>2. DOMAIN saga[d] = Changed(d)
  BY <1>1, JobTypes DEF JobHeld, JobDomains
<1>3. \A e \in Jobs \ {d} : job'[e] = job[e]
  BY <1>1, JobFunctions DEF Become
<1>4. /\ credited'[d] = NothingCredited /\ saga'[d] = None
      /\ \A e \in Jobs \ {d} : credited'[e] = credited[e] /\ saga'[e] = saga[e]
                               /\ batch'[e] = batch[e]
  <2> HIDE DEF NothingCredited, None
  <2> QED BY <1>1 DEF Forget
<1>5. DOMAIN None = {}
  BY DEF None
<1> QED BY <1>1, <1>2, <1>3, <1>4, <1>5 DEF SagasDone

\* Whose earnings become due, and how much they are.
LEMMA DeliveredInBatch ==
  ASSUME IInv, IInv', VInv, OrdersAreFinite', NEW d \in Jobs, CommitBatch(d), NEW v \in Vendors
  PROVE  /\ DeliveredFor(v)' = DeliveredFor(v) \cup DoneFor(d, v)
         /\ EarningsOf(v)' = EarningsOf(v) + Total(EarningIn(d), DoneFor(d, v))
<1> DEFINE D == DeliveredFor(v)
           C == DoneFor(d, v)
           f == [o \in D |-> vendorEarning(order[o])]
           g == [o \in D \cup C |-> vendorEarning(order'[o])]
           h == EarningIn(d)
<1>1. /\ Changed(d) \subseteq Orders /\ Changed(d) \subseteq DOMAIN batch[d]
      /\ \A o \in Changed(d) : order'[o] = batch[d][o] /\ order[o].version = 2
                               /\ order'[o].version = 3 /\ order'[o] \in LegalRow
      /\ \A o \in Orders \ Changed(d) : order'[o] = order[o]
  BY CommitBatchEffect
<1>2. C = {o \in Changed(d) : OwnerOfOrder(d, o) = v}
  BY CommitBatchCredits DEF DoneFor
<1>3. \A o \in Changed(d) : hasBeenDelivered(order'[o]) /\ ~hasBeenDelivered(order[o])
  <2>1. \A o \in Orders : order[o] \in LegalRow
    BY DEF IInv, Tables
  <2> QED BY <1>1, <2>1, LegalRowFacts DEF hasBeenDelivered
<1>4. DeliveredFor(v)' = D \cup C /\ D \cap C = {}
  BY <1>1, <1>2, <1>3 DEF DeliveredFor, OwnerOfOrder
<1>5. IsFiniteSet(D) /\ EarningsOf(v) = Total(f, D)
      /\ \A o \in D : vendorEarning(order[o]) \in Nat
  BY DeliveredEarnings DEF VInv
<1>6. EarningsOf(v)' = Total(g, D \cup C) /\ \A o \in D \cup C : vendorEarning(order'[o]) \in Nat
  <2>1. DeliveredFor(v)' = D \cup C
    BY <1>4
  <2> HIDE DEF D, C
  <2> QED BY <2>1, DeliveredEarningsNext
<1>7. IsFiniteSet(C) /\ IntsOn(h, C)
  <2>1. C \subseteq DOMAIN saga[d]
    BY DEF DoneFor
  <2> HIDE DEF C, h
  <2> QED BY <2>1, SagasAreFinite, FS_Subset DEF IntsOn, h
<1>8. \A o \in D : f[o] = g[o] /\ f[o] \in Int
  <2>1. \A o \in D : order'[o] = order[o]
    BY <1>1, <1>3 DEF DeliveredFor
  <2> HIDE DEF D, C
  <2> QED BY <1>5, <2>1
<1>9. \A o \in C : h[o] = g[o]
  <2>1. \A o \in C : o \in DOMAIN batch[d] /\ order'[o] = batch[d][o]
    BY <1>1, <1>2
  <2> HIDE DEF D, C
  <2> QED BY <2>1 DEF EarningIn
<1>10. IntsOn(g, D) /\ IntsOn(g, C) /\ IntsOn(f, D)
  BY <1>7, <1>8, <1>9 DEF IntsOn
<1> HIDE DEF D, C, f, g, h
<1>11. Total(g, D \cup C) = Total(g, D) + Total(g, C)
  BY <1>4, <1>5, <1>7, <1>10, TotalUnion
<1>12. Total(f, D) = Total(g, D)
  BY <1>5, <1>8, <1>10, TotalSame
<1>13. Total(h, C) = Total(g, C)
  BY <1>7, <1>9, TotalSame
<1>14. EarningsOf(v)' = EarningsOf(v) + Total(h, C)
  BY <1>5, <1>6, <1>11, <1>12, <1>13
<1> QED BY <1>4, <1>14 DEF D, C, h

\* The tables after it: the vendors have got no more than is due by now.
LEMMA CommitBatchTables ==
  ASSUME IInv, IInv', VInv, NEW d \in Jobs, CommitBatch(d)
  PROVE  OrdersAreFinite' /\ VendorTables'
<1>1. OrdersAreFinite'
  <2>1. \A o \in Orders : isNew(order'[o]) <=> isNew(order[o])
    BY CommitBatchEffect DEF isNew
  <2> QED BY <2>1 DEF VInv, OrdersAreFinite
<1>2. ASSUME NEW v \in Vendors
      PROVE  /\ Follows(vendor'[v], CreditsOf(v)')
             /\ vendor'[v].version > 2 => DeliveredFor(v)' # {}
             /\ vendor'[v].earningBalance <= EarningsOf(v)'
  <2> DEFINE C == DoneFor(d, v)
             h == EarningIn(d)
  <2>1. CreditsHeld(d, v) /\ (vendor[v].version > 2 => DeliveredFor(v) # {})
        /\ vendor[v].earningBalance <= EarningsOf(v)
    BY DEF VInv, JobCredits, VendorTables
  <2>2. vendor'[v] = VisibleVendor(d, v) /\ CreditsOf(v)' = CreditsSeen(d, v)
    BY CommitBatchCredits DEF CreditsOf, CreditsSeen
  <2>3. DeliveredFor(v)' = DeliveredFor(v) \cup C /\ EarningsOf(v)' = EarningsOf(v) + Total(h, C)
    BY <1>1, DeliveredInBatch
  <2>4. PICK orders \in SUBSET C :
          /\ LocksVendor(d, v) => orders # {}
          /\ VisibleVendor(d, v).earningBalance = vendor[v].earningBalance + Total(h, orders)
    BY <2>1 DEF CreditsHeld
  <2>5. IsFiniteSet(C) /\ \A o \in C : h[o] \in Nat
    <3>1. C \subseteq DOMAIN saga[d]
      BY DEF DoneFor
    <3> HIDE DEF C
    <3> QED BY <3>1, SagasAreFinite, FS_Subset
  <2>6. vendor[v].earningBalance \in Nat /\ EarningsOf(v) \in Nat
    <3>1. vendor[v].earningBalance \in Nat
      BY JobFunctions DEF VendorRow
    <3>2. EarningsOf(v) \in Nat
      <4> DEFINE D == DeliveredFor(v)
                 f == [o \in D |-> vendorEarning(order[o])]
      <4>1. IsFiniteSet(D) /\ EarningsOf(v) = Total(f, D) /\ \A o \in D : f[o] \in Nat
        BY DeliveredEarnings DEF VInv
      <4> HIDE DEF D, f
      <4> QED BY <4>1, TotalNat
    <3> QED BY <3>1, <3>2
  <2> HIDE DEF C, h
  <2>7. Total(h, orders) <= Total(h, C) /\ Total(h, C) \in Nat /\ Total(h, orders) \in Nat
    <3>1. IsFiniteSet(orders) /\ \A o \in orders : h[o] \in Nat
      BY <2>5, FS_Subset
    <3> QED BY <2>5, <3>1, TotalMonotone, TotalNat
  <2>8. vendor'[v].earningBalance <= EarningsOf(v)'
    BY <2>1, <2>2, <2>3, <2>4, <2>6, <2>7
  <2>9. vendor'[v].version > 2 => DeliveredFor(v)' # {}
    BY <2>1, <2>2, <2>3, <2>4 DEF VisibleVendor
  <2>10. Follows(vendor'[v], CreditsOf(v)')
    BY <2>1, <2>2 DEF CreditsHeld
  <2> QED BY <2>8, <2>9, <2>10
<1> QED BY <1>1, <1>2 DEF VendorTables

\* What the other jobs see of it: a vendor it has not credited is as before, and one
\* that it has credited is one they have not.
LEMMA CommitSeen ==
  ASSUME IInv, IInv', VInv, VendorTables', NEW d \in Jobs, CommitBatch(d),
         NEW e \in Jobs \ {d}, NEW v \in Vendors
  PROVE  LET old == VisibleVendor(e, v)
             new == VisibleVendor(e, v)'
         IN  /\ CreditsHeld(e, v)'
             /\ LocksVendor(e, v)' = LocksVendor(e, v)
             /\ old \in VendorRow /\ new \in VendorRow
             /\ new.version >= old.version /\ (new.version = old.version => new = old)
<1>1. vendor'[v] = VisibleVendor(d, v) /\ vendorEvents' = vendorEvents \cup credited[d].events
      /\ credited'[e] = credited[e] /\ saga'[e] = saga[e] /\ batch'[e] = batch[e]
  BY CommitBatchCredits
<1>2. CreditsHeld(d, v) /\ CreditsHeld(e, v)
  BY DEF VInv, JobCredits
<1>3. LocksVendor(e, v)' = LocksVendor(e, v)
  BY <1>1 DEF LocksVendor
<1>4. EarningIn(e)' = EarningIn(e) /\ DoneFor(e, v)' = DoneFor(e, v)
  BY <1>1 DEF EarningIn, DoneFor, OwnerOfOrder
<1>5. /\ VisibleVendor(e, v) \in VendorRow /\ VisibleVendor(d, v) \in VendorRow
      /\ vendor[v] \in VendorRow /\ vendor'[v] \in VendorRow
  BY <1>1, VisibleVendorType, JobFunctions
<1>6. CASE LocksVendor(d, v)
  <2>1. ~LocksVendor(e, v) /\ ~LocksVendor(e, v)'
    BY <1>3, <1>6 DEF VInv, VendorsAreLocked
  <2>2. VisibleVendor(e, v) = vendor[v] /\ VisibleVendor(e, v)' = vendor'[v]
    BY <2>1 DEF VisibleVendor
  <2>3. \A c \in credited[e].events : c.aggregateId # v
    BY <1>2, <2>1 DEF CreditsHeld
  <2>4. CreditsSeen(e, v)' = CreditsOf(v)'
    BY <1>1, <2>3 DEF CreditsSeen, CreditsOf
  <2>5. Follows(vendor'[v], CreditsOf(v)') /\ Follows(vendor[v], CreditsOf(v))
    BY DEF VendorTables, VInv
  <2>6. CreditsOf(v) \in SUBSET CreditsOf(v)'
    BY <1>1 DEF CreditsOf
  <2>7. vendor'[v].version >= vendor[v].version
        /\ (vendor'[v].version = vendor[v].version => vendor'[v] = vendor[v])
    BY <1>5, <2>5, <2>6, LongerLog
  <2>8. vendor'[v].version > 2
    BY <1>1, <1>2, <1>6 DEF CreditsHeld
  <2>9. vendor'[v].earningBalance = vendor'[v].earningBalance + Total(EarningIn(e)', {})
    BY <1>5, TotalEmpty DEF VendorRow
  <2>10. \E orders \in SUBSET DoneFor(e, v)' :
           /\ LocksVendor(e, v)' => orders # {}
           /\ VisibleVendor(e, v)'.earningBalance =
                vendor'[v].earningBalance + Total(EarningIn(e)', orders)
    BY <2>1, <2>2, <2>9
  <2>11. CreditsHeld(e, v)'
    BY <1>1, <2>2, <2>3, <2>4, <2>5, <2>8, <2>10 DEF CreditsHeld
  <2> QED BY <1>3, <1>5, <2>2, <2>7, <2>11
<1>7. CASE ~LocksVendor(d, v)
  <2>1. vendor'[v] = vendor[v] /\ \A c \in credited[d].events : c.aggregateId # v
    BY <1>1, <1>2, <1>7 DEF VisibleVendor, CreditsHeld
  <2>2. VisibleVendor(e, v)' = VisibleVendor(e, v)
    BY <1>1, <1>3, <2>1 DEF VisibleVendor
  <2>3. CreditsSeen(e, v)' = CreditsSeen(e, v)
    BY <1>1, <2>1 DEF CreditsSeen
  <2>4. CreditsHeld(e, v)'
    BY <1>1, <1>2, <1>3, <1>4, <2>1, <2>2, <2>3 DEF CreditsHeld
  <2>5. VisibleVendor(e, v).version \in Nat
    BY <1>5 DEF VendorRow
  <2> QED BY <1>3, <1>5, <2>2, <2>4, <2>5
<1> QED BY <1>6, <1>7

\* A saga whose vendor has been committed by another job is out of date.
LEMMA CreditGetsOld ==
  ASSUME NEW state \in SagaState, NEW old \in VendorRow, NEW new \in VendorRow, NEW earning,
         CreditMade(state, old, earning),
         new.version >= old.version, new.version = old.version => new = old
  PROVE  CreditMade(state, new, earning)
<1> SUFFICES ASSUME state.at \in {"select", "update"}
             PROVE  /\ state.mine.version \in 3..(new.version + 1)
                    /\ state.mine.version = new.version + 1 =>
                         /\ state.mine = VendorCredited(new, earning)
                         /\ state.at = "update" => state.read = new
  BY DEF CreditMade
<1>1. /\ state.mine.version \in 3..(old.version + 1)
      /\ state.mine.version = old.version + 1 =>
           /\ state.mine = VendorCredited(old, earning)
           /\ state.at = "update" => state.read = old
  BY DEF CreditMade
<1>2. old.version \in Nat /\ new.version \in Nat
  BY DEF VendorRow
<1>3. CASE new = old
  BY <1>1, <1>3
<1>4. CASE new # old
  <2>1. new.version > old.version
    BY <1>2, <1>4
  <2> QED BY <1>1, <1>2, <2>1
<1> QED BY <1>3, <1>4

\* The job commits its batch and all credits.
LEMMA CommitBatchVInv ==
  ASSUME IInv, IInv', VInv, NEW d \in Jobs, CommitBatch(d)
  PROVE  VInv'
<1>1. OrdersAreFinite' /\ VendorTables'
  BY CommitBatchTables
<1>2. credited'[d] = NothingCredited /\ DOMAIN saga'[d] = {}
      /\ \A e \in Jobs \ {d} : /\ credited'[e] = credited[e] /\ saga'[e] = saga[e]
                               /\ batch'[e] = batch[e] /\ job'[e] = job[e]
  BY CommitBatchCredits
<1>3. JobCredits(d)' /\ \A v \in Vendors : ~LocksVendor(d, v)'
  <2>1. \A v \in Vendors : vendor'[v].earningBalance \in Nat
    BY DEF IInv, TypeOK, DeliveryTypeOK, VendorRow
  <2> QED BY <1>1, <1>2, <2>1, NoCreditsNext
<1>4. \A e \in Jobs \ {d} : \A v \in Vendors :
        CreditsHeld(e, v)' /\ LocksVendor(e, v)' = LocksVendor(e, v)
  BY <1>1, CommitSeen
<1>5. ASSUME NEW e \in Jobs \ {d}, NEW o \in DOMAIN saga[e] PROVE SagaHeld(e, o)'
  <2>1. PICK v \in Vendors : v = OwnerOfOrder(e, o)
    BY SagaEarning
  <2>2. SagaHeld(e, o) /\ saga[e][o] \in SagaState
    BY SagaEarning
  <2>3. OwnerOfOrder(e, o)' = v
    BY <1>2, <2>1 DEF OwnerOfOrder
  <2> DEFINE old == VisibleVendor(e, v)
             new == VisibleVendor(e, v)'
  <2>4. old \in VendorRow /\ new \in VendorRow /\ new.version >= old.version
        /\ (new.version = old.version => new = old)
    BY <1>1, CommitSeen
  <2>5. CreditMade(saga[e][o], old, vendorEarning(batch[e][o]))
    BY <2>1, <2>2 DEF SagaHeld
  <2> HIDE DEF old, new
  <2>6. CreditMade(saga[e][o], new, vendorEarning(batch[e][o]))
    BY <2>2, <2>4, <2>5, CreditGetsOld
  <2> QED BY <1>2, <2>3, <2>6 DEF SagaHeld, new
<1>6. ASSUME NEW e \in Jobs \ {d} PROVE JobCredits(e)'
  <2>1. InTransaction(e)' \/ credited'[e] = NothingCredited
    BY <1>2 DEF VInv, JobCredits, InTransaction
  <2> QED BY <1>2, <1>4, <1>5, <2>1 DEF JobCredits
<1>7. VendorsAreLocked'
  BY <1>3, <1>4 DEF VInv, VendorsAreLocked
<1> QED BY <1>1, <1>3, <1>6, <1>7 DEF VInv

------------------------------------------------------------------------------
(* The process.                                                             *)

\* No vendor has earned anything.
LEMMA InitVInv == Init => VInv
<1> SUFFICES ASSUME Init PROVE VInv
  OBVIOUS
<1>1. order = [o \in Orders |-> NoOrder] /\ vendorEvents = {}
      /\ vendor = [v \in Vendors |-> [version |-> 2, earningBalance |-> 0]]
      /\ saga = [d \in Jobs |-> None] /\ credited = [d \in Jobs |-> NothingCredited]
  BY DEF Init, DeliveryInit
<1>2. IInv
  BY InitIInv
<1>3. \A o \in Orders : isNew(order[o])
  BY <1>1, NoOrderFacts DEF isNew
<1>4. OrdersAreFinite
  <2>1. {o \in Orders : ~isNew(order[o])} = {}
    BY <1>3
  <2> QED BY <2>1, FS_EmptySet DEF OrdersAreFinite
<1>5. VendorTables
  <2> SUFFICES ASSUME NEW v \in Vendors
               PROVE  /\ Follows(vendor[v], CreditsOf(v))
                      /\ vendor[v].version > 2 => DeliveredFor(v) # {}
                      /\ vendor[v].earningBalance <= EarningsOf(v)
    BY DEF VendorTables
  <2>1. vendor[v].version = 2 /\ vendor[v].earningBalance = 0 /\ CreditsOf(v) = {}
    BY <1>1 DEF CreditsOf
  <2>2. Follows(vendor[v], CreditsOf(v))
    <3>1. IsFiniteSet({}) /\ Cardinality({}) = 0
      BY FS_EmptySet
    <3>2. Total(Amounts, {}) = 0
      BY TotalEmpty
    <3>3. 3..2 = {}
      OBVIOUS
    <3> QED BY <2>1, <3>1, <3>2, <3>3 DEF Follows
  <2>3. EarningsOf(v) \in Nat
    <3> DEFINE D == DeliveredFor(v)
               f == [o \in D |-> vendorEarning(order[o])]
    <3>1. IsFiniteSet(D) /\ EarningsOf(v) = Total(f, D) /\ \A o \in D : f[o] \in Nat
      BY <1>2, <1>4, DeliveredEarnings
    <3> HIDE DEF D, f
    <3> QED BY <3>1, TotalNat
  <2> QED BY <2>1, <2>2, <2>3
<1>6. \A d \in Jobs : JobCredits(d) /\ \A v \in Vendors : ~LocksVendor(d, v)
  <2>1. \A v \in Vendors : vendor[v].earningBalance \in Nat
    BY <1>2, JobFunctions DEF VendorRow
  <2>2. DOMAIN None = {}
    BY DEF None
  <2> HIDE DEF None, NothingCredited
  <2>3. \A d \in Jobs : credited[d] = NothingCredited /\ saga[d] = None
    BY <1>1
  <2> QED BY <1>5, <2>1, <2>2, <2>3, NoCredits
<1>7. VendorsAreLocked
  BY <1>6 DEF VendorsAreLocked
<1> QED BY <1>4, <1>5, <1>6, <1>7 DEF VInv

\* Every step keeps the invariant.
LEMMA NextVInv == IInv /\ IInv' /\ VInv /\ [Next]_vars => VInv'
<1> SUFFICES ASSUME IInv, IInv', VInv, [Next]_vars PROVE VInv'
  OBVIOUS
<1>1. CASE OrderingNext /\ UNCHANGED <<now, deliveryVars>>
  BY <1>1, OrderingVInv
<1>2. ASSUME NEW d \in Jobs, deliveryNextOrder(d) \/ DeliveryStep(d) PROVE VInv'
  <2>1. CASE \/ deliveryNextOrder(d) \/ countPendingDelivery(d) \/ findManyPendingDelivery(d)
             \/ SelectBatch(d) \/ UpdateBatch(d)
    BY <2>1, BeforeTransactionVInv
  <2>2. ASSUME NEW o \in DOMAIN saga[d], LoadVendor(d, o) \/ SelectVendor(d, o) \/ UpdateVendor(d, o)
        PROVE  VInv'
    BY <2>2, LoadVendorVInv, SelectVendorVInv, UpdateVendorVInv
  <2>3. CASE CommitBatch(d)
    BY <2>3, CommitBatchVInv
  <2> QED BY <1>2, <2>1, <2>2, <2>3 DEF DeliveryStep
<1>3. CASE Tick \/ UNCHANGED vars
  <2>1. order' = order /\ UNCHANGED deliveryVars
    BY <1>3 DEF Tick, vars
  <2>2. \A o \in Orders \ {0} : isNew(order[o]) => isNew(order'[o])
    BY <2>1
  <2> QED BY <2>1, <2>2, QuietVInv
<1>4. CASE UnhandledRejection \/ Crash
  BY <1>4, ProcessDiesVInv DEF UnhandledRejection, Crash
<1> QED BY <1>1, <1>2, <1>3, <1>4 DEF Next, Run, DeliveryNext

------------------------------------------------------------------------------
(* Theorems.                                                                *)

\* However batches, their sagas and crashes interleave, the invariant holds.
THEOREM VendorInvariance == Spec => [](IInv /\ VInv)
<1>1. Init => IInv /\ VInv
  BY InitIInv, InitVInv
<1>2. IInv /\ VInv /\ [Next]_vars => IInv' /\ VInv'
  BY NextIInv, NextVInv
<1> QED BY <1>1, <1>2, PTL DEF Spec

\* A vendor's balance is the sum of the credits in its log, one per version, whatever
\* transactions race each other for its row (vendor.entity.ts, entity.subscriber.ts).
THEOREM BalancesFollowLog == Spec => []BalanceFollowsLog
<1>1. IInv /\ VInv => BalanceFollowsLog
  <2> SUFFICES ASSUME VInv, NEW v \in Vendors
               PROVE  /\ vendor[v].version = 2 + Cardinality(CreditsOf(v))
                      /\ vendor[v].earningBalance =
                           MapThenSumSet(LAMBDA e : e.amount, CreditsOf(v))
    BY DEF BalanceFollowsLog, CreditsOf
  <2>1. Follows(vendor[v], CreditsOf(v))
    BY DEF VInv, VendorTables
  <2> QED BY <2>1, AmountsAreTotal DEF Follows
<1> QED BY <1>1, VendorInvariance, PTL

\* No order is paid to its vendor before it is delivered, or twice: no balance exceeds
\* what the delivered orders earn (delivery.controller.ts, earning-disbursement.saga.ts).
THEOREM NeverOverpays == Spec => []NeverOverpaid
<1>1. IInv /\ VInv => NeverOverpaid
  BY DEF VInv, VendorTables, NeverOverpaid
<1> QED BY <1>1, VendorInvariance, PTL

------------------------------------------------------------------------------
(* The contract.                                                            *)

\* The phase of an order is its row's version.
LEMMA PhaseOfRow ==
  ASSUME NEW row \in LegalRow
  PROVE  /\ row.version = 0 => Phase(row) = "absent"
         /\ row.version = 1 => Phase(row) = "created"
         /\ row.version = 2 => Phase(row) = "paid"
         /\ row.version = 3 <=> Phase(row) = "delivered"
  BY LegalRowFacts DEF Phase, isNew, hasBillPaid, hasBeenDelivered

\* It starts where the contract starts.
LEMMA InitRefines == Init => Contract!Init
<1> SUFFICES ASSUME Init PROVE Contract!Init
  OBVIOUS
<1>1. order = [o \in Orders |-> NoOrder]
      /\ vendor = [v \in Vendors |-> [version |-> 2, earningBalance |-> 0]]
  BY DEF Init, DeliveryInit
<1>2. \A o \in Orders : order[o] = NoOrder
  BY <1>1
<1>3. \A o \in Orders : /\ Phase(order[o]) = "absent" /\ order[o].store = NoStore
                        /\ order[o].totalBill = 0 /\ order[o].paymentId = NoPayment
  BY <1>2, NoOrderFacts, PhaseOfRow
<1>4. \A v \in Vendors : vendor[v].earningBalance = 0
  BY <1>1
<1> QED BY <1>3, <1>4 DEF Contract!Init

\* A step that writes no order and no vendor.
LEMMA NoStepOfContract ==
  ASSUME order' = order, vendor' = vendor
  PROVE  UNCHANGED Contract!vars
  BY DEF Contract!vars

\* A new order, or its payment.
LEMMA CommitOrderRefines ==
  ASSUME IInv, NEW r \in Requests, CommitOrder(r), vendor' = vendor
  PROVE  \E o \in Orders : Contract!Create(o) \/ Contract!Pay(o)
<1> DEFINE o == work[r].order
           row == work[r].entity
<1>1. o \in Orders /\ row \in LegalRow /\ GrowsInto(order[o], row)
      /\ row.version = order[o].version + 1
      /\ order' = [order EXCEPT ![o] = row]
      /\ ((Placing(r) /\ row.version = 1) \/ (SavingPayment(r) /\ row.version = 2))
  BY CommitOrderEffect
<1>2. order \in [Orders -> OrderRow] /\ \A p \in Orders : order[p] \in LegalRow
  BY DEF IInv, TypeOK, OrderTypeOK, Tables
<1>3. pc[r] = "write"
  BY DEF CommitOrder
<1> HIDE DEF row
<1>p. PICK p \in Orders : p = o
  BY <1>1
<1> HIDE DEF o
<1>4. order'[p] = row /\ \A q \in Orders \ {p} : order'[q] = order[q]
  BY <1>1, <1>2, <1>p
<1>5. CASE Placing(r) /\ row.version = 1
  <2>1. order[p].version = 0 /\ Phase(order[p]) = "absent" /\ Phase(order'[p]) = "created"
        /\ order'[p].paymentId = order[p].paymentId /\ order'[p].store # NoStore
    <3>1. order[p].version = 0 /\ row.store \in Stores /\ row.paymentId = NoPayment
      BY <1>1, <1>2, <1>5, <1>p, LegalRowFacts
    <3>2. order[p].paymentId = NoPayment
      BY <1>2, <3>1, LegalRowFacts
    <3> QED BY <1>1, <1>2, <1>4, <1>5, <3>1, <3>2, PhaseOfRow, ConstantTypes
  <2>2. Contract!Create(p)
    BY <1>4, <2>1 DEF Contract!Create, Contract!Advance
  <2> QED BY <2>2
<1>6. CASE SavingPayment(r) /\ row.version = 2
  <2>1. SaveHeld(r) /\ row.paymentId = PaymentId(r) /\ PaymentId(r) \in PaymentIds
    <3>1. SaveHeld(r)
      BY DEF IInv, Memory, Held
    <3>2. row.paymentId = PaymentId(r) /\ work[r].retries \in 1..MaxRetries
      BY <1>6, <3>1 DEF SaveHeld, row
    <3> QED BY <3>1, <3>2, ConstantTypes DEF PaymentId
  <2>2. Phase(order[p]) = "created" /\ Phase(order'[p]) = "paid"
        /\ order'[p].store = order[p].store /\ order'[p].totalBill = order[p].totalBill
        /\ order'[p].paymentId = PaymentId(r)
    <3>1. order[p].version = 1
      BY <1>1, <1>2, <1>6, <1>p, LegalRowFacts
    <3> QED BY <1>1, <1>2, <1>4, <1>6, <1>p, <2>1, <3>1, PhaseOfRow DEF GrowsInto
  <2>3. ASSUME NEW q \in Orders PROVE order[q].paymentId # PaymentId(r)
    <3>1. CASE hasBillPaid(order[q])
      <4>1. PICK s \in Requests : HasPaid(s) /\ work[s].order = q
        BY <3>1 DEF IInv, Memory, PaidByRequests
      <4>2. order[q].paymentId = PaymentId(s)
        BY <4>1 DEF IInv, Memory, Held, PaidHeld
      <4>3. s # r
        BY <1>3, <4>1 DEF HasPaid
      <4> QED BY <4>2, <4>3 DEF PaymentId
    <3>2. CASE ~hasBillPaid(order[q])
      BY <2>1, <3>2, ConstantTypes DEF hasBillPaid
    <3> QED BY <3>1, <3>2
  <2>4. PaymentId(r) # NoPayment
    BY <2>1, ConstantTypes
  <2>5. Contract!Pay(p)
    BY <1>4, <2>2, <2>3, <2>4 DEF Contract!Pay, Contract!Advance
  <2> QED BY <2>5
<1> QED BY <1>1, <1>5, <1>6

\* What a vendor earns in the step that commits a batch.
VendorEarns(v, orders) == Contract!Earns(v, Contract!OrdersOf(v, orders))

LEMMA CommitBatchEarns ==
  ASSUME IInv, VInv, NEW d \in Jobs, CommitBatch(d), NEW v \in Vendors,
         NEW delivered, delivered = Changed(d)
  PROVE  VendorEarns(v, delivered)
<1> DEFINE C == DoneFor(d, v)
           bill == [o \in Orders |-> [store |-> order[o].store, totalBill |-> order[o].totalBill]]
           h == EarningIn(d)
<1>1. /\ Changed(d) \subseteq Orders /\ Changed(d) \subseteq DOMAIN batch[d]
      /\ \A o \in Changed(d) : order'[o] = batch[d][o] /\ order[o].version = 2
                               /\ GrowsInto(order[o], order'[o])
  BY CommitBatchEffect
<1>2. vendor'[v] = VisibleVendor(d, v) /\ DOMAIN saga[d] = Changed(d)
      /\ \A o \in Changed(d) : saga[d][o].at = "done"
  BY CommitBatchCredits
<1>3. \A o \in Changed(d) : order[o].store = batch[d][o].store
                            /\ order[o].totalBill = batch[d][o].totalBill
  BY <1>1 DEF GrowsInto
<1>4. Contract!OrdersOf(v, delivered) = C
  BY <1>1, <1>2, <1>3 DEF Contract!OrdersOf, DoneFor, OwnerOfOrder
<1>5. Contract!HasEarned(v) <=> DeliveredFor(v) # {}
  <2>1. \A o \in Orders : Phase(order[o]) = "delivered" <=> hasBeenDelivered(order[o])
    BY PhaseOfRow, LegalRowFacts DEF IInv, Tables, hasBeenDelivered
  <2> QED BY <2>1 DEF Contract!HasEarned, Contract!OrdersOf, DeliveredFor
<1>6. CreditsHeld(d, v) /\ (vendor[v].version > 2 => DeliveredFor(v) # {})
  BY DEF VInv, JobCredits, VendorTables
<1>7. PICK orders \in SUBSET C :
        /\ LocksVendor(d, v) => orders # {}
        /\ VisibleVendor(d, v).earningBalance = vendor[v].earningBalance + Total(h, orders)
  BY <1>6 DEF CreditsHeld
<1>8. C # {} => orders # {} \/ Contract!HasEarned(v)
  BY <1>5, <1>6, <1>7 DEF CreditsHeld, VisibleVendor
<1>9. orders \subseteq DOMAIN saga[d]
  BY DEF DoneFor
<1>10. IsFiniteSet(orders) /\ IntsOn(h, orders) /\ \A o \in orders : h[o] \in Nat
  BY <1>9, SagasAreFinite, FS_Subset DEF IntsOn
<1>11. \A o \in orders : vendorEarning(bill[o]) = h[o]
  <2>1. \A o \in orders : o \in Orders /\ o \in DOMAIN batch[d]
                          /\ order[o].totalBill = batch[d][o].totalBill
    BY <1>1, <1>2, <1>3, <1>9
  <2>2. \A o \in orders : bill[o].totalBill = batch[d][o].totalBill
    BY <2>1
  <2> HIDE DEF bill
  <2> QED BY <2>1, <2>2 DEF EarningIn, vendorEarning
<1>12. MapThenSumSet(LAMBDA o : vendorEarning(bill[o]), orders) = Total(h, orders)
  <2> DEFINE f == [o \in orders |-> vendorEarning(bill[o])]
  <2> HIDE DEF bill, h
  <2>1. MapThenSumSet(LAMBDA o : vendorEarning(bill[o]), orders) = Total(f, orders)
    BY <1>10, <1>11, EarningsAreTotal
  <2>2. \A o \in orders : h[o] = f[o]
    BY <1>11
  <2> HIDE DEF f
  <2>3. Total(h, orders) = Total(f, orders)
    BY <1>10, <2>2, TotalSame
  <2> QED BY <2>1, <2>3
<1>13. vendor'[v].earningBalance =
         vendor[v].earningBalance + MapThenSumSet(LAMBDA o : vendorEarning(bill[o]), orders)
  BY <1>2, <1>7, <1>12
<1>14. Contract!MapThenSumSet(LAMBDA o : vendorEarning(bill[o]), orders) =
         MapThenSumSet(LAMBDA o : vendorEarning(bill[o]), orders)
  BY DEF MapThenSumSet, MapThenFoldSet, Contract!MapThenSumSet, Contract!MapThenFoldSet
<1> HIDE DEF C
<1>15. vendor'[v].earningBalance =
         vendor[v].earningBalance
           + Contract!MapThenSumSet(LAMBDA o : vendorEarning(bill[o]), orders)
  BY <1>13, <1>14
<1> QED BY <1>4, <1>8, <1>15 DEF VendorEarns, Contract!Earns

\* The orders of a batch become delivered, and their vendors earn.
LEMMA CommitBatchRefines ==
  ASSUME IInv, IInv', VInv, NEW d \in Jobs, CommitBatch(d)
  PROVE  [Contract!Next]_(Contract!vars)
<1>1. /\ Changed(d) \subseteq Orders
      /\ \A o \in Changed(d) : /\ order[o].version = 2 /\ order'[o].version = 3
                               /\ order'[o] \in LegalRow /\ GrowsInto(order[o], order'[o])
      /\ \A o \in Orders \ Changed(d) : order'[o] = order[o]
      /\ order' \in [Orders -> LegalRow]
  BY CommitBatchEffect
<1>2. order \in [Orders -> OrderRow] /\ \A o \in Orders : order[o] \in LegalRow
  BY DEF IInv, TypeOK, OrderTypeOK, Tables
<1>3. vendor \in [Vendors -> VendorRow] /\ vendor' \in [Vendors -> VendorRow]
  BY DEF IInv, TypeOK, DeliveryTypeOK
<1>4. CASE Changed(d) = {}
  <2>1. order' = order
    BY <1>1, <1>2, <1>4
  <2>2. \A v \in Vendors : vendor'[v] = vendor[v]
    <3> SUFFICES ASSUME NEW v \in Vendors PROVE vendor'[v] = vendor[v]
      OBVIOUS
    <3>1. vendor'[v] = VisibleVendor(d, v) /\ DoneFor(d, v) = {}
      BY <1>4, CommitBatchCredits DEF DoneFor
    <3>2. CreditsHeld(d, v)
      BY DEF VInv, JobCredits
    <3> QED BY <3>1, <3>2 DEF CreditsHeld, VisibleVendor
  <2>3. vendor' = vendor
    BY <1>3, <2>2
  <2> QED BY <2>1, <2>3, NoStepOfContract
<1>5. CASE Changed(d) # {}
  <2>1. PICK orders \in (SUBSET Orders) \ {{}} : orders = Changed(d)
    BY <1>1, <1>5
  <2>2. \A o \in orders : Phase(order[o]) = "paid" /\ Phase(order'[o]) = "delivered"
    BY <1>1, <1>2, <2>1, PhaseOfRow
  <2>3. Contract!Advance(orders, "paid", "delivered")
    BY <1>1, <2>1, <2>2 DEF Contract!Advance
  <2>4. [v \in Vendors |-> vendor'[v].earningBalance] \in [Vendors -> Nat]
    BY <1>3 DEF VendorRow
  <2>5. ASSUME NEW v \in Vendors PROVE VendorEarns(v, orders)
    BY <2>1, CommitBatchEarns
  <2>6. \A o \in Orders : /\ order'[o].store = order[o].store
                          /\ order'[o].totalBill = order[o].totalBill
                          /\ order'[o].paymentId = order[o].paymentId
    BY <1>1 DEF GrowsInto
  <2>7. Contract!Deliver(orders)
    BY <2>3, <2>4, <2>5, <2>6 DEF VendorEarns, Contract!Deliver
  <2> QED BY <2>7 DEF Contract!Next
<1> QED BY <1>4, <1>5

\* Every step of the system is a step of the contract, or none.
LEMMA StepRefines == IInv /\ IInv' /\ VInv /\ [Next]_vars => [Contract!Next]_(Contract!vars)
<1> SUFFICES ASSUME IInv, IInv', VInv, [Next]_vars PROVE [Contract!Next]_(Contract!vars)
  OBVIOUS
<1>1. ASSUME NEW r \in Requests, CommitOrder(r), vendor' = vendor PROVE Contract!Next
  BY <1>1, CommitOrderRefines DEF Contract!Next
<1>2. ASSUME NEW d \in Jobs, CommitBatch(d) PROVE [Contract!Next]_(Contract!vars)
  BY <1>2, CommitBatchRefines
<1>3. CASE order' = order /\ vendor' = vendor
  BY <1>3, NoStepOfContract
<1>4. \/ \E r \in Requests : CommitOrder(r) /\ vendor' = vendor
      \/ \E d \in Jobs : CommitBatch(d)
      \/ order' = order /\ vendor' = vendor
  <2>1. CASE OrderingNext /\ UNCHANGED <<now, deliveryVars>>
    <3>1. vendor' = vendor
      BY <2>1 DEF deliveryVars
    <3>2. (\E r \in Requests : CommitOrder(r)) \/ order' = order
      BY <2>1 DEF OrderingNext, orderFood, makeOrderPayment, OrderingStep, PaymentFails,
         PaymentSucceeds, SelectOrder, RollbackOrder, Answer
    <3> QED BY <3>1, <3>2
  <2>2. CASE DeliveryNext
    BY <2>2 DEF DeliveryNext, deliveryNextOrder, DeliveryStep, countPendingDelivery,
       findManyPendingDelivery, SelectBatch, UpdateBatch, LoadVendor, SelectVendor, UpdateVendor
  <2>3. CASE Tick \/ UNCHANGED vars
    BY <2>3 DEF Tick, vars, deliveryVars
  <2>4. CASE UnhandledRejection \/ Crash
    BY <2>4 DEF UnhandledRejection, Crash, ProcessDies, OrderingDies, DeliveryDies
  <2> QED BY <2>1, <2>2, <2>3, <2>4 DEF Next, Run
<1> QED BY <1>1, <1>2, <1>3, <1>4

\* Requests, batches, sagas and crashes, however they interleave, come to orders that are
\* created, paid and delivered once, and to vendors that are credited in the step that
\* delivers a batch, for orders of theirs in it (ordering.controller.ts,
\* delivery.controller.ts, earning-disbursement.saga.ts).
THEOREM Refinement == Spec => ImplementsContract
<1>1. Init => Contract!Init
  BY InitRefines
<1>2. IInv /\ IInv' /\ VInv /\ [Next]_vars => [Contract!Next]_(Contract!vars)
  BY StepRefines
<1> QED BY <1>1, <1>2, VendorInvariance, PTL DEF Spec, ImplementsContract, Contract!Spec
==============================================================================
