-------------------------- MODULE FoodCookingProofs --------------------------
(***************************************************************************)
(* FoodCooking for any number of chefs, stores, vendors and foods.         *)
(*                                                                         *)
(* The argument is that of StoreSalesProofs, with sums: the versions in    *)
(* the log of a food are 1 .. the version of its row, so the unique        *)
(* constraint of the log lets a request commit only while the row is still *)
(* the one that it cooked (HandsAreCurrent), and save's column by column   *)
(* UPDATE then writes the entity that beforeSave has validated.  That the  *)
(* cook owns the store needs the stores' own invariant: a store that has   *)
(* been created keeps its owner, while requests open and close it.         *)
(***************************************************************************)
EXTENDS FoodCooking, StoreSalesProofs, SetSums

------------------------------------------------------------------------------
(* The inductive invariant.                                                 *)

FoodEvent == [aggregateId : Foods, version : Nat, noOfPlates : Amounts \cup {0}]

\* What an event has cooked.
PlatesOf == [e \in FoodEvent |-> e.noOfPlates]

FoodLog(f) == {e \in foodEvents : e.aggregateId = f}

\* The versions logged for a food are exactly those its row went through, and its
\* plates are those that they cooked.
FoodFollows(row, log) ==
  /\ IsFiniteSet(log) /\ log \subseteq FoodEvent
  /\ row.version = Cardinality(log)
  /\ row.noOfPlates = Total(PlatesOf, log)
  /\ \A e \in log : e.version \in 1..row.version
  /\ \A n \in 1..row.version : \E e \in log : e.version = n

FoodTables == \A f \in Foods : FoodFollows(food[f], FoodLog(f))

\* The store that a request has found is its vendor's.
HoldsOwnStore(h) ==
  /\ h.store \in Stores /\ h.food \in Foods /\ h.vendor \in Vendors
  /\ ~isNew(store[h.store])
  /\ store[h.store].owner = h.vendor

\* The entity is the row with the request's plates cooked, or new.
CookedFrom(h, row) ==
  /\ h.entity.noOfPlates = row.noOfPlates + h.amount
  /\ ~isNew(row) => h.entity.name = row.name /\ h.entity.store = row.store

\* What a request that waits at `label` to be saved holds: food of its store, at
\* most one version ahead of the table, and when it is ahead, made from the very
\* row that is still there.
FoodPending(h, row, label) ==
  /\ h.entity.version # 0 /\ h.entity.store = h.store
  /\ h.entity.version <= row.version + 1
  /\ h.entity.version = row.version + 1 =>
       CookedFrom(h, row) /\ (label = "write" => h.seen = row)

HandsAreCurrent ==
  \A c \in Chefs :
    /\ at[c] \in {"load", "select", "write", "ok"} => HoldsOwnStore(hand[c])
    /\ at[c] \in {"select", "write"} => FoodPending(hand[c], food[hand[c].food], at[c])
    /\ at[c] = "ok" =>
         ~isNew(food[hand[c].food]) /\ food[hand[c].food].store = hand[c].store

FInv ==
  /\ FoodTypeOK
  /\ FoodTables
  /\ PlatesNeverNegative
  /\ FoodNamesAreUnique
  /\ HandsAreCurrent

------------------------------------------------------------------------------
(* Lemmas.                                                                  *)

\* The plates of an event are a number.
LEMMA PlatesAreInt ==
  \A e \in FoodEvent : PlatesOf[e] = e.noOfPlates /\ PlatesOf[e] \in Int
<1> TAKE e \in FoodEvent
<1>1. PlatesOf[e] = e.noOfPlates
  BY DEF PlatesOf
<1>2. e.noOfPlates \in Amounts \cup {0}
  BY DEF FoodEvent
<1>3. e.noOfPlates \in Int
  <2>1. \A n \in Amounts \cup {0} : n \in Int
    BY AmountsAssumption
  <2> QED BY <1>2, <2>1
<1> QED BY <1>1, <1>3

\* What the requirement sums up is a sum of PlatesOf.
LEMMA PlatesAreTotal ==
  ASSUME NEW S, IsFiniteSet(S), S \subseteq FoodEvent
  PROVE  /\ MapThenSumSet(LAMBDA e : e.noOfPlates, S) = Total(PlatesOf, S)
         /\ Total(PlatesOf, S) \in Int
<1> DEFINE Recursion(h) ==
      h = [s \in SUBSET S |-> IF s = {} THEN 0 ELSE Chosen(s).noOfPlates + h[s \ {Chosen(s)}]]
           h == CHOOSE i : Recursion(i)
<1>1. MapThenSumSet(LAMBDA e : e.noOfPlates, S) = h[S]
  BY DEF MapThenSumSet, MapThenFoldSet, Chosen
<1>2. (\E i : Recursion(i)) => Recursion(h)
  <2> HIDE DEF Recursion
  <2> QED OBVIOUS
<1>3. \A s \in SUBSET S : s # {} => Chosen(s).noOfPlates = PlatesOf[Chosen(s)]
  <2>1. \A s \in SUBSET S : s # {} => Chosen(s) \in FoodEvent
    BY DEF Chosen
  <2> QED BY <2>1 DEF PlatesOf
<1>4. IntsOn(PlatesOf, S)
  BY PlatesAreInt DEF IntsOn
<1> HIDE DEF h
<1>5. ASSUME NEW g,
             g = [s \in SUBSET S |-> IF s = {} THEN 0 ELSE PlatesOf[Chosen(s)] + g[s \ {Chosen(s)}]]
      PROVE  Recursion(g)
  BY <1>3, <1>5
<1>6. ASSUME Recursion(h)
      PROVE  h = [s \in SUBSET S |->
                    IF s = {} THEN 0 ELSE PlatesOf[Chosen(s)] + h[s \ {Chosen(s)}]]
  BY <1>3, <1>6
<1> HIDE DEF Recursion
<1>7. Obeys(h, PlatesOf, SUBSET S)
  BY <1>2, <1>4, <1>5, <1>6, ChosenObeys
<1>8. Total(PlatesOf, S) \in Int
  BY <1>4, TotalUnfolds
<1> QED BY <1>1, <1>4, <1>7, <1>8, TotalObeys

\* The row of a food that is there is in the table.
LEMMA FoodRowFacts ==
  ASSUME NEW row \in FoodRow
  PROVE  /\ row.version \in Nat /\ row.noOfPlates \in Int
         /\ isNew(row) => row = EmptyFood
         /\ ~isNew(row) => /\ row \in [version : Nat \ {0}, store : Stores,
                                       name : FoodNames, noOfPlates : Int]
                           /\ row.store \in Stores /\ row.name \in FoodNames
  BY DEF FoodRow, EmptyFood, isNew

\* An UPDATE over the very row that was read leaves the row in memory.
LEMMA MergedFoodOverSame ==
  ASSUME NEW mine \in FoodRow, NEW row \in FoodRow
  PROVE  MergedFood(mine, row, row) = mine
<1>1. /\ DOMAIN row = {"version", "store", "name", "noOfPlates"}
      /\ DOMAIN mine = {"version", "store", "name", "noOfPlates"}
      /\ mine = [version |-> mine.version, store |-> mine.store, name |-> mine.name,
                 noOfPlates |-> mine.noOfPlates]
  BY DEF FoodRow, EmptyFood
<1>2. \A column \in DOMAIN row :
        Written(mine[column], row[column], row[column]) = mine[column]
  BY DEF Written
<1>3. MergedFood(mine, row, row) = [column \in DOMAIN row |-> mine[column]]
  BY <1>2 DEF MergedFood
<1>4. [column \in DOMAIN mine |-> mine[column]] = mine
  BY DEF FoodRow, EmptyFood
<1> QED BY <1>1, <1>3, <1>4

\* The log of a food with one more event follows the row one version further.
LEMMA NextPlates ==
  ASSUME NEW row \in FoodRow, NEW log, FoodFollows(row, log),
         NEW mine \in FoodRow, NEW event \in FoodEvent,
         mine.version = row.version + 1, event.version = mine.version,
         mine.noOfPlates = row.noOfPlates + event.noOfPlates
  PROVE  FoodFollows(mine, log \cup {event})
<1>1. IsFiniteSet(log) /\ log \subseteq FoodEvent
      /\ row.version = Cardinality(log) /\ row.noOfPlates = Total(PlatesOf, log)
      /\ (\A e \in log : e.version \in 1..row.version)
      /\ (\A n \in 1..row.version : \E e \in log : e.version = n)
  BY DEF FoodFollows
<1>2. row.version \in Nat
  BY FoodRowFacts
<1>3. event \notin log
  BY <1>1, <1>2
<1>4. IsFiniteSet(log \cup {event}) /\ Cardinality(log \cup {event}) = Cardinality(log) + 1
  BY <1>1, <1>3, FS_AddElement
<1>5. Total(PlatesOf, log \cup {event}) = Total(PlatesOf, log) + event.noOfPlates
  <2>1. IntsOn(PlatesOf, log \cup {event}) /\ PlatesOf[event] = event.noOfPlates
    BY <1>1, PlatesAreInt DEF IntsOn
  <2>2. IsFiniteSet(log)
    BY <1>1
  <2>3. Total(PlatesOf, log \cup {event}) = Total(PlatesOf, log) + PlatesOf[event]
    BY <1>3, <2>1, <2>2, TotalAdd
  <2> QED BY <2>1, <2>3
<1>6. \A e \in log \cup {event} : e.version \in 1..mine.version
  BY <1>1, <1>2
<1>7. \A n \in 1..mine.version : \E e \in log \cup {event} : e.version = n
  <2> SUFFICES ASSUME NEW n \in 1..mine.version
               PROVE  \E e \in log \cup {event} : e.version = n
    OBVIOUS
  <2>1. CASE n = mine.version
    BY <2>1
  <2>2. CASE n # mine.version
    <3>1. n \in 1..row.version
      BY <1>2, <2>2
    <3> QED BY <1>1, <3>1
  <2> QED BY <2>1, <2>2
<1> QED BY <1>1, <1>4, <1>5, <1>6, <1>7 DEF FoodFollows

------------------------------------------------------------------------------
(* The stores under the kitchens.                                           *)

\* What the kitchens do, the stores do not see.
LEMMA FoodStepIsStep == [FoodNext]_<<vars, foodVars>> => [Next]_vars
  BY DEF FoodNext

\* A store keeps its owner: only its creation sets one.
LEMMA OwnersStay ==
  ASSUME IInv, [Next]_vars, NEW s \in Stores, ~isNew(store[s])
  PROVE  ~isNew(store'[s]) /\ store'[s].owner = store[s].owner
<1>1. ASSUME NEW r \in Requests, Commit(r)
      PROVE  ~isNew(store'[s]) /\ store'[s].owner = store[s].owner
  <2>1. /\ work[r] \in Work
        /\ work[r].entity.version = store[work[r].store].version + 1
        /\ DecidedOn(work[r], store[work[r].store])
        /\ store' = [store EXCEPT ![work[r].store] = work[r].entity]
    BY <1>1, CommitEffect
  <2>2. CASE work[r].store # s
    BY <2>1, <2>2
  <2>3. CASE work[r].store = s
    <3>1. store'[s] = work[r].entity /\ store[s].version \in Nat
      BY <2>1, <2>3 DEF IInv, TypeOK, SavedRow, EmptyRow
    <3>2. PICK v \in Vendors \cup {NoVendor} : work[r].entity = Applied(work[r].type, store[s], v)
      BY <2>1, <2>3 DEF DecidedOn
    <3>3. work[r].type # "StoreCreated"
      BY <2>1, <2>3 DEF DecidedOn, Permitted, isNew
    <3> QED BY <2>1, <2>3, <3>1, <3>2, <3>3 DEF Applied, isNew
  <2> QED BY <2>2, <2>3
<1>2. CASE UNCHANGED store
  BY <1>2
<1>3. (\E r \in Requests : Commit(r)) \/ UNCHANGED store
  BY DEF Next, vars, createStore, openStoreForSales, closeStoreAfterSales, open, closeShop,
         LoadAndRun, Reject, Save, SelectStored, Rollback
<1> QED BY <1>1, <1>2, <1>3

------------------------------------------------------------------------------
(* The steps that write no food.                                            *)

\* Neither the rows nor the log: everything said about those two stays true.
LEMMA FoodTablesUnchanged ==
  ASSUME FInv, UNCHANGED <<food, foodEvents>>
  PROVE  FoodTables' /\ PlatesNeverNegative' /\ FoodNamesAreUnique'
<1>1. \A f \in Foods : FoodLog(f)' = FoodLog(f) /\ food'[f] = food[f]
  BY DEF FoodLog
<1> QED BY <1>1 DEF FInv, FoodTables, PlatesNeverNegative, FoodNamesAreUnique

\* A store that opens or closes stays its owner's.
LEMMA StoreStepFInv ==
  ASSUME IInv, FInv, [Next]_vars, UNCHANGED foodVars
  PROVE  FInv'
<1>1. FoodTypeOK'
  BY DEF FInv, FoodTypeOK, foodVars
<1>2. FoodTables' /\ PlatesNeverNegative' /\ FoodNamesAreUnique'
  BY FoodTablesUnchanged DEF foodVars
<1>3. ASSUME NEW h, HoldsOwnStore(h) PROVE HoldsOwnStore(h)'
  BY <1>3, OwnersStay DEF HoldsOwnStore
<1>4. HandsAreCurrent'
  <2> SUFFICES ASSUME NEW c \in Chefs
               PROVE  /\ at[c] \in {"load", "select", "write", "ok"} => HoldsOwnStore(hand[c])'
                      /\ at[c] \in {"select", "write"} =>
                           FoodPending(hand[c], food[hand[c].food], at[c])
                      /\ at[c] = "ok" =>
                           ~isNew(food[hand[c].food]) /\ food[hand[c].food].store = hand[c].store
    BY DEF HandsAreCurrent, foodVars, HoldsOwnStore
  <2>1. at[c] \in {"load", "select", "write", "ok"} => HoldsOwnStore(hand[c])
    BY DEF FInv, HandsAreCurrent
  <2>2. hand' = hand
    BY DEF foodVars
  <2> QED BY <2>1, <2>2, <1>3 DEF FInv, HandsAreCurrent, HoldsOwnStore
<1> QED BY <1>1, <1>2, <1>4 DEF FInv

\* What the invariant says of the request of one chef.
HandHeld(c) ==
  /\ at[c] \in {"load", "select", "write", "ok"} => HoldsOwnStore(hand[c])
  /\ at[c] \in {"select", "write"} => FoodPending(hand[c], food[hand[c].food], at[c])
  /\ at[c] = "ok" =>
       ~isNew(food[hand[c].food]) /\ food[hand[c].food].store = hand[c].store

\* A step of one chef that writes no table keeps what it says of the others.
LEMMA OthersKeepTheirHands ==
  ASSUME FInv, NEW c \in Chefs, UNCHANGED <<food, foodEvents>>, UNCHANGED vars,
         \A b \in Chefs : b # c => hand'[b] = hand[b] /\ at'[b] = at[b],
         HandHeld(c)'
  PROVE  HandsAreCurrent'
<1> SUFFICES ASSUME NEW b \in Chefs PROVE HandHeld(b)'
  BY DEF HandsAreCurrent, HandHeld
<1>1. CASE b = c
  BY <1>1
<1>2. CASE b # c
  <2>1. hand'[b] = hand[b] /\ at'[b] = at[b] /\ food' = food /\ store' = store
    BY <1>2 DEF vars
  <2>2. HandHeld(b)
    BY DEF FInv, HandsAreCurrent, HandHeld
  <2> QED BY <2>1, <2>2 DEF HandHeld, HoldsOwnStore
<1> QED BY <1>1, <1>2

\* A request that ends without having saved anything.
LEMMA EndWithFInv ==
  ASSUME FInv, NEW c \in Chefs, NEW label \in {"rejected", "failed"}, EndWith(c, label),
         UNCHANGED vars
  PROVE  FInv'
<1>1. at' = [at EXCEPT ![c] = label] /\ UNCHANGED <<food, foodEvents, hand>>
  BY DEF EndWith, Reach
<1>2. FoodTypeOK'
  BY <1>1 DEF FInv, FoodTypeOK
<1>3. HandHeld(c)'
  BY <1>1 DEF FInv, FoodTypeOK, HandHeld
<1>4. HandsAreCurrent'
  BY <1>1, <1>3, OthersKeepTheirHands DEF FInv, FoodTypeOK
<1> QED BY <1>1, <1>2, <1>4, FoodTablesUnchanged DEF FInv

\* The type of what a request holds.
Hand ==
  [vendor : Vendors \cup {NoVendor}, food : Foods \cup {NoFood}, amount : Amounts \cup {0},
   store : Stores \cup {NoStore}, entity : FoodRow, seen : FoodRow]

\* A request that goes on with something else in its hand.
LEMMA HandFInv ==
  ASSUME FInv, NEW c \in Chefs, NEW label \in {"load", "select", "write", "ok"}, NEW h \in Hand,
         hand' = [hand EXCEPT ![c] = h], Reach(c, label), UNCHANGED <<food, foodEvents>>,
         UNCHANGED vars,
         HoldsOwnStore(h),
         label \in {"select", "write"} => FoodPending(h, food[h.food], label),
         label = "ok" => ~isNew(food[h.food]) /\ food[h.food].store = h.store
  PROVE  FInv'
<1>1. at' = [at EXCEPT ![c] = label]
  BY DEF Reach
<1>2. at'[c] = label /\ hand'[c] = h /\ food' = food /\ store' = store
  BY <1>1 DEF FInv, FoodTypeOK, vars
<1>3. FoodTypeOK'
  BY <1>1 DEF FInv, FoodTypeOK, Hand
<1>4. HandHeld(c)'
  BY <1>2 DEF HandHeld, HoldsOwnStore
<1>5. HandsAreCurrent'
  BY <1>1, <1>4, OthersKeepTheirHands DEF FInv, FoodTypeOK
<1> QED BY <1>3, <1>5, FoodTablesUnchanged DEF FInv

\* What a finder of the vendor's opened store finds.
LEMMA FoundIsOwn ==
  ASSUME NEW v \in Vendors, NEW s \in findOpenedByOwner(v)
  PROVE  s \in Stores /\ ~isNew(store[s]) /\ store[s].owner = v
  BY DEF findOpenedByOwner, findByOwner

\* New food is one version ahead of the row that is not there.
LEMMA CreateFoodFInv ==
  ASSUME FInv, NEW c \in Chefs, NEW v \in Vendors, NEW name \in FoodNames, NEW f \in Foods,
         createFoodCookingSpace(c, v, name, f), UNCHANGED vars
  PROVE  FInv'
<1>1. CASE \E label \in {"rejected", "failed"} : EndWith(c, label)
  BY <1>1, EndWithFInv
<1>2. ASSUME NEW s \in findOpenedByOwner(v),
             hand' = [hand EXCEPT ![c] =
               [EmptyHand EXCEPT !.vendor = v, !.food = f, !.store = s,
                                 !.entity = FoodCookingSpaceCreated(s, name)]],
             Reach(c, "write"), UNCHANGED <<food, foodEvents>>
      PROVE  FInv'
  <2> DEFINE e == FoodCookingSpaceCreated(s, name)
             h == [EmptyHand EXCEPT !.vendor = v, !.food = f, !.store = s, !.entity = e]
  <2>1. EmptyHand \in Hand /\ EmptyHand.seen = EmptyFood /\ EmptyHand.amount = 0
    BY DEF EmptyHand, Hand, FoodRow
  <2>2. s \in Stores /\ ~isNew(store[s]) /\ store[s].owner = v
    BY FoundIsOwn
  <2>3. e \in FoodRow /\ e.version = 1 /\ e.store = s /\ e.noOfPlates = 0
    BY <2>2 DEF FoodCookingSpaceCreated, FoodRow
  <2>4. food[f] = EmptyFood
    BY FoodRowFacts DEF createFoodCookingSpace, FInv, FoodTypeOK
  <2>5. h.food = f /\ hand' = [hand EXCEPT ![c] = h]
    BY <1>2, <2>1 DEF Hand
  <2> HIDE DEF e
  <2>6. /\ h \in Hand /\ h.vendor = v /\ h.store = s /\ h.entity = e
        /\ h.seen = EmptyHand.seen /\ h.amount = EmptyHand.amount
    BY <2>1, <2>2, <2>3 DEF Hand
  <2> HIDE DEF h
  <2>7. HoldsOwnStore(h)
    BY <2>2, <2>6, <2>5 DEF HoldsOwnStore
  <2>8. FoodPending(h, food[f], "write")
    BY <2>1, <2>3, <2>4, <2>6 DEF FoodPending, CookedFrom, EmptyFood, isNew
  <2> QED BY <1>2, <2>6, <2>7, <2>8, <2>5, HandFInv
<1> QED BY <1>1, <1>2 DEF createFoodCookingSpace

\* A request to cook holds its vendor's store.
LEMMA CookFInv ==
  ASSUME FInv, NEW c \in Chefs, NEW v \in Vendors, NEW f \in Foods, NEW amount \in Amounts,
         cookPlatesOfFood(c, v, f, amount), UNCHANGED vars
  PROVE  FInv'
<1>1. CASE EndWith(c, "rejected")
  BY <1>1, EndWithFInv
<1>2. ASSUME NEW s \in findOpenedByOwner(v),
             hand' = [hand EXCEPT ![c] =
               [EmptyHand EXCEPT !.vendor = v, !.food = f, !.amount = amount, !.store = s]],
             Reach(c, "load"), UNCHANGED <<food, foodEvents>>
      PROVE  FInv'
  <2> DEFINE h == [EmptyHand EXCEPT !.vendor = v, !.food = f, !.amount = amount, !.store = s]
  <2>1. EmptyHand \in Hand
    BY DEF EmptyHand, Hand, FoodRow
  <2>2. s \in Stores /\ ~isNew(store[s]) /\ store[s].owner = v
    BY FoundIsOwn
  <2>3. h \in Hand /\ h.vendor = v /\ h.store = s /\ h.food = f
    BY <2>1, <2>2 DEF Hand
  <2>4. hand' = [hand EXCEPT ![c] = h]
    BY <1>2
  <2> HIDE DEF h
  <2>5. HoldsOwnStore(h)
    BY <2>2, <2>3 DEF HoldsOwnStore
  <2> QED BY <1>2, <2>3, <2>5, <2>4, HandFInv
<1> QED BY <1>1, <1>2 DEF cookPlatesOfFood

\* The entity is the row that was loaded, with more plates.
LEMMA LoadAndCookFInv ==
  ASSUME FInv, NEW c \in Chefs, LoadAndCook(c), UNCHANGED vars
  PROVE  FInv'
<1> DEFINE f == hand[c].food
           e == FoodCooked(food[f], hand[c].amount)
<1>1. at[c] = "load" /\ hand[c] \in Hand /\ HoldsOwnStore(hand[c])
  BY DEF LoadAndCook, FInv, FoodTypeOK, HandsAreCurrent, Hand
<1>2. CASE \E label \in {"rejected", "failed"} : EndWith(c, label)
  BY <1>2, EndWithFInv
<1>3. ASSUME findByIdAndStoreId(f, hand[c].store) # {},
             hand' = [hand EXCEPT ![c].entity = e],
             Reach(c, "select"), UNCHANGED <<food, foodEvents>>
      PROVE  FInv'
  <2> DEFINE h == [hand[c] EXCEPT !.entity = e]
  <2>1. f \in Foods /\ food[f] \in FoodRow /\ hand[c].amount \in Amounts \cup {0}
    BY <1>1 DEF HoldsOwnStore, FInv, FoodTypeOK, Hand
  <2>2. ~isNew(food[f]) /\ food[f].store = hand[c].store
    BY <1>3 DEF findByIdAndStoreId
  <2>3. hand[c].amount \in Int
    <3>1. \A n \in Amounts \cup {0} : n \in Int
      BY AmountsAssumption
    <3> QED BY <2>1, <3>1
  <2>4. /\ e \in FoodRow /\ e.version = food[f].version + 1
        /\ e.store = food[f].store /\ e.name = food[f].name
        /\ e.noOfPlates = food[f].noOfPlates + hand[c].amount
    <3>1. food[f] \in [version : Nat \ {0}, store : Stores, name : FoodNames, noOfPlates : Int]
      BY <2>1, <2>2, FoodRowFacts
    <3> DEFINE n == food[f].noOfPlates + hand[c].amount
               m == food[f].version + 1
    <3>2. n \in Int /\ m \in Nat \ {0} /\ e = [food[f] EXCEPT !.version = m, !.noOfPlates = n]
      BY <2>3, <3>1 DEF FoodCooked, nextVersion
    <3> HIDE DEF n, m, e, f
    <3>3. /\ e \in [version : Nat \ {0}, store : Stores, name : FoodNames, noOfPlates : Int]
          /\ e.version = m /\ e.store = food[f].store /\ e.name = food[f].name
          /\ e.noOfPlates = n
      BY <3>1, <3>2
    <3> QED BY <3>3 DEF FoodRow, n, m, f
  <2> HIDE DEF e
  <2>5. h \in Hand /\ h.food = f /\ h.store = hand[c].store /\ h.vendor = hand[c].vendor
        /\ h.entity = e /\ h.amount = hand[c].amount
    BY <1>1, <2>4 DEF Hand
  <2>6. hand' = [hand EXCEPT ![c] = h]
    BY <1>3 DEF FInv, FoodTypeOK
  <2> HIDE DEF h, f
  <2>7. HoldsOwnStore(h)
    BY <1>1, <2>5 DEF HoldsOwnStore, f
  <2>8. FoodPending(h, food[f], "select")
    <3>1. food[f].version \in Nat
      BY <2>1, FoodRowFacts
    <3> QED BY <2>2, <2>4, <2>5, <3>1 DEF FoodPending, CookedFrom
  <2> QED BY <1>3, <2>5, <2>6, <2>7, <2>8, HandFInv
<1> QED BY <1>2, <1>3 DEF LoadAndCook

\* save finds nothing to write only when the food is there, and in this store.
LEMMA SelectFoodFInv ==
  ASSUME FInv, NEW c \in Chefs, SelectFood(c), UNCHANGED vars
  PROVE  FInv'
<1> DEFINE f == hand[c].food
           label == IF hand[c].entity = food[f] THEN "ok" ELSE "write"
           h == [hand[c] EXCEPT !.seen = food[f]]
<1>1. /\ at[c] = "select" /\ hand[c] \in Hand /\ HoldsOwnStore(hand[c])
      /\ FoodPending(hand[c], food[f], "select")
  BY DEF SelectFood, FInv, FoodTypeOK, HandsAreCurrent, Hand
<1>2. f \in Foods /\ food[f] \in FoodRow
  BY <1>1 DEF HoldsOwnStore, FInv, FoodTypeOK
<1>3. /\ hand' = [hand EXCEPT ![c].seen = food[f]] /\ Reach(c, label)
      /\ UNCHANGED <<food, foodEvents>>
  BY DEF SelectFood
<1>4. /\ h \in Hand /\ h.food = f /\ h.store = hand[c].store /\ h.vendor = hand[c].vendor
      /\ h.entity = hand[c].entity /\ h.amount = hand[c].amount /\ h.seen = food[f]
  BY <1>1, <1>2 DEF Hand
<1>5. hand' = [hand EXCEPT ![c] = h]
  BY <1>3 DEF FInv, FoodTypeOK
<1> HIDE DEF h
<1>6. HoldsOwnStore(h)
  BY <1>1, <1>4 DEF HoldsOwnStore
<1>7. FoodPending(h, food[f], label)
  BY <1>1, <1>4 DEF FoodPending, CookedFrom
<1>8. label = "ok" => ~isNew(food[f]) /\ food[f].store = h.store
  BY <1>1, <1>4 DEF FoodPending, isNew
<1>9. label \in {"write", "ok"}
  OBVIOUS
<1> HIDE DEF label, f
<1> QED BY <1>3, <1>4, <1>5, <1>6, <1>7, <1>8, <1>9, HandFInv

------------------------------------------------------------------------------
(* The step that writes.                                                    *)

\* A transaction that commits found the row its request had cooked, and leaves the
\* entity that was validated; its event is the next one of the food.
LEMMA CommitFoodEffect ==
  ASSUME FInv, NEW c \in Chefs, CommitFood(c)
  PROVE  LET h == hand[c]
             event == [aggregateId |-> h.food, version |-> h.entity.version,
                       noOfPlates |-> h.amount]
         IN  /\ h \in Hand /\ HoldsOwnStore(h) /\ h.food \in Foods
             /\ FoodPending(h, food[h.food], "write")
             /\ h.entity.version = food[h.food].version + 1
             /\ CookedFrom(h, food[h.food]) /\ h.seen = food[h.food]
             /\ h.entity.noOfPlates >= 0
             /\ isNew(food[h.food]) => ~NameTaken(h.entity)
             /\ food' = [food EXCEPT ![h.food] = h.entity]
             /\ event \in FoodEvent /\ foodEvents' = foodEvents \cup {event}
             /\ at' = [at EXCEPT ![c] = "ok"] /\ hand' = hand
<1> DEFINE h == hand[c]
           f == h.food
           event == [aggregateId |-> f, version |-> h.entity.version, noOfPlates |-> h.amount]
<1>1. h \in Hand /\ HoldsOwnStore(h) /\ FoodPending(h, food[f], "write")
  BY DEF CommitFood, FInv, FoodTypeOK, HandsAreCurrent, Hand
<1>2. f \in Foods /\ food[f] \in FoodRow /\ h.entity \in FoodRow
  BY <1>1 DEF HoldsOwnStore, FInv, FoodTypeOK, Hand
<1>3. food[f].version \in Nat /\ h.entity.version \in Nat
  BY <1>2, FoodRowFacts
<1>4. ~FoodRefused(c)
  BY DEF CommitFood
<1>5. h.entity.version \notin 1..food[f].version
  <2>1. \A n \in 1..food[f].version : \E e \in foodEvents : e.aggregateId = f /\ e.version = n
    BY <1>2 DEF FInv, FoodTables, FoodFollows, FoodLog
  <2> QED BY <1>4, <2>1 DEF FoodRefused, VersionTaken
<1>6. h.entity.version = food[f].version + 1
  BY <1>1, <1>3, <1>5 DEF FoodPending
<1>7. CookedFrom(h, food[f]) /\ h.seen = food[f]
  BY <1>1, <1>6 DEF FoodPending
<1>8. h.entity.noOfPlates >= 0 /\ (isNew(food[f]) => ~NameTaken(h.entity))
  BY <1>4, <1>7 DEF FoodRefused, Valid
<1>9. MergedFood(h.entity, h.seen, food[f]) = h.entity
  BY <1>2, <1>7, MergedFoodOverSame
<1>10. food' = [food EXCEPT ![f] = h.entity]
  BY <1>2, <1>9 DEF CommitFood, FInv, FoodTypeOK
<1>11. event \in FoodEvent
  BY <1>1, <1>2, <1>3 DEF FoodEvent, Hand
<1>12. foodEvents' = foodEvents \cup {event} /\ at' = [at EXCEPT ![c] = "ok"] /\ hand' = hand
  BY DEF CommitFood, Reach
<1> QED BY <1>1, <1>2, <1>6, <1>7, <1>8, <1>10, <1>11, <1>12

\* A commit keeps the invariant.
LEMMA CommitFoodFInv ==
  ASSUME FInv, NEW c \in Chefs, CommitFood(c), UNCHANGED vars
  PROVE  FInv'
<1> DEFINE h == hand[c]
           f == h.food
           row == food[f]
           mine == h.entity
           event == [aggregateId |-> f, version |-> mine.version, noOfPlates |-> h.amount]
<1>1. /\ h \in Hand /\ HoldsOwnStore(h) /\ f \in Foods
      /\ FoodPending(h, row, "write")
      /\ mine.version = row.version + 1
      /\ CookedFrom(h, row) /\ h.seen = row
      /\ mine.noOfPlates >= 0
      /\ isNew(row) => ~NameTaken(mine)
      /\ event \in FoodEvent
      /\ at' = [at EXCEPT ![c] = "ok"] /\ hand' = hand /\ store' = store
  BY CommitFoodEffect DEF vars
<1>2. food' = [food EXCEPT ![f] = mine] /\ foodEvents' = foodEvents \cup {event}
  BY CommitFoodEffect
<1>3. event.aggregateId = f /\ event.version = mine.version /\ event.noOfPlates = h.amount
  OBVIOUS
<1>4. row \in FoodRow /\ mine \in FoodRow
  BY <1>1 DEF FInv, FoodTypeOK, Hand
<1>5. row.version \in Nat
  BY <1>4, FoodRowFacts
<1>6. mine.store = h.store /\ mine.noOfPlates = row.noOfPlates + h.amount
      /\ (~isNew(row) => mine.name = row.name /\ mine.store = row.store)
  BY <1>1 DEF FoodPending, CookedFrom
<1>7. ~isNew(mine) /\ mine.store \in Stores /\ mine.name \in FoodNames
  <2>1. ~isNew(mine)
    BY <1>1, <1>5 DEF isNew
  <2> QED BY <1>4, <2>1, FoodRowFacts
<1>8. food'[f] = mine /\ \A g \in Foods : g # f => food'[g] = food[g]
  BY <1>1, <1>2 DEF FInv, FoodTypeOK
<1>9. food' \in [Foods -> FoodRow]
  BY <1>1, <1>2, <1>4 DEF FInv, FoodTypeOK
<1>10. FoodTypeOK'
  <2>1. foodEvents' \subseteq FoodEvent
    BY <1>1, <1>2 DEF FInv, FoodTypeOK, FoodEvent
  <2> QED BY <1>1, <1>9, <2>1 DEF FInv, FoodTypeOK, FoodEvent
<1> HIDE DEF event, mine, row, f, h
<1>11. FoodTables'
  <2> SUFFICES ASSUME NEW g \in Foods PROVE FoodFollows(food'[g], FoodLog(g)')
    BY DEF FoodTables
  <2>1. FoodFollows(food[g], FoodLog(g))
    BY DEF FInv, FoodTables
  <2>2. CASE g = f
    <3>1. FoodLog(g)' = FoodLog(g) \cup {event}
      BY <1>2, <1>3, <2>2 DEF FoodLog
    <3>2. FoodFollows(row, FoodLog(g))
      BY <2>1, <2>2 DEF row
    <3>3. FoodFollows(mine, FoodLog(g) \cup {event})
      BY <1>1, <1>3, <1>4, <1>6, <3>2, NextPlates
    <3> QED BY <1>8, <2>2, <3>1, <3>3
  <2>3. CASE g # f
    <3>1. FoodLog(g)' = FoodLog(g)
      BY <1>2, <1>3, <2>3 DEF FoodLog
    <3> QED BY <1>8, <2>1, <2>3, <3>1
  <2> QED BY <2>2, <2>3
<1>12. PlatesNeverNegative'
  BY <1>1, <1>8 DEF FInv, PlatesNeverNegative
<1>13. FoodNamesAreUnique'
  <2> SUFFICES ASSUME NEW g \in Foods, NEW k \in Foods, g # k, ~isNew(food'[g]),
                      food'[g].store = food'[k].store
               PROVE  food'[g].name # food'[k].name
    BY DEF FoodNamesAreUnique
  <2>1. \A i \in Foods : food[i] \in FoodRow /\ (isNew(food[i]) => food[i].store = NoStore)
    BY FoodRowFacts DEF FInv, FoodTypeOK, EmptyFood
  <2>2. \A i, j \in Foods :
          i # j /\ ~isNew(food[i]) /\ food[i].store = food[j].store
            => food[i].name # food[j].name
    BY DEF FInv, FoodNamesAreUnique
  <2>3. CASE isNew(row)
    <3>1. \A i \in Foods : ~isNew(food[i]) /\ food[i].store = mine.store
                             => food[i].name # mine.name
      BY <1>1, <2>3 DEF NameTaken
    <3>2. \A i \in Foods : food[i].store = mine.store => ~isNew(food[i])
      BY <1>7, <2>1, NoStoreAssumption
    <3> QED BY <1>8, <2>2, <3>1, <3>2
  <2>4. CASE ~isNew(row)
    <3>1. \A i \in Foods : i # f /\ food[i].store = mine.store
            => ~isNew(food[i]) /\ food[i].name # mine.name
      BY <1>1, <1>6, <1>7, <2>1, <2>2, <2>4, NoStoreAssumption DEF row
    <3> QED BY <1>8, <2>2, <3>1
  <2> QED BY <2>3, <2>4
<1>14. HandsAreCurrent'
  <2> SUFFICES ASSUME NEW b \in Chefs PROVE HandHeld(b)'
    BY DEF HandsAreCurrent, HandHeld
  <2>1. HandHeld(b)
    BY DEF FInv, HandsAreCurrent, HandHeld
  <2>2. HoldsOwnStore(hand[b])' <=> HoldsOwnStore(hand[b])
    BY <1>1 DEF HoldsOwnStore
  <2>3. CASE b = c
    BY <1>1, <1>6, <1>7, <1>8, <2>2, <2>3 DEF HandHeld, h, f, FInv, FoodTypeOK
  <2>4. CASE b # c
    <3>1. at'[b] = at[b] /\ hand'[b] = hand[b]
      BY <1>1, <2>4 DEF FInv, FoodTypeOK
    <3>2. at[b] \in {"load", "select", "write", "ok"} => hand[b].food \in Foods
      BY <2>1 DEF HandHeld, HoldsOwnStore
    <3>3. CASE hand[b].food # f
      <4>1. at[b] \in {"select", "write", "ok"} => food'[hand[b].food] = food[hand[b].food]
        BY <1>8, <3>2, <3>3
      <4> QED BY <2>1, <2>2, <3>1, <4>1 DEF HandHeld
    <3>4. CASE hand[b].food = f
      <4>1. at[b] \in {"select", "write"} => FoodPending(hand[b], mine, at[b])
        <5>1. at[b] \in {"select", "write"} => FoodPending(hand[b], row, at[b])
          BY <2>1, <3>4 DEF HandHeld, row
        <5>2. hand[b].entity.version \in Nat
          BY FoodRowFacts DEF FInv, FoodTypeOK
        <5> QED BY <1>1, <1>5, <5>1, <5>2 DEF FoodPending
      <4>2. at[b] = "ok" => ~isNew(mine) /\ mine.store = hand[b].store
        BY <1>6, <1>7, <2>1, <3>4 DEF HandHeld, row
      <4> QED BY <1>8, <2>1, <2>2, <3>1, <3>4, <4>1, <4>2 DEF HandHeld
    <3> QED BY <3>3, <3>4
  <2> QED BY <2>3, <2>4
<1> QED BY <1>10, <1>11, <1>12, <1>13, <1>14 DEF FInv

------------------------------------------------------------------------------
(* The invariant.                                                           *)

\* It holds when no food has been created.
LEMMA InitFInv == FoodInit => FInv
<1> SUFFICES ASSUME FoodInit PROVE FInv
  OBVIOUS
<1>1. \A f \in Foods : food[f] = EmptyFood
  BY DEF FoodInit
<1>2. EmptyFood \in FoodRow /\ EmptyFood.version = 0 /\ EmptyFood.noOfPlates = 0
  BY DEF EmptyFood, FoodRow
<1>3. FoodTypeOK
  <2>1. EmptyHand \in Hand
    BY <1>2 DEF EmptyHand, Hand
  <2> QED BY <1>2, <2>1 DEF FoodInit, FoodTypeOK, Hand
<1>4. FoodTables
  <2> SUFFICES ASSUME NEW f \in Foods PROVE FoodFollows(EmptyFood, {})
    BY <1>1 DEF FoodTables, FoodLog, FoodInit
  <2> QED BY <1>2, TotalEmpty, FS_EmptySet DEF FoodFollows
<1>5. PlatesNeverNegative /\ FoodNamesAreUnique
  BY <1>1, <1>2 DEF PlatesNeverNegative, FoodNamesAreUnique, isNew
<1>6. HandsAreCurrent
  BY DEF FoodInit, HandsAreCurrent
<1> QED BY <1>3, <1>4, <1>5, <1>6 DEF FInv

\* Every step keeps it, given what the stores promise.
LEMMA NextFInv == IInv /\ FInv /\ [FoodNext]_<<vars, foodVars>> => FInv'
<1> SUFFICES ASSUME IInv, FInv, [FoodNext]_<<vars, foodVars>> PROVE FInv'
  OBVIOUS
<1>1. CASE [Next]_vars /\ UNCHANGED foodVars
  BY <1>1, StoreStepFInv
<1>2. ASSUME UNCHANGED vars, NEW c \in Chefs,
             \/ \E v \in Vendors, name \in FoodNames, f \in Foods :
                  createFoodCookingSpace(c, v, name, f)
             \/ \E v \in Vendors, f \in Foods, amount \in Amounts :
                  cookPlatesOfFood(c, v, f, amount)
             \/ LoadAndCook(c) \/ SelectFood(c) \/ CommitFood(c) \/ RollbackFood(c)
      PROVE  FInv'
  <2>1. CASE \E v \in Vendors, name \in FoodNames, f \in Foods :
               createFoodCookingSpace(c, v, name, f)
    BY <1>2, <2>1, CreateFoodFInv
  <2>2. CASE \E v \in Vendors, f \in Foods, amount \in Amounts : cookPlatesOfFood(c, v, f, amount)
    BY <1>2, <2>2, CookFInv
  <2>3. CASE LoadAndCook(c)
    BY <1>2, <2>3, LoadAndCookFInv
  <2>4. CASE SelectFood(c)
    BY <1>2, <2>4, SelectFoodFInv
  <2>5. CASE CommitFood(c)
    BY <1>2, <2>5, CommitFoodFInv
  <2>6. CASE RollbackFood(c)
    BY <1>2, <2>6, EndWithFInv DEF RollbackFood
  <2> QED BY <1>2, <2>1, <2>2, <2>3, <2>4, <2>5, <2>6
<1> QED BY <1>1, <1>2 DEF FoodNext, KitchenNext

\* The kitchens leave the stores a behaviour of StoreSales, so that all that is proved
\* of those holds here too.
LEMMA StoresGoOn == FoodSpec => Spec
<1>1. FoodInit => Init
  BY DEF FoodInit
<1> QED BY <1>1, FoodStepIsStep, PTL DEF FoodSpec, Spec

\* The kitchens' inductive invariant is one, relative to that of the stores.
THEOREM FoodInvariance == FoodSpec => [](IInv /\ FInv)
<1>1. FoodSpec => []IInv
  BY StoresGoOn, Invariance, PTL
<1> QED BY <1>1, InitFInv, NextFInv, PTL DEF FoodSpec

\* The table, its log and what the requests on food hold in memory keep their types
\* (food-cooking-space.entity.ts, store.controller.ts).
THEOREM FoodTypeCorrect == FoodSpec => []FoodTypeOK
<1>1. FInv => FoodTypeOK
  BY DEF FInv
<1> QED BY <1>1, FoodInvariance, PTL

\* The plates of a food are those that its log has cooked, however stale the entities
\* that save merges over its row (food-cooking-space.entity.ts, FoodCooked).
THEOREM PlatesFollowTheLog == FoodSpec => []PlatesFollowLog
<1>1. FInv => PlatesFollowLog
  <2> SUFFICES ASSUME FInv, NEW f \in Foods
               PROVE  /\ food[f].version = Cardinality(FoodLog(f))
                      /\ food[f].noOfPlates =
                           MapThenSumSet(LAMBDA e : e.noOfPlates, FoodLog(f))
    BY DEF PlatesFollowLog, FoodLog
  <2>1. FoodFollows(food[f], FoodLog(f))
    BY DEF FInv, FoodTables
  <2> QED BY <2>1, PlatesAreTotal DEF FoodFollows
<1> QED BY <1>1, FoodInvariance, PTL

\* The plates in the table are never negative: the row written is the entity that was
\* validated, not a merge of two (food-cooking-space.entity.ts, beforeSave).
THEOREM PlatesStayPositive == FoodSpec => []PlatesNeverNegative
<1>1. FInv => PlatesNeverNegative
  BY DEF FInv
<1> QED BY <1>1, FoodInvariance, PTL

\* A store does not offer two foods of one name (food-cooking-space.entity.ts, @Unique).
THEOREM NamesStayUnique == FoodSpec => []FoodNamesAreUnique
<1>1. FInv => FoodNamesAreUnique
  BY DEF FInv
<1> QED BY <1>1, FoodInvariance, PTL

\* Whoever has food cooked owns its store, though stores are opened and closed between
\* the handler's look at the store and the commit (store.controller.ts).
THEOREM CooksOwnTheStore == FoodSpec => []CookedByOwner
<1>1. FInv => CookedByOwner
  BY DEF FInv, HandsAreCurrent, HoldsOwnStore, CookedByOwner
<1> QED BY <1>1, FoodInvariance, PTL
==============================================================================
