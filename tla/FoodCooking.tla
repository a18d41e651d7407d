----------------------------- MODULE FoodCooking -----------------------------
(***************************************************************************)
(* The kitchens: the two endpoints of StoreController on the               *)
(* FoodCookingSpace aggregate, run concurrently with each other and with   *)
(* the requests of StoreSales that open and close the stores.              *)
(*                                                                         *)
(* A request takes a step per await on the database, and the transaction   *)
(* of a save is one step, as in StoreSales.  Prices never change and are   *)
(* left out, so is FoodSold: nothing in the code calls sell().             *)
(*                                                                         *)
(* FoodCookingSpace is no @Entity at this commit, and its events are no    *)
(* child entities: FoodMapped = FALSE is the code as it is, in which every *)
(* use of its repository throws; TRUE is the code with them mapped.        *)
(***************************************************************************)
EXTENDS StoreSales, Integers, FiniteSets, FiniteSetsExt

CONSTANTS
  Chefs,     \* requests on food; each is served once
  Foods,     \* the ids `new FoodCookingSpace()` can draw
  FoodNames,
  Amounts,   \* noOfPlates of a request: nobody validates it, it may be negative
  FoodMapped,
  NoFood,
  NoName

ASSUME AmountsAssumption == Amounts \subseteq Int
ASSUME FoodMappedAssumption == FoodMapped \in BOOLEAN
ASSUME NoFoodAssumption == NoFood \notin Foods /\ NoName \notin FoodNames

VARIABLES
  food,       \* table food_cooking_space: id -> row
  foodEvents, \* its log
  at,         \* where each request on food is
  hand        \* what it holds in memory

foodVars == <<food, foodEvents, at, hand>>

------------------------------------------------------------------------------
(* The FoodCookingSpace aggregate.                                          *)

EmptyFood == [version |-> 0, store |-> NoStore, name |-> NoName, noOfPlates |-> 0]

\* The event does not hand its store over.
CreatedWithoutStore(s, name) ==
  [version |-> 1, store |-> NoStore, name |-> name, noOfPlates |-> 0]

FoodCookingSpaceCreated(s, name) ==
  [version |-> 1, store |-> s, name |-> name, noOfPlates |-> 0]

FoodCooked(row, amount) ==
  [row EXCEPT !.version = nextVersion(row), !.noOfPlates = @ + amount]

\* The number of plates has no lower bound.
ValidUnchecked(row) == TRUE

\* beforeSave validates the entity in memory.
Valid(row) == row.noOfPlates >= 0

------------------------------------------------------------------------------
(* Requests.                                                                *)

EmptyHand ==
  [vendor |-> NoVendor, food |-> NoFood, amount |-> 0, store |-> NoStore,
   entity |-> EmptyFood, seen |-> EmptyFood]

FoodInit ==
  /\ Init
  /\ food = [f \in Foods |-> EmptyFood]
  /\ foodEvents = {}
  /\ at = [c \in Chefs |-> "idle"]
  /\ hand = [c \in Chefs |-> EmptyHand]

Reach(c, label) == at' = [at EXCEPT ![c] = label]

\* The handler ends without having saved anything.
EndWith(c, label) == Reach(c, label) /\ UNCHANGED <<food, foodEvents, hand>>

\* POST api/store/food-cooking-space: new food, in the vendor's opened store.
createFoodCookingSpace(c, v, name, f) ==
  /\ at[c] = "idle"
  /\ isNew(food[f]) /\ \A b \in Chefs : hand[b].food # f
  /\ \/ findOpenedByOwner(v) = {} /\ EndWith(c, "rejected")
     \/ \E s \in findOpenedByOwner(v) :
          IF FoodMapped
          THEN /\ hand' = [hand EXCEPT ![c] =
                    [EmptyHand EXCEPT !.vendor = v, !.food = f, !.store = s,
                                      !.entity = FoodCookingSpaceCreated(s, name)]]
               /\ Reach(c, "write")
               /\ UNCHANGED <<food, foodEvents>>
          ELSE EndWith(c, "failed")

\* POST api/store/food-cooking-space/cook, up to the vendor's opened store.
cookPlatesOfFood(c, v, f, amount) ==
  /\ at[c] = "idle"
  /\ \/ findOpenedByOwner(v) = {} /\ EndWith(c, "rejected")
     \/ \E s \in findOpenedByOwner(v) :
          /\ hand' = [hand EXCEPT ![c] =
               [EmptyHand EXCEPT !.vendor = v, !.food = f, !.amount = amount, !.store = s]]
          /\ Reach(c, "load")
          /\ UNCHANGED <<food, foodEvents>>

\* The food is looked for in all stores.
findByIdInAnyStore(f, s) == {g \in {f} : ~isNew(food[g])}

findByIdAndStoreId(f, s) == {g \in {f} : ~isNew(food[g]) /\ food[g].store = s}

\* The handler loads the food of that store and cooks it in memory.
LoadAndCook(c) ==
  LET found == findByIdAndStoreId(hand[c].food, hand[c].store)
  IN  /\ at[c] = "load"
      /\ IF ~FoodMapped THEN EndWith(c, "failed")
         ELSE IF found = {} THEN EndWith(c, "rejected")
         ELSE /\ hand' = [hand EXCEPT ![c].entity = FoodCooked(food[hand[c].food], hand[c].amount)]
              /\ Reach(c, "select")
              /\ UNCHANGED <<food, foodEvents>>

\* save, first half: read the stored row.  No difference, nothing to write.
SelectFood(c) ==
  LET stored == food[hand[c].food]
  IN  /\ at[c] = "select"
      /\ hand' = [hand EXCEPT ![c].seen = stored]
      /\ Reach(c, IF hand[c].entity = stored THEN "ok" ELSE "write")
      /\ UNCHANGED <<food, foodEvents>>

\* The table has no unique constraint.
NameIsFree(row) == FALSE

\* @Unique(['storeId', 'foodName']).
NameTaken(row) ==
  \E f \in Foods : ~isNew(food[f]) /\ food[f].store = row.store /\ food[f].name = row.name

\* Nor has its log.
FoodRefusedByTable(c) ==
  \/ ~Valid(hand[c].entity)
  \/ isNew(hand[c].seen) /\ NameTaken(hand[c].entity)

FoodRefused(c) ==
  \/ ~Valid(hand[c].entity)
  \/ isNew(hand[c].seen) /\ NameTaken(hand[c].entity)
  \/ VersionTaken(foodEvents, hand[c].food, hand[c].entity.version)

MergedFood(mine, seen, stored) ==
  [column \in DOMAIN stored |-> Written(mine[column], seen[column], stored[column])]

\* save, second half: the row and its event, or neither.
CommitFood(c) ==
  LET h == hand[c]
  IN  /\ at[c] = "write"
      /\ ~FoodRefused(c)
      /\ food' = [food EXCEPT ![h.food] = MergedFood(h.entity, h.seen, @)]
      /\ foodEvents' = foodEvents \cup
           {[aggregateId |-> h.food, version |-> h.entity.version, noOfPlates |-> h.amount]}
      /\ Reach(c, "ok")
      /\ UNCHANGED hand

RollbackFood(c) == at[c] = "write" /\ FoodRefused(c) /\ EndWith(c, "failed")

KitchenNext ==
  \E c \in Chefs :
    \/ \E v \in Vendors, name \in FoodNames, f \in Foods : createFoodCookingSpace(c, v, name, f)
    \/ \E v \in Vendors, f \in Foods, amount \in Amounts : cookPlatesOfFood(c, v, f, amount)
    \/ LoadAndCook(c)
    \/ SelectFood(c)
    \/ CommitFood(c)
    \/ RollbackFood(c)

FoodNext ==
  \/ Next /\ UNCHANGED foodVars
  \/ KitchenNext /\ UNCHANGED vars

FoodSpec == FoodInit /\ [][FoodNext]_<<vars, foodVars>>

------------------------------------------------------------------------------
(* Properties.                                                              *)

FoodRow ==
  {EmptyFood} \cup
    [version : Nat \ {0}, store : Stores, name : FoodNames, noOfPlates : Int]

\* The food table, its log and what the requests on food hold keep their types.
FoodTypeOK ==
  /\ food \in [Foods -> FoodRow]
  /\ foodEvents \in SUBSET [aggregateId : Foods, version : Nat, noOfPlates : Amounts \cup {0}]
  /\ at \in [Chefs -> {"idle", "load", "select", "write", "rejected", "ok", "failed"}]
  /\ hand \in [Chefs ->
       [vendor : Vendors \cup {NoVendor}, food : Foods \cup {NoFood},
        amount : Amounts \cup {0}, store : Stores \cup {NoStore},
        entity : FoodRow, seen : FoodRow]]

\* The plates of a food are those its log has cooked, one version per event,
\* whatever stale entities save merges over its row.
PlatesFollowLog ==
  \A f \in Foods :
    LET log == {e \in foodEvents : e.aggregateId = f}
    IN  /\ food[f].version = Cardinality(log)
        /\ food[f].noOfPlates = MapThenSumSet(LAMBDA e : e.noOfPlates, log)

\* README.md: the number of plates is never negative, though requests may take
\* plates away and nothing but beforeSave looks at them.
PlatesNeverNegative == \A f \in Foods : food[f].noOfPlates >= 0

\* A store does not offer two foods of one name, however its vendor's requests race.
FoodNamesAreUnique ==
  \A f, g \in Foods :
    (f # g /\ ~isNew(food[f]) /\ food[f].store = food[g].store) => food[f].name # food[g].name

\* Only the vendor who owns the store of a food has plates of it cooked.
CookedByOwner ==
  \A c \in Chefs : at[c] = "ok" => store[food[hand[c].food].store].owner = hand[c].vendor
==============================================================================
