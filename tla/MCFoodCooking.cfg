SPECIFICATION FoodSpec
CONSTANTS
  r1 = r1
  r2 = r2
  r3 = r3
  r4 = r4
  c1 = c1
  c2 = c2
  c3 = c3
  s1 = s1
  s2 = s2
  v1 = v1
  v2 = v2
  f1 = f1
  f2 = f2
  n1 = n1
  NoStore = NoStore
  NoVendor = NoVendor
  NoFood = NoFood
  NoName = NoName
  HasSuperAdmin = TRUE
  FoodMapped = TRUE
  Requests <- MCRequests
  Stores <- MCStores
  Vendors <- MCVendors
  Chefs <- MCChefs
  Foods <- MCFoods
  FoodNames <- MCFoodNames
  Amounts <- MCAmounts
SYMMETRY Symmetry
INVARIANTS
  TypeOK
  RowIsLastEvent
  HistoryIsLegal
  AcknowledgedIsRecorded
  FoodTypeOK
  PlatesFollowLog
  PlatesNeverNegative
  FoodNamesAreUnique
  CookedByOwner
PROPERTIES
  ImplementsContract
\* every request is served once: the run ends when all of them are answered
CHECK_DEADLOCK FALSE
