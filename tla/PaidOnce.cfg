SPECIFICATION Spec
CONSTANTS
  r1 = r1
  r2 = r2
  r3 = r3
  r4 = r4
  d1 = d1
  d2 = d2
  o1 = o1
  o2 = o2
  s1 = s1
  s2 = s2
  v1 = v1
  f1 = f1
  f2 = f2
  g1 = g1
  lost = lost
  NoStore = NoStore
  NoPayment = NoPayment
  NoOrderId = NoOrderId
  Requests <- MCRequests
  Orders <- MCOrders
  Jobs = {}
  Stores <- MCStores
  Vendors <- MCVendors
  OwnerOf <- MCOwnerOf
  Foods <- MCFoods
  StoreOf <- MCStoreOf
  PricePerPlate <- MCPrice
  Baskets <- OneBasket
  PaymentIds <- MCPaymentIds
  MaxRetries = 1
  MaxBatch = 1
  SplitNumerator = 1
  SplitDenominator = 2
  BatchInterval = 1
  StartTime = 1
  MaxTime = 1
  MayCrash = FALSE
  Repaired <- AllRepaired
SYMMETRY Symmetry
INVARIANTS
  PaidOnce
\* every request is served once, every job started once: the run ends when all are
CHECK_DEADLOCK FALSE
