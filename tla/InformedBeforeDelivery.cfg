SPECIFICATION NotifySpec
CONSTANTS
  r1 = r1
  r2 = r2
  r3 = r3
  d1 = d1
  d2 = d2
  o1 = o1
  o2 = o2
  s1 = s1
  v1 = v1
  f1 = f1
  NoStore = NoStore
  NoPayment = NoPayment
  NoOrderId = NoOrderId
  Requests <- MCTwoRequests
  Orders = {o1}
  Jobs = {d1}
  Stores <- MCStores
  Vendors <- MCVendors
  OwnerOf <- MCOwnerOf
  Foods <- MCFoods
  StoreOf <- MCStoreOf
  PricePerPlate <- MCPrice
  Baskets <- MCBaskets
  PaymentIds <- MCPaymentIds
  MaxRetries = 1
  MaxBatch = 2
  SplitNumerator = 1
  SplitDenominator = 2
  BatchInterval = 3
  NotificationTime = 0
  MaxStalledCount = 1
  StartTime = 2
  MaxTime = 3
  MayCrash = FALSE
  Repaired <- AllRepaired
INVARIANTS
  InformedBeforeDelivery
\* every request is served once, every job started once: the run ends when all are
CHECK_DEADLOCK FALSE
