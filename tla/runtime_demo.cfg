SPECIFICATION Spec
CONSTANTS
  Strategies = {"oneshot"}
  Accounts = {"paper_acc"}
  Limits <- MCLimits
  RateWindow = 60
  FillModel = "immediate"
  QueueQuarters = 2
  FeeScale = 10
  MakerFee = 1
  TakerFee = 2
  Threads = {t1}
  OrderIds = {"o1", "o2", "o3"}
  Request <- MCMixed
  Ticks <- MCImproving
  SeedQuote = 1000
  MaxCrashes = 1
  MaxFaults = 1
  EarlyCalls = FALSE
INVARIANTS
  TypeOK
  CopiesAgree
  StoredBalancesCurrent
  BookingsMatchLiveOrders
PROPERTIES
  StoreKeepsLifecycle
