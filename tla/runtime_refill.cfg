SPECIFICATION Spec
CONSTANTS
  Strategies = {"oneshot"}
  Accounts = {"paper_acc"}
  Limits <- MCLimits
  RateWindow = 60
  FillModel = "immediate"
  QueueQuarters = 2
  FeeScale = 10
  MakerFee = 1
  TakerFee = 2
  Threads = {t1}
  OrderIds = {"o1"}
  Request <- MCLimitBuy
  Ticks <- MCTicks
  SeedQuote = 1000
  MaxCrashes = 1
  MaxFaults = 0
  EarlyCalls = FALSE
INVARIANTS
  ExecutedAtMostOnce
