SPECIFICATION FairSpec
CONSTANTS
  Strategies = {"oneshot"}
  Accounts = {"paper_acc"}
  Limits <- MCLimits
  RateWindow = 60
  FillModel = "l1"
  QueueQuarters = 2
  FeeScale = 10
  MakerFee = 1
  TakerFee = 2
  Threads = {t1, t2}
  OrderIds = {"o1"}
  Request <- MCLimitBuy
  Ticks <- MCTicks
  SeedQuote = 114
  MaxCrashes = 0
  MaxFaults = 1
  EarlyCalls = FALSE
INVARIANTS
  FillsReachTheStore
  BalancesNonNegative
  PortfolioMatchesFills
PROPERTIES
  ExecutionEventuallyStored
