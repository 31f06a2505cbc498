SPECIFICATION Spec
CONSTANTS
  Strategies = {"s1", "s2"}
  Accounts = {"acc"}
  OrderIds = {o1, o2, o3}
  Limits <- MCLimits
  RateWindow = 2
  Intents <- MCIntents
  MarketFacts <- MCFacts
  RestoredBookings <- MCStored
  LossFacts <- MCLosses
  MaxTime = 4
  MaxRejects = 3
  MaxApprovals = 4
SYMMETRY MCIdSymmetry
INVARIANTS
  BookingsExact
  CapsHold
  TypeOK
  RateHolds
  BreakerTrips
PROPERTIES
  KillSwitchHolds
