SPECIFICATION Spec
CONSTANTS
  Intents = {i1, i2, i3}
  ClientOrderIds = {k1, k2}
  Quantities = {1, 2}
  Prices = {4, 5}
  MaxOrders = 3
  RetryUnknown = FALSE
SYMMETRY MCSymmetry
INVARIANTS
  TypeOK
  IdempotentAnswers
  PlacedOnce
  LiveOrdersKnown
  CleanReportHidesPairsOnly
