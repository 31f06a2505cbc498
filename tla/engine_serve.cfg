SPECIFICATION Spec
CONSTANTS
  Threads = {t1, t2}
  NoThread = NoThread
  Instruments = {"SOL"}
  ClientOrderIds = {"c1", "c2", "s1"}
  OrderIds = {o1, o2}
  FillModel = "l1"
  QueueQuarters = 2
  Requests <- MCRacing
  Restorable <- MCEarlier
  Ticks <- MCServeTicks
  EarlyCalls = TRUE
SYMMETRY MCSymmetry
INVARIANTS
  FillsConserved
  DisplayedSizeSpentOnce
PROPERTIES
  OrderLifecycleKept
