SPECIFICATION Spec
CONSTANTS
  Threads = {t1}
  NoThread = NoThread
  Instruments = {"SOL"}
  ClientOrderIds = {"c1", "c2"}
  OrderIds = {o1, o2}
  FillModel = "l1"
  QueueQuarters = 2
  Requests <- MCAllKinds
  Restorable <- MCRestorable
  Ticks <- MCTicks
  EarlyCalls = FALSE
SYMMETRY MCIdSymmetry
INVARIANTS
  TypeOK
  FokAllOrNone
  IocNeverRests
  OneLiveOrderPerClid
