SPECIFICATION FairSpec
CONSTANTS
  Threads = {t1, t2}
  NoThread = NoThread
  Instruments = {"SOL"}
  ClientOrderIds = {"c1", "c2"}
  OrderIds = {o1, o2}
  FillModel = "queue"
  QueueQuarters = 2
  Requests <- MCMakers
  Restorable <- MCNothingStored
  Ticks <- MCQueueTicks
  EarlyCalls = FALSE
PROPERTIES
  CrossedOrderExecutes
  FillsCollected
