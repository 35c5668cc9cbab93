SPECIFICATION SystemSpec
CONSTANTS
  Threads = 2
  Conns = {1, 2, 3, 4}
  Bound = 1
  Timeouts = {1}
  UringSize = 2
  MaxAwaits = 1
  MaxTime = 1
INVARIANTS
  TypeOK
  HandedToOneWorker
PROPERTIES
  MainHandsOver
  QueuedConnsStart
CHECK_DEADLOCK FALSE
