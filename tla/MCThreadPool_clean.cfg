SPECIFICATION Spec
CONSTANTS
  Requests = {1, 2, 3}
  Threads = {t1, t2, t3}
  Null = Null
  Garbage = Garbage
  StartThreads = 1
  MaxThreads = 3
  MinSpare = 1
  MaxSpare = 1
  MaxPerThread = 1
  InitQueueSize = 2
  MaxQueueSize = 2
  CallsClean = TRUE
INVARIANTS
  HandlesExact
  NoRequestVanishes
SYMMETRY Symmetry
CHECK_DEADLOCK FALSE
