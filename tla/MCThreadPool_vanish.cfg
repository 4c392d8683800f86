SPECIFICATION Spec
CONSTANTS
  Requests = {1, 2, 3, 4, 5}
  Threads = {t1, t2}
  Null = Null
  Garbage = Garbage
  StartThreads = 1
  MaxThreads = 2
  MinSpare = 1
  MaxSpare = 1
  MaxPerThread = 0
  InitQueueSize = 4
  MaxQueueSize = 8
  CallsClean = FALSE
INVARIANT NoRequestVanishes
SYMMETRY Symmetry
CHECK_DEADLOCK FALSE
