SPECIFICATION FairSpec
CONSTANTS
  Requests = {1, 2, 3, 4, 5, 6}
  Threads = {t1, t2}
  Null = Null
  Garbage = Garbage
  StartThreads = 1
  MaxThreads = 2
  MinSpare = 1
  MaxSpare = 1
  MaxPerThread = 0
  InitQueueSize = 4
  MaxQueueSize = 8
  CallsClean = FALSE
INVARIANTS
  TypeOK
  NoLostWakeup
  ActiveExact
  HandledAtMostOnce
PROPERTIES
  ImplementsQueue
  WaitingIsServed
CHECK_DEADLOCK FALSE
