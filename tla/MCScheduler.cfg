SPECIFICATION FairSpec
CONSTANTS
  core = core
  daily = daily
  Jobs = {core, daily}
  Crontab <- Tabs
  Calendar <- Night
  Nodes = {n1, n2}
  Children = {t1, t2}
  Null = Null
  MaxFaults = 1
INVARIANTS
  TypeOK
  WalkOnList
  NodeOutlivesThread
  OneRunPerJob
PROPERTIES
  EveryMinuteVisited
  ShutdownEnds
  JobsKeepRunning
