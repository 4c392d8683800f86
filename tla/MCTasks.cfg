SPECIFICATION FairSpec
CONSTANTS
  u1 = u1
  u4 = u4
  r3 = r3
  Rows = {u1, u4, r3}
  RuleRows = {r3}
  Type <- Types
  Limitation <- Limits
  Charged <- Owners
  Age <- Ages
  Due <- Dates
  Tries = 2
  ReportRollsBack = FALSE
  MaxTime = 2
  MaxExports = 1
  MaxEvents = 1
INVARIANTS
  TypeOK
  BytesKept
  ReportComplete
  ResetWithinTwoPeriods
PROPERTIES
  LimitsApplied
  TasksEnd
CHECK_DEADLOCK FALSE
