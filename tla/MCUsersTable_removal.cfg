SPECIFICATION Spec
CONSTANTS
  u1 = u1
  r1 = r1
  r2 = r2
  Users = {u1}
  Rules = {r2}
  RuleOwner <- Owner
  Rank <- Order
  NextRules = {}
  SumRules = {}
  Nodes = {n1, n2}
  Null = Null
  Word = 4
  Races = FALSE
  LostReplies = FALSE
  MaxPackets = 1
  MaxEdits = 1
  MaxFaults = 0
INVARIANT RemovalIsHandled
CHECK_DEADLOCK FALSE
