SPECIFICATION FairSpec
CONSTANTS
  u1 = u1
  r1 = r1
  r2 = r2
  Users = {u1}
  Rules = {r2}
  RuleOwner <- Owner
  Rank <- Order
  NextRules = {}
  SumRules = {}
  Nodes = {n1, n2}
  Null = Null
  Word = 4
  Races = FALSE
  LostReplies = TRUE
  MaxPackets = 1
  MaxEdits = 2
  MaxFaults = 1
PROPERTIES
  DroppedOnlyIfUnseen
  MirrorsDatabase
  BytesReachDatabase
CHECK_DEADLOCK FALSE
