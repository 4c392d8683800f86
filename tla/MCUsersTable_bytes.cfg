SPECIFICATION Spec
CONSTANTS
  u1 = u1
  r1 = r1
  r2 = r2
  Users = {u1}
  Rules = {r1, r2}
  RuleOwner <- Owner
  Rank <- Order
  NextRules = {r1}
  SumRules = {r1}
  Nodes = {n1}
  Null = Null
  Word = 3
  Races = FALSE
  LostReplies = FALSE
  MaxPackets = 3
  MaxEdits = 1
  MaxFaults = 1
INVARIANTS
  TypeOK
  UserBytesConserved
  RuleNeverOverbilled
CHECK_DEADLOCK FALSE
