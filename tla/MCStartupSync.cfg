SPECIFICATION FairSpec
CONSTANTS
  u1 = u1
  Users = {u1}
  Rules = {r1}
  RuleOwner <- Owner
  Nodes = {n1, n2, n3}
  Null = Null
  MaxEdits = 1
  MaxFaults = 1
PROPERTIES
  TableHeals
  DuplicateLeavesOne
CHECK_DEADLOCK FALSE
