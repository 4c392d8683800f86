SPECIFICATION FairSpec
CONSTANTS
  Chain <- Chains
  Subjects = {1}
  DefIds <- DefinitionIds
  Assigned <- Assignments
  Defined <- Definitions
  URLs = {"a", "b"}
  Absent = Absent
  FirstTable <- Tables
  DayLen = 2
  Week = 2
  MaxEvents <- Events

  
  
PROPERTIES
  EventuallyInLine
  DecisionEnds
