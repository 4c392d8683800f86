SPECIFICATION FairSpec
CONSTANTS
  Rules = {1}
  Collectors = 2
  Limit <- Limits
  Unlimited = Unlimited
  Absent = Absent
  Gone = Gone
  None = None
  Settings <- TwoSettings
  FirstRows <- Rows
  Periods = {"day", "week"}
  Word = 2
  Tries = 2
  MaxPackets = 3
  MaxEvents = 4

  
  
PROPERTIES
  EventuallyExported
