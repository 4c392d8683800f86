SPECIFICATION FairSpec
CONSTANTS
  Plugins = {"time", "ip", "squid"}
  Keys = {1, 2}
  Tries = 2
  None = None
  MaxPackets <- Packets
  MaxEvents <- Events
INVARIANTS
  LogBytesKept
  OneRow
  UnloadExports
PROPERTIES
  EventuallyStored
