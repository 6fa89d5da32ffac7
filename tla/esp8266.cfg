SPECIFICATION FairSpec
CONSTANTS
  Limit = 2
  NOps = 1
  FaultKinds = {"init", "wifi", "connect", "memory", "send", "command", "frame", "timeout", "close", "refuse", "disconnect"}
  MaxFaults = 2
  MaxSyncs = 1
  MaxPings = 1
INVARIANTS ConnectedChannelHasItsSlot
PROPERTIES ReachesOperations
CHECK_DEADLOCK FALSE
