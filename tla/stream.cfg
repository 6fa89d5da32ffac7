SPECIFICATION FairSpec
CONSTANTS
  Base = 2
  InSize = 3
  OutSize = 6
  ConnectSize = 2
  SyncSizes = {2}
  LastWords = FALSE
  MaxConnections = 2
  MaxSent = 2
  MaxSyncs = 2
  MaxPings = 1
INVARIANTS CleanBetweenConnections
PROPERTIES ToClient ToServer SaysGoodbye RequestsArrive MessagesArrive
CHECK_DEADLOCK FALSE
