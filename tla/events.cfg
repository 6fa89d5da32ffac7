\* Events singly and in blocks, over lost connections, lost syncs and a restart.
SPECIFICATION FairSpec
CONSTANTS
  MaxEvents = 3
  EventIds <- AllEvents
  MaxBlocks = 1
  MaxAttaches = 0
  RequestIds = 64
  MishapKinds = {"full", "drop", "restart"}
  MaxMishaps = 3
INVARIANTS
  AlwaysWritable
PROPERTIES
  EventsInOrder
  EventsArrive
CHECK_DEADLOCK FALSE
