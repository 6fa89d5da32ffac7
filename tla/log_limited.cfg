\* A storage that gets full; the server stores whatever it gets, but connections
\* are lost and statuses late.
SPECIFICATION FairSpec
CONSTANTS
  MaxRecords = 7
  RecordSize <- SmallAndLarge
  MaxStorage = 4
  ForcedSize = 2
  BucketSize = 2
  ThresholdVolume = 2
  ThresholdCount = 3
  BucketIds = 20
  ListMayEnd = FALSE
  MaxFailures = 0
  MaxTimeouts = 2
  MaxDrops = 2
INVARIANTS
  CountersMatch
  WithinMaxSize
  CursorInStorage
  AwaitedIsTimed
PROPERTIES
  OldestFirst
  ThresholdUploads
CHECK_DEADLOCK FALSE
