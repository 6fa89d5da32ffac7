\* Two buckets on their way, nothing fails.
SPECIFICATION Spec
CONSTANTS
  MaxRecords = 4
  RecordSize <- AllAlike
  MaxStorage = 0
  ForcedSize = 0
  BucketSize = 2
  ThresholdVolume = 9
  ThresholdCount = 1
  BucketIds = 9
  ListMayEnd = FALSE
  MaxFailures = 0
  MaxTimeouts = 0
  MaxDrops = 0
INVARIANTS
  EveryBucketTimed
CHECK_DEADLOCK FALSE
