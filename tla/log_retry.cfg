\* An unlimited storage; buckets fail, time out and get lost in every combination.
SPECIFICATION Spec
CONSTANTS
  MaxRecords = 4
  RecordSize <- SmallAndLarge
  MaxStorage = 0
  ForcedSize = 0
  BucketSize = 2
  ThresholdVolume = 2
  ThresholdCount = 2
  BucketIds = 5
  ListMayEnd = TRUE
  MaxFailures = 2
  MaxTimeouts = 1
  MaxDrops = 1
INVARIANTS
  TypeOK
  LastIsTail
  DeliveredOnce
PROPERTIES
  KeptUntilDelivered
CHECK_DEADLOCK FALSE
