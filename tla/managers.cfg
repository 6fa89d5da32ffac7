\* Profile, user and configuration managers over failures, with few events.
SPECIFICATION FairSpec
CONSTANTS
  MaxEvents = 1
  EventIds <- AllEvents
  MaxBlocks = 0
  MaxAttaches = 1
  RequestIds = 64
  MishapKinds = {"listeners", "memory", "full", "corrupt", "notify", "forget", "publish", "drop", "restart"}
  MaxMishaps = 2
INVARIANTS
  AttachmentAgrees
  RegisteredIsKnown
  NeverClaimsNewer
PROPERTIES
  AttachIsSent
  ProfileArrives
  ConfigArrives
CHECK_DEADLOCK FALSE
