\* An application that syncs whenever it likes, and every kind of fault.
SPECIFICATION Spec
CONSTANTS
  OpsServices = {"user", "event"}
  OutCapacity = 4
  NBoot = 2
  NOps = 1
  StartServices = {"user"}
  InputServices = {"event"}
  CallbackServices = {"user"}
  AsyncDns = FALSE
  FaultKinds = {"open", "dns", "write", "busy", "refuse", "close", "disconnect", "garbage", "reject", "empty"}
  MaxFaults = 2
  MaxSyncs = 1
  MaxPings = 1
  MaxPushes = 1
  MaxLogTimeouts = 1
INVARIANTS
  TypeOK
