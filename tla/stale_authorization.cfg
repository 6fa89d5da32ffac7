\* A remote control that syncs an event while its access point is replaced.
SPECIFICATION Spec
CONSTANTS
  OpsServices = {"user", "event"}
  OutCapacity = 4
  NBoot = 1
  NOps = 2
  StartServices = {"user"}
  InputServices = {"event"}
  CallbackServices = {}
  AsyncDns = FALSE
  FaultKinds = {"open", "write", "close"}
  MaxFaults = 2
  MaxSyncs = 2
  MaxPings = 0
  MaxPushes = 0
  MaxLogTimeouts = 0
PROPERTIES
  ConnectionStartsAuthorization
