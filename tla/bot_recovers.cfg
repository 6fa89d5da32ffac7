\* The bot: no input of its own; it answers what the server sends.
SPECIFICATION FairSpec
CONSTANTS
  OpsServices = {"user", "event"}
  OutCapacity = 4
  NBoot = 2
  NOps = 2
  StartServices = {"user"}
  InputServices = {}
  CallbackServices = {"event"}
  AsyncDns = FALSE
  FaultKinds = {"open", "dns", "write", "busy", "refuse", "close", "reject"}
  MaxFaults = 3
  MaxSyncs = 1
  MaxPings = 1
  MaxPushes = 1
  MaxLogTimeouts = 0
PROPERTIES
  EventuallyOnline
  RequestsServed
  UsedUpListIsRenewed
  ConnectionStartsAuthorization
