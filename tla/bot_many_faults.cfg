\* The bot on a platform whose resolver calls back, under every fault it can meet but a DISCONNECT.
SPECIFICATION Spec
CONSTANTS
  OpsServices = {"user", "event"}
  OutCapacity = 4
  NBoot = 2
  NOps = 2
  StartServices = {"user"}
  InputServices = {}
  CallbackServices = {"event"}
  AsyncDns = TRUE
  FaultKinds = {"open", "dns", "write", "busy", "refuse", "close", "reject", "garbage"}
  MaxFaults = 3
  MaxSyncs = 1
  MaxPings = 1
  MaxPushes = 1
  MaxLogTimeouts = 0
INVARIANTS
  NoDescriptorLeak
  DialsChosenAccessPoint
  AuthorizedOnThisConnection
  ConnectComesFirst
  NoForgottenRequest
