\* Two threads, three presses, two failures of poll, send or attachment.
SPECIFICATION FairSpec
CONSTANTS
  Directions = {"stop", "forward", "left"}
  Stop = "stop"
  MaxPresses = 3
  MaxFailures = 2
PROPERTIES
  NeverObeysAnOlderPress
  AcceptedEventsArrive
  QuitEndsProgram
CHECK_DEADLOCK FALSE
