SPECIFICATION Spec
CONSTANTS
  Devices = {d1}
  MaxSessions = 1
  MaxLives = 1
  Bounds <- NoFault
PROPERTIES StopReturns
CHECK_DEADLOCK FALSE
