SPECIFICATION Spec
CONSTANTS
  Devices = {d1}
  MaxSessions = 2
  MaxLives = 2
  Bounds <- EachFault
INVARIANTS TypeOK SettingsBacked RedirectedListed
PROPERTIES KilledHeals
CHECK_DEADLOCK FALSE
