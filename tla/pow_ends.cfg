SPECIFICATION FairSpec
CONSTANTS
  Connects = {c1}
  c1 = c1
  Stops = {d1}
  d1 = d1
  Switches = {s1}
  s1 = s1
  None = None
  Plans <- Whole
  MaxLegs = 1
  MaxTuns = 1
  MaxFails = 1
  MaxSlow = 0
PROPERTIES
  DisconnectReturns
  SessionEnds
\* Every thread may end with nobody clicking again, so a run may stop.
CHECK_DEADLOCK FALSE
