SPECIFICATION Spec
CONSTANTS
  Connects = {c1}
  c1 = c1
  Stops = {d1}
  d1 = d1
  Switches = {}
  None = None
  Plans <- Whole
  MaxLegs = 0
  MaxTuns = 1
  MaxFails = 0
  MaxSlow = 0
INVARIANTS
  TunDown
\* Every thread may end with nobody clicking again, so a run may stop.
CHECK_DEADLOCK FALSE
