SPECIFICATION Spec
CONSTANTS
  Connects = {c1,c2}
  c1 = c1
  c2 = c2
  Stops = {d1}
  d1 = d1
  Switches = {s1,s2}
  s1 = s1
  s2 = s2
  None = None
  Plans <- Overlaps
  MaxLegs = 1
  MaxTuns = 0
  MaxFails = 0
  MaxSlow = 1
SYMMETRY Symmetry
INVARIANTS
  TypeOK
  AetherDown
  PageNotStuck
  ExitAsShown
PROPERTIES
  OldWorkHarmless
\* Every thread may end with nobody clicking again, so a run may stop.
CHECK_DEADLOCK FALSE
