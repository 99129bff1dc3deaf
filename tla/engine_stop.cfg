SPECIFICATION FairSpec
CONSTANTS
  Applies = {g1, g2}
  Workers = {w1}
  None = None
  Bounds <- OneFail
PROPERTY EngineStopReturns
CHECK_DEADLOCK FALSE
