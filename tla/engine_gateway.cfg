SPECIFICATION Spec
CONSTANTS
  Applies = {g1, g2}
  Workers = {w1}
  None = None
  Bounds <- EachFault
SYMMETRY Symmetry
INVARIANTS
  TypeOK NoCircularWait DisconnectedClean NoLeakedLease ToggleFree
  PageAgrees
PROPERTIES UserTunKept
CHECK_DEADLOCK FALSE
