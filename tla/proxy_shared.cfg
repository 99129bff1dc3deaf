SPECIFICATION Spec
CONSTANTS
  Procs = {p1, p2}
  p1 = p1
  p2 = p2
  Free = Free
  NoOwner = NoOwner
  NoSnap = NoSnap
  UserTexts <- MCUserTexts
  UserSettings <- MCUserSettings
  MaxAlive = 2
  OneSession = FALSE
  PowUsed = TRUE
  MaxTok = 1
  MaxFail = 2
  MaxEdit = 1
  MaxCorrupt = 1
SYMMETRY Symmetry
INVARIANTS
  OverrideBacked
  RestoreInv
PROPERTIES
  OwnerOnly
\* Every instance ends and is never used again, so a run may stop.
CHECK_DEADLOCK FALSE
