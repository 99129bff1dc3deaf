SPECIFICATION FairSpec
CONSTANTS
  Procs = {p1, p2}
  p1 = p1
  p2 = p2
  Free = Free
  NoOwner = NoOwner
  NoSnap = NoSnap
  UserTexts <- MCUserTexts
  UserSettings <- MCUserSettings
  MaxAlive = 1
  OneSession = TRUE
  PowUsed = FALSE
  MaxTok = 2
  MaxFail = 2
  MaxEdit = 1
  MaxCorrupt = 0
INVARIANTS
  TypeOK
  SnapshotExact
PROPERTIES
  VaultSpec
  StartupHeals
\* Every instance ends and is never used again, so a run may stop.
CHECK_DEADLOCK FALSE
