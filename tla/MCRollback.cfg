SPECIFICATION BothSpec
CONSTANTS
  d1 = d1  d2 = d2  d3 = d3  u1 = u1  u2 = u2  v0 = v0  v1 = v1  v2 = v2
  Ids = {d1, d2, d3}
  UpdateIds = {u1, u2}
  Contents = {v0, v1, v2}
  NoFile = NoFile
  FirstContent = v0
  Hosts = {"broker", "embedded"}
  ReuseIds = FALSE
  MaxTimeouts = 1
  MaxCrashes = 1
  NumDirs = 2
  MaxWrites = 1
SYMMETRY Symmetry
CHECK_DEADLOCK FALSE
INVARIANTS RolledBackRestores ActiveRuns PriorIsRecoverable LedgerAgrees UpdateIsSound
PROPERTIES NothingLost NothingOverwritten
