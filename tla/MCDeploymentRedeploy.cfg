SPECIFICATION Spec
CONSTANTS
  d1 = d1  d2 = d2  d3 = d3  v0 = v0  v1 = v1  v2 = v2
  Ids = {d1, d2}
  Contents = {v0, v1, v2}
  NoFile = NoFile
  FirstContent = v0
  Hosts = {"broker"}
  ReuseIds = TRUE
  MaxTimeouts = 1
  MaxCrashes = 0
SYMMETRY Symmetry
CHECK_DEADLOCK FALSE
INVARIANT RolledBackRestores
