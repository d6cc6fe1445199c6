SPECIFICATION Spec
CONSTANTS
  u1 = u1  u2 = u2  v0 = v0  v1 = v1  v2 = v2
  Ids = {u1, u2}
  Contents = {v0, v1, v2}
  NoFile = NoFile
  FirstContent = v0
  NumDirs = 2
  MaxWrites = 1
SYMMETRY Symmetry
CHECK_DEADLOCK FALSE
INVARIANT ManualRollbackKeepsState
