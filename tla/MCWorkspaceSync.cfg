SPECIFICATION Spec
CONSTANTS
  d = d  dx = dx  f = f  fx = fx  a = a  b = b
  NoPath = NoPath
  Torn = Torn
  Paths <- MCPaths
  Above <- MCAbove
  Rank <- MCRank
  Trees <- MCTrees
  Chunks = {a, b}
  MaxRevision = 2
  MaxEdits = 2
  MaxFaults = 2
CHECK_DEADLOCK FALSE
INVARIANTS
  NoTornFiles
  StateIsMirrored
  AcknowledgedIsMirrored
  UndisturbedCommits
