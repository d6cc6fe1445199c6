SPECIFICATION Spec
CONSTANTS
  MaxChunks = 3
  MaxBreaks = 1
CHECK_DEADLOCK FALSE
INVARIANTS
  OmissionIsReal
