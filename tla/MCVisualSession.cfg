SPECIFICATION Spec
CONSTANTS
  a = a
  b = b
  c = c
  Contents = {a, b, c}
  FirstContents = {a}
  None = None
  Garbled = Garbled
  RuntimeModes = {TRUE, FALSE}
  RawRect = TRUE
  Chunks = 2
  EncoderSlots = 1
  MaxRepeats = 1
  MaxVisits = 1
  MaxCapture = 3
  MaxTimeouts = 1
  MaxEvents = 3
  MaxExactEvents = 4
  MaxFaults = 1
CHECK_DEADLOCK FALSE
SYMMETRY Symmetry
INVARIANTS
  NeverGarbled
  ExactIsTheFrame
  AgreedBase
  StreamLegal
  OnlyLateRepeatsRegress
  DigestsAgree
PROPERTIES
  ImplementsExactFramebuffer
