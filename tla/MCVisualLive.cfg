SPECIFICATION FairSpec
CONSTANTS
  a = a
  b = b
  c = c
  Contents = {a, b}
  FirstContents = {a}
  None = None
  Garbled = Garbled
  RuntimeModes = {TRUE, FALSE}
  RawRect = TRUE
  Chunks = 1
  EncoderSlots = 1
  MaxRepeats = 1
  MaxVisits = 1
  MaxCapture = 3
  MaxTimeouts = 1
  MaxEvents = 3
  MaxExactEvents = 4
  MaxFaults = 0
CHECK_DEADLOCK FALSE
PROPERTIES
  ConvergesToExact
