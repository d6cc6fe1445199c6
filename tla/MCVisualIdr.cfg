SPECIFICATION Spec
CONSTANTS
  a = a
  b = b
  c = c
  Contents = {a, b}
  FirstContents = {a}
  None = None
  Garbled = Garbled
  RuntimeModes = {FALSE}
  RawRect = TRUE
  Chunks = 1
  EncoderSlots = 1
  MaxRepeats = 1
  MaxVisits = 1
  MaxCapture = 3
  MaxTimeouts = 0
  MaxEvents = 4
  MaxExactEvents = 3
  MaxFaults = 0
CHECK_DEADLOCK FALSE
PROPERTIES
  OnlyIdrReplacesExact
