SPECIFICATION Spec
CONSTANTS
  Clients = {c1, c2}
  Hosts = {h1, h2}
  Paths = {lan, wan}
  Bindings = {b1, b2, b3, b4, b5, b6}
  Threshold = 2
  MaxFailures = 3
  Streams = {s1, s2}
  MaxQueued = 1
  BufferBound = 2
  MaxMessages = 3
  Flights = 3
  Messages = 2
  Size = 3
  MaxLegs = 8
  Connections = {q1, q2, q3}
  Paired = {q1, q2}
  Trusted = {q1, q3}
  MaxPending = 2
  MaxSent = 3
  Capacity = 2
  Window = 1
  MaxTraffic = 3
  MaxFrames = 4
  MaxFragments = 2
  Target = 2
  Jitter = 3
  MaxPackets = 6
  MaxPlayed = 8
  PipeSize = 2
CHECK_DEADLOCK FALSE
INVARIANTS
  ConnectionIsWhole
  NothingIsSkipped
  AcceptedIsPlayed
  CommandLeavesNothing
PROPERTIES
  SessionEnds
  CommandEnds
  DeltasFollow
