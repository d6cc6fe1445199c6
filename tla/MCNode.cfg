SPECIFICATION Spec
CONSTANTS
  MaxRevision = 2
  Commands = {c1, c2}
  Fingerprints = {k1, k2}
  Configured = k1
  NoDevice = NoDevice
  MaxAttempts = 2
  Sessions = {s1, s2}
  Workspaces = {w1, w2}
  Mirrored = {w1}
  Lease = 1
  NotAfter = 2
  MaxActive = 1
  MaxEvents = 3
  MaxTime = 2
  MaxSteps = 1
  MaxProcesses = 1
  MaxLines = 3
  MaxFaults = 1
  Builds = {build}
  MaxArtifacts = 2
  MaxGivenUp = 1
  MaxCrashes = 1
  MaxChunks = 4
  MaxBreaks = 2
  MaxJobs = 2
  Texts = {t1, t2}
  MaxClock = 3
  MaxParallel = 2
  MaxStarts = 2
  MaxCalls = 1
  Timeout = 1
  Minute = 2
  MaxEdits = 1
  PathCount = 3
  Bodies = {"a", "b"}
  Permissions = {1, 2}
  Capacity = 1
  QueueSize = 1
  Stall = 1
  Hard = 1
  MaxFrame = 1
  MaxRecords = 5
  MaxNow = 2
CHECK_DEADLOCK FALSE
INVARIANTS
  TrustFollowsCommands
  JournalIsSound
  AnsweredIsBuilt
  AttemptsAddUp
  PatchesAreReviewed
  HistoryIsSound
  TraceIsSound
PROPERTIES
  EndedStaysEnded
  PublishedStays
