SPECIFICATION Spec
CONSTANTS
  s = s
  i = i
  o = o
  Nodes = {s, i, o}
  Subject = s
  Introducer = i
  Modes <- DetectModes
  SuspicionTimeout = 1
  DeadTimeout = 1
  CleanUpTimeout = 2
  MaxHeartbeat = 2
  MaxIncarnation = 2
  MaxInFlight = 2
  MaxSends = 2
INVARIANT TypeOK
INVARIANT NeverAhead
INVARIANT DeadIsStabilised
INVARIANT CrashDetected
PROPERTY FinalUnlessRaced
CHECK_DEADLOCK FALSE
