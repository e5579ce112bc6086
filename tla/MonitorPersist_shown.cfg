SPECIFICATION Spec
CONSTANTS
  c1 = c1
  c2 = c2
  Channels <- TwoChannels
  MaxConflictRetries = 1
  DegradedAfter = 1
  MaxSnapshots = 1
  MaxQueue = 1
  MaxFaults = 2
  MaxReloads = 0
INVARIANTS FailingIsShown
CHECK_DEADLOCK FALSE
