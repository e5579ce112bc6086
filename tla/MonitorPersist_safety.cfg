SPECIFICATION Spec
CONSTANTS
  c1 = c1
  c2 = c2
  Channels <- OneChannel
  MaxConflictRetries = 1
  DegradedAfter = 2
  MaxSnapshots = 3
  MaxQueue = 2
  MaxFaults = 3
  MaxReloads = 2
INVARIANTS TypeOK AckedDurable VssFirst NoRollback DegradedMeansFailing
PROPERTY ImplementsStore
CHECK_DEADLOCK FALSE
