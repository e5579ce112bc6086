SPECIFICATION FairSpec
CONSTANTS
  c1 = c1
  c2 = c2
  Channels <- OneChannel
  MaxConflictRetries = 5
  DegradedAfter = 5
  MaxSnapshots = 1
  MaxQueue = 1
  MaxFaults = 6
  MaxReloads = 0
PROPERTY EveryWriteAcked
CHECK_DEADLOCK FALSE
