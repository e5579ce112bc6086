SPECIFICATION Spec
CONSTANTS
  Peers = {"p"}
  MaxSockets = 1
  MaxChannels = 0
INVARIANT NoPeerAfterTeardown
CHECK_DEADLOCK FALSE
