SPECIFICATION Spec
CONSTANTS
  a = a
  b = b
  c = c
  drain = drain
  Channels <- Two
  Drains <- OneDrain
  Scopes <- RestoreScopes
INVARIANTS RestoredIntact
CHECK_DEADLOCK FALSE
