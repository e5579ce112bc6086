SPECIFICATION Spec
CONSTANTS
  a = a
  b = b
  c = c
  drain = drain
  Channels <- Two
  Drains <- OneDrain
  Scopes <- MCScopes
INVARIANTS TypeOK ServerReadable LocalReadable ServerComplete
SYMMETRY Perms
CHECK_DEADLOCK FALSE
