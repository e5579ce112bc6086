SPECIFICATION Spec
CONSTANTS
  a = a
  b = b
  c = c
  drain = drain
  Channels <- Three
  Drains <- NoDrain
  Scopes <- DropScopes
PROPERTY ManifestNeverDrops
SYMMETRY Perms
CHECK_DEADLOCK FALSE
