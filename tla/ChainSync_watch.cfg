SPECIFICATION FairSpec
CONSTANTS
  Depth = 1
  MaxBlocks = 1
  MaxTroubles = 1
PROPERTY ConfirmationReported
CHECK_DEADLOCK FALSE
