SPECIFICATION FairSpec
CONSTANTS
  N = 4
  MAX_BLOCK_SIZE = 4
  ListedSizes = {0, 1, 3, 4}
  MaxRead = 2
INVARIANT OneFileOpen
INVARIANT BlocksHoldTheirFiles
INVARIANT BlocksWithinLimit
INVARIANT EveryFileOnce
PROPERTY Returns
CHECK_DEADLOCK FALSE
