SPECIFICATION RTSpec
CONSTANTS
  BitsPerByte = 8
  MaxEntries = 3
  MaxFailures = 0
  Kinds <- AllKinds
  Sizes = {0, 2}
  SolidLists <- FileLists
  FailingLists <- Lost
  Overheads = {1, 2}
  TinyLimit = 1
  Closures <- Thorough
  Tails <- Lookalikes
INVARIANT AntiItemsRoundTrip
CHECK_DEADLOCK FALSE
