SPECIFICATION RTSpec
CONSTANTS
  BitsPerByte = 8
  MaxEntries = 3
  MaxFailures = 1
  Kinds <- PlainKinds
  Sizes = {0, 2}
  SolidLists <- FileLists
  FailingLists <- Lost
  Overheads = {1}
  TinyLimit = 1
  Closures <- Thorough
  Tails <- Lookalikes
INVARIANT IntegrityTestCatches
CHECK_DEADLOCK FALSE
