SPECIFICATION RTSpec
CONSTANTS
  BitsPerByte = 2
  MaxEntries = 3
  MaxFailures = 1
  Kinds <- MixedKinds
  Sizes = {0, 2}
  SolidLists <- FileLists
  FailingLists <- Lost
  Overheads = {0, 1}
  TinyLimit = 1
  Closures <- Careless
  Tails <- Lookalikes
INVARIANTS
  TypeOK
  HeaderRoundTrip
  RecoveredIsWhole
  NeverPanics
  EveryEntryOnce
  StreamsTileOutput
  NeverSilentlyWrong
  EarlierEntriesSurvive
  ReadFileReturnsContents
CHECK_DEADLOCK FALSE
