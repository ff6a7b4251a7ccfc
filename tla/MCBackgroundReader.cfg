SPECIFICATION FairSpec
CONSTANTS
  SourceLen = 8
  BufferSize = 3
  MaxRead = 4
  SourceFails = TRUE
INVARIANT TypeOK
INVARIANT InOrder
INVARIANT EndIsTheEnd
INVARIANT NothingLostBehindBrokenPipe
PROPERTY ToldTheEnd
PROPERTY ThreadReturns
PROPERTY ReadsByteStream
CHECK_DEADLOCK FALSE
