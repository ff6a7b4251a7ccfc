SPECIFICATION Spec
CONSTANTS
  Users = {w, a, b}
  Writer = w
  RequestedBuffers = {0, 2}
  RequestedSizes = {0, 9}
  MAX_BUFFERS = 2
  SMALL_BUFFER_SIZE = 1
  MAX_BUFFER_SIZE = 2
  Lengths = {0, 1}
  FileSizes = {0, 2}
  Counts = {0, 1, 3}
  MAX_LOOKAHEAD_COUNT = 2
  MaxItems = 3
INVARIANT AllocatesForUsers
INVARIANT WholeUnlessEmptied
INVARIANT HintedBeforeTaken
CHECK_DEADLOCK FALSE
