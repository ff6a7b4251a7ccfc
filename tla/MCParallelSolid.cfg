SPECIFICATION FairSpec
CONSTANTS
  N = 5
  BatchSize = 3
  Parallelism = 2
  MaxSize = 2
INVARIANT TypeOK
INVARIANT WithinParallelism
INVARIANT AsksInOrder
PROPERTY PushesSolidBlock
PROPERTY Terminates
CHECK_DEADLOCK FALSE
