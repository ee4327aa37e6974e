SPECIFICATION Spec
CONSTANTS
  Argv1 <- Arguments
  DefaultGrn = 5
  FirstGrn = 2
  LastGrn = 8
  N_RW = 5
  TestLoops = {0, 1, 2}
  AllocSize = 2048
  ConcAllocSize = 1024
  Word = 4096
  MaxRegion = 2
INVARIANTS TypeOK SameWork OwnBlocks Drained
CHECK_DEADLOCK FALSE
