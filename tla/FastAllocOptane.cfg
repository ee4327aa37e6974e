SPECIFICATION Spec
CONSTANTS
  Allocator = {f1, f2}
  Concurrency = {}
  ChannelArg <- Channels
  OptaneStudy = TRUE
  AllocSize = 128
  ConcAllocSize = 64
  Word = 256
  MaxRegion = 3
  Request <- Requests
  Outcome <- Outcomes
  MaxBlocks = 4
SYMMETRY Symmetry
INVARIANTS TypeOK NoOverlap Contained StorageDisjoint HeapAccounting NvmOnPM
CHECK_DEADLOCK FALSE
