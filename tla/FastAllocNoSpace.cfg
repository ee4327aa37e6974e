SPECIFICATION Spec
CONSTANTS
  Allocator = {f1}
  Concurrency = {}
  ChannelArg <- Channels
  OptaneStudy = TRUE
  AllocSize = 128
  ConcAllocSize = 64
  Word = 256
  MaxRegion = 3
  Request <- FittingRequests
  Outcome <- NoSpace
  MaxBlocks = 2
INVARIANTS FallocateFailureReported
CHECK_DEADLOCK FALSE
