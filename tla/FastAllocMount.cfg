SPECIFICATION Spec
CONSTANTS
  Allocator = {my, conc}
  Concurrency = {conc}
  ChannelArg <- Mount
  OptaneStudy = FALSE
  AllocSize = 128
  ConcAllocSize = 64
  Word = 256
  MaxRegion = 3
  Request <- FittingRequests
  Outcome <- AllOutcomes
  MaxBlocks = 4
INVARIANT StorageDisjoint
PROPERTIES ImplementsStore
CHECK_DEADLOCK FALSE
