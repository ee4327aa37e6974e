SPECIFICATION Spec
CONSTANTS
  Csize <- Sizes
  Count <- Counts
  Extra <- Extras
  MaxRetry = 2
INVARIANTS TypeOK OneCycle LoadsFollowStores ChainDurable
PROPERTIES Termination
CHECK_DEADLOCK FALSE
