SPECIFICATION Spec
CONSTANTS
  Plan <- MainPlan
  max_size <- alloc_max
  MaxThread = 1
INVARIANTS NoRunRefused
CHECK_DEADLOCK FALSE
