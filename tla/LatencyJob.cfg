SPECIFICATION JobSpec
CONSTANTS
  Aep <- Builds
  LATENCY_OPS_COUNT = 3
INVARIANTS JobTypeOK PreparedAsNamed DurableAsNamed OwnLines
CHECK_DEADLOCK FALSE
