SPECIFICATION Spec
CONSTANTS
  Plan <- Plans
  max_size = 1700
  MaxThread = 3
INVARIANTS TypeOK StartTogether EachUnitOnce PersistencyAsNamed
PROPERTIES Termination
CHECK_DEADLOCK FALSE
