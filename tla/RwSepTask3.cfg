SPECIFICATION Spec
CONSTANTS
  NUMTHREAD = 1
  Jobs <- OneJob
  access_size = 64
  stride_size = 64
  count = 2
  AllocSize = 128
  Word = 1024
  MaxRegion = 2
  MaxFail = 0
INVARIANTS Task3DiffChannel
CHECK_DEADLOCK FALSE
