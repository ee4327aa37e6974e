SPECIFICATION Spec
CONSTANTS
  NUMTHREAD = 2
  Jobs <- OneJob
  access_size = 64
  stride_size = 64
  count = 2
  AllocSize = 128
  Word = 1024
  MaxRegion = 2
  MaxFail = 1
INVARIANTS TypeOK NoRunAfterFree PrivateBuffers Task3Separate Task2Channels DurableAtFree
PROPERTIES Termination
CHECK_DEADLOCK FALSE
