SPECIFICATION Spec
CONSTANTS
  Call <- Calls
  MaxLine = 24
  Taps <- SeedTaps
  Width <- SeedWidth
  Seeds <- SomeSeeds
INVARIANTS TypeOK FootprintExact LossBounded FencedDurable
PROPERTIES Termination
CHECK_DEADLOCK FALSE
