SPECIFICATION ServerFairSpec
CONSTANTS
  Commands = {c1}
  MaxFailures = 1
  MaxStale = 0
  MayRefuse = FALSE
  MayStop = FALSE
  Resumable = TRUE
PROPERTIES
  AlwaysConnectsAgain
CHECK_DEADLOCK FALSE
