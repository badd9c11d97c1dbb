SPECIFICATION FairSpec
CONSTANTS
  Procs = {p1, p2}
  Limit = 1
  MaxWaits = 3
  MaxCrashes = 2
  UnlinkFails = TRUE
  Commands = {c1}
  MaxFailures = 3
  MaxStale = 2
  MayRefuse = TRUE
  MayStop = TRUE
  Resumable = TRUE
INVARIANTS
  MutualExclusion
  WayBack
  WaitsForLogin
PROPERTIES
  ImplementsCounter
  EveryCheckEnds
  NoNeedlessLogin
  ConnectsAgain
CHECK_DEADLOCK FALSE
