SPECIFICATION LockSpec
CONSTANTS
  Procs = {p1, p2, p3}
  Limit = 1
  MaxWaits = 1
  MaxCrashes = 1
  UnlinkFails = FALSE
SYMMETRY Symmetry
INVARIANT NeverOver
CHECK_DEADLOCK FALSE
