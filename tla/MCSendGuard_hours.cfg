SPECIFICATION Spec
CONSTANTS
  Attempts = {a1, a2, a3}
  Chats = {c1}
  NoCid = NoCid
  Hour = 2
  Limit = 2
  LastTick = 1
  Ahead = {1}
  SendKinds = {"message", "delete", "reaction"}
  MaxWeight = 2
  Routes = {"own"}
  Repeats = FALSE
  MayForbid = FALSE
  Uploads = FALSE
  CacheMayFail = TRUE
SYMMETRY Symmetry
INVARIANT HourlyLimit
CHECK_DEADLOCK FALSE
