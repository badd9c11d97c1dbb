SPECIFICATION Spec
CONSTANTS
  Attempts = {a1}
  Chats = {c1}
  NoCid = NoCid
  Hour = 2
  Limit = 3
  LastTick = 0
  Ahead = {}
  SendKinds = {"message"}
  MaxWeight = 1
  Routes = {"own", "server"}
  Repeats = TRUE
  MayForbid = FALSE
  Uploads = TRUE
  CacheMayFail = FALSE
INVARIANT OnePlaceEach
CHECK_DEADLOCK FALSE
