SPECIFICATION Spec
CONSTANTS
  Attempts = {a1, a2, a3}
  Chats = {c1, c2}
  NoCid = NoCid
  Hour = 2
  Limit = 1
  LastTick = 0
  Ahead = {}
  SendKinds = {"message"}
  MaxWeight = 1
  Routes = {"own", "server"}
  Repeats = TRUE
  MayForbid = TRUE
  Uploads = TRUE
  CacheMayFail = FALSE
SYMMETRY Symmetry
INVARIANT HourlyLimit
INVARIANT HeldWhileAsking
INVARIANT DeliveredMessageCounts
INVARIANT ToldIsTrue
CHECK_DEADLOCK FALSE
