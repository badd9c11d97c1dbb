SPECIFICATION Spec
CONSTANTS
  Calls = {p1, p2}
  Rooms = {r1, r2}
  Wordings = {w1}
  Whens <- WhensHere
  ValidFor = 1
  MaxClock = 2
  MaxClients = 2
  Workers = {p1, p2}
  Accounts = {u, v}
  MaxErrands = 3
  Ids = {1, 2, 3}
  SeenMax = 1
  MaxEvents = 3
  MaxConns = 3
  Askers = {k1}
  Editors = {p1, p2}
  Chats = {c1}
  People = {u1}
  Partner <- PartnerOf
  WriteKinds <- AllKinds
  Lists = {{"groups"}, {"pin"}}
  MaxEdits = 2
  MaxAsks = 1
  MaxPolls = 2
  MaxSignals = 2
  Callers = {p1, p2}
  MaxServers = 3
  Makers = {p1, p2}
  HeldAtMost = 1
  KeepDays = 0
  MaxDay = 1
  MaxNoted = 2
  PasswordAttempts = 3
  Terminals = {p1, p2}
  Names = {a, b, chats, dots}
  PlainNames = {a, b, chats}
  CommandNames = {chats}
  DefaultProfile = a
  ProfileSettings = {limit}
  DefaultsOnly = {updateCheck}
  GoodValues = {g1}
  MaxSettings = 2
  LiveChats = {c1, c2}
  FirstChats = 2
  MaxMoments = 3
  MaxLogins = 2
SYMMETRY Symmetry
INVARIANTS
  TypeOK
  ConfirmedOnClientHeld
  SessionIsOurs
  HeardInOrder
  PermitsObeyed
  ProfileGone
  OneServer
  RunsTellTruth
  LoginLeavesNothing
  SnapshotTrue
PROPERTIES
  ChangeIsWhatWasSaid
CHECK_DEADLOCK FALSE
