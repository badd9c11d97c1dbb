SPECIFICATION Spec
CONSTANTS
  Readers = {p1, p2}
  TimeOf <- Times
  Before = 3
  Page = 3
  MaxPages = 2
  Touched = {3}
  MaxVersion = 1
  MaxChanges = 1
  MaxReads = 2
  Commands = {p1, p2}
  Dialogs = {d1, d2}
  Named = {d1}
  LoginChats = 1
  MaxTime = 1
  MaxLogins = 3
  Runners = {p1, p2}
  Chats = {a, b, c}
  Ours = {2}
  MaxPosts = 4
  MaxRuns = 2
  Limit = 2
  ChatsRead = 2
  ReviewPage = 1
  PerChat = 3
  Owners = {p1, p2}
  OwnerKinds = {"contact", "sessions-end", "reaction", "folder-update", "folder-delete"}
  Crossing = {"folder-update"}
  FolderChats = {c1}
  MaxPhoneEdits = 1
  Openers = {p1, p2}
  CacheIds = {a, b}
  LastVersion = 1
  MaxStores = 3
  Lookers = {p1, p2}
  Convs = 3
  GroupConvs = {2}
  TitleWords <- TitlesHere
  Filters = {"dialog", "mama"}
  PageRows = 1
  MaxLookups = 3
  MaxArrivals = 1
SYMMETRY Symmetry
INVARIANTS
  TypeOK
  CopyTellsTruth
  LoginsMergeWhole
  PointsLoseNothing
  OneTrueLine
  FileAnswersTruly
  PagesAreTheList
PROPERTIES
  EditsStay
  OnlyCrossedEditsLost
CHECK_DEADLOCK FALSE
