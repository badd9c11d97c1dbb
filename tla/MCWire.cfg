SPECIFICATION FairSpec
CONSTANTS
  SeqModulo = 3
  MaxRequests = 4
  MaxPushes = 4
  Repeats = 2
  Live = TRUE
  Asks = {p1, p2}
  MaxSockets = 3
  MaxDrops = 2
  Alphabet = {0, 1}
  Longest = 13
  MinMatch = 2
  LastLiterals = 2
  MfLimit = 4
  MaxOffset = 5
  Slots = 2
  SlotOf <- WireSlots
  NibbleTop = 1
  ByteTop = 3
  CompressFrom = 5
  MaxLz4Flags = 2
  MaxDecompressed = 13
  Foreign = {0, 1, 2, 3}
  LongestForeign = 4
  Fetchers = {p1, p2}
  Attached = 2
  Size = 2
  Redirects = 1
  MaxFetches = 3
INVARIANTS
  TypeOK
  OwnAnswer
  PushesOnce
  OwnLine
  FramesReturn
  NamedIsWhole
PROPERTIES
  EverySettles
  NothingReplaced
CHECK_DEADLOCK FALSE
