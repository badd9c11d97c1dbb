SPECIFICATION LookupSpec
CONSTANTS
  Lookers = {p1, p2}
  Convs = 3
  GroupConvs = {2}
  TitleWords <- TitlesHere
  Filters = {"mama"}
  PageRows = 1
  MaxLookups = 2
  MaxArrivals = 0
INVARIANT NoQuietGuess
CHECK_DEADLOCK FALSE
