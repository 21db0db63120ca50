SPECIFICATION LiveSpec
CONSTANTS
  a = a
  r = r
  s = s
  PostId = {a, r}
  Mine = {a}
  MaxCommits = 2
  Second <- EverySecond
  Refusable = {}
  Starable = {}
  MaxQueue = 2
  MaxReads = 2
  FallBackToCache = FALSE
PROPERTIES
  RefreshEnds
  OwnPostShows
