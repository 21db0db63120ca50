SPECIFICATION Spec
CONSTANTS
  a = a
  r = r
  s = s
  PostId = {r, s}
  Mine = {}
  MaxCommits = 2
  Second <- TwoPerSecond
  Refusable = {}
  Starable = {}
  MaxQueue = 1
  MaxReads = 1
  FallBackToCache = FALSE
PROPERTIES
  FeedComplete
