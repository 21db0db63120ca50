SPECIFICATION Spec
CONSTANTS
  a = a
  r = r
  s = s
  PostId = {a, r}
  Mine = {a}
  MaxCommits = 3
  Second <- EverySecond
  Refusable = {}
  Starable = {r}
  MaxQueue = 2
  MaxReads = 2
  FallBackToCache = FALSE
INVARIANTS
  TypeOK
  WatermarkSound
PROPERTIES
  FeedComplete
  GhostsNeedOverlap
  CleanupSafe
