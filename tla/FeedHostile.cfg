SPECIFICATION Spec
CONSTANTS
  a = a
  r = r
  s = s
  PostId = {a, r}
  Mine = {a}
  MaxCommits = 3
  Second <- TwoPerSecond
  Refusable = {"delete"}
  Starable = {r}
  MaxQueue = 2
  MaxReads = 1
  FallBackToCache = TRUE
INVARIANTS
  WatermarkInv
PROPERTIES
  FeedExplained
  CleanupSafe
