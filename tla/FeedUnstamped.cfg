SPECIFICATION Spec
CONSTANTS
  a = a
  r = r
  s = s
  PostId = {a}
  Mine = {a}
  MaxCommits = 1
  Second <- EverySecond
  Refusable = {}
  Starable = {}
  MaxQueue = 1
  MaxReads = 1
  FallBackToCache = FALSE
INVARIANTS
  StampPresent
