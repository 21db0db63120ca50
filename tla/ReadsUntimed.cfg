SPECIFICATION Spec
CONSTANTS
  Get = {"refresh1", "refresh2"}
  Query = {"posts"}
  QueryOf <- FeedQueryOf
  Refused = {}
  MaxFaults = 1
INVARIANTS
  AttemptIsTimed
CHECK_DEADLOCK FALSE
