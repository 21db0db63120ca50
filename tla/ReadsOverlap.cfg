SPECIFICATION FairSpec
CONSTANTS
  Get = {"refresh1", "refresh2", "favourites"}
  Query = {"posts", "favourites"}
  QueryOf <- FeedQueryOf
  Refused = {"favourites"}
  MaxFaults = 1
INVARIANTS
  TypeOK
  RecordsAgree
  OfflineIsSilent
  AnsweredOnce
  CurrentIsOfLastWatch
PROPERTIES
  GetAnswered
CHECK_DEADLOCK FALSE
