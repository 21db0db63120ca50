SPECIFICATION FairSpec
CONSTANTS
  User = {ann, ben}
  Refusable = {2}
  kMaxPendingWrites = 2
  MaxWrites = 3
  MaxBreaks = 1
  MaxLogins = 2
  MaxKills = 1
CONSTANTS
  ann = ann
  ben = ben
INVARIANTS
  TypeOK
  PipelineIsQueue
  RequestsMatch
  StreamNeeded
  CallbacksRight
  AnswersTrue
  DuplicatesExplained
  NothingLost
PROPERTIES
  AppliedInOrder
  ImplementsWriteQueue
  WritesAnswered
CHECK_DEADLOCK FALSE
