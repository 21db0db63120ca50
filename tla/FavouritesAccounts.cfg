SPECIFICATION Spec
CONSTANTS
  ann = ann
  bob = bob
  post = post
  Account = {ann, bob}
  Registered = {ann}
  NoAccount = NoAccount
  MaxRegisters = 1
  MaxHomes = 2
  Post = {post}
  Author <- AuthorOf
  Tappable = {post}
  Refusable = {"delete", "star"}
  MaxQueue = 2
  MaxReads = 2
  MaxCells = 2
INVARIANTS
  TypeOK
  StarsFollowTaps
  HomeIsOwners
  HiddenWhileWaiting
PROPERTIES
  FlagsExplained
