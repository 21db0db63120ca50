SPECIFICATION Spec
CONSTANTS
  Account = {"ann", "bob"}
  Registered = {"ann"}
  NoAccount = "none"
  MaxRegisters = 2
  MaxHomes = 3
  MaxDrafts = 2
  RulesMayRefuse = TRUE
INVARIANTS
  TypeOK
  PublishedOnce
  AuthorPublishes
