SPECIFICATION Spec
CONSTANTS
  Account = {"ann", "bob"}
  Owner = "ann"
  HasPicture = TRUE
  MaxSaves = 1
  StorageMayFail = FALSE
  RulesMayRefuse = FALSE
INVARIANTS
  ImagePresent
