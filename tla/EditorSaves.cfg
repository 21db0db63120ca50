SPECIFICATION LiveSpec
CONSTANTS
  Account = {"ann", "bob"}
  Owner = "ann"
  HasPicture = TRUE
  MaxSaves = 2
  StorageMayFail = TRUE
  RulesMayRefuse = TRUE
INVARIANTS
  TypeOK
  NewestSaveStands
  PictureKept
PROPERTIES
  DeletedStaysDeleted
  SaveEnds
