SPECIFICATION Spec
CONSTANTS
  Entries = {"ming"}
  Mangled = {"mangled"}
  Mend <- MendOne
  Dicts = {d1}
  Period = 2
  FirstFile <- OldFile
  Foreign <- Elsewhere
  Imports <- Lines
  MaxCount = 2
  MaxCrashes = 0
  d1 = d1
INVARIANTS
  NoRecordFromTheFuture
  RestoreInAnyOrder
PROPERTIES
  ImplementsLexicon
