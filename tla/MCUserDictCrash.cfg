SPECIFICATION Spec
CONSTANTS
  Entries = {"ming"}
  Mangled = {}
  Mend <- NoMend
  Dicts = {d1, d2}
  Period = 2
  FirstFile <- OldBlank
  Foreign <- NewMachine
  Imports <- NoLines
  MaxCount = 2
  MaxCrashes = 2
  d1 = d1
  d2 = d2
INVARIANTS
  NothingInvented
  DataAreRestored
PROPERTIES
  ImplementsLexicon
SYMMETRY Sessions
