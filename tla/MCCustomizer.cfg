CONSTANTS
  Versions <- ThreeVersions
  Values <- Colours
  Patches <- SomePatches
  KeyOrder <- ThreeKeys
  Blocked <- Through
  Chosen <- SomeChoices
  Red = Red
  Blue = Blue
  Missing = Missing
  Unreadable = Unreadable
  Edits = 2
  Crashes = 1
SPECIFICATION FairSpec
INVARIANTS
  UpdateReportsTruly
PROPERTIES
  Mended
