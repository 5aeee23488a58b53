SPECIFICATION Spec
CONSTANTS
  Letters = {"a"}
  Delims = {}
  Leads = {}
  Others = {}
  PunctDef <- ExpressPuncts
  MaxInput = 3
  MenuOf <- FewWords
  Echo = TRUE
  AutoCommit = TRUE
  Express = TRUE
  PageSize = 2
  MaxCode = 2
INVARIANTS
  TypeOK
  SegmentsPartitionInput
  SelectionFits
  InlineEndsWithComposition
  BackSpaceUndoesTyping
  SpaceMakesProgress
