SPECIFICATION Spec
CONSTANTS
  Letters = {"a"}
  Delims = {"apos"}
  Leads = {"tick"}
  Others = {}
  PunctDef <- FluencyPuncts
  MaxInput = 3
  MenuOf <- FewestWords
  Echo = FALSE
  AutoCommit = FALSE
  Express = FALSE
  PageSize = 2
  MaxCode = 1
INVARIANTS
  EmptySegmentFollowsSelection
  CommitInOrder
  BackSpaceKeepsSelection
PROPERTIES
  SelectionSurvives
