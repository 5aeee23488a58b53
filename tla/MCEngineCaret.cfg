SPECIFICATION Spec
CONSTANTS
  Letters = {"a"}
  Delims = {}
  Leads = {"tick"}
  Others = {"sharp"}
  PunctDef <- NoPuncts
  MaxInput = 3
  MenuOf <- ShortWords
  Echo = FALSE
  AutoCommit = FALSE
  Express = FALSE
  PageSize = 2
  MaxCode = 0
PROPERTIES
  CaretFollowsSelection
