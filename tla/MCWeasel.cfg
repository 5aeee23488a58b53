CONSTANTS
  Clients = {c1, c2}
  SessionIds = {s1, s2}
  NoSession = NoSession
  NoAnswer = NoAnswer
  MaxPosted = 2
  Budgets <- AllBudgets
CHECK_DEADLOCK FALSE
SPECIFICATION FairSpec
INVARIANTS
  PanelShowsActiveSession
  PanelFollowsFocus
  SessionsAreHeld
  DeployerWorksAlone
  TextArrives
PROPERTIES
  KeyFindsSession
