CONSTANTS
  Clients = {c1}
  SessionIds = {s1, s2}
  NoSession = NoSession
  NoAnswer = NoAnswer
  MaxPosted = 1
  Budgets <- OneClient
CHECK_DEADLOCK FALSE
SPECIFICATION Spec
INVARIANTS
  InsertedOnce
