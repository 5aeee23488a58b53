SPECIFICATION FairSpec
CONSTANTS
  SessionIds = {s1, s2}
  Threads = {w1, w2}
  NoThread = NoThread
  NoTask = NoTask
  LifeSpan = 1
  MaxTime = 2
  MaxCalls = 2
INVARIANTS
  TypeOK
  OneMaintenanceThread
  NoKeyDuringMaintenance
  NoTwoDeployments
PROPERTIES
  FinalizedIsQuiet
  ImplementsTaskQueue
  CallsReturn
  TasksRun
