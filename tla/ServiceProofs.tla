--------------------------- MODULE ServiceProofs ---------------------------
(***************************************************************************)
(* Theorems about Service, for any number of threads, sessions and calls.   *)
(* Everything follows from one inductive invariant, IInv: the handle stands *)
(* for the one thread that exists, and nothing else exists.                 *)
(***************************************************************************)
EXTENDS Service, TLAPS

\* Between two steps of a call that schedules tasks, its number is in range.
CallsInv ==
  /\ main \in {"install", "config"} => calls < MaxCalls
  /\ main \in {"schedule1", "schedule2"} => calls \in 1 .. MaxCalls

\* The handle is joinable with every thread that has not been joined, and a key
\* is processed only if there is none.
HandleInv ==
  /\ \A t \in Threads : worker[t] # "none" => handle = t
  /\ handle # NoThread => worker[handle] # "none"
  /\ main = "key" => handle = NoThread

IInv == TypeOK /\ CallsInv /\ HandleInv

-----------------------------------------------------------------------------
(* Facts about the helpers                                                  *)

\* What IsMaintenancing does to the thread it finds ended keeps the invariant.
LEMMA TryJoinKeepsHandle ==
  ASSUME TypeOK, HandleInv, TryJoin
  PROVE  /\ worker' \in [Threads -> WorkerStates]
         /\ handle' \in Threads \cup {NoThread}
         /\ \A t \in Threads : worker'[t] # "none" => handle' = t
         /\ handle' # NoThread => worker'[handle'] # "none"
         /\ \A t \in Threads : worker'[t] = "run" <=> worker[t] = "run"
         /\ ~ IsMaintenancing => handle' = NoThread
BY ThreadAssumption
   DEF TryJoin, Joined, IsMaintenancing, TypeOK, HandleInv, WorkerStates

\* The table of sessions stays a table of times, whatever is put into it or
\* taken from it.
LEMMA SessionTable ==
  ASSUME TypeOK, NEW id \in SessionIds
  PROVE  /\ DOMAIN Put(sessions, id, now) \subseteq SessionIds
         /\ Put(sessions, id, now) \in [DOMAIN Put(sessions, id, now) -> 0 .. MaxTime]
BY DEF Put, TypeOK

\* A session that is removed leaves the others as they are.
LEMMA SessionsWithout ==
  ASSUME TypeOK, NEW S
  PROVE  /\ DOMAIN Without(sessions, S) \subseteq SessionIds
         /\ Without(sessions, S) \in [DOMAIN Without(sessions, S) -> 0 .. MaxTime]
BY DEF Without, TypeOK

-----------------------------------------------------------------------------
\* Nothing is started, no thread exists.
LEMMA InitIInv == Init => IInv
<1> SUFFICES ASSUME Init PROVE IInv
  OBVIOUS
<1>1. /\ pending \in Seq(Task) /\ done \in Seq(Task)
      /\ sessions \in [DOMAIN sessions -> 0 .. MaxTime]
      /\ DOMAIN sessions \subseteq SessionIds
  BY DEF Init
<1>2. /\ worker \in [Threads -> WorkerStates] /\ task \in [Threads -> Task \cup {NoTask}]
      /\ \A t \in Threads : worker[t] = "run" <=> task[t] # NoTask
  BY DEF Init, WorkerStates
<1>3. TypeOK
  <2>1. now \in 0 .. MaxTime /\ calls \in 0 .. MaxCalls
    BY BoundAssumption DEF Init
  <2>2. /\ started \in BOOLEAN /\ conduct \in Conducts /\ main \in MainStates
        /\ handle \in Threads \cup {NoThread}
    BY DEF Init, MainStates, Conducts
  <2> QED BY <1>1, <1>2, <2>1, <2>2 DEF TypeOK
<1>4. CallsInv /\ HandleInv
  BY ThreadAssumption DEF Init, CallsInv, HandleInv
<1> QED BY <1>3, <1>4 DEF IInv

\* One case for each action.
LEMMA NextIInv == IInv /\ [Next]_vars => IInv'
<1> SUFFICES ASSUME IInv, [Next]_vars PROVE IInv'
  OBVIOUS
<1> USE DEF IInv
<1>1. CASE RimeInitialize
  BY <1>1 DEF RimeInitialize, Initializing, Conducts, Idle, TypeOK, CallsInv,
              HandleInv, deployer, MainStates
<1>2. CASE RimeStartMaintenance
  BY <1>2 DEF RimeStartMaintenance, Deploying, Conducts, Idle, TypeOK, CallsInv,
              HandleInv, service, deployer, MainStates
<1>3. CASE Deploy
  BY <1>3 DEF Deploy, Deploying, Conducts, Idle, TypeOK, CallsInv, HandleInv,
              service, deployer, MainStates
<1>4. CASE RimeFinalize
  BY <1>4 DEF RimeFinalize, Idle, TypeOK, CallsInv, HandleInv, service, deployer,
              MainStates
<1>5. CASE RimeJoinMaintenanceThread
  BY <1>5 DEF RimeJoinMaintenanceThread, Idle, TypeOK, CallsInv, HandleInv, service,
              deployer, MainStates
<1>6. CASE RimeIsMaintenancing
  BY <1>6, TryJoinKeepsHandle
     DEF RimeIsMaintenancing, Idle, Stay, TypeOK, CallsInv, HandleInv, service, MainStates
<1>7. CASE CreateSession
  BY <1>7, TryJoinKeepsHandle, SessionTable
     DEF CreateSession, Idle, Stay, TypeOK, CallsInv, HandleInv, MainStates
<1>8. CASE CleanupStaleSessions
  BY <1>8, SessionsWithout
     DEF CleanupStaleSessions, Idle, Stay, TypeOK, CallsInv, HandleInv, deployer, MainStates
<1>9. CASE CleanupAllSessions
  BY <1>9
     DEF CleanupAllSessions, Idle, Stay, TypeOK, CallsInv, HandleInv, deployer, MainStates
<1>10. ASSUME NEW id \in SessionIds, ProcessKey(id) PROVE IInv'
  <2>1. CASE started
    BY <1>10, <2>1, TryJoinKeepsHandle, SessionTable
       DEF ProcessKey, disabled, Disabled, Idle, TypeOK, CallsInv, HandleInv, MainStates
  <2>2. CASE ~ started
    BY <1>10, <2>2
       DEF ProcessKey, disabled, Disabled, Idle, TypeOK, CallsInv, HandleInv, MainStates
  <2> QED BY <2>1, <2>2
<1>11. ASSUME NEW id \in SessionIds, DestroySession(id) PROVE IInv'
  BY <1>11, SessionsWithout
     DEF DestroySession, Idle, Stay, TypeOK, CallsInv, HandleInv, deployer, MainStates
<1>12. CASE InstallationUpdate
  BY <1>12, BoundAssumption
     DEF InstallationUpdate, TypeOK, CallsInv, HandleInv, service, deployer, MainStates
<1>13. CASE ConfigFileUpdate
  BY <1>13, BoundAssumption
     DEF ConfigFileUpdate, TypeOK, CallsInv, HandleInv, service, deployer, MainStates
<1>14. CASE Schedule1 \/ Schedule2
  <2>1. PICK name \in {"WorkspaceUpdate", "UserDictUpgration"} :
          pending' = Append(pending, << name, calls >>)
    BY <1>14 DEF Schedule1, Schedule2, ScheduleTask
  <2>2. << name, calls >> \in Task
    BY <1>14 DEF Schedule1, Schedule2, CallsInv, Task
  <2>3. pending' \in Seq(Task)
    BY <2>1, <2>2 DEF TypeOK
  <2> QED
    BY <1>14, <2>3
       DEF Schedule1, Schedule2, ScheduleTask, TypeOK, CallsInv, HandleInv, service,
           MainStates
<1>15. CASE StartMaintenance
  <2>1. CASE TryJoin
    BY <1>15, <2>1, TryJoinKeepsHandle
       DEF StartMaintenance, TypeOK, CallsInv, HandleInv, service, MainStates
  <2>2. CASE ~ TryJoin
    BY <1>15, <2>2, ThreadAssumption
       DEF StartMaintenance, IsMaintenancing, TypeOK, CallsInv, HandleInv, service,
           MainStates, WorkerStates
  <2> QED BY <2>1, <2>2
<1>16. CASE Deployed
  BY <1>16 DEF Deployed, Stay, TypeOK, CallsInv, HandleInv, service, deployer, MainStates
<1>17. CASE KeyProcessed
  BY <1>17 DEF KeyProcessed, Stay, TypeOK, CallsInv, HandleInv, service, deployer, MainStates
<1>18. CASE Join
  BY <1>18, TryJoinKeepsHandle
     DEF Join, Finalizing, Conducts, TypeOK, CallsInv, HandleInv, MainStates
<1>19. CASE Tick
  BY <1>19, BoundAssumption DEF Tick, TypeOK, CallsInv, HandleInv, deployer
<1>20. ASSUME NEW t \in Threads, Worker(t) PROVE IInv'
  <2>1. CASE NextTask(t)
    <3>1. pending # << >> => Head(pending) \in Task /\ Tail(pending) \in Seq(Task)
      BY DEF TypeOK
    <3> QED
      BY <2>1, <3>1, NoTaskAssumption
         DEF NextTask, TypeOK, CallsInv, HandleInv, service, WorkerStates
  <2>2. CASE RunTask(t)
    BY <2>2, NoTaskAssumption
       DEF RunTask, TypeOK, CallsInv, HandleInv, service, WorkerStates
  <2>3. CASE EndRun(t)
    BY <2>3 DEF EndRun, TypeOK, CallsInv, HandleInv, service, WorkerStates
  <2> QED BY <1>20, <2>1, <2>2, <2>3 DEF Worker
<1>21. CASE UNCHANGED vars
  BY <1>21 DEF vars, TypeOK, CallsInv, HandleInv
<1> QED
  BY <1>1, <1>2, <1>3, <1>4, <1>5, <1>6, <1>7, <1>8, <1>9, <1>10, <1>11, <1>12,
     <1>13, <1>14, <1>15, <1>16, <1>17, <1>18, <1>19, <1>20, <1>21
     DEF Next, Call, Continue

\* The handle stands for the one thread there is, in every reachable state.
LEMMA Invariance == Spec => []IInv
BY InitIInv, NextIInv, PTL DEF Spec

-----------------------------------------------------------------------------
(* The theorems                                                             *)

\* Every variable of the service and the deployer has its type.
THEOREM TypeCorrect == Spec => []TypeOK
<1>1. IInv => TypeOK
  BY DEF IInv
<1> QED BY <1>1, Invariance, PTL

\* Deployer::StartMaintenance never leaves a thread behind that runs tasks and
\* that the deployer cannot join.
THEOREM OneThread == Spec => []OneMaintenanceThread
<1>1. IInv => OneMaintenanceThread
  BY DEF IInv, HandleInv, OneMaintenanceThread, Live
<1> QED BY <1>1, Invariance, PTL

\* Service::disabled, asked once at the beginning of a call, keeps a key from
\* meeting the maintenance thread.
THEOREM KeysAlone == Spec => []NoKeyDuringMaintenance
<1>1. IInv => NoKeyDuringMaintenance
  BY ThreadAssumption DEF IInv, HandleInv, NoKeyDuringMaintenance, Live
<1> QED BY <1>1, Invariance, PTL

\* RimeFinalize leaves no session and no thread.
THEOREM QuietAfterFinalize == Spec => FinalizedIsQuiet
<1> DEFINE Quiet == main = "finalize" /\ main' = "idle" =>
                      /\ sessions' = [id \in {} |-> 0] /\ ~ started'
                      /\ \A t \in Threads : worker'[t] = "none"
<1>1. IInv /\ [Next]_vars => [Quiet]_vars
  <2> SUFFICES ASSUME IInv, [Next]_vars, main = "finalize", main' = "idle" PROVE Quiet
    BY DEF Quiet
  <2>1. Join
    BY DEF Next, Call, Continue, RimeInitialize, RimeStartMaintenance, Deploy,
           RimeFinalize, RimeIsMaintenancing, RimeJoinMaintenanceThread,
           CreateSession, CleanupStaleSessions, CleanupAllSessions, ProcessKey,
           DestroySession, InstallationUpdate, ConfigFileUpdate, Schedule1,
           Schedule2, StartMaintenance, Deployed, KeyProcessed, Tick, Worker,
           NextTask, RunTask, EndRun, Idle, vars
  <2>2. \A t \in Threads : worker'[t] = "none"
    BY <2>1, ThreadAssumption, TryJoinKeepsHandle DEF IInv, Join
  <2> QED BY <2>1, <2>2 DEF Join
<1> QED BY <1>1, Invariance, PTL DEF Spec, FinalizedIsQuiet

-----------------------------------------------------------------------------
(* Service implements TaskQueue                                             *)

Running == IF handle = NoThread THEN NoTask ELSE task[handle]

\* A thread that has come to its end runs no task, so joining it, or swapping
\* a new one in for it, is nothing to the queue.
LEMMA JoinIsAStutter ==
  ASSUME IInv, TryJoin, UNCHANGED task
  PROVE  UNCHANGED Running
BY ThreadAssumption
   DEF TryJoin, Joined, IsMaintenancing, Running, IInv, TypeOK, HandleInv

\* Starting a task changes nothing the task queue promises.
LEMMA StartIsAStutter ==
  ASSUME IInv, StartMaintenance
  PROVE  UNCHANGED << pending, Running, done >>
<1>1. CASE TryJoin
  BY <1>1, JoinIsAStutter DEF StartMaintenance
<1>2. CASE ~ TryJoin
  BY <1>2, ThreadAssumption
     DEF StartMaintenance, IsMaintenancing, Running, IInv, TypeOK, HandleInv
<1> QED BY <1>1, <1>2

\* Every step of the service and the deployer is a step of the abstract queue
\* or leaves it alone.
LEMMA StepSimulation ==
  IInv /\ [Next]_vars => [Queue!Next]_<< pending, Running, done >>
<1> SUFFICES ASSUME IInv, [Next]_vars
             PROVE  Queue!Next \/ UNCHANGED << pending, Running, done >>
  OBVIOUS
<1>1. CASE Schedule1 \/ Schedule2
  <2>1. PICK name \in {"WorkspaceUpdate", "UserDictUpgration"} :
          pending' = Append(pending, << name, calls >>)
    BY <1>1 DEF Schedule1, Schedule2, ScheduleTask
  <2>2. << name, calls >> \in Task
    BY <1>1 DEF Schedule1, Schedule2, IInv, CallsInv, Task
  <2>3. Queue!Schedule(<< name, calls >>)
    BY <1>1, <2>1 DEF Schedule1, Schedule2, ScheduleTask, Queue!Schedule
  <2> QED BY <2>2, <2>3 DEF Queue!Next
<1>2. CASE StartMaintenance
  BY <1>2, StartIsAStutter
<1>3. CASE RimeIsMaintenancing \/ CreateSession \/ Join
  BY <1>3, JoinIsAStutter DEF RimeIsMaintenancing, CreateSession, Join
<1>4. ASSUME NEW id \in SessionIds, ProcessKey(id)
      PROVE  UNCHANGED << pending, Running, done >>
  BY <1>4, JoinIsAStutter DEF ProcessKey, Disabled, Running
<1>5. ASSUME NEW t \in Threads, NextTask(t)
      PROVE  Queue!Start \/ UNCHANGED << pending, Running, done >>
  <2>1. handle = t /\ handle # NoThread /\ task[t] = NoTask
    BY <1>5, ThreadAssumption DEF NextTask, IInv, TypeOK, HandleInv
  <2> QED
    BY <1>5, <2>1 DEF NextTask, Queue!Start, Running, IInv, TypeOK
<1>6. ASSUME NEW t \in Threads, RunTask(t) PROVE Queue!Finish
  <2>1. handle = t /\ handle # NoThread /\ task[t] # NoTask
    BY <1>6, ThreadAssumption DEF RunTask, IInv, TypeOK, HandleInv
  <2> QED
    BY <1>6, <2>1 DEF RunTask, Queue!Finish, Running, IInv, TypeOK
<1>7. CASE \/ RimeInitialize \/ RimeStartMaintenance \/ Deploy \/ RimeFinalize
           \/ RimeJoinMaintenanceThread \/ CleanupStaleSessions
           \/ CleanupAllSessions \/ InstallationUpdate \/ ConfigFileUpdate
           \/ Deployed \/ KeyProcessed \/ Tick \/ UNCHANGED vars
           \/ (\E id \in SessionIds : DestroySession(id))
           \/ (\E t \in Threads : EndRun(t))
  BY <1>7
     DEF RimeInitialize, RimeStartMaintenance, Deploy, RimeFinalize,
         RimeJoinMaintenanceThread, CleanupStaleSessions, CleanupAllSessions,
         InstallationUpdate, ConfigFileUpdate, Deployed, KeyProcessed, Tick,
         DestroySession, EndRun, deployer, vars, Running
<1> QED
  BY <1>1, <1>2, <1>3, <1>4, <1>5, <1>6, <1>7
     DEF Next, Call, Continue, Worker, Queue!Next

\* The deployer's queue, its threads and what they have run are the task queue
\* the deployer promises: tasks run one at a time, once, in their order.
THEOREM Refinement == Spec => ImplementsTaskQueue
<1>1. Init => Queue!Init
  BY DEF Init, Queue!Init
<1>2. IInv /\ [Next]_vars => [Queue!Next]_<< pending, Running, done >>
  BY StepSimulation
<1> QED
  BY <1>1, <1>2, Invariance, PTL DEF Spec, ImplementsTaskQueue, Queue!Spec, Running

-----------------------------------------------------------------------------
(* An orderly application                                                   *)

\* From the call that initializes the library to the end of the call that
\* starts maintenance there is no thread.
OrderInv ==
  Orderly =>
    /\ ~ started => handle = NoThread
    /\ conduct = "fresh" => started /\ handle = NoThread
    /\ main \in {"install", "config", "schedule1", "schedule2", "start"} =>
         started /\ conduct # "fresh" /\ handle = NoThread
    /\ main = "deploy" => handle = NoThread

\* Only StartMaintenance makes a thread, and an orderly application must
\* initialize the library again before its next deployment.
LEMMA NextOrderInv ==
  IInv /\ OrderInv /\ [Next]_vars => OrderInv'
<1> SUFFICES ASSUME IInv, OrderInv, [Next]_vars PROVE OrderInv'
  OBVIOUS
<1>1. CASE RimeInitialize \/ RimeStartMaintenance \/ Deploy
  BY <1>1 DEF RimeInitialize, RimeStartMaintenance, Deploy, Idle, Initializing,
              Deploying, OrderInv, Orderly, service, deployer
<1>2. CASE \/ InstallationUpdate \/ ConfigFileUpdate \/ Schedule1 \/ Schedule2
           \/ Deployed \/ KeyProcessed
  BY <1>2 DEF InstallationUpdate, ConfigFileUpdate, Schedule1, Schedule2,
              ScheduleTask, Deployed, KeyProcessed, Stay, OrderInv, Orderly, service,
              deployer
<1>3. CASE StartMaintenance
  BY <1>3 DEF StartMaintenance, OrderInv, Orderly, service
<1>4. CASE RimeIsMaintenancing \/ CreateSession
  BY <1>4 DEF RimeIsMaintenancing, CreateSession, TryJoin, Joined, Idle, Stay,
              OrderInv, Orderly, service
<1>5. CASE Join
  BY <1>5, TryJoinKeepsHandle DEF Join, Finalizing, OrderInv, Orderly, IInv
<1>6. ASSUME NEW id \in SessionIds, ProcessKey(id) PROVE OrderInv'
  BY <1>6 DEF ProcessKey, disabled, Disabled, TryJoin, Joined, Idle, IInv, OrderInv,
              Orderly
<1>7. CASE \/ RimeFinalize \/ RimeJoinMaintenanceThread \/ CleanupStaleSessions
           \/ CleanupAllSessions \/ (\E id \in SessionIds : DestroySession(id))
  <2>1. UNCHANGED << started, conduct, handle >> /\ main' \in {"idle", "finalize", "join"}
    BY <1>7 DEF RimeFinalize, RimeJoinMaintenanceThread, CleanupStaleSessions,
                CleanupAllSessions, DestroySession, Stay, service, deployer
  <2> QED BY <2>1 DEF OrderInv, Orderly
<1>8. CASE Tick \/ UNCHANGED vars \/ (\E t \in Threads : Worker(t))
  <2>1. UNCHANGED << started, conduct, main, handle >>
    BY <1>8 DEF Tick, vars, Worker, NextTask, RunTask, EndRun, service, deployer
  <2> QED BY <2>1 DEF OrderInv, Orderly
<1> QED
  BY <1>1, <1>2, <1>3, <1>4, <1>5, <1>6, <1>7, <1>8
     DEF Next, Call, Continue

\* An application that deploys only once after it initializes, as ibus-rime and
\* Squirrel do, never runs a task in its own thread beside the maintenance thread.
THEOREM OrderlyDeployments == Spec => []NoTwoDeployments
<1>1. Init => OrderInv
  BY DEF Init, OrderInv, Orderly
<1>2. IInv /\ OrderInv /\ [Next]_vars => OrderInv'
  BY NextOrderInv
<1>3. IInv /\ OrderInv => NoTwoDeployments
  BY ThreadAssumption DEF IInv, HandleInv, OrderInv, Orderly, NoTwoDeployments
<1> QED BY <1>1, <1>2, <1>3, Invariance, PTL DEF Spec
=============================================================================
