------------------------------ MODULE Service ------------------------------
(***************************************************************************)
(* The service that owns the sessions, and the deployer that rebuilds       *)
(* dictionaries and settings in a thread of its own.  One thread of the     *)
(* application calls the API; a call that takes several steps is `main' in   *)
(* between.  A maintenance thread takes task after task from the queue and   *)
(* ends when the queue is empty.                                             *)
(*                                                                         *)
(* boost::thread is modelled by `handle', the thread the member             *)
(* maintenance_thread_ is joinable with: swapping in a new thread detaches   *)
(* the old one, which goes on running.                                       *)
(***************************************************************************)
EXTENDS Integers, Sequences

CONSTANTS
  SessionIds,  \* the addresses a session may be allocated at
  Threads,     \* threads the system may create
  NoThread,    \* the handle is not joinable
  NoTask,
  LifeSpan,    \* Session::kLifeSpan
  MaxTime,     \* bound: ticks of the clock
  MaxCalls     \* bound: calls of RimeStartMaintenance that schedule tasks

ASSUME ThreadAssumption == NoThread \notin Threads
ASSUME BoundAssumption == LifeSpan \in Nat /\ MaxTime \in Nat /\ MaxCalls \in Nat

Task == {"WorkspaceUpdate", "UserDictUpgration"} \X (1 .. MaxCalls)
ASSUME NoTaskAssumption == NoTask \notin Task

VARIABLES
  started,   \* Service::started_
  sessions,  \* Service::sessions_: the last active time of each session
  now,       \* the clock
  calls,     \* how many calls have scheduled tasks
  conduct,   \* history: how the application has called the API so far
  main,      \* where the application's thread is in the API
  pending,   \* Deployer::pending_tasks_
  handle,    \* the thread that maintenance_thread_ stands for
  worker,    \* what each thread is doing
  task,      \* the task each thread is running
  done       \* the tasks that have been run, in order

service == << started, sessions, now >>
deployer == << pending, handle, worker, task, done >>
vars == << started, sessions, now, calls, conduct, main, pending, handle, worker,
           task, done >>

MainStates == {"idle", "key", "install", "config", "schedule1", "schedule2",
               "start", "deploy", "finalize", "join"}
WorkerStates == {"none", "next", "run", "leave", "ended"}

Init ==
  /\ started = FALSE /\ sessions = [id \in {} |-> 0] /\ now = 0
  /\ calls = 0 /\ conduct = "orderly" /\ main = "idle"
  /\ pending = << >> /\ handle = NoThread
  /\ worker = [t \in Threads |-> "none"]
  /\ task = [t \in Threads |-> NoTask]
  /\ done = << >>

\* Up to now it has called the API as ibus-rime and Squirrel do.
Orderly == conduct # "disorderly"

-----------------------------------------------------------------------------
(* The maintenance thread: Deployer::Run                                    *)

Live(t) == worker[t] \in {"next", "run", "leave"}

\* Mutant: the thread waits for more when the queue is empty.
NextTaskWaits(t) ==
  /\ worker[t] = "next" /\ pending # << >>
  /\ task' = [task EXCEPT ![t] = Head(pending)]
  /\ pending' = Tail(pending)
  /\ worker' = [worker EXCEPT ![t] = "run"]
  /\ UNCHANGED << service, calls, conduct, main, handle, done >>

NextTask(t) ==
  /\ worker[t] = "next"
  /\ \/ /\ pending # << >>
        /\ task' = [task EXCEPT ![t] = Head(pending)]
        /\ pending' = Tail(pending)
        /\ worker' = [worker EXCEPT ![t] = "run"]
     \/ /\ pending = << >>
        /\ worker' = [worker EXCEPT ![t] = "leave"]
        /\ UNCHANGED << task, pending >>
  /\ UNCHANGED << service, calls, conduct, main, handle, done >>

\* The task succeeds or fails; either way the next one follows.
\* Mutant: the task that has run stays in hand.
RunTaskAndKeepIt(t) ==
  /\ worker[t] = "run"
  /\ done' = Append(done, task[t])
  /\ worker' = [worker EXCEPT ![t] = "next"]
  /\ UNCHANGED << service, calls, conduct, main, pending, handle, task >>

RunTask(t) ==
  /\ worker[t] = "run"
  /\ done' = Append(done, task[t])
  /\ task' = [task EXCEPT ![t] = NoTask]
  /\ worker' = [worker EXCEPT ![t] = "next"]
  /\ UNCHANGED << service, calls, conduct, main, pending, handle >>

\* NextTask has released the lock with nothing to answer: the thread goes on
\* to its end, and no task that is added now makes it turn back.
EndRun(t) ==
  /\ worker[t] = "leave"
  /\ worker' = [worker EXCEPT ![t] = "ended"]
  /\ UNCHANGED << service, calls, conduct, main, pending, handle, task, done >>

Worker(t) == NextTask(t) \/ RunTask(t) \/ EndRun(t)

-----------------------------------------------------------------------------
(* Deployer, called by the application's thread                             *)

\* IsMaintenancing answers whether the thread goes on; when it has ended,
\* timed_join(0) joins it, and the handle is not joinable any more.
IsMaintenancing == handle # NoThread /\ worker[handle] # "ended"
Joined(t) == worker' = [worker EXCEPT ![t] = "none"] /\ handle' = NoThread
TryJoin ==
  IF handle # NoThread /\ ~ IsMaintenancing THEN Joined(handle)
  ELSE UNCHANGED << worker, handle >>

\* Service::disabled looks at the thread only if the service is started.
\* Mutant: it does not ask the deployer.
disabledUnlessStarted == ~ started

disabled == ~ started \/ IsMaintenancing
Disabled == IF started THEN TryJoin ELSE UNCHANGED << worker, handle >>

ScheduleTask(name, next) ==
  /\ pending' = Append(pending, << name, calls >>)
  /\ main' = next
  /\ UNCHANGED << service, calls, conduct, handle, worker, task, done >>

Schedule1 == main = "schedule1" /\ ScheduleTask("WorkspaceUpdate", "schedule2")
Schedule2 == main = "schedule2" /\ ScheduleTask("UserDictUpgration", "start")

\* Mutant: another thread may be running.
StartMaintenanceAnyway ==
  /\ main = "start" /\ main' = "idle"
  /\ IF pending = << >>
     THEN UNCHANGED << worker, handle >>
     ELSE \E t \in Threads :
            /\ worker[t] = "none"
            /\ worker' = [worker EXCEPT ![t] = "next"]
            /\ handle' = t
  /\ UNCHANGED << service, calls, conduct, pending, task, done >>

StartMaintenance ==
  /\ main = "start" /\ main' = "idle"
  /\ \/ /\ IsMaintenancing \/ pending = << >>
        /\ TryJoin
     \/ /\ ~ IsMaintenancing /\ pending # << >>
        /\ \E t \in Threads :
             /\ worker[t] = "none" \/ t = handle
             /\ worker' = [u \in Threads |->
                             IF u = t THEN "next"
                             ELSE IF u = handle THEN "none" ELSE worker[u]]
             /\ handle' = t
  /\ UNCHANGED << service, calls, conduct, pending, task, done >>

-----------------------------------------------------------------------------
(* The API                                                                  *)

Idle == main = "idle"
Stay == main' = "idle" /\ UNCHANGED << calls, conduct >>

\* ibus-rime and Squirrel initialize once until they finalize, deploy right
\* after that, and finalize before they deploy again.  The API asks for none of
\* this, and Weasel initializes and deploys again when a client wants a session
\* while maintenance, which it has just started, is going on.
\* "fresh": initialized, and no maintenance started since.
Conducts == {"orderly", "fresh", "disorderly"}
Initializing == IF Orderly /\ ~ started THEN "fresh" ELSE "disorderly"
Deploying(next) == IF conduct = "fresh" THEN next ELSE "disorderly"
Finalizing == IF Orderly THEN "orderly" ELSE "disorderly"

RimeInitialize ==
  /\ Idle
  /\ started' = TRUE /\ conduct' = Initializing
  /\ UNCHANGED << sessions, now, calls, main, deployer >>

\* RimeStartMaintenance: InstallationUpdate and, without full_check,
\* ConfigFileUpdate run in the caller's thread.
RimeStartMaintenance ==
  /\ Idle /\ calls < MaxCalls
  /\ main' = "install" /\ conduct' = Deploying("orderly")
  /\ UNCHANGED << service, calls, deployer >>

InstallationUpdate ==
  /\ main = "install"
  /\ \/ main' = "config" /\ UNCHANGED calls
     \/ main' = "schedule1" /\ calls' = calls + 1
  /\ UNCHANGED << service, conduct, deployer >>

ConfigFileUpdate ==
  /\ main = "config"
  /\ \/ main' = "idle" /\ UNCHANGED calls
     \/ main' = "schedule1" /\ calls' = calls + 1
  /\ UNCHANGED << service, conduct, deployer >>

\* RimeDeployWorkspace, RimeDeploySchema, RimeDeployConfigFile and
\* RimePrebuildAllSchemas run their tasks in the caller's thread.
Deploy ==
  /\ Idle
  /\ main' = "deploy" /\ conduct' = Deploying("fresh")
  /\ UNCHANGED << service, calls, deployer >>

Deployed ==
  /\ main = "deploy" /\ Stay
  /\ UNCHANGED << service, deployer >>

\* RimeFinalize and RimeJoinMaintenanceThread wait for the thread to end.
RimeFinalize ==
  /\ Idle /\ main' = "finalize"
  /\ UNCHANGED << service, calls, conduct, deployer >>

RimeIsMaintenancing ==
  /\ Idle /\ Stay /\ TryJoin
  /\ UNCHANGED << service, pending, task, done >>

RimeJoinMaintenanceThread ==
  /\ Idle /\ main' = "join"
  /\ UNCHANGED << service, calls, conduct, deployer >>

\* Mutant: nobody waits.
JoinWithoutWaiting ==
  /\ main \in {"join", "finalize"}
  /\ TryJoin /\ main' = "idle"
  /\ IF main = "finalize"
     THEN /\ started' = FALSE /\ conduct' = Finalizing
          /\ sessions' = [id \in {} |-> 0]
     ELSE UNCHANGED << started, conduct, sessions >>
  /\ UNCHANGED << now, calls, pending, task, done >>

Join ==
  /\ main \in {"join", "finalize"} /\ ~ IsMaintenancing
  /\ TryJoin /\ main' = "idle"
  /\ IF main = "finalize"
     THEN /\ started' = FALSE /\ conduct' = Finalizing
          /\ sessions' = [id \in {} |-> 0]
     ELSE UNCHANGED << started, conduct, sessions >>
  /\ UNCHANGED << now, calls, pending, task, done >>

-----------------------------------------------------------------------------
(* Sessions                                                                 *)

Put(f, id, value) == [i \in DOMAIN f \cup {id} |-> IF i = id THEN value ELSE f[i]]
Without(f, ids) == [i \in DOMAIN f \ ids |-> f[i]]

CreateSession ==
  /\ Idle /\ ~ disabled
  /\ \E id \in SessionIds \ DOMAIN sessions : sessions' = Put(sessions, id, now)
  /\ TryJoin /\ Stay
  /\ UNCHANGED << started, now, pending, task, done >>

\* GetSession, and a key that the session goes on to process; every other
\* call about a session begins in the same way
ProcessKey(id) ==
  /\ Idle
  /\ Disabled
  /\ IF ~ disabled /\ id \in DOMAIN sessions
     THEN sessions' = Put(sessions, id, now) /\ main' = "key"
     ELSE UNCHANGED << sessions, main >>
  /\ UNCHANGED << started, now, calls, conduct, pending, task, done >>

KeyProcessed ==
  /\ main = "key" /\ Stay
  /\ UNCHANGED << service, deployer >>

DestroySession(id) ==
  /\ Idle /\ Stay
  /\ id \in DOMAIN sessions /\ sessions' = Without(sessions, {id})
  /\ UNCHANGED << started, now, deployer >>

CleanupStaleSessions ==
  /\ Idle /\ Stay
  /\ sessions' = Without(sessions, {id \in DOMAIN sessions :
                                      sessions[id] < now - LifeSpan})
  /\ UNCHANGED << started, now, deployer >>

CleanupAllSessions ==
  /\ Idle /\ Stay
  /\ sessions' = [id \in {} |-> 0]
  /\ UNCHANGED << started, now, deployer >>

Tick ==
  /\ now < MaxTime /\ now' = now + 1
  /\ UNCHANGED << started, sessions, calls, conduct, main, deployer >>

-----------------------------------------------------------------------------
\* the rest of a call that has begun
Continue ==
  \/ InstallationUpdate \/ ConfigFileUpdate \/ Schedule1 \/ Schedule2
  \/ StartMaintenance \/ Deployed \/ KeyProcessed \/ Join

Call ==
  \/ RimeInitialize \/ RimeStartMaintenance \/ Deploy
  \/ RimeFinalize \/ RimeIsMaintenancing \/ RimeJoinMaintenanceThread
  \/ CreateSession \/ CleanupStaleSessions \/ CleanupAllSessions
  \/ \E id \in SessionIds : ProcessKey(id) \/ DestroySession(id)

Next == Call \/ Continue \/ Tick \/ \E t \in Threads : Worker(t)

Spec == Init /\ [][Next]_vars

\* A thread that can run does run, and a task comes to an end; a call that has
\* begun goes on.  Nobody has to call the API.
Fairness == WF_vars(Continue) /\ \A t \in Threads : WF_vars(Worker(t))
FairSpec == Spec /\ Fairness

-----------------------------------------------------------------------------
(* Invariants                                                               *)

TypeOK ==
  /\ started \in BOOLEAN /\ conduct \in Conducts
  /\ DOMAIN sessions \subseteq SessionIds
  /\ sessions \in [DOMAIN sessions -> 0 .. MaxTime]
  /\ now \in 0 .. MaxTime /\ calls \in 0 .. MaxCalls
  /\ main \in MainStates
  /\ pending \in Seq(Task) /\ done \in Seq(Task)
  /\ handle \in Threads \cup {NoThread}
  /\ worker \in [Threads -> WorkerStates]
  /\ task \in [Threads -> Task \cup {NoTask}]
  /\ \A t \in Threads : worker[t] = "run" <=> task[t] # NoTask

\* However often maintenance is started, at most one thread runs tasks, and
\* the deployer can still join it.
OneMaintenanceThread == \A t \in Threads : Live(t) => handle = t

\* No session is at work on a key while a maintenance thread is alive: the
\* check at the beginning of a call holds until the call ends.
NoKeyDuringMaintenance == main = "key" => \A t \in Threads : ~ Live(t)

\* An orderly application never runs two tasks at a time, one in its own
\* thread and one in the maintenance thread.
NoTwoDeployments ==
  Orderly /\ main \in {"install", "config", "deploy"} =>
    \A t \in Threads : worker[t] # "run"

\* When a call has finalized the library, nothing is left of it.
FinalizedIsQuiet ==
  [][main = "finalize" /\ main' = "idle" =>
       /\ sessions' = [id \in {} |-> 0] /\ ~ started'
       /\ \A t \in Threads : worker'[t] = "none"]_vars

\* The queue, the threads and the history are the abstract task queue.
Queue == INSTANCE TaskQueue WITH
  waiting <- pending,
  running <- IF handle = NoThread THEN NoTask ELSE task[handle],
  finished <- done
ImplementsTaskQueue == Queue!Spec

\* Every call comes to its end, those that wait for the maintenance thread too.
CallsReturn == main # "idle" ~> main = "idle"

\* An orderly application sees each scheduled task through.
TasksRun == (Orderly /\ pending # << >>) ~> (pending = << >> \/ ~ Orderly)
=============================================================================
