------------------------------- MODULE Weasel -------------------------------
(***************************************************************************)
(* Weasel, the front end for Windows: a client in every application that    *)
(* types, one server process that owns the sessions, and the deployer, a    *)
(* third process that asks the server to leave the workspace alone.         *)
(*                                                                         *)
(* A client sends a message and waits, or posts one and goes on.  What has  *)
(* been posted waits in the queue of the server's window; what is sent may  *)
(* be handled before it.  The answer to a key is left in a buffer that all  *)
(* clients read, after the server has returned.                             *)
(*                                                                         *)
(* The composition that the client shows in its application is left out,    *)
(* and so is the death of a client.                                         *)
(***************************************************************************)
EXTENDS Integers, Sequences, FiniteSets

CONSTANTS
  Clients,         \* an IME instance for each input context
  SessionIds,      \* the addresses a session may be allocated at
  NoSession,       \* 0
  NoAnswer,        \* the buffer as the server finds it when it starts
  MaxPosted,       \* bound: messages waiting in the queue
  Budgets          \* bounds of a behaviour, one of these: how many keys are
                   \* pressed, how many of them may commit, how often the user
                   \* goes to another client, a client posts anything else than
                   \* a change of focus, the workspace is found to have changed,
                   \* the deployer runs, and the server is shut down

ASSUME SessionAssumption == NoSession \notin SessionIds
Budget == [keys : Nat, commits : Nat, moves : Nat, posts : Nat,
           changes : Nat, deployments : Nat, stops : Nat]
ASSUME BoundAssumption ==
  MaxPosted \in Nat /\ Budgets \subseteq Budget

VARIABLES
  server,      \* the process: not there, creating its window, in its loop
  disabled,    \* RimeWithWeaselHandler::m_disabled
  active,      \* RimeWithWeaselHandler::m_active_session
  sessions,    \* of the service; whether each of them is composing
  maintaining, \* the maintenance thread of the server's library is running
  panel,       \* the session the panel shows; NoSession when it is hidden
  buffer,      \* the answer in shared memory
  posted,      \* messages in the queue of the server's window
  wnd,         \* ClientImpl::serverWnd is the window of the server
  sid,         \* ClientImpl::session_id
  pc,          \* where the client is in ProcessKeyEvent
  focus,       \* the client the user is typing in
  due,         \* the change of focus that a client has yet to hear of
  deployer,    \* where the deployer is in UpdateWorkspace
  left,        \* what is left of the budget
  made,        \* history: the client that each text was committed for
  doc,         \* history: the texts inserted in the document of each client
  calm         \* history: every answer read so far was an answer to the reader

service == << disabled, active, sessions, maintaining, panel >>
clients == << wnd, sid, pc, focus, due >>
history == << made, doc, calm >>
vars == << server, service, buffer, posted, clients, deployer, left, history >>

Session == SessionIds \cup {NoSession}
Answer == [commit : Nat, composing : BOOLEAN, to : Clients]
Message == [kind : {"focus_in", "focus_out", "position", "end"}, id : Session]
Steps == {"idle", "echo", "connect", "start", "add", "key", "read", "unanswered"}

NoSessions == [id \in {} |-> FALSE]
Put(ss, id, composing) ==
  [i \in DOMAIN ss \cup {id} |-> IF i = id THEN composing ELSE ss[i]]
Without(ss, id) == [i \in DOMAIN ss \ {id} |-> ss[i]]

Spend(item) == left[item] > 0 /\ left' = [left EXCEPT ![item] = @ - 1]

Init ==
  /\ server = "down" /\ disabled = TRUE /\ active = NoSession
  /\ sessions = NoSessions /\ maintaining = FALSE /\ panel = NoSession
  /\ buffer = NoAnswer /\ posted = << >>
  /\ wnd = [c \in Clients |-> FALSE]
  /\ sid = [c \in Clients |-> NoSession]
  /\ pc = [c \in Clients |-> "idle"]
  /\ focus \in Clients
  /\ due = [c \in Clients |-> "nothing"]
  /\ deployer = "none"
  /\ left \in Budgets
  /\ made = << >> /\ doc = [c \in Clients |-> << >>] /\ calm = TRUE

-----------------------------------------------------------------------------
(* RimeWithWeaselHandler: what the server does with a message               *)

Serving == server = "serving"

\* Service::GetSession finds nothing while maintenance is going on.
Found(id) == ~ disabled /\ ~ maintaining /\ id \in DOMAIN sessions

\* _UpdateUI shows a session that is composing, and hides the panel otherwise.
UpdateUI(id) ==
  panel' = IF id \in DOMAIN sessions' /\ ~ maintaining' /\ sessions'[id]
           THEN id ELSE NoSession

\* The deployer has the mutex until it has done its work.
IsDeployerRunning == deployer \in {"mutex", "work"}

\* When the workspace has changed, maintenance starts and the server stays
\* disabled, also after maintenance has ended.
Initialize ==
  \/ IsDeployerRunning /\ disabled' = TRUE /\ UNCHANGED << left, maintaining >>
  \/ /\ ~ IsDeployerRunning /\ Spend("changes")
     /\ disabled' = TRUE /\ maintaining' = TRUE
  \/ ~ IsDeployerRunning /\ disabled' = FALSE /\ UNCHANGED << left, maintaining >>

\* RimeFinalize waits for the maintenance thread and ends all sessions.
Finalize ==
  /\ ~ maintaining
  /\ active' = NoSession /\ disabled' = TRUE /\ sessions' = NoSessions
  /\ UNCHANGED maintaining

\* Mutant: a disabled server does not try to resume.
ResumeNever ==
  disabled' = disabled /\ UNCHANGED << left, maintaining >>

\* AddSession resumes a server that is disabled, if it can.
Resume == IF disabled THEN Initialize
          ELSE disabled' = FALSE /\ UNCHANGED << left, maintaining >>

AddSession(c) ==
  /\ Resume
  /\ \/ /\ disabled'
        /\ sid' = [sid EXCEPT ![c] = NoSession]
        /\ panel' = NoSession
        /\ UNCHANGED << active, sessions >>
     \/ /\ ~ disabled' /\ maintaining'
        /\ sid' = [sid EXCEPT ![c] = NoSession]
        /\ panel' = NoSession /\ active' = NoSession
        /\ UNCHANGED sessions
     \/ /\ ~ disabled' /\ ~ maintaining'
        /\ \E id \in SessionIds \ DOMAIN sessions :
             /\ sessions' = Put(sessions, id, FALSE)
             /\ sid' = [sid EXCEPT ![c] = id]
             /\ active' = id
        /\ panel' = NoSession

\* The answer tells the text the session has committed, if any, and whether it
\* is composing; the session forgets the text.
\* Mutant: without a text, the buffer keeps the one that is there.
RespondOverOldText(c, commit, composing) ==
  buffer' = [commit |-> IF commit = 0 /\ buffer # NoAnswer THEN buffer.commit
                        ELSE commit,
             composing |-> composing, to |-> c]

Respond(c, commit, composing) ==
  buffer' = [commit |-> commit, composing |-> composing, to |-> c]

\* A key makes the session compose, end composing, or neither, and may commit.
ProcessKeyEvent(c) ==
  LET id == sid[c] IN
  /\ ~ disabled
  /\ \/ /\ ~ Found(id)
        /\ Respond(c, 0, FALSE)
        /\ UNCHANGED << sessions, made, left >>
     \/ /\ Found(id)
        /\ \E composing \in BOOLEAN, commits \in BOOLEAN :
             /\ IF commits THEN Spend("commits") ELSE UNCHANGED left
             /\ sessions' = [sessions EXCEPT ![id] = composing]
             /\ made' = IF commits THEN Append(made, c) ELSE made
             /\ Respond(c, IF commits THEN Len(made') ELSE 0, composing)
  /\ UNCHANGED << disabled, maintaining >>
  /\ UpdateUI(id) /\ active' = id

FocusIn(id) ==
  /\ UNCHANGED << disabled, sessions, maintaining >>
  /\ IF disabled THEN UNCHANGED << active, panel >>
     ELSE UpdateUI(id) /\ active' = id

\* Mutant: the panel stays.
FocusOutKeepingPanel ==
  active' = NoSession /\ UNCHANGED << disabled, sessions, maintaining, panel >>

FocusOut ==
  /\ panel' = NoSession /\ active' = NoSession
  /\ UNCHANGED << disabled, sessions, maintaining >>

UpdateInputPosition(id) ==
  /\ UNCHANGED << disabled, sessions, maintaining >>
  /\ IF disabled \/ active = id THEN UNCHANGED << active, panel >>
     ELSE UpdateUI(id) /\ active' = id

\* Mutant: the panel goes on showing a session that has ended.
RemoveSessionKeepingPanel(id) ==
  /\ UNCHANGED << disabled, maintaining, panel >>
  /\ IF disabled THEN UNCHANGED << active, sessions >>
     ELSE active' = NoSession /\ sessions' = Without(sessions, id)

RemoveSession(id) ==
  /\ panel' = NoSession
  /\ UNCHANGED << disabled, maintaining >>
  /\ IF disabled THEN UNCHANGED << active, sessions >>
     ELSE active' = NoSession /\ sessions' = Without(sessions, id)

-----------------------------------------------------------------------------
(* The server process                                                       *)

\* The window and the shared memory are there before the library is.
\* A new server knows nothing of the old one.
Start ==
  /\ server = "down" /\ server' = "starting"
  /\ disabled' = TRUE /\ active' = NoSession /\ sessions' = NoSessions
  /\ maintaining' = FALSE /\ panel' = NoSession
  /\ buffer' = NoAnswer /\ posted' = << >>

Run ==
  /\ server = "starting" /\ server' = "serving"
  /\ Initialize
  /\ UNCHANGED << active, sessions, panel, buffer, posted, clients, deployer,
                  history >>

\* A message that was posted
Serve ==
  /\ Serving /\ posted # << >>
  /\ posted' = Tail(posted)
  /\ LET message == Head(posted) IN
     \/ message.kind = "focus_in" /\ FocusIn(message.id)
     \/ message.kind = "focus_out" /\ FocusOut
     \/ message.kind = "position" /\ UpdateInputPosition(message.id)
     \/ message.kind = "end" /\ RemoveSession(message.id)
  /\ UNCHANGED << server, buffer, clients, deployer, left, history >>

\* The user quits it, or it is shut down: its window, the shared memory and
\* whatever was waiting are gone.
Stop ==
  /\ Serving /\ Spend("stops")
  /\ server' = "down" /\ disabled' = TRUE /\ active' = NoSession
  /\ sessions' = NoSessions /\ maintaining' = FALSE /\ panel' = NoSession
  /\ buffer' = NoAnswer /\ posted' = << >>
  /\ wnd' = [c \in Clients |-> FALSE]
  /\ UNCHANGED << sid, pc, focus, due, deployer, history >>

MaintenanceEnds ==
  /\ maintaining /\ maintaining' = FALSE
  /\ UNCHANGED << server, disabled, active, sessions, panel, buffer, posted,
                  clients, deployer, left, history >>

-----------------------------------------------------------------------------
(* The client: WeaselIME::ProcessKeyEvent and ClientImpl                    *)

Connected(c) == wnd[c]
Active(c) == Connected(c) /\ sid[c] # NoSession
Goto(c, step) == pc' = [pc EXCEPT ![c] = step]
OnlyClient == UNCHANGED << server, service, buffer, posted, deployer, history,
                           focus, due >>

Press(c) ==
  /\ pc[c] = "idle" /\ focus = c /\ Spend("keys")
  /\ Goto(c, "echo")
  /\ OnlyClient /\ UNCHANGED << wnd, sid >>

\* Echo: does the server still know the session?
Echo(c) ==
  /\ pc[c] = "echo"
  /\ \/ Active(c) /\ Serving /\ Found(sid[c]) /\ Goto(c, "key")
     \/ Active(c) /\ Serving /\ ~ Found(sid[c]) /\ Goto(c, "connect")
     \/ ~ Active(c) /\ Goto(c, "connect")
  /\ OnlyClient /\ UNCHANGED << wnd, sid, left >>

\* Connect starts a server if there is none, which may fail.
Connect(c) ==
  /\ pc[c] = "connect"
  /\ \/ /\ server # "down"
        /\ wnd' = [wnd EXCEPT ![c] = TRUE] /\ Goto(c, "start")
        /\ UNCHANGED << server, service, buffer, posted >>
     \/ /\ Start
        /\ wnd' = [wnd EXCEPT ![c] = TRUE] /\ Goto(c, "start")
     \/ /\ server = "down"
        /\ wnd' = [wnd EXCEPT ![c] = FALSE] /\ Goto(c, "key")
        /\ UNCHANGED << server, service, buffer, posted >>
  /\ UNCHANGED << sid, focus, due, deployer, left, history >>

\* StartSession asks again before it asks for a new session.
StartSession(c) ==
  /\ pc[c] = "start"
  /\ \/ Active(c) /\ Serving /\ Found(sid[c]) /\ Goto(c, "key")
     \/ Active(c) /\ Serving /\ ~ Found(sid[c]) /\ Goto(c, "add")
     \/ Connected(c) /\ ~ Active(c) /\ Goto(c, "add")
     \/ ~ Connected(c) /\ Goto(c, "key")
  /\ OnlyClient /\ UNCHANGED << wnd, sid, left >>

\* A message to a window that has gone is answered by 0.
Add(c) ==
  /\ pc[c] = "add" /\ Goto(c, "key")
  /\ \/ /\ Connected(c) /\ Serving
        /\ AddSession(c)
     \/ /\ ~ Connected(c)
        /\ sid' = [sid EXCEPT ![c] = NoSession]
        /\ UNCHANGED << service, left >>
  /\ UNCHANGED << server, buffer, posted, wnd, focus, due, deployer, history >>

\* It was not about a key (OnIMESelect), or not one that Weasel knows.
Skip(c) ==
  /\ pc[c] = "key" /\ Goto(c, "idle")
  /\ OnlyClient /\ UNCHANGED << wnd, sid, left >>

SendKey(c) ==
  /\ pc[c] = "key"
  /\ \/ /\ Active(c) /\ Serving /\ ProcessKeyEvent(c)
        /\ Goto(c, "read")
     \/ /\ ~ Active(c) \/ (Serving /\ disabled)
        /\ Goto(c, "unanswered")
        /\ UNCHANGED << service, buffer, made, left >>
  /\ UNCHANGED << server, posted, wnd, sid, focus, due, deployer, doc, calm >>

\* GetResponseData, whether or not the server has answered
GetResponse(c) ==
  /\ pc[c] \in {"read", "unanswered"} /\ Goto(c, "idle")
  /\ doc' = IF server # "down" /\ buffer # NoAnswer /\ buffer.commit # 0
            THEN [doc EXCEPT ![c] = Append(@, buffer.commit)] ELSE doc
  /\ calm' = (calm /\ pc[c] = "read" /\ buffer # NoAnswer /\ buffer.to = c)
  /\ UNCHANGED << server, service, buffer, posted, wnd, sid, focus, due,
                  deployer, left, made >>

Post(c, kind, id) ==
  IF Connected(c)
  THEN /\ Len(posted) < MaxPosted
       /\ posted' = Append(posted, [kind |-> kind, id |-> id])
  ELSE UNCHANGED posted

\* The user goes to another input context.
MoveFocus(c) ==
  /\ c # focus /\ due[c] = "nothing" /\ due[focus] = "nothing"
  /\ Spend("moves")
  /\ focus' = c
  /\ due' = [due EXCEPT ![c] = "focus_in", ![focus] = "focus_out"]
  /\ UNCHANGED << server, service, buffer, posted, wnd, sid, pc, deployer, history >>

\* OnIMEFocus, when the client gets to it
Notify(c) ==
  /\ pc[c] = "idle" /\ due[c] # "nothing"
  /\ Post(c, due[c], sid[c])
  /\ due' = [due EXCEPT ![c] = "nothing"]
  /\ UNCHANGED << server, service, buffer, wnd, sid, pc, focus, deployer, left,
                  history >>

PostPosition(c) ==
  /\ pc[c] = "idle" /\ focus = c /\ due[c] = "nothing" /\ Active(c)
  /\ Spend("posts")
  /\ Post(c, "position", sid[c])
  /\ UNCHANGED << server, service, buffer, clients, deployer, history >>

\* EndSession, when the user switches to another input method
\* Mutant: the client forgets its session without telling the server.
DeselectSilently(c) ==
  /\ pc[c] = "idle" /\ focus = c /\ Spend("posts")
  /\ sid' = [sid EXCEPT ![c] = NoSession]
  /\ UNCHANGED << server, service, buffer, posted, wnd, pc, focus, due, deployer,
                  history >>

Deselect(c) ==
  /\ pc[c] = "idle" /\ focus = c /\ Spend("posts")
  /\ Post(c, "end", sid[c])
  /\ sid' = [sid EXCEPT ![c] = NoSession]
  /\ UNCHANGED << server, service, buffer, wnd, pc, focus, due, deployer, history >>

\* the rest of what a client has begun
Continue(c) ==
  \/ Echo(c) \/ Connect(c) \/ StartSession(c) \/ Add(c)
  \/ Skip(c) \/ SendKey(c) \/ GetResponse(c) \/ Notify(c)

-----------------------------------------------------------------------------
(* The deployer: Configurator::UpdateWorkspace and DictManagement           *)

Deploy ==
  /\ deployer = "none" /\ Spend("deployments")
  /\ deployer' = "mutex"
  /\ UNCHANGED << server, service, buffer, posted, clients, history >>

\* Mutant: it goes to work without telling the server.
DeployUnannounced ==
  /\ deployer = "mutex" /\ deployer' = "work"
  /\ UNCHANGED << server, service, buffer, posted, clients, left, history >>

\* It does not start a server.
StartMaintenance ==
  /\ deployer = "mutex" /\ deployer' = "work"
  /\ \/ Serving /\ Finalize /\ panel' = NoSession
     \/ server = "down" /\ UNCHANGED service
  /\ UNCHANGED << server, buffer, posted, clients, left, history >>

CloseMutex ==
  /\ deployer = "work" /\ deployer' = "resume"
  /\ UNCHANGED << server, service, buffer, posted, clients, left, history >>

EndMaintenance ==
  /\ deployer = "resume" /\ deployer' = "none"
  /\ \/ /\ Serving /\ disabled
        /\ Initialize /\ panel' = NoSession
        /\ UNCHANGED << active, sessions >>
     \/ /\ \/ Serving /\ ~ disabled
           \/ server = "down"
        /\ UNCHANGED << service, left >>
  /\ UNCHANGED << server, buffer, posted, clients, history >>

\* When it dies, the system closes the mutex, and nobody tells the server.
DeployerDies ==
  /\ deployer \in {"mutex", "work", "resume"} /\ deployer' = "none"
  /\ UNCHANGED << server, service, buffer, posted, clients, left, history >>

Deployer == StartMaintenance \/ CloseMutex \/ EndMaintenance

-----------------------------------------------------------------------------
Next ==
  \/ Run \/ Serve \/ Stop \/ MaintenanceEnds
  \/ Deploy \/ Deployer \/ DeployerDies
  \/ \E c \in Clients : \/ Press(c) \/ MoveFocus(c) \/ PostPosition(c)
                        \/ Deselect(c) \/ Continue(c)

Spec == Init /\ [][Next]_vars

\* The processes run, and the messages that were posted are handled.
\* Nobody has to type.
Fairness ==
  /\ WF_vars(Run) /\ WF_vars(Serve) /\ WF_vars(MaintenanceEnds)
  /\ WF_vars(Deployer)
  /\ \A c \in Clients : WF_vars(Continue(c))
FairSpec == Spec /\ Fairness

-----------------------------------------------------------------------------
(* Properties                                                               *)

TypeOK ==
  /\ server \in {"down", "starting", "serving"} /\ disabled \in BOOLEAN
  /\ active \in Session /\ panel \in Session /\ maintaining \in BOOLEAN
  /\ DOMAIN sessions \subseteq SessionIds
  /\ sessions \in [DOMAIN sessions -> BOOLEAN]
  /\ buffer \in Answer \cup {NoAnswer}
  /\ posted \in Seq(Message) /\ Len(posted) <= MaxPosted
  /\ wnd \in [Clients -> BOOLEAN] /\ sid \in [Clients -> Session]
  /\ pc \in [Clients -> Steps] /\ focus \in Clients
  /\ due \in [Clients -> {"nothing", "focus_in", "focus_out"}]
  /\ deployer \in {"none", "mutex", "work", "resume"}
  /\ left \in Budget /\ made \in Seq(Clients)
  /\ doc \in [Clients -> Seq(1 .. Len(made))] /\ calm \in BOOLEAN

\* The panel shows the active session, and that session lives and composes:
\* no handler leaves a dead or finished composition on the screen.
PanelShowsActiveSession ==
  panel # NoSession =>
    /\ panel = active /\ Serving /\ ~ disabled /\ ~ maintaining
    /\ panel \in DOMAIN sessions /\ sessions[panel]

\* When everything has been handled, the panel, if it is there, belongs to the
\* client the user is typing in, in whatever order keys, which are sent, and
\* changes of focus, which are posted, have arrived.
Quiet == /\ posted = << >>
         /\ \A c \in Clients : pc[c] = "idle" /\ due[c] = "nothing"
PanelFollowsFocus == Quiet /\ panel # NoSession => panel = sid[focus]

\* A session never outlives its client's interest: somebody holds its id or
\* has posted that it ends, although the server may forget all sessions and a
\* client may ask for another one at any time.
SessionsAreHeld ==
  \A id \in DOMAIN sessions :
    \/ \E c \in Clients : sid[c] = id
    \/ \E i \in 1 .. Len(posted) : posted[i] = [kind |-> "end", id |-> id]

\* While the deployer is at work, the server has no session and no maintenance
\* thread, even if it has been started at the same time.
DeployerWorksAlone ==
  deployer = "work" /\ Serving =>
    disabled /\ ~ maintaining /\ DOMAIN sessions = {}

\* As long as every client has read the answer to its own key, the texts
\* committed for it are in its document, each once and in order.
Texts(c) == {i \in 1 .. Len(made) : made[i] = c}
Holds(d, texts) ==
  /\ {d[i] : i \in 1 .. Len(d)} = texts
  /\ \A i, j \in 1 .. Len(d) : i < j => d[i] < d[j]
TextArrives ==
  calm => \A c \in Clients : pc[c] # "read" => Holds(doc[c], Texts(c))

\* "get commit string from server" (WeaselIME.cpp): what is inserted comes from
\* the server, once, and for this client.
InsertedOnce ==
  \A c \in Clients :
    /\ \A i \in 1 .. Len(doc[c]) : made[doc[c][i]] = c
    /\ \A i, j \in 1 .. Len(doc[c]) : i # j => doc[c][i] # doc[c][j]

\* When maintenance is over, whoever has ended it and even if nobody has told
\* the server, the next key finds a session.
Settled == Serving /\ deployer = "none" /\ ~ maintaining /\ left.changes = 0
KeyFindsSession ==
  \A c \in Clients :
    (pc[c] = "echo" /\ Settled) ~>
      (pc[c] = "key" /\ Found(sid[c])) \/ ~ Settled
=============================================================================
