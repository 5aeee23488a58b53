---------------------------- MODULE WeaselProofs ----------------------------
(***************************************************************************)
(* Theorems about Weasel, for any number of clients and sessions and        *)
(* whatever the budgets allow.  There are three inductive invariants.  IInv: *)
(* a server that does not serve, is disabled or maintaining has no session; *)
(* a session that exists is held by a client that is not about to ask for   *)
(* another one.  FocusInv adds what the messages that wait will do to the   *)
(* panel, TextInv what a client is about to read.                           *)
(***************************************************************************)
EXTENDS Weasel, TLAPS

\* The part of the types that the rest needs
Shape ==
  /\ server \in {"down", "starting", "serving"}
  /\ disabled \in BOOLEAN /\ maintaining \in BOOLEAN
  /\ DOMAIN sessions \subseteq SessionIds
  /\ posted \in Seq(Message)
  /\ wnd \in [Clients -> BOOLEAN] /\ sid \in [Clients -> Session]
  /\ pc \in [Clients -> Steps] /\ focus \in Clients
  /\ due \in [Clients -> {"nothing", "focus_in", "focus_out"}]

\* A server that has not been initialized, or that the deployer has sent to rest,
\* is disabled; whoever is disabled or maintaining has no session.
Resting ==
  /\ (~ Serving \/ deployer = "work") => disabled /\ ~ maintaining
  /\ (disabled \/ maintaining) => DOMAIN sessions = {}

\* SessionsAreHeld is not inductive: a client that is about to ask for a session
\* forgets the one it has, and a client whose window has gone cannot post that
\* its session ends.
HeldBy(c, id) == wnd[c] /\ sid[c] = id /\ pc[c] # "add"
Ending(id) ==
  \E i \in 1 .. Len(posted) : posted[i] = [kind |-> "end", id |-> id]
Held ==
  \A id \in DOMAIN sessions : (\E c \in Clients : HeldBy(c, id)) \/ Ending(id)

IInv == Shape /\ Resting /\ Held

-----------------------------------------------------------------------------
(* Facts about the handlers                                                 *)

\* What is posted is a message, and it comes after those that are there.
LEMMA Posting ==
  ASSUME posted \in Seq(Message), NEW c \in Clients, wnd \in [Clients -> BOOLEAN],
         NEW kind \in {"focus_in", "focus_out", "position", "end"},
         NEW id \in Session, Post(c, kind, id)
  PROVE  /\ posted' \in Seq(Message)
         /\ Len(posted') >= Len(posted)
         /\ \A i \in 1 .. Len(posted) : posted'[i] = posted[i]
         /\ wnd[c] => /\ Len(posted') = Len(posted) + 1
                      /\ posted'[Len(posted) + 1] = [kind |-> kind, id |-> id]
<1>1. CASE ~ wnd[c]
  BY <1>1 DEF Post, Connected
<1>2. CASE wnd[c]
  <2>1. posted' = Append(posted, [kind |-> kind, id |-> id])
    BY <1>2 DEF Post, Connected
  <2>2. [kind |-> kind, id |-> id] \in Message
    BY DEF Message
  <2> QED BY <2>1, <2>2
<1> QED BY <1>1, <1>2

\* Initialize leaves a server that was disabled without maintenance disabled
\* while the deployer is at work.
LEMMA Initializing ==
  ASSUME Shape, Initialize
  PROVE  /\ disabled' \in BOOLEAN /\ maintaining' \in BOOLEAN
         /\ deployer = "work" => disabled' /\ maintaining' = maintaining
BY DEF Shape, Initialize, IsDeployerRunning

-----------------------------------------------------------------------------
(* The shape                                                                *)

LEMMA InitShape == Init => Shape
<1> SUFFICES ASSUME Init PROVE Shape
  OBVIOUS
<1>1. DOMAIN sessions \subseteq SessionIds
  BY DEF Init, NoSessions
<1>3. posted \in Seq(Message)
  BY DEF Init
<1>4. disabled \in BOOLEAN /\ maintaining \in BOOLEAN
  BY DEF Init
<1>2. /\ wnd \in [Clients -> BOOLEAN] /\ sid \in [Clients -> Session]
      /\ pc \in [Clients -> Steps] /\ focus \in Clients
      /\ due \in [Clients -> {"nothing", "focus_in", "focus_out"}]
  BY DEF Init, Session, Steps
<1> QED BY <1>1, <1>2, <1>3, <1>4 DEF Init, Shape

LEMMA NextShape == Shape /\ [Next]_vars => Shape'
<1> SUFFICES ASSUME Shape, [Next]_vars PROVE Shape'
  OBVIOUS
<1> USE DEF service, clients, history
<1>1. CASE Run
  BY <1>1, Initializing DEF Run, Shape
<1>2. CASE Serve
  <2>1. posted' \in Seq(Message)
    BY <1>2 DEF Serve, Shape
  <2>2. DOMAIN sessions' \subseteq SessionIds
    <3>1. sessions' = sessions \/ sessions' = Without(sessions, Head(posted).id)
      BY <1>2 DEF Serve, FocusIn, FocusOut, UpdateInputPosition, RemoveSession
    <3> QED BY <3>1 DEF Without, Shape
  <2>3. UNCHANGED << disabled, maintaining >>
    BY <1>2 DEF Serve, FocusIn, FocusOut, UpdateInputPosition, RemoveSession
  <2> QED BY <1>2, <2>1, <2>2, <2>3 DEF Serve, Shape
<1>3. CASE Stop
  <2>1. DOMAIN sessions' \subseteq SessionIds
    BY <1>3 DEF Stop, NoSessions
  <2>2. posted' \in Seq(Message)
    BY <1>3 DEF Stop
  <2>3. wnd' \in [Clients -> BOOLEAN]
    BY <1>3 DEF Stop
  <2>4. disabled' \in BOOLEAN /\ maintaining' \in BOOLEAN
    BY <1>3 DEF Stop
  <2> QED BY <1>3, <2>1, <2>2, <2>3, <2>4 DEF Stop, Shape
<1>4. CASE MaintenanceEnds
  BY <1>4 DEF MaintenanceEnds, Shape
<1>5. CASE Deploy \/ CloseMutex \/ DeployerDies
  BY <1>5 DEF Deploy, CloseMutex, DeployerDies, Shape
<1>6. CASE StartMaintenance
  BY <1>6 DEF StartMaintenance, Finalize, NoSessions, Shape
<1>7. CASE EndMaintenance
  BY <1>7, Initializing DEF EndMaintenance, Shape
<1>8. ASSUME NEW c \in Clients,
             Press(c) \/ Echo(c) \/ StartSession(c) \/ Skip(c) \/ GetResponse(c)
      PROVE  Shape'
  <2>1. /\ UNCHANGED << server, disabled, maintaining, sessions, posted, wnd, sid,
                        focus, due >>
        /\ \E step \in Steps : pc' = [pc EXCEPT ![c] = step]
    BY <1>8 DEF Press, Echo, StartSession, Skip, GetResponse, OnlyClient, Goto, Steps
  <2> QED BY <2>1 DEF Shape
<1>9. ASSUME NEW c \in Clients, Connect(c) PROVE Shape'
  <2>1. /\ wnd' \in [Clients -> BOOLEAN] /\ pc' \in [Clients -> Steps]
        /\ UNCHANGED << sid, focus, due >>
    BY <1>9 DEF Connect, Goto, Steps, Shape
  <2>2. CASE UNCHANGED << server, service, posted >>
    BY <2>1, <2>2 DEF Shape
  <2>3. CASE Start
    <3>1. DOMAIN sessions' \subseteq SessionIds
      BY <2>3 DEF Start, NoSessions
    <3>2. posted' \in Seq(Message)
      BY <2>3 DEF Start
    <3>3. disabled' \in BOOLEAN /\ maintaining' \in BOOLEAN
      BY <2>3 DEF Start
    <3>4. server' \in {"down", "starting", "serving"}
      BY <2>3 DEF Start
    <3> QED BY <2>1, <3>1, <3>2, <3>3, <3>4 DEF Shape
  <2> QED BY <1>9, <2>2, <2>3 DEF Connect
<1>10. ASSUME NEW c \in Clients, Add(c) PROVE Shape'
  <2>1. /\ pc' \in [Clients -> Steps]
        /\ UNCHANGED << server, posted, wnd, focus, due >>
    BY <1>10 DEF Add, Goto, Steps, Shape
  <2>2. CASE AddSession(c)
    <3>1. disabled' \in BOOLEAN /\ maintaining' \in BOOLEAN
      BY <2>2, Initializing DEF AddSession, Resume, Shape
    <3>2. DOMAIN sessions' \subseteq SessionIds
      <4>1. \/ sessions' = sessions
            \/ \E id \in SessionIds : sessions' = Put(sessions, id, FALSE)
        BY <2>2 DEF AddSession
      <4> QED BY <4>1 DEF Put, Shape
    <3>3. sid' \in [Clients -> Session]
      BY <2>2 DEF AddSession, Shape, Session
    <3> QED BY <2>1, <3>1, <3>2, <3>3 DEF Shape
  <2>3. CASE sid' = [sid EXCEPT ![c] = NoSession] /\ UNCHANGED service
    BY <2>1, <2>3 DEF Shape, Session
  <2> QED BY <1>10, <2>2, <2>3 DEF Add
<1>11. ASSUME NEW c \in Clients, SendKey(c) PROVE Shape'
  <2>1. pc' \in [Clients -> Steps]
    BY <1>11 DEF SendKey, Goto, Steps, Shape
  <2>2. DOMAIN sessions' = DOMAIN sessions /\ UNCHANGED << disabled, maintaining >>
    BY <1>11 DEF SendKey, ProcessKeyEvent
  <2> QED BY <1>11, <2>1, <2>2 DEF SendKey, Shape
<1>12. ASSUME NEW c \in Clients, MoveFocus(c) PROVE Shape'
  BY <1>12 DEF MoveFocus, Shape
<1>13. ASSUME NEW c \in Clients, Notify(c) PROVE Shape'
  <2>1. due[c] \in {"focus_in", "focus_out"} /\ sid[c] \in Session
    BY <1>13 DEF Notify, Shape
  <2>2. posted' \in Seq(Message)
    BY <1>13, <2>1, Posting DEF Notify, Shape
  <2> QED BY <1>13, <2>2 DEF Notify, Shape
<1>14. ASSUME NEW c \in Clients, PostPosition(c) \/ Deselect(c) PROVE Shape'
  <2>1. posted' \in Seq(Message)
    <3>1. sid[c] \in Session
      BY DEF Shape
    <3>2. Post(c, "position", sid[c]) \/ Post(c, "end", sid[c])
      BY <1>14 DEF PostPosition, Deselect
    <3> QED BY <3>1, <3>2, Posting DEF Shape
  <2>2. /\ UNCHANGED << server, disabled, maintaining, sessions, wnd, pc, focus, due >>
        /\ sid' = sid \/ sid' = [sid EXCEPT ![c] = NoSession]
    BY <1>14 DEF PostPosition, Deselect
  <2> QED BY <2>1, <2>2 DEF Shape, Session
<1>15. CASE UNCHANGED vars
  BY <1>15 DEF vars, Shape
<1> QED
  BY <1>1, <1>2, <1>3, <1>4, <1>5, <1>6, <1>7, <1>8, <1>9, <1>10, <1>11, <1>12, <1>13,
     <1>14, <1>15 DEF Next, Deployer, Continue

-----------------------------------------------------------------------------
(* A server at rest has no session                                          *)

LEMMA InitResting == Init => Resting
BY DEF Init, Resting, Serving, NoSessions

LEMMA NextResting == Shape /\ Resting /\ [Next]_vars => Resting'
<1> SUFFICES ASSUME Shape, Resting, [Next]_vars PROVE Resting'
  OBVIOUS
<1> USE DEF service, clients, history, Serving
<1>1. CASE Run
  <2>1. DOMAIN sessions = {} /\ disabled /\ ~ maintaining
    BY <1>1 DEF Run, Resting
  <2>2. deployer = "work" => disabled' /\ ~ maintaining'
    BY <1>1, <2>1, Initializing DEF Run
  <2> QED BY <1>1, <2>1, <2>2 DEF Run, Resting
<1>2. CASE Serve
  <2>1. /\ sessions' = sessions \/ sessions' = Without(sessions, Head(posted).id)
        /\ UNCHANGED << server, disabled, maintaining, deployer >>
    BY <1>2 DEF Serve, FocusIn, FocusOut, UpdateInputPosition, RemoveSession
  <2>2. DOMAIN sessions = {} => DOMAIN sessions' = {}
    BY <2>1 DEF Without
  <2> QED BY <2>1, <2>2 DEF Resting
<1>3. CASE Stop
  <2>1. DOMAIN sessions' = {}
    BY <1>3 DEF Stop, NoSessions
  <2>2. disabled' /\ ~ maintaining'
    BY <1>3 DEF Stop
  <2> QED BY <2>1, <2>2 DEF Resting
<1>4. CASE MaintenanceEnds
  BY <1>4 DEF MaintenanceEnds, Resting
<1>5. CASE Deploy \/ CloseMutex \/ DeployerDies
  BY <1>5 DEF Deploy, CloseMutex, DeployerDies, Resting
<1>6. CASE StartMaintenance
  <2>1. CASE Finalize
    <3>1. DOMAIN sessions' = {}
      BY <2>1 DEF Finalize, NoSessions
    <3>2. disabled' /\ ~ maintaining'
      BY <2>1 DEF Finalize
    <3> QED BY <3>1, <3>2 DEF Resting
  <2>2. CASE server = "down" /\ UNCHANGED service
    BY <1>6, <2>2 DEF StartMaintenance, Resting
  <2> QED BY <1>6, <2>1, <2>2 DEF StartMaintenance
<1>7. CASE EndMaintenance
  <2>1. deployer' # "work" /\ server' = server
    BY <1>7 DEF EndMaintenance
  <2>2. CASE Serving /\ disabled /\ UNCHANGED sessions
    BY <2>1, <2>2 DEF Resting
  <2>3. CASE UNCHANGED service
    BY <2>1, <2>3 DEF Resting
  <2> QED BY <1>7, <2>2, <2>3 DEF EndMaintenance
<1>8. ASSUME NEW c \in Clients,
             Press(c) \/ Echo(c) \/ StartSession(c) \/ Skip(c) \/ GetResponse(c)
               \/ MoveFocus(c) \/ Notify(c) \/ PostPosition(c) \/ Deselect(c)
      PROVE  Resting'
  <2>1. UNCHANGED << server, service, deployer >>
    BY <1>8 DEF Press, Echo, StartSession, Skip, GetResponse, MoveFocus, Notify,
                PostPosition, Deselect, OnlyClient
  <2> QED BY <2>1 DEF Resting
<1>9. ASSUME NEW c \in Clients, Connect(c) PROVE Resting'
  <2>1. CASE UNCHANGED << server, service >>
    BY <1>9, <2>1 DEF Connect, Resting
  <2>2. CASE Start
    <3>1. DOMAIN sessions' = {}
      BY <2>2 DEF Start, NoSessions
    <3>2. disabled' /\ ~ maintaining'
      BY <2>2 DEF Start
    <3> QED BY <3>1, <3>2 DEF Resting
  <2> QED BY <1>9, <2>1, <2>2 DEF Connect
<1>10. ASSUME NEW c \in Clients, Add(c) PROVE Resting'
  <2>1. UNCHANGED << server, deployer >>
    BY <1>10 DEF Add
  <2>2. CASE UNCHANGED service
    BY <2>1, <2>2 DEF Resting
  <2>3. CASE Serving /\ AddSession(c)
    <3>1. deployer = "work" => disabled' /\ ~ maintaining'
      BY <2>3, Initializing DEF AddSession, Resume, Resting, Shape
    <3>2. disabled' \/ maintaining' => sessions' = sessions
      BY <2>3 DEF AddSession
    <3>3. disabled' \/ maintaining' => DOMAIN sessions = {}
      BY <2>3 DEF AddSession, Resume, Resting
    <3> QED BY <2>1, <2>3, <3>1, <3>2, <3>3 DEF Resting
  <2> QED BY <1>10, <2>2, <2>3 DEF Add
<1>11. ASSUME NEW c \in Clients, SendKey(c) PROVE Resting'
  <2>1. /\ DOMAIN sessions' = DOMAIN sessions
        /\ UNCHANGED << server, deployer, disabled, maintaining >>
    BY <1>11 DEF SendKey, ProcessKeyEvent
  <2> QED BY <2>1 DEF Resting
<1>12. CASE UNCHANGED vars
  BY <1>12 DEF vars, Resting
<1> QED
  BY <1>1, <1>2, <1>3, <1>4, <1>5, <1>6, <1>7, <1>8, <1>9, <1>10, <1>11, <1>12
     DEF Next, Deployer, Continue

-----------------------------------------------------------------------------
(* A session is held                                                        *)

LEMMA InitHeld == Init => Held
BY DEF Init, Held, NoSessions

\* Nothing that the holders of a session have is taken away.
LEMMA StillHeld ==
  ASSUME Shape, Held, DOMAIN sessions' \subseteq DOMAIN sessions,
         Len(posted') \in Nat, Len(posted') >= Len(posted),
         \A i \in 1 .. Len(posted) : posted'[i] = posted[i],
         \A c \in Clients : \A id \in DOMAIN sessions' : HeldBy(c, id) =>
           (wnd'[c] /\ sid'[c] = id /\ pc'[c] # "add") \/ Ending(id)'
  PROVE  Held'
<1> SUFFICES ASSUME NEW id \in DOMAIN sessions'
             PROVE  (\E c \in Clients : HeldBy(c, id)') \/ Ending(id)'
  BY DEF Held
<1>1. CASE Ending(id)
  <2>1. PICK i \in 1 .. Len(posted) : posted[i] = [kind |-> "end", id |-> id]
    BY <1>1 DEF Ending
  <2>2. i \in 1 .. Len(posted') /\ posted'[i] = [kind |-> "end", id |-> id]
    BY <2>1 DEF Shape
  <2> QED BY <2>2 DEF Ending
<1>2. CASE \E c \in Clients : HeldBy(c, id)
  BY <1>2 DEF HeldBy
<1> QED BY <1>1, <1>2 DEF Held

LEMMA NextHeld == IInv /\ Shape' /\ Resting' /\ [Next]_vars => Held'
<1> SUFFICES ASSUME IInv, Shape', Resting', [Next]_vars PROVE Held'
  OBVIOUS
<1> USE DEF service, clients, history, Serving
<1>0. CASE DOMAIN sessions' = {}
  BY <1>0 DEF Held
<1>1. CASE Run \/ Stop
  <2>1. DOMAIN sessions' = {}
    BY <1>1 DEF Run, Stop, IInv, Resting, NoSessions
  <2> QED BY <2>1, <1>0
<1>2. CASE Serve
  <2> DEFINE message == Head(posted)
  <2>1. /\ posted \in Seq(Message) /\ posted # << >> /\ posted' = Tail(posted)
        /\ Len(posted') = Len(posted) - 1
        /\ \A i \in 1 .. Len(posted') : posted'[i] = posted[i + 1]
        /\ message = posted[1]
    BY <1>2 DEF Serve, IInv, Shape
  <2> SUFFICES ASSUME NEW id \in DOMAIN sessions'
               PROVE  (\E c \in Clients : HeldBy(c, id)') \/ Ending(id)'
    BY DEF Held
  <2>2. id \in DOMAIN sessions /\ message # [kind |-> "end", id |-> id]
    <3>1. CASE message.kind # "end"
      BY <1>2, <3>1 DEF Serve, FocusIn, FocusOut, UpdateInputPosition
    <3>2. CASE message.kind = "end"
      <4>1. RemoveSession(message.id)
        BY <1>2, <3>2 DEF Serve
      <4>2. ~ disabled
        BY <4>1 DEF RemoveSession, IInv, Resting
      <4>3. sessions' = Without(sessions, message.id)
        BY <4>1, <4>2 DEF RemoveSession
      <4>4. id \in DOMAIN sessions /\ id # message.id
        BY <4>3 DEF Without
      <4> QED BY <4>4
    <3> QED BY <3>1, <3>2
  <2>3. CASE \E c \in Clients : HeldBy(c, id)
    BY <1>2, <2>3 DEF Serve, HeldBy
  <2>4. CASE Ending(id)
    <3>1. PICK i \in 1 .. Len(posted) : posted[i] = [kind |-> "end", id |-> id]
      BY <2>4 DEF Ending
    <3>2. i # 1
      BY <2>1, <2>2, <3>1
    <3>3. i - 1 \in 1 .. Len(posted') /\ posted'[i - 1] = posted[i]
      BY <2>1, <3>1, <3>2
    <3> QED BY <3>1, <3>3 DEF Ending
  <2> QED BY <2>2, <2>3, <2>4 DEF IInv, Held
<1>3. CASE MaintenanceEnds \/ Deploy \/ CloseMutex \/ DeployerDies \/ EndMaintenance
             \/ UNCHANGED vars
  <2>1. UNCHANGED << sessions, posted, wnd, sid, pc >>
    BY <1>3 DEF MaintenanceEnds, Deploy, CloseMutex, DeployerDies, EndMaintenance, vars
  <2> QED BY <2>1 DEF IInv, Held, HeldBy, Ending
<1>4. CASE StartMaintenance
  <2>1. CASE Finalize
    BY <1>0, <2>1 DEF Finalize, NoSessions
  <2>2. CASE UNCHANGED service
    BY <1>4, <2>2 DEF StartMaintenance, IInv, Held, HeldBy, Ending
  <2> QED BY <1>4, <2>1, <2>2 DEF StartMaintenance
\* A client steps, and keeps what it has.
<1>5. ASSUME NEW c \in Clients,
             Press(c) \/ Echo(c) \/ Skip(c) \/ GetResponse(c) \/ SendKey(c)
               \/ MoveFocus(c)
      PROVE  Held'
  <2>1. /\ DOMAIN sessions' = DOMAIN sessions /\ UNCHANGED << posted, wnd, sid >>
        /\ pc' = pc \/ \E step \in Steps \ {"add"} : pc' = [pc EXCEPT ![c] = step]
    BY <1>5 DEF Press, Echo, Skip, GetResponse, SendKey, ProcessKeyEvent, MoveFocus,
                OnlyClient, Goto, Steps
  <2> QED BY <2>1, StillHeld DEF IInv, Shape, HeldBy
<1>6. ASSUME NEW c \in Clients, Connect(c) PROVE Held'
  <2>1. CASE server = "down"
    <3>1. DOMAIN sessions' = {}
      BY <1>6, <2>1 DEF Connect, Start, NoSessions, IInv, Resting
    <3> QED BY <3>1, <1>0
  <2>2. CASE server # "down"
    <3>1. /\ UNCHANGED << sessions, posted, sid >>
          /\ wnd' = [wnd EXCEPT ![c] = TRUE] /\ pc' = [pc EXCEPT ![c] = "start"]
      BY <1>6, <2>2 DEF Connect, Start, Goto
    <3> QED BY <3>1, StillHeld DEF IInv, Shape, HeldBy
  <2> QED BY <2>1, <2>2
\* Only a client without a living session goes on to ask for one.
<1>7. ASSUME NEW c \in Clients, StartSession(c) PROVE Held'
  <2>1. UNCHANGED << sessions, posted, wnd, sid >>
    BY <1>7 DEF StartSession, OnlyClient
  <2>2. CASE pc' = [pc EXCEPT ![c] = "key"]
    BY <2>1, <2>2, StillHeld DEF IInv, Shape, HeldBy
  <2>3. CASE pc' = [pc EXCEPT ![c] = "add"]
    <3>1. sid[c] \notin DOMAIN sessions
      BY <1>7, <2>3, SessionAssumption
         DEF StartSession, Goto, Found, Active, Connected, IInv, Resting, Shape
    <3> QED BY <2>1, <2>3, <3>1, StillHeld DEF IInv, Shape, HeldBy
  <2> QED BY <1>7, <2>2, <2>3 DEF StartSession, Goto
<1>8. ASSUME NEW c \in Clients, Add(c) PROVE Held'
  <2>1. /\ pc' = [pc EXCEPT ![c] = "key"] /\ pc[c] = "add"
        /\ UNCHANGED << posted, wnd >>
    BY <1>8 DEF Add, Goto
  <2>2. CASE sid' = [sid EXCEPT ![c] = NoSession] /\ sessions' = sessions
    BY <2>1, <2>2, StillHeld DEF IInv, Shape, HeldBy
  <2>3. CASE /\ wnd[c]
             /\ \E id \in SessionIds : /\ sessions' = Put(sessions, id, FALSE)
                                       /\ sid' = [sid EXCEPT ![c] = id]
    <3>1. PICK new \in SessionIds : /\ sessions' = Put(sessions, new, FALSE)
                                    /\ sid' = [sid EXCEPT ![c] = new]
      BY <2>3
    <3> SUFFICES ASSUME NEW id \in DOMAIN sessions'
                 PROVE  (\E d \in Clients : HeldBy(d, id)') \/ Ending(id)'
      BY DEF Held
    <3>2. HeldBy(c, new)'
      BY <2>1, <2>3, <3>1 DEF HeldBy, IInv, Shape
    <3>3. CASE id \in DOMAIN sessions
      <4>1. CASE Ending(id)
        BY <2>1, <4>1 DEF Ending
      <4>2. CASE \E d \in Clients : HeldBy(d, id)
        <5>1. PICK d \in Clients : HeldBy(d, id)
          BY <4>2
        <5>2. d # c
          BY <2>1, <5>1 DEF HeldBy
        <5>3. HeldBy(d, id)'
          BY <2>1, <3>1, <5>1, <5>2 DEF HeldBy, IInv, Shape
        <5> QED BY <5>3
      <4> QED BY <3>3, <4>1, <4>2 DEF IInv, Held
    <3>4. CASE id = new
      BY <3>2, <3>4
    <3> QED BY <3>1, <3>3, <3>4 DEF Put
  <2> QED BY <1>8, <2>2, <2>3 DEF Add, AddSession, Connected
<1>9. ASSUME NEW c \in Clients, Notify(c) \/ PostPosition(c) PROVE Held'
  <2>1. UNCHANGED << sessions, wnd, sid, pc >>
    BY <1>9 DEF Notify, PostPosition
  <2>2. /\ Len(posted') >= Len(posted)
        /\ \A i \in 1 .. Len(posted) : posted'[i] = posted[i]
    <3>1. sid[c] \in Session
      BY DEF IInv, Shape
    <3>2. \E kind \in {"focus_in", "focus_out", "position"} : Post(c, kind, sid[c])
      BY <1>9 DEF Notify, PostPosition, IInv, Shape
    <3> QED BY <3>1, <3>2, Posting DEF IInv, Shape
  <2>3. Len(posted') \in Nat
    BY DEF Shape
  <2> QED BY <2>1, <2>2, <2>3, StillHeld DEF IInv, HeldBy
\* A client that gives its session up has posted that it ends.
<1>10. ASSUME NEW c \in Clients, Deselect(c) PROVE Held'
  <2>1. /\ UNCHANGED << sessions, wnd, pc >> /\ sid' = [sid EXCEPT ![c] = NoSession]
    BY <1>10 DEF Deselect
  <2>2. /\ Len(posted') >= Len(posted)
        /\ \A i \in 1 .. Len(posted) : posted'[i] = posted[i]
        /\ wnd[c] => /\ Len(posted') = Len(posted) + 1
                     /\ posted'[Len(posted) + 1] = [kind |-> "end", id |-> sid[c]]
    <3>1. sid[c] \in Session /\ Post(c, "end", sid[c])
      BY <1>10 DEF Deselect, IInv, Shape
    <3> QED BY <3>1, Posting DEF IInv, Shape
  <2>3. Len(posted') \in Nat /\ Len(posted) \in Nat
    BY DEF IInv, Shape
  <2>4. ASSUME NEW d \in Clients, NEW id \in DOMAIN sessions', HeldBy(d, id)
        PROVE  (wnd'[d] /\ sid'[d] = id /\ pc'[d] # "add") \/ Ending(id)'
    <3>1. CASE d = c
      <4>1. /\ Len(posted) + 1 \in 1 .. Len(posted')
            /\ posted'[Len(posted) + 1] = [kind |-> "end", id |-> id]
        BY <2>2, <2>3, <2>4, <3>1 DEF HeldBy
      <4> QED BY <4>1 DEF Ending
    <3>2. CASE d # c
      BY <2>1, <2>4, <3>2 DEF HeldBy, IInv, Shape
    <3> QED BY <3>1, <3>2
  <2> QED BY <2>1, <2>2, <2>3, <2>4, StillHeld DEF IInv
<1> QED
  BY <1>1, <1>2, <1>3, <1>4, <1>5, <1>6, <1>7, <1>8, <1>9, <1>10
     DEF Next, Deployer, Continue

-----------------------------------------------------------------------------
(* The theorems                                                             *)

\* The invariant holds in every reachable state.
LEMMA Invariant == Spec => []IInv
<1>1. Init => IInv
  BY InitShape, InitResting, InitHeld DEF IInv
<1>2. IInv /\ [Next]_vars => IInv'
  BY NextShape, NextResting, NextHeld DEF IInv
<1> QED BY <1>1, <1>2, PTL DEF Spec

\* Whatever server and clients forget, are told too late or never hear, no
\* session is left that nobody will end.
THEOREM NoSessionIsLost == Spec => []SessionsAreHeld
<1>1. IInv => SessionsAreHeld
  BY DEF IInv, Held, HeldBy, Ending, SessionsAreHeld
<1> QED BY <1>1, Invariant, PTL

\* Whenever a server is started or a client asks for a session, the deployer at
\* work has the workspace for itself.
THEOREM DeployerAlone == Spec => []DeployerWorksAlone
<1>1. IInv => DeployerWorksAlone
  BY DEF IInv, Resting, DeployerWorksAlone
<1> QED BY <1>1, Invariant, PTL

\* In whatever order keys and changes of focus arrive, the panel never shows a
\* session that is not active, has ended or does not compose.
THEOREM PanelIsActive == Spec => []PanelShowsActiveSession
<1>1. Init => PanelShowsActiveSession
  BY DEF Init, PanelShowsActiveSession
<1>2. IInv /\ PanelShowsActiveSession /\ [Next]_vars => PanelShowsActiveSession'
  <2> SUFFICES ASSUME IInv, PanelShowsActiveSession, [Next]_vars
               PROVE  PanelShowsActiveSession'
    OBVIOUS
  <2> USE DEF service, clients, history, Serving, PanelShowsActiveSession
  <2>1. CASE Run
    BY <2>1 DEF Run
  <2>2. CASE Serve
    <3>1. CASE \E id \in Session : FocusIn(id) \/ UpdateInputPosition(id)
      BY <2>2, <3>1 DEF Serve, FocusIn, UpdateInputPosition, UpdateUI
    <3>2. CASE FocusOut
      BY <3>2 DEF FocusOut
    <3>3. CASE RemoveSession(Head(posted).id)
      BY <3>3 DEF RemoveSession
    <3>4. Head(posted).id \in Session
      <4>1. Head(posted) \in Message
        BY <2>2 DEF Serve, IInv, Shape
      <4> QED BY <4>1 DEF Message
    <3> QED BY <2>2, <3>1, <3>2, <3>3, <3>4 DEF Serve
  <2>3. CASE Stop
    BY <2>3 DEF Stop
  <2>4. CASE MaintenanceEnds
    BY <2>4 DEF MaintenanceEnds
  <2>5. CASE Deploy \/ CloseMutex \/ DeployerDies
    BY <2>5 DEF Deploy, CloseMutex, DeployerDies
  <2>6. CASE StartMaintenance
    BY <2>6 DEF StartMaintenance
  <2>7. CASE EndMaintenance
    BY <2>7 DEF EndMaintenance
  <2>8. ASSUME NEW c \in Clients,
               Press(c) \/ Echo(c) \/ StartSession(c) \/ Skip(c) \/ GetResponse(c)
                 \/ MoveFocus(c) \/ Notify(c) \/ PostPosition(c) \/ Deselect(c)
        PROVE  PanelShowsActiveSession'
    <3>1. UNCHANGED << server, service >>
      BY <2>8 DEF Press, Echo, StartSession, Skip, GetResponse, MoveFocus, Notify,
                  PostPosition, Deselect, OnlyClient
    <3> QED BY <3>1
  <2>9. ASSUME NEW c \in Clients, Connect(c) PROVE PanelShowsActiveSession'
    BY <2>9 DEF Connect, Start
  <2>10. ASSUME NEW c \in Clients, Add(c) PROVE PanelShowsActiveSession'
    BY <2>10 DEF Add, AddSession
  <2>11. ASSUME NEW c \in Clients, SendKey(c) PROVE PanelShowsActiveSession'
    <3>1. CASE UNCHANGED service
      BY <2>11, <3>1 DEF SendKey
    <3>2. CASE Serving /\ ProcessKeyEvent(c)
      BY <2>11, <3>2 DEF SendKey, ProcessKeyEvent, UpdateUI
    <3> QED BY <2>11, <3>1, <3>2 DEF SendKey
  <2>12. CASE UNCHANGED vars
    BY <2>12 DEF vars
  <2> QED
    BY <2>1, <2>2, <2>3, <2>4, <2>5, <2>6, <2>7, <2>8, <2>9, <2>10, <2>11, <2>12
       DEF Next, Deployer, Continue
<1> QED BY <1>1, <1>2, Invariant, PTL DEF Spec

-----------------------------------------------------------------------------
(* The panel follows the focus                                              *)

\* PanelFollowsFocus is not inductive: what the messages that wait will do to the
\* panel counts as well.  A session is bound to be shown when the panel shows it,
\* or a message will, and no message after that hides the panel again.
Shows(message, id) ==
  message.kind \in {"focus_in", "position"} /\ message.id = id
Hides(message) == message.kind \in {"focus_out", "end"}
Bound(id) ==
  \E i \in 0 .. Len(posted) :
    /\ \/ i = 0 /\ panel = id
       \/ i > 0 /\ Shows(posted[i], id)
    /\ \A j \in i + 1 .. Len(posted) : ~ Hides(posted[j])

\* A session that composes and is bound to be shown belongs to the client with
\* the focus, unless a client has yet to post that it has lost the focus; and
\* who is amid a key without the focus has yet to post that.
Leaving(c) == wnd[c] /\ due[c] = "focus_out"
Followed ==
  \A id \in DOMAIN sessions : sessions[id] /\ Bound(id) =>
    HeldBy(focus, id) \/ \E c \in Clients : Leaving(c)
Attended ==
  \A c \in Clients :
    /\ pc[c] # "idle" /\ c # focus => due[c] = "focus_out"
    /\ due[c] = "focus_in" => c = focus
    /\ due[c] = "focus_out" => c # focus
FocusInv == Attended /\ Followed

LEMMA InitFocus == Init => FocusInv
BY DEF Init, FocusInv, Attended, Followed, NoSessions

\* Only who is idle is told that the focus has come or gone, and who has the
\* focus and is amid a key does not get it again.
LEMMA NextAttended == Shape /\ Attended /\ [Next]_vars => Attended'
<1> SUFFICES ASSUME Shape, Attended, [Next]_vars PROVE Attended'
  OBVIOUS
<1> USE DEF clients
<1>1. CASE UNCHANGED << pc, focus, due >>
  BY <1>1 DEF Attended
<1>2. ASSUME NEW c \in Clients, Press(c) PROVE Attended'
  BY <1>2 DEF Press, OnlyClient, Goto, Attended, Shape
<1>3. ASSUME NEW c \in Clients,
             Echo(c) \/ Connect(c) \/ StartSession(c) \/ Add(c) \/ Skip(c)
               \/ SendKey(c) \/ GetResponse(c)
      PROVE  Attended'
  <2>1. /\ pc[c] # "idle" /\ UNCHANGED << focus, due >>
        /\ \E step \in Steps : pc' = [pc EXCEPT ![c] = step]
    BY <1>3 DEF Echo, Connect, StartSession, Add, Skip, SendKey, GetResponse,
                OnlyClient, Goto, Steps
  <2> QED BY <2>1 DEF Attended, Shape
<1>4. ASSUME NEW c \in Clients, MoveFocus(c) PROVE Attended'
  BY <1>4 DEF MoveFocus, Attended, Shape
<1>5. ASSUME NEW c \in Clients, Notify(c) PROVE Attended'
  BY <1>5 DEF Notify, Attended, Shape
<1>6. ASSUME NEW c \in Clients, PostPosition(c) \/ Deselect(c) PROVE Attended'
  BY <1>6, <1>1 DEF PostPosition, Deselect
<1>7. CASE Run \/ Serve \/ Stop \/ MaintenanceEnds \/ Deploy \/ Deployer \/ DeployerDies
             \/ UNCHANGED vars
  BY <1>7, <1>1 DEF Run, Serve, Stop, MaintenanceEnds, Deploy, Deployer,
       StartMaintenance, CloseMutex, EndMaintenance, DeployerDies, vars
<1> QED
  BY <1>2, <1>3, <1>4, <1>5, <1>6, <1>7 DEF Next, Continue

\* Without a new message, what is bound to be shown was so, or is on the panel.
LEMMA BoundBefore ==
  ASSUME Shape, posted' = posted, NEW id \in SessionIds, Bound(id)',
         panel' \in {panel, NoSession}
  PROVE  Bound(id)
BY SessionAssumption DEF Bound, Shape

\* What has been posted last decides about the panel.
LEMMA BoundByPost ==
  ASSUME Shape, NEW c \in Clients, wnd[c], panel' = panel,
         NEW kind \in {"focus_in", "focus_out", "position", "end"},
         Post(c, kind, sid[c]), NEW id \in SessionIds, Bound(id)'
  PROVE  kind \in {"focus_in", "position"} /\ (Bound(id) \/ id = sid[c])
<1> DEFINE n == Len(posted)
<1>1. /\ posted \in Seq(Message) /\ sid[c] \in Session
      /\ wnd \in [Clients -> BOOLEAN]
  BY DEF Shape
<1>2. /\ Len(posted') = n + 1 /\ \A i \in 1 .. n : posted'[i] = posted[i]
      /\ posted'[n + 1] = [kind |-> kind, id |-> sid[c]] /\ n \in Nat
  BY <1>1, Posting
<1>3. PICK i \in 0 .. Len(posted') :
        /\ \/ i = 0 /\ panel' = id
           \/ i > 0 /\ Shows(posted'[i], id)
        /\ \A j \in i + 1 .. Len(posted') : ~ Hides(posted'[j])
  BY DEF Bound
<1>4. CASE i = n + 1
  BY <1>2, <1>3, <1>4 DEF Shows
<1>5. CASE i # n + 1
  <2>1. ~ Hides(posted'[n + 1])
    BY <1>2, <1>3, <1>5
  <2>2. i \in 0 .. n
    BY <1>2, <1>5
  <2>3. Bound(id)
    BY <1>2, <1>3, <2>2 DEF Bound
  <2> QED BY <1>2, <2>1, <2>3 DEF Hides
<1> QED BY <1>4, <1>5

\* When the server handles a message, it does to the panel what was bound to
\* happen.
LEMMA BoundByServe ==
  ASSUME Shape, Serve, NEW id \in DOMAIN sessions', Bound(id)'
  PROVE  id \in DOMAIN sessions /\ sessions'[id] = sessions[id]
         /\ (~ disabled => Bound(id))
<1> DEFINE message == Head(posted)
<1>1. /\ posted \in Seq(Message) /\ posted # << >> /\ posted' = Tail(posted)
      /\ Len(posted) \in Nat /\ Len(posted') = Len(posted) - 1
      /\ \A i \in 1 .. Len(posted') : posted'[i] = posted[i + 1]
      /\ message = posted[1] /\ Len(posted) >= 1
  BY DEF Serve, Shape
<1>2. id \in DOMAIN sessions /\ sessions'[id] = sessions[id]
  BY DEF Serve, FocusIn, FocusOut, UpdateInputPosition, RemoveSession, Without
<1>3. PICK i \in 0 .. Len(posted') :
        /\ \/ i = 0 /\ panel' = id
           \/ i > 0 /\ Shows(posted'[i], id)
        /\ \A j \in i + 1 .. Len(posted') : ~ Hides(posted'[j])
  BY DEF Bound
<1>4. \A j \in i + 2 .. Len(posted) : ~ Hides(posted[j])
  <2> SUFFICES ASSUME NEW j \in i + 2 .. Len(posted) PROVE ~ Hides(posted[j])
    OBVIOUS
  <2>1. j - 1 \in i + 1 .. Len(posted') /\ posted'[j - 1] = posted[j]
    BY <1>1
  <2> QED BY <1>3, <2>1
<1>5. CASE i > 0
  <2>1. i + 1 \in 0 .. Len(posted) /\ Shows(posted[i + 1], id) /\ i + 1 > 0
    BY <1>1, <1>3, <1>5
  <2>2. \A j \in (i + 1) + 1 .. Len(posted) : ~ Hides(posted[j])
    BY <1>4
  <2>3. Bound(id)
    BY <2>1, <2>2 DEF Bound
  <2> QED BY <1>2, <2>3
<1>6. CASE i = 0 /\ panel' = id
  <2>1. id # NoSession
    BY <1>2, SessionAssumption DEF Shape
  <2>2. \A j \in 2 .. Len(posted) : ~ Hides(posted[j])
    BY <1>4, <1>6
  <2>3. ~ disabled => Shows(message, id) \/ (panel = id /\ ~ Hides(message))
    BY <1>6, <2>1 DEF Serve, FocusIn, FocusOut, UpdateInputPosition, RemoveSession,
                      UpdateUI, Shows, Hides
  <2>4. Shows(message, id) => Bound(id)
    BY <1>1, <2>2 DEF Bound
  <2>5. panel = id /\ ~ Hides(message) => Bound(id)
    BY <1>1, <2>2 DEF Bound
  <2> QED BY <1>2, <2>3, <2>4, <2>5
<1> QED BY <1>3, <1>5, <1>6

LEMMA NextFollowed == IInv /\ FocusInv /\ Attended' /\ IInv' /\ [Next]_vars => Followed'
<1> SUFFICES ASSUME IInv, FocusInv, Attended', IInv', [Next]_vars,
                    NEW id \in DOMAIN sessions', sessions'[id], Bound(id)'
             PROVE  HeldBy(focus, id)' \/ \E c \in Clients : Leaving(c)'
  BY DEF Followed
<1> USE DEF service, clients, history, Serving
<1>a. Shape /\ Shape' /\ id \in SessionIds /\ id # NoSession /\ focus \in Clients
  BY SessionAssumption DEF IInv, Shape
<1>b. ASSUME id \in DOMAIN sessions, sessions[id], Bound(id)
      PROVE  HeldBy(focus, id) \/ \E c \in Clients : Leaving(c)
  BY <1>b DEF FocusInv, Followed
\* Whoever the session belongs to keeps it, and whoever is leaving still is.
<1>c. ASSUME UNCHANGED sessions, Bound(id), focus' = focus, due' = due,
             \A c \in Clients : wnd[c] => wnd'[c],
             HeldBy(focus, id) => HeldBy(focus, id)'
      PROVE  HeldBy(focus, id)' \/ \E c \in Clients : Leaving(c)'
  BY <1>b, <1>c DEF Leaving
<1>1. CASE DOMAIN sessions' = {}
  BY <1>1
<1>2. CASE Run \/ Stop
  <2>1. DOMAIN sessions' = {}
    BY <1>2 DEF Run, Stop, IInv, Resting, NoSessions
  <2> QED BY <2>1, <1>1
<1>3. CASE Serve
  <2>1. UNCHANGED << wnd, sid, pc, focus, due, disabled >>
    BY <1>3 DEF Serve, FocusIn, FocusOut, UpdateInputPosition, RemoveSession
  <2>2. ~ disabled
    BY <2>1, <1>a DEF IInv, Resting
  <2>3. id \in DOMAIN sessions /\ sessions[id] /\ Bound(id)
    BY <1>3, <1>a, <2>2, BoundByServe
  <2> QED BY <1>b, <2>1, <2>3 DEF HeldBy, Leaving
<1>4. CASE MaintenanceEnds \/ Deploy \/ CloseMutex \/ DeployerDies \/ EndMaintenance
             \/ UNCHANGED vars
  <2>1. UNCHANGED << sessions, posted, wnd, sid, pc, focus, due >>
        /\ panel' \in {panel, NoSession}
    BY <1>4 DEF MaintenanceEnds, Deploy, CloseMutex, DeployerDies, EndMaintenance, vars
  <2>2. Bound(id)
    BY <1>a, <2>1, BoundBefore
  <2> QED BY <1>c, <2>1, <2>2 DEF HeldBy
<1>5. CASE StartMaintenance
  <2>1. CASE Finalize
    BY <1>1, <2>1 DEF Finalize, NoSessions
  <2>2. CASE UNCHANGED service
    <3>1. UNCHANGED << sessions, posted, wnd, sid, pc, focus, due, panel >>
      BY <1>5, <2>2 DEF StartMaintenance
    <3>2. Bound(id)
      BY <1>a, <3>1, BoundBefore
    <3> QED BY <1>c, <3>1, <3>2 DEF HeldBy
  <2> QED BY <1>5, <2>1, <2>2 DEF StartMaintenance
<1>6. ASSUME NEW c \in Clients,
             Press(c) \/ Echo(c) \/ Skip(c) \/ GetResponse(c)
      PROVE  HeldBy(focus, id)' \/ \E d \in Clients : Leaving(d)'
  <2>1. /\ UNCHANGED << sessions, posted, wnd, sid, focus, due, panel >>
        /\ \E step \in Steps \ {"add"} : pc' = [pc EXCEPT ![c] = step]
    BY <1>6 DEF Press, Echo, Skip, GetResponse, OnlyClient, Goto, Steps
  <2>2. Bound(id)
    BY <1>a, <2>1, BoundBefore
  <2>3. HeldBy(focus, id) => HeldBy(focus, id)'
    BY <1>a, <2>1 DEF HeldBy, Shape
  <2> QED BY <1>c, <2>1, <2>2, <2>3
<1>7. ASSUME NEW c \in Clients, Connect(c)
      PROVE  HeldBy(focus, id)' \/ \E d \in Clients : Leaving(d)'
  <2>1. CASE server = "down"
    <3>1. DOMAIN sessions' = {}
      BY <1>7, <2>1 DEF Connect, Start, NoSessions, IInv, Resting
    <3> QED BY <3>1, <1>1
  <2>2. CASE server # "down"
    <3>1. /\ UNCHANGED << sessions, posted, sid, focus, due, panel >>
          /\ wnd' = [wnd EXCEPT ![c] = TRUE] /\ pc' = [pc EXCEPT ![c] = "start"]
      BY <1>7, <2>2 DEF Connect, Start, Goto
    <3>2. Bound(id)
      BY <1>a, <3>1, BoundBefore
    <3>3. HeldBy(focus, id) => HeldBy(focus, id)'
      BY <1>a, <3>1 DEF HeldBy, Shape
    <3>4. \A d \in Clients : wnd[d] => wnd'[d]
      BY <1>a, <3>1 DEF Shape
    <3> QED BY <1>c, <3>1, <3>2, <3>3, <3>4
  <2> QED BY <2>1, <2>2
<1>8. ASSUME NEW c \in Clients, StartSession(c)
      PROVE  HeldBy(focus, id)' \/ \E d \in Clients : Leaving(d)'
  <2>1. /\ UNCHANGED << sessions, posted, wnd, sid, focus, due, panel >>
        /\ pc' = [pc EXCEPT ![c] = "key"] \/ pc' = [pc EXCEPT ![c] = "add"]
    BY <1>8 DEF StartSession, OnlyClient, Goto
  <2>2. Bound(id)
    BY <1>a, <2>1, BoundBefore
  <2>3. pc' = [pc EXCEPT ![c] = "add"] => sid[c] \notin DOMAIN sessions
    BY <1>8, SessionAssumption
       DEF StartSession, Goto, Found, Active, Connected, IInv, Resting, Shape
  <2>4. HeldBy(focus, id) => HeldBy(focus, id)'
    BY <1>a, <2>1, <2>3 DEF HeldBy, Shape
  <2> QED BY <1>c, <2>1, <2>2, <2>4
<1>9. ASSUME NEW c \in Clients, Add(c)
      PROVE  HeldBy(focus, id)' \/ \E d \in Clients : Leaving(d)'
  <2>1. /\ pc' = [pc EXCEPT ![c] = "key"] /\ pc[c] = "add"
        /\ UNCHANGED << posted, wnd, focus, due >> /\ panel' \in {panel, NoSession}
    BY <1>9 DEF Add, AddSession, Goto
  <2>2. /\ \/ sessions' = sessions
           \/ \E new \in SessionIds : sessions' = Put(sessions, new, FALSE)
        /\ \A d \in Clients : d # c => sid'[d] = sid[d]
    BY <1>9, <1>a DEF Add, AddSession, Shape
  <2>3. id \in DOMAIN sessions /\ sessions[id]
    BY <2>2 DEF Put
  <2>4. Bound(id)
    BY <1>a, <2>1, BoundBefore
  <2>5. HeldBy(focus, id) => HeldBy(focus, id)'
    BY <1>a, <2>1, <2>2 DEF HeldBy, Shape
  <2> QED BY <1>b, <2>1, <2>3, <2>4, <2>5 DEF Leaving
\* The session of a key is that of the client with the focus, or of one that is
\* still to say that it has lost it.
<1>10. ASSUME NEW c \in Clients, SendKey(c)
       PROVE  HeldBy(focus, id)' \/ \E d \in Clients : Leaving(d)'
  <2>1. /\ UNCHANGED << posted, wnd, sid, focus, due >> /\ pc[c] = "key"
        /\ \E step \in Steps \ {"add"} : pc' = [pc EXCEPT ![c] = step]
    BY <1>10 DEF SendKey, Goto, Steps
  <2>2. HeldBy(focus, id) => HeldBy(focus, id)'
    BY <1>a, <2>1 DEF HeldBy, Shape
  <2>3. CASE UNCHANGED service
    <3>1. Bound(id)
      BY <1>a, <2>1, <2>3, BoundBefore
    <3> QED BY <1>c, <2>1, <2>2, <2>3, <3>1
  <2>4. CASE Active(c) /\ ProcessKeyEvent(c)
    <3>1. CASE id = sid[c]
      <4>1. CASE c = focus
        BY <1>a, <2>1, <2>4, <3>1, <4>1 DEF HeldBy, Active, Connected, Shape
      <4>2. CASE c # focus
        BY <2>1, <2>4, <4>2 DEF FocusInv, Attended, Leaving, Active, Connected
      <4> QED BY <4>1, <4>2
    <3>2. CASE id # sid[c]
      <4>1. /\ id \in DOMAIN sessions /\ sessions[id] = sessions'[id]
            /\ panel' \in {sid[c], NoSession}
        BY <2>4, <3>2 DEF ProcessKeyEvent, UpdateUI
      <4>2. Bound(id)
        BY <1>a, <2>1, <3>2, <4>1 DEF Bound
      <4> QED BY <1>b, <2>1, <2>2, <4>1, <4>2 DEF Leaving
    <3> QED BY <3>1, <3>2
  <2> QED BY <1>10, <2>3, <2>4 DEF SendKey
<1>11. ASSUME NEW c \in Clients, MoveFocus(c)
       PROVE  HeldBy(focus, id)' \/ \E d \in Clients : Leaving(d)'
  <2>1. /\ UNCHANGED << sessions, posted, panel, wnd, sid, pc >>
        /\ c # focus /\ due[c] = "nothing" /\ due[focus] = "nothing"
        /\ due' = [due EXCEPT ![c] = "focus_in", ![focus] = "focus_out"]
    BY <1>11 DEF MoveFocus
  <2>2. Bound(id)
    BY <1>a, <2>1, BoundBefore
  <2>3. CASE HeldBy(focus, id)
    <3>1. PICK old \in Clients : old = focus
      BY <1>a
    <3>2. Leaving(old)'
      BY <1>a, <2>1, <2>3, <3>1 DEF HeldBy, Leaving, Shape
    <3> QED BY <3>2
  <2>4. ASSUME NEW d \in Clients, Leaving(d) PROVE Leaving(d)'
    BY <1>a, <2>1, <2>4 DEF Leaving, Shape
  <2> QED BY <1>b, <2>1, <2>2, <2>3, <2>4
\* What the client with the focus posts is about its own session.
<1>12. ASSUME NEW c \in Clients, Notify(c)
       PROVE  HeldBy(focus, id)' \/ \E d \in Clients : Leaving(d)'
  <2>1. /\ UNCHANGED << sessions, panel, wnd, sid, pc, focus >> /\ pc[c] = "idle"
        /\ due[c] \in {"focus_in", "focus_out"} /\ Post(c, due[c], sid[c])
        /\ due' = [due EXCEPT ![c] = "nothing"]
    BY <1>12, <1>a DEF Notify, Shape
  <2>2. CASE wnd[c]
    <3>1. due[c] = "focus_in" /\ (Bound(id) \/ id = sid[c])
      BY <1>a, <2>1, <2>2, BoundByPost
    <3>2. c = focus
      BY <3>1 DEF FocusInv, Attended
    <3>3. CASE id = sid[c]
      BY <2>1, <2>2, <3>2, <3>3 DEF HeldBy
    <3>4. CASE Bound(id)
      <4>1. ASSUME NEW d \in Clients, Leaving(d) PROVE Leaving(d)'
        BY <1>a, <2>1, <3>1, <4>1 DEF Leaving, Shape
      <4>2. HeldBy(focus, id) => HeldBy(focus, id)'
        BY <2>1 DEF HeldBy
      <4> QED BY <1>b, <2>1, <3>4, <4>1, <4>2
    <3> QED BY <3>1, <3>3, <3>4
  <2>3. CASE ~ wnd[c]
    <3>1. Bound(id)
      BY <1>a, <2>1, <2>3, BoundBefore DEF Post, Connected
    <3>2. ASSUME NEW d \in Clients, Leaving(d) PROVE Leaving(d)'
      BY <1>a, <2>1, <2>3, <3>2 DEF Leaving, Shape
    <3>3. HeldBy(focus, id) => HeldBy(focus, id)'
      BY <2>1 DEF HeldBy
    <3> QED BY <1>b, <2>1, <3>1, <3>2, <3>3
  <2> QED BY <2>2, <2>3
<1>13. ASSUME NEW c \in Clients, PostPosition(c)
       PROVE  HeldBy(focus, id)' \/ \E d \in Clients : Leaving(d)'
  <2>1. /\ UNCHANGED << sessions, panel, wnd, sid, pc, focus, due >> /\ pc[c] = "idle"
        /\ c = focus /\ wnd[c] /\ Post(c, "position", sid[c])
    BY <1>13 DEF PostPosition, Active, Connected
  <2>2. Bound(id) \/ id = sid[c]
    BY <1>a, <2>1, BoundByPost
  <2>3. CASE id = sid[c]
    BY <2>1, <2>3 DEF HeldBy
  <2>4. HeldBy(focus, id) => HeldBy(focus, id)'
    BY <2>1 DEF HeldBy
  <2> QED BY <1>c, <2>1, <2>2, <2>3, <2>4
<1>14. ASSUME NEW c \in Clients, Deselect(c)
       PROVE  HeldBy(focus, id)' \/ \E d \in Clients : Leaving(d)'
  <2>1. /\ UNCHANGED << sessions, panel, wnd, pc, focus, due >>
        /\ c = focus /\ Post(c, "end", sid[c])
    BY <1>14 DEF Deselect
  <2>2. ~ wnd[c]
    BY <1>a, <2>1, BoundByPost
  <2>3. Bound(id)
    BY <1>a, <2>1, <2>2, BoundBefore DEF Post, Connected
  <2> QED BY <1>c, <2>1, <2>2, <2>3 DEF HeldBy
<1> QED
  BY <1>2, <1>3, <1>4, <1>5, <1>6, <1>7, <1>8, <1>9, <1>10, <1>11, <1>12, <1>13, <1>14
     DEF Next, Deployer, Continue

LEMMA FocusInvariant == Spec => [](IInv /\ FocusInv)
<1>1. IInv /\ FocusInv /\ IInv' /\ [Next]_vars => FocusInv'
  BY NextAttended, NextFollowed DEF IInv, FocusInv
<1> QED BY <1>1, InitFocus, Invariant, PTL DEF Spec

\* Keys are sent, changes of focus are posted and handled later: once all of them
\* have been handled, the panel belongs to the client the user is typing in, or
\* nothing is shown.
THEOREM PanelFollows == Spec => []PanelFollowsFocus
<1>1. IInv /\ FocusInv /\ PanelShowsActiveSession => PanelFollowsFocus
  <2> SUFFICES ASSUME IInv, FocusInv, PanelShowsActiveSession, Quiet,
                      panel # NoSession
               PROVE  panel = sid[focus]
    BY DEF PanelFollowsFocus
  <2>1. panel \in DOMAIN sessions /\ sessions[panel]
    BY DEF PanelShowsActiveSession
  <2>2. Bound(panel)
    BY DEF Bound, Quiet
  <2>3. \A c \in Clients : ~ Leaving(c)
    BY DEF Quiet, Leaving
  <2> QED BY <2>1, <2>2, <2>3 DEF FocusInv, Followed, HeldBy
<1> QED BY <1>1, FocusInvariant, PanelIsActive, PTL

-----------------------------------------------------------------------------
(* The texts arrive                                                         *)

\* What a client is about to read, if it is the answer to its own key, is the
\* text it lacks; a server that is down has left nothing to read.
Answered(c) ==
  pc[c] = "read" /\ buffer # NoAnswer /\ buffer.to = c =>
    Holds(IF buffer.commit = 0 THEN doc[c] ELSE Append(doc[c], buffer.commit),
          Texts(c))
TextInv ==
  /\ server = "down" => buffer = NoAnswer
  /\ made \in Seq(Clients) /\ doc \in [Clients -> Seq(Nat)]
  /\ buffer # NoAnswer => buffer.commit \in Nat
  /\ TextArrives
  /\ calm => \A c \in Clients : Answered(c)

LEMMA InitText == Init => TextInv
<1> SUFFICES ASSUME Init PROVE TextInv
  OBVIOUS
<1>1. made \in Seq(Clients) /\ doc \in [Clients -> Seq(Nat)]
  BY DEF Init
<1>2. \A c \in Clients : Holds(doc[c], Texts(c)) /\ pc[c] # "read"
  BY DEF Init, Holds, Texts
<1> QED BY <1>1, <1>2 DEF Init, TextInv, TextArrives, Answered

\* A text that is later than all that are there comes behind them.
LEMMA HoldsOneMore ==
  ASSUME NEW d \in Seq(Nat), NEW texts, Holds(d, texts), NEW n \in Nat,
         \A i \in texts : i < n
  PROVE  Holds(Append(d, n), texts \cup {n})
<1> DEFINE e == Append(d, n)
<1>1. /\ Len(e) = Len(d) + 1 /\ Len(d) \in Nat /\ e[Len(d) + 1] = n
      /\ \A i \in 1 .. Len(d) : e[i] = d[i]
  OBVIOUS
<1>2. {d[i] : i \in 1 .. Len(d)} = texts
  BY DEF Holds
<1>3. {e[i] : i \in 1 .. Len(e)} = texts \cup {n}
  <2> HIDE DEF e
  <2> QED BY <1>1, <1>2
<1>4. ASSUME NEW i \in 1 .. Len(e), NEW j \in 1 .. Len(e), i < j
      PROVE  e[i] < e[j]
  <2> HIDE DEF e
  <2>1. CASE j = Len(d) + 1
    <3>1. i \in 1 .. Len(d) /\ e[i] = d[i]
      BY <1>1, <1>4, <2>1
    <3>2. d[i] \in texts
      BY <1>2, <3>1
    <3> QED BY <1>1, <2>1, <3>1, <3>2
  <2>2. CASE j # Len(d) + 1
    <3>1. i \in 1 .. Len(d) /\ j \in 1 .. Len(d)
      BY <1>1, <1>4, <2>2
    <3> QED BY <1>1, <1>4, <3>1 DEF Holds
  <2> QED BY <2>1, <2>2
<1> QED BY <1>3, <1>4 DEF Holds

\* Only the key of a client can commit a text for it, and then it waits to read
\* the answer.
LEMMA NextText == Shape /\ TextInv /\ [Next]_vars => TextInv'
<1> SUFFICES ASSUME Shape, TextInv, [Next]_vars PROVE TextInv'
  OBVIOUS
<1> USE DEF service, clients, history, Serving
<1>1. ASSUME UNCHANGED << buffer, made, doc, calm >>,
             server' = "down" => buffer = NoAnswer,
             \A c \in Clients : pc'[c] # pc[c] => pc[c] # "read" /\ pc'[c] # "read"
      PROVE  TextInv'
  BY <1>1 DEF TextInv, TextArrives, Answered, Texts
\* A new server, and one that is gone, leave nothing to read.
<1>2. ASSUME UNCHANGED << made, doc, calm >>, buffer' = NoAnswer,
             \A c \in Clients : pc'[c] # pc[c] => pc[c] # "read" /\ pc'[c] # "read"
      PROVE  TextInv'
  BY <1>2 DEF TextInv, TextArrives, Answered, Texts
<1>3. CASE Run \/ Serve \/ MaintenanceEnds \/ Deploy \/ Deployer \/ DeployerDies
             \/ UNCHANGED vars
  BY <1>1, <1>3 DEF TextInv, Run, Serve, MaintenanceEnds, Deploy, Deployer,
       StartMaintenance, CloseMutex, EndMaintenance, DeployerDies, vars
<1>4. CASE Stop
  BY <1>2, <1>4 DEF Stop
<1>5. ASSUME NEW c \in Clients,
             Press(c) \/ Echo(c) \/ StartSession(c) \/ Add(c) \/ Skip(c)
      PROVE  TextInv'
  <2>1. /\ UNCHANGED << server, buffer, made, doc, calm >> /\ pc[c] # "read"
        /\ \E step \in Steps \ {"read"} : pc' = [pc EXCEPT ![c] = step]
    BY <1>5 DEF Press, Echo, StartSession, Add, Skip, OnlyClient, Goto, Steps
  <2>2. \A d \in Clients : pc'[d] # pc[d] => pc[d] # "read" /\ pc'[d] # "read"
    BY <2>1 DEF Shape
  <2> QED BY <1>1, <2>1, <2>2 DEF TextInv
<1>6. ASSUME NEW c \in Clients, Connect(c) PROVE TextInv'
  <2>1. /\ UNCHANGED << made, doc, calm >> /\ pc[c] # "read"
        /\ \E step \in Steps \ {"read"} : pc' = [pc EXCEPT ![c] = step]
        /\ buffer' = NoAnswer \/ UNCHANGED << server, buffer >>
    BY <1>6 DEF Connect, Start, Goto, Steps
  <2>2. \A d \in Clients : pc'[d] # pc[d] => pc[d] # "read" /\ pc'[d] # "read"
    BY <2>1 DEF Shape
  <2> QED BY <1>1, <1>2, <2>1, <2>2 DEF TextInv
<1>7. ASSUME NEW c \in Clients,
             MoveFocus(c) \/ Notify(c) \/ PostPosition(c) \/ Deselect(c)
      PROVE  TextInv'
  BY <1>1, <1>7 DEF TextInv, MoveFocus, Notify, PostPosition, Deselect
<1>8. ASSUME NEW c \in Clients, SendKey(c) PROVE TextInv'
  <2>1. pc[c] = "key" /\ UNCHANGED << server, doc, calm >>
    BY <1>8 DEF SendKey
  <2>2. CASE pc' = [pc EXCEPT ![c] = "unanswered"] /\ UNCHANGED << buffer, made >>
    <3>1. \A d \in Clients : pc'[d] # pc[d] => pc[d] # "read" /\ pc'[d] # "read"
      BY <2>1, <2>2 DEF Shape
    <3> QED BY <1>1, <2>1, <2>2, <3>1 DEF TextInv
  <2>3. CASE server # "down" /\ ProcessKeyEvent(c) /\ pc' = [pc EXCEPT ![c] = "read"]
    <3>1. /\ made \in Seq(Clients) /\ doc \in [Clients -> Seq(Nat)]
          /\ \A d \in Clients : pc'[d] = IF d = c THEN "read" ELSE pc[d]
      BY <2>3 DEF TextInv, Shape
    <3>2. buffer'.to = c
      BY <2>3 DEF ProcessKeyEvent, Respond
    <3>3. CASE made' = made /\ buffer'.commit = 0
      <4>1. \A d \in Clients : Texts(d)' = Texts(d)
        BY <3>3 DEF Texts
      <4>2. calm => \A d \in Clients : Answered(d)'
        BY <2>1, <3>1, <3>2, <3>3, <4>1 DEF TextInv, TextArrives, Answered
      <4> QED BY <2>1, <2>3, <3>1, <3>3, <4>1, <4>2 DEF TextInv, TextArrives
    <3>4. CASE made' = Append(made, c) /\ buffer'.commit = Len(made')
      <4> DEFINE n == Len(made) + 1
      <4>1. /\ n \in Nat \ {0} /\ Len(made') = n /\ made' \in Seq(Clients)
            /\ made'[n] = c /\ \A i \in 1 .. Len(made) : made'[i] = made[i]
        BY <3>1, <3>4
      <4>2. \A d \in Clients : d # c => Texts(d)' = Texts(d)
        BY <4>1 DEF Texts
      <4>3. Texts(c)' = Texts(c) \cup {n} /\ \A i \in Texts(c) : i < n
        BY <4>1 DEF Texts
      <4> HIDE DEF n
      <4>4. ASSUME calm PROVE Holds(Append(doc[c], n), Texts(c) \cup {n})
        <5>1. Holds(doc[c], Texts(c)) /\ doc[c] \in Seq(Nat)
          BY <2>1, <3>1, <4>4 DEF TextInv, TextArrives
        <5> QED BY <4>1, <4>3, <5>1, HoldsOneMore
      <4>5. calm => \A d \in Clients : Answered(d)'
        BY <2>1, <3>1, <3>2, <3>4, <4>1, <4>3, <4>4 DEF Answered
      <4>6. TextArrives'
        BY <2>1, <3>1, <4>2 DEF TextInv, TextArrives
      <4> QED BY <2>1, <2>3, <3>1, <3>4, <4>1, <4>5, <4>6 DEF TextInv
    <3> QED BY <2>3, <3>3, <3>4 DEF ProcessKeyEvent, Respond
  <2> QED BY <1>8, <2>2, <2>3 DEF SendKey, Goto
<1>9. ASSUME NEW c \in Clients, GetResponse(c) PROVE TextInv'
  <2>1. /\ UNCHANGED << server, buffer, made >>
        /\ \A d \in Clients : pc'[d] = IF d = c THEN "idle" ELSE pc[d]
        /\ made \in Seq(Clients) /\ doc \in [Clients -> Seq(Nat)]
    BY <1>9 DEF GetResponse, Goto, Shape, TextInv
  <2>2. /\ doc' \in [Clients -> Seq(Nat)]
        /\ \A d \in Clients : d # c => doc'[d] = doc[d]
    BY <1>9, <2>1 DEF GetResponse, TextInv
  <2>3. \A d \in Clients : Texts(d)' = Texts(d)
    BY <2>1 DEF Texts
  <2>4. ASSUME calm' PROVE calm /\ Holds(doc'[c], Texts(c))
    <3>1. calm /\ pc[c] = "read" /\ buffer # NoAnswer /\ buffer.to = c
      BY <1>9, <2>4 DEF GetResponse
    <3>2. doc'[c] = IF buffer.commit = 0 THEN doc[c] ELSE Append(doc[c], buffer.commit)
      BY <1>9, <2>1, <3>1 DEF GetResponse, TextInv
    <3> QED BY <3>1, <3>2 DEF TextInv, Answered
  <2>5. TextArrives'
    BY <2>1, <2>2, <2>3, <2>4 DEF TextInv, TextArrives
  <2>6. calm' => \A d \in Clients : Answered(d)'
    BY <2>1, <2>2, <2>3, <2>4 DEF TextInv, Answered
  <2> QED BY <2>1, <2>2, <2>5, <2>6 DEF TextInv
<1> QED
  BY <1>3, <1>4, <1>5, <1>6, <1>7, <1>8, <1>9 DEF Next, Continue

\* As long as nobody has read another's answer, whatever else happens to the
\* server, no text is lost, doubled or out of order.
THEOREM TextsArrive == Spec => []TextArrives
<1>1. TextInv => TextArrives
  BY DEF TextInv
<1>2. IInv /\ TextInv /\ [Next]_vars => TextInv'
  BY NextText DEF IInv
<1> QED BY <1>1, <1>2, InitText, Invariant, PTL DEF Spec
=============================================================================
