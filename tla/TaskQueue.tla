----------------------------- MODULE TaskQueue -----------------------------
(***************************************************************************)
(* What the deployer promises about deployment tasks: a task that has been  *)
(* scheduled waits, runs alone, and is finished once, in the order in which *)
(* the tasks were scheduled.                                                *)
(***************************************************************************)
EXTENDS Sequences

CONSTANTS Task, NoTask

VARIABLES
  waiting,    \* the tasks that are scheduled and have not started, in order
  running,    \* the task that is running, or NoTask
  finished    \* the tasks that have run, in order

Init == waiting = << >> /\ running = NoTask /\ finished = << >>

Schedule(t) == waiting' = Append(waiting, t) /\ UNCHANGED << running, finished >>

Start ==
  /\ running = NoTask /\ waiting # << >>
  /\ running' = Head(waiting) /\ waiting' = Tail(waiting)
  /\ UNCHANGED finished

Finish ==
  /\ running # NoTask
  /\ finished' = Append(finished, running) /\ running' = NoTask
  /\ UNCHANGED waiting

Next == (\E t \in Task : Schedule(t)) \/ Start \/ Finish

Spec == Init /\ [][Next]_<< waiting, running, finished >>
=============================================================================
