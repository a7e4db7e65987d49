------------------------------- MODULE Timers -------------------------------
(***************************************************************************)
(* What a timer service promises, with no wheel in it: a task that was     *)
(* added with a timeout runs its callback exactly that many ticks after it *)
(* was added or last refreshed, once, and not at all if it was cancelled.  *)
(* TimerWheel.tla (source/TimerWheel.hpp) is shown to implement it.        *)
(***************************************************************************)
EXTENDS Naturals

CONSTANTS Ids,      \* the ids the callers use
          Tasks,    \* the task objects
          NoTask,   \* "no task": an id without a task, no callback running
          Delays    \* the timeouts the callers ask for

VARIABLES pending,  \* the tasks that still have to run (or to be dropped)
          left,     \* the ticks each of them still has to wait
          task,     \* id, timeout and cancelled flag of every task
          timers,   \* the task each id names, or NoTask
          running   \* the task whose callback is running, or NoTask

vars == <<pending, left, task, timers, running>>

TaskRecord == [id : Ids, timeout : Delays, canceled : BOOLEAN]

Init == /\ pending = {}
        /\ left = [t \in Tasks |-> 0]
        /\ task \in [Tasks -> TaskRecord]
        /\ timers = [i \in Ids |-> NoTask]
        /\ running = NoTask

Add(i, d) ==
  \E t \in Tasks \ (pending \cup {running}) :
     /\ pending' = pending \cup {t}
     /\ left' = [left EXCEPT ![t] = d]
     /\ task' = [task EXCEPT ![t] = [id |-> i, timeout |-> d, canceled |-> FALSE]]
     /\ timers' = [timers EXCEPT ![i] = t]
     /\ UNCHANGED running

\* Also for a task that is already due: it is put off if it has not started.
Refresh(i) ==
  /\ timers[i] \in pending
  /\ left' = [left EXCEPT ![timers[i]] = task[timers[i]].timeout]
  /\ UNCHANGED <<pending, task, timers, running>>

Cancel(i) ==
  /\ timers[i] \in pending
  /\ task' = [task EXCEPT ![timers[i]].canceled = TRUE]
  /\ UNCHANGED <<pending, left, timers, running>>

\* Time passes only when nothing is due any more.
Tick ==
  /\ running = NoTask
  /\ \A t \in pending : left[t] > 0
  /\ left' = [t \in Tasks |-> IF t \in pending THEN left[t] - 1 ELSE left[t]]
  /\ UNCHANGED <<pending, task, timers, running>>

Due(t) == t \in pending /\ left[t] = 0 /\ running = NoTask

Fire(t) ==
  /\ Due(t) /\ ~ task[t].canceled
  /\ pending' = pending \ {t}
  /\ running' = t
  /\ UNCHANGED <<left, task, timers>>

Discard(t) ==
  /\ Due(t) /\ task[t].canceled
  /\ pending' = pending \ {t}
  /\ timers' = [timers EXCEPT ![task[t].id] = NoTask]
  /\ UNCHANGED <<left, task, running>>

Finish ==
  /\ running \in Tasks
  /\ running' = NoTask
  /\ timers' = [timers EXCEPT ![task[running].id] = NoTask]
  /\ UNCHANGED <<pending, left, task>>

Next == \/ \E i \in Ids : \/ \E d \in Delays : Add(i, d)
                          \/ Refresh(i)
                          \/ Cancel(i)
        \/ Tick
        \/ \E t \in Tasks : Fire(t) \/ Discard(t)
        \/ Finish

Spec == Init /\ [][Next]_vars
=============================================================================
