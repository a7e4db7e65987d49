----------------------------- MODULE TimerWheel -----------------------------
(***************************************************************************)
(* source/TimerWheel.hpp: the timing wheel of one event loop.  A dial of   *)
(* Capacity slots holds shared_ptrs to task objects; once a second the     *)
(* hand moves one slot and the slot is cleared; a task whose last          *)
(* shared_ptr goes away runs its callback IN ITS DESTRUCTOR.  A refresh    *)
(* never moves a task: it pushes one more shared_ptr further round.        *)
(*                                                                         *)
(* Everything here runs in the loop's thread.  A callback may call the     *)
(* wheel again, in the middle of the clear() that runs it; otherwise the   *)
(* calls come between two OnTime()s.  Callers do not share ids: an id is   *)
(* added only when it is not in _timers (connections and RunAfter use a    *)
(* counter), except as Repeating says.                                     *)
(***************************************************************************)
EXTENDS Naturals

CONSTANTS Ids,               \* the ids the callers use
          Tasks,             \* the task objects (memory), reused when free
          NoTask,            \* an id without entry; no destructor running
          Capacity,          \* _capacity, 60 in the code
          Delays,            \* the delays the callers ask for
          MaxExpirations,    \* bound: unread expirations of the timerfd
          Repeating,         \* callbacks may add their own id again, the only
                             \* way the wheel has to repeat a task
          CarefulCallbacks   \* callbacks neither refresh their own id nor
                             \* ask for a whole turn of the dial

ASSUME WheelAssumption ==
  /\ Capacity \in Nat \ {0}
  /\ Delays \subseteq 1 .. Capacity
  /\ NoTask \notin Tasks
  /\ MaxExpirations \in Nat \ {0}
  /\ Repeating \in BOOLEAN /\ CarefulCallbacks \in BOOLEAN

VARIABLES
  curtick,      \* _curtick: the hand
  wheel,        \* _wheel: the tasks each slot has a shared_ptr to
  timers,       \* _timers: the task each id's weak_ptr points to
  task,         \* the fields of the task objects
  expirations,  \* what a read of the timerfd would return
  ticks,        \* iterations OnTime() still has to do
  dropping,     \* shared_ptrs of the slot being cleared, not yet destroyed
  running,      \* the task whose destructor is in its callback
  undefined,    \* the code has run into undefined behaviour
  left,         \* history: ticks left since the add or the last refresh
  canceledId    \* history: ids cancelled since they were last added

state == <<curtick, wheel, timers, task, expirations, ticks, dropping,
           running, undefined>>
vars == <<state, left, canceledId>>

Slots == 0 .. Capacity - 1
TaskRecord == [id : Ids, timeout : Delays, canceled : BOOLEAN]

\* A weak_ptr of t can be locked: some shared_ptr is left.
Alive(t) == t \in dropping \/ \E p \in Slots : t \in wheel[p]

\* The slot a timeout of d ticks goes to.
Pos(d) == (curtick + d) % Capacity

Init ==
  /\ curtick = 0
  /\ wheel = [p \in Slots |-> {}]
  /\ timers = [i \in Ids |-> NoTask]
  /\ \E r \in TaskRecord : task = [t \in Tasks |-> r]
  /\ expirations = 0 /\ ticks = 0
  /\ dropping = {} /\ running = NoTask
  /\ undefined = FALSE
  /\ left = [t \in Tasks |-> 0]
  /\ canceledId = {}

-----------------------------------------------------------------------------
(* The calls: TimerAdd, TimerRefresh and TimerCancel end up here through    *)
(* RunInLoop.                                                               *)

\* The loop thread is in a callback of the wheel, or outside OnTime().
MayCall == ~ undefined /\ (running # NoTask \/ (ticks = 0 /\ dropping = {}))

\* Pushing into the vector that is being cleared is undefined behaviour.
HitsClearedSlot(d) == running # NoTask /\ Pos(d) = curtick

TimerAddInLoop(i, d) ==
  /\ MayCall
  /\ \/ timers[i] = NoTask
     \/ Repeating /\ running # NoTask /\ timers[i] = running
  /\ CarefulCallbacks => ~ HitsClearedSlot(d)
  /\ \E t \in Tasks :
       /\ ~ Alive(t) /\ t # running
       /\ task' = [task EXCEPT ![t] = [id |-> i, timeout |-> d, canceled |-> FALSE]]
       /\ wheel' = [wheel EXCEPT ![Pos(d)] = @ \cup {t}]
       /\ timers' = [timers EXCEPT ![i] = t]
       /\ left' = [left EXCEPT ![t] = d]
  /\ undefined' = HitsClearedSlot(d)
  /\ canceledId' = canceledId \ {i}
  /\ UNCHANGED <<curtick, expirations, ticks, dropping, running>>

\* An id that is not in _timers is ignored.  An id whose task is being
\* destroyed still is in _timers, but its weak_ptr locks to null, and
\* DelayTime() is called on that.
RefreshMutant(i) ==
  /\ MayCall /\ timers[i] # NoTask /\ Alive(timers[i])
  /\ left' = [left EXCEPT ![timers[i]] = task[timers[i]].timeout]
  /\ UNCHANGED <<state, canceledId>>
TimerRefreshInLoop(i) ==
  /\ MayCall
  /\ timers[i] # NoTask
  /\ LET t == timers[i]
         d == task[t].timeout
     IN /\ CarefulCallbacks => t # running /\ ~ HitsClearedSlot(d)
        /\ undefined' = (~ Alive(t) \/ HitsClearedSlot(d))
        /\ IF Alive(t)
             THEN /\ wheel' = [wheel EXCEPT ![Pos(d)] = @ \cup {t}]
                  /\ left' = [left EXCEPT ![t] = d]
             ELSE UNCHANGED <<wheel, left>>
  /\ UNCHANGED <<curtick, timers, task, expirations, ticks, dropping, running,
                 canceledId>>

\* The entry and the task stay where they are until the slot is cleared.
CancelMutant(i) ==   \* forgets the flag and only erases the entry
  /\ MayCall
  /\ canceledId' = canceledId \cup {i}
  /\ timers' = [timers EXCEPT ![i] = NoTask]
  /\ UNCHANGED <<curtick, wheel, task, expirations, ticks, dropping, running,
                 undefined, left>>
TimerCancelInLoop(i) ==
  /\ MayCall
  /\ canceledId' = canceledId \cup {i}
  /\ task' = IF timers[i] # NoTask /\ Alive(timers[i])
               THEN [task EXCEPT ![timers[i]].canceled = TRUE]
               ELSE task
  /\ UNCHANGED <<curtick, wheel, timers, expirations, ticks, dropping, running,
                 undefined, left>>

-----------------------------------------------------------------------------
(* The clock: the timerfd, and the read callback of its channel.            *)

\* The kernel: one more second has passed since the last read.
Expire ==
  /\ ~ undefined
  /\ expirations < MaxExpirations
  /\ expirations' = expirations + 1
  /\ UNCHANGED <<curtick, wheel, timers, task, ticks, dropping, running,
                 undefined, left, canceledId>>

\* A loop that was busy reads several expirations at once.
OnTimeMutant ==      \* one iteration too few
  /\ ~ undefined
  /\ ticks = 0 /\ dropping = {} /\ running = NoTask
  /\ expirations > 0
  /\ ticks' = expirations - 1
  /\ expirations' = 0
  /\ UNCHANGED <<curtick, wheel, timers, task, dropping, running, undefined,
                 left, canceledId>>
OnTime ==
  /\ ~ undefined
  /\ ticks = 0 /\ dropping = {} /\ running = NoTask
  /\ expirations > 0
  /\ ticks' = expirations
  /\ expirations' = 0
  /\ UNCHANGED <<curtick, wheel, timers, task, dropping, running, undefined,
                 left, canceledId>>

NextSlot == (curtick + 1) % Capacity

\* The hand moves, and clear() starts on the slot it reaches.
RunTimerTaskMutant ==   \* clears before it moves
  /\ ~ undefined
  /\ ticks > 0 /\ dropping = {} /\ running = NoTask
  /\ ticks' = ticks - 1
  /\ curtick' = NextSlot
  /\ dropping' = wheel[curtick]
  /\ wheel' = [wheel EXCEPT ![curtick] = {}]
  /\ left' = [t \in Tasks |-> IF Alive(t) THEN left[t] - 1 ELSE left[t]]
  /\ UNCHANGED <<timers, task, expirations, running, undefined, canceledId>>
RunTimerTask ==
  /\ ~ undefined
  /\ ticks > 0 /\ dropping = {} /\ running = NoTask
  /\ ticks' = ticks - 1
  /\ curtick' = NextSlot
  /\ dropping' = wheel[NextSlot]
  /\ wheel' = [wheel EXCEPT ![NextSlot] = {}]
  /\ left' = [t \in Tasks |-> IF Alive(t) THEN left[t] - 1 ELSE left[t]]
  /\ UNCHANGED <<timers, task, expirations, running, undefined, canceledId>>

InWheel(t) == \E p \in Slots : t \in wheel[p]

\* clear() destroys one shared_ptr, which is not the last one of its task.
DropReference(t) ==
  /\ ~ undefined
  /\ running = NoTask /\ t \in dropping
  /\ InWheel(t)
  /\ dropping' = dropping \ {t}
  /\ UNCHANGED <<curtick, wheel, timers, task, expirations, ticks, running,
                 undefined, left, canceledId>>

\* It is the last one: ~TimerTask() starts its callback ...
DestroyTask(t) ==
  /\ ~ undefined
  /\ running = NoTask /\ t \in dropping
  /\ ~ InWheel(t)
  /\ ~ task[t].canceled
  /\ dropping' = dropping \ {t}
  /\ running' = t
  /\ UNCHANGED <<curtick, wheel, timers, task, expirations, ticks, undefined,
                 left, canceledId>>

\* _release: whatever task the id names now, its entry goes.
RemoveTimerMutant(i) == UNCHANGED timers
RemoveTimer(i) == timers' = [timers EXCEPT ![i] = NoTask]

\* ... or, if it was cancelled, only the release.
DestroyCanceledTask(t) ==
  /\ ~ undefined
  /\ running = NoTask /\ t \in dropping
  /\ ~ InWheel(t)
  /\ task[t].canceled
  /\ dropping' = dropping \ {t}
  /\ RemoveTimer(task[t].id)
  /\ UNCHANGED <<curtick, wheel, task, expirations, ticks, running, undefined,
                 left, canceledId>>

CallbackReturns ==
  /\ ~ undefined
  /\ running # NoTask
  /\ running' = NoTask
  /\ RemoveTimer(task[running].id)
  /\ UNCHANGED <<curtick, wheel, task, expirations, ticks, dropping, undefined,
                 left, canceledId>>

Next ==
  \/ \E i \in Ids : \/ \E d \in Delays : TimerAddInLoop(i, d)
                    \/ TimerRefreshInLoop(i)
                    \/ TimerCancelInLoop(i)
  \/ Expire
  \/ OnTime
  \/ RunTimerTask
  \/ \E t \in Tasks : DropReference(t) \/ DestroyTask(t) \/ DestroyCanceledTask(t)
  \/ CallbackReturns

Spec == Init /\ [][Next]_vars

\* The loop keeps polling, and an expired timerfd is reported and handled;
\* callbacks return.  Seconds pass.
FairSpec ==
  /\ Spec
  /\ WF_vars(Expire) /\ WF_vars(OnTime) /\ WF_vars(RunTimerTask)
  /\ WF_vars(\E t \in Tasks : DropReference(t) \/ DestroyTask(t)
                              \/ DestroyCanceledTask(t))
  /\ WF_vars(CallbackReturns)

-----------------------------------------------------------------------------
(* Properties.                                                              *)

\* Every variable has its type, and a task that is being destroyed has no
\* reference left.
TypeOK ==
  /\ curtick \in Slots
  /\ wheel \in [Slots -> SUBSET Tasks]
  /\ timers \in [Ids -> Tasks \cup {NoTask}]
  /\ task \in [Tasks -> TaskRecord]
  /\ expirations \in Nat /\ ticks \in Nat
  /\ dropping \in SUBSET Tasks
  /\ running \in Tasks \cup {NoTask}
  /\ undefined \in BOOLEAN
  /\ left \in [Tasks -> 0 .. Capacity]
  /\ canceledId \in SUBSET Ids

\* The ticks until the hand reaches slot p.
Distance(p) == IF p > curtick THEN p - curtick ELSE p + Capacity - curtick

\* The wheel keeps time: however often a task was refreshed, and so however
\* many slots refer to it, one of its references is where its last deadline
\* says, and none is beyond (RunTimerTask and TimerRefreshInLoop together).
\* A task that has used up its time is in the slot being cleared.
ReferencesMatchDeadline ==
  \A t \in Tasks :
     /\ Alive(t) => IF left[t] = 0 THEN t \in dropping ELSE t \in wheel[Pos(left[t])]
     /\ \A p \in Slots : t \in wheel[p] => Distance(p) <= left[t]

\* A callback runs exactly when the time since the add or the last refresh
\* is up, never early (a stale reference) and never late.
FiresOnDeadline == running # NoTask => left[running] = 0

\* As long as no callback adds its own id again, _timers and the wheel agree:
\* the id of every task in the wheel names that task, so it can be refreshed and
\* cancelled, and an id names only tasks of its own that are alive, or in their
\* destructor (TimerAddInLoop against RemoveTimer).
IdNamesItsTask ==
  ~ Repeating =>
    /\ \A t \in Tasks : Alive(t) \/ t = running => timers[task[t].id] = t
    /\ \A i \in Ids : timers[i] # NoTask =>
         /\ Alive(timers[i]) \/ timers[i] = running
         /\ task[timers[i]].id = i

\* "TimerCancel prevents callback" (test/server_test/eventlooptest.cpp): no
\* callback starts for an id that was cancelled and not added again.
CancelPreventsCallback ==
  [][running' # running /\ running' # NoTask
       => task[running'].id \notin canceledId]_vars

\* No null pointer is followed and no slot is changed while it is being cleared
\* (RunTimerTask, TimerRefreshInLoop), if callbacks are careful: without
\* CarefulCallbacks the code does not keep this.
NoUndefinedBehaviour == ~ undefined

\* A task in the wheel does not stay there for ever, unless it is refreshed
\* for ever: if from some point on nobody refreshes it, it is destroyed.
EveryTaskEnds ==
  \A t \in Tasks :
     (<>[][left'[t] <= left[t]]_vars) => []<>(~ Alive(t))

\* What the service promises, without the wheel.
Abstract == INSTANCE Timers WITH pending <- {t \in Tasks : Alive(t)}
ImplementsTimers == Abstract!Spec
=============================================================================
