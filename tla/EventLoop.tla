------------------------------ MODULE EventLoop ------------------------------
(***************************************************************************)
(* source/EventLoop.hpp with source/Poller.hpp: one loop thread, which     *)
(* polls, handles the reported channels and then runs the tasks posted to  *)
(* it, and any number of other threads that post tasks.  A posting thread  *)
(* appends under the mutex, and writes to the eventfd AFTER it has         *)
(* released it.                                                            *)
(***************************************************************************)
EXTENDS Naturals, Sequences

CONSTANTS Loop,      \* the loop's thread
          Threads,   \* the other threads
          Functors,  \* what is posted; each again only when it has run
          Channels,  \* the descriptors watched besides the eventfd
          EventFd,   \* _event_channel
          Idle       \* no handler and no task is being run

ASSUME LoopAssumption ==
  /\ Loop \notin Threads
  /\ EventFd \notin Channels
  /\ Idle \notin Functors \cup Channels
  /\ Functors \cap Channels = {}

VARIABLES
  phase,     \* where Start() is: "poll", "handle" or "run"
  actives,   \* reported by epoll_wait, not handled yet
  current,   \* the channel or task whose code the loop's thread is in
  tasks,     \* _tasks
  func,      \* the vector RunAllTask swapped the tasks into
  eventfd,   \* the eventfd's counter
  waking,    \* threads between their push and their write
  ready,     \* channels with something to read
  inlined    \* the last functor RunInLoop ran on the spot

vars == <<phase, actives, current, tasks, func, eventfd, waking, ready, inlined>>

In(f, s) == \E k \in 1 .. Len(s) : s[k] = f
Pending(f) == In(f, tasks) \/ In(f, func) \/ f = current

Init ==
  /\ phase = "poll"
  /\ actives = {} /\ current = Idle
  /\ tasks = <<>> /\ func = <<>>
  /\ eventfd = 0
  /\ waking = {}
  /\ ready = {}
  /\ inlined = Idle

-----------------------------------------------------------------------------
(* Any thread.  The loop's thread makes calls while it is in a handler or   *)
(* in a task.                                                               *)

MayCall(t) == t \notin waking /\ (t = Loop => current # Idle)

\* PushQueueInLoop, and RunInLoop of another thread: the push ...
PushTaskMutant(t, f) ==      \* the loop's thread does not wake itself
  /\ MayCall(t)
  /\ ~ Pending(f)
  /\ tasks' = Append(tasks, f)
  /\ waking' = IF t = Loop THEN waking ELSE waking \cup {t}
  /\ UNCHANGED <<phase, actives, current, func, eventfd, ready, inlined>>
PushTask(t, f) ==
  /\ MayCall(t)
  /\ ~ Pending(f)
  /\ tasks' = Append(tasks, f)
  /\ waking' = waking \cup {t}
  /\ UNCHANGED <<phase, actives, current, func, eventfd, ready, inlined>>

\* ... and the write that follows it.
WakeUpEventfd(t) ==
  /\ t \in waking
  /\ waking' = waking \ {t}
  /\ eventfd' = eventfd + 1
  /\ UNCHANGED <<phase, actives, current, tasks, func, ready, inlined>>

\* RunInLoop in the loop's thread calls the functor there and then, whatever
\* is queued.
RunInLoopInline(f) ==
  /\ MayCall(Loop)
  /\ ~ Pending(f)
  /\ inlined' = f
  /\ UNCHANGED <<phase, actives, current, tasks, func, eventfd, waking, ready>>

\* The outside world.
BecomeReady(c) ==
  /\ c \notin ready
  /\ ready' = ready \cup {c}
  /\ UNCHANGED <<phase, actives, current, tasks, func, eventfd, waking, inlined>>

-----------------------------------------------------------------------------
(* Start(): the loop's thread.                                              *)

\* epoll_wait blocks until something is ready, and reports all of it; a
\* signal that comes while it waits makes Poll return with no channel.
Reported == ready \cup (IF eventfd > 0 THEN {EventFd} ELSE {})
PollMutant ==                \* wake-ups first, channels when there are none
  /\ phase = "poll"
  /\ Reported # {}
  /\ actives' = IF EventFd \in Reported THEN {EventFd} ELSE Reported
  /\ phase' = "handle"
  /\ UNCHANGED <<current, tasks, func, eventfd, waking, ready, inlined>>
Poll ==
  /\ phase = "poll"
  /\ Reported # {}
  /\ actives' = Reported
  /\ phase' = "handle"
  /\ UNCHANGED <<current, tasks, func, eventfd, waking, ready, inlined>>

PollInterrupted ==
  /\ phase = "poll"
  /\ Reported = {}
  /\ phase' = "handle"
  /\ UNCHANGED <<actives, current, tasks, func, eventfd, waking, ready, inlined>>

\* Reading the eventfd takes its whole count.
ReadEventfd ==
  /\ phase = "handle" /\ current = Idle
  /\ EventFd \in actives
  /\ actives' = actives \ {EventFd}
  /\ eventfd' = 0
  /\ UNCHANGED <<phase, current, tasks, func, waking, ready, inlined>>

HandleEvent(c) ==
  /\ phase = "handle" /\ current = Idle
  /\ c \in actives
  /\ actives' = actives \ {c}
  /\ ready' = ready \ {c}
  /\ current' = c
  /\ UNCHANGED <<phase, tasks, func, eventfd, waking, inlined>>

\* RunAllTask takes all the tasks at once, under the mutex.
SwapTasks ==
  /\ phase = "handle" /\ current = Idle /\ actives = {}
  /\ func' = tasks
  /\ tasks' = <<>>
  /\ phase' = "run"
  /\ UNCHANGED <<actives, current, eventfd, waking, ready, inlined>>

RunTaskMutant ==             \* takes from the back
  /\ phase = "run" /\ current = Idle
  /\ func # <<>>
  /\ current' = func[Len(func)]
  /\ func' = SubSeq(func, 1, Len(func) - 1)
  /\ UNCHANGED <<phase, actives, tasks, eventfd, waking, ready, inlined>>
RunTask ==
  /\ phase = "run" /\ current = Idle
  /\ func # <<>>
  /\ current' = Head(func)
  /\ func' = Tail(func)
  /\ UNCHANGED <<phase, actives, tasks, eventfd, waking, ready, inlined>>

\* A handler or a task returns.
Return ==
  /\ current # Idle /\ Loop \notin waking
  /\ current' = Idle
  /\ UNCHANGED <<phase, actives, tasks, func, eventfd, waking, ready, inlined>>

\* Tasks that were posted while tasks were run wait for the next turn.
NextTurn ==
  /\ phase = "run" /\ current = Idle /\ func = <<>>
  /\ phase' = "poll"
  /\ UNCHANGED <<actives, current, tasks, func, eventfd, waking, ready, inlined>>

LoopStep == \/ Poll \/ ReadEventfd \/ SwapTasks \/ RunTask \/ Return \/ NextTurn
            \/ \E c \in Channels : HandleEvent(c)

Next ==
  \/ \E t \in Threads \cup {Loop} :
        \/ \E f \in Functors : PushTask(t, f)
        \/ WakeUpEventfd(t)
  \/ \E f \in Functors : RunInLoopInline(f)
  \/ \E c \in Channels : BecomeReady(c)
  \/ PollInterrupted
  \/ LoopStep

Spec == Init /\ [][Next]_vars

\* The scheduler runs every thread that can run: the loop's thread goes on
\* unless epoll_wait blocks it, handlers and tasks return, and a thread that
\* has pushed gets to its write.
FairSpec ==
  /\ Spec
  /\ WF_vars(LoopStep)
  /\ \A t \in Threads \cup {Loop} : WF_vars(WakeUpEventfd(t))

-----------------------------------------------------------------------------
(* Properties.                                                              *)

\* Every variable has its type.
TypeOK ==
  /\ phase \in {"poll", "handle", "run"}
  /\ actives \in SUBSET (Channels \cup {EventFd})
  /\ current \in Functors \cup Channels \cup {Idle}
  /\ tasks \in Seq(Functors) /\ func \in Seq(Functors)
  /\ eventfd \in Nat
  /\ waking \in SUBSET (Threads \cup {Loop})
  /\ ready \in SUBSET Channels
  /\ inlined \in Functors \cup {Idle}

\* No wake-up is lost: while a task waits, the loop cannot be stuck in
\* epoll_wait.  The eventfd is readable, or the thread that pushed has yet to
\* write, or the loop is on its way from the poll to the swap
\* (PushQueueInLoop against ReadEventfd and RunAllTask).
NoLostWakeup ==
  tasks # <<>> => eventfd > 0 \/ waking # {} \/ phase = "handle"

\* Between the poll and the poll all tasks of the swap are run: nothing is
\* left over in the vector that RunAllTask destroys when it returns.
NoTaskDropped == phase # "run" => func = <<>>

\* Every task that is posted gets run, though other threads and the tasks
\* themselves go on posting.
EveryTaskRuns == \A f \in Functors : In(f, tasks) ~> current = f

\* Every ready channel gets handled, though tasks may post tasks for ever.
EveryChannelIsHandled == \A c \in Channels : c \in ready ~> current = c

\* Tasks are run in the order they were posted, each posting once; handlers
\* are no tasks.
TaskOf(x) == IF x \in Functors THEN x ELSE Idle
Abstract == INSTANCE TaskQueue WITH queue <- func \o tasks, current <- TaskOf(current)
ImplementsTaskQueue == Abstract!Spec
=============================================================================
