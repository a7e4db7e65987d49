--------------------------- MODULE EventLoopProofs ---------------------------
(***************************************************************************)
(* For any number of threads, tasks and channels: the event loop loses no  *)
(* wake-up, and its two vectors of tasks are one FIFO queue.  Proofs about *)
(* EventLoop.tla.                                                          *)
(***************************************************************************)
EXTENDS EventLoop, TLAPS

\* Every variable of the loop keeps its type.
THEOREM TypeCorrect == Spec => []TypeOK
<1> USE LoopAssumption DEF TypeOK
<1>1. Init => TypeOK
  BY DEF Init
<1>2. TypeOK /\ [Next]_vars => TypeOK'
  <2> SUFFICES ASSUME TypeOK, [Next]_vars PROVE TypeOK'
    OBVIOUS
  <2>1. ASSUME NEW t \in Threads \cup {Loop}, NEW f \in Functors, PushTask(t, f)
        PROVE  TypeOK'
    BY <2>1 DEF PushTask
  <2>2. ASSUME NEW t \in Threads \cup {Loop}, WakeUpEventfd(t) PROVE TypeOK'
    BY <2>2 DEF WakeUpEventfd
  <2>3. ASSUME NEW f \in Functors, RunInLoopInline(f) PROVE TypeOK'
    BY <2>3 DEF RunInLoopInline
  <2>4. ASSUME NEW c \in Channels, BecomeReady(c) PROVE TypeOK'
    BY <2>4 DEF BecomeReady
  <2>5. CASE PollInterrupted
    BY <2>5 DEF PollInterrupted
  <2>6. CASE Poll
    BY <2>6 DEF Poll, Reported
  <2>7. CASE ReadEventfd
    BY <2>7 DEF ReadEventfd
  <2>8. ASSUME NEW c \in Channels, HandleEvent(c) PROVE TypeOK'
    BY <2>8 DEF HandleEvent
  <2>9. CASE SwapTasks
    BY <2>9 DEF SwapTasks
  <2>10. CASE RunTask
    <3>1. Head(func) \in Functors /\ Tail(func) \in Seq(Functors)
      BY <2>10 DEF RunTask
    <3> QED BY <2>10, <3>1 DEF RunTask
  <2>11. CASE Return
    BY <2>11 DEF Return
  <2>12. CASE NextTurn
    BY <2>12 DEF NextTurn
  <2>13. CASE UNCHANGED vars
    BY <2>13 DEF vars
  <2> QED
    BY <2>1, <2>2, <2>3, <2>4, <2>5, <2>6, <2>7, <2>8, <2>9, <2>10, <2>11, <2>12, <2>13
    DEF Next, LoopStep
<1> QED BY <1>1, <1>2, PTL DEF Spec

\* While a task waits the loop cannot be stuck in epoll_wait, whatever the
\* order in which threads push and write (PushQueueInLoop, ReadEventfd,
\* RunAllTask).
THEOREM NoWakeupIsLost == Spec => []NoLostWakeup
<1>1. Init => NoLostWakeup
  BY DEF Init, NoLostWakeup
<1>2. TypeOK /\ NoLostWakeup /\ [Next]_vars => NoLostWakeup'
  <2> SUFFICES ASSUME TypeOK, NoLostWakeup, [Next]_vars PROVE NoLostWakeup'
    OBVIOUS
  <2> USE DEF NoLostWakeup
  <2>1. ASSUME NEW t \in Threads \cup {Loop}, NEW f \in Functors, PushTask(t, f)
        PROVE  NoLostWakeup'
    BY <2>1 DEF PushTask
  <2>2. ASSUME NEW t \in Threads \cup {Loop}, WakeUpEventfd(t) PROVE NoLostWakeup'
    <3>1. eventfd' > 0 BY <2>2 DEF WakeUpEventfd, TypeOK
    <3> QED BY <3>1
  <2>3. ASSUME NEW f \in Functors, RunInLoopInline(f) PROVE NoLostWakeup'
    BY <2>3 DEF RunInLoopInline
  <2>4. ASSUME NEW c \in Channels, BecomeReady(c) PROVE NoLostWakeup'
    BY <2>4 DEF BecomeReady
  <2>5. CASE Poll \/ PollInterrupted
    BY <2>5 DEF Poll, PollInterrupted
  <2>6. CASE ReadEventfd
    BY <2>6 DEF ReadEventfd
  <2>7. ASSUME NEW c \in Channels, HandleEvent(c) PROVE NoLostWakeup'
    BY <2>7 DEF HandleEvent
  <2>8. CASE SwapTasks
    BY <2>8 DEF SwapTasks
  <2>9. CASE RunTask \/ Return \/ NextTurn
    BY <2>9 DEF RunTask, Return, NextTurn
  <2>10. CASE UNCHANGED vars
    BY <2>10 DEF vars
  <2> QED
    BY <2>1, <2>2, <2>3, <2>4, <2>5, <2>6, <2>7, <2>8, <2>9, <2>10 DEF Next, LoopStep
<1> QED BY <1>1, <1>2, TypeCorrect, PTL DEF Spec

\* RunAllTask runs all it has taken (SwapTasks, NextTurn).
THEOREM NoTaskIsDropped == Spec => []NoTaskDropped
<1>1. Init => NoTaskDropped
  BY DEF Init, NoTaskDropped
<1>2. NoTaskDropped /\ [Next]_vars => NoTaskDropped'
  BY DEF NoTaskDropped, Next, LoopStep, vars, PushTask, WakeUpEventfd, RunInLoopInline,
         BecomeReady, Poll, PollInterrupted, ReadEventfd, HandleEvent, SwapTasks,
         RunTask, Return, NextTurn
<1> QED BY <1>1, <1>2, PTL DEF Spec

-----------------------------------------------------------------------------
(* Refinement: the loop is a FIFO task queue.                               *)

\* A functor is in the concatenation of two sequences iff it is in one.
LEMMA InConcat ==
  ASSUME NEW a \in Seq(Functors), NEW b \in Seq(Functors), NEW f,
         ~ In(f, a), ~ In(f, b)
  PROVE  \A k \in 1 .. Len(a \o b) : (a \o b)[k] # f
  <1> SUFFICES ASSUME NEW k \in 1 .. Len(a \o b) PROVE (a \o b)[k] # f
    OBVIOUS
  <1>1. Len(a \o b) = Len(a) + Len(b) /\ Len(a) \in Nat /\ Len(b) \in Nat
    OBVIOUS
  <1>2. CASE k <= Len(a)
    <2>1. k \in 1 .. Len(a) /\ (a \o b)[k] = a[k] BY <1>1, <1>2
    <2> QED BY <2>1 DEF In
  <1>3. CASE k > Len(a)
    <2>1. k - Len(a) \in 1 .. Len(b) /\ (a \o b)[k] = b[k - Len(a)] BY <1>1, <1>3
    <2> QED BY <2>1 DEF In
  <1> QED BY <1>1, <1>2, <1>3

\* A push at the back of the second sequence is one at the back of both.
LEMMA ConcatAppend ==
  ASSUME NEW a \in Seq(Functors), NEW b \in Seq(Functors), NEW f \in Functors
  PROVE  a \o Append(b, f) = Append(a \o b, f)
  BY SMT

\* The front of the first sequence is the front of both.
LEMMA ConcatHeadTail ==
  ASSUME NEW a \in Seq(Functors), NEW b \in Seq(Functors), a # <<>>
  PROVE  /\ a \o b # <<>>
         /\ Head(a \o b) = Head(a)
         /\ Tail(a \o b) = Tail(a) \o b
  BY SMT

\* One step per action: pushes, starts, returns, and all the others are
\* invisible in the queue.
LEMMA StepRefines ==
  ASSUME LoopAssumption, TypeOK, NoTaskDropped, [Next]_vars
  PROVE  [Abstract!Next]_(Abstract!vars)
<1> USE DEF TypeOK
<1>0. Idle \notin Functors BY DEF LoopAssumption
<1>1. ASSUME NEW t \in Threads \cup {Loop}, NEW f \in Functors, PushTask(t, f)
      PROVE  Abstract!Post(f)
  <2>1. ~ In(f, tasks) /\ ~ In(f, func) /\ f # current
    BY <1>1 DEF PushTask, Pending
  <2>2. f \notin Abstract!Queued
    BY <2>1, InConcat DEF Abstract!Queued
  <2>3. f # TaskOf(current) BY <1>0, <2>1 DEF TaskOf
  <2>4. (func \o tasks)' = Append(func \o tasks, f)
    BY <1>1, ConcatAppend DEF PushTask
  <2>5. UNCHANGED <<TaskOf(current), inlined>> BY <1>1 DEF PushTask, TaskOf
  <2> QED BY <2>2, <2>3, <2>4, <2>5 DEF Abstract!Post
<1>2. ASSUME NEW f \in Functors, RunInLoopInline(f) PROVE Abstract!RunInline(f)
  <2>1. ~ In(f, tasks) /\ ~ In(f, func)
    BY <1>2 DEF RunInLoopInline, Pending
  <2>2. f \notin Abstract!Queued
    BY <2>1, InConcat DEF Abstract!Queued
  <2> QED BY <1>2, <2>2 DEF RunInLoopInline, Abstract!RunInline, TaskOf
<1>3. ASSUME NEW c \in Channels, HandleEvent(c) PROVE [Abstract!Next]_(Abstract!vars)
  <2>1. current = Idle /\ current' = c BY <1>3 DEF HandleEvent
  <2>2. UNCHANGED <<func \o tasks, inlined>> BY <1>3 DEF HandleEvent
  <2>3. TaskOf(current) = Idle /\ TaskOf(current)' = Idle
    BY <1>0, <2>1, LoopAssumption DEF TaskOf
  <2> QED BY <2>2, <2>3 DEF Abstract!vars
<1>4. CASE SwapTasks
  <2>1. func = <<>> BY <1>4 DEF SwapTasks, NoTaskDropped
  <2>2. (func \o tasks)' = func \o tasks
    BY <1>4, <2>1 DEF SwapTasks
  <2>3. UNCHANGED <<TaskOf(current), inlined>> BY <1>4 DEF SwapTasks, TaskOf
  <2> QED BY <2>2, <2>3 DEF Abstract!vars
<1>5. CASE RunTask
  <2>1. func # <<>> /\ current = Idle /\ current' = Head(func) /\ func' = Tail(func)
        /\ UNCHANGED <<tasks, inlined>>
    BY <1>5 DEF RunTask
  <2>2. Head(func) \in Functors BY <2>1
  <2>3. /\ func \o tasks # <<>>
        /\ Head(func \o tasks) = Head(func)
        /\ Tail(func \o tasks) = Tail(func) \o tasks
    BY <2>1, ConcatHeadTail
  <2>4. TaskOf(current) = Idle /\ TaskOf(current)' = Head(func)
    BY <1>0, <2>1, <2>2 DEF TaskOf
  <2> QED BY <2>1, <2>3, <2>4 DEF Abstract!Start, Abstract!Next
<1>6. CASE Return
  <2>1. TaskOf(current)' = Idle BY <1>0, <1>6 DEF Return, TaskOf
  <2>2. UNCHANGED <<func \o tasks, inlined>> BY <1>6 DEF Return
  <2> QED BY <2>1, <2>2 DEF Abstract!Finish, Abstract!Next
<1>7. ASSUME UNCHANGED <<func, tasks, current, inlined>>
      PROVE  UNCHANGED Abstract!vars
  BY <1>7 DEF Abstract!vars, TaskOf
<1>8. ASSUME NEW t \in Threads \cup {Loop}, WakeUpEventfd(t)
      PROVE  UNCHANGED Abstract!vars
  BY <1>7, <1>8 DEF WakeUpEventfd
<1>9. ASSUME NEW c \in Channels, BecomeReady(c) PROVE UNCHANGED Abstract!vars
  BY <1>7, <1>9 DEF BecomeReady
<1>10. CASE Poll \/ PollInterrupted \/ ReadEventfd \/ NextTurn \/ UNCHANGED vars
  BY <1>7, <1>10 DEF Poll, PollInterrupted, ReadEventfd, NextTurn, vars
<1> QED
  BY <1>1, <1>2, <1>3, <1>4, <1>5, <1>6, <1>8, <1>9, <1>10
  DEF Next, LoopStep, Abstract!Next

\* What is posted to the loop is run in the order it was posted, each posting
\* once (PushQueueInLoop, RunAllTask).
THEOREM LoopImplementsTaskQueue == Spec => ImplementsTaskQueue
<1>1. Init => Abstract!Init
  <2> SUFFICES ASSUME Init PROVE Abstract!Init
    OBVIOUS
  <2>1. func \o tasks = <<>> BY DEF Init
  <2>2. TaskOf(current) = Idle BY LoopAssumption DEF Init, TaskOf
  <2> QED BY <2>1, <2>2 DEF Init, Abstract!Init
<1>2. TypeOK /\ NoTaskDropped /\ [Next]_vars => [Abstract!Next]_(Abstract!vars)
  BY StepRefines, LoopAssumption
<1> QED
  BY <1>1, <1>2, TypeCorrect, NoTaskIsDropped, PTL
  DEF Spec, ImplementsTaskQueue, Abstract!Spec
=============================================================================
