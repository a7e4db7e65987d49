---------------------------- MODULE LoopThreads ----------------------------
(***************************************************************************)
(* LoopThread and LoopThreadPool of source/EventLoop.hpp: Start() of the   *)
(* server makes the threads of the pool one after the other.  Each thread  *)
(* makes its EventLoop on its own stack and hands out the address, under   *)
(* the mutex and the condition variable of its LoopThread.                 *)
(***************************************************************************)
EXTENDS Naturals

CONSTANTS ThreadCount    \* _thread_count

VARIABLES
  thread,    \* per thread: "none", "started", "made" (its EventLoop), "locked"
             \* (the mutex), "published" (_loop is set), "looping"
  main,      \* "creating", "locked", "asleep", "woken", "started"
  index,     \* i of Create
  loops      \* _loops of the pool: the threads whose loops they are, or Null

vars == <<thread, main, index, loops>>

Threads == 1 .. ThreadCount
Null == 0

Init ==
  /\ thread = [t \in Threads |-> "none"]
  /\ main = "creating" /\ index = 1
  /\ loops = [t \in Threads |-> Null]

-----------------------------------------------------------------------------
(* The thread that calls TcpServer::Start().                                *)

Published(t) == thread[t] \in {"published", "looping"}
MutexIsFree(t) == thread[t] # "locked"

\* "new LoopThread()", which starts the thread, and the mutex of GetEventLoop.
CreateThread ==
  /\ main = "creating" /\ index <= ThreadCount
  /\ thread[index] = "none"
  /\ thread' = [thread EXCEPT ![index] = "started"]
  /\ UNCHANGED <<main, index, loops>>

Lock ==
  /\ \/ main = "creating" /\ index <= ThreadCount /\ thread[index] # "none"
     \/ main = "woken"
  /\ MutexIsFree(index)
  /\ main' = "locked"
  /\ UNCHANGED <<thread, index, loops>>

\* The predicate of _cond.wait holds: "_loops[i] = _threads[i]->GetEventLoop()".
GetEventLoopMutant ==        \* wait without a predicate: awake is enough
  /\ main = "woken" \/ (main = "locked" /\ Published(index))
  /\ loops' = [loops EXCEPT ![index] = index]
  /\ index' = index + 1
  /\ main' = "creating"
  /\ UNCHANGED thread
GetEventLoop ==
  /\ main = "locked" /\ Published(index)
  /\ loops' = [loops EXCEPT ![index] = index]
  /\ index' = index + 1
  /\ main' = "creating"
  /\ UNCHANGED thread

\* It does not: sleep, letting go of the mutex.
Wait ==
  /\ main = "locked" /\ ~ Published(index)
  /\ main' = "asleep"
  /\ UNCHANGED <<thread, index, loops>>

SpuriousWakeup ==
  /\ main = "asleep"
  /\ main' = "woken"
  /\ UNCHANGED <<thread, index, loops>>

\* "_baseloop.Start()": from here on connections are given to the loops.
StartBaseLoop ==
  /\ main = "creating" /\ index > ThreadCount
  /\ main' = "started"
  /\ UNCHANGED <<thread, index, loops>>

-----------------------------------------------------------------------------
(* ThreadEntry.                                                             *)

MakeLoop(t) ==
  /\ thread[t] = "started"
  /\ thread' = [thread EXCEPT ![t] = "made"]
  /\ UNCHANGED <<main, index, loops>>

LockLoop(t) ==
  /\ thread[t] = "made"
  /\ ~ (main = "locked" /\ index = t)
  /\ thread' = [thread EXCEPT ![t] = "locked"]
  /\ UNCHANGED <<main, index, loops>>

\* "_loop = &loop; _cond.notify_all();"
Publish(t) ==
  /\ thread[t] = "locked"
  /\ thread' = [thread EXCEPT ![t] = "published"]
  /\ main' = IF main = "asleep" /\ index = t THEN "woken" ELSE main
  /\ UNCHANGED <<index, loops>>

StartLoop(t) ==
  /\ thread[t] = "published"
  /\ thread' = [thread EXCEPT ![t] = "looping"]
  /\ UNCHANGED <<main, index, loops>>

Main == CreateThread \/ Lock \/ GetEventLoop \/ Wait \/ StartBaseLoop
Pool(t) == MakeLoop(t) \/ LockLoop(t) \/ Publish(t) \/ StartLoop(t)

Next == Main \/ SpuriousWakeup \/ \E t \in Threads : Pool(t)

Spec == Init /\ [][Next]_vars

-----------------------------------------------------------------------------
(* Properties.                                                              *)

\* What the pool hands out is there: a loop in _loops has been made by its own
\* thread, and when the base loop accepts connections none is missing.
LoopsAreThere ==
  /\ \A t \in Threads : loops[t] # Null => Published(t)
  /\ main = "started" => \A t \in Threads : loops[t] = t

\* No wake-up is lost between the predicate and the sleep: the server does not
\* sleep on a loop that is there, so it starts.
NoSleepOnALoop == main = "asleep" => ~ Published(index)
=============================================================================
