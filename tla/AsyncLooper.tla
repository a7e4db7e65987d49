---------------------------- MODULE AsyncLooper ----------------------------
(***************************************************************************)
(* log/Looper.hpp: the worker of an asynchronous logger.  Threads push     *)
(* messages into one buffer under a mutex, the worker swaps it with a      *)
(* second one and writes that to the sinks, Stop() makes the worker drain  *)
(* and exit.  What a thread does while it holds the mutex is one step,     *)
(* except in the worker: Stop() changes _isrunning and notifies without    *)
(* the mutex, so the worker's look at the condition and its falling asleep *)
(* are separate.                                                           *)
(***************************************************************************)
EXTENDS Naturals, Sequences, SequencesExt

CONSTANTS
  Producers,    \* threads that log
  Lines,        \* what they push: texts
  Capacity,     \* DEFAULT_BUFFER_SIZE
  Safe,         \* ASYNC_SAFE: wait while there is no room; else grow
  MaxMessages   \* bound: messages pushed

ASSUME LooperAssumption ==
  /\ <<>> \notin Lines       \* which would change nothing
  /\ Capacity \in Nat /\ Safe \in BOOLEAN
  /\ MaxMessages \in Nat

VARIABLES
  running,   \* _isrunning
  pro,       \* _pro_buffer: the messages in it
  con,       \* _con_buffer
  worker,    \* where the worker is
  asking,    \* the line a producer is pushing, <<>>: none
  blocked,   \* producers asleep in _cond_pro
  stop,      \* where Stop() is
  accepted,  \* history: messages pushed, in the order of the pushes
  written    \* history: messages handed to the sinks

vars == <<running, pro, con, worker, asking, blocked, stop, accepted, written>>

Messages == [from : Producers, line : Lines]
\* "top" of the loop, "checked" that it is not to exit, "blocking" in
\* _cond_con.wait but not asleep yet, asleep, "woken", at "work" on _con_buffer.
Places == {"top", "checked", "blocking", "asleep", "woken", "work", "done"}
MutexIsFree == worker \notin {"checked", "blocking"}

Init ==
  /\ running = TRUE
  /\ pro = <<>> /\ con = <<>>
  /\ worker = "top"
  /\ asking = [p \in Producers |-> <<>>] /\ blocked = {}
  /\ stop = "no"
  /\ accepted = <<>> /\ written = <<>>

-----------------------------------------------------------------------------

\* AsyncBuffer::WriteableSize, of a buffer that holds the messages in b.
WriteableSize(b) == LET used == FoldLeft(LAMBDA n, m : n + Len(m.line), 0, b)
                    IN IF used >= Capacity THEN 0 ELSE Capacity - used

\* notify_one on _cond_con.
Notified(w) == IF w = "asleep" THEN "woken" ELSE w

\* A thread calls Push.  The logger is not destroyed while it is in use.
CallPush(p, line) ==
  /\ asking[p] = <<>> /\ stop = "no"
  /\ Len(accepted) < MaxMessages
  /\ asking' = [asking EXCEPT ![p] = line]
  /\ UNCHANGED <<running, pro, con, worker, blocked, stop, accepted, written>>

\* Without room it sleeps until the worker has taken the buffer away.
PushSilentMutant(p) ==
  /\ asking[p] # <<>> /\ p \notin blocked /\ MutexIsFree
  /\ IF Safe /\ WriteableSize(pro) < Len(asking[p])
       THEN blocked' = blocked \cup {p} /\ UNCHANGED <<pro, accepted, asking>>
       ELSE LET m == [from |-> p, line |-> asking[p]]
            IN /\ pro' = Append(pro, m) /\ accepted' = Append(accepted, m)
               /\ asking' = [asking EXCEPT ![p] = <<>>]
               /\ UNCHANGED blocked
  /\ UNCHANGED <<running, con, worker, stop, written>>
Push(p) ==
  /\ asking[p] # <<>> /\ p \notin blocked /\ MutexIsFree
  /\ IF Safe /\ WriteableSize(pro) < Len(asking[p])
       THEN blocked' = blocked \cup {p} /\ UNCHANGED <<pro, accepted, worker, asking>>
       ELSE LET m == [from |-> p, line |-> asking[p]]
            IN /\ pro' = Append(pro, m) /\ accepted' = Append(accepted, m)
               /\ worker' = Notified(worker)
               /\ asking' = [asking EXCEPT ![p] = <<>>]
               /\ UNCHANGED blocked
  /\ UNCHANGED <<running, con, stop, written>>

\* "if(!_isrunning && _pro_buffer.empty()) break"
CheckExitMutant ==
  /\ worker = "top"
  /\ worker' = IF running THEN "checked" ELSE "done"
  /\ UNCHANGED <<running, pro, con, asking, blocked, stop, accepted, written>>
CheckExit ==
  /\ worker = "top"
  /\ worker' = IF ~ running /\ pro = <<>> THEN "done" ELSE "checked"
  /\ UNCHANGED <<running, pro, con, asking, blocked, stop, accepted, written>>

\* The predicate of _cond_con.wait; then Swap, and the producers are woken.
TestForgetfulMutant ==
  /\ worker \in {"checked", "woken"}
  /\ IF ~ running \/ pro # <<>>
       THEN con' = pro /\ pro' = con /\ worker' = "work"
       ELSE worker' = "blocking" /\ UNCHANGED <<pro, con>>
  /\ UNCHANGED <<running, asking, blocked, stop, accepted, written>>
Test ==
  /\ worker \in {"checked", "woken"}
  /\ IF ~ running \/ pro # <<>>
       THEN /\ con' = pro /\ pro' = con
            /\ blocked' = IF Safe THEN {} ELSE blocked
            /\ worker' = "work"
       ELSE worker' = "blocking" /\ UNCHANGED <<pro, con, blocked>>
  /\ UNCHANGED <<running, asking, stop, accepted, written>>

FallAsleep ==
  /\ worker = "blocking"
  /\ worker' = "asleep"
  /\ UNCHANGED <<running, pro, con, asking, blocked, stop, accepted, written>>

\* _cb writes the buffer to the sinks; reset.
Write ==
  /\ worker = "work"
  /\ written' = written \o con
  /\ con' = <<>>
  /\ worker' = "top"
  /\ UNCHANGED <<running, pro, asking, blocked, stop, accepted>>

\* Condition variables may wake up for no reason.
SpuriousWakeup ==
  /\ \/ /\ worker = "asleep" /\ worker' = "woken" /\ UNCHANGED blocked
     \/ \E p \in blocked : blocked' = blocked \ {p} /\ UNCHANGED worker
  /\ UNCHANGED <<running, pro, con, asking, stop, accepted, written>>

-----------------------------------------------------------------------------
(* Stop(), in the destructor: no producer is left.                          *)

ClearRunning ==
  /\ stop = "no" /\ \A p \in Producers : asking[p] = <<>>
  /\ running' = FALSE
  /\ stop' = "notify"
  /\ UNCHANGED <<pro, con, worker, asking, blocked, accepted, written>>

NotifyAll ==
  /\ stop = "notify"
  /\ worker' = Notified(worker)
  /\ stop' = "join"
  /\ UNCHANGED <<running, pro, con, asking, blocked, accepted, written>>

Join ==
  /\ stop = "join" /\ worker = "done"
  /\ stop' = "stopped"
  /\ UNCHANGED <<running, pro, con, worker, asking, blocked, accepted, written>>

-----------------------------------------------------------------------------

Worker == CheckExit \/ Test \/ FallAsleep \/ Write
Stop == ClearRunning \/ NotifyAll \/ Join

Next ==
  \/ \E p \in Producers, line \in Lines : CallPush(p, line)
  \/ \E p \in Producers : Push(p)
  \/ Worker \/ SpuriousWakeup \/ Stop

Spec == Init /\ [][Next]_vars

\* The threads are scheduled; a producer that keeps finding the mutex free in
\* the end gets it; a Stop() that is under way goes on.
FairSpec ==
  /\ Spec
  /\ WF_vars(Worker) /\ \A p \in Producers : SF_vars(Push(p))
  /\ WF_vars(NotifyAll \/ Join)

-----------------------------------------------------------------------------
(* Properties.                                                              *)

\* Every variable has its type.
TypeOK ==
  /\ running \in BOOLEAN
  /\ pro \in Seq(Messages) /\ con \in Seq(Messages)
  /\ worker \in Places
  /\ asking \in [Producers -> Lines \cup {<<>>}]
  /\ blocked \subseteq {p \in Producers : asking[p] # <<>>}
  /\ stop \in {"no", "notify", "join", "stopped"}
  /\ accepted \in Seq(Messages) /\ written \in Seq(Messages)

\* No message is lost, written twice or overtaken, through every swap of the
\* two buffers (Push, ThreadEntry, AsyncBuffer::Swap and reset), and the worker
\* exits only when everything is written ("makes sure that the buffer of the
\* producers has no data before it exits").
NothingIsLost ==
  /\ written \o con \o pro = accepted
  /\ worker = "done" => written = accepted

\* "Woken before the exit": Stop() makes the worker exit, and returns.
StopReturns == stop = "notify" ~> stop = "stopped"
=============================================================================
