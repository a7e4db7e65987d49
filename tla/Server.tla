------------------------------- MODULE Server -------------------------------
(***************************************************************************)
(* The server as a whole: the threads of LoopThreads.tla, and on their     *)
(* loops and the base loop the connections of TcpServer.tla.  The base     *)
(* loop is the thread that calls Start(): it accepts when all loops are    *)
(* there.  A loop has its tasks before its thread has come to start it.    *)
(***************************************************************************)
EXTENDS TcpServer

VARIABLES thread, main, index, loops       \* see LoopThreads.tla

Pool == INSTANCE LoopThreads WITH ThreadCount <- PoolSize

startup == <<thread, main, index, loops>>
serverVars == <<vars, startup>>

ServerInit == Init /\ Pool!Init

Runs(l) == IF l = Base THEN main = "started" ELSE thread[l] = "looping"

StartsUp == Pool!Next /\ UNCHANGED vars

Serves ==
  /\ \/ \E l \in Loops : Runs(l) /\ (Poll(l) \/ Thread(l))
     \/ Runs(Base) /\ (Accepting \/ User)
  /\ UNCHANGED startup

ServerNext == StartsUp \/ Serves

ServerSpec == ServerInit /\ [][ServerNext]_serverVars

\* Every thread is scheduled, and a client that was reported is accepted.
FairServerSpec ==
  /\ ServerSpec
  /\ \A l \in Loops \ {Base} : WF_serverVars(Pool!Pool(l) /\ UNCHANGED vars)
  /\ \A l \in Loops : WF_serverVars(Runs(l) /\ Thread(l) /\ UNCHANGED startup)
  /\ WF_serverVars(Runs(Base) /\ Accepting /\ UNCHANGED startup)

-----------------------------------------------------------------------------
(* Properties of the threads (LoopThreads.tla); the others are TcpServer's.  *)

\* What the pool hands out is there, before the server accepts, and no
\* notification of a loop is lost, whatever the wake-ups do.
LoopsAreThere == Pool!LoopsAreThere /\ Pool!NoSleepOnALoop
=============================================================================
