-------------------------- MODULE ConnectionProofs --------------------------
(***************************************************************************)
(* Whatever the numbers of bytes, calls, ticks and nested callbacks, with  *)
(* or without a thread pool: a connection watches for room to write        *)
(* exactly while it has output, its socket stays open and watched until    *)
(* the handlers of an event are through, and a graceful shutdown leaves    *)
(* nothing unsent.  Proofs about Connection.tla.                           *)
(***************************************************************************)
EXTENDS Connection, SequenceTheorems, TLAPS

-----------------------------------------------------------------------------
(* Frames.                                                                  *)

\* The top frame of a stack that is not empty, and the stack below it.
LEMMA TopAndPop ==
  ASSUME stack \in Seq(Frames), stack # <<>>
  PROVE  /\ Len(stack) \in 1 .. Len(stack)
         /\ Top \in Frames
         /\ Pop \in Seq(Frames)
         /\ Len(Pop) = Len(stack) - 1
         /\ \A k \in 1 .. Len(Pop) : Pop[k] = stack[k]
<1>1. Len(stack) \in Nat \ {0}
  BY EmptySeq
<1>2. Len(stack) \in 1 .. Len(stack)
  BY <1>1
<1>3. Top \in Frames
  BY <1>2, ElementOfSeq DEF Top
<1>4. \A k \in 1 .. Len(stack) - 1 : stack[k] \in Frames
  BY <1>1, ElementOfSeq
<1>5. /\ Pop \in Seq(Frames)
      /\ Len(Pop) = IF 1 <= Len(stack) - 1 THEN Len(stack) - 1 - 1 + 1 ELSE 0
      /\ \A k \in 1 .. Len(stack) - 1 - 1 + 1 : Pop[k] = stack[1 + k - 1]
  BY <1>1, <1>4, SubSeqProperties DEF Pop
<1>6. Len(Pop) = Len(stack) - 1
  <2>1. \A m : \A n \in Nat \ {0} :
          m = (IF 1 <= n - 1 THEN n - 1 - 1 + 1 ELSE 0) => m = n - 1
    OBVIOUS
  <2> QED BY <1>1, <1>5, <2>1, Zenon
<1>7. ASSUME NEW k \in 1 .. Len(Pop) PROVE Pop[k] = stack[k]
  <2>1. k \in 1 .. Len(stack) - 1 - 1 + 1 /\ 1 + k - 1 = k
    BY <1>1, <1>6
  <2> QED BY <2>1, <1>5
<1> QED BY <1>1, <1>2, <1>3, <1>5, <1>6, <1>7

\* A turn of a drain loop remembers the size of the input in the top frame and
\* calls back.
Deeper(n) == Append([stack EXCEPT ![Len(stack)].seen = n], Callback)

\* A drain loop that calls the user's callback makes the stack one frame deeper.
LEMMA DeeperStack ==
  ASSUME stack \in Seq(Frames), stack # <<>>, MaxIn \in Nat, NEW n \in 0 .. MaxIn
  PROVE  /\ Deeper(n) \in Seq(Frames)
         /\ Len(Deeper(n)) = Len(stack) + 1
         /\ \A k \in 1 .. Len(stack) : Deeper(n)[k].at = stack[k].at
         /\ Deeper(n)[Len(stack) + 1] = Callback
<1> DEFINE f == [Top EXCEPT !.seen = n]
           s == [stack EXCEPT ![Len(stack)] = f]
<1>1. Len(stack) \in 1 .. Len(stack) /\ Top \in Frames
  BY TopAndPop
<1>2. f \in Frames /\ f.at = Top.at
  BY <1>1 DEF Frames, NoCallYet
<1>3. /\ s \in Seq(Frames) /\ Len(s) = Len(stack)
      /\ \A j \in 1 .. Len(stack) : s[j] = IF j = Len(stack) THEN f ELSE stack[j]
  BY <1>1, <1>2, ExceptSeq
<1>4. [stack EXCEPT ![Len(stack)].seen = n] = s
  BY DEF Top
<1>5. Callback \in Frames
  BY DEF Callback, Frames, NoCallYet
<1>6. Deeper(n) = Append(s, Callback)
  BY <1>4 DEF Deeper
<1> HIDE DEF s
<1>7. /\ Append(s, Callback) \in Seq(Frames)
      /\ Len(Append(s, Callback)) = Len(s) + 1
      /\ \A i \in 1 .. Len(s) : Append(s, Callback)[i] = s[i]
      /\ Append(s, Callback)[Len(s) + 1] = Callback
  BY <1>3, <1>5, AppendProperties
<1> QED BY <1>2, <1>3, <1>6, <1>7 DEF Top

\* The frames the code pushes.
LEMMA NewFrames ==
  ASSUME MaxIn \in Nat
  PROVE  /\ Callback \in Frames /\ EventCallback \in Frames
         /\ Drain("shutdown") \in Frames /\ Drain("release") \in Frames
         /\ Callback.at = "callback" /\ Drain("shutdown").at = "shutdown"
         /\ Drain("release").at = "release"
BY DEF Callback, EventCallback, Drain, Frames, NoCallYet

-----------------------------------------------------------------------------
(* Types.                                                                   *)

\* What the type invariant rests on: no byte is received that was not sent, and
\* an entry of the wheel has at least a tick to go.
TypeInv ==
  /\ TypeOK
  /\ conn.inBuf + sock.inbound <= sock.sent
  /\ timer.exists => timer.left > 0

\* The member functions keep the type of the object.
LEMMA ConnectionTypes ==
  ASSUME NEW c \in Connections
  PROVE  /\ \A e \in {"IN", "OUT"} : Watch(c, e) \in Connections
         /\ DisableWrite(c) \in Connections
         /\ AfterSendInLoop(c) \in Connections
         /\ AfterSendInLoop(c).inBuf = c.inBuf
         /\ AfterRelease(c) \in Connections
<1>1. ASSUME NEW d \in Connections, NEW e \in {"IN", "OUT"}
      PROVE  Watch(d, e) \in Connections /\ Watch(d, e).inBuf = d.inBuf
  BY DEF Watch, Connections
<1>2. DisableWrite(c) \in Connections
  BY DEF DisableWrite, Connections
<1>3. /\ [c EXCEPT !.outBuf = @ + 1] \in Connections
      /\ [c EXCEPT !.outBuf = @ + 1].inBuf = c.inBuf
  BY DEF Connections
<1>4. AfterSendInLoop(c) \in Connections /\ AfterSendInLoop(c).inBuf = c.inBuf
  BY <1>1, <1>3 DEF AfterSendInLoop, WatchOutput
<1>5. AfterRelease(c) \in Connections
  BY DEF AfterRelease, Connections, Statuses
<1> QED BY <1>1, <1>2, <1>4, <1>5

\* The operations on the timer keep its type, and its distance from zero.
LEMMA TimerTypes ==
  ASSUME NEW t \in Timers, t.exists => t.left > 0, Timeout \in Nat
  PROVE  /\ Refresh(t) \in Timers
         /\ Refresh(t).exists => Refresh(t).left > 0
         /\ Timeout > 0 => /\ AfterEnable(t) \in Timers
                           /\ AfterEnable(t).exists => AfterEnable(t).left > 0
         /\ CancelTimer(t) \in Timers
         /\ CancelTimer(t).exists => CancelTimer(t).left > 0
<1>1. t.exists => Timeout > 0
  BY DEF Timers
<1>2. Refresh(t) \in Timers /\ (Refresh(t).exists => Refresh(t).left > 0)
  BY <1>1 DEF Timers, Refresh
<1>3. CancelTimer(t) \in Timers /\ (CancelTimer(t).exists => CancelTimer(t).left > 0)
  BY DEF Timers, CancelTimer
<1>4. ASSUME Timeout > 0, ~ t.exists
      PROVE  AfterEnable(t) \in Timers /\ AfterEnable(t).left > 0
  <2>1. AfterEnable(t) =
          [exists |-> TRUE, canceled |-> FALSE, left |-> Timeout, expired |-> t.expired]
    BY <1>4 DEF Timers, AfterEnable
  <2>2. t.expired \in BOOLEAN
    BY DEF Timers
  <2> QED BY <1>4, <2>1, <2>2 DEF Timers
<1>5. t.exists => AfterEnable(t) = Refresh(t)
  BY DEF AfterEnable
<1>6. t.exists \in BOOLEAN
  BY DEF Timers
<1> QED BY <1>2, <1>3, <1>4, <1>5, <1>6

\* The counters and flags of the history keep their types.
LEMMA HistoryTypes ==
  ASSUME NEW h \in Histories, NEW b
  PROVE  /\ [h EXCEPT !.calls = @ + 1] \in Histories
         /\ [h EXCEPT !.releases = @ + 1] \in Histories
         /\ b \in BOOLEAN => /\ [h EXCEPT !.forced = @ \/ b] \in Histories
                             /\ [h EXCEPT !.late = @ \/ b] \in Histories
<1>1. /\ [h EXCEPT !.calls = @ + 1] \in Histories
      /\ [h EXCEPT !.releases = @ + 1] \in Histories
  BY DEF Histories
<1>2. \A x \in BOOLEAN : /\ [h EXCEPT !.forced = x] \in Histories
                         /\ [h EXCEPT !.late = x] \in Histories
  BY DEF Histories
<1>3. b \in BOOLEAN => (h.forced \/ b) \in BOOLEAN /\ (h.late \/ b) \in BOOLEAN
  BY Zenon
<1> QED BY <1>1, <1>2, <1>3, Zenon

\* Every step of the world around the loop keeps the types.
LEMMA EnvironmentTypes == TypeInv /\ Environment => TypeInv'
<1> SUFFICES ASSUME TypeInv, Environment PROVE TypeInv'
  OBVIOUS
<1> USE ConnectionAssumption DEF TypeInv, TypeOK, loopVars
<1>1. CASE PeerSends
  <2>1. /\ conn.inBuf \in Nat /\ sock.inbound \in Nat /\ sock.sent \in Nat
        /\ sock.sent < MaxIn /\ conn.inBuf + sock.inbound <= sock.sent
    BY <1>1 DEF PeerSends, Sockets, Connections
  <2>2. sock.inbound + 1 \in 0 .. MaxIn /\ sock.sent + 1 \in 0 .. MaxIn
    BY <2>1, SMTT(30)
  <2>3. sock' \in Sockets
    BY <1>1, <2>2 DEF PeerSends, Sockets
  <2>4. sock'.inbound = sock.inbound + 1 /\ sock'.sent = sock.sent + 1
    BY <1>1 DEF PeerSends, Sockets
  <2>5. conn.inBuf + sock'.inbound <= sock'.sent
    BY <2>1, <2>4
  <2> QED BY <1>1, <2>3, <2>5 DEF PeerSends
<1>2. CASE PeerReads \/ PeerCloses \/ PeerResets
  <2>1. /\ sock' \in Sockets
        /\ sock'.inbound = sock.inbound /\ sock'.sent = sock.sent
    <3>1. CASE PeerReads
      <4>1. sock.space + 1 \in 0 .. MaxSpace
        BY <3>1 DEF PeerReads, Sockets
      <4>2. sock' = [sock EXCEPT !.space = sock.space + 1]
        BY <3>1, Zenon DEF PeerReads
      <4> QED BY <4>1, <4>2 DEF Sockets
    <3>2. CASE PeerCloses
      BY <3>2 DEF PeerCloses, Sockets
    <3>3. CASE PeerResets
      BY <3>3 DEF PeerResets, Sockets
    <3> QED BY <1>2, <3>1, <3>2, <3>3, Zenon
  <2> QED BY <1>2, <2>1 DEF PeerReads, PeerCloses, PeerResets
<1>3. CASE Tick
  <2>1. timer' \in Timers /\ (timer'.exists => timer'.left > 0)
    BY <1>3 DEF Tick, Timers
  <2> QED BY <1>3, <2>1 DEF Tick
<1>4. ASSUME NEW op \in Foreign, ForeignCall(op) PROVE TypeInv'
  <2>1. tasks' \in Seq(Ops)
    BY <1>4 DEF ForeignCall, Ops
  <2>2. [hist EXCEPT !.calls = @ + 1] \in Histories
    BY HistoryTypes
  <2>3. hist' \in Histories
    BY <1>4, <2>2, HistoryTypes DEF ForeignCall, Called
  <2> QED BY <1>4, <2>1, <2>3 DEF ForeignCall
<1>5. CASE UserDropsReference
  BY <1>5 DEF UserDropsReference
<1> QED BY <1>1, <1>2, <1>3, <1>4, <1>5 DEF Environment

\* So does every step of the user's callbacks.
LEMMA UserCodeTypes == TypeInv /\ UserCode => TypeInv'
<1> SUFFICES ASSUME TypeInv, UserCode PROVE TypeInv'
  OBVIOUS
<1> USE ConnectionAssumption DEF TypeInv, TypeOK, loopVars
<1>1. CASE CallbackConsumes
  <2>1. PICK n \in 0 .. conn.inBuf - 1 : conn' = [conn EXCEPT !.inBuf = n]
    BY <1>1 DEF CallbackConsumes
  <2>2. /\ conn.inBuf \in 0 .. MaxIn /\ sock.inbound \in Nat /\ sock.sent \in Nat
        /\ conn'.inBuf = n
    BY <2>1 DEF Connections, Sockets
  <2>3. n \in 0 .. MaxIn /\ n + sock.inbound <= sock.sent
    BY <2>2
  <2>4. conn' \in Connections
    BY <2>1, <2>3 DEF Connections
  <2> QED BY <1>1, <2>2, <2>3, <2>4 DEF CallbackConsumes
<1>2. CASE CallbackSends
  <2>1. conn' \in Connections /\ conn'.inBuf = conn.inBuf
    BY <1>2, ConnectionTypes DEF CallbackSends
  <2>2. [hist EXCEPT !.calls = @ + 1] \in Histories
    BY HistoryTypes
  <2>3. hist' \in Histories
    BY <1>2, <2>2, HistoryTypes DEF CallbackSends, Called
  <2> QED BY <1>2, <2>1, <2>3 DEF CallbackSends
<1>3. CASE CallbackShutsDown
  <2>1. stack' \in Seq(Frames)
    BY <1>3, NewFrames DEF CallbackShutsDown
  <2>2. hist' \in Histories
    BY <1>3, HistoryTypes DEF CallbackShutsDown, Called
  <2>3. conn' \in Connections /\ conn'.inBuf = conn.inBuf
    BY <1>3 DEF CallbackShutsDown, Connections, Statuses
  <2> QED BY <1>3, <2>1, <2>2, <2>3 DEF CallbackShutsDown
<1>4. CASE CallbackReturns
  <2>1. stack' \in Seq(Frames)
    BY <1>4, TopAndPop DEF CallbackReturns, InCallback
  <2> QED BY <1>4, <2>1 DEF CallbackReturns
<1>5. CASE CallbackReleases
  <2>1. tasks' \in Seq(Ops)
    BY <1>5 DEF CallbackReleases, Ops
  <2>2. hist' \in Histories
    <3>1. Called \in Histories
      BY HistoryTypes DEF Called
    <3>2. \A h \in Histories : [h EXCEPT !.forced = TRUE] \in Histories
      BY DEF Histories
    <3> QED BY <1>5, <3>1, <3>2, Zenon DEF CallbackReleases
  <2> QED BY <1>5, <2>1, <2>2 DEF CallbackReleases
<1>6. CASE CallbackEnables
  <2>1. Timeout > 0
    BY <1>6 DEF CallbackEnables, Calls
  <2>2. timer' \in Timers /\ (timer'.exists => timer'.left > 0)
    BY <1>6, <2>1, TimerTypes DEF CallbackEnables
  <2>3. hist' \in Histories
    BY <1>6, HistoryTypes DEF CallbackEnables, Called
  <2>4. conn' \in Connections /\ conn'.inBuf = conn.inBuf
    BY <1>6 DEF CallbackEnables, Connections
  <2> QED BY <1>6, <2>2, <2>3, <2>4 DEF CallbackEnables
<1>7. CASE CallbackCancels
  <2>1. timer' \in Timers /\ (timer'.exists => timer'.left > 0)
    BY <1>7, TimerTypes DEF CallbackCancels
  <2>2. hist' \in Histories
    BY <1>7, HistoryTypes DEF CallbackCancels, Called
  <2>3. conn' \in Connections /\ conn'.inBuf = conn.inBuf
    BY <1>7 DEF CallbackCancels, Connections
  <2> QED BY <1>7, <2>1, <2>2, <2>3 DEF CallbackCancels
<1> QED BY <1>1, <1>2, <1>3, <1>4, <1>5, <1>6, <1>7 DEF UserCode

\* So does the base loop's thread.
LEMMA BaseThreadTypes == TypeInv /\ BaseThread => TypeInv'
<1> SUFFICES ASSUME TypeInv, BaseThread PROVE TypeInv'
  OBVIOUS
<1> USE ConnectionAssumption DEF TypeInv, TypeOK, loopVars
<1>1. CASE NewConnectionHere
  <2>1. Watch(conn, "IN") \in Connections /\ Watch(conn, "IN").inBuf = conn.inBuf
    BY DEF Watch, Connections
  <2>2. ASSUME NEW c \in Connections, NEW b \in BOOLEAN
        PROVE  /\ [c EXCEPT !.status = "connected", !.inactive = b] \in Connections
               /\ [c EXCEPT !.status = "connected", !.inactive = b].inBuf = c.inBuf
    BY DEF Connections, Statuses
  <2>6. conn' \in Connections /\ conn'.inBuf = conn.inBuf
    <3>1. (Timeout > 0) \in BOOLEAN
      OBVIOUS
    <3> QED BY <1>1, <2>1, <2>2, <3>1, Zenon DEF NewConnectionHere
  <2>3. timer' \in Timers /\ (timer'.exists => timer'.left > 0)
    BY <1>1, TimerTypes DEF NewConnectionHere
  <2>4. stack' \in Seq(Frames)
    BY <1>1, NewFrames DEF NewConnectionHere
  <2>5. refs' \subseteq {"server", "user", "removal"} /\ setup' = "done"
    BY <1>1 DEF NewConnectionHere
  <2> QED BY <1>1, <2>3, <2>4, <2>5, <2>6 DEF NewConnectionHere
<1>2. CASE NewConnection
  <2>1. tasks' \in Seq(Ops)
    BY <1>2 DEF NewConnection, Ops
  <2> QED BY <1>2, <2>1 DEF NewConnection
<1>3. CASE PostEstablished
  <2>1. tasks' \in Seq(Ops)
    BY <1>3 DEF PostEstablished, Ops
  <2> QED BY <1>3, <2>1 DEF PostEstablished
<1>4. CASE RemoveConnectionInLoop
  BY <1>4 DEF RemoveConnectionInLoop
<1> QED BY <1>1, <1>2, <1>3, <1>4 DEF BaseThread

\* Taking the first task off the queue.
LEMMA BeginsTypes ==
  ASSUME TypeInv, NEW op, Begins(op)
  PROVE  func' \in Seq(Ops) /\ op \in Ops
BY HeadTailProperties DEF TypeInv, TypeOK, Begins

\* So does every step of the handlers of an event.
LEMMA HandlerTypes ==
  TypeInv /\ ( \/ BeginHandleEvent \/ HandleReadData \/ HandleReadNothing
              \/ HandleReadEnd \/ HandleWrite \/ HandleWriteError
              \/ HandleClose \/ HandleEvent) => TypeInv'
<1> SUFFICES ASSUME TypeInv,
                    \/ BeginHandleEvent \/ HandleReadData \/ HandleReadNothing
                    \/ HandleReadEnd \/ HandleWrite \/ HandleWriteError
                    \/ HandleClose \/ HandleEvent
             PROVE  TypeInv'
  OBVIOUS
<1> USE ConnectionAssumption DEF TypeInv, TypeOK, loopVars
<1>0. \A f \in Frames : <<f>> \in Seq(Frames)
  OBVIOUS
<1>1. CASE BeginHandleEvent
  BY <1>1 DEF BeginHandleEvent
<1>2. CASE HandleReadData
  <2>1. /\ conn.inBuf \in Nat /\ sock.inbound \in Nat /\ sock.sent \in 0 .. MaxIn
        /\ conn.inBuf + sock.inbound <= sock.sent
    BY DEF Connections, Sockets
  <2>2. conn.inBuf + sock.inbound \in 0 .. MaxIn
    BY <2>1
  <2>3. conn' \in Connections /\ conn'.inBuf = conn.inBuf + sock.inbound
    BY <1>2, <2>2 DEF HandleReadData, Connections
  <2>4. sock' \in Sockets /\ sock'.inbound = 0 /\ sock'.sent = sock.sent
    <3>1. 0 \in 0 .. MaxIn
      OBVIOUS
    <3> QED BY <1>2, <3>1 DEF HandleReadData, Sockets
  <2>5. conn'.inBuf + sock'.inbound <= sock'.sent
    BY <2>1, <2>3, <2>4
  <2>6. stack' \in Seq(Frames)
    BY <1>0, <1>2, NewFrames DEF HandleReadData
  <2> QED BY <1>2, <2>3, <2>4, <2>5, <2>6 DEF HandleReadData
<1>3. CASE HandleReadNothing
  <2>1. stack' \in Seq(Frames)
    BY <1>0, <1>3, NewFrames DEF HandleReadNothing
  <2> QED BY <1>3, <2>1 DEF HandleReadNothing
<1>4. CASE HandleReadEnd
  <2>1. conn' \in Connections /\ conn'.inBuf = conn.inBuf
    BY <1>4 DEF HandleReadEnd, Connections, Statuses
  <2>2. sock' \in Sockets /\ sock'.inbound = sock.inbound /\ sock'.sent = sock.sent
    BY <1>4 DEF HandleReadEnd, Sockets
  <2>3. stack' \in Seq(Frames)
    BY <1>0, <1>4, NewFrames DEF HandleReadEnd
  <2>4. retry' \in BOOLEAN
    BY <1>4, Zenon DEF HandleReadEnd
  <2> QED BY <1>4, <2>1, <2>2, <2>3, <2>4 DEF HandleReadEnd
<1>5. CASE HandleWrite
  <2>1. PICK n \in 0 .. conn.outBuf :
          /\ n <= sock.space
          /\ sock' = [sock EXCEPT !.space = @ - n]
          /\ LET c == [conn EXCEPT !.outBuf = @ - n]
             IN conn' = IF c.outBuf = 0 THEN DisableWrite(c) ELSE c
    BY <1>5 DEF HandleWrite
  <2> DEFINE c == [conn EXCEPT !.outBuf = @ - n]
  <2>2. /\ conn.outBuf \in Nat /\ sock.space \in 0 .. MaxSpace
        /\ n \in Nat /\ n <= conn.outBuf /\ n <= sock.space
    BY <2>1 DEF Connections, Sockets
  <2>3. conn.outBuf - n \in Nat /\ sock.space - n \in 0 .. MaxSpace
    <3>1. \A a, b \in Nat : b <= a => a - b \in 0 .. a
      OBVIOUS
    <3> QED BY <2>2, <3>1
  <2>4. c \in Connections /\ c.inBuf = conn.inBuf
    BY <2>3 DEF Connections
  <2>5. conn' \in Connections /\ conn'.inBuf = conn.inBuf
    <3>1. DisableWrite(c) \in Connections /\ DisableWrite(c).inBuf = c.inBuf
      <4> HIDE DEF c
      <4> QED BY <2>4 DEF DisableWrite, Connections
    <3>2. conn' = DisableWrite(c) \/ conn' = c
      BY <2>1
    <3> HIDE DEF c
    <3> QED BY <2>4, <3>1, <3>2
  <2>6. sock' \in Sockets /\ sock'.inbound = sock.inbound /\ sock'.sent = sock.sent
    BY <2>1, <2>3 DEF Sockets
  <2>7. tasks' \in Seq(Ops)
    BY <1>5 DEF HandleWrite, Ops
  <2> QED BY <1>5, <2>5, <2>6, <2>7 DEF HandleWrite
<1>6. CASE HandleWriteError
  <2>1. sock' \in Sockets /\ sock'.inbound = sock.inbound /\ sock'.sent = sock.sent
    BY <1>6 DEF HandleWriteError, Sockets
  <2>2. stack' \in Seq(Frames)
    BY <1>0, <1>6, NewFrames DEF HandleWriteError
  <2> QED BY <1>6, <2>1, <2>2 DEF HandleWriteError
<1>7. CASE HandleClose
  <2>1. stack' \in Seq(Frames)
    BY <1>0, <1>7, NewFrames DEF HandleClose
  <2> QED BY <1>7, <2>1 DEF HandleClose
<1>8. CASE HandleEvent
  <2>1. timer' \in Timers /\ (timer'.exists => timer'.left > 0)
    BY <1>8, TimerTypes DEF HandleEvent
  <2>2. stack' \in Seq(Frames)
    <3>1. stack' = <<>> \/ stack' = <<EventCallback>>
      BY <1>8, Zenon DEF HandleEvent
    <3>2. <<>> \in Seq(Frames) /\ <<EventCallback>> \in Seq(Frames)
      BY <1>0, NewFrames
    <3> QED BY <3>1, <3>2, Zenon
  <2> QED BY <1>8, <2>1, <2>2 DEF HandleEvent
<1> QED BY <1>1, <1>2, <1>3, <1>4, <1>5, <1>6, <1>7, <1>8

\* So does every other step of the loop: the drain loops, the wait, the wheel.
LEMMA TurnTypes ==
  TypeInv /\ ( \/ DrainCallsBack \/ ShutdownEnds \/ CloseEnds \/ Poll
              \/ PollInterrupted \/ OnTime \/ SwapTasks \/ NextTurn) => TypeInv'
<1> SUFFICES ASSUME TypeInv,
                    \/ DrainCallsBack \/ ShutdownEnds \/ CloseEnds \/ Poll
                    \/ PollInterrupted \/ OnTime \/ SwapTasks \/ NextTurn
             PROVE  TypeInv'
  OBVIOUS
<1> USE ConnectionAssumption DEF TypeInv, TypeOK, loopVars
<1>1. CASE DrainCallsBack
  <2>1. conn.inBuf \in 0 .. MaxIn
    BY DEF Connections
  <2>2. stack' = Deeper(conn.inBuf) /\ stack # <<>>
    BY <1>1 DEF DrainCallsBack, InDrain, Deeper
  <2>3. stack' \in Seq(Frames)
    BY <2>1, <2>2, DeeperStack
  <2> QED BY <1>1, <2>3 DEF DrainCallsBack
<1>2. CASE ShutdownEnds
  <2>1. stack' \in Seq(Frames)
    BY <1>2, TopAndPop DEF ShutdownEnds, InDrain
  <2>2. conn' \in Connections /\ conn'.inBuf = conn.inBuf
    <3>1. Watch(conn, "OUT") \in Connections /\ Watch(conn, "OUT").inBuf = conn.inBuf
      BY DEF Watch, Connections
    <3> QED BY <1>2, <3>1 DEF ShutdownEnds, WatchOutput
  <2>3. tasks' \in Seq(Ops)
    <3>1. tasks' = tasks \/ tasks' = Append(tasks, "Release")
      BY <1>2, Zenon DEF ShutdownEnds
    <3>2. tasks \in Seq(Ops) /\ "Release" \in Ops
      BY Zenon DEF Ops
    <3>3. Append(tasks, "Release") \in Seq(Ops)
      BY <3>2, Zenon, AppendProperties
    <3> QED BY <3>1, <3>2, <3>3, Zenon
  <2> QED BY <1>2, <2>1, <2>2, <2>3 DEF ShutdownEnds
<1>3. CASE CloseEnds
  <2>1. stack' \in Seq(Frames)
    BY <1>3, TopAndPop DEF CloseEnds, InDrain
  <2>2. tasks' \in Seq(Ops)
    <3>1. tasks' = Append(tasks, "Release")
      BY <1>3, Zenon DEF CloseEnds
    <3>2. tasks \in Seq(Ops) /\ "Release" \in Ops
      BY Zenon DEF Ops
    <3>3. Append(tasks, "Release") \in Seq(Ops)
      BY <3>2, Zenon, AppendProperties
    <3> QED BY <3>1, <3>2, <3>3, Zenon
  <2>3. hist' \in Histories
    BY <1>3 DEF CloseEnds, Histories
  <2> QED BY <1>3, <2>1, <2>2, <2>3 DEF CloseEnds
<1>4. CASE Poll
  <2>1. Events \subseteq {"IN", "OUT", "ERR", "HUP"}
    BY DEF Events, Connections
  <2>2. Reported \subseteq {"conn", "timer"}
    BY DEF Reported
  <2> QED BY <1>4, <2>1, <2>2 DEF Poll
<1>5. CASE PollInterrupted
  BY <1>5 DEF PollInterrupted
<1>6. CASE OnTime
  <2>1. timer' \in Timers /\ (timer'.exists => timer'.left > 0)
    <3>1. CASE timer.exists
      <4>1. timer.left \in 0 .. Timeout /\ timer.left > 0
        BY <3>1 DEF Timers
      <4>2. /\ timer.left - 1 \in 0 .. Timeout
            /\ timer.left > 1 => timer.left - 1 > 0
            /\ (timer.left > 1) \in BOOLEAN
        BY <4>1
      <4>3. ASSUME NEW b \in BOOLEAN, NEW n \in 0 .. Timeout, b => n > 0
            PROVE  LET t == [timer EXCEPT !.expired = FALSE, !.exists = b, !.left = n]
                   IN t \in Timers /\ (t.exists => t.left > 0)
        BY <4>3 DEF Timers
      <4>4. timer' = [timer EXCEPT !.expired = FALSE, !.exists = timer.left > 1,
                                   !.left = timer.left - 1]
        BY <1>6, <3>1, Zenon DEF OnTime, Ticked
      <4> QED BY <4>2, <4>3, <4>4, Zenon
    <3>2. CASE ~ timer.exists
      BY <1>6, <3>2 DEF OnTime, Ticked, Timers
    <3> QED BY <3>1, <3>2
  <2>2. tasks' \in Seq(Ops)
    <3>1. Append(tasks, "Release") \in Seq(Ops)
      BY DEF Ops
    <3> QED BY <1>6, <3>1 DEF OnTime
  <2>3. hist' \in Histories
    BY <1>6 DEF OnTime, Histories
  <2> QED BY <1>6, <2>1, <2>2, <2>3 DEF OnTime
<1>7. CASE SwapTasks
  BY <1>7 DEF SwapTasks
<1>8. CASE NextTurn
  BY <1>8 DEF NextTurn
<1> QED BY <1>1, <1>2, <1>3, <1>4, <1>5, <1>6, <1>7, <1>8

\* So does every task.
LEMMA TaskTypes ==
  TypeInv /\ ( \/ RunOnDeadObject \/ EnableInactiveReleaseInLoop
              \/ CancelInactiveReleaseInLoop \/ EstablishedInLoop \/ SendInLoop
              \/ ShutdownInLoop \/ ReleaseInLoop) => TypeInv'
<1> SUFFICES ASSUME TypeInv,
                    \/ RunOnDeadObject \/ EnableInactiveReleaseInLoop
                    \/ CancelInactiveReleaseInLoop \/ EstablishedInLoop \/ SendInLoop
                    \/ ShutdownInLoop \/ ReleaseInLoop
             PROVE  TypeInv'
  OBVIOUS
<1> USE ConnectionAssumption
<1>0. \A f \in Frames : <<f>> \in Seq(Frames)
  OBVIOUS
<1>1. CASE RunOnDeadObject
  <2>1. func' \in Seq(Ops)
    BY <1>1, BeginsTypes DEF RunOnDeadObject
  <2>2. hist' \in Histories
    BY <1>1, HistoryTypes DEF RunOnDeadObject, TypeInv, TypeOK
  <2> QED BY <1>1, <2>1, <2>2 DEF RunOnDeadObject, TypeInv, TypeOK
<1>2. CASE EnableInactiveReleaseInLoop
  <2>1. func' \in Seq(Ops) /\ Timeout > 0
    BY <1>2, BeginsTypes DEF EnableInactiveReleaseInLoop, Ops
  <2>2. timer' \in Timers /\ (timer'.exists => timer'.left > 0)
    BY <1>2, <2>1, TimerTypes DEF EnableInactiveReleaseInLoop, TypeInv, TypeOK
  <2>3. conn' \in Connections /\ conn'.inBuf = conn.inBuf
    BY <1>2 DEF EnableInactiveReleaseInLoop, Connections, TypeInv, TypeOK
  <2> QED BY <1>2, <2>1, <2>2, <2>3 DEF EnableInactiveReleaseInLoop, TypeInv, TypeOK
<1>3. CASE CancelInactiveReleaseInLoop
  <2>1. func' \in Seq(Ops)
    BY <1>3, BeginsTypes DEF CancelInactiveReleaseInLoop
  <2>2. timer' \in Timers /\ (timer'.exists => timer'.left > 0)
    BY <1>3, TimerTypes DEF CancelInactiveReleaseInLoop, TypeInv, TypeOK
  <2>3. conn' \in Connections /\ conn'.inBuf = conn.inBuf
    BY <1>3 DEF CancelInactiveReleaseInLoop, Connections, TypeInv, TypeOK
  <2> QED BY <1>3, <2>1, <2>2, <2>3 DEF CancelInactiveReleaseInLoop, TypeInv, TypeOK
<1>4. CASE EstablishedInLoop
  <2>1. func' \in Seq(Ops)
    BY <1>4, BeginsTypes DEF EstablishedInLoop
  <2>2. conn' \in Connections /\ conn'.inBuf = conn.inBuf
    <3>1. Watch(conn, "IN") \in Connections /\ Watch(conn, "IN").inBuf = conn.inBuf
      BY DEF Watch, Connections, TypeInv, TypeOK
    <3>2. ASSUME NEW c \in Connections
          PROVE  /\ [c EXCEPT !.status = "connected"] \in Connections
                 /\ [c EXCEPT !.status = "connected"].inBuf = c.inBuf
      BY DEF Connections, Statuses
    <3>3. \/ conn' = [Watch(conn, "IN") EXCEPT !.status = "connected"]
          \/ conn' = conn
      BY <1>4 DEF EstablishedInLoop
    <3>4. conn \in Connections
      BY DEF TypeInv, TypeOK
    <3> QED BY <3>1, <3>2, <3>3, <3>4, Zenon
  <2>3. stack' \in Seq(Frames)
    BY <1>0, <1>4, NewFrames DEF EstablishedInLoop, TypeInv, TypeOK
  <2>4. refs' \subseteq {"server", "user", "removal"} /\ undefined' \in BOOLEAN
    BY <1>4 DEF EstablishedInLoop, TypeInv, TypeOK
  <2> QED BY <1>4, <2>1, <2>2, <2>3, <2>4 DEF EstablishedInLoop, TypeInv, TypeOK
<1>5. CASE SendInLoop
  <2>1. func' \in Seq(Ops)
    BY <1>5, BeginsTypes DEF SendInLoop
  <2>2. conn' \in Connections /\ conn'.inBuf = conn.inBuf
    BY <1>5, ConnectionTypes DEF SendInLoop, TypeInv, TypeOK
  <2>3. hist' \in Histories
    BY <1>5, HistoryTypes DEF SendInLoop, TypeInv, TypeOK
  <2> QED BY <1>5, <2>1, <2>2, <2>3 DEF SendInLoop, TypeInv, TypeOK
<1>6. CASE ShutdownInLoop
  <2>1. func' \in Seq(Ops)
    BY <1>6, BeginsTypes DEF ShutdownInLoop
  <2>2. conn' \in Connections /\ conn'.inBuf = conn.inBuf
    BY <1>6 DEF ShutdownInLoop, Connections, Statuses, TypeInv, TypeOK
  <2>3. stack' \in Seq(Frames)
    BY <1>0, <1>6, NewFrames DEF ShutdownInLoop
  <2> QED BY <1>6, <2>1, <2>2, <2>3 DEF ShutdownInLoop, TypeInv, TypeOK
<1>7. CASE ReleaseInLoop
  <2>1. func' \in Seq(Ops)
    BY <1>7, BeginsTypes DEF ReleaseInLoop
  <2>2. conn' \in Connections /\ conn'.inBuf = conn.inBuf
    BY <1>7, ConnectionTypes, ZenonT(40)
    DEF ReleaseInLoop, AfterRelease, Connections, TypeInv, TypeOK
  <2>3. timer' \in Timers /\ (timer'.exists => timer'.left > 0)
    BY <1>7, TimerTypes DEF ReleaseInLoop, TypeInv, TypeOK
  <2>4. hist' \in Histories
    BY <1>7, HistoryTypes DEF ReleaseInLoop, TypeInv, TypeOK
  <2>5. refs' \subseteq {"server", "user", "removal"}
    BY <1>7 DEF ReleaseInLoop, TypeInv, TypeOK
  <2> QED BY <1>7, <2>1, <2>2, <2>3, <2>4, <2>5 DEF ReleaseInLoop, TypeInv, TypeOK
<1> QED BY <1>1, <1>2, <1>3, <1>4, <1>5, <1>6, <1>7

\* The type invariant is inductive ...
LEMMA AlwaysTyped == Spec => []TypeInv
<1>1. Init => TypeInv
  <2> SUFFICES ASSUME Init PROVE TypeInv
    OBVIOUS
  <2> USE ConnectionAssumption DEF Init
  <2>1. 0 \in 0 .. MaxIn /\ 0 \in 0 .. Timeout /\ MaxSpace \in 0 .. MaxSpace
    OBVIOUS
  <2>2. conn \in Connections
    BY <2>1 DEF Connections, Statuses
  <2>3. timer \in Timers /\ sock \in Sockets /\ hist \in Histories
    BY <2>1 DEF Timers, Sockets, Histories
  <2>4. conn.inBuf + sock.inbound <= sock.sent /\ ~ timer.exists
    OBVIOUS
  <2>5. stack \in Seq(Frames) /\ tasks \in Seq(Ops) /\ func \in Seq(Ops)
    OBVIOUS
  <2>6. /\ retry \in BOOLEAN /\ undefined \in BOOLEAN
        /\ phase \in {"poll", "handle", "run"} /\ actives \subseteq {"conn", "timer"}
        /\ revents \subseteq {"IN", "OUT", "ERR", "HUP"}
        /\ step \in {"none", "read", "io", "event"}
        /\ refs \subseteq {"server", "user", "removal"}
        /\ setup \in {"accepted", "created", "done"}
    OBVIOUS
  <2> HIDE DEF Init
  <2> QED BY <2>2, <2>3, <2>4, <2>5, <2>6 DEF TypeInv, TypeOK
<1>2. TypeInv /\ [Next]_vars => TypeInv'
  <2>1. TypeInv /\ UNCHANGED vars => TypeInv'
    BY DEF TypeInv, TypeOK, vars
  <2> QED BY <2>1, EnvironmentTypes, UserCodeTypes, BaseThreadTypes, HandlerTypes,
             TurnTypes, TaskTypes, Zenon
          DEF Next, LoopThread
<1> QED BY <1>1, <1>2, PTL DEF Spec

\* ... so every variable keeps its type: in particular no byte of the peer is
\* received twice (HandleRead, Socket::Recv).
THEOREM TypeCorrect == Spec => []TypeOK
BY AlwaysTyped, PTL DEF TypeInv

-----------------------------------------------------------------------------
(* Output and the watch for room to write; handlers and the socket.         *)

\* An open object watches for room to write exactly while it has output.
Sound(c) ==
  c.open => /\ "OUT" \in c.interest <=> c.outBuf > 0
            /\ "OUT" \in c.interest => c.watched

\* What the handlers of an event do to the object: all but the release.
Keeps(c, d) == Sound(d) /\ d.open = c.open /\ (c.watched => d.watched)

\* The inductive invariant: the active channels are those of an open socket,
\* and there are none left when the tasks run, the release among them.
Watching ==
  /\ Sound(conn)
  /\ phase # "handle" => actives = {}
  /\ "conn" \in actives \/ step # "none" => conn.open /\ conn.watched

\* The member functions that touch the watch or the output keep the invariant.
LEMMA MembersKeep ==
  ASSUME NEW c \in Connections, Sound(c)
  PROVE  /\ Keeps(c, Watch(c, "IN"))
         /\ Keeps(c, AfterSendInLoop(c))
         /\ c.outBuf > 0 => Keeps(c, WatchOutput(c))
         /\ \A s \in Statuses : Keeps(c, [c EXCEPT !.status = s])
         /\ \A b \in BOOLEAN : Keeps(c, [c EXCEPT !.inactive = b])
         /\ \A n \in 0 .. MaxIn : Keeps(c, [c EXCEPT !.inBuf = n])
         /\ Sound(AfterRelease(c))
<1> USE DEF Keeps, Sound
<1>1. ASSUME NEW d \in Connections, d.outBuf > 0, d.open = c.open,
             c.watched => d.watched,
             d.open /\ "OUT" \in d.interest => d.watched
      PROVE  Keeps(c, WatchOutput(d))
  BY <1>1 DEF WatchOutput, Watch, Connections
<1>2. Keeps(c, Watch(c, "IN"))
  BY DEF Watch, Connections
<1>3. Keeps(c, AfterSendInLoop(c))
  <2> DEFINE d == [c EXCEPT !.outBuf = @ + 1]
  <2>1. /\ d \in Connections /\ d.outBuf > 0 /\ d.open = c.open
        /\ d.watched = c.watched /\ d.interest = c.interest
    BY DEF Connections
  <2> HIDE DEF d
  <2>2. Keeps(c, WatchOutput(d))
    BY <1>1, <2>1 DEF Connections
  <2>3. AfterSendInLoop(c) = c \/ AfterSendInLoop(c) = WatchOutput(d)
    BY DEF AfterSendInLoop, d
  <2> QED BY <2>2, <2>3
<1>4. c.outBuf > 0 => Keeps(c, WatchOutput(c))
  BY <1>1
<1>5. /\ \A s \in Statuses : Keeps(c, [c EXCEPT !.status = s])
      /\ \A b \in BOOLEAN : Keeps(c, [c EXCEPT !.inactive = b])
      /\ \A n \in 0 .. MaxIn : Keeps(c, [c EXCEPT !.inBuf = n])
  BY DEF Connections
<1>6. Sound(AfterRelease(c))
  BY DEF AfterRelease, Connections
<1> QED BY <1>2, <1>3, <1>4, <1>5, <1>6

\* A step that handles the object so, and leaves the batch of events alone or
\* shortens it, keeps the invariant.
LEMMA KeepsWatching ==
  ASSUME Watching, Keeps(conn, conn'), actives' \subseteq actives,
         \/ phase' = phase \/ actives' = {},
         \/ step' = step \/ step' = "none" \/ step # "none" \/ "conn" \in actives
  PROVE  Watching'
BY DEF Watching, Keeps

\* Every step keeps the invariant.
LEMMA WatchingStep == TypeInv /\ Watching /\ [Next]_vars => Watching'
<1> SUFFICES ASSUME TypeInv, Watching, [Next]_vars PROVE Watching'
  OBVIOUS
<1>0. /\ conn \in Connections /\ sock \in Sockets /\ Sound(conn)
      /\ Keeps(conn, conn)
  BY DEF TypeInv, TypeOK, Watching, Keeps
<1> USE DEF loopVars
<1>1. CASE Environment
  BY <1>0, <1>1, KeepsWatching
  DEF Environment, PeerSends, PeerReads, PeerCloses, PeerResets, Tick, ForeignCall,
      UserDropsReference
<1>2. CASE CallbackConsumes
  <2>1. PICK n \in 0 .. conn.inBuf - 1 : conn' = [conn EXCEPT !.inBuf = n]
    BY <1>2 DEF CallbackConsumes
  <2>2. n \in 0 .. MaxIn
    BY <2>1, <1>0, ConnectionAssumption DEF Connections
  <2> QED BY <1>0, <1>2, <2>1, <2>2, MembersKeep, KeepsWatching DEF CallbackConsumes
<1>3. CASE CallbackSends
  BY <1>0, <1>3, MembersKeep, KeepsWatching DEF CallbackSends
<1>4. CASE CallbackShutsDown \/ CallbackReleases \/ CallbackEnables \/ CallbackCancels
           \/ CallbackReturns
  BY <1>0, <1>4, MembersKeep, KeepsWatching
  DEF CallbackShutsDown, CallbackReleases, CallbackEnables, CallbackCancels,
      CallbackReturns, Statuses
<1>5. CASE NewConnectionHere
  <2>1. Keeps(conn, Watch(conn, "IN")) /\ Watch(conn, "IN") \in Connections
    BY <1>0, MembersKeep, ConnectionTypes
  <2>2. ASSUME NEW c \in Connections, Keeps(conn, c), NEW b \in BOOLEAN
        PROVE  Keeps(conn, [c EXCEPT !.status = "connected", !.inactive = b])
    BY <2>2 DEF Keeps, Sound, Connections
  <2>3. (Timeout > 0) \in BOOLEAN
    OBVIOUS
  <2>4. Keeps(conn, conn')
    BY <1>5, <2>1, <2>2, <2>3, Zenon DEF NewConnectionHere
  <2> QED BY <1>5, <2>4, KeepsWatching DEF NewConnectionHere
<1>6. CASE NewConnection \/ PostEstablished \/ RemoveConnectionInLoop
  BY <1>0, <1>6, KeepsWatching DEF NewConnection, PostEstablished, RemoveConnectionInLoop
<1>7. CASE DrainCallsBack \/ CloseEnds
  BY <1>0, <1>7, KeepsWatching DEF DrainCallsBack, CloseEnds
<1>8. CASE ShutdownEnds
  BY <1>0, <1>8, MembersKeep, KeepsWatching DEF ShutdownEnds
<1>9. CASE Poll
  <2>1. "conn" \in actives' => conn.open /\ conn.watched
    BY <1>0, <1>9 DEF Poll, Reported, Events, Connections
  <2> QED BY <1>9, <2>1 DEF Poll, Watching
<1>10. CASE PollInterrupted \/ OnTime \/ SwapTasks \/ NextTurn
  BY <1>10 DEF PollInterrupted, OnTime, SwapTasks, NextTurn, Watching
<1>11. CASE BeginHandleEvent
  BY <1>0, <1>11, KeepsWatching DEF BeginHandleEvent
<1>12. CASE HandleReadData
  <2>1. /\ conn.inBuf \in Nat /\ sock.inbound \in Nat /\ sock.sent \in 0 .. MaxIn
        /\ conn.inBuf + sock.inbound <= sock.sent
    BY <1>0 DEF Connections, Sockets, TypeInv
  <2>2. conn.inBuf + sock.inbound \in 0 .. MaxIn
    BY <2>1, ConnectionAssumption
  <2>3. Keeps(conn, conn')
    BY <1>0, <1>12, <2>2, MembersKeep DEF HandleReadData
  <2> QED BY <1>12, <2>3, KeepsWatching DEF HandleReadData, At
<1>13. CASE HandleReadNothing \/ HandleReadEnd
  BY <1>0, <1>13, MembersKeep, KeepsWatching DEF HandleReadNothing, HandleReadEnd, At, Statuses
<1>14. CASE HandleWrite
  <2>1. PICK n \in 0 .. conn.outBuf :
          LET c == [conn EXCEPT !.outBuf = @ - n]
          IN conn' = IF c.outBuf = 0 THEN DisableWrite(c) ELSE c
    BY <1>14 DEF HandleWrite
  <2> DEFINE c == [conn EXCEPT !.outBuf = @ - n]
  <2>2. conn.outBuf - n \in 0 .. conn.outBuf
    <3>1. conn.outBuf \in Nat
      BY <1>0 DEF Connections
    <3> QED BY <3>1
  <2>3. /\ c \in Connections /\ c.open = conn.open /\ c.watched = conn.watched
        /\ c.interest = conn.interest /\ c.outBuf \in 0 .. conn.outBuf
    BY <1>0, <2>2 DEF Connections
  <2>4. conn' = IF c.outBuf = 0 THEN DisableWrite(c) ELSE c
    BY <2>1
  <2> HIDE DEF c
  <2>5. CASE c.outBuf = 0
    <3>1. conn' = [c EXCEPT !.interest = @ \ {"OUT"}, !.watched = TRUE]
      BY <2>4, <2>5 DEF DisableWrite
    <3>2. conn'.open = conn.open /\ "OUT" \notin conn'.interest /\ conn'.watched
      BY <2>3, <3>1 DEF Connections
    <3>3. conn'.outBuf = 0
      BY <2>3, <2>5, <3>1 DEF Connections
    <3> QED BY <3>2, <3>3, <1>14, KeepsWatching DEF Keeps, Sound, HandleWrite, At
  <2>6. CASE c.outBuf # 0
    <3>1. conn' = c /\ c.outBuf > 0
      BY <2>3, <2>4, <2>6
    <3>2. conn.outBuf \in Nat
      BY <1>0 DEF Connections
    <3>3. conn.outBuf > 0
      BY <2>3, <3>1, <3>2
    <3>4. Keeps(conn, conn')
      BY <1>0, <2>3, <3>1, <3>3 DEF Keeps, Sound
    <3> QED BY <3>4, <1>14, KeepsWatching DEF HandleWrite, At
  <2> QED BY <2>5, <2>6
<1>15. CASE HandleWriteError \/ HandleClose \/ HandleEvent
  BY <1>0, <1>15, KeepsWatching DEF HandleWriteError, HandleClose, HandleEvent, At
<1>16. CASE RunOnDeadObject
  BY <1>0, <1>16, KeepsWatching DEF RunOnDeadObject, Begins
<1>17. CASE EnableInactiveReleaseInLoop \/ CancelInactiveReleaseInLoop
  BY <1>0, <1>17, MembersKeep, KeepsWatching
  DEF EnableInactiveReleaseInLoop, CancelInactiveReleaseInLoop, Begins
<1>18. CASE EstablishedInLoop
  <2>1. Keeps(conn, Watch(conn, "IN")) /\ Watch(conn, "IN") \in Connections
    BY <1>0, MembersKeep, ConnectionTypes
  <2>2. ASSUME NEW c \in Connections, Keeps(conn, c)
        PROVE  Keeps(conn, [c EXCEPT !.status = "connected"])
    BY <2>2 DEF Keeps, Sound, Connections
  <2>3. \/ conn' = [Watch(conn, "IN") EXCEPT !.status = "connected"]
        \/ conn' = conn
    BY <1>18 DEF EstablishedInLoop
  <2>4. Keeps(conn, conn')
    BY <1>0, <2>1, <2>2, <2>3
  <2> QED BY <1>18, <2>4, KeepsWatching DEF EstablishedInLoop, Begins
<1>19. CASE SendInLoop
  BY <1>0, <1>19, MembersKeep, KeepsWatching DEF SendInLoop, Begins
<1>20. CASE ShutdownInLoop
  BY <1>0, <1>20, MembersKeep, KeepsWatching DEF ShutdownInLoop, Begins, Statuses
<1>21. CASE ReleaseInLoop
  <2>1. actives = {} /\ step = "none"
    BY <1>21 DEF ReleaseInLoop, Begins, LoopIsFree, Watching
  <2>2. Sound(conn')
    BY <1>0, <1>21, MembersKeep DEF ReleaseInLoop
  <2> QED BY <1>21, <2>1, <2>2 DEF ReleaseInLoop, Begins, Watching
<1>22. CASE UNCHANGED vars
  BY <1>0, <1>22, KeepsWatching DEF vars
<1> QED
  BY <1>1, <1>2, <1>3, <1>4, <1>5, <1>6, <1>7, <1>8, <1>9, <1>10, <1>11, <1>12, <1>13,
     <1>14, <1>15, <1>16, <1>17, <1>18, <1>19, <1>20, <1>21, <1>22
  DEF Next, UserCode, BaseThread, LoopThread

\* So output and write interest always agree.
LEMMA AlwaysWatching == Spec => [](TypeInv /\ Watching)
<1>1. Init => Watching
  BY DEF Init, Watching, Sound
<1> QED BY <1>1, AlwaysTyped, WatchingStep, PTL DEF Spec

\* Output is never forgotten, whatever re-enters what (SendInLoop, HandleWrite,
\* ShutdownInLoop, ReleaseInLoop).
THEOREM OutputIsAlwaysWatched == Spec => []OutputIsWatched
<1>1. Watching /\ TypeInv => OutputIsWatched
  BY DEF Watching, Sound, OutputIsWatched, TypeInv, TypeOK, Connections
<1> QED BY <1>1, AlwaysWatching, PTL

\* Nor does the loop ever wait for room to write nothing (HandleWrite).
THEOREM NeverWatchesForNothing == Spec => []NoIdleWriteWatch
<1>1. Watching => NoIdleWriteWatch
  BY DEF Watching, Sound, NoIdleWriteWatch
<1> QED BY <1>1, AlwaysWatching, PTL

\* The handlers of one event all find the socket open and watched: every
\* release comes after the batch (Release, EventLoop::Start).
THEOREM HandlersKeepTheirSocket == Spec => []HandlersOnOpenSocket
<1>1. Watching => HandlersOnOpenSocket
  BY DEF Watching, HandlersOnOpenSocket
<1> QED BY <1>1, AlwaysWatching, PTL

-----------------------------------------------------------------------------
(* What is in a queue.                                                       *)

Has(q, op) == \E k \in 1 .. Len(q) : q[k] = op

\* A queue with one more task has that task and those it had.
LEMMA AppendHas ==
  ASSUME NEW s \in Seq(Ops), NEW x \in Ops, NEW op, Has(Append(s, x), op)
  PROVE  Has(s, op) \/ x = op
<1>1. /\ Len(Append(s, x)) = Len(s) + 1 /\ Len(s) \in Nat
      /\ \A i \in 1 .. Len(s) : Append(s, x)[i] = s[i]
      /\ Append(s, x)[Len(s) + 1] = x
  BY AppendProperties, LenProperties
<1>2. PICK k \in 1 .. Len(s) + 1 : Append(s, x)[k] = op
  BY <1>1 DEF Has
<1>3. k \in 1 .. Len(s) \/ k = Len(s) + 1
  BY <1>1
<1> QED BY <1>1, <1>2, <1>3 DEF Has

\* The first task and those after it were in the queue.
LEMMA TailHas ==
  ASSUME NEW s \in Seq(Ops), s # <<>>, NEW op
  PROVE  /\ Has(Tail(s), op) => Has(s, op)
         /\ Head(s) = op => Has(s, op)
<1>1. /\ Len(Tail(s)) = Len(s) - 1 /\ Len(s) \in Nat \ {0}
      /\ \A i \in 1 .. Len(Tail(s)) : Tail(s)[i] = s[i + 1]
      /\ Head(s) = s[1]
  BY HeadTailProperties, EmptySeq
<1>2. ASSUME Has(Tail(s), op) PROVE Has(s, op)
  <2>1. PICK k \in 1 .. Len(Tail(s)) : Tail(s)[k] = op
    BY <1>2 DEF Has
  <2>2. k + 1 \in 1 .. Len(s) /\ s[k + 1] = op
    BY <1>1, <2>1
  <2> QED BY <2>2 DEF Has
<1>3. 1 \in 1 .. Len(s)
  BY <1>1
<1> QED BY <1>1, <1>2, <1>3 DEF Has

LEMMA NothingHas == \A op : ~ Has(<<>>, op)
BY DEF Has

\* Two tasks, posted one after the other.
LEMMA AppendSecond ==
  ASSUME NEW x, NEW y PROVE Append(<<x>>, y) = <<x, y>>
<1> DEFINE S == {x, y}
<1>1. <<x>> \in Seq(S) /\ <<x, y>> \in Seq(S) /\ y \in S
  OBVIOUS
<1>2. Len(<<x>>) = 1 /\ Len(<<x, y>>) = 2
  OBVIOUS
<1> HIDE DEF S
<1>3. /\ Append(<<x>>, y) \in Seq(S)
      /\ Len(Append(<<x>>, y)) = Len(<<x>>) + 1
      /\ \A i \in 1 .. Len(<<x>>) : Append(<<x>>, y)[i] = <<x>>[i]
      /\ Append(<<x>>, y)[Len(<<x>>) + 1] = y
  BY <1>1, AppendProperties
<1>4. Append(<<x>>, y)[1] = <<x, y>>[1] /\ Append(<<x>>, y)[2] = <<x, y>>[2]
  BY <1>2, <1>3
<1>5. \A i \in 1 .. Len(Append(<<x>>, y)) : Append(<<x>>, y)[i] = <<x, y>>[i]
  BY <1>2, <1>3, <1>4
<1>6. Len(Append(<<x>>, y)) = Len(<<x, y>>)
  BY <1>2, <1>3
<1> QED BY <1>1, <1>3, <1>5, <1>6, SeqEqual

-----------------------------------------------------------------------------
(* A graceful shutdown sends everything.                                    *)

\* Once a release is posted the output is sent.
Sent == Posted /\ ~ hist.forced /\ ~ hist.late => conn.outBuf = 0

\* A queue with one more task has a release only if it had one or the task is one.
LEMMA HasAppend ==
  ASSUME NEW s \in Seq(Ops), NEW x \in Ops
  PROVE  HasRelease(Append(s, x)) => HasRelease(s) \/ x = "Release"
BY AppendHas DEF HasRelease, Has

\* A release left after the first task has been taken was there before.
LEMMA HasTail ==
  ASSUME NEW s \in Seq(Ops), s # <<>>
  PROVE  /\ HasRelease(Tail(s)) => HasRelease(s)
         /\ Head(s) = "Release" => HasRelease(s)
BY TailHas DEF HasRelease, Has

\* An empty queue has no release.
LEMMA HasNothing == ~ HasRelease(<<>>)
BY DEF HasRelease

\* HandleWrite takes bytes from the output, and releases a closing object with
\* the last of them.
LEMMA WriteStep ==
  ASSUME TypeInv, HandleWrite
  PROVE  /\ conn.outBuf = 0 => conn'.outBuf = 0
         /\ tasks' = tasks \/ conn'.outBuf = 0
<1>1. PICK n \in 0 .. conn.outBuf :
        /\ LET c == [conn EXCEPT !.outBuf = @ - n]
           IN conn' = IF c.outBuf = 0 THEN DisableWrite(c) ELSE c
        /\ tasks' = IF n = conn.outBuf /\ conn.status = "disconnecting"
                      THEN Append(tasks, "Release") ELSE tasks
  BY DEF HandleWrite
<1>2. conn.outBuf \in Nat /\ conn \in Connections
  BY DEF TypeInv, TypeOK, Connections
<1> DEFINE m == conn.outBuf - n
           c == [conn EXCEPT !.outBuf = m]
<1>3. /\ m \in Nat /\ (conn.outBuf = 0 => m = 0) /\ (n = conn.outBuf => m = 0)
  BY <1>2
<1>4. conn' = DisableWrite(c) \/ conn' = c
  BY <1>1
<1> HIDE DEF m
<1>5. c.outBuf = m /\ DisableWrite(c).outBuf = m
  BY <1>2, <1>3 DEF DisableWrite, Connections
<1>6. conn'.outBuf = m
  BY <1>4, <1>5
<1> QED BY <1>1, <1>3, <1>6

\* A step that posts no release, and sends nothing new.
LEMMA KeepsSent ==
  ASSUME Sent, Posted' => Posted, conn.outBuf = 0 => conn'.outBuf = 0,
         hist.forced => hist'.forced, hist.late => hist'.late
  PROVE  Sent'
<1> SUFFICES ASSUME Posted', ~ hist'.forced, ~ hist'.late PROVE conn'.outBuf = 0
  BY Zenon DEF Sent
<1>1. Posted /\ ~ hist.forced /\ ~ hist.late
  BY Zenon
<1> QED BY <1>1, Zenon DEF Sent

\* Starting a task is no news about releases.
LEMMA BeginsPosted ==
  ASSUME TypeInv, NEW op, Begins(op)
  PROVE  /\ HasRelease(func') => HasRelease(func)
         /\ op = "Release" => HasRelease(func)
BY HasTail DEF Begins, TypeInv, TypeOK

\* Every step keeps the clause about posted releases.
LEMMA SentStep == TypeInv /\ Sent /\ [Next]_vars => Sent'
<1> SUFFICES ASSUME TypeInv, Sent, [Next]_vars PROVE Sent'
  OBVIOUS
<1>0. /\ conn \in Connections /\ tasks \in Seq(Ops) /\ func \in Seq(Ops)
      /\ hist \in Histories /\ conn.outBuf \in Nat
  BY DEF TypeInv, TypeOK, Connections
<1>01. ASSUME NEW op \in Ops, op # "Release", tasks' = Append(tasks, op)
       PROVE  HasRelease(tasks') => HasRelease(tasks)
  BY <1>0, <1>01, HasAppend
<1> USE DEF loopVars
<1>1. CASE NewConnectionHere
  <2>1. conn'.outBuf = conn.outBuf
    BY <1>0, <1>1 DEF NewConnectionHere, Watch, Connections
  <2> QED BY <1>1, <2>1 DEF NewConnectionHere, Sent, Posted
<1>2. CASE PeerSends \/ PeerReads \/ PeerCloses \/ PeerResets \/ Tick
           \/ UserDropsReference \/ RemoveConnectionInLoop
  BY <1>2 DEF PeerSends, PeerReads, PeerCloses, PeerResets, Tick, UserDropsReference,
     RemoveConnectionInLoop, Sent, Posted
<1>3. ASSUME NEW op \in Foreign, ForeignCall(op) PROVE Sent'
  <2>1. op = "Release" => hist'.forced
    BY <1>0, <1>3 DEF ForeignCall, Called, Histories
  <2>2. /\ hist.forced => hist'.forced
        /\ hist'.late = hist.late /\ hist'.releases = hist.releases
    BY <1>0, <1>3 DEF ForeignCall, Called, Histories
  <2>3. op \in Ops /\ tasks' = Append(tasks, op) /\ conn' = conn /\ func' = func
    BY <1>3, ConnectionAssumption DEF ForeignCall, Ops
  <2>4. CASE op = "Release"
    BY <2>1, <2>4 DEF Sent
  <2>5. CASE op # "Release"
    <3>1. Posted' => Posted
      BY <1>01, <2>2, <2>3, <2>5 DEF Posted
    <3> QED BY <2>2, <2>3, <3>1, KeepsSent
  <2> QED BY <2>4, <2>5
<1>4. CASE NewConnection \/ PostEstablished
  <2>1. HasRelease(tasks') => HasRelease(tasks)
    BY <1>01, <1>4 DEF NewConnection, PostEstablished, Ops
  <2>2. Posted' => Posted
    BY <1>4, <2>1 DEF NewConnection, PostEstablished, Posted
  <2> QED BY <1>4, <2>2 DEF NewConnection, PostEstablished, Sent
<1>5. CASE CallbackSends \/ SendInLoop
  <2>1. /\ hist'.forced = hist.forced /\ hist'.releases = hist.releases
        /\ Posted => hist'.late
    BY <1>0, <1>5 DEF CallbackSends, SendInLoop, Called, Histories
  <2>2. HasRelease(func') => HasRelease(func)
    BY <1>5, BeginsPosted DEF CallbackSends, SendInLoop
  <2>3. Posted' => Posted
    BY <1>5, <2>1, <2>2 DEF CallbackSends, SendInLoop, Posted
  <2> QED BY <2>1, <2>3 DEF Sent
<1>6. CASE CallbackConsumes \/ CallbackShutsDown \/ CallbackEnables \/ CallbackCancels
           \/ CallbackReturns \/ DrainCallsBack
  <2>1. /\ conn'.outBuf = conn.outBuf /\ hist'.forced = hist.forced
        /\ hist'.late = hist.late /\ hist'.releases = hist.releases
    BY <1>0, <1>6 DEF CallbackConsumes, CallbackShutsDown, CallbackEnables,
       CallbackCancels, CallbackReturns, DrainCallsBack, Called, Connections, Histories
  <2>2. Posted' => Posted
    BY <1>6, <2>1 DEF CallbackConsumes, CallbackShutsDown, CallbackEnables,
       CallbackCancels, CallbackReturns, DrainCallsBack, Posted
  <2> QED BY <2>1, <2>2, KeepsSent
<1>7. CASE ShutdownEnds
  <2>1. CASE conn.outBuf > 0
    <3>1. conn'.outBuf = conn.outBuf /\ UNCHANGED <<tasks, func, hist>>
      BY <1>0, <1>7, <2>1 DEF ShutdownEnds, WatchOutput, Watch, Connections
    <3> QED BY <3>1 DEF Sent, Posted
  <2>2. CASE ~ conn.outBuf > 0
    <3>1. conn' = conn /\ conn.outBuf = 0
      BY <1>0, <1>7, <2>2 DEF ShutdownEnds
    <3> QED BY <3>1 DEF Sent
  <2> QED BY <2>1, <2>2
<1>8. CASE CloseEnds \/ CallbackReleases
  <2>1. hist'.forced
    BY <1>0, <1>8 DEF CloseEnds, CallbackReleases, Called, Histories
  <2> QED BY <2>1 DEF Sent
<1>9. CASE OnTime
  <2>1. CASE timer.exists /\ timer.left = 1 /\ ~ timer.canceled
    <3>1. hist'.forced
      BY <1>0, <1>9, <2>1 DEF OnTime, Histories
    <3> QED BY <3>1 DEF Sent
  <2>2. CASE ~ (timer.exists /\ timer.left = 1 /\ ~ timer.canceled)
    BY <1>9, <2>2 DEF OnTime, Sent, Posted
  <2> QED BY <2>1, <2>2
<1>10. CASE Poll \/ PollInterrupted \/ NextTurn \/ BeginHandleEvent
            \/ HandleReadNothing \/ HandleWriteError \/ HandleClose \/ HandleEvent
  BY <1>10 DEF Poll, PollInterrupted, NextTurn, BeginHandleEvent, HandleReadNothing,
     HandleWriteError, HandleClose, HandleEvent, Sent, Posted
<1>11. CASE SwapTasks
  BY <1>11, HasNothing DEF SwapTasks, Sent, Posted
<1>12. CASE HandleReadData \/ HandleReadEnd
  <2>1. conn'.outBuf = conn.outBuf /\ UNCHANGED <<tasks, func, hist>>
    BY <1>0, <1>12 DEF HandleReadData, HandleReadEnd, Connections
  <2> QED BY <2>1 DEF Sent, Posted
<1>13. CASE HandleWrite
  <2>1. UNCHANGED <<func, hist>>
    BY <1>13 DEF HandleWrite
  <2> QED BY <1>13, <2>1, WriteStep DEF Sent, Posted
<1>14. CASE RunOnDeadObject
  <2>1. PICK op \in Ops : Begins(op)
    BY <1>14 DEF RunOnDeadObject
  <2>2. /\ HasRelease(func') => HasRelease(func)
        /\ hist' # hist => HasRelease(func)
    BY <1>14, <2>1, BeginsPosted DEF RunOnDeadObject, Begins
  <2>3. hist'.forced = hist.forced /\ hist'.late = hist.late
    BY <1>0, <1>14 DEF RunOnDeadObject, Histories
  <2>4. Posted' => Posted
    BY <1>14, <2>2 DEF RunOnDeadObject, Posted
  <2> QED BY <1>14, <2>3, <2>4 DEF RunOnDeadObject, Sent
<1>15. CASE EnableInactiveReleaseInLoop \/ CancelInactiveReleaseInLoop
            \/ EstablishedInLoop \/ ShutdownInLoop
  <2>1. HasRelease(func') => HasRelease(func)
    BY <1>15, BeginsPosted DEF EnableInactiveReleaseInLoop, CancelInactiveReleaseInLoop,
       EstablishedInLoop, ShutdownInLoop
  <2>2. UNCHANGED <<tasks, hist>>
    BY <1>15 DEF EnableInactiveReleaseInLoop, CancelInactiveReleaseInLoop,
       EstablishedInLoop, ShutdownInLoop
  <2>3. conn'.outBuf = conn.outBuf
    BY <1>0, <1>15 DEF EnableInactiveReleaseInLoop, CancelInactiveReleaseInLoop,
       EstablishedInLoop, ShutdownInLoop, Watch, Connections
  <2> QED BY <2>1, <2>2, <2>3 DEF Sent, Posted
<1>16. CASE ReleaseInLoop
  <2>1. HasRelease(func)
    BY <1>16, BeginsPosted DEF ReleaseInLoop
  <2>2. /\ hist'.forced = hist.forced /\ hist'.late = hist.late
        /\ conn'.outBuf = conn.outBuf
    BY <1>0, <1>16 DEF ReleaseInLoop, AfterRelease, Histories, Connections
  <2> QED BY <2>1, <2>2 DEF Sent, Posted
<1>17. CASE UNCHANGED vars
  BY <1>17 DEF vars, Sent, Posted
<1> QED
  BY <1>1, <1>2, <1>3, <1>4, <1>5, <1>6, <1>7, <1>8, <1>9, <1>10, <1>11, <1>12, <1>13,
     <1>14, <1>15, <1>16, <1>17
  DEF Next, Environment, UserCode, BaseThread, LoopThread

\* Without an error, a hang-up, a timer or a Release() of the user, and with
\* nothing sent once the release is posted, a released connection has sent
\* everything (ShutdownInLoop waits for HandleWrite, HandleWrite for the last
\* byte).
THEOREM ShutdownSendsEverything == Spec => []GracefulShutdownSendsAll
<1>1. Init => Sent
  BY DEF Init, Sent
<1>2. Sent => GracefulShutdownSendsAll
  BY DEF Sent, Posted, GracefulShutdownSendsAll
<1> QED BY <1>1, <1>2, SentStep, AlwaysTyped, PTL DEF Spec

-----------------------------------------------------------------------------
(* The task queue: who posts what.                                          *)

\* A task in a queue is one of the operations of the object that another thread
\* with a reference calls, or a step of the connection's own life; the tasks
\* being run were in the queue.
LEMMA WhoPosts ==
  ASSUME TypeInv, [Next]_vars, NEW op
  PROVE  /\ Has(tasks', op) => \/ Has(tasks, op)
                               \/ op \in {"Release", "Established"}
                               \/ op = "Enable" /\ setup = "accepted"
                               \/ op \in Foreign /\ "user" \in refs
         /\ Has(func', op) => Has(func, op) \/ Has(tasks, op)
         /\ setup' = "accepted" => setup = "accepted"
<1>0. tasks \in Seq(Ops) /\ func \in Seq(Ops)
  BY DEF TypeInv, TypeOK
<1>1. ASSUME NEW x \in Ops, tasks' = Append(tasks, x)
      PROVE  Has(tasks', op) => Has(tasks, op) \/ op = x
  <2>1. Has(Append(tasks, x), op) => Has(tasks, op) \/ x = op
    BY <1>0, AppendHas
  <2> QED BY <1>1, <2>1
<1>2. {"Release", "Established"} \subseteq Ops /\ Foreign \subseteq Ops
  BY ConnectionAssumption DEF Ops
<1>3. ASSUME NEW x, Begins(x) PROVE Has(func', op) => Has(func, op)
  BY <1>0, <1>3, TailHas DEF Begins
<1> USE DEF loopVars
<1>4. CASE PeerSends \/ PeerReads \/ PeerCloses \/ PeerResets \/ Tick \/ UserDropsReference
           \/ RemoveConnectionInLoop \/ NewConnectionHere \/ CallbackConsumes
           \/ CallbackSends \/ CallbackShutsDown \/ CallbackEnables \/ CallbackCancels
           \/ CallbackReturns
  BY <1>4 DEF PeerSends, PeerReads, PeerCloses, PeerResets, Tick, UserDropsReference,
     RemoveConnectionInLoop, NewConnectionHere, CallbackConsumes, CallbackSends,
     CallbackShutsDown, CallbackEnables, CallbackCancels, CallbackReturns
<1>5. ASSUME NEW x \in Foreign, ForeignCall(x)
      PROVE  /\ Has(tasks', op) => \/ Has(tasks, op)
                                   \/ op \in Foreign /\ "user" \in refs
             /\ UNCHANGED <<func, setup>>
  <2>1. tasks' = Append(tasks, x) /\ UNCHANGED <<func, setup>> /\ "user" \in refs
    BY <1>5 DEF ForeignCall
  <2> QED BY <1>1, <1>2, <2>1
<1>6. CASE NewConnection
  <2>1. \/ tasks' = tasks
        \/ Timeout > 0 /\ tasks' = Append(tasks, "Enable")
    BY <1>6 DEF NewConnection
  <2>2. Timeout > 0 => "Enable" \in Ops
    BY DEF Ops
  <2>3. setup = "accepted" /\ setup' = "created" /\ func' = func
    BY <1>6 DEF NewConnection
  <2> QED BY <1>1, <2>1, <2>2, <2>3
<1>7. CASE PostEstablished
  <2>1. tasks' = Append(tasks, "Established") /\ setup' = "done" /\ func' = func
    BY <1>7 DEF PostEstablished
  <2> QED BY <1>1, <1>2, <2>1
<1>8. CASE ShutdownEnds \/ CloseEnds \/ OnTime \/ HandleWrite \/ CallbackReleases
  <2>1. tasks' = tasks \/ tasks' = Append(tasks, "Release")
    BY <1>8, Zenon DEF ShutdownEnds, CloseEnds, OnTime, HandleWrite, CallbackReleases
  <2>2. UNCHANGED <<func, setup>>
    BY <1>8 DEF ShutdownEnds, CloseEnds, OnTime, HandleWrite, CallbackReleases
  <2> QED BY <1>1, <1>2, <2>1, <2>2
<1>9. CASE DrainCallsBack \/ Poll \/ PollInterrupted \/ BeginHandleEvent \/ HandleReadData
           \/ HandleReadNothing \/ HandleReadEnd \/ HandleWriteError \/ HandleClose
           \/ HandleEvent \/ NextTurn
  BY <1>9 DEF DrainCallsBack, Poll, PollInterrupted, BeginHandleEvent, HandleReadData,
     HandleReadNothing, HandleReadEnd, HandleWriteError, HandleClose, HandleEvent, NextTurn
<1>10. CASE SwapTasks
  BY <1>10, NothingHas DEF SwapTasks
<1>11. CASE RunOnDeadObject \/ EnableInactiveReleaseInLoop \/ CancelInactiveReleaseInLoop
            \/ EstablishedInLoop \/ SendInLoop \/ ShutdownInLoop \/ ReleaseInLoop
  <2>1. UNCHANGED <<tasks, setup>> /\ \E x \in Ops : Begins(x)
    BY <1>0, <1>11, BeginsTypes
    DEF RunOnDeadObject, EnableInactiveReleaseInLoop, CancelInactiveReleaseInLoop,
        EstablishedInLoop, SendInLoop, ShutdownInLoop, ReleaseInLoop
  <2> QED BY <1>3, <2>1
<1>12. CASE UNCHANGED vars
  BY <1>12 DEF vars
<1> QED
  BY <1>4, <1>5, <1>6, <1>7, <1>8, <1>9, <1>10, <1>11, <1>12
  DEF Next, Environment, UserCode, BaseThread, LoopThread

-----------------------------------------------------------------------------
(* The beginning: until the base thread's tasks run nothing happens.        *)

Fresh ==
  /\ conn.status = "connecting" /\ conn.open /\ ~ conn.watched
  /\ ~ timer.exists /\ ~ timer.expired
  /\ stack = <<>> /\ step = "none" /\ actives = {} /\ "user" \notin refs

\* What can happen to a connection nobody has started yet.
LEMMA FreshStep ==
  ASSUME TypeInv, Fresh, [Next]_vars
  PROVE  \/ Fresh' /\ UNCHANGED <<tasks, func, setup>>
         \/ Fresh' /\ (NewConnection \/ PostEstablished \/ SwapTasks)
         \/ NewConnectionHere
         \/ (\E op \in Ops : Begins(op)) /\ UNCHANGED <<tasks, setup>>
<1> USE DEF loopVars
<1>1. CASE PeerSends \/ PeerReads \/ PeerCloses \/ PeerResets \/ NewConnection
           \/ PostEstablished \/ SwapTasks \/ NextTurn \/ PollInterrupted \/ RemoveConnectionInLoop
  BY <1>1 DEF PeerSends, PeerReads, PeerCloses, PeerResets, NewConnection, PostEstablished,
     SwapTasks, NextTurn, PollInterrupted, RemoveConnectionInLoop, Fresh
<1>2. ~ (Tick \/ UserDropsReference \/ UserCode \/ DrainCallsBack \/ ShutdownEnds \/ CloseEnds)
  BY DEF Tick, UserDropsReference, UserCode, CallbackConsumes, CallbackSends,
     CallbackShutsDown, CallbackReleases, CallbackEnables, CallbackCancels,
     CallbackReturns, Calls, InCallback, DrainCallsBack, ShutdownEnds, CloseEnds,
     InDrain, Fresh
<1>3. ~ (OnTime \/ BeginHandleEvent \/ HandleReadData \/ HandleReadNothing \/ HandleReadEnd
         \/ HandleWrite \/ HandleWriteError \/ HandleClose \/ HandleEvent)
  BY DEF OnTime, BeginHandleEvent, HandleReadData, HandleReadNothing, HandleReadEnd,
     HandleWrite, HandleWriteError, HandleClose, HandleEvent, At, Fresh
<1>4. \A op \in Foreign : ~ ForeignCall(op)
  BY DEF ForeignCall, Fresh
<1>5. CASE Poll
  <2>1. Events = {}
    BY DEF Events, Fresh
  <2>2. Reported = {}
    BY <2>1 DEF Reported, Fresh
  <2> QED BY <1>5, <2>2 DEF Poll, Fresh
<1>6. CASE RunOnDeadObject \/ EnableInactiveReleaseInLoop \/ CancelInactiveReleaseInLoop
           \/ EstablishedInLoop \/ SendInLoop \/ ShutdownInLoop \/ ReleaseInLoop
  BY <1>6, BeginsTypes
  DEF RunOnDeadObject, EnableInactiveReleaseInLoop, CancelInactiveReleaseInLoop,
      EstablishedInLoop, SendInLoop, ShutdownInLoop, ReleaseInLoop
<1>7. CASE UNCHANGED vars
  BY <1>7 DEF vars, Fresh
<1> QED
  BY <1>1, <1>2, <1>3, <1>4, <1>5, <1>6, <1>7 DEF Next, Environment, BaseThread, LoopThread

\* An accepted descriptor has an object nobody knows of.
Accepted == setup = "accepted" => Fresh /\ tasks = <<>> /\ func = <<>>

LEMMA AcceptedStep == TypeInv /\ Accepted /\ [Next]_vars => Accepted'
<1> SUFFICES ASSUME TypeInv, Accepted, [Next]_vars, setup' = "accepted"
             PROVE  Fresh' /\ tasks' = <<>> /\ func' = <<>>
  BY DEF Accepted
<1>1. setup = "accepted"
  BY WhoPosts
<1>2. Fresh /\ tasks = <<>> /\ func = <<>>
  BY <1>1 DEF Accepted
<1>3. ~ (NewConnection \/ PostEstablished \/ NewConnectionHere)
  BY DEF NewConnection, PostEstablished, NewConnectionHere
<1>4. \A op : ~ Begins(op)
  BY <1>2 DEF Begins
<1>5. Fresh' /\ (UNCHANGED <<tasks, func, setup>> \/ SwapTasks)
  BY <1>2, <1>3, <1>4, FreshStep
<1> QED BY <1>2, <1>5 DEF SwapTasks

-----------------------------------------------------------------------------
(* Callbacks and the life of the connection, if no other thread shuts it    *)
(* down: ShutdownInLoop does not ask whether the connection is released.    *)

\* The status tells whether the socket is open and may be watched.
StatusTells(c) ==
  /\ c.open <=> c.status # "disconnected"
  /\ c.watched => c.status # "connecting"
InLife(c) == c.open /\ c.status # "connecting"

Live ==
  /\ StatusTells(conn)
  /\ stack # <<>> => InLife(conn)
  /\ "user" \in refs \/ Has(tasks, "Send") \/ Has(func, "Send")
       => conn.status # "connecting"
  /\ ~ Has(tasks, "Shutdown") /\ ~ Has(func, "Shutdown")

\* What remains to be shown of a step.
LEMMA LiveKept ==
  ASSUME TypeInv, Live, [Next]_vars, "Shutdown" \notin Foreign, StatusTells(conn'),
         conn.status # "connecting" => conn'.status # "connecting",
         stack' # <<>> => InLife(conn'),
         "user" \in refs' => "user" \in refs \/ conn'.status # "connecting"
  PROVE  Live'
<1>1. /\ Has(tasks', "Send") => Has(tasks, "Send") \/ "user" \in refs
      /\ Has(func', "Send") => Has(func, "Send") \/ Has(tasks, "Send")
  BY WhoPosts
<1>2. /\ Has(tasks', "Shutdown") => Has(tasks, "Shutdown")
      /\ Has(func', "Shutdown") => Has(func, "Shutdown") \/ Has(tasks, "Shutdown")
  BY WhoPosts
<1> QED BY <1>1, <1>2 DEF Live

\* What the member functions do to the status, the socket and the watch.
LEMMA MembersTell ==
  ASSUME NEW c \in Connections
  PROVE  /\ \A e \in {"IN", "OUT"} : /\ Watch(c, e).status = c.status
                                     /\ Watch(c, e).open = c.open
                                     /\ Watch(c, e) \in Connections
         /\ WatchOutput(c).status = c.status /\ WatchOutput(c).open = c.open
         /\ DisableWrite(c).status = c.status /\ DisableWrite(c).open = c.open
         /\ StatusTells(c) /\ c.status # "connecting" => StatusTells(AfterSendInLoop(c))
         /\ AfterSendInLoop(c).status = c.status /\ AfterSendInLoop(c).open = c.open
         /\ StatusTells(AfterRelease(c)) /\ AfterRelease(c).status = "disconnected"
<1>1. ASSUME NEW d \in Connections
      PROVE  /\ \A e \in {"IN", "OUT"} : /\ Watch(d, e).status = d.status
                                         /\ Watch(d, e).open = d.open
                                         /\ Watch(d, e) \in Connections
             /\ WatchOutput(d).status = d.status /\ WatchOutput(d).open = d.open
             /\ DisableWrite(d).status = d.status /\ DisableWrite(d).open = d.open
  BY DEF Watch, WatchOutput, DisableWrite, Connections
<1> DEFINE d == [c EXCEPT !.outBuf = @ + 1]
<1>2. d \in Connections /\ d.status = c.status /\ d.open = c.open
  BY DEF Connections
<1>3. AfterSendInLoop(c) = c \/ AfterSendInLoop(c) = WatchOutput(d)
  BY DEF AfterSendInLoop
<1> HIDE DEF d
<1>4. AfterSendInLoop(c).status = c.status /\ AfterSendInLoop(c).open = c.open
  BY <1>1, <1>2, <1>3
<1>5. StatusTells(c) /\ c.status # "connecting" => StatusTells(AfterSendInLoop(c))
  BY <1>4 DEF StatusTells
<1>6. StatusTells(AfterRelease(c)) /\ AfterRelease(c).status = "disconnected"
  BY DEF StatusTells, AfterRelease, Connections
<1> QED BY <1>1, <1>4, <1>5, <1>6

\* Every step keeps the invariant.
LEMMA LiveStep ==
  ASSUME "Shutdown" \notin Foreign, TypeInv, Watching, Accepted, Live, [Next]_vars
  PROVE  Live'
<1>0. conn \in Connections /\ StatusTells(conn)
  BY DEF TypeInv, TypeOK, Live
<1>00. ASSUME NEW c \in Connections, c.status = conn.status, c.open = conn.open,
              c.watched = conn.watched \/ conn.status # "connecting",
              conn' = c, stack' # <<>> => InLife(conn), refs' \subseteq refs
       PROVE  Live'
  <2>1. StatusTells(c)
    BY <1>0, <1>00 DEF StatusTells
  <2>2. InLife(conn) => InLife(c)
    BY <1>00 DEF InLife
  <2> QED BY <1>00, <2>1, <2>2, LiveKept
<1>01. ASSUME InLife(conn), conn' = [conn EXCEPT !.status = "disconnecting"],
              refs' \subseteq refs
       PROVE  Live'
  <2>1. StatusTells(conn') /\ InLife(conn') /\ conn'.status # "connecting"
    BY <1>0, <1>01 DEF StatusTells, InLife, Connections
  <2> QED BY <1>01, <2>1, LiveKept
<1>02. stack # <<>> \/ step # "none" => InLife(conn)
  BY <1>0 DEF Live, Watching, StatusTells, InLife
<1> USE DEF loopVars
<1>1. CASE Environment \/ NewConnection \/ PostEstablished \/ RemoveConnectionInLoop
           \/ CallbackReleases \/ CallbackReturns \/ DrainCallsBack \/ CloseEnds \/ Poll
           \/ OnTime \/ PollInterrupted
           \/ SwapTasks \/ NextTurn \/ BeginHandleEvent \/ RunOnDeadObject \/ UNCHANGED vars
  <2>1. /\ conn' = conn
        /\ stack' # <<>> => stack # <<>>
        /\ refs' \subseteq refs \/ NewConnection
    BY <1>1
    DEF Environment, PeerSends, PeerReads, PeerCloses, PeerResets, Tick, ForeignCall,
        UserDropsReference, NewConnection, PostEstablished, RemoveConnectionInLoop,
        CallbackReleases, CallbackReturns, InCallback, DrainCallsBack, InDrain, CloseEnds,
        Poll, OnTime, PollInterrupted, SwapTasks, NextTurn, BeginHandleEvent, RunOnDeadObject, Begins, vars
  <2>2. "user" \in refs' => "user" \in refs
    BY <2>1 DEF NewConnection
  <2> QED BY <1>0, <1>02, <2>1, <2>2, LiveKept
<1>2. CASE CallbackConsumes
  <2>1. PICK n : conn' = [conn EXCEPT !.inBuf = n] /\ n \in 0 .. conn.inBuf - 1
    BY <1>2 DEF CallbackConsumes
  <2>2. /\ n \in 0 .. MaxIn
    BY <1>0, <2>1, ConnectionAssumption DEF Connections
  <2>3. /\ [conn EXCEPT !.inBuf = n] \in Connections
        /\ conn'.status = conn.status /\ conn'.open = conn.open
        /\ conn'.watched = conn.watched
    BY <1>0, <2>1, <2>2 DEF Connections
  <2> QED BY <1>00, <1>02, <1>2, <2>1, <2>3 DEF CallbackConsumes, InCallback
<1>3. CASE CallbackSends
  <2>1. InLife(conn) /\ conn' = AfterSendInLoop(conn) /\ UNCHANGED <<refs, stack>>
    BY <1>02, <1>3 DEF CallbackSends, Calls, InCallback
  <2> QED BY <1>0, <1>00, <2>1, MembersTell, ConnectionTypes DEF InLife
<1>4. CASE CallbackShutsDown
  BY <1>01, <1>02, <1>4 DEF CallbackShutsDown, Calls, InCallback
<1>5. CASE NewConnectionHere
  <2>1. conn.open /\ ~ conn.watched
    BY <1>5 DEF NewConnectionHere, Accepted, Fresh
  <2>2. Watch(conn, "IN") \in Connections /\ Watch(conn, "IN").open
    BY <1>0, <2>1, MembersTell
  <2>3. \A b : /\ [Watch(conn, "IN") EXCEPT !.status = "connected", !.inactive = b].open
               /\ [Watch(conn, "IN") EXCEPT !.status = "connected", !.inactive = b].status
                    = "connected"
    BY <2>2 DEF Connections
  <2>4. conn'.open /\ conn'.status = "connected"
    BY <1>5, <2>3, Zenon DEF NewConnectionHere
  <2>5. StatusTells(conn') /\ InLife(conn')
    BY <2>4 DEF StatusTells, InLife
  <2> QED BY <2>4, <2>5, LiveKept
<1>6. CASE ShutdownEnds
  <2>1. conn' = WatchOutput(conn) \/ conn' = conn
    BY <1>6 DEF ShutdownEnds
  <2>2. InLife(conn) /\ refs' = refs
    BY <1>02, <1>6 DEF ShutdownEnds, InDrain
  <2>3. conn'.status = conn.status /\ conn'.open = conn.open
    BY <1>0, <2>1, MembersTell
  <2>4. StatusTells(conn') /\ InLife(conn')
    BY <1>0, <2>2, <2>3 DEF StatusTells, InLife
  <2> QED BY <2>2, <2>3, <2>4, LiveKept
<1>7. CASE HandleReadData \/ HandleReadNothing \/ HandleWriteError \/ HandleClose \/ HandleEvent
  <2>1. conn'.status = conn.status /\ conn'.open = conn.open /\ conn'.watched = conn.watched
    BY <1>0, <1>7
    DEF HandleReadData, HandleReadNothing, HandleWriteError, HandleClose, HandleEvent, Connections
  <2>2. InLife(conn) /\ refs' = refs
    BY <1>02, <1>7
    DEF HandleReadData, HandleReadNothing, HandleWriteError, HandleClose, HandleEvent, At
  <2>3. StatusTells(conn') /\ InLife(conn')
    BY <1>0, <2>1, <2>2 DEF StatusTells, InLife
  <2> QED BY <2>1, <2>2, <2>3, LiveKept
<1>8. CASE HandleReadEnd
  BY <1>01, <1>02, <1>8 DEF HandleReadEnd, At
<1>9. CASE HandleWrite
  <2>1. PICK n \in 0 .. conn.outBuf :
          LET c == [conn EXCEPT !.outBuf = @ - n]
          IN conn' = IF c.outBuf = 0 THEN DisableWrite(c) ELSE c
    BY <1>9 DEF HandleWrite
  <2> DEFINE c == [conn EXCEPT !.outBuf = @ - n]
  <2>2. conn.outBuf - n \in Nat
    BY <1>0 DEF Connections
  <2>3. c \in Connections /\ c.status = conn.status /\ c.open = conn.open
    BY <1>0, <2>2 DEF Connections
  <2>4. conn' = DisableWrite(c) \/ conn' = c
    BY <2>1
  <2> HIDE DEF c
  <2>5. conn'.status = conn.status /\ conn'.open = conn.open
    BY <2>3, <2>4, MembersTell
  <2>6. InLife(conn) /\ refs' = refs
    BY <1>02, <1>9 DEF HandleWrite, At
  <2>7. StatusTells(conn') /\ InLife(conn')
    BY <1>0, <2>5, <2>6 DEF StatusTells, InLife
  <2> QED BY <2>5, <2>6, <2>7, LiveKept
<1>10. CASE EnableInactiveReleaseInLoop \/ CancelInactiveReleaseInLoop
            \/ CallbackEnables \/ CallbackCancels
  <2>1. conn'.status = conn.status /\ conn'.open = conn.open /\ conn'.watched = conn.watched
    BY <1>0, <1>10 DEF EnableInactiveReleaseInLoop, CancelInactiveReleaseInLoop,
       CallbackEnables, CallbackCancels, Connections
  <2>2. UNCHANGED <<stack, refs>>
    BY <1>10 DEF EnableInactiveReleaseInLoop, CancelInactiveReleaseInLoop,
       CallbackEnables, CallbackCancels
  <2>3. StatusTells(conn') /\ (InLife(conn) => InLife(conn'))
    BY <1>0, <2>1 DEF StatusTells, InLife
  <2> QED BY <1>02, <2>1, <2>2, <2>3, LiveKept
<1>11. CASE EstablishedInLoop
  <2>1. CASE conn.status # "connecting"
    <3>1. UNCHANGED <<conn, stack, refs>>
      BY <1>11, <2>1 DEF EstablishedInLoop
    <3> QED BY <1>0, <1>02, <3>1, LiveKept
  <2>2. CASE conn.status = "connecting"
    <3>1. Watch(conn, "IN") \in Connections /\ Watch(conn, "IN").open
      BY <1>0, <2>2, MembersTell DEF StatusTells
    <3>2. conn' = [Watch(conn, "IN") EXCEPT !.status = "connected"]
      BY <1>11, <2>2 DEF EstablishedInLoop
    <3>3. conn'.open /\ conn'.status = "connected"
      BY <3>1, <3>2 DEF Connections
    <3>4. StatusTells(conn') /\ InLife(conn')
      BY <3>3 DEF StatusTells, InLife
    <3> QED BY <3>3, <3>4, LiveKept
  <2> QED BY <2>1, <2>2
<1>12. CASE SendInLoop
  <2>1. Begins("Send") /\ conn' = AfterSendInLoop(conn) /\ UNCHANGED <<refs, stack>>
    BY <1>12 DEF SendInLoop
  <2>2. Has(func, "Send")
    BY <2>1, TailHas DEF Begins, TypeInv, TypeOK
  <2>3. conn.status # "connecting"
    BY <2>2 DEF Live
  <2> QED BY <1>0, <1>00, <1>02, <2>1, <2>3, MembersTell, ConnectionTypes
<1>13. ~ ShutdownInLoop
  <2>1. Begins("Shutdown") => Has(func, "Shutdown")
    BY TailHas DEF Begins, TypeInv, TypeOK
  <2> QED BY <2>1 DEF ShutdownInLoop, Live
<1>14. CASE ReleaseInLoop
  <2>1. "user" \in refs' => "user" \in refs
    BY <1>14 DEF ReleaseInLoop
  <2>2. StatusTells(conn') /\ conn'.status # "connecting"
    BY <1>0, <1>14, MembersTell DEF ReleaseInLoop
  <2>3. stack' = <<>>
    BY <1>14 DEF ReleaseInLoop, Begins, LoopIsFree
  <2> QED BY <2>1, <2>2, <2>3, LiveKept
<1> QED
  BY <1>1, <1>2, <1>3, <1>4, <1>5, <1>6, <1>7, <1>8, <1>9, <1>10, <1>11, <1>12, <1>13, <1>14
  DEF Next, UserCode, BaseThread, LoopThread

\* Whatever else other threads call, with or without a pool, callbacks of the
\* user run only between the connected and the closed callback: with the
\* assumption that no other thread shuts the connection down, which may come
\* after the release (ShutdownInLoop, EstablishedInLoop, ReleaseInLoop).
THEOREM CallbacksOnlyInLife ==
  ASSUME "Shutdown" \notin Foreign PROVE Spec => []CallbacksOnLiveConnection
<1>1. Init => Accepted /\ Live
  BY NothingHas DEF Init, Accepted, Fresh, Live, StatusTells
<1>2. TypeInv /\ Watching /\ Accepted /\ Live /\ [Next]_vars => Accepted' /\ Live'
  BY AcceptedStep, LiveStep
<1>3. TypeInv /\ Live => CallbacksOnLiveConnection
  BY DEF TypeInv, TypeOK, Connections, Statuses, Live, StatusTells, InLife,
     CallbacksOnLiveConnection
<1> QED BY <1>1, <1>2, <1>3, AlwaysWatching, PTL DEF Spec

-----------------------------------------------------------------------------
(* The timer and the end of the connection.                                 *)

\* Tasks run in their phase only.
TasksInTheirPhase == func # <<>> => phase = "run"

LEMMA PhaseStep == TypeInv /\ TasksInTheirPhase /\ [Next]_vars => TasksInTheirPhase'
<1> SUFFICES ASSUME TypeInv, TasksInTheirPhase, [Next]_vars PROVE TasksInTheirPhase'
  OBVIOUS
<1> USE DEF TasksInTheirPhase, loopVars
<1>1. CASE Environment \/ BaseThread \/ UserCode \/ UNCHANGED vars
  BY <1>1
  DEF Environment, PeerSends, PeerReads, PeerCloses, PeerResets, Tick, ForeignCall,
      UserDropsReference, BaseThread, NewConnectionHere, NewConnection, PostEstablished,
      RemoveConnectionInLoop, UserCode, CallbackConsumes, CallbackSends, CallbackShutsDown,
      CallbackReleases, CallbackEnables, CallbackCancels, CallbackReturns, vars
<1>2. CASE DrainCallsBack \/ ShutdownEnds \/ CloseEnds \/ OnTime \/ BeginHandleEvent
           \/ HandleReadData \/ HandleReadNothing \/ HandleReadEnd \/ HandleWrite
           \/ HandleWriteError \/ HandleClose \/ HandleEvent
  BY <1>2
  DEF DrainCallsBack, ShutdownEnds, CloseEnds, OnTime, BeginHandleEvent, HandleReadData,
      HandleReadNothing, HandleReadEnd, HandleWrite, HandleWriteError, HandleClose, HandleEvent
<1>3. CASE Poll \/ PollInterrupted \/ SwapTasks \/ NextTurn
  BY <1>3 DEF Poll, PollInterrupted, SwapTasks, NextTurn
<1>4. CASE RunOnDeadObject \/ EnableInactiveReleaseInLoop \/ CancelInactiveReleaseInLoop
           \/ EstablishedInLoop \/ SendInLoop \/ ShutdownInLoop \/ ReleaseInLoop
  BY <1>4
  DEF RunOnDeadObject, EnableInactiveReleaseInLoop, CancelInactiveReleaseInLoop,
      EstablishedInLoop, SendInLoop, ShutdownInLoop, ReleaseInLoop, Begins
<1> QED BY <1>1, <1>2, <1>3, <1>4 DEF Next, LoopThread

\* NewConnection posts the start of the timer before anything else, so nothing
\* has happened to the connection when it runs: where the task may be then, and
\* what else may be posted.
Starting ==
  \/ setup = "accepted" /\ tasks = <<>> /\ func = <<>>
  \/ setup = "created" /\ tasks = <<"Enable">> /\ func = <<>>
  \/ setup = "created" /\ tasks = <<>> /\ func = <<"Enable">>
  \/ setup = "done" /\ tasks = <<"Enable", "Established">> /\ func = <<>>
  \/ setup = "done" /\ tasks = <<"Established">> /\ func = <<"Enable">>
  \/ setup = "done" /\ tasks = <<>> /\ func = <<"Enable", "Established">>
Started == /\ setup # "accepted"
           /\ ~ Has(tasks, "Enable") /\ ~ Has(func, "Enable")
EnabledFirst == (Fresh /\ Starting) \/ Started

LEMMA EnabledFirstStep ==
  ASSUME "Enable" \notin Foreign, TypeInv, TasksInTheirPhase, EnabledFirst, [Next]_vars
  PROVE  EnabledFirst'
<1>1. CASE Started
  <2>1. Started'
    BY <1>1, WhoPosts DEF Started
  <2> QED BY <2>1 DEF EnabledFirst
<1>2. CASE Fresh /\ Starting
  <2>1. CASE Fresh' /\ UNCHANGED <<tasks, func, setup>>
    <3>1. Starting'
      BY <1>2, <2>1, Zenon DEF Starting
    <3> QED BY <2>1, <3>1 DEF EnabledFirst
  <2>2. CASE Fresh' /\ NewConnection
    <3>1. /\ setup' = "created" /\ func' = <<>>
          /\ tasks' = <<>> \/ tasks' = <<"Enable">>
      BY <1>2, <2>2 DEF NewConnection, Starting, loopVars
    <3> QED BY <2>2, <3>1, NothingHas DEF EnabledFirst, Starting, Started
  <2>3. CASE Fresh' /\ PostEstablished
    <3>1. setup' = "done" /\ func' = func /\ tasks' = Append(tasks, "Established")
      BY <2>3 DEF PostEstablished, loopVars
    <3>2. \/ tasks = <<"Enable">> /\ func = <<>>
          \/ tasks = <<>> /\ func = <<"Enable">>
      BY <1>2, <2>3 DEF PostEstablished, Starting
    <3>3. Append(<<>>, "Established") = <<"Established">>
      OBVIOUS
    <3>4. Append(<<"Enable">>, "Established") = <<"Enable", "Established">>
      BY AppendSecond
    <3> QED BY <2>3, <3>1, <3>2, <3>3, <3>4 DEF EnabledFirst, Starting
  <2>4. CASE Fresh' /\ SwapTasks
    <3>1. func = <<>> /\ func' = tasks /\ tasks' = <<>> /\ setup' = setup
      BY <2>4 DEF SwapTasks, TasksInTheirPhase
    <3> QED BY <1>2, <2>4, <3>1 DEF EnabledFirst, Starting
  <2>5. CASE NewConnectionHere
    <3>1. tasks' = <<>> /\ func' = <<>> /\ setup' = "done"
      BY <1>2, <2>5 DEF NewConnectionHere, Starting, loopVars
    <3> QED BY <3>1, NothingHas DEF EnabledFirst, Started
  <2>6. ASSUME NEW op \in Ops, Begins(op), UNCHANGED <<tasks, setup>> PROVE EnabledFirst'
    <3>1. func # <<>> /\ func' = Tail(func)
      BY <2>6 DEF Begins
    <3>2. func \in {<<"Enable">>, <<"Enable", "Established">>}
      BY <1>2, <3>1 DEF Starting
    <3>3. ~ Has(Tail(<<"Enable">>), "Enable")
      <4>1. Len(Tail(<<"Enable">>)) = 0
        OBVIOUS
      <4> QED BY <4>1 DEF Has
    <3>4. ~ Has(Tail(<<"Enable", "Established">>), "Enable")
      <4>1. Tail(<<"Enable", "Established">>) = <<"Established">>
        OBVIOUS
      <4> QED BY <4>1 DEF Has
    <3>5. setup' # "accepted" /\ tasks' \in {<<>>, <<"Established">>}
      BY <1>2, <2>6, <3>1 DEF Starting
    <3>6. ~ Has(<<>>, "Enable") /\ ~ Has(<<"Established">>, "Enable")
      BY DEF Has
    <3>7. ~ Has(func', "Enable") /\ ~ Has(tasks', "Enable")
      BY <3>1, <3>2, <3>3, <3>4, <3>5, <3>6
    <3> QED BY <3>5, <3>7 DEF EnabledFirst, Started
  <2> QED BY <1>2, <2>1, <2>2, <2>3, <2>4, <2>5, <2>6, FreshStep
<1> QED BY <1>1, <1>2 DEF EnabledFirst

\* Nothing but the start revives an entry of the wheel, or takes its
\* cancellation back.
Weaker(s, t) == (t.exists => s.exists) /\ (s.canceled => t.canceled)

LEMMA TimerWeakens ==
  ASSUME NEW t \in Timers
  PROVE  /\ Weaker(t, t) /\ Weaker(t, Refresh(t)) /\ Weaker(t, CancelTimer(t))
         /\ Weaker(t, Ticked(t)) /\ Weaker(t, [t EXCEPT !.expired = TRUE])
         /\ CancelTimer(t).exists => CancelTimer(t).canceled
<1>1. Weaker(t, t) /\ Weaker(t, Refresh(t)) /\ Weaker(t, [t EXCEPT !.expired = TRUE])
  BY DEF Weaker, Refresh, Timers
<1>2. /\ Weaker(t, CancelTimer(t))
      /\ CancelTimer(t).exists => CancelTimer(t).canceled
  BY DEF Weaker, CancelTimer, Timers
<1>3. Weaker(t, Ticked(t))
  <2>1. CASE t.exists
    BY <2>1 DEF Weaker, Ticked, Timers
  <2>2. CASE ~ t.exists
    BY <2>2 DEF Weaker, Ticked, Timers
  <2> QED BY <2>1, <2>2
<1> QED BY <1>1, <1>2, <1>3

\* Every step keeps a released connection without a live timer.
LEMMA TimerEndsStep ==
  ASSUME TypeInv, EnabledFirst, TimerEndsWithConnection, [Next]_vars,
         CallbacksOnLiveConnection \/ "Enable" \notin Nested
  PROVE  TimerEndsWithConnection'
<1>0. conn \in Connections /\ timer \in Timers
  BY DEF TypeInv, TypeOK
<1>00. ASSUME Weaker(timer, timer'), conn.open => conn'.open
       PROVE  TimerEndsWithConnection'
  BY <1>00, Zenon DEF TimerEndsWithConnection, Weaker
<1>01. ASSUME conn'.open PROVE TimerEndsWithConnection'
  BY <1>01 DEF TimerEndsWithConnection
<1> USE DEF loopVars
<1>1. CASE Environment
  <2>1. conn' = conn /\ (timer' = timer \/ timer' = [timer EXCEPT !.expired = TRUE])
    BY <1>1 DEF Environment, PeerSends, PeerReads, PeerCloses, PeerResets, Tick, ForeignCall,
       UserDropsReference
  <2> QED BY <1>0, <1>00, <2>1, TimerWeakens
<1>2. CASE NewConnection \/ PostEstablished \/ RemoveConnectionInLoop
           \/ CallbackConsumes \/ CallbackSends \/ CallbackShutsDown
           \/ CallbackReleases \/ CallbackReturns \/ DrainCallsBack \/ ShutdownEnds \/ CloseEnds \/ Poll \/ PollInterrupted
           \/ BeginHandleEvent \/ HandleReadData \/ HandleReadNothing \/ HandleReadEnd
           \/ HandleWriteError \/ HandleClose \/ SwapTasks \/ NextTurn \/ RunOnDeadObject
           \/ ShutdownInLoop \/ UNCHANGED vars
  <2>1. timer' = timer /\ conn'.open = conn.open
    <3>1. CASE CallbackSends
      BY <1>0, <3>1, MembersTell DEF CallbackSends
    <3>2. CASE ShutdownEnds
      BY <1>0, <3>2, MembersTell DEF ShutdownEnds
    <3>3. CASE NewConnection \/ PostEstablished \/ RemoveConnectionInLoop \/ CallbackConsumes
               \/ CallbackShutsDown \/ CallbackReleases \/ CallbackReturns
               \/ DrainCallsBack \/ CloseEnds
      BY <1>0, <3>3 DEF NewConnection, PostEstablished, RemoveConnectionInLoop,
         CallbackConsumes, CallbackShutsDown, CallbackReleases, CallbackReturns,
         DrainCallsBack, CloseEnds, Connections
    <3>4. CASE Poll \/ PollInterrupted \/ BeginHandleEvent \/ HandleReadData
               \/ HandleReadNothing \/ HandleReadEnd \/ HandleWriteError \/ HandleClose
      BY <1>0, <3>4 DEF Poll, PollInterrupted, BeginHandleEvent, HandleReadData,
         HandleReadNothing, HandleReadEnd, HandleWriteError, HandleClose, Connections
    <3>5. CASE SwapTasks \/ NextTurn \/ RunOnDeadObject \/ ShutdownInLoop \/ UNCHANGED vars
      BY <1>0, <3>5 DEF SwapTasks, NextTurn, RunOnDeadObject, ShutdownInLoop, vars, Connections
    <3> QED BY <1>2, <3>1, <3>2, <3>3, <3>4, <3>5
  <2> QED BY <1>0, <1>00, <2>1, TimerWeakens
<1>3. CASE NewConnectionHere
  <2>1. conn.open
    BY <1>3 DEF NewConnectionHere, EnabledFirst, Fresh, Started
  <2>2. Watch(conn, "IN") \in Connections /\ Watch(conn, "IN").open
    BY <1>0, <2>1, MembersTell
  <2>3. \A b : [Watch(conn, "IN") EXCEPT !.status = "connected", !.inactive = b].open
    BY <2>2 DEF Connections
  <2>4. conn'.open
    BY <1>3, <2>3, Zenon DEF NewConnectionHere
  <2> QED BY <1>01, <2>4
<1>4. CASE OnTime
  BY <1>0, <1>00, <1>4, TimerWeakens DEF OnTime
<1>5. CASE HandleWrite
  <2>1. PICK n \in 0 .. conn.outBuf :
          LET c == [conn EXCEPT !.outBuf = @ - n]
          IN conn' = IF c.outBuf = 0 THEN DisableWrite(c) ELSE c
    BY <1>5 DEF HandleWrite
  <2> DEFINE c == [conn EXCEPT !.outBuf = @ - n]
  <2>2. conn.outBuf - n \in Nat
    BY <1>0 DEF Connections
  <2>3. c \in Connections /\ c.open = conn.open
    BY <1>0, <2>2 DEF Connections
  <2>4. conn' = DisableWrite(c) \/ conn' = c
    BY <2>1
  <2> HIDE DEF c
  <2>5. conn'.open = conn.open /\ timer' = timer
    BY <1>5, <2>3, <2>4, MembersTell DEF HandleWrite
  <2> QED BY <1>0, <1>00, <2>5, TimerWeakens
<1>6. CASE HandleEvent
  <2>1. conn' = conn /\ (timer' = timer \/ timer' = Refresh(timer))
    BY <1>6 DEF HandleEvent
  <2> QED BY <1>0, <1>00, <2>1, TimerWeakens
<1>7. CASE EnableInactiveReleaseInLoop
  <2>1. Has(func, "Enable")
    BY <1>7, TailHas DEF EnableInactiveReleaseInLoop, Begins, TypeInv, TypeOK
  <2>2. conn.open
    BY <2>1 DEF EnabledFirst, Started, Fresh
  <2>3. conn'.open
    BY <1>0, <1>7, <2>2 DEF EnableInactiveReleaseInLoop, Connections
  <2> QED BY <1>01, <2>3
<1>8. CASE CancelInactiveReleaseInLoop \/ CallbackCancels
  <2>1. conn'.open = conn.open /\ timer' = CancelTimer(timer)
    BY <1>0, <1>8 DEF CancelInactiveReleaseInLoop, CallbackCancels, Connections
  <2> QED BY <1>0, <1>00, <2>1, TimerWeakens
<1>9. CASE EstablishedInLoop
  <2>1. conn' = [Watch(conn, "IN") EXCEPT !.status = "connected"] \/ conn' = conn
    BY <1>9 DEF EstablishedInLoop
  <2>2. Watch(conn, "IN") \in Connections /\ Watch(conn, "IN").open = conn.open
    BY <1>0, MembersTell
  <2>3. [Watch(conn, "IN") EXCEPT !.status = "connected"].open = conn.open
    BY <2>2 DEF Connections
  <2>4. conn'.open = conn.open /\ timer' = timer
    BY <1>9, <2>1, <2>3 DEF EstablishedInLoop
  <2> QED BY <1>0, <1>00, <2>4, TimerWeakens
<1>10. CASE SendInLoop
  <2>1. conn'.open = conn.open /\ timer' = timer
    BY <1>0, <1>10, MembersTell DEF SendInLoop
  <2> QED BY <1>0, <1>00, <2>1, TimerWeakens
<1>11. CASE ReleaseInLoop
  <2>1. timer' = CancelTimer(timer)
    BY <1>11 DEF ReleaseInLoop
  <2> QED BY <1>0, <2>1, TimerWeakens DEF TimerEndsWithConnection
<1>12. CASE CallbackEnables
  <2>1. stack # <<>> /\ "Enable" \in Nested
    BY <1>12 DEF CallbackEnables, Calls, InCallback
  <2>2. conn.open
    BY <2>1 DEF CallbacksOnLiveConnection
  <2>3. conn'.open
    BY <1>0, <1>12, <2>2 DEF CallbackEnables, Connections
  <2> QED BY <1>01, <2>3
<1> QED
  BY <1>1, <1>2, <1>3, <1>4, <1>5, <1>6, <1>7, <1>8, <1>9, <1>10, <1>11, <1>12
  DEF Next, UserCode, BaseThread, LoopThread

\* A released connection leaves no live timer behind, whatever the timeout and
\* whatever is called, with one exception: the code does not refuse to start the
\* timer again after the release (EnableInactiveReleaseInLoop, ReleaseInLoop), so
\* no other thread does, nor a callback if other threads shut connections down,
\* for then it may be called after the release.  NewConnection posts the start of
\* the timer before anything else.
THEOREM NoTimerAfterRelease ==
  ASSUME "Enable" \notin Foreign, "Enable" \notin Nested \/ "Shutdown" \notin Foreign
  PROVE  Spec => []TimerEndsWithConnection
<1>1. Init => TasksInTheirPhase /\ EnabledFirst /\ TimerEndsWithConnection
  BY DEF Init, TasksInTheirPhase, EnabledFirst, Fresh, Starting, TimerEndsWithConnection
<1>2. TypeInv /\ TasksInTheirPhase /\ EnabledFirst /\ [Next]_vars
        => TasksInTheirPhase' /\ EnabledFirst'
  BY PhaseStep, EnabledFirstStep
<1>3. CASE "Enable" \notin Nested
  <2>1. TypeInv /\ EnabledFirst /\ TimerEndsWithConnection /\ [Next]_vars
          => TimerEndsWithConnection'
    BY <1>3, TimerEndsStep
  <2> QED BY <1>1, <1>2, <2>1, AlwaysTyped, PTL DEF Spec
<1>4. CASE "Shutdown" \notin Foreign
  <2>1. TypeInv /\ EnabledFirst /\ TimerEndsWithConnection
          /\ CallbacksOnLiveConnection /\ [Next]_vars => TimerEndsWithConnection'
    BY TimerEndsStep
  <2>2. Spec => []CallbacksOnLiveConnection
    BY <1>4, CallbacksOnlyInLife
  <2> QED BY <1>1, <1>2, <2>1, <2>2, AlwaysTyped, PTL DEF Spec
<1> QED BY <1>3, <1>4

=============================================================================
