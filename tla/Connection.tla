----------------------------- MODULE Connection -----------------------------
(***************************************************************************)
(* source/Connection.hpp: one accepted connection, from NewConnection to   *)
(* the destruction of the object, on its event loop.  The parts of the     *)
(* system it drives are here as it sees them: its Channel and the Poller   *)
(* (interest, reported events, one batch of active channels, then one      *)
(* batch of tasks), its Socket and the kernel behind it, its inactivity    *)
(* timer (Timers.tla says what the wheel does), the user's callbacks, the  *)
(* other threads that call it, and the server's map of connections.        *)
(*                                                                         *)
(* Bytes are counted, not named.  The code that can be re-entered (a       *)
(* message callback may call Shutdown(), which calls the message callback) *)
(* runs on an explicit stack of frames.                                    *)
(***************************************************************************)
EXTENDS Naturals, Sequences

CONSTANTS
  OnBaseLoop,    \* no thread pool: the connection lives on the base loop
  Timeout,       \* ticks of EnableInactiveRelease; 0: it is not enabled
  Foreign,       \* what other threads call: "Send", "Shutdown", "Cancel",
                 \* "Enable", "Release"
  Nested,        \* which of these the user's callbacks call
  Resets,        \* the peer may reset the connection
  Interrupts,    \* signals may interrupt epoll_wait
  MaxIn,         \* bound: bytes the peer sends
  MaxSpace,      \* bound: bytes the kernel buffers for sending
  MaxCalls,      \* bound: calls of the user, from callbacks and other threads
  MaxDepth       \* bound: frames on the stack

ASSUME ConnectionAssumption ==
  /\ OnBaseLoop \in BOOLEAN /\ Resets \in BOOLEAN /\ Interrupts \in BOOLEAN
  /\ Timeout \in Nat /\ MaxIn \in Nat /\ MaxCalls \in Nat /\ MaxDepth \in Nat
  /\ MaxSpace \in Nat \ {0}
  /\ Foreign \cup Nested \subseteq {"Send", "Shutdown", "Cancel", "Enable", "Release"}
  /\ "Enable" \in Foreign \cup Nested => Timeout > 0

VARIABLES
  conn,      \* the Connection object, its Channel and its Socket
  timer,     \* the entry of the timer wheel under _conn_id
  sock,      \* the kernel's side of the socket
  retry,     \* errno of the loop's thread is EINTR or EAGAIN
  phase,     \* the loop: "poll", "handle" or "run"
  actives,   \* reported channels not handled yet: "conn", "timer"
  revents,   \* _tri_events of the connection's channel
  step,      \* where Channel::HandleEvent is: "none", "read", "io", "event"
  stack,     \* callbacks and drain loops that are running, innermost last
  tasks,     \* the loop's task queue, as far as it is about the connection
  func,      \* the tasks being run
  refs,      \* who holds a shared_ptr: "server", "user", "removal"
  setup,     \* how far NewConnection has come
  undefined, \* a failed assertion, or a member function of a dead object
  hist       \* history: counters and flags the properties speak of

vars == <<conn, timer, sock, retry, phase, actives, revents, step, stack, tasks,
          func, refs, setup, undefined, hist>>
loopVars == <<phase, actives, revents, step, func>>

Statuses == {"connecting", "connected", "disconnecting", "disconnected"}
Ops == {"Established", "Release", "Send", "Shutdown", "Cancel"}
       \cup (IF Timeout > 0 THEN {"Enable"} ELSE {})
NoCallYet == MaxIn + 1
Connections ==
  [status : Statuses, inBuf : 0 .. MaxIn, outBuf : Nat, interest : SUBSET {"IN", "OUT"},
   watched : BOOLEAN, open : BOOLEAN, inactive : BOOLEAN]
Timers ==
  [exists : BOOLEAN, canceled : BOOLEAN, left : 0 .. Timeout, expired : BOOLEAN]
Sockets ==
  [inbound : 0 .. MaxIn, sent : 0 .. MaxIn, space : 0 .. MaxSpace,
   peer : {"open", "closed", "reset", "gone"}]
Histories == [calls : Nat, releases : Nat, forced : BOOLEAN, late : BOOLEAN]
Frames == [at : {"callback", "event", "shutdown", "release"}, seen : 0 .. NoCallYet]

Init ==
  /\ conn = [status |-> "connecting", inBuf |-> 0, outBuf |-> 0, interest |-> {},
             watched |-> FALSE, open |-> TRUE, inactive |-> FALSE]
  /\ timer = [exists |-> FALSE, canceled |-> FALSE, left |-> 0, expired |-> FALSE]
  /\ sock = [inbound |-> 0, sent |-> 0, space |-> MaxSpace, peer |-> "open"]
  /\ retry = FALSE
  /\ phase = "handle" /\ actives = {} /\ revents = {} /\ step = "none"
  /\ stack = <<>> /\ tasks = <<>> /\ func = <<>>
  /\ refs = {} /\ setup = "accepted"
  /\ undefined = FALSE
  /\ hist = [calls |-> 0, releases |-> 0, forced |-> FALSE, late |-> FALSE]

-----------------------------------------------------------------------------
(* What the member functions do to the object.                              *)

\* Channel::EnableRead / EnableWrite: Update() puts a channel the poller does
\* not know into its map.
Watch(c, e) == [c EXCEPT !.interest = @ \cup {e}, !.watched = TRUE]
DisableWrite(c) == [c EXCEPT !.interest = @ \ {"OUT"}, !.watched = TRUE]

\* "if(!_channel.Writeable()) _channel.EnableWrite()"
WatchOutput(c) == IF "OUT" \in c.interest THEN c ELSE Watch(c, "OUT")

\* SendInLoop: ignored after the release.
AfterSendInLoop(c) == IF c.status = "disconnected" THEN c
                      ELSE WatchOutput([c EXCEPT !.outBuf = @ + 1])

\* TimerWheel: an entry, cancelled or not, is refreshed or cancelled; one
\* that is not there is left alone.
Refresh(t) == IF t.exists THEN [t EXCEPT !.left = Timeout] ELSE t
CancelTimerMutant(t) == t
CancelTimer(t) == IF t.exists THEN [t EXCEPT !.canceled = TRUE] ELSE t

\* EnableInactiveReleaseInLoop
AfterEnableMutant(t) == Refresh(t)
AfterEnable(t) ==
  IF t.exists THEN Refresh(t)
  ELSE [t EXCEPT !.exists = TRUE, !.canceled = FALSE, !.left = Timeout]

\* ReleaseInLoop up to the callbacks: unwatch, then close.
AfterRelease(c) ==
  [c EXCEPT !.status = "disconnected", !.watched = FALSE, !.open = FALSE,
            !.inactive = IF timer.exists THEN FALSE ELSE @]

\* Frames: user code, which the callback of any event is without the input buffer,
\* and "while(_in_buf.ReadableSize() > 0)" with what comes after it.  seen is prevent
\* of the last turn.
Callback == [at |-> "callback", seen |-> 0]
EventCallback == [at |-> "event", seen |-> 0]
Drain(then) == [at |-> then, seen |-> NoCallYet]
Top == stack[Len(stack)]
Pop == SubSeq(stack, 1, Len(stack) - 1)

\* A release has been posted, or run.
HasRelease(q) == \E k \in 1 .. Len(q) : q[k] = "Release"
Posted == HasRelease(tasks) \/ HasRelease(func) \/ hist.releases > 0

Runs == ~ undefined
LoopIsFree == Runs /\ step = "none" /\ stack = <<>>
Alive == refs # {}
\* The loop's thread is in a member function of the object.
InUse == stack # <<>> \/ step # "none"

-----------------------------------------------------------------------------
(* TcpServer::NewConnection, on the base loop's thread.                     *)

\* Without a pool everything it calls runs on the spot, the connected
\* callback last.
NewConnectionHere ==
  /\ OnBaseLoop /\ setup = "accepted"
  /\ LoopIsFree /\ phase = "handle"
  /\ conn' = [Watch(conn, "IN") EXCEPT !.status = "connected",
                                       !.inactive = Timeout > 0]
  /\ timer' = IF Timeout > 0 THEN AfterEnable(timer) ELSE timer
  /\ refs' = {"server"} \cup (IF Foreign # {} THEN {"user"} ELSE {})
  /\ stack' = <<Callback>>
  /\ setup' = "done"
  /\ UNCHANGED <<sock, retry, loopVars, tasks, undefined, hist>>

\* With a pool it posts to the connection's loop, first the timer ...
NewConnection ==
  /\ ~ OnBaseLoop /\ setup = "accepted" /\ Runs
  /\ refs' = {"server"}
  /\ tasks' = IF Timeout > 0 THEN Append(tasks, "Enable") ELSE tasks
  /\ setup' = "created"
  /\ UNCHANGED <<conn, timer, sock, retry, loopVars, stack, undefined, hist>>

\* ... then, at the end, Established().
PostEstablished ==
  /\ setup = "created" /\ Runs
  /\ tasks' = Append(tasks, "Established")
  /\ setup' = "done"
  /\ UNCHANGED <<conn, timer, sock, retry, loopVars, stack, refs, undefined, hist>>

\* RemoveConnectionInLoop, posted to the base loop by ReleaseInLoop.
RemoveConnectionInLoop ==
  /\ "removal" \in refs /\ Runs
  /\ refs' = refs \ {"removal", "server"}
  /\ undefined' = (refs' = {} /\ InUse)
  /\ UNCHANGED <<conn, timer, sock, retry, loopVars, stack, tasks, setup, hist>>

-----------------------------------------------------------------------------
(* The peer, the network, time.                                             *)

PeerSends ==
  /\ sock.peer = "open" /\ conn.open /\ Runs
  /\ sock.sent < MaxIn
  /\ sock' = [sock EXCEPT !.inbound = @ + 1, !.sent = @ + 1]
  /\ UNCHANGED <<conn, timer, retry, loopVars, stack, tasks, refs, setup, undefined,
                 hist>>

PeerReads ==
  /\ conn.open /\ Runs
  /\ sock.space < MaxSpace
  /\ sock' = [sock EXCEPT !.space = @ + 1]
  /\ UNCHANGED <<conn, timer, retry, loopVars, stack, tasks, refs, setup, undefined,
                 hist>>

PeerCloses ==
  /\ sock.peer = "open" /\ conn.open /\ Runs
  /\ sock' = [sock EXCEPT !.peer = "closed"]
  /\ UNCHANGED <<conn, timer, retry, loopVars, stack, tasks, refs, setup, undefined,
                 hist>>

PeerResets ==
  /\ Resets /\ sock.peer \in {"open", "closed"} /\ conn.open /\ Runs
  /\ sock' = [sock EXCEPT !.peer = "reset"]
  /\ UNCHANGED <<conn, timer, retry, loopVars, stack, tasks, refs, setup, undefined,
                 hist>>

\* A second passes (it matters while there is an entry in the wheel).
Tick ==
  /\ timer.exists /\ ~ timer.expired /\ Runs
  /\ timer' = [timer EXCEPT !.expired = TRUE]
  /\ UNCHANGED <<conn, sock, retry, loopVars, stack, tasks, refs, setup, undefined,
                 hist>>

-----------------------------------------------------------------------------
(* Calls of the user: of other threads, which post, and of callbacks.       *)

MayCall == Runs /\ hist.calls < MaxCalls
Called == [hist EXCEPT !.calls = @ + 1]

\* Another thread that holds a shared_ptr; the posted task holds none.
ForeignCall(op) ==
  /\ op \in Foreign /\ "user" \in refs /\ MayCall
  /\ tasks' = Append(tasks, op)
  /\ hist' = [Called EXCEPT !.forced = @ \/ op = "Release"]
  /\ UNCHANGED <<conn, timer, sock, retry, loopVars, stack, refs, setup, undefined>>

UserDropsReference ==
  /\ "user" \in refs /\ Runs
  /\ refs' = refs \ {"user"}
  /\ undefined' = (refs' = {} /\ InUse)
  /\ UNCHANGED <<conn, timer, sock, retry, loopVars, stack, tasks, setup, hist>>

InCallback == Runs /\ stack # <<>> /\ Top.at \in {"callback", "event"}
Calls(op) == InCallback /\ op \in Nested /\ MayCall

\* The message callback takes bytes out of the input buffer.
CallbackConsumes ==
  /\ InCallback /\ Top.at = "callback"
  /\ \E n \in 0 .. conn.inBuf - 1 : conn' = [conn EXCEPT !.inBuf = n]
  /\ UNCHANGED <<timer, sock, retry, loopVars, stack, tasks, refs, setup, undefined,
                 hist>>

CallbackSends ==
  /\ Calls("Send")
  /\ conn' = AfterSendInLoop(conn)
  /\ hist' = [Called EXCEPT !.late = @ \/ Posted]
  /\ UNCHANGED <<timer, sock, retry, loopVars, stack, tasks, refs, setup, undefined>>

CallbackShutsDown ==
  /\ Calls("Shutdown")
  /\ Len(stack) < MaxDepth
  /\ conn' = [conn EXCEPT !.status = "disconnecting"]
  /\ stack' = Append(stack, Drain("shutdown"))
  /\ hist' = Called
  /\ UNCHANGED <<timer, sock, retry, loopVars, tasks, refs, setup, undefined>>

\* Release() is posted even so; the other two run on the spot.
CallbackReleases ==
  /\ Calls("Release")
  /\ tasks' = Append(tasks, "Release")
  /\ hist' = [Called EXCEPT !.forced = TRUE]
  /\ UNCHANGED <<conn, timer, sock, retry, loopVars, stack, refs, setup, undefined>>

CallbackEnables ==
  /\ Calls("Enable")
  /\ conn' = [conn EXCEPT !.inactive = TRUE]
  /\ timer' = AfterEnable(timer)
  /\ hist' = Called
  /\ UNCHANGED <<sock, retry, loopVars, stack, tasks, refs, setup, undefined>>

CallbackCancels ==
  /\ Calls("Cancel")
  /\ conn' = [conn EXCEPT !.inactive = FALSE]
  /\ timer' = CancelTimer(timer)
  /\ hist' = Called
  /\ UNCHANGED <<sock, retry, loopVars, stack, tasks, refs, setup, undefined>>

CallbackReturns ==
  /\ InCallback
  /\ stack' = Pop
  /\ UNCHANGED <<conn, timer, sock, retry, loopVars, tasks, refs, setup, undefined,
                 hist>>

-----------------------------------------------------------------------------
(* The drain loops, and what follows them.                                  *)

InDrain == Runs /\ stack # <<>> /\ Top.at \in {"shutdown", "release"}
DrainGoesOn == conn.inBuf > 0 /\ conn.inBuf # Top.seen

DrainCallsBack ==
  /\ InDrain /\ DrainGoesOn
  /\ stack' = Append([stack EXCEPT ![Len(stack)].seen = conn.inBuf], Callback)
  /\ UNCHANGED <<conn, timer, sock, retry, loopVars, tasks, refs, setup, undefined,
                 hist>>

\* ShutdownInLoop waits for the output to be sent, if there is some.
ShutdownEndsMutant ==
  /\ InDrain /\ ~ DrainGoesOn /\ Top.at = "shutdown"
  /\ stack' = Pop
  /\ tasks' = Append(tasks, "Release")
  /\ UNCHANGED <<conn, timer, sock, retry, loopVars, refs, setup, undefined, hist>>
ShutdownStuckMutant ==
  /\ InDrain /\ ~ DrainGoesOn /\ Top.at = "shutdown"
  /\ stack' = Pop
  /\ UNCHANGED <<conn, timer, sock, retry, loopVars, tasks, refs, setup, undefined,
                 hist>>
ShutdownNowMutant ==
  /\ InDrain /\ ~ DrainGoesOn /\ Top.at = "shutdown"
  /\ stack' = Pop
  /\ conn' = IF conn.outBuf > 0 THEN WatchOutput(conn) ELSE AfterRelease(conn)
  /\ UNCHANGED <<timer, sock, retry, loopVars, tasks, refs, setup, undefined, hist>>
ShutdownEnds ==
  /\ InDrain /\ ~ DrainGoesOn /\ Top.at = "shutdown"
  /\ stack' = Pop
  /\ IF conn.outBuf > 0
       THEN conn' = WatchOutput(conn) /\ UNCHANGED tasks
       ELSE tasks' = Append(tasks, "Release") /\ UNCHANGED conn
  /\ UNCHANGED <<timer, sock, retry, loopVars, refs, setup, undefined, hist>>

\* HandleClose, and HandleWrite after an error, release.
CloseEnds ==
  /\ InDrain /\ ~ DrainGoesOn /\ Top.at = "release"
  /\ stack' = Pop
  /\ tasks' = Append(tasks, "Release")
  /\ hist' = [hist EXCEPT !.forced = TRUE]
  /\ UNCHANGED <<conn, timer, sock, retry, loopVars, refs, setup, undefined>>

-----------------------------------------------------------------------------
(* The loop: poll, handle the active channels, run the tasks.               *)

\* What epoll reports for the connection; errors and hang-ups need no
\* interest.  A reset leaves an error, which the next failing call takes away
\* ("gone"), and a hang-up, which stays.
Reset == sock.peer \in {"reset", "gone"}
Readable == sock.inbound > 0 \/ sock.peer # "open"
Writable == sock.space > 0 \/ Reset
Events ==
  IF ~ (conn.watched /\ conn.open) THEN {}
  ELSE {e \in conn.interest : (e = "IN" => Readable) /\ (e = "OUT" => Writable)}
       \cup (IF sock.peer = "reset" THEN {"ERR"} ELSE {})
       \cup (IF Reset THEN {"HUP"} ELSE {})
Reported == (IF Events # {} THEN {"conn"} ELSE {})
            \cup (IF timer.expired THEN {"timer"} ELSE {})

\* A posted task wakes the loop up (EventLoop.tla).
Poll ==
  /\ phase = "poll" /\ Runs
  /\ Reported # {} \/ tasks # <<>>
  /\ actives' = Reported
  /\ revents' = Events
  /\ phase' = "handle"
  /\ UNCHANGED <<conn, timer, sock, retry, step, stack, tasks, func, refs, setup,
                 undefined, hist>>

PollInterrupted ==
  /\ Interrupts /\ phase = "poll" /\ Runs
  /\ Reported = {} /\ tasks = <<>>
  /\ retry' = TRUE
  /\ phase' = "handle"
  /\ UNCHANGED <<conn, timer, sock, actives, revents, step, stack, tasks, func, refs,
                 setup, undefined, hist>>

\* One tick of the wheel: an entry that is due goes, and fires unless it is
\* cancelled.  The timer's callback is Release().
Ticked(t) ==
  IF t.exists THEN [t EXCEPT !.expired = FALSE, !.exists = t.left > 1, !.left = @ - 1]
  ELSE [t EXCEPT !.expired = FALSE]

OnTime ==
  /\ LoopIsFree /\ phase = "handle" /\ "timer" \in actives
  /\ actives' = actives \ {"timer"}
  /\ timer' = Ticked(timer)
  /\ IF timer.exists /\ timer.left = 1 /\ ~ timer.canceled
       THEN /\ tasks' = Append(tasks, "Release")
            /\ hist' = [hist EXCEPT !.forced = TRUE]
       ELSE UNCHANGED <<tasks, hist>>
  /\ UNCHANGED <<conn, sock, retry, phase, revents, step, stack, func, refs, setup,
                 undefined>>

\* Channel::HandleEvent.  First the read callback, if it is called for.
BeginHandleEvent ==
  /\ LoopIsFree /\ phase = "handle" /\ "conn" \in actives
  /\ actives' = actives \ {"conn"}
  /\ step' = IF "IN" \in revents THEN "read" ELSE "io"
  /\ UNCHANGED <<conn, timer, sock, retry, phase, revents, stack, tasks, func, refs,
                 setup, undefined, hist>>

At(s) == Runs /\ stack = <<>> /\ step = s

\* HandleRead with data: all of it goes to the input buffer.
HandleReadData ==
  /\ At("read") /\ sock.inbound > 0
  /\ conn' = [conn EXCEPT !.inBuf = @ + sock.inbound]
  /\ sock' = [sock EXCEPT !.inbound = 0]
  /\ stack' = <<Callback>>
  /\ step' = "io"
  /\ UNCHANGED <<timer, retry, phase, actives, revents, tasks, func, refs, setup,
                 undefined, hist>>

\* Socket::Recv looks at errno whenever recv returns 0 or less.  recv fails
\* with an errno of its own after a reset; at the end of the stream it returns
\* 0, and errno is whatever the last failing call has left there.
RecvLooksEmptyMutant == sock.peer # "reset"
RecvLooksEmpty == sock.peer # "reset" /\ retry

\* No data and no end, it seems: what is in the input buffer is processed.
HandleReadNothing ==
  /\ At("read") /\ sock.inbound = 0
  /\ RecvLooksEmpty
  /\ stack' = IF conn.inBuf > 0 THEN <<Callback>> ELSE <<>>
  /\ step' = "io"
  /\ UNCHANGED <<conn, timer, sock, retry, phase, actives, revents, tasks, func, refs,
                 setup, undefined, hist>>

\* The end, or an error: ShutdownInLoop.
HandleReadEnd ==
  /\ At("read") /\ sock.inbound = 0
  /\ ~ RecvLooksEmpty
  /\ conn' = [conn EXCEPT !.status = "disconnecting"]
  /\ sock' = IF sock.peer = "reset" THEN [sock EXCEPT !.peer = "gone"] ELSE sock
  /\ retry' = (retry /\ sock.peer # "reset")
  /\ stack' = <<Drain("shutdown")>>
  /\ step' = "io"
  /\ UNCHANGED <<timer, phase, actives, revents, tasks, func, refs, setup, undefined,
                 hist>>

\* Then one of the write, error and close callbacks: HandleWrite ...
HandleWriteMutant ==
  /\ At("io") /\ "OUT" \in revents
  /\ ~ (Reset /\ conn.outBuf > 0)
  /\ \E n \in 0 .. conn.outBuf :
       /\ n = 0 <=> conn.outBuf = 0
       /\ n <= sock.space
       /\ sock' = [sock EXCEPT !.space = @ - n]
       /\ conn' = [conn EXCEPT !.outBuf = @ - n]
       /\ tasks' = IF n = conn.outBuf /\ conn.status = "disconnecting"
                     THEN Append(tasks, "Release") ELSE tasks
  /\ step' = "event"
  /\ UNCHANGED <<timer, retry, phase, actives, revents, stack, func, refs, setup,
                 undefined, hist>>
HandleWritePartialMutant ==
  /\ At("io") /\ "OUT" \in revents
  /\ ~ (Reset /\ conn.outBuf > 0)
  /\ \E n \in 0 .. conn.outBuf :
       /\ n = 0 <=> conn.outBuf = 0
       /\ n <= sock.space
       /\ sock' = [sock EXCEPT !.space = @ - n]
       /\ conn' = DisableWrite([conn EXCEPT !.outBuf = @ - n])
       /\ tasks' = IF n = conn.outBuf /\ conn.status = "disconnecting"
                     THEN Append(tasks, "Release") ELSE tasks
  /\ step' = "event"
  /\ UNCHANGED <<timer, retry, phase, actives, revents, stack, func, refs, setup,
                 undefined, hist>>
HandleWrite ==
  /\ At("io") /\ "OUT" \in revents
  /\ ~ (Reset /\ conn.outBuf > 0)
  /\ \E n \in 0 .. conn.outBuf :
       /\ n = 0 <=> conn.outBuf = 0
       /\ n <= sock.space
       /\ sock' = [sock EXCEPT !.space = @ - n]
       /\ LET c == [conn EXCEPT !.outBuf = @ - n]
          IN conn' = IF c.outBuf = 0 THEN DisableWrite(c) ELSE c
       /\ tasks' = IF n = conn.outBuf /\ conn.status = "disconnecting"
                     THEN Append(tasks, "Release") ELSE tasks
  /\ step' = "event"
  /\ UNCHANGED <<timer, retry, phase, actives, revents, stack, func, refs, setup,
                 undefined, hist>>

HandleWriteError ==
  /\ At("io") /\ "OUT" \in revents
  /\ Reset /\ conn.outBuf > 0
  /\ sock' = [sock EXCEPT !.peer = "gone"]
  /\ retry' = FALSE
  /\ stack' = <<Drain("release")>>
  /\ step' = "event"
  /\ UNCHANGED <<conn, timer, phase, actives, revents, tasks, func, refs, setup,
                 undefined, hist>>

\* ... or HandleError, HandleClose ...
HandleClose ==
  /\ At("io") /\ "OUT" \notin revents
  /\ stack' = IF revents \cap {"ERR", "HUP"} # {} THEN <<Drain("release")>> ELSE <<>>
  /\ step' = "event"
  /\ UNCHANGED <<conn, timer, sock, retry, phase, actives, revents, tasks, func, refs,
                 setup, undefined, hist>>

\* ... and last HandleEvent: any event is activity, and the user's callback for it,
\* if there is one, is called.
HandleEvent ==
  /\ At("event")
  /\ timer' = IF conn.inactive THEN Refresh(timer) ELSE timer
  /\ stack' \in {<<>>, <<EventCallback>>}
  /\ step' = "none"
  /\ UNCHANGED <<conn, sock, retry, phase, actives, revents, tasks, func, refs,
                 setup, undefined, hist>>

SwapTasks ==
  /\ LoopIsFree /\ phase = "handle" /\ actives = {}
  /\ func' = tasks /\ tasks' = <<>>
  /\ phase' = "run"
  /\ UNCHANGED <<conn, timer, sock, retry, actives, revents, step, stack, refs, setup,
                 undefined, hist>>

NextTurn ==
  /\ LoopIsFree /\ phase = "run" /\ func = <<>>
  /\ phase' = "poll"
  /\ UNCHANGED <<conn, timer, sock, retry, actives, revents, step, stack, tasks, func,
                 refs, setup, undefined, hist>>

-----------------------------------------------------------------------------
(* The tasks.  Each is bound to the bare object.                            *)

Begins(op) ==
  /\ LoopIsFree /\ phase = "run" /\ func # <<>>
  /\ Head(func) = op
  /\ func' = Tail(func)

RunOnDeadObject ==
  /\ \E op \in Ops : Begins(op)
  /\ ~ Alive
  /\ undefined' = TRUE
  /\ hist' = IF Head(func) = "Release" THEN [hist EXCEPT !.releases = @ + 1] ELSE hist
  /\ UNCHANGED <<conn, timer, sock, retry, phase, actives, revents, step, stack, tasks,
                 refs, setup>>

EnableInactiveReleaseInLoop ==
  /\ Begins("Enable") /\ Alive
  /\ conn' = [conn EXCEPT !.inactive = TRUE]
  /\ timer' = AfterEnable(timer)
  /\ UNCHANGED <<sock, retry, phase, actives, revents, step, stack, tasks, refs, setup,
                 undefined, hist>>

CancelInactiveReleaseInLoop ==
  /\ Begins("Cancel") /\ Alive
  /\ conn' = [conn EXCEPT !.inactive = FALSE]
  /\ timer' = CancelTimer(timer)
  /\ UNCHANGED <<sock, retry, phase, actives, revents, step, stack, tasks, refs, setup,
                 undefined, hist>>

\* With the assertion that the status is CONNECTING.
EstablishedInLoop ==
  /\ Begins("Established") /\ Alive
  /\ IF conn.status # "connecting"
       THEN undefined' = TRUE /\ UNCHANGED <<conn, stack, refs>>
       ELSE /\ conn' = [Watch(conn, "IN") EXCEPT !.status = "connected"]
            /\ stack' = <<Callback>>
            /\ refs' = refs \cup (IF Foreign # {} THEN {"user"} ELSE {})
            /\ UNCHANGED undefined
  /\ UNCHANGED <<timer, sock, retry, phase, actives, revents, step, tasks, setup, hist>>

SendInLoop ==
  /\ Begins("Send") /\ Alive
  /\ conn' = AfterSendInLoop(conn)
  /\ hist' = [hist EXCEPT !.late = @ \/ Posted]
  /\ UNCHANGED <<timer, sock, retry, phase, actives, revents, step, stack, tasks, refs,
                 setup, undefined>>

ShutdownInLoop ==
  /\ Begins("Shutdown") /\ Alive
  /\ conn' = [conn EXCEPT !.status = "disconnecting"]
  /\ stack' = <<Drain("shutdown")>>
  /\ UNCHANGED <<timer, sock, retry, phase, actives, revents, step, tasks, refs, setup,
                 undefined, hist>>

\* The closed callback makes no calls.  RemoveConnection runs on the spot, or
\* is posted to the base loop with a shared_ptr of its own.
ReleaseInLoop ==
  /\ Begins("Release") /\ Alive
  /\ conn' = AfterRelease(conn)
  /\ timer' = CancelTimer(timer)
  /\ refs' = IF OnBaseLoop THEN refs \ {"server"} ELSE refs \cup {"removal"}
  /\ hist' = [hist EXCEPT !.releases = @ + 1]
  /\ UNCHANGED <<sock, retry, phase, actives, revents, step, stack, tasks, setup,
                 undefined>>

-----------------------------------------------------------------------------

Environment ==
  \/ PeerSends \/ PeerReads \/ PeerCloses \/ PeerResets \/ Tick
  \/ \E op \in Foreign : ForeignCall(op)
  \/ UserDropsReference

UserCode ==
  \/ CallbackConsumes \/ CallbackSends \/ CallbackShutsDown \/ CallbackReleases
  \/ CallbackEnables \/ CallbackCancels \/ CallbackReturns

BaseThread ==
  NewConnectionHere \/ NewConnection \/ PostEstablished \/ RemoveConnectionInLoop

LoopThread ==
  \/ DrainCallsBack \/ ShutdownEnds \/ CloseEnds
  \/ Poll \/ OnTime \/ BeginHandleEvent
  \/ HandleReadData \/ HandleReadNothing \/ HandleReadEnd
  \/ HandleWrite \/ HandleWriteError \/ HandleClose \/ HandleEvent
  \/ SwapTasks \/ NextTurn
  \/ RunOnDeadObject \/ EnableInactiveReleaseInLoop \/ CancelInactiveReleaseInLoop
  \/ EstablishedInLoop \/ SendInLoop \/ ShutdownInLoop \/ ReleaseInLoop

Next == Environment \/ UserCode \/ BaseThread \/ LoopThread \/ PollInterrupted

Spec == Init /\ [][Next]_vars

\* The threads are scheduled, callbacks return, seconds pass, and the peer's
\* side goes on taking what was sent to it.
FairSpec ==
  /\ Spec
  /\ WF_vars(LoopThread) /\ WF_vars(BaseThread) /\ WF_vars(CallbackReturns)
  /\ WF_vars(PeerReads) /\ WF_vars(Tick)

-----------------------------------------------------------------------------
(* Properties.                                                              *)

\* Every variable has its type, and no byte of the peer is received twice.
TypeOK ==
  /\ conn \in Connections /\ timer \in Timers /\ sock \in Sockets /\ hist \in Histories
  /\ retry \in BOOLEAN /\ undefined \in BOOLEAN
  /\ phase \in {"poll", "handle", "run"}
  /\ actives \subseteq {"conn", "timer"}
  /\ revents \subseteq {"IN", "OUT", "ERR", "HUP"}
  /\ step \in {"none", "read", "io", "event"}
  /\ stack \in Seq(Frames)
  /\ tasks \in Seq(Ops) /\ func \in Seq(Ops)
  /\ refs \subseteq {"server", "user", "removal"}
  /\ setup \in {"accepted", "created", "done"}

\* Output is never forgotten: as long as bytes wait in the output buffer of an
\* open connection the poller watches for room to write them (SendInLoop,
\* HandleWrite's partial writes, ShutdownInLoop, all re-entrant).
OutputIsWatched ==
  conn.outBuf > 0 /\ conn.open => "OUT" \in conn.interest /\ conn.watched

\* ... and the loop does not spin on a socket it has nothing to write to.
NoIdleWriteWatch ==
  phase = "poll" /\ conn.open /\ "OUT" \in conn.interest => conn.outBuf > 0

\* A release, from wherever it comes, never pulls the socket away from under
\* the handlers of the same event: it is always posted, never run on the spot
\* (test/http_test/httpclienttest.cc says why).
HandlersOnOpenSocket == step # "none" => conn.open /\ conn.watched

\* The poller never watches a closed descriptor: its number may be another
\* connection's by then (ReleaseInLoop: Remove before Close, nothing after).
WatchedIsOpen == conn.watched => conn.open

\* No callback of the user runs before the connected callback or after the
\* closed callback.
CallbacksOnLiveConnection ==
  stack # <<>> => conn.open /\ conn.status \in {"connected", "disconnecting"}

\* A released connection leaves no live timer behind, whose callback would
\* post a release on an object that may be gone.
TimerEndsWithConnection == ~ conn.open => ~ timer.exists \/ timer.canceled

\* A graceful shutdown sends what it has to send, what the callbacks answer to
\* the last input included: if nothing forced it (error, hang-up, timer,
\* Release() by the user) and nobody sent after the release was posted, a
\* released connection has no output left.
GracefulShutdownSendsAll ==
  hist.releases > 0 /\ ~ hist.forced /\ ~ hist.late => conn.outBuf = 0

\* "Of the operations that release the connection only one is executed"
\* (Channel.hpp): a connection is released once.
ReleasedOnce == hist.releases <= 1

\* assert(_status == ConnectStatus::CONNECTING) in EstablishedInLoop, as long
\* as no member function runs on a dead object.  On a pool loop the code does
\* not keep this: a release may be posted between the base thread's two tasks.
EstablishedFindsConnecting ==
  phase = "run" /\ func # <<>> /\ Head(func) = "Established" /\ Alive
    => conn.status = "connecting"

\* Shutdown() completes: the output is sent, and the connection released.
Over == ~ conn.open \/ undefined
ShutdownCompletes == conn.status = "disconnecting" ~> Over

\* When the peer has closed its end and errno is left of an interrupted wait,
\* Socket::Recv takes the end for "nothing to read", at every event, for ever.
EndIsHidden == retry /\ sock.peer = "closed"

\* The end of the peer's stream ends an established connection.  The comment in
\* HandleRead says that the socket returns it as -1; it does not if it is hidden.
PeerCloseEndsConnection ==
  sock.peer # "open" /\ conn.status = "connected" ~> Over \/ EndIsHidden

\* A connection that has inactivity release enabled, on which nothing happens
\* any more, is released (the peer and the users have a bounded number of
\* things to do here, so in the end nothing happens any more; but a hidden end
\* is reported, as activity, for ever).
InactiveIsReleased == conn.inactive ~> Over \/ ~ conn.inactive \/ EndIsHidden
=============================================================================
