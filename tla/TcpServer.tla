----------------------------- MODULE TcpServer -----------------------------
(***************************************************************************)
(* source/TcpServer.hpp with the Acceptor, the thread pool and the pollers *)
(* of the loops: many connections, on many loops, over few descriptors.    *)
(* What one connection does on its loop is in Connection.tla; here it is   *)
(* established, gets events, and is released.  A descriptor is free as     *)
(* soon as it is closed, and the next connection gets it, while the object *)
(* of the one before is on its way out through the base loop, and calls of *)
(* the user's threads are on their way to it.                              *)
(***************************************************************************)
EXTENDS Naturals, Sequences, FiniteSets

CONSTANTS
  PoolSize,        \* _thread_count; with 0 all connections are on the base loop
  MaxConns,        \* bound: connections, by their ids
  MaxFd,           \* bound: descriptors for connections
  InactiveRelease, \* _enable_inactive_release
  MaxReleases,     \* bound: releases that one event, or one Shutdown, posts (Connection.tla)
  MaxCalls         \* bound: calls of connections and of RunAfter by threads of the user,
                   \* and of Release() by inactivity timers

ASSUME TcpServerAssumption ==
  /\ PoolSize \in Nat /\ MaxConns \in Nat /\ MaxFd \in Nat \ {0} 
  /\ InactiveRelease \in BOOLEAN /\ MaxReleases \in Nat /\ MaxCalls \in Nat

Base == 0                      \* the base loop; the pool's are 1 .. PoolSize
Loops == 0 .. PoolSize
Conns == 1 .. MaxConns         \* connections, by _conn_id
Acceptor == 0                  \* its channel, among those of the connections
Fds == 1 .. MaxFd
Nobody == 0

\* What the user may call from any thread.  Each posts a task, which is bound
\* to the bare object, as Established() does.
Calls == {"Send", "Shutdown", "Release", "Enable", "Cancel"}
Ops == Calls \cup {"Established"}

VARIABLES
  nextId,     \* _next_id, of connections and timers
  nextIndex,  \* _next_index of the pool
  made,       \* the connection NewConnection is making, by its local shared_ptr
  stage,      \* per connection: "none", "accepted" (CONNECTING), "open" (CONNECTED
              \* or DISCONNECTING), "closed" (DISCONNECTED), or "revived": its
              \* socket is closed, and the status is DISCONNECTING again
  fd, loop,   \* per connection: its channel's descriptor (for ever), its loop
  timers,     \* the timers of RunAfter in the wheel of the base loop
  wheel,      \* per connection, its entry in the wheel of its loop: "none", "set",
              \* "canceled"
  conns,      \* _conns, which holds a shared_ptr of each
  users,      \* connections of which the user holds a shared_ptr
  calls,      \* such calls so far
  owner,      \* kernel: whose descriptor it is
  epoll,      \* kernel, per loop: descriptors in its epoll set
  channels,   \* per loop: _chennels of its poller, connections by descriptor
  phase, actives, tasks, func,  \* per loop: see EventLoop.tla
  posts,      \* history, per connection: how often Release was posted
  late,       \* history: connections whose release came before a call was done
  undefined   \* a failed assertion, or a member function of a dead object

ids == <<nextId, nextIndex, fd, loop>>
wheels == <<timers, wheel>>
user == <<users, calls>>
poller == <<owner, epoll, channels>>
history == <<posts, late>>
vars == <<ids, made, stage, wheels, conns, user, poller, phase, actives, tasks, func, history,
          undefined>>

Init ==
  /\ nextId = 0 /\ nextIndex = 0 /\ made = Nobody
  /\ stage = [c \in Conns |-> "none"]
  /\ fd = [c \in Conns |-> Nobody] /\ loop = [c \in Conns |-> Base]
  /\ timers = {} /\ wheel = [c \in Conns |-> "none"]
  /\ conns = {} /\ users = {} /\ calls = 0
  /\ owner = [d \in Fds |-> Nobody]
  /\ epoll = [l \in Loops |-> {}]
  /\ channels = [l \in Loops |-> [d \in Fds |-> Nobody]]
  /\ phase = [l \in Loops |-> "poll"]
  /\ actives = [l \in Loops |-> {}]
  /\ tasks = [l \in Loops |-> <<>>] /\ func = [l \in Loops |-> <<>>]
  /\ posts = [c \in Conns |-> 0] /\ late = {}
  /\ undefined = FALSE

Task(op, c) == [op |-> op, conn |-> c]

\* A queued removal is bound to a shared_ptr, the other tasks to the object.
Queued(ops, c) ==
  \E l \in Loops, q \in {tasks, func} :
    \E k \in 1 .. Len(q[l]) : q[l][k].conn = c /\ q[l][k].op \in ops
Alive(c) == c \in conns \cup users \cup {made} \/ Queued({"Remove"}, c)

Post(q, l, op, c) == [q EXCEPT ![l] = Append(@, Task(op, c))]
Asked(p, c, n) == [p EXCEPT ![c] = IF @ + n < 2 THEN @ + n ELSE 2]
PostReleases(q, l, c, n) == [q EXCEPT ![l] = @ \o [k \in 1 .. n |-> Task("Release", c)]]

Released(c) == stage[c] \in {"closed", "revived"}

-----------------------------------------------------------------------------
(* Poller: UpdateEvent, RemoveEvent.                                        *)

\* A channel whose number is not in the map is added to it and to the epoll set,
\* which fails when the descriptor is closed.  If the number is there, it is
\* a modification, whosever channel the map has under it.
UpdateEvent(l, c, d) ==
  IF channels[l][d] = Nobody
    THEN /\ channels' = [channels EXCEPT ![l][d] = c]
         /\ epoll' = [epoll EXCEPT ![l] = @ \cup (IF owner[d] = Nobody THEN {} ELSE {d})]
    ELSE UNCHANGED <<epoll, channels>>

\* EnableWrite and DisableWrite, if it comes to that.
MayUpdate(l, c) == UpdateEvent(l, c, fd[c]) \/ UNCHANGED <<epoll, channels>>

\* RemoveEvent goes by the number of the descriptor.  The Close that follows
\* takes a descriptor out of every epoll set, if the socket has not been closed.
RemoveAndCloseMutant(l, c, d) ==
  /\ UNCHANGED channels
  /\ IF Released(c)
       THEN epoll' = [epoll EXCEPT ![l] = @ \ {d}] /\ UNCHANGED owner
       ELSE /\ epoll' = [m \in Loops |-> epoll[m] \ {d}]
            /\ owner' = [owner EXCEPT ![d] = Nobody]
RemoveAndClose(l, c, d) ==
  /\ channels' = [channels EXCEPT ![l][d] = Nobody]
  /\ IF Released(c)
       THEN epoll' = [epoll EXCEPT ![l] = @ \ {d}] /\ UNCHANGED owner
       ELSE /\ epoll' = [m \in Loops |-> epoll[m] \ {d}]
            /\ owner' = [owner EXCEPT ![d] = Nobody]

-----------------------------------------------------------------------------
(* The base loop accepts.                                                   *)

FreeFds == {d \in Fds : owner[d] = Nobody}
LowestFree == CHOOSE d \in FreeFds : \A e \in FreeFds : d <= e
NextIndex == IF PoolSize = 0 THEN nextIndex ELSE (nextIndex + 1) % PoolSize
NextLoop == IF PoolSize = 0 THEN Base ELSE NextIndex + 1

\* The thread of the base loop is not in the middle of NewConnection.
Free(l) == ~ undefined /\ (l = Base => made = Nobody)

\* EnableInactiveReleaseInLoop, CancelInactiveReleaseInLoop: an entry that is
\* there is refreshed, canceled or not.
Enabled(w, c) == IF w[c] = "none" THEN [w EXCEPT ![c] = "set"] ELSE w
Canceled(w, c) == IF w[c] = "set" THEN [w EXCEPT ![c] = "canceled"] ELSE w

\* Acceptor::HandleRead and TcpServer::NewConnection, which first enables the
\* inactivity release, on the spot when the connection is on the base loop ...
NewConnection ==
  /\ Free(Base) /\ Acceptor \in actives[Base]
  /\ FreeFds # {} /\ nextId < MaxConns
  /\ nextId' = nextId + 1 /\ nextIndex' = NextIndex
  /\ made' = nextId'
  /\ fd' = [fd EXCEPT ![nextId'] = LowestFree]
  /\ loop' = [loop EXCEPT ![nextId'] = NextLoop]
  /\ owner' = [owner EXCEPT ![LowestFree] = nextId']
  /\ stage' = [stage EXCEPT ![nextId'] = "accepted"]
  /\ tasks' = IF InactiveRelease /\ PoolSize > 0
                THEN Post(tasks, NextLoop, "Enable", nextId') ELSE tasks
  /\ wheel' = IF InactiveRelease /\ PoolSize = 0 THEN Enabled(wheel, nextId') ELSE wheel
  /\ UNCHANGED <<timers, conns, user, epoll, channels, phase, actives, func, history, undefined>>

\* ... then puts it into _conns and calls Established().
InsertConnectionMutant ==
  /\ ~ undefined /\ made # Nobody
  /\ made' = Nobody
  /\ actives' = [actives EXCEPT ![Base] = @ \ {Acceptor}]
  /\ IF PoolSize = 0
       THEN /\ stage' = [stage EXCEPT ![made] = "open"]
            /\ UpdateEvent(Base, made, fd[made])
            /\ UNCHANGED tasks
       ELSE /\ tasks' = Post(tasks, loop[made], "Established", made)
            /\ UNCHANGED <<stage, epoll, channels>>
  /\ UNCHANGED <<ids, wheels, conns, user, owner, phase, func, history, undefined>>
InsertConnection ==
  /\ ~ undefined /\ made # Nobody
  /\ made' = Nobody
  /\ actives' = [actives EXCEPT ![Base] = @ \ {Acceptor}]
  /\ conns' = conns \cup {made}
  /\ IF PoolSize = 0
       THEN /\ stage' = [stage EXCEPT ![made] = "open"]
            /\ UpdateEvent(Base, made, fd[made])
            /\ UNCHANGED tasks
       ELSE /\ tasks' = Post(tasks, loop[made], "Established", made)
            /\ UNCHANGED <<stage, epoll, channels>>
  /\ UNCHANGED <<ids, wheels, user, owner, phase, func, history, undefined>>

\* accept fails for want of a descriptor; the client goes on waiting.
AcceptFails ==
  /\ Free(Base) /\ Acceptor \in actives[Base]
  /\ actives' = [actives EXCEPT ![Base] = @ \ {Acceptor}]
  /\ FreeFds = {} \/ nextId >= MaxConns
  /\ UNCHANGED <<ids, made, stage, wheels, conns, user, poller, phase, tasks, func, history,
                 undefined>>

-----------------------------------------------------------------------------
(* Every loop: poll, handle, run (EventLoop.tla).                           *)

Idle(l) == ~ undefined /\ actives[l] = {} /\ func[l] = <<>>

\* Something happens on some connections, to the base loop a client comes, or a
\* timer or a task wakes the loop up.
HasTimer(l) ==
  \/ l = Base /\ timers # {}
  \/ \E c \in Conns : loop[c] = l /\ wheel[c] # "none"
Poll(l) ==
  /\ Idle(l) /\ phase[l] = "poll"
  /\ \E ready \in SUBSET epoll[l], client \in SUBSET (IF l = Base /\ nextId < MaxConns THEN {Acceptor} ELSE {}) :
       /\ ready # {} \/ client # {} \/ tasks[l] # <<>> \/ HasTimer(l)
       /\ actives' = [actives EXCEPT ![l] = {channels[l][d] : d \in ready} \cup client]
  /\ phase' = [phase EXCEPT ![l] = "handle"]
  /\ UNCHANGED <<ids, made, stage, wheels, conns, user, poller, tasks, func, history, undefined>>

\* Handling an event of a connection may enable and disable writing, and may end
\* in Release().
HandleEvent(l, c) ==
  /\ Free(l) /\ c \in actives[l] \cap Conns /\ Alive(c)
  /\ actives' = [actives EXCEPT ![l] = @ \ {c}]
  /\ MayUpdate(l, c)
  /\ \E n \in 0 .. MaxReleases :
       /\ tasks' = PostReleases(tasks, l, c, n)
       /\ posts' = Asked(posts, c, n)
  /\ UNCHANGED <<ids, made, stage, wheels, conns, user, owner, phase, func, late, undefined>>

\* OnTime of the wheel: the function of RunAfter runs; the inactivity timer of a
\* connection, which is bound to the bare object, calls Release().
OnTime(id) ==
  /\ Free(Base) /\ phase[Base] = "handle" /\ id \in timers
  /\ timers' = timers \ {id}
  /\ UNCHANGED <<ids, made, stage, wheel, conns, user, poller, phase, actives, tasks, func,
                 history, undefined>>

OnInactive(l, c) ==
  /\ Free(l) /\ phase[l] = "handle" /\ loop[c] = l /\ wheel[c] # "none"
  /\ wheel' = [wheel EXCEPT ![c] = "none"]
  /\ wheel[c] = "set" => Alive(c)
  /\ IF wheel[c] = "set" THEN /\ calls < MaxCalls /\ calls' = calls + 1
                              /\ tasks' = Post(tasks, l, "Release", c)
                              /\ posts' = Asked(posts, c, 1)
     ELSE UNCHANGED <<calls, tasks, posts>>
  /\ UNCHANGED <<ids, made, stage, timers, conns, users, poller, phase, actives, func, late,
                 undefined>>

RunAllTask(l) ==
  /\ Idle(l) /\ phase[l] = "handle"
  /\ func' = [func EXCEPT ![l] = tasks[l]]
  /\ tasks' = [tasks EXCEPT ![l] = <<>>]
  /\ phase' = [phase EXCEPT ![l] = "poll"]
  /\ UNCHANGED <<ids, made, stage, wheels, conns, user, poller, actives, history, undefined>>

Begins(l, op, c) ==
  /\ ~ undefined /\ actives[l] = {} /\ func[l] # <<>>
  /\ Head(func[l]) = Task(op, c)
  /\ func' = [func EXCEPT ![l] = Tail(@)]

\* An event, a timer or a task finds the object gone.
UseOfDeadObject(l, c) ==
  /\ Free(l)
  /\ \/ c \in actives[l] /\ UNCHANGED func
     \/ phase[l] = "handle" /\ loop[c] = l /\ wheel[c] = "set" /\ UNCHANGED func
     \/ \E op \in Ops : Begins(l, op, c)
  /\ ~ Alive(c)
  /\ undefined' = TRUE
  /\ UNCHANGED <<ids, made, stage, wheels, conns, user, poller, phase, actives, tasks, history>>

\* With the assertion that the status is CONNECTING.
EstablishedInLoop(l, c) ==
  /\ Begins(l, "Established", c) /\ Alive(c)
  /\ IF stage[c] = "accepted"
       THEN /\ stage' = [stage EXCEPT ![c] = "open"]
            /\ UpdateEvent(l, c, fd[c])
            /\ UNCHANGED undefined
       ELSE undefined' = TRUE /\ UNCHANGED <<stage, epoll, channels>>
  /\ UNCHANGED <<ids, made, wheels, conns, user, owner, phase, actives, tasks, history>>

\* After the release, a Send is ignored, as long as the status says so.
SendInLoop(l, c) ==
  /\ Begins(l, "Send", c) /\ Alive(c)
  /\ IF stage[c] = "closed" THEN UNCHANGED <<epoll, channels>> ELSE MayUpdate(l, c)
  /\ UNCHANGED <<ids, made, stage, wheels, conns, user, owner, phase, actives, tasks, history,
                 undefined>>

\* ShutdownInLoop does not ask: the status is DISCONNECTING, what is left of the
\* input is handled, which may send, and what there is to send, if anything, waits
\* for room; else the connection is released.
ShutdownInLoop(l, c) ==
  /\ Begins(l, "Shutdown", c) /\ Alive(c)
  /\ stage' = IF stage[c] = "closed" THEN [stage EXCEPT ![c] = "revived"] ELSE stage
  /\ MayUpdate(l, c)
  /\ \E n \in 0 .. MaxReleases :
       /\ tasks' = PostReleases(tasks, l, c, n)
       /\ posts' = Asked(posts, c, n)
  /\ UNCHANGED <<ids, made, wheels, conns, user, owner, phase, actives, late, undefined>>

EnableInactiveReleaseInLoop(l, c) ==
  /\ Begins(l, "Enable", c) /\ Alive(c)
  /\ wheel' = Enabled(wheel, c)
  /\ UNCHANGED <<ids, made, stage, timers, conns, user, poller, phase, actives, tasks, history,
                 undefined>>

CancelInactiveReleaseInLoop(l, c) ==
  /\ Begins(l, "Cancel", c) /\ Alive(c)
  /\ wheel' = Canceled(wheel, c)
  /\ UNCHANGED <<ids, made, stage, timers, conns, user, poller, phase, actives, tasks, history,
                 undefined>>

\* The calls that are not done: those of the user, and of NewConnection.
Pending(c) == c = made \/ Queued(Ops \ {"Release"}, c)

ReleaseInLoopMutant(l, c) ==
  /\ Begins(l, "Release", c) /\ Alive(c)
  /\ RemoveAndClose(l, c, fd[c])
  /\ stage' = [stage EXCEPT ![c] = "closed"]
  /\ wheel' = Canceled(wheel, c)
  /\ IF l = Base THEN conns' = conns \ {c} ELSE UNCHANGED conns
  /\ late' = IF Pending(c) THEN late \cup {c} ELSE late
  /\ UNCHANGED <<ids, made, timers, user, phase, actives, tasks, posts, undefined>>
ReleaseInLoop(l, c) ==
  /\ Begins(l, "Release", c) /\ Alive(c)
  /\ RemoveAndClose(l, c, fd[c])
  /\ stage' = [stage EXCEPT ![c] = "closed"]
  /\ wheel' = Canceled(wheel, c)
  /\ IF l = Base THEN conns' = conns \ {c} /\ UNCHANGED tasks
     ELSE tasks' = Post(tasks, Base, "Remove", c) /\ UNCHANGED conns
  /\ late' = IF Pending(c) THEN late \cup {c} ELSE late
  /\ UNCHANGED <<ids, made, timers, user, phase, actives, posts, undefined>>

RemoveConnectionInLoop(l, c) ==
  /\ Begins(l, "Remove", c)
  /\ conns' = conns \ {c}
  /\ UNCHANGED <<ids, made, stage, wheels, user, poller, phase, actives, tasks, history,
                 undefined>>

\* The timer gets an id of its own, in the wheel where connections have theirs.
RunAfterInLoop ==
  /\ Begins(Base, "RunAfter", Nobody)
  /\ nextId' = nextId + 1
  /\ timers' = timers \cup {nextId'}
  /\ UNCHANGED <<nextIndex, fd, loop, made, stage, wheel, conns, user, poller, phase, actives,
                 tasks, history, undefined>>

-----------------------------------------------------------------------------
(* A thread of the user, which was given a shared_ptr by a callback.        *)

UserTakesReference(c) ==
  /\ ~ undefined
  /\ stage[c] = "open" /\ users = {} /\ calls < MaxCalls
  /\ users' = users \cup {c}
  /\ UNCHANGED <<ids, made, stage, wheels, conns, calls, poller, phase, actives, tasks, func,
                 history, undefined>>

\* It cannot know whether the connection is there still.
UserCalls(op, c) ==
  /\ ~ undefined /\ c \in users /\ calls < MaxCalls
  /\ calls' = calls + 1
  /\ tasks' = Post(tasks, loop[c], op, c)
  /\ IF op = "Release" THEN posts' = Asked(posts, c, 1) /\ UNCHANGED late
     ELSE late' = (IF Released(c) THEN late \cup {c} ELSE late) /\ UNCHANGED posts
  /\ UNCHANGED <<ids, made, stage, wheels, conns, users, poller, phase, actives, func, undefined>>

UserDropsReference(c) ==
  /\ ~ undefined /\ c \in users
  /\ users' = users \ {c}
  /\ UNCHANGED <<ids, made, stage, wheels, conns, calls, poller, phase, actives, tasks, func,
                 history, undefined>>

RunAfter ==
  /\ ~ undefined /\ calls < MaxCalls
  /\ calls' = calls + 1
  /\ tasks' = Post(tasks, Base, "RunAfter", Nobody)
  /\ UNCHANGED <<ids, made, stage, wheels, conns, users, poller, phase, actives, func, history,
                 undefined>>

User ==
  \/ RunAfter
  \/ \E c \in Conns : \/ UserTakesReference(c) \/ UserDropsReference(c)
                      \/ \E op \in Calls : UserCalls(op, c)

Accepting == NewConnection \/ InsertConnection \/ AcceptFails

\* A task that is about a connection.
RunTask(l, c) ==
  \/ EstablishedInLoop(l, c) \/ SendInLoop(l, c) \/ ShutdownInLoop(l, c)
  \/ EnableInactiveReleaseInLoop(l, c) \/ CancelInactiveReleaseInLoop(l, c)
  \/ ReleaseInLoop(l, c) \/ RemoveConnectionInLoop(l, c)

\* What a loop does of itself: all but polling when nothing is to be done.
Thread(l) ==
  \/ RunAllTask(l) \/ (tasks[l] # <<>> /\ Poll(l))
  \/ l = Base /\ (RunAfterInLoop \/ \E id \in timers : OnTime(id))
  \/ \E c \in Conns :
       HandleEvent(l, c) \/ OnInactive(l, c) \/ UseOfDeadObject(l, c) \/ RunTask(l, c)

-----------------------------------------------------------------------------
(* Properties.                                                              *)

\* Every variable has its type.
TypeOK ==
  /\ nextId \in Nat /\ timers \subseteq 1 .. nextId /\ made \in 0 .. nextId
  /\ stage \in [Conns -> {"none", "accepted", "open", "closed", "revived"}]
  /\ fd \in [Conns -> Fds \cup {Nobody}] /\ loop \in [Conns -> Loops]
  /\ wheel \in [Conns -> {"none", "set", "canceled"}]
  /\ conns \subseteq 1 .. nextId /\ users \subseteq 1 .. nextId
  /\ owner \in [Fds -> Conns \cup {Nobody}]
  /\ epoll \in [Loops -> SUBSET Fds]
  /\ channels \in [Loops -> [Fds -> Conns \cup {Nobody}]]
  /\ phase \in [Loops -> {"poll", "handle"}]
  /\ actives \in [Loops -> SUBSET (Conns \cup {Acceptor})]
  /\ posts \in [Conns -> Nat] /\ late \subseteq Conns

\* A poller never knows a channel whose descriptor has been closed, or given
\* to another connection since, on this loop or another, but those that a late
\* Shutdown has put back there; and what epoll reports, the poller knows
\* ("assert(it != _chennels.end())" of Poll).
ChannelsAreCurrent ==
  \A l \in Loops, d \in Fds :
    /\ channels[l][d] # Nobody =>
         /\ loop[channels[l][d]] = l /\ fd[channels[l][d]] = d
         /\ \/ stage[channels[l][d]] = "open" /\ owner[d] = channels[l][d]
            \/ stage[channels[l][d]] = "revived" /\ channels[l][d] \in late
    /\ d \in epoll[l] => channels[l][d] # Nobody

\* An open connection gets its events: whatever others do with the same
\* descriptor number before and after, and in which order the base loop and
\* the pool get to it.  Except that one which had the number before on the
\* same loop, and is asked twice to be released, or revived by a Shutdown,
\* may take them.
Disturbed(c) ==
  \E o \in Conns \ {c} :
    fd[o] = fd[c] /\ loop[o] = loop[c] /\ (posts[o] > 1 \/ stage[o] = "revived")
OpenIsWatched ==
  \A c \in Conns : stage[c] = "open" /\ ~ Disturbed(c) =>
    /\ owner[fd[c]] = c
    /\ channels[loop[c]][fd[c]] = c /\ fd[c] \in epoll[loop[c]]

\* Channels that were reported are used after other handlers and threads have
\* run; timers and all tasks but the removal are bound to bare objects.  None
\* outlives its connection, if that is asked only once to be released, and not
\* before all calls that others make are done (of the user, of NewConnection);
\* and that is the only way to use an object that is gone, or to find one
\* that is no longer CONNECTING in EstablishedInLoop.
Used(c) ==
  (\E l \in Loops : c \in actives[l]) \/ wheel[c] = "set" \/ Queued(Ops, c)
NothingOutlivesItsConnection ==
  /\ \A c \in Conns : posts[c] <= 1 /\ c \notin late /\ Used(c) => c \in conns \cup {made}
  /\ undefined => \E c \in Conns : posts[c] > 1 \/ c \in late

\* Connections that are closed leave the server: a moment comes, again and again,
\* when it holds none.
ClosedIsRemoved == []<>(undefined \/ \A c \in Conns : Released(c) => c \notin conns)
=============================================================================
