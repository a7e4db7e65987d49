# Verification of muduo_hc_server

muduo_hc_server is a C++ network library in the style of muduo: event loops
("one loop per thread"), non-blocking TCP connections with an inactivity timer,
an HTTP server on top of them, and a logging library with synchronous and
asynchronous loggers. This directory holds TLA+ models of its components, the
TLC configurations that check them on small instances, and TLAPS proofs of the
properties that matter most, for instances of every size.

Contents: [the system](#1-the-system) ·
[modules](#2-modules-and-what-they-model) · [runs](#3-runs) ·
[fairness](#4-fairness) · [proofs](#5-proofs) ·
[where the code departs](#6-where-the-code-departs-from-what-one-expects) ·
[not modelled](#7-what-is-not-modelled) · [plan](#8-plan)

## 1. The system

All paths are under `src/`. The library is header-only.

| Component | State it keeps | Operations |
|---|---|---|
| Timer wheel, `source/TimerWheel.hpp` | `_wheel` (60 slots of `shared_ptr<TimerTask>`), `_curtick`, `_timers` (id → `weak_ptr`) ; each task: timeout, callback, canceled flag | `TimerAdd`, `TimerRefresh`, `TimerCancel`, `IsTimerExist`; `OnTime` on every expiration of a timerfd; the destructor of a task runs its callback and forgets its id |
| Event loop, `source/EventLoop.hpp` | `_tasks` under a mutex, an eventfd, the poller, the timer wheel | `RunInLoop`, `PushQueueInLoop`, `Start` (poll, handle, run all tasks), `ReadEventfd` |
| Loop threads and pool, `source/EventLoop.hpp` | a loop pointer, mutex and condition variable per thread; `_loops`, `_next_index` | `GetEventLoop`, `ThreadEntry`, `Create`, `NextLoop` |
| Channel and poller, `source/Channel.hpp`, `source/Poller.hpp` | interest and reported events; the epoll set, `_chennels` (descriptor → channel) | `Update`, `Remove`, `HandleEvent`, `Poll` |
| Connection, `source/Connection.hpp` | status, input and output buffer, channel, socket, inactivity flag, callbacks | `Established`, `Send`, `Shutdown`, `Release`, `EnableInactiveRelease`, `CancelInactiveRelease`, `Upgrade`; handlers of read, write, error, close and any event |
| TCP server and acceptor, `source/TcpServer.hpp`, `source/Acceptor.hpp` | `_next_id`, `_conns` (id → `shared_ptr<Connection>`), the base loop, the pool | `HandleRead` (accept), `NewConnection`, `RemoveConnection`, `RunAfter`, `Start` |
| Server buffer, `source/Buffer.hpp` | a ring of bytes, `_rindex`, `_windex` | writes, reads, peeks, `FindCRLF`, `GetLine`, appending a buffer, segments for `sendmsg` |
| HTTP, `http/HttpProtocol.hpp`, `http/HttpServer.hpp` | per connection an `HttpContext`: parser state, response status, request; the routes of each method and the base directory | `RecvHttpRequest` (line, head, body), `OnMessage`, `Route` (`IsFileHandler`, `FileHandler`, `Dispatcher`), `WriteResponse`, `ErrorHandler` |
| HTTP utilities, `http/Util.hpp` | none; the disk | `SplitString`, `UrlEncode`, `UrlDecode`, `ValidPath`, `ExtMime`, `IsFileExists`, `ReadFile` |
| Asynchronous log worker, `log/Looper.hpp`, `log/Buffer.hpp` | two buffers, a mutex, two condition variables, a running flag | `Push`, `ThreadEntry`, `Stop` |
| Log sinks, `log/Sink.hpp`, and loggers, `log/Logger.hpp` | open file, size, count; the present period | `Log` of the file, stdout, by-size and by-time sinks; `SyncLogger::log`, `AsyncLogger` |
| Logger manager and builders, `log/Logger.hpp` | `_loggers` (name → `shared_ptr`) under a mutex; a builder's sinks, pattern and limit | `Build` of the two builders, `IsExistsLogger`, `AddLogger`, `GetLogger`; statements (`LogStreamGuard`); the destructor of a logger stops its worker |
| Formatter, `log/Formatter.hpp` | the items of a pattern | `ParsePattern`, `CreateItem`, `format` |
| `Any`, programs, tests | see [section 7](#7-what-is-not-modelled) | |

How they interact:

* Every loop thread runs `Start()`: it polls, calls `HandleEvent` of each
  reported channel, then swaps out and runs its task queue. Other threads reach
  a loop only by `PushQueueInLoop` and its eventfd. A connection is used by one
  loop; its `Send`, `Shutdown`, `Release` and so on become tasks of that loop
  (or run at once when called on its thread).
* The acceptor's channel is on the base loop; `NewConnection` picks a loop of
  the pool, puts the connection in `_conns` and posts `Established`. The
  connection's release runs on its own loop, and it posts its removal from
  `_conns` to the base loop: the last reference goes there.
* Tasks, inactivity timers and callbacks hold a raw `this` of the connection. What
  keeps it alive is `_conns`, or a `shared_ptr` of the user.
* The inactivity timer of a connection is a task of the wheel of its loop under
  the connection's id; its callback is `Release`, and each event refreshes it.
* The user's message callback runs inside `HandleRead`, and again inside
  `ShutdownInLoop` and `HandleClose`, which drain the input buffer through it.
  It may call `Shutdown` itself: `HttpServer::OnMessage` does, from inside the
  loop over pipelined requests.
* Descriptor numbers are reused by the kernel as soon as they are closed, and
  pollers go by number.
* A request goes to a file below the base directory if there is one, else to the
  first handler of its method that matches. Nothing locks the disk between the
  look at it and the reading, and both stop at a byte 0 of the name, where the
  checks do not.
* A logging statement looks its logger up in the manager and holds a
  `shared_ptr` to its end. Builders put loggers there; whoever drops the last
  reference runs the destructor, which stops the worker and waits for it: the
  manager while it holds its mutex, or a thread that logs.
* Producers of log messages and the worker thread share two buffers that the
  worker swaps; rolling sinks look at the clock, twice in one call.

What is hard about it, with the lines where it bites, is the list `hazards` of
`PROJECT.json`. The kinds are: lost wake-ups (eventfd, condition variables),
tasks that arrive after the release of what they are about, several handlers of
one event that release the same connection, re-entrant callbacks, references
and map entries that disagree in the wheel, reused descriptor numbers, partial
reads and writes, wrap-around of the ring, `Stop` racing the worker, a clock
that moves between two looks at it, and programs that start again on files that
are there.

What makes each component correct:

* wheel: callbacks run at the deadline of the LAST refresh, once, never after a
  cancel; an id names its own task; every task ends;
* loop: no functor is lost, run twice or out of order; the loop never sleeps on
  a functor; neither tasks nor channels are starved;
* loop threads: the pool hands out only loops that exist, and the starting
  thread does not sleep for ever;
* connection: output is watched for until it is written and no longer; handlers
  and callbacks run on a live connection with an open socket; a graceful
  shutdown sends everything first, and completes; the peer's close, and
  inactivity, end the connection; no timer is left behind;
* server: pollers and epoll sets know only present owners of a descriptor, an
  open connection gets its events, no task outlives its connection, closed
  connections leave `_conns`;
* buffer: it is a FIFO queue of bytes;
* HTTP: each request gets its own answer, in order, however it is cut in pieces,
  from the resource its target means, and no file beyond the base directory;
* log worker: nothing is lost, torn or overtaken; pushes return; `Stop` returns;
* loggers: a worker is used only while it lives, however its logger is built,
  replaced and dropped; every line has the layout of the pattern;
* rolling sinks: lines are in the file of their time; files have their size.

## 2. Modules and what they model

The table `map` of `PROJECT.json` gives, for every definition that models code,
the file and the lines. Definitions keep the names of the code. The definitions
whose names end in `Mutant` stand before the definition they are a variant of:
each is that definition with a plausible bug, and shows that a property would
notice it. They are not part of any specification.

| Module | Models | Built on |
|---|---|---|
| `Timers` | abstract: a set of timers that count down, fire at zero, can be refreshed and cancelled | |
| `TimerWheel` | `TimerWheel.hpp` | refines `Timers` |
| `TaskQueue` | abstract: one FIFO queue of functors, each run once | |
| `EventLoop` | `EventLoop.hpp` without timers and pool | refines `TaskQueue` |
| `LoopThreads` | `LoopThread` and `LoopThreadPool::Create` | |
| `Connection` | `Connection.hpp`, with the parts of `Channel.hpp`, `Poller.hpp`, `Socket.hpp` it drives | |
| `TcpServer` | `TcpServer.hpp`, `Acceptor.hpp`, the pollers of all loops, descriptors | |
| `Server` | the threads of `LoopThreads` on which the loops of `TcpServer` run | composes the two |
| `ByteQueue` | abstract: FIFO queues of bytes | |
| `ServerBuffer` | `source/Buffer.hpp` | refines `ByteQueue` |
| `HttpUtil` | operators of `http/Util.hpp` | |
| `HttpServer` | `HttpProtocol.hpp` and `HttpServer.hpp` over one connection, routing and the disk | `HttpUtil` |
| `AsyncLooper` | `log/Looper.hpp` with `log/Buffer.hpp` | |
| `Formatter` | operators of `log/Formatter.hpp`, and a reference for them | |
| `Loggers` | `log/Logger.hpp`: builders, manager, statements, the lives of loggers | composes `AsyncLooper` and `Formatter` |
| `SyncLogger` | `SyncLogger::log` through the two rolling sinks | |
| `MC...` | values of the constants for TLC | |
| `...Proofs` | theorems and their proofs | |

**TimerWheel.** `wheel`, `curtick`, `timers`, `task` are the fields of the
class; a slot is the set of tasks it has a `shared_ptr` of, since several
references in one slot go together. `expirations` is the timerfd's counter,
`ticks` what remains of the loop in `OnTime`, `dropping` the references that
`clear()` has still to drop, `running` the task whose destructor is running.
These make the order of the code visible: the slot is cleared reference by
reference (in any order, where the code has the order of the vector), the last
reference runs the destructor, the destructor runs the callback, the callback
may add, refresh and cancel, and only then the entry of the id goes. `left` and
`canceledId` are history: the ticks to the deadline, and the ids that were
cancelled after their last `TimerAdd`. `Capacity` is `_capacity` (60), and
delays are 1 .. `Capacity`, as `TimerWheel.hpp:194` says. `TimerAddInLoop` has a
guard the code has not: an id has no entry when a task is added under it.
Connections ask `IsTimerExist` first and `RunAfter` takes a new id each time, so
the programs comply; what `_timers[id] = task` (`TimerWheel.hpp:155-162`) makes of
an id that is taken is left out. The constants `Repeating` and `CarefulCallbacks`
are explained in section 6.

**EventLoop.** Pushing a functor and writing the eventfd are two steps of the
thread, with every step of the loop possible between them. `Poll` takes all
that is ready, `ReadEventfd` resets the counter, `SwapTasks` swaps under the
mutex, and the functors run one by one, each able to post more. `RunInLoop` on
the loop's own thread runs the functor inside the present one.

**Connection.** One connection from `NewConnection` to the destruction of the
object. `conn` has the object, its channel and the socket's descriptor; bytes
are counted. One turn of the loop is `Poll`, the handlers of `HandleEvent` in
the order of the code (`step`: read, then the one of write, error and close,
then any event, whose own callback may call), `SwapTasks`, the tasks. The user's
callback is a frame of `stack`, in which the user may call the connection again, as
far as `Nested` says: `Send`, `Shutdown`, `EnableInactiveRelease` and
`CancelInactiveRelease` run on the spot, `Release` is posted even so. The drain
loops of `ShutdownInLoop` and `HandleClose` are frames below it. Other threads post
what `Foreign` lists. The base thread runs `NewConnection` in its three steps
(interest, `EnableInactiveRelease`, `Established` when on a pool loop) and
`RemoveConnectionInLoop`. The wheel is one entry that counts down, which is what
`Timers` promises and `TimerWheel` implements. `sock` is the kernel: what has
come, room for output, end of stream, reset; `retry` is `errno` left at `EINTR`
by `epoll_wait`, since `Socket::Recv` reads `errno` also after a return of 0. A
task that runs after the object is gone, and a failed assertion, set
`undefined`: from then on the model claims nothing.

**TcpServer, LoopThreads, Server.** In `TcpServer` a connection is made,
established, gets events and is released; what is kept in detail is who knows it:
`_conns`, the poller of its loop by descriptor number, the epoll set, the batch a
loop has polled, the queued tasks, the wheel, the user, and the kernel's reuse of
the lowest free number. `NewConnection` is two steps, between which the loop of the
connection may run already: the first posts `EnableInactiveRelease` (or calls it, on
the base loop), the second (`InsertConnection`) puts the connection into `_conns`
and posts `Established`; `made` is the local `shared_ptr` that holds it until then.
A thread of the user that holds a `shared_ptr` calls `Send`, `Shutdown`, `Release`,
`EnableInactiveRelease` or `CancelInactiveRelease`, each of which posts a task bound
to the bare object; `Upgrade` is no such call, since it insists on the loop's own
thread (`AssertInLoop`). What handling an event does to the channel and how often it
asks for a release is any of what `Connection` allows (`MayUpdate`, `MaxReleases`);
callbacks that touch the timer are in `Connection` only. A `Shutdown` that comes
after the release makes the connection `"revived"`: DISCONNECTING, with its socket
closed, and its channel may be in the poller again. `wheel` has the inactivity timers,
whose callback `OnInactive` is `Release`. `RunAfter` is a task of the base loop that
takes an id of its own from `_next_id` and puts a timer in the wheel; `OnTime` runs it.
A failed assertion and the use of an object that is gone set `undefined`. `Server` lets all that
happen on the threads of `LoopThreads`: a loop turns once its thread has published
it, the server accepts once `Create` has them all.

**ServerBuffer.** The ring with memory, indices, growing and wrapping, and the
two-piece copies. `Bytes` are a newline and one other; `Default`, `Threshold`
and `Increment` are the constants of the code made small.

**HttpUtil, HttpServer.** The text of a connection is made of pieces: a line is
two pieces (so it may be cut in the middle), and the last has the newline; a
request ends with its first empty line and the body it announces (`Framed`), as
what comes behind that line is the next request to the server. The disk is a tree:
`HttpAssumption` says that a file is no directory, that what a directory is in is
one, and that no extension of `ExtMime` has a "/". The
parser's functions, the fall-through of the switch, the loop of `OnMessage`, the
error path with its `Reset`, the emptied buffer and the re-entrant `Shutdown` are
actions on a `stack` as in `Connection`. The target of a request line and its
query are sequences of bytes, and `HttpUtil` decodes, splits and checks them byte
by byte as the code does, with its look two bytes ahead, its signed `char` and its
depth counter. The disk is asked for what `c_str()` shows of a name, up to its first
byte 0; everybody else sees the whole name. A request goes to a file of `tree` or to a handler of `Routes`;
`RouteToFile` and `FileHandler` are two steps, and `Vanish` may take a file away
between them. An answer is a record of what it answers: the request, the status,
the resource, the type, what it says of the connection, and what the handler saw
(path, parameters, body).

**AsyncLooper.** The steps of the worker between its test, its sleep, the swap,
the unlock and the callback; `Push` with its wait; `Stop` as store, notify and
join. A message is its producer and its line, and takes the room of its line.

**Formatter.** A pattern is a sequence of characters. `ParsePattern` returns the
pairs the code makes of it, `Format` the line of a message. The reference starts
at the other end: a pattern that was written from items (`Render`) is laid out as
the items say, for all items that what is written can be told apart by
(`Unambiguous`).

**Loggers.** An asynchronous builder and a synchronous one, of one name, run
`Build()` on two threads, step by step (`building`): the formatter, the assertion
that the name is new, the construction (which starts the worker's thread before
its callback is set), the look and the insertion of `AddLogger` as two critical
sections. Threads run statements: `GetLogger`, `Serialize` and `log` through the
formatter that builder made, the end of the `LogStreamGuard`. `Held` says who has
a `shared_ptr` of the asynchronous logger; the step that makes it false is the
beginning of its destructor (`ClearRunning` of `AsyncLooper`), on the thread that
takes the step, which goes on when `Join` is done. `locked` is the manager's mutex
while `AddLogger` destroys what it replaces. `Exit` ends the program.

**SyncLogger.** A call looks at the clock (`Log`), then again (`CreateNewFile`),
and seconds may pass in between; the program may end and start again between
two calls, with the files still there. Names are sequences of digits, because
what the code does is to print fields without padding. `before` is history: what a
file held when it was opened last.

## 3. Runs

All finish within four minutes on two cores. States are distinct states.

| Run | States | What is checked |
|---|---|---|
| `MCTimerWheel` | 164,538 | `ReferencesMatchDeadline`, `IdNamesItsTask`, `CancelPreventsCallback`, `ImplementsTimers`, `EveryTaskEnds` |
| `MCEventLoop` | 5,310 | `NoLostWakeup`, `ImplementsTaskQueue`, `EveryTaskRuns`, `EveryChannelIsHandled` |
| `MCConnection` | 203,719 | `OutputIsWatched`, `NoIdleWriteWatch`, `CallbacksOnLiveConnection`, `ShutdownCompletes`, `PeerCloseEndsConnection`, `InactiveIsReleased` |
| `MCConnectionPool` | 1,246,006 | `HandlersOnOpenSocket`, `GracefulShutdownSendsAll`, `TimerEndsWithConnection` |
| `MCConnectionTwice` | violation | `ReleasedOnce` |
| `MCServer` | 159,916 | `ChannelsAreCurrent`, `OpenIsWatched`, `NothingOutlivesItsConnection`, `LoopsAreThere`, `ClosedIsRemoved` |
| `MCServerBuffer` | 59,685 | `ReadsTheOldest`, `ImplementsByteQueue`, `BuffersAreAppended` |
| `MCHttpServer` | 243,140 | `AnswersAreTheirOwn`, `RightResource`, `ServedFromBaseDir`, `AnswersInOrder`, `NothingWaits`, `EveryRequestIsAnswered` |
| `MCLoggers` | 86,044 | `NothingIsLost`, `LoggerOutlivesItsUsers`, `LinesFollowThePattern`, `EveryLineIsWritten`, `EveryPushReturns` |
| `MCAsyncLooperStop` | violation | `StopReturns` |
| `MCSyncLogger` | 209,786 | `LinesAreInTheirFile`, `FilesHaveTheirSize` |
| `MCSyncLoggerMinutes` | violation | `LinesAreInTheirFile` |

The bounds, and why the interesting cases are in them:

* `MCTimerWheel`: a dial of three slots, two ids, two tasks, at most two
  expirations read at once. The two tasks are of two ids, or come one after the
  other under one id, which is free again when the first is gone (with `Repeating`
  already while its destructor runs, section 6). Refreshes put references in all
  slots, a delay of 3 is a full circle, and a late loop clears two slots
  with callbacks in between. The proofs lift the safety part to any size.
* `MCEventLoop`: two foreign threads and the loop's own functors, two functors,
  one channel. A lost wake-up needs one thread between push and write; two give
  all orders of two of them, and wake-ups that cancel each other's reads.
* `MCConnection`: on the base loop; two bytes from the peer, one byte of room in
  the kernel, so that writes are partial; two calls from callbacks out of send,
  shutdown, release and enable, nested up to four frames; a timer of two ticks; the
  peer may reset, and signals interrupt the wait. Two calls give every pair, such as
  a send whose shutdown drains the input that came with it.
* `MCConnectionPool`: on a pool loop with another thread that sends, shuts down,
  cancels and releases, callbacks that do the same, and interrupted waits. One byte
  and two calls: what another thread does is one task each, so two give every pair.
  `Cancel` and `Enable` are in different runs, since the code does not keep
  `InactiveIsReleased` with both (section 6).
* `MCServer`: two pool loops, three connections on one number, so that each reuses
  that of the one before, the second on the other loop and the third on the loop of
  the first; one release per event, and one call: any of the five of a connection
  that is open or closed by then, a `RunAfter` with its timer, or an inactivity timer
  that fires. One is enough for a call that comes too late, and for two releases
  of one connection. A server without a pool is left to the proofs.
* `MCServerBuffer`: two buffers, three bytes written each between reads, initial
  memory of one, growing by doubling and by increments. All positions of the
  indices, wrapped and not, occur before and after growing. The two buffers are
  interchangeable (symmetry; only safety is checked).
* `MCHttpServer` starts in one of 2279 worlds. Pipelines: three
  requests out of four kinds and two out of six, good ones and one with an error
  in each place that has an error path, cut anywhere. Single requests: every
  target of up to four of "/", "..", "%2e%2e", "%2F", a file and a directory, and of up
  to three with "%00" among them; both kinds of plus sign; every method on paths where a file, a handler or both match;
  queries of every key of one letter and value of up to two, encoded as a client
  does, with all the special characters, and some that no client would write. And
  two worlds whose files vanish while requests for them are on the way. Four
  parts of a path are enough to leave the base directory, come back, and leave it
  again below another name.
* `MCLoggers`: both builders race with two threads and two statements out of
  three (of one and two characters, and one below the limit) over a buffer of two,
  so that a push waits; three statements with the asynchronous builder alone fill
  the buffer twice; and 1104 patterns, all sequences of up to three out of ten
  texts and fields with and without braces, broken ends, and the usual pattern of
  the programs, with one logger and one statement.
* `MCAsyncLooperStop`: the unsafe mode, two producers, one message: the
  notification can be lost with nothing pushed at all.
* `MCSyncLogger`: four seconds over the end of a minute, periods of a second, a
  limit of two, lengths 1 and 2, one restart, four messages.

`CHECK_DEADLOCK FALSE` stands where the system really stops: the connection is
gone, the server has had all the connections of the bound and they are closed,
all requests are answered or the program is aborted, the worker has ended, the
last statement is run.
`MCTimerWheel`, `MCEventLoop` and `MCServerBuffer` have no such end.

The type invariants (`TypeOK`, `LoggersTypeOK`) are no part of the runs: they are
proved (section 5). Threads of `LoopThreads` have theirs in `PoolInv` of
`ServerProofs`.

## 4. Fairness

* `TimerWheel`: weak fairness of every step of the loop, of time (`Expire`) and
  of callbacks returning. A loop thread polls again after each turn, with no
  exit; `timerfd_settime` is periodic. Calls of the user are not fair.
* `EventLoop`: weak fairness of the loop's steps and of a thread that has pushed
  and has still to write the eventfd. Channels are not obliged to become ready.
* `Connection`: weak fairness of the loop thread, of the base thread, of
  callbacks that return, of ticks, and of the peer reading what was sent to it.
  The last is an assumption about the peer, without which `ShutdownCompletes`
  would be false and the code does not claim it. The user's calls, the peer's
  sends, its close and signals are not fair; `InactiveIsReleased` is about a
  connection on which nothing happens any more, and the model bounds what can.
* `Server`: weak fairness of each pool thread until it loops, of each loop that
  runs, and of accepting. The calls of the user are not fair. `epoll_wait` is level-triggered, so a poll that can
  report something does.
* `HttpServer`: weak fairness of the loop.
* `Loggers`: the fairness of `AsyncLooper`, through the steps of `Loggers` that take
  its steps. Builders, statements and `Exit` are not fair: what is pushed is
  written whether or not anything else happens.
* `AsyncLooper`: weak fairness of the worker, of `notify_all` and of `join`;
  strong fairness of each producer's `Push`, which is enabled whenever the mutex
  is free and it is awake: the mutex is not starved for ever, though the C++
  standard does not promise it. `Stop` is not fair: nobody is obliged to call
  it.

## 5. Proofs

TLAPS proves these for every value of the constants that satisfies the module's
named assumptions (`WheelAssumption`, `LoopAssumption`, `ConnectionAssumption`,
`LooperAssumption`, `LoggersAssumption`, `LinesAssumption`,
`TcpServerAssumption`, `ServerBufferAssumption`, `HttpAssumption`,
`SyncLoggerAssumption`). They give types, rule out empty dials, delays beyond the
circle and empty lines, tell the builders and threads of `Loggers` apart, and say
that `Lines` has what the statements make, that the base directory is there and
that a clock has a second. Eight theorems need more, each with hypotheses of its
own that are part of its statement:

| Theorem | Needs | Because without it |
|---|---|---|
| `CanceledNeverCallsBack` | `~ Repeating` | the code does not keep it (section 6) |
| `CarefulIsDefined` | `CarefulCallbacks` | the code does not keep it (section 6) |
| `CallbacksOnlyInLife` | `"Shutdown" \notin Foreign` | a `Shutdown` another thread has posted runs after the release, does not ask, and drains the input through the callback |
| `NoTimerAfterRelease` | `"Enable" \notin Foreign` | an `EnableInactiveRelease` another thread has posted runs after the release and adds a timer |
| `NoTimerAfterRelease` | `"Enable" \notin Nested \/ "Shutdown" \notin Foreign` | a late `Shutdown` calls back, and the callback may enable the timer |
| `LinesAreInTime` | `GapSize = 1` | finding 3 |
| `LinesAreOfTheirStatements` | `PatternsAreRead`: `ParsePattern` finds the items each pattern was written from, as far as a line shows them, and refuses the rest | a line can say only what the formatter has read; that it reads every pattern is left to TLC, which compares the two for 1104 patterns |
| `AnswersAreOwn` | `TextsAreMeant`: the path and the parameters a client means are what its text decodes to | what a client means is a constant of the model (`path`, `params`), and could be anything; `DecodingUndoesEncoding` says that a path which is encoded meets it |
| `AnswersAreOwn` | `NoneInFront`: no file that may vanish has the path of a handler that sets the connection | a file that vanishes uncovers the handler below it, and with it what the handler says of the connection |
| `RightResourceIsGiven` | `TextsAreMeant` | the same |

The runs that check the same properties meet these conditions: the first six are
values of their cfg, and TLC has confirmed `TextsAreMeant` and
`NoneInFront` for the inputs of `MCHttpServer`. `LinesFollowThePattern` checks
`PatternsAreRead` there, line by line.

| Module | Theorem | Establishes |
|---|---|---|
| `TimerWheelProofs` | `TypeCorrect` | `TypeOK` |
| | `WheelKeepsTime` | `ReferencesMatchDeadline`: the last reference to a task is in the slot of its present deadline |
| | `CallbacksAreOnTime` | `FiresOnDeadline`: a destructor runs when no tick is left |
| | `WheelImplementsTimers` | `Spec => Timers' Spec` |
| | `IdsNameTheirTasks` | `IdNamesItsTask` |
| | `CanceledNeverCallsBack` | `CancelPreventsCallback` |
| | `CarefulIsDefined` | `NoUndefinedBehaviour` |
| `EventLoopProofs` | `TypeCorrect` | `TypeOK` |
| | `NoWakeupIsLost` | `NoLostWakeup` |
| | `NoTaskIsDropped` | the swapped batch is empty whenever the loop is not running it |
| | `LoopImplementsTaskQueue` | `Spec => TaskQueue's Spec` |
| `ConnectionProofs` | `TypeCorrect` | `TypeOK`, through `TypeInv` |
| | `OutputIsAlwaysWatched`, `NeverWatchesForNothing` | `OutputIsWatched`, `NoIdleWriteWatch` |
| | `HandlersKeepTheirSocket` | `HandlersOnOpenSocket` |
| | `ShutdownSendsEverything` | `GracefulShutdownSendsAll` |
| | `CallbacksOnlyInLife` | `CallbacksOnLiveConnection` |
| | `NoTimerAfterRelease` | `TimerEndsWithConnection` |
| `ServerBufferProofs` | `TypeCorrect` | `TypeOK` |
| | `OldestIsRead`, `AppendsBuffers` | `ReadsTheOldest`, `BuffersAreAppended` |
| | `RingImplementsQueue` | `Spec => ByteQueue's Spec` |
| `HttpServerProofs` | `TypeCorrect` | `TypeOK` |
| | `NothingIsLeft` | `NothingWaits` |
| | `NoFileOutside` | `ServedFromBaseDir` |
| | `AnswersComeInOrder` | `AnswersInOrder` |
| | `AnswersAreOwn` | `AnswersAreTheirOwn` |
| | `RightResourceIsGiven` | `RightResource` |
| | `ValidPathsStayBelow` | `ValidPath` accepts a path exactly when no beginning of it has more ".." than names |
| | `DecodingUndoesEncoding` | `UrlDecode(UrlEncode(text, plus), plus) = text` |
| `SyncLoggerProofs` | `TypeCorrect` | `TypeOK` |
| | `LinesAreInTime` | `LinesAreInTheirFile` |
| | `FilesAreFilled` | `FilesHaveTheirSize` |
| `LoggersProofs` | `TypeCorrect` | `TypeOK` of `AsyncLooper` |
| | `LooperLosesNothing` | `NothingIsLost` |
| | `LoggersImplementLooper` | `LoggersSpec => Spec` of `AsyncLooper` |
| | `LoggersLoseNothing` | `NothingIsLost` of the asynchronous logger |
| | `UsersHoldTheLogger` | `LoggerOutlivesItsUsers` |
| | `LoggersTypeCorrect` | `LoggersTypeOK` |
| | `LinesAreOfTheirStatements` | `LinesFollowThePattern` |
| `ServerProofs` | `TypeCorrect` | `TypeOK` of `TcpServer` |
| | `LoopsAreAlwaysThere` | `LoopsAreThere` |
| | `PollersAreCurrent`, `OpenConnectionsAreWatched` | `ChannelsAreCurrent`, `OpenIsWatched` |
| | `TasksFindTheirConnection` | `NothingOutlivesItsConnection` |

**The wheel.** Neither `TypeOK` nor `ReferencesMatchDeadline` is inductive: that
`left` stays within the dial needs the references to be in the right slots, and
that a refresh leaves no reference beyond the new deadline needs `left` to be at
most the task's timeout. `Inv` adds that, and that the task in its destructor has
no reference. The arithmetic is in lemmas of its own: `PosDistance` (the two
maps between slots and distances are inverse), `HandMoves` (one tick brings all
other slots one nearer), then one lemma for each way references come and go. The
step to the abstract timers follows case by case: adding starts a timer, the
last reference's end fires it, most other steps are stutters. `Names`
is about the ids: an entry leads to a task that is there (`EntriesLeadToTasks`,
whatever callbacks do), a task that is there is led to, so a cancel finds it
(`TasksAreNamed`), and a task whose id is cancelled is flagged (`CanceledIsFlagged`),
so that its destructor calls nobody. The first of these is also why a careful
callback never follows an expired reference.

**The loop.** `NoLostWakeup` is inductive given the types: the thread that has
pushed is in `waking` until it has written, and `ReadEventfd` is followed by the
swap before the next poll. For the refinement the abstract queue is
`func \o tasks`; swapping does not change it.

**The connection.** `Watching` says, with `Sound`, that an open object watches
for output exactly while it has some, that nothing is left of the polled batch
when tasks run, and that while the connection is in the batch or being handled
its socket is open and watched. Releases run only as tasks, so no handler can
lose its socket. `MembersKeep` shows this once for each member function that
touches channel or output, and `KeepsWatching` for every step made of them. For
shutdown, `Sent` extends the property to the time when a release is only queued:
from the moment a release is posted that nothing forced, the output is empty,
since the two places that post one look at the output first. The lemmas
`HasAppend` and `HasTail` say how a release moves through the queues. `Live` says
that whoever runs user code, however nested, runs it on an open connection, and
that the status tells whether the socket is open; it needs that no task
`Shutdown` waits, and that nobody can post anything before `Established`
(`Accepted`). For the timer, `EnabledFirst` shows that the task that starts it
runs before anything else has happened to the connection, wherever it waits; a
callback that starts it runs on an open one (`CallbacksOnLiveConnection`). The proofs hold for all
lengths, depths of nesting and timeouts, and, but for the hypotheses above, for all
sets of calls by callbacks and other threads.

**The buffer.** Every ring that an operation leaves is in `Rings`: indices inside
the memory and one byte free. One lemma per helper gives what it does to the
content, seen as a sequence from the read index on, around the end of the memory
or not: `Contents`, then reading, writing in one or two copies, searching for the
end of a line, and growing. The number of times the memory is bought again for one
write has no bound; that enough is bought, and nothing lost by it, is an induction
over it. The refinement is then one case per operation.

**HTTP.** The inductive invariant of `TypeCorrect` says in which state the parser,
the request and each frame of the stack are; under a frame there is only one that
can call (`Stacks`). For `NothingIsLeft`, `OnTop` adds what is known where the
innermost handler is: what the parser has left behind when it stops is `Quiet`, and
a drain loop that has called back finds it so. `NoFileOutside` has two halves. The
depth that `ValidPath` counts over the parts of the path bounds, part by part, the
walk of `Lookup` through directories from the base directory (`WalkStays`), for
every text, with empty parts and "." among them (`DepthIs`, `WalkIs`: induction
over the parts). The disk sees only the part of the path before a byte 0 (`CStrIs`),
whose parts are those of the whole path as far as they go, the last perhaps cut
short (`CutParts`, `PathIsCut`); that their depths agree as far (`DepthsAgree`) is
what makes the walk stay (`LookupStays`). And the frame `"file"` is only there while the path it was
entered with is valid (`OnTop`), though the disk may change between.

For the order of answers, what has been said must be tied to what has come. The
text is the requests behind each other (`Layout`: where each begins, where its
head ends), and `OrderInv` says where in it the server is: the requests that are
answered end where the one that is being read begins (`Answered`, `IsAt`), the
lines of it that are read are in the context (`IsRead`), and the frames of the stack
are in the turn that belongs to the place (`InTurn`), through every cut of the text,
every re-entered `OnMessage`, and `Reset` on the way from one request to the next.
After a bad request the buffer is emptied and nothing is claimed of what follows.

`GoodInv` builds on it: with the place known, the request in the context is the one
that was sent, so what `Route` finds is found for that request, and the answer is
`Own` and `Right`. The disk only loses files that were fleeting (`DiskInv`), which
is what a vanished file leaves open. `FileHandler` takes the type from the path as
it was sent, and the property wants that of the file's own name: where the path has
no byte 0 they agree, since the walk ends at the file through its last part (`LastStart`,
`TypeOfLastPart`, `FileHasItsType`), and an extension has no "/" in it.

The decoder takes steps of one and of three bytes. `DecodesBy` says what one step
does, `DecodesOne` that behind the encoding of a byte it stands behind that byte and
has added it; the theorem is the induction over the pieces (`IsEncoded`, `Stands`).

**The rolling sinks.** `OpenedInTime` relates the period the sink believes to be in
and the second its file was named in; with periods of a second that is enough, as
a line at a new second opens a new file. For the sizes, `Counted` says that the
count of the sink is what its file has grown by since it was opened, and
`Numbered` that the first program's files bear the numbers 1, 2, ..., so that a new
file's name is never an old one's.

**The log worker and the loggers.** `InOrder` says that what is written, what is
being written and what waits are, behind each other, the pushes so far. The swap
keeps it because the buffer the worker gives away is empty (`Emptied`), and the
worker ends only when the other is empty too and nobody can push (`Quiet`). For
`Loggers` there is no mapping to state: its variables are those of `AsyncLooper`
and more, and `StepsAreTheLoopers` shows that each of its steps is one of the
looper's or leaves it alone. What that needs is `Known`: a thread that pushes has
a logger whose formatter has the pattern, so that the line it pushes is one of
`Lines`. `LoggersLoseNothing` is then `LooperLosesNothing`. For `LinesAreOfTheirStatements`,
`Told` says that what a thread carries from `Serialize` to `log`, what was accepted
and what is in the file are `Said`: lines that the formatter, as the builder has read
the pattern, makes of an enabled statement and the thread that runs it. `Referenced`
says that who pushes holds a reference, that the destructor has begun only when nobody has
one, and that before the logger is made nothing is in its buffer; `SomeoneDrops`
is the one place where the destructor may begin.

**The server.** `PoolInv` says that exactly the threads before `index` have
published their loops, and that the starting thread sleeps only on one that has
not. `TcpInv` has what connections, descriptors, pollers and queues have to do
with each other. A descriptor is of one connection, which is accepted or open and
in `_conns` or being made, until it is released (`Owners`); while one is being made
the base loop does nothing else, and its loop, if it is another, cannot have opened
it (`Making`). Events that are still to be handled are of watched connections, since
releases run when there are none (`Reported`). Tasks come in their time (`InTime`):
`Established` once and only while the connection is not open, `Send` and `Shutdown`
not before it. A connection that is closed and was asked only once waits for no
release, and unless it is `late` no task and no timer is left that could touch it
(`Settled`); whatever goes wrong has a connection that is late, or was asked twice,
to blame (`Blamed`).

A task is in one of two queues, the one that is run and the one that comes after
it; the lemmas `Posting`, `Releasing`, `Taking` and `Swapping` say what each
operation on them does to a task's being there (`Waits`) and being there once
(`Single`). Above them one lemma for each kind of step shows that it keeps
`TcpInv`: those that only take away (`Calm`, `CalmTasks`), those that ask for
releases and may touch the channel (`Asking`, with `Updating` for the poller), calls
(`Calling`), `Established` (`Opening`) and the release (`ReleaseStep`); the actions
of a loop, the acceptor and the user are instances of these. Connections that were
asked twice, and those that a late `Shutdown` has revived, are in it: they may take a
number's new owner out of the poller, or keep it from getting in, which is why
`OpenIsWatched` excludes `Disturbed` ones, and the proof shows that these are the only
ways.

**Out of reach or left to TLC.**

* Liveness under fairness (all `Every...`, `ShutdownCompletes`,
  `PeerCloseEndsConnection`, `InactiveIsReleased`, `ClosedIsRemoved`) and
  `StopReturns`: the prover has neither `ENABLED` nor fairness.
* `PatternsAreRead`: that `ParsePattern` reads every pattern as it was written. The
  library's induction rules cannot be used, since they take an operator. Induction
  over a number can: a set of numbers that has 0 and with each number the next is
  `Nat` (`AllNumbers`, from the well-foundedness of `<`), and recursive functions are
  shown to exist from it (`Recursion`, `Chain`). The proofs about HTTP paths, the
  decoder and the growing ring use it. For the parser the gap is
  larger: it is compared with a reference that starts from the items, and both walk
  over the text in steps of several lengths that depend on what comes later (the
  next brace).
* Queries: `DecodingUndoesEncoding` is about one text. That the split of an encoded
  query at "&" and "=" finds the fields again is checked for the queries of
  `MCHttpServer`, and is part of `TextsAreMeant` in the proofs.

## 6. Where the code departs from what one expects

Three of these are runs that end in a violation, and entries of `findings`:

1. `MCConnectionTwice`. `Channel.hpp:125`: "of the operations that release the
   connection only one is executed". A reset of the peer is reported as IN, ERR
   and HUP; the read handler shuts down (`Socket::Recv` gives -1), and then the
   error handler releases, each of which posts `ReleaseInLoop`: it runs twice,
   removes the channel and calls the closed callback twice.
2. `MCAsyncLooperStop`. `Looper.hpp:68`: "woken before the exit". `Stop()` sets
   the flag and notifies without the mutex. Between the worker's test of the
   predicate and its sleep the notification is lost, and `join()` waits for ever,
   unless a producer comes by.
3. `MCSyncLoggerMinutes`. `Sink.hpp:153` and `README.md:24-25`: a new file for
   each period. `Sink.hpp:168` computes the offset in the period
   (`curtime % _gapsize`) where the number of the period is meant: with a period
   of a minute a file is changed every second, and a line at the same offset of
   a later minute goes into the old file.

The rest were met with other values of the constants. Each can be seen again by
changing the cfg that is named:

* `MCTimerWheel` with `Repeating = TRUE`: a callback that adds its own id again,
  which nothing in the repository does, has its new entry erased by the destructor
  that is running (`TimerWheel.hpp:49-54`), so the timer cannot be refreshed or
  cancelled, and `CancelPreventsCallback` fails.
* `MCTimerWheel` with `CarefulCallbacks = FALSE`: a callback that refreshes its
  own id dereferences an expired `weak_ptr` (`TimerWheel.hpp:172-173`), and one
  that adds a timer with the delay of the whole circle pushes into the vector
  that `clear()` is walking: `NoUndefinedBehaviour` fails. No program in the
  repository does either, which is why the run assumes callbacks do not.
* `MCConnection`, by the way the properties are stated: `Socket::Recv` looks at
  `errno` also when `recv` has returned 0 (`Socket.hpp:116`). If `epoll_wait` was
  interrupted before, the end of the peer is taken for "nothing to read", against the
  comment at `Connection.hpp:221` that a disconnection gives -1; and since the end
  stays readable, the loop spins, and every turn counts as activity.
  `PeerCloseEndsConnection` and `InactiveIsReleased` except this state
  (`EndIsHidden`); without the exception TLC finds both violated.
* `MCConnection` with `"Cancel"` and `"Enable"` both in `Nested` or in `Foreign`: a
  cancelled timer is still in the wheel; enabling again refreshes it and adds
  none (`Connection.hpp:434-435`), and `InactiveIsReleased` fails.
* `MCConnectionPool` with `Foreign = {"Send", "Shutdown"}` and `WatchedIsOpen`:
  a `Shutdown` that another thread posted runs after the release, enables
  writing and puts the closed descriptor's channel back in the poller
  (`Connection.hpp:401` after `:362`).
* `MCConnectionPool` with `Timeout = 1`, `Foreign = {}` and
  `EstablishedFindsConnecting`: the timer is started before `Established` is
  posted; with a timeout of a second its release may come first, and the
  assertion at `Connection.hpp:345` fails.
* `MCTimerWheel` and `MCConnection` do not list `NoUndefinedBehaviour` and
  `WatchedIsOpen`; they hold there and are for the variants above.
* `MCLoggers` with `ManagerIsFree`: when the second of two builders of one name
  replaces the first one's logger, the assignment at `Logger.hpp:385` destroys it
  and waits for its worker with the manager's mutex held; when `Stop()` hangs
  (finding 2) so does every `GetLogger`.
* `MCHttpServer` with `CloseIsTheLastAnswer`: after a request that asks to close,
  `Shutdown` hands the pipelined rest to `OnMessage`, which answers it.
* `MCServer`, by the way the properties are stated. A `Shutdown` that was posted
  before the release, or after it, and runs after it makes the connection
  DISCONNECTING again and may enable writing (`Connection.hpp:401`, `:419-423`), so
  that the poller has the closed channel under a number that is free, or another
  connection's by then: `ChannelsAreCurrent` excepts channels of such connections
  (stage `"revived"`). `OpenIsWatched` excepts `Disturbed` connections: their number
  had an owner on the same loop that was revived so, or was asked twice to be
  released (finding 1), whose second release takes the place in the poller
  (`Poller.hpp:45-51`). And `NothingOutlivesItsConnection` holds for connections
  that were asked once to be released, after all calls were done: tasks, and a timer
  that a late call starts, are bound to the bare object.
* `MCSyncLogger`: fields are printed without padding (`Sink.hpp:191-197`), so
  January 11 and November 1 share a name, and their lines a file. No property says
  that names tell periods apart, since the code does nothing for it. A program
  started in the same second as an earlier one appends to its file and counts from
  0 (`Sink.hpp:71-72`); `FilesHaveTheirSize` allows it the size once more.
* `MCLoggers`, by the way the properties are stated. Two builders of one name that
  race (`Logger.hpp:383`) leave one of the two loggers unmanaged: `GetLogger` gives
  one of them, and lines may go to both. After `abort()` what is in the buffers is
  lost (`EveryLineIsWritten` excepts it). A pattern that ends with text behind its
  last field makes the parser fail and the program abort, though the comment at
  `Formatter.hpp:234` says that such text must be appended: `TrailingTextIsAppended`
  states the comment, and TLC finds it violated. `LinesFollowThePattern` takes no
  side: such a pattern may make lines or none, but no wrong ones.
* `MCHttpServer` with `TypeIsTheFiles`: `GET /index.html%00.png` gets `index.html`
  with the type of a `.png`, since `ReadFile` opens the name up to the byte 0
  (`Util.hpp:167`, `:310`) and `ExtMime` looks at all of it (in the run, `/a%00.js`).
  `RightResource` therefore asks for the type only where the path has no byte 0.
* `MCHttpServer`, by the way the model follows the code. A file that vanishes
  between `IsFileExists` and `ReadFile` aborts the program (`Util.hpp:168`,
  `EveryRequestIsAnswered` excepts it). `back()` is called of an empty path
  (`HttpServer.hpp:136`). An answer to an error says "keep-alive" if the request
  did, and is followed by a shutdown. Of two values of one header or parameter the
  first stays, so a handler's own `Connection` wins. HEAD is answered with a body,
  and an answer without one (404) has no `Content-Length` (`HttpServer.hpp:95`).
* `HttpUtil`: a byte beyond 127 is encoded with its sign extended, and cut off at
  two digits (`Util.hpp:219-221`); a "%" before letters that are no hexadecimal
  digits is decoded to something all the same.
* Read in the code, in no run: a message longer than the whole buffer blocks its
  producer for ever in safe mode (`Looper.hpp:51`); at the limit of descriptors the
  acceptor is called again at once, for ever (`Acceptor.hpp:39`); delays of 0 or
  beyond 60 land on another slot (`TimerWheel.hpp:159`); the acceptor's initialiser
  uses `_socket` before it is constructed; the two global loggers of
  `http/main.cc:13-23` write to one file, each under its own lock; the answer 405
  is never given, since every method the pattern of the request line knows is
  routed; `Build()` called twice gives both loggers the same sinks; `Upgrade` from
  a callback destroys the callback that is running.

## 7. What is not modelled

* `Upgrade` and `Any`: context and callbacks are replaced in one task of the loop,
  and the context is a container of one value.
* `FileSink` and `StdOutSink`: one write. `vasprintf`, `strftime` and the streams
  behind a `LogStreamGuard` are what they are documented to be.
* HTTP: headers other than `Content-Length` and `Connection`, a `Content-Length`
  that is not a number, redirects, the table of status texts and the text of an
  answer; `WriteFile`, which nothing calls, and `IsDirectoryExists`, which the setter
  of the base directory asserts (`HttpAssumption` assumes it). Routes are sets of
  paths, where the code has regular expressions.
* Setters that are called before `Start()` (callbacks, routes, base directory):
  constants of the modules.
* Socket options, the client side of `Socket`, the programs and the tests.
* `abort()` after a failed system call: the program ends.
* Memory: the C++ memory model is taken to be sequentially consistent for what
  is under a mutex or atomic. The rest is used by one thread, except what
  section 6 names.

## 8. Plan

Order of the modules, the most important behaviour first: loop and wheel, on
which all else runs; the connection; the server that composes connections with
loops; then buffer, HTTP and logging. All of these are modelled and checked.

What may still be added to the model: `Upgrade` as a further task of
`Connection`; `HttpServer` composed with `ServerBuffer` for `GetLine` on a wrapped
line; the two loggers of `http/main.cc` over one file.

Proving more, in this order:

1. `HttpUtil`: a query that is encoded as clients do is split into its fields and
   decoded again (`Params`), so that `TextsAreMeant` follows from the way a request
   was written.
2. `Formatter`: `PatternsAreRead` for patterns without braces, then for all.
3. `HttpServer`: an abstract server that answers requests one after the other, and
   the proof that this one implements it; `OrderInv` and `GoodInv` are what it needs.
