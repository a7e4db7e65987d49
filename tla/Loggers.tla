------------------------------ MODULE Loggers ------------------------------
(***************************************************************************)
(* log/Logger.hpp: two builders make a logger of one name, one of them     *)
(* asynchronous (AsyncLooper is its worker) and one synchronous, while     *)
(* threads look the name up in the LoggerManager and log.  A logger lives  *)
(* as long as someone has a shared_ptr of it; whoever drops the last one   *)
(* runs its destructor, and with it Stop().  A failed assertion, and       *)
(* abort(), end the program.                                               *)
(***************************************************************************)
EXTENDS AsyncLooper, Formatter

CONSTANTS
  Async, Sync,  \* the builders, and the loggers they make
  None,
  Name,         \* of the logger
  Main,         \* the thread that ends the program
  Workloads     \* what is built and logged, bounded: [builders, pattern, limit,
                \* statements, calls], calls being how many statements are run

Builders == {Async, Sync}

\* A pattern is a text, and, if it is whole, what it is written from.
IsWorkload(w) ==
  /\ w.builders \subseteq Builders /\ w.calls \in 0 .. MaxMessages /\ w.limit \in 1 .. 6
  /\ \A s \in w.statements : s.level \in 1 .. 5
  /\ w.pattern.whole =>
       Unambiguous(w.pattern.tokens) /\ w.pattern.text = Render(w.pattern.tokens)
ASSUME LoggersAssumption ==
  /\ Async # Sync /\ None \notin Builders \cup Producers
  /\ Main \notin Builders \cup Producers \cup {None}
  /\ \A w \in Workloads : IsWorkload(w)

\* What thread p writes in statement s, by a formatter.
Line(items, s, p) == Format(items, s @@ [name |-> Name, tid |-> p])

\* Statements at or above the limit.
Enabled(w) == {s \in w.statements : s.level >= w.limit}

\* Lines, of AsyncLooper, has what the asynchronous logger is given to write.
ASSUME LinesAssumption ==
  \A w \in Workloads, p \in Producers : Async \in w.builders =>
    \A s \in Enabled(w) : Line(ParsePattern(w.pattern.text), s, p) \in Lines

VARIABLES
  workload,    \* the one of this run
  building,    \* per builder where Build() is
  formatter,   \* per builder the items of its _formatter
  managed,     \* the logger that _loggers has under the name
  locked,      \* whether the manager's mutex is held for longer than a step
  guard,       \* per thread: _logger of its LogStreamGuard
  saying,      \* per thread: the statement to be written when it ends
  left,        \* statements still to be run
  destroying,  \* the thread that is in the destructor of the asynchronous logger
  file,        \* history: what the synchronous logger has written
  aborted      \* why the program was aborted: "no", "pattern", "exists"

looper == vars
manager == <<managed, locked>>
users == <<guard, saying, left, file>>
all == <<looper, workload, building, formatter, manager, users, destroying, aborted>>

LoggersInit ==
  /\ Init
  /\ workload \in Workloads
  /\ building = [b \in Builders |-> IF b \in workload.builders THEN "begin" ELSE "dropped"]
  /\ formatter = [b \in Builders |-> <<>>]
  /\ managed = None /\ locked = FALSE
  /\ guard = [p \in Producers |-> None] /\ saying = [p \in Producers |-> None]
  /\ left = workload.calls /\ file = <<>>
  /\ destroying = None /\ aborted = "no"

\* The shared_ptrs of the asynchronous logger: of the manager, of Build() and its
\* caller, of the statements.
HeldMutant ==                  \* a statement has a reference only
  \/ managed = Async
  \/ building[Async] \in {"made", "absent", "returned"}
Held ==
  \/ managed = Async
  \/ building[Async] \in {"made", "absent", "returned"}
  \/ \E p \in Producers : guard[p] = Async

\* A thread has dropped a shared_ptr of logger l.
Dropped(l, thread) ==
  IF l = Async /\ ~ Held' THEN ClearRunning /\ destroying' = thread
  ELSE UNCHANGED <<looper, destroying>>

Running == aborted = "no"
At(b, place) == Running /\ building[b] = place /\ destroying # b
Goto(b, place) == building' = [building EXCEPT ![b] = place]
Abort(why) == aborted' = why /\ UNCHANGED building

-----------------------------------------------------------------------------
(* The builders.                                                            *)

BuildLoggerFormatter(b) ==
  /\ At(b, "begin")
  /\ formatter' = [formatter EXCEPT ![b] = ParsePattern(workload.pattern.text)]
  /\ IF Aborts(formatter'[b]) THEN Abort("pattern")
     ELSE Goto(b, "formatted") /\ UNCHANGED aborted
  /\ UNCHANGED <<looper, workload, manager, users, destroying>>

\* assert(!IsExistsLogger(_logger_name))
AssertIsNew(b) ==
  /\ At(b, "formatted") /\ ~ locked
  /\ IF managed # None THEN Abort("exists")
     ELSE Goto(b, "unique") /\ UNCHANGED aborted
  /\ UNCHANGED <<looper, workload, formatter, manager, users, destroying>>

\* The looper starts its thread, and sets _cb after that.
StartThread ==
  /\ At(Async, "unique")
  /\ Goto(Async, "threaded")
  /\ UNCHANGED <<looper, workload, formatter, manager, users, destroying, aborted>>

Constructed(b) ==
  /\ IF b = Async THEN At(b, "threaded") ELSE At(b, "unique")
  /\ Goto(b, "made")
  /\ UNCHANGED <<looper, workload, formatter, manager, users, destroying, aborted>>

\* AddLogger: the look and the insertion are two critical sections.
AddLoggerLooks(b) ==
  /\ At(b, "made") /\ ~ locked
  /\ Goto(b, IF managed # None THEN "returned" ELSE "absent")
  /\ UNCHANGED <<looper, workload, formatter, manager, users, destroying, aborted>>

\* The logger that was there goes, under the mutex.
AddLoggerInserts(b) ==
  /\ At(b, "absent") /\ ~ locked
  /\ managed' = b
  /\ Goto(b, "returned")
  /\ UNCHANGED <<workload, formatter, users, aborted>>
  /\ Dropped(managed, b)
  /\ locked' = (destroying' # destroying)

\* The caller of Build() does without the pointer (LoggerInit).
DropPointer(b) ==
  /\ At(b, "returned")
  /\ Goto(b, "dropped")
  /\ UNCHANGED <<workload, formatter, manager, users, aborted>>
  /\ Dropped(b, b)

\* The rest of the destructor.
StopNotifies ==
  /\ Running /\ NotifyAll
  /\ UNCHANGED <<workload, building, formatter, manager, users, destroying, aborted>>
StopJoins ==
  /\ Running /\ Join
  /\ destroying' = None /\ locked' = FALSE
  /\ UNCHANGED <<workload, building, formatter, managed, users, aborted>>

\* The end of the program destroys the manager, when nobody logs any more.
Exit ==
  /\ Running /\ managed # None /\ destroying = None
  /\ \A b \in Builders : building[b] = "dropped"
  /\ \A p \in Producers : guard[p] = None
  /\ managed' = None /\ left' = 0
  /\ UNCHANGED <<workload, building, formatter, locked, guard, saying, file, aborted>>
  /\ Dropped(managed, Main)

-----------------------------------------------------------------------------
(* A statement: LOG_..._STREAM(GetLogger(name)) << ...                      *)

\* Nothing happens when there is no logger.
GetLogger(p) ==
  /\ Running /\ guard[p] = None /\ destroying # p /\ ~ locked
  /\ managed # None /\ left > 0
  /\ guard' = [guard EXCEPT ![p] = managed]
  /\ \E s \in workload.statements :
       saying' = [saying EXCEPT ![p] = IF s \in Enabled(workload) THEN s ELSE None]
  /\ left' = left - 1
  /\ UNCHANGED <<looper, workload, building, formatter, manager, file, destroying, aborted>>

\* Serialize and log, of the one logger or the other.
Serialize(p) ==
  /\ Running /\ guard[p] # None /\ saying[p] # None
  /\ LET line == Line(formatter[guard[p]], saying[p], p)
     IN IF guard[p] = Async THEN CallPush(p, line) /\ UNCHANGED file
        ELSE file' = Append(file, [from |-> p, line |-> line]) /\ UNCHANGED looper
  /\ saying' = [saying EXCEPT ![p] = None]
  /\ UNCHANGED <<workload, building, formatter, manager, guard, left, destroying, aborted>>

PushToLooper(p) ==
  /\ Running /\ Push(p)
  /\ UNCHANGED <<workload, building, formatter, manager, users, destroying, aborted>>

\* The guard's shared_ptr goes.
EndStatement(p) ==
  /\ Running /\ guard[p] # None /\ saying[p] = None /\ asking[p] = <<>>
  /\ guard' = [guard EXCEPT ![p] = None]
  /\ UNCHANGED <<workload, building, formatter, manager, saying, left, file, aborted>>
  /\ Dropped(guard[p], p)

-----------------------------------------------------------------------------

\* The worker, from when its thread is there.
ThreadRuns ==
  /\ Running
  /\ Async \in workload.builders /\ building[Async] \notin {"begin", "formatted", "unique"}
WorkerSteps ==
  /\ ThreadRuns /\ Worker
  /\ UNCHANGED <<workload, building, formatter, manager, users, destroying, aborted>>
WakesUp ==
  /\ ThreadRuns /\ SpuriousWakeup
  /\ UNCHANGED <<workload, building, formatter, manager, users, destroying, aborted>>

Build(b) ==
  \/ BuildLoggerFormatter(b) \/ AssertIsNew(b) \/ Constructed(b)
  \/ AddLoggerLooks(b) \/ AddLoggerInserts(b) \/ DropPointer(b)

Statement(p) == GetLogger(p) \/ Serialize(p) \/ PushToLooper(p) \/ EndStatement(p)

LoggersNext ==
  \/ \E b \in Builders : Build(b)
  \/ StartThread
  \/ StopNotifies \/ StopJoins \/ Exit
  \/ \E p \in Producers : Statement(p)
  \/ WorkerSteps \/ WakesUp

LoggersSpec == LoggersInit /\ [][LoggersNext]_all

\* As in AsyncLooper.
LoggersFairSpec ==
  /\ LoggersSpec
  /\ WF_all(WorkerSteps)
  /\ \A p \in Producers : SF_all(PushToLooper(p))
  /\ WF_all(StopNotifies \/ StopJoins)

-----------------------------------------------------------------------------
(* Properties.                                                              *)

\* Every variable has its type.
LoggersTypeOK ==
  /\ TypeOK /\ workload \in Workloads
  /\ building \in [Builders -> {"begin", "formatted", "unique", "threaded", "made",
                                "absent", "returned", "dropped"}]
  /\ managed \in Builders \cup {None} /\ locked \in BOOLEAN
  /\ guard \in [Producers -> Builders \cup {None}]
  /\ saying \in [Producers -> Enabled(workload) \cup {None}]
  /\ left \in Nat /\ destroying \in Builders \cup Producers \cup {Main, None}
  /\ aborted \in {"no", "pattern", "exists"}

\* The looper is used while it lives, whatever order two builders of one name, the
\* lookups and the ends of the statements come in.  AddLogger may replace a logger
\* that is in use: its destructor begins when nobody is logging to it any more, or
\* can begin to.  And the worker, whose thread starts before _cb is set
\* (Looper.hpp:27-28), calls it only when it is there.
LoggerOutlivesItsUsers ==
  /\ \A p \in Producers : asking[p] # <<>> => guard[p] = Async
  /\ stop # "no" => managed # Async /\ \A p \in Producers : guard[p] # Async
  /\ worker = "work" => building[Async] # "threaded"

\* A line is what the pattern says, of a statement at or above the limit; a pattern
\* that cannot be read makes no logger, and the program is not aborted for one that
\* can (ParsePattern, CreateItem).  Of patterns that end with text nothing is said
\* but that no line lacks that text: see TrailingTextIsAppended.
LinesFollowThePattern ==
  LET pattern == workload.pattern
  IN /\ \A m \in ToSet(written \o file) :
          \E s \in workload.statements :
            s.level >= workload.limit /\ m.line = Line(pattern.tokens, s, m.from)
     /\ IF ~ pattern.whole \/ ~ KnownFields(pattern.tokens)
          THEN \A b \in Builders : building[b] \in {"begin", "dropped"}
          ELSE aborted = "pattern" => EndsWithText(pattern.tokens)

\* "If the pattern ends with plain text, that text is to be appended"
\* (Formatter.hpp:234).  The code does not keep this: it rejects the pattern.
TrailingTextIsAppended ==
  aborted = "pattern" =>
    ~ workload.pattern.whole \/ ~ KnownFields(workload.pattern.tokens)

\* A line that was pushed is written, whatever happens to the logger, unless the
\* program is aborted.
EveryLineIsWritten ==
  \A n \in 1 .. MaxMessages :
    Len(accepted) >= n ~> Len(written) >= n \/ aborted # "no"

\* No thread waits for ever for room in the buffer.
EveryPushReturns ==
  \A p \in Producers : asking[p] # <<>> ~> asking[p] = <<>> \/ aborted # "no"

\* A lookup does not wait for ever.  The code does not keep this when AddLogger
\* replaces a logger and Stop() hangs (StopReturns).
ManagerIsFree == locked ~> ~ locked \/ aborted # "no"
=============================================================================
