--------------------------- MODULE LoggersProofs ---------------------------
(***************************************************************************)
(* What holds of AsyncLooper for every set of producers and lines, every   *)
(* capacity and any number of messages; and of Loggers for every set of    *)
(* threads and workloads: the looper is used as AsyncLooper says, so that  *)
(* what holds there holds here, and nobody uses it once its destructor has *)
(* begun.                                                                  *)
(***************************************************************************)
EXTENDS Loggers, TLAPS

-----------------------------------------------------------------------------
(* The worker and its buffers.                                              *)

\* The buffer that was written is empty again when the next swap comes, so that
\* the worker gives the producers an empty one.
Emptied == worker # "work" => con = <<>>

\* Nobody pushes once Stop() has begun, and only then the worker may end.
Quiet ==
  /\ running <=> stop = "no"
  /\ stop # "no" => \A p \in Producers : asking[p] = <<>>
  /\ worker = "done" => stop # "no" /\ pro = <<>>

InOrder == written \o con \o pro = accepted

Inv == TypeOK /\ Emptied /\ Quiet /\ InOrder

-----------------------------------------------------------------------------
(* Sequences.                                                               *)

\* What is appended to the last of two sequences is appended to both.
LEMMA AppendBehind ==
  ASSUME NEW S, NEW s \in Seq(S), NEW t \in Seq(S), NEW e \in S
  PROVE  s \o Append(t, e) = Append(s \o t, e)
  OBVIOUS

\* The empty sequence adds nothing.
LEMMA EmptyBehind ==
  ASSUME NEW S, NEW s \in Seq(S)
  PROVE  s \o <<>> = s
  OBVIOUS

-----------------------------------------------------------------------------

LEMMA InitInv == Init => Inv
<1> SUFFICES ASSUME Init PROVE Inv
  OBVIOUS
<1>1. <<>> \in Seq(Messages)
  OBVIOUS
<1> QED BY <1>1, EmptyBehind DEF Init, Inv, TypeOK, Emptied, Quiet, InOrder, Places

\* One case per step of a producer, of the worker and of Stop().
LEMMA StepInv == Inv /\ [Next]_vars => Inv'
<1> SUFFICES ASSUME Inv, [Next]_vars PROVE Inv'
  OBVIOUS
<1> USE DEF Inv, TypeOK, Emptied, Quiet, Places
<1>0. UNCHANGED <<written, con, pro, accepted>> => InOrder'
  BY DEF InOrder
<1>1. ASSUME NEW p \in Producers, NEW line \in Lines, CallPush(p, line) PROVE Inv'
  <2>1. running
    BY <1>1 DEF CallPush
  <2>2. asking' \in [Producers -> Lines \cup {<<>>}]
    BY <1>1 DEF CallPush
  <2>3. blocked' \subseteq {q \in Producers : asking'[q] # <<>>}
    BY <1>1 DEF CallPush
  <2> QED BY <1>0, <1>1, <2>1, <2>2, <2>3 DEF CallPush
<1>2. ASSUME NEW p \in Producers, Push(p) PROVE Inv'
  <2> DEFINE m == [from |-> p, line |-> asking[p]]
  <2>1. m \in Messages
    BY <1>2 DEF Push, Messages
  <2>2. CASE Safe /\ WriteableSize(pro) < Len(asking[p])
    <3>1. UNCHANGED <<running, pro, con, worker, asking, stop, accepted, written>>
          /\ blocked' = blocked \cup {p} /\ asking[p] # <<>>
      BY <1>2, <2>2 DEF Push
    <3> QED BY <1>0, <3>1
  <2>3. CASE ~ (Safe /\ WriteableSize(pro) < Len(asking[p]))
    <3>1. /\ pro' = Append(pro, m) /\ accepted' = Append(accepted, m)
          /\ worker' = Notified(worker) /\ asking' = [asking EXCEPT ![p] = <<>>]
          /\ UNCHANGED <<running, con, blocked, stop, written>>
          /\ asking[p] # <<>> /\ p \notin blocked
      BY <1>2, <2>3 DEF Push
    <3>2. TypeOK'
      <4>1. pro' \in Seq(Messages) /\ accepted' \in Seq(Messages)
        BY <2>1, <3>1
      <4>2. blocked' \subseteq {q \in Producers : asking'[q] # <<>>}
        BY <3>1
      <4> QED BY <3>1, <4>1, <4>2 DEF Notified
    <3>3. stop = "no" /\ worker # "done"
      BY <3>1
    <3>4. Emptied' /\ Quiet'
      BY <3>1, <3>3 DEF Notified
    <3>5. InOrder'
      <4>1. written \o con \in Seq(Messages)
        OBVIOUS
      <4>2. (written \o con) \o Append(pro, m) = Append((written \o con) \o pro, m)
        BY <2>1, <4>1, AppendBehind
      <4> QED BY <3>1, <4>2 DEF InOrder
    <3> QED BY <3>2, <3>4, <3>5
  <2> QED BY <2>2, <2>3
<1>3. CASE CheckExit
  BY <1>0, <1>3 DEF CheckExit
<1>4. CASE Test
  <2>1. CASE ~ running \/ pro # <<>>
    <3>1. /\ con' = pro /\ pro' = con /\ worker' = "work" /\ con = <<>>
          /\ blocked' \in SUBSET blocked
          /\ UNCHANGED <<running, asking, stop, accepted, written>>
      BY <1>4, <2>1 DEF Test
    <3>2. InOrder'
      <4>1. written \o pro \in Seq(Messages) /\ written \in Seq(Messages)
        OBVIOUS
      <4>2. (written \o con) \o pro = written \o pro
        BY <3>1, <4>1, EmptyBehind
      <4>3. (written \o pro) \o <<>> = written \o pro
        BY <4>1, EmptyBehind
      <4> QED BY <3>1, <4>2, <4>3 DEF InOrder
    <3> QED BY <3>1, <3>2, <1>4 DEF Test
  <2>2. CASE ~ (~ running \/ pro # <<>>)
    BY <1>0, <1>4, <2>2 DEF Test
  <2> QED BY <2>1, <2>2
<1>5. CASE FallAsleep
  BY <1>0, <1>5 DEF FallAsleep
<1>6. CASE Write
  <2>1. written' \in Seq(Messages) /\ con' = <<>> /\ written' = written \o con
    BY <1>6 DEF Write
  <2>2. written' \o con' = written \o con
    BY <2>1, EmptyBehind
  <2> QED BY <1>6, <2>1, <2>2 DEF Write, InOrder
<1>7. CASE SpuriousWakeup
  BY <1>0, <1>7 DEF SpuriousWakeup
<1>8. CASE ClearRunning
  BY <1>0, <1>8 DEF ClearRunning
<1>9. CASE NotifyAll
  BY <1>0, <1>9 DEF NotifyAll, Notified
<1>10. CASE Join
  BY <1>0, <1>10 DEF Join
<1>11. CASE UNCHANGED vars
  BY <1>0, <1>11 DEF vars
<1> QED
  BY <1>1, <1>2, <1>3, <1>4, <1>5, <1>6, <1>7, <1>8, <1>9, <1>10, <1>11
  DEF Next, Worker, Stop

LEMMA AlwaysInv == Spec => []Inv
  BY InitInv, StepInv, PTL DEF Spec

-----------------------------------------------------------------------------

\* Every variable keeps its type.
THEOREM TypeCorrect == Spec => []TypeOK
<1>1. Inv => TypeOK
  BY DEF Inv
<1> QED BY <1>1, AlwaysInv, PTL

\* No message is lost, doubled or overtaken on its way through the two buffers
\* (Push, AsyncBuffer::Swap), and a worker that exits has written all of them.
THEOREM LooperLosesNothing == Spec => []NothingIsLost
<1>1. Inv => NothingIsLost
  <2> SUFFICES ASSUME Inv, worker = "done" PROVE written = accepted
    BY DEF Inv, InOrder, NothingIsLost
  <2>1. con = <<>> /\ pro = <<>>
    BY DEF Inv, Emptied, Quiet
  <2>2. written \o <<>> = written
    BY EmptyBehind DEF Inv, TypeOK
  <2> QED BY <2>1, <2>2 DEF Inv, InOrder
<1> QED BY <1>1, AlwaysInv, PTL

-----------------------------------------------------------------------------
(* Builders, statements and the lives of loggers.                           *)

\* A logger that is there for others.
Made(b) ==
  /\ b \in workload.builders
  /\ building[b] \in {"made", "absent", "returned", "dropped"}

\* Who has a logger has one that is made, with the pattern read.
Known ==
  /\ workload \in Workloads
  /\ building \in [Builders -> {"begin", "formatted", "unique", "threaded", "made",
                                "absent", "returned", "dropped"}]
  /\ formatter \in [Builders -> {<<>>, ParsePattern(workload.pattern.text)}]
  /\ \A b \in Builders :
       IF b \in workload.builders
         THEN building[b] # "begin" => formatter[b] = ParsePattern(workload.pattern.text)
         ELSE building[b] = "dropped"
  /\ managed \in Builders \cup {None}
  /\ managed \in Builders => Made(managed)
  /\ guard \in [Producers -> Builders \cup {None}]
  /\ \A p \in Producers : guard[p] \in Builders => Made(guard[p])
  /\ saying \in [Producers -> Enabled(workload) \cup {None}]

\* A thread that pushes holds a reference; without one the destructor runs, and
\* never before the logger is made.
Referenced ==
  /\ \A p \in Producers : asking[p] # <<>> => guard[p] = Async
  /\ stop # "no" => ~ Held /\ Made(Async)
  /\ ~ Made(Async) => pro = <<>> /\ worker # "work"

-----------------------------------------------------------------------------

\* One case per step.
LEMMA KnownStep == Known /\ [LoggersNext]_all => Known'
<1> SUFFICES ASSUME Known, [LoggersNext]_all PROVE Known'
  OBVIOUS
<1> USE LoggersAssumption DEF Known, Made, Builders
<1>1. ASSUME NEW b \in Builders, BuildLoggerFormatter(b) PROVE Known'
  BY <1>1 DEF BuildLoggerFormatter, At, Goto, Abort, manager, users
<1>2. ASSUME NEW b \in Builders, AssertIsNew(b) PROVE Known'
  BY <1>2 DEF AssertIsNew, At, Goto, Abort, manager, users
<1>3. CASE StartThread
  BY <1>3 DEF StartThread, At, Goto, manager, users
<1>4. ASSUME NEW b \in Builders, Constructed(b) PROVE Known'
  BY <1>4 DEF Constructed, At, Goto, manager, users
<1>5. ASSUME NEW b \in Builders, AddLoggerLooks(b) PROVE Known'
  BY <1>5 DEF AddLoggerLooks, At, Goto, manager, users
<1>6. ASSUME NEW b \in Builders, AddLoggerInserts(b) PROVE Known'
  BY <1>6 DEF AddLoggerInserts, At, Goto, manager, users
<1>7. ASSUME NEW b \in Builders, DropPointer(b) PROVE Known'
  BY <1>7 DEF DropPointer, At, Goto, manager, users
<1>8. CASE StopNotifies \/ StopJoins
  BY <1>8 DEF StopNotifies, StopJoins, manager, users
<1>9. CASE Exit
  BY <1>9 DEF Exit
<1>10. ASSUME NEW p \in Producers, GetLogger(p) PROVE Known'
  <2>1. PICK s \in workload.statements :
          saying' = [saying EXCEPT ![p] = IF s \in Enabled(workload) THEN s ELSE None]
    BY <1>10 DEF GetLogger
  <2>2. saying' \in [Producers -> Enabled(workload) \cup {None}]
    BY <2>1
  <2>3. /\ managed # None /\ guard' = [guard EXCEPT ![p] = managed]
        /\ UNCHANGED <<workload, building, formatter, managed>>
    BY <1>10 DEF GetLogger, manager
  <2> QED BY <2>2, <2>3
<1>11. ASSUME NEW p \in Producers, Serialize(p) PROVE Known'
  BY <1>11 DEF Serialize, manager
<1>12. ASSUME NEW p \in Producers, PushToLooper(p) PROVE Known'
  BY <1>12 DEF PushToLooper, manager, users
<1>13. ASSUME NEW p \in Producers, EndStatement(p) PROVE Known'
  BY <1>13 DEF EndStatement, manager
<1>14. CASE WorkerSteps \/ WakesUp
  BY <1>14 DEF WorkerSteps, WakesUp, manager, users
<1>15. CASE UNCHANGED all
  BY <1>15 DEF all, manager, users
<1> QED
  BY <1>1, <1>2, <1>3, <1>4, <1>5, <1>6, <1>7, <1>8, <1>9, <1>10, <1>11, <1>12, <1>13,
     <1>14, <1>15
  DEF LoggersNext, Build, Statement

\* Every step of the loggers is one of the looper, or leaves it alone.
LEMMA StepsAreTheLoopers == Known /\ [LoggersNext]_all => [Next]_vars
<1> SUFFICES ASSUME Known, [LoggersNext]_all PROVE [Next]_vars
  OBVIOUS
<1> USE LoggersAssumption DEF Known, looper
<1>0. ASSUME NEW l, NEW t, Dropped(l, t) PROVE [Next]_vars
  BY <1>0 DEF Dropped, Next, Stop
<1>1. ASSUME NEW b \in Builders, Build(b) PROVE [Next]_vars
  BY <1>0, <1>1 DEF Build, BuildLoggerFormatter, AssertIsNew, Constructed, AddLoggerLooks,
     AddLoggerInserts, DropPointer
<1>2. CASE StartThread
  BY <1>2 DEF StartThread
<1>3. CASE StopNotifies \/ StopJoins
  BY <1>3 DEF StopNotifies, StopJoins, Next, Stop
<1>4. CASE Exit
  BY <1>0, <1>4 DEF Exit
<1>5. ASSUME NEW p \in Producers, GetLogger(p) PROVE [Next]_vars
  BY <1>5 DEF GetLogger
<1>6. ASSUME NEW p \in Producers, Serialize(p) PROVE [Next]_vars
  <2>1. CASE guard[p] = Async
    <3>1. Async \in workload.builders /\ formatter[Async] = ParsePattern(workload.pattern.text)
      BY <2>1 DEF Made, Builders
    <3>2. saying[p] \in Enabled(workload)
      BY <1>6 DEF Serialize
    <3>3. Line(formatter[guard[p]], saying[p], p) \in Lines
      BY <2>1, <3>1, <3>2, LinesAssumption
    <3>4. CallPush(p, Line(formatter[guard[p]], saying[p], p))
      BY <1>6, <2>1 DEF Serialize
    <3> QED BY <3>3, <3>4 DEF Next
  <2>2. CASE guard[p] # Async
    BY <1>6, <2>2 DEF Serialize
  <2> QED BY <2>1, <2>2
<1>7. ASSUME NEW p \in Producers, PushToLooper(p) PROVE [Next]_vars
  BY <1>7 DEF PushToLooper, Next
<1>8. ASSUME NEW p \in Producers, EndStatement(p) PROVE [Next]_vars
  BY <1>0, <1>8 DEF EndStatement
<1>9. CASE WorkerSteps \/ WakesUp
  BY <1>9 DEF WorkerSteps, WakesUp, Next
<1>10. CASE UNCHANGED all
  BY <1>10 DEF all
<1> QED
  BY <1>1, <1>2, <1>3, <1>4, <1>5, <1>6, <1>7, <1>8, <1>9, <1>10
  DEF LoggersNext, Statement

LEMMA InitKnown == LoggersInit => Known
  BY LoggersAssumption DEF LoggersInit, Known, Made, Builders

LEMMA AlwaysKnown == LoggersSpec => []Known
  BY InitKnown, KnownStep, PTL DEF LoggersSpec

-----------------------------------------------------------------------------

\* The loggers, whatever is built, looked up and dropped, use the worker as
\* AsyncLooper says: pushes are made while it runs, Stop() is called once, and
\* when nobody pushes (AsyncLogger::log, ~AsyncLooper).
THEOREM LoggersImplementLooper == LoggersSpec => Spec
<1>1. LoggersInit => Init
  BY DEF LoggersInit
<1> QED BY <1>1, StepsAreTheLoopers, AlwaysKnown, PTL DEF LoggersSpec, Spec

\* So no line is lost, doubled or overtaken, whatever happens to the loggers.
THEOREM LoggersLoseNothing == LoggersSpec => []NothingIsLost
  BY LoggersImplementLooper, LooperLosesNothing, PTL

-----------------------------------------------------------------------------

\* A step that leaves the looper, and who holds the logger, as they are.
LEMMA NothingForTheLooper ==
  ASSUME Referenced, UNCHANGED looper, Held' => Held, Made(Async)' <=> Made(Async),
         \A p \in Producers : guard[p] = Async => guard'[p] = Async
  PROVE  Referenced'
  BY DEF Referenced, looper, vars

\* A step in which a logger that is made is dropped by someone who had it.
LEMMA SomeoneDrops ==
  ASSUME Referenced, NEW l, NEW t, Dropped(l, t),
         l = Async => Made(Async), Held' => Held, Made(Async)' <=> Made(Async),
         \A p \in Producers : asking[p] # <<>> /\ guard[p] = Async => guard'[p] = Async
  PROVE  Referenced'
<1>1. CASE l = Async /\ ~ Held'
  BY <1>1 DEF Dropped, ClearRunning, Referenced
<1>2. CASE ~ (l = Async /\ ~ Held')
  BY <1>2 DEF Dropped, Referenced, looper, vars
<1> QED BY <1>1, <1>2

\* One case per step.
LEMMA ReferencedStep == Known /\ Inv /\ Referenced /\ [LoggersNext]_all => Referenced'
<1> SUFFICES ASSUME Known, Inv, Referenced, [LoggersNext]_all PROVE Referenced'
  OBVIOUS
<1> USE LoggersAssumption DEF Known, Builders
<1>1. ASSUME NEW b \in Builders, BuildLoggerFormatter(b) \/ AssertIsNew(b) PROVE Referenced'
  BY <1>1, NothingForTheLooper
  DEF BuildLoggerFormatter, AssertIsNew, At, Goto, Abort, manager, users, Held, Made
<1>2. CASE StartThread
  BY <1>2, NothingForTheLooper DEF StartThread, At, Goto, manager, users, Held, Made
<1>3. ASSUME NEW b \in Builders, Constructed(b) PROVE Referenced'
  <2>1. CASE b = Async
    BY <1>3, <2>1
    DEF Constructed, At, Goto, manager, users, Held, Made, Referenced, looper, vars
  <2>2. CASE b = Sync
    BY <1>3, <2>2, NothingForTheLooper DEF Constructed, At, Goto, manager, users, Held, Made
  <2> QED BY <2>1, <2>2
<1>4. ASSUME NEW b \in Builders, AddLoggerLooks(b) PROVE Referenced'
  BY <1>4, NothingForTheLooper DEF AddLoggerLooks, At, Goto, manager, users, Held, Made
<1>5. ASSUME NEW b \in Builders, AddLoggerInserts(b) PROVE Referenced'
  BY <1>5, SomeoneDrops DEF AddLoggerInserts, At, Goto, manager, users, Held, Made
<1>6. ASSUME NEW b \in Builders, DropPointer(b) PROVE Referenced'
  BY <1>6, SomeoneDrops DEF DropPointer, At, Goto, manager, users, Held, Made
<1>7. CASE StopNotifies \/ StopJoins
  BY <1>7 DEF StopNotifies, StopJoins, NotifyAll, Notified, Join, manager, users, Held, Made,
     Referenced
<1>8. CASE Exit
  BY <1>8, SomeoneDrops DEF Exit, Held, Made
<1>9. ASSUME NEW p \in Producers, GetLogger(p) PROVE Referenced'
  BY <1>9, NothingForTheLooper DEF GetLogger, manager, Held, Made
<1>10. ASSUME NEW p \in Producers, Serialize(p) PROVE Referenced'
  <2>1. CASE guard[p] = Async
    <3>1. /\ CallPush(p, Line(formatter[guard[p]], saying[p], p))
          /\ UNCHANGED <<workload, building, managed, guard>>
      BY <1>10, <2>1 DEF Serialize, manager
    <3> QED BY <2>1, <3>1 DEF CallPush, Held, Made, Referenced, Inv, TypeOK
  <2>2. CASE guard[p] # Async
    BY <1>10, <2>2, NothingForTheLooper DEF Serialize, manager, Held, Made
  <2> QED BY <2>1, <2>2
<1>11. ASSUME NEW p \in Producers, PushToLooper(p) PROVE Referenced'
  BY <1>11 DEF PushToLooper, Push, Notified, manager, users, Held, Made, Referenced, Inv, TypeOK
<1>12. ASSUME NEW p \in Producers, EndStatement(p) PROVE Referenced'
  BY <1>12, SomeoneDrops DEF EndStatement, manager, Held, Made
<1>13. CASE WorkerSteps \/ WakesUp
  <2>1. UNCHANGED <<asking, stop, guard, managed, building, workload>>
    BY <1>13 DEF WorkerSteps, WakesUp, Worker, CheckExit, Test, FallAsleep, Write,
       SpuriousWakeup, manager, users
  <2>2. pro = <<>> /\ worker # "work" /\ running => pro' = <<>> /\ worker' # "work"
    BY <1>13 DEF WorkerSteps, WakesUp, Worker, CheckExit, Test, FallAsleep, Write,
       SpuriousWakeup, Inv, Emptied
  <2>3. running <=> stop = "no"
    BY DEF Inv, Quiet
  <2> QED BY <2>1, <2>2, <2>3 DEF Held, Made, Referenced
<1>14. CASE UNCHANGED all
  BY <1>14, NothingForTheLooper DEF all, manager, users, Held, Made
<1> QED
  BY <1>1, <1>2, <1>3, <1>4, <1>5, <1>6, <1>7, <1>8, <1>9, <1>10, <1>11, <1>12, <1>13, <1>14
  DEF LoggersNext, Build, Statement

\* The looper is used while it lives (LogStreamGuard::_logger, AddLogger,
\* ~AsyncLooper), and its worker finds _cb constructed.
THEOREM UsersHoldTheLogger == LoggersSpec => []LoggerOutlivesItsUsers
<1>1. LoggersInit => Referenced
  BY LoggersAssumption DEF LoggersInit, Init, Referenced
<1>2. Known /\ Referenced => LoggerOutlivesItsUsers
  BY DEF Referenced, Held, Made, LoggerOutlivesItsUsers
<1> QED
  BY <1>1, <1>2, ReferencedStep, AlwaysKnown, AlwaysInv, LoggersImplementLooper, PTL
  DEF LoggersSpec

-----------------------------------------------------------------------------
(* Types, and what the lines are.                                           *)

\* What Known leaves of LoggersTypeOK.
LifeTypes ==
  /\ locked \in BOOLEAN /\ left \in Nat
  /\ destroying \in Builders \cup Producers \cup {Main, None}
  /\ aborted \in {"no", "pattern", "exists"}

LEMMA LifeStep == Known /\ LifeTypes /\ [LoggersNext]_all => LifeTypes'
<1> SUFFICES ASSUME Known, LifeTypes, [LoggersNext]_all PROVE LifeTypes'
  OBVIOUS
<1> USE DEF LifeTypes
<1>1. ASSUME NEW l, NEW t \in Builders \cup Producers \cup {Main}, Dropped(l, t)
      PROVE  destroying' \in Builders \cup Producers \cup {Main, None}
  BY <1>1 DEF Dropped
<1>2. ASSUME NEW b \in Builders, Build(b) PROVE LifeTypes'
  BY <1>1, <1>2 DEF Build, BuildLoggerFormatter, AssertIsNew, Constructed, AddLoggerLooks,
     AddLoggerInserts, DropPointer, Abort, Goto, manager, users
<1>3. CASE StartThread
  BY <1>3 DEF StartThread, manager, users
<1>4. CASE StopNotifies \/ StopJoins
  BY <1>4 DEF StopNotifies, StopJoins, manager, users
<1>5. CASE Exit
  BY <1>1, <1>5 DEF Exit
<1>6. ASSUME NEW p \in Producers, Statement(p) PROVE LifeTypes'
  BY <1>1, <1>6 DEF Statement, GetLogger, Serialize, PushToLooper, EndStatement, manager, users
<1>7. CASE WorkerSteps \/ WakesUp
  BY <1>7 DEF WorkerSteps, WakesUp, manager, users
<1>8. CASE UNCHANGED all
  BY <1>8 DEF all, manager, users
<1> QED BY <1>2, <1>3, <1>4, <1>5, <1>6, <1>7, <1>8 DEF LoggersNext

\* Every variable of the loggers has its type, those of the worker included.
THEOREM LoggersTypeCorrect == LoggersSpec => []LoggersTypeOK
<1>1. LoggersInit => LifeTypes
  <2> SUFFICES ASSUME LoggersInit PROVE LifeTypes
    OBVIOUS
  <2>1. workload.calls \in Nat
    BY LoggersAssumption, LooperAssumption DEF LoggersInit, IsWorkload
  <2> QED BY <2>1 DEF LoggersInit, LifeTypes
<1>2. Known /\ LifeTypes /\ TypeOK => LoggersTypeOK
  BY DEF Known, LifeTypes, LoggersTypeOK
<1>3. LoggersSpec => []TypeOK
  BY LoggersImplementLooper, TypeCorrect, PTL
<1> QED BY <1>1, <1>2, <1>3, LifeStep, AlwaysKnown, PTL DEF LoggersSpec

-----------------------------------------------------------------------------
(* What the lines are.                                                      *)

\* What the formatter was made of, and what it writes of the enabled statements.
Parsed == ParsePattern(workload.pattern.text)
Said ==
  IF Aborts(Parsed) THEN {}
  ELSE {[from |-> p, line |-> Line(Parsed, s, p)] : p \in Producers, s \in Enabled(workload)}

\* Nothing else is pushed, accepted or written. A builder goes on, or the program is
\* aborted, as the formatter's items tell.
Told ==
  /\ \A b \in workload.builders : building[b] # "begin" => ~ Aborts(Parsed)
  /\ aborted = "pattern" => Aborts(Parsed)
  /\ \A p \in Producers : asking[p] # <<>> => [from |-> p, line |-> asking[p]] \in Said
  /\ accepted \in Seq(Said) /\ file \in Seq(Said)

\* A step in which no line is made: the builders' steps but the first, and the worker's.
LEMMA NoLineIsMade ==
  ASSUME Told, UNCHANGED <<workload, asking, accepted, file>>,
         aborted' = "pattern" => aborted = "pattern",
         \A b \in workload.builders : building'[b] # "begin" => building[b] # "begin"
  PROVE  Told'
  BY DEF Told, Said, Parsed

LEMMA ToldStep == Known /\ Inv /\ Told /\ [LoggersNext]_all => Told'
<1> SUFFICES ASSUME Known, Inv, Told, [LoggersNext]_all PROVE Told'
  OBVIOUS
<1> USE LoggersAssumption
<1>1. /\ building \in [Builders -> {"begin", "formatted", "unique", "threaded", "made",
                                    "absent", "returned", "dropped"}]
      /\ workload.builders \subseteq Builders
      /\ workload.builders \subseteq DOMAIN building
  BY DEF Known, IsWorkload
<1>2. ASSUME UNCHANGED <<workload, file>>,
             aborted' = "pattern" => aborted = "pattern",
             UNCHANGED looper \/ (\E l, t : Dropped(l, t)),
             building' = building
               \/ \E b, place : building' = [building EXCEPT ![b] = place] /\ building[b] # "begin"
      PROVE  Told'
  <2>1. UNCHANGED <<asking, accepted>>
    BY <1>2 DEF Dropped, ClearRunning, looper, vars
  <2>2. \A b \in workload.builders : building'[b] # "begin" => building[b] # "begin"
    BY <1>1, <1>2
  <2> QED BY <1>2, <2>1, <2>2, NoLineIsMade
<1>3. ASSUME NEW b \in Builders, BuildLoggerFormatter(b) PROVE Told'
  <2>1. /\ UNCHANGED <<workload, asking, accepted, file>>
        /\ formatter'[b] = Parsed
        /\ IF Aborts(Parsed) THEN aborted' = "pattern" /\ building' = building
           ELSE building' = [building EXCEPT ![b] = "formatted"] /\ aborted' = aborted
    BY <1>3 DEF BuildLoggerFormatter, Goto, Abort, Parsed, Known, looper, vars, users
  <2>2. UNCHANGED <<Parsed, Said>>
    BY <2>1 DEF Parsed, Said
  <2> QED BY <1>1, <2>1, <2>2 DEF Told
<1>4. ASSUME NEW b \in Builders, AssertIsNew(b) PROVE Told'
  BY <1>2, <1>4 DEF AssertIsNew, At, Goto, Abort, users
<1>5. CASE StartThread
  BY <1>2, <1>5 DEF StartThread, At, Goto, users
<1>6. ASSUME NEW b \in Builders, Constructed(b) PROVE Told'
  BY <1>2, <1>6 DEF Constructed, At, Goto, users
<1>7. ASSUME NEW b \in Builders, AddLoggerLooks(b) PROVE Told'
  BY <1>2, <1>7 DEF AddLoggerLooks, At, Goto, users
<1>8. ASSUME NEW b \in Builders, AddLoggerInserts(b) PROVE Told'
  BY <1>2, <1>8 DEF AddLoggerInserts, At, Goto, users
<1>9. ASSUME NEW b \in Builders, DropPointer(b) PROVE Told'
  BY <1>2, <1>9 DEF DropPointer, At, Goto, users
<1>10. CASE StopNotifies \/ StopJoins
  BY <1>10, NoLineIsMade DEF StopNotifies, StopJoins, NotifyAll, Join, users
<1>11. CASE Exit
  BY <1>2, <1>11 DEF Exit
<1>12. ASSUME NEW p \in Producers, GetLogger(p) PROVE Told'
  BY <1>2, <1>12 DEF GetLogger
<1>13. ASSUME NEW p \in Producers, Serialize(p) PROVE Told'
  <2> DEFINE line == Line(formatter[guard[p]], saying[p], p)
             m == [from |-> p, line |-> line]
  <2>1. UNCHANGED <<workload, building, aborted, Parsed, Said>>
    BY <1>13 DEF Serialize, Parsed, Said
  <2>2. guard[p] \in Builders /\ saying[p] \in Enabled(workload)
    BY <1>13 DEF Serialize, Known
  <2>3. formatter[guard[p]] = Parsed /\ ~ Aborts(Parsed)
    BY <2>2 DEF Known, Made, Told, Parsed
  <2>4. m \in Said
    BY <2>2, <2>3 DEF Said
  <2>5. CASE guard[p] = Async
    <3>1. CallPush(p, line) /\ file' = file
      BY <1>13, <2>5 DEF Serialize
    <3>2. asking' = [asking EXCEPT ![p] = line] /\ accepted' = accepted
      BY <3>1 DEF CallPush
    <3> HIDE DEF line
    <3> QED BY <2>1, <2>4, <3>1, <3>2 DEF Told, Inv, TypeOK
  <2>6. CASE guard[p] # Async
    <3>1. file' = Append(file, m) /\ UNCHANGED <<asking, accepted>>
      BY <1>13, <2>6 DEF Serialize, looper, vars
    <3> HIDE DEF m
    <3> QED BY <2>1, <2>4, <3>1 DEF Told
  <2> QED BY <2>5, <2>6
<1>14. ASSUME NEW p \in Producers, PushToLooper(p) PROVE Told'
  <2> DEFINE m == [from |-> p, line |-> asking[p]]
  <2>1. UNCHANGED <<workload, building, aborted, file, Parsed, Said>>
    BY <1>14 DEF PushToLooper, users, Parsed, Said
  <2>2. Push(p) /\ m \in Said
    BY <1>14 DEF PushToLooper, Push, Told
  <2>3. \/ UNCHANGED <<asking, accepted>>
        \/ accepted' = Append(accepted, m) /\ asking' = [asking EXCEPT ![p] = <<>>]
    BY <2>2 DEF Push
  <2>4. CASE UNCHANGED <<asking, accepted>>
    BY <2>1, <2>4 DEF Told
  <2>5. CASE accepted' = Append(accepted, m) /\ asking' = [asking EXCEPT ![p] = <<>>]
    <3>1. accepted' \in Seq(Said)
      BY <2>2, <2>5 DEF Told
    <3>2. \A q \in Producers : asking'[q] # <<>> => asking'[q] = asking[q]
      BY <2>5 DEF Inv, TypeOK
    <3> QED BY <2>1, <3>1, <3>2 DEF Told
  <2> QED BY <2>3, <2>4, <2>5
<1>15. ASSUME NEW p \in Producers, EndStatement(p) PROVE Told'
  BY <1>2, <1>15 DEF EndStatement
<1>16. CASE WorkerSteps \/ WakesUp
  BY <1>16, NoLineIsMade DEF WorkerSteps, WakesUp, Worker, CheckExit, Test, FallAsleep, Write,
     SpuriousWakeup, users
<1>17. CASE UNCHANGED all
  BY <1>2, <1>17 DEF all, users
<1> QED
  BY <1>3, <1>4, <1>5, <1>6, <1>7, <1>8, <1>9, <1>10, <1>11, <1>12, <1>13, <1>14, <1>15,
     <1>16, <1>17
  DEF LoggersNext, Build, Statement

\* ParsePattern refuses what cannot be read and takes what can, text at the end
\* apart; and in what it takes it finds what the pattern is written from, as far as a
\* line shows it.
PatternsAreRead ==
  \A w \in Workloads :
    LET items == ParsePattern(w.pattern.text)
    IN /\ ~ w.pattern.whole \/ ~ KnownFields(w.pattern.tokens) => Aborts(items)
       /\ Aborts(items) =>
            \/ ~ w.pattern.whole \/ ~ KnownFields(w.pattern.tokens)
            \/ EndsWithText(w.pattern.tokens)
       /\ ~ Aborts(items) =>
            \A s \in Enabled(w), p \in Producers :
              Line(items, s, p) = Line(w.pattern.tokens, s, p)

\* If patterns are read as they are written (CreateItem, ParsePattern), lines are what
\* the pattern says of enabled statements, each of the thread that ran it, on whichever
\* way they come to the sinks (LogStreamGuard, Serialize, Push, ThreadEntry).
THEOREM LinesAreOfTheirStatements ==
  ASSUME PatternsAreRead PROVE LoggersSpec => []LinesFollowThePattern
<1>1. LoggersInit => Told
  BY LoggersAssumption DEF LoggersInit, Init, Told, IsWorkload
<1>2. Known /\ Inv /\ Told => LinesFollowThePattern
  <2> SUFFICES ASSUME Known, Inv, Told PROVE LinesFollowThePattern
    OBVIOUS
  <2> DEFINE pattern == workload.pattern
             broken == ~ pattern.whole \/ ~ KnownFields(pattern.tokens)
  <2>1. /\ broken => Aborts(Parsed)
        /\ Aborts(Parsed) => broken \/ EndsWithText(pattern.tokens)
        /\ ~ Aborts(Parsed) =>
             \A s \in Enabled(workload), p \in Producers :
               Line(Parsed, s, p) = Line(pattern.tokens, s, p)
    BY DEF Known, PatternsAreRead, Parsed
  <2>2. \A m \in ToSet(written \o file) : m \in Said
    <3>1. written \in Seq(Messages) /\ con \in Seq(Messages) /\ pro \in Seq(Messages)
      BY DEF Inv, TypeOK
    <3>2. \A k \in 1 .. Len(written) : accepted[k] = written[k] /\ k \in 1 .. Len(accepted)
      <4> DEFINE taken == written \o con
      <4>1. /\ taken \in Seq(Messages) /\ Len(written) <= Len(taken)
            /\ \A k \in 1 .. Len(written) : taken[k] = written[k]
        BY <3>1
      <4>2. accepted = taken \o pro
        BY DEF Inv, InOrder
      <4> HIDE DEF taken
      <4> QED BY <3>1, <4>1, <4>2
    <3>3. \A k \in 1 .. Len(written) : written[k] \in Said
      BY <3>2 DEF Told
    <3>4. written \in Seq(Said)
      BY <3>1, <3>3
    <3> QED BY <3>4 DEF Told, ToSet
  <2>3. \A m \in Said :
          \E s \in workload.statements :
            s.level >= workload.limit /\ m.line = Line(pattern.tokens, s, m.from)
    BY <2>1 DEF Said, Enabled
  <2>4. aborted = "pattern" => broken \/ EndsWithText(pattern.tokens)
    BY <2>1 DEF Told
  <2>5. broken => \A b \in Builders : building[b] \in {"begin", "dropped"}
    BY <2>1 DEF Told, Known
  <2> QED BY <2>2, <2>3, <2>4, <2>5 DEF LinesFollowThePattern
<1>3. LoggersSpec => []Inv
  BY LoggersImplementLooper, AlwaysInv, PTL
<1> QED BY <1>1, <1>2, <1>3, ToldStep, AlwaysKnown, PTL DEF LoggersSpec
=============================================================================
