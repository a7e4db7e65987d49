----------------------------- MODULE SyncLogger -----------------------------
(***************************************************************************)
(* A SyncLogger (log/Logger.hpp) with the two rolling sinks of             *)
(* log/Sink.hpp: a RollByTimeSink and a RollBySizeSink.  A call of log()   *)
(* holds the mutex and goes through the sinks; meanwhile the clock goes    *)
(* on.  The counters of the sinks live in memory and the files on the      *)
(* disk: a program that is started again counts from zero, and appends to  *)
(* whatever file has the name it makes up.                                 *)
(***************************************************************************)
EXTENDS Naturals, Sequences, SequencesExt

CONSTANTS
  Times,         \* the local times of the seconds that pass: sequences of fields
  GapSize,       \* _gapsize: seconds of a period
  MaxSize,       \* _maxsize
  Lengths,       \* lengths of the messages
  MaxStarts,     \* bound: starts of the program
  MaxMessages    \* bound: calls of log, in all

ASSUME SyncLoggerAssumption ==
  /\ GapSize \in Nat \ {0}
  /\ MaxSize \in Nat \ {0} /\ Lengths \subseteq Nat \ {0} /\ Lengths # {}
  /\ MaxStarts \in Nat /\ MaxMessages \in Nat
  /\ Times \in Seq(Seq(0 .. 99)) \ {<<>>}

VARIABLES
  now,              \* the clock: seconds from 1 on
  stage,            \* "off", "started", "ready", "called", "timed"
  curgap,           \* _curgap
  opened,           \* when the open file of the RollByTimeSink was named
  cursize, recount, \* _cursize, _recount
  file,             \* the name of the open file of the RollBySizeSink
  call,             \* the call of log: when the sink looked at the clock; length
  lines,            \* RollByTimeSink, per line: when logged, when written, to the
                    \* file that was named when
  disk,             \* RollBySizeSink, per file: its name, its size, and (history)
                    \* the size when a program opened it last
  starts            \* of the program

timeSink == <<curgap, opened, lines>>
sizeSink == <<cursize, recount, file, disk>>
vars == <<now, stage, timeSink, sizeSink, call, starts>>

NoCall == [at |-> 0, len |-> 0]

\* std::to_string of the fields, one behind the other: no padding, no separators.
Digits(n) == IF n < 10 THEN <<n>> ELSE <<n \div 10, n % 10>>
NameOf(fields) == FlattenSeq([k \in 1 .. Len(fields) |-> Digits(fields[k])])

\* CreateNewFile of the RollBySizeSink: the fields of the time, and "[" count "]".
SizeName(t, count) == <<NameOf(Times[t]), count>>

\* "Which period the time is in"; GetCurTime counts the seconds from 0.
GetCurTime(t) == t - 1
Gap(t) == IF GapSize = 1 THEN GetCurTime(t) ELSE GetCurTime(t) % GapSize

Init ==
  /\ now = 1 /\ stage = "off" /\ starts = 0
  /\ curgap = 0 /\ opened = 0 /\ lines = <<>>
  /\ cursize = 0 /\ recount = 0 /\ file = <<>> /\ disk = <<>>
  /\ call = NoCall

\* Time passes, in whatever leaps.
Tick ==
  /\ now' \in now + 1 .. Len(Times)
  /\ UNCHANGED <<stage, timeSink, sizeSink, call, starts>>

-----------------------------------------------------------------------------
(* The program is started: the constructors of the sinks.                   *)

\* ios::app makes the file, or opens the one that is there.
Opened(name) ==
  IF \E k \in 1 .. Len(disk) : disk[k].name = name
    THEN [k \in 1 .. Len(disk) |->
            IF disk[k].name = name THEN [disk[k] EXCEPT !.before = disk[k].size]
            ELSE disk[k]]
    ELSE Append(disk, [name |-> name, size |-> 0, before |-> 0])

Written(files, name, len) ==
  [k \in 1 .. Len(files) |->
     IF files[k].name = name THEN [files[k] EXCEPT !.size = @ + len] ELSE files[k]]

\* The RollByTimeSink looks at the clock, to know the period, ...
Start ==
  /\ stage = "off" /\ starts < MaxStarts
  /\ stage' = "started" /\ starts' = starts + 1
  /\ curgap' = Gap(now)
  /\ UNCHANGED <<now, opened, lines, sizeSink, call>>

\* ... and again, to name its file; then the RollBySizeSink opens one.
OpenFirst ==
  /\ stage = "started" /\ stage' = "ready"
  /\ opened' = now
  /\ cursize' = 0 /\ recount' = 1
  /\ file' = SizeName(now, 1) /\ disk' = Opened(file')
  /\ UNCHANGED <<now, curgap, lines, call, starts>>

Exit ==
  /\ stage = "ready" /\ stage' = "off"
  /\ UNCHANGED <<now, timeSink, sizeSink, call, starts>>

-----------------------------------------------------------------------------
(* SyncLogger::log, with the mutex.                                         *)

\* RollByTimeSink::Log looks at the clock ...
Log(len) ==
  /\ stage = "ready" /\ Len(lines) < MaxMessages
  /\ stage' = "called"
  /\ call' = [at |-> now, len |-> len]
  /\ UNCHANGED <<now, timeSink, sizeSink, starts>>

\* ... and, if the gap is another, opens a file, named when it is opened.
WriteByTimeMutant ==         \* the file of the time the sink was made
  /\ stage = "called" /\ stage' = "timed"
  /\ curgap' = Gap(call.at)
  /\ lines' = Append(lines, [from |-> call.at, to |-> now, file |-> opened])
  /\ UNCHANGED <<now, opened, sizeSink, call, starts>>
WriteByTime ==
  /\ stage = "called" /\ stage' = "timed"
  /\ opened' = IF Gap(call.at) # curgap THEN now ELSE opened
  /\ curgap' = Gap(call.at)
  /\ lines' = Append(lines, [from |-> call.at, to |-> now, file |-> opened'])
  /\ UNCHANGED <<now, sizeSink, call, starts>>

\* RollBySizeSink::Log: a new file when the open one has its size.
WriteBySizeMutant ==         \* "_cursize = 0" is missing
  /\ stage = "timed" /\ stage' = "ready"
  /\ call' = NoCall
  /\ cursize' = cursize + call.len
  /\ IF cursize >= MaxSize
       THEN /\ recount' = recount + 1 /\ file' = SizeName(now, recount')
            /\ disk' = Written(Opened(file'), file', call.len)
       ELSE disk' = Written(disk, file, call.len) /\ UNCHANGED <<recount, file>>
  /\ UNCHANGED <<now, timeSink, starts>>
WriteBySize ==
  /\ stage = "timed" /\ stage' = "ready"
  /\ call' = NoCall
  /\ IF cursize >= MaxSize
       THEN /\ recount' = recount + 1 /\ file' = SizeName(now, recount')
            /\ disk' = Written(Opened(file'), file', call.len)
            /\ cursize' = call.len
       ELSE /\ disk' = Written(disk, file, call.len)
            /\ cursize' = cursize + call.len
            /\ UNCHANGED <<recount, file>>
  /\ UNCHANGED <<now, timeSink, starts>>

Next ==
  \/ Tick
  \/ Start \/ OpenFirst \/ Exit
  \/ (\E len \in Lengths : Log(len)) \/ WriteByTime \/ WriteBySize

Spec == Init /\ [][Next]_vars

-----------------------------------------------------------------------------
(* Properties.                                                              *)

\* Every variable has its type: in particular, a line is in a file that was named
\* in a second that has been.
TypeOK ==
  /\ now \in 1 .. Len(Times) /\ starts \in 0 .. MaxStarts
  /\ stage \in {"off", "started", "ready", "called", "timed"}
  /\ curgap \in Nat /\ opened \in 0 .. now
  /\ cursize \in Nat /\ recount \in Nat
  /\ call \in [at : 0 .. now, len : Lengths \cup {0}]
  /\ lines \in Seq([from : 1 .. now, to : 1 .. now, file : 1 .. now])
  /\ \A k \in 1 .. Len(disk) : disk[k].size \in Nat /\ disk[k].before \in Nat

\* "Rolling by time": a line goes to the file of a period between the call that
\* logs it and the write, however the two looks at the clock of one call, and
\* the calls, lie to the ends of the periods (RollByTimeSink::Log).
Period(t) == GetCurTime(t) \div GapSize
LinesAreInTheirFile ==
  \A k \in 1 .. Len(lines) :
    Period(lines[k].file) \in Period(lines[k].from) .. Period(lines[k].to)

\* "Beyond the size a new file is made": no file grows by more than the message
\* that fills it, in whatever second it is named.  A file that a program finds,
\* having been started again, grows by as much once more; and the first program
\* leaves no file behind half empty (RollBySizeSink::Log, CreateNewFile).
FilesHaveTheirSize ==
  /\ \A k \in 1 .. Len(disk) :
       \E len \in Lengths : disk[k].size < disk[k].before + MaxSize + len
  /\ starts = 1 => \A k \in 1 .. Len(disk) - 1 : disk[k].size >= MaxSize
=============================================================================
