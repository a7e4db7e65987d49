-------------------------- MODULE SyncLoggerProofs --------------------------
(***************************************************************************)
(* What holds of SyncLogger for every clock, every size, any lengths of    *)
(* messages and any number of them and of starts of the program.           *)
(***************************************************************************)
EXTENDS SyncLogger, SequenceTheorems, TLAPS

Writes == {"ready", "called", "timed"}     \* the stages in which files are open

-----------------------------------------------------------------------------
(* Types.                                                                   *)

\* A file that is open has been named, and a call has begun, in some second.
Named ==
  /\ stage \in Writes => opened >= 1 /\ recount >= 1
  /\ stage \in {"called", "timed"} => call.at >= 1 /\ call.len \in Lengths

\* The files, whatever their names are.
DiskFiles(Names) == [name : Names, size : Nat, before : Nat]
DiskIsSeq == \E Names : disk \in Seq(DiskFiles(Names))

\* A file that had a size has not grown by more than the message that filled it.
Small(size, before) == \E len \in Lengths : size < before + MaxSize + len

\* While the program runs and writes, the open file has grown by what it has
\* counted, since it was opened.
Counted ==
  \A k \in 1 .. Len(disk) :
    /\ Small(disk[k].size, disk[k].before)
    /\ stage \in Writes /\ disk[k].name = file => disk[k].size = disk[k].before + cursize
\* In the first run of the program the files of the disk are numbered.
Numbered ==
  /\ starts = 0 => stage = "off"
  /\ starts = 0 \/ (starts = 1 /\ stage = "started") => disk = <<>>
  /\ starts = 1 => \A k \in 1 .. Len(disk) - 1 : disk[k].size >= MaxSize
  /\ starts = 1 /\ stage \in Writes =>
       /\ Len(disk) = recount /\ \A k \in 1 .. Len(disk) : disk[k].name[2] = k
       /\ disk[recount].name = file /\ disk[recount].size = cursize

\* The file of the period the sink is in was opened in it or later.
OpenedInTime ==
  /\ stage = "started" => curgap < now
  /\ stage \in Writes => curgap < opened

-----------------------------------------------------------------------------
(* What the files are after an operation.                                   *)

LEMMA SameLength ==
  ASSUME NEW S, NEW files \in Seq(S), NEW T, NEW new \in [1 .. Len(files) -> T]
  PROVE  new \in Seq(T) /\ Len(new) = Len(files)
<1>1. Len(files) \in Nat
  BY LenProperties
<1> QED BY <1>1, SeqDef, LenProperties

\* Writing changes the size of the files of one name.
LEMMA WrittenIs ==
  ASSUME NEW Names, NEW files \in Seq(DiskFiles(Names)), NEW name, NEW len \in Nat
  PROVE  LET new == Written(files, name, len)
         IN /\ new \in Seq(DiskFiles(Names)) /\ Len(new) = Len(files)
            /\ \A k \in 1 .. Len(files) :
                 /\ new[k].name = files[k].name /\ new[k].before = files[k].before
                 /\ new[k].size = IF files[k].name = name THEN files[k].size + len
                                  ELSE files[k].size
<1> DEFINE new == Written(files, name, len)
           Changed(f) == IF f.name = name THEN [f EXCEPT !.size = @ + len] ELSE f
<1>1. new = [k \in 1 .. Len(files) |-> Changed(files[k])]
  BY DEF Written
<1>2. ASSUME NEW f \in DiskFiles(Names)
      PROVE  /\ Changed(f) \in DiskFiles(Names)
             /\ Changed(f).name = f.name /\ Changed(f).before = f.before
             /\ Changed(f).size = IF f.name = name THEN f.size + len ELSE f.size
  BY DEF DiskFiles
<1>3. \A k \in 1 .. Len(files) : files[k] \in DiskFiles(Names)
  BY ElementOfSeq
<1> HIDE DEF new, Changed
<1>4. new \in [1 .. Len(files) -> DiskFiles(Names)]
  BY <1>1, <1>2, <1>3
<1>5. \A k \in 1 .. Len(files) : new[k] = Changed(files[k])
  BY <1>1
<1>6. new \in Seq(DiskFiles(Names)) /\ Len(new) = Len(files)
  BY <1>4, SameLength
<1> QED BY <1>2, <1>3, <1>5, <1>6 DEF new

\* A file that is there keeps its size; one that is not is put behind.
LEMMA OpenedIs ==
  ASSUME NEW Names, disk \in Seq(DiskFiles(Names)), NEW name
  PROVE  LET new == Opened(name)
         IN /\ new \in Seq(DiskFiles(Names \cup {name})) /\ Len(disk) <= Len(new)
            /\ \A k \in 1 .. Len(disk) :
                 /\ new[k].name = disk[k].name /\ new[k].size = disk[k].size
                 /\ new[k].before = IF disk[k].name = name THEN disk[k].size
                                    ELSE disk[k].before
            /\ (\E k \in 1 .. Len(disk) : disk[k].name = name) => Len(new) = Len(disk)
            /\ ~ (\E k \in 1 .. Len(disk) : disk[k].name = name) =>
                 /\ Len(new) = Len(disk) + 1
                 /\ new[Len(new)] = [name |-> name, size |-> 0, before |-> 0]
<1> DEFINE new == Opened(name)
           All == DiskFiles(Names \cup {name})
           Changed(f) == IF f.name = name THEN [f EXCEPT !.before = f.size] ELSE f
           first == [name |-> name, size |-> 0, before |-> 0]
           there == \E k \in 1 .. Len(disk) : disk[k].name = name
<1>1. ASSUME NEW f \in All
      PROVE  /\ Changed(f) \in All
             /\ Changed(f).name = f.name /\ Changed(f).size = f.size
             /\ Changed(f).before = IF f.name = name THEN f.size ELSE f.before
  BY DEF DiskFiles
<1>2. first \in All
  BY DEF DiskFiles
<1>3. DiskFiles(Names) \subseteq All
  BY DEF DiskFiles
<1>4. (there => new = [k \in 1 .. Len(disk) |-> Changed(disk[k])])
      /\ (~ there => new = Append(disk, first))
  BY DEF Opened
<1> HIDE DEF All
<1>5. disk \in Seq(All)
  BY <1>3
<1>6. \A k \in 1 .. Len(disk) : disk[k] \in All
  BY <1>5, ElementOfSeq
<1>7. CASE there
  <2>1. new = [k \in 1 .. Len(disk) |-> Changed(disk[k])]
    BY <1>4, <1>7
  <2> HIDE DEF new, Changed
  <2>2. new \in [1 .. Len(disk) -> All]
    BY <1>1, <1>6, <2>1
  <2>3. new \in Seq(All) /\ Len(new) = Len(disk)
    BY <1>5, <2>2, SameLength
  <2>4. \A k \in 1 .. Len(disk) : new[k] = Changed(disk[k])
    BY <2>1
  <2>5. Len(disk) \in Nat /\ Len(disk) <= Len(new)
    BY <1>5, <2>3, LenProperties
  <2> QED BY <1>1, <1>6, <1>7, <2>3, <2>4, <2>5 DEF new, All
<1>8. CASE ~ there
  <2>1. new = Append(disk, first)
    BY <1>4, <1>8
  <2> HIDE DEF new, first
  <2>2. /\ new \in Seq(All) /\ Len(new) = Len(disk) + 1
        /\ \A k \in 1 .. Len(disk) : new[k] = disk[k]
        /\ new[Len(disk) + 1] = first
    BY <1>2, <1>5, <2>1, AppendProperties
  <2>3. Len(disk) \in Nat /\ Len(disk) <= Len(new)
    BY <1>5, <2>2, LenProperties
  <2> QED BY <1>8, <2>2, <2>3 DEF new, All, first
<1> QED BY <1>7, <1>8

-----------------------------------------------------------------------------
(* Types.                                                                   *)

Typed == TypeOK /\ Named /\ DiskIsSeq

LEMMA LastSecond == Len(Times) \in Nat /\ 1 \in 1 .. Len(Times)
<1>1. Times \in Seq(Seq(0 .. 99)) /\ Times # <<>>
  BY SyncLoggerAssumption
<1>2. Len(Times) \in Nat /\ Len(Times) # 0
  BY <1>1, LenProperties, EmptySeq
<1> QED BY <1>2

\* A second is in a period.
LEMMA GapType == ASSUME NEW t \in 1 .. Len(Times) PROVE Gap(t) \in Nat
<1>1. t - 1 \in Nat /\ GapSize \in Nat \ {0}
  BY LastSecond, SyncLoggerAssumption
<1>2. \A m \in Nat, g \in Nat \ {0} : m % g \in Nat
  OBVIOUS
<1>3. (t - 1) % GapSize \in Nat
  BY <1>1, <1>2, Zenon
<1> QED BY <1>1, <1>3 DEF Gap, GetCurTime

\* What has been stays what has been when the clock goes on.
LEMMA SizesTyped ==
  ASSUME DiskIsSeq
  PROVE  \A k \in 1 .. Len(disk) : disk[k].size \in Nat /\ disk[k].before \in Nat
<1>1. PICK Names : disk \in Seq(DiskFiles(Names))
  BY DEF DiskIsSeq
<1>2. \A k \in 1 .. Len(disk) : disk[k] \in DiskFiles(Names)
  BY <1>1, ElementOfSeq
<1> QED BY <1>2 DEF DiskFiles

LEMMA InitTypes == Init => Typed
<1> SUFFICES ASSUME Init PROVE Typed
  OBVIOUS
<1>1. disk \in Seq(DiskFiles({})) /\ Len(disk) = 0
  BY DEF Init
<1>2. DiskIsSeq
  BY <1>1 DEF DiskIsSeq
<1>3. lines \in Seq([from : 1 .. now, to : 1 .. now, file : 1 .. now])
  BY DEF Init
<1> QED BY <1>1, <1>2, <1>3, LastSecond, SyncLoggerAssumption
        DEF Init, NoCall, Typed, TypeOK, Named, Writes

\* The disk keeps its type, whatever is opened and written.
LEMMA DiskStep ==
  ASSUME Typed, [Next]_vars PROVE DiskIsSeq'
<1>1. CASE disk' = disk
  BY <1>1 DEF Typed, DiskIsSeq
<1>2. PICK Names : disk \in Seq(DiskFiles(Names))
  BY DEF Typed, DiskIsSeq
<1>3. CASE OpenFirst
  <2>1. disk' = Opened(file')
    BY <1>3 DEF OpenFirst
  <2>2. disk' \in Seq(DiskFiles(Names \cup {file'}))
    BY <1>2, <2>1, OpenedIs
  <2> QED BY <2>2 DEF DiskIsSeq
<1>4. CASE WriteBySize
  <2>1. call.len \in Nat
    BY <1>4, SyncLoggerAssumption DEF WriteBySize, Typed, Named
  <2>2. CASE cursize >= MaxSize
    <3>1. disk' = Written(Opened(file'), file', call.len)
      BY <1>4, <2>2 DEF WriteBySize
    <3> DEFINE new == Opened(file')
    <3>2. new \in Seq(DiskFiles(Names \cup {file'}))
      BY <1>2, OpenedIs
    <3> HIDE DEF new
    <3>3. Written(new, file', call.len) \in Seq(DiskFiles(Names \cup {file'}))
      BY <2>1, <3>2, WrittenIs
    <3> QED BY <3>1, <3>3 DEF DiskIsSeq, new
  <2>3. CASE ~ (cursize >= MaxSize)
    <3>1. disk' = Written(disk, file, call.len)
      BY <1>4, <2>3 DEF WriteBySize
    <3>2. Written(disk, file, call.len) \in Seq(DiskFiles(Names))
      BY <1>2, <2>1, WrittenIs
    <3> QED BY <3>1, <3>2 DEF DiskIsSeq
  <2> QED BY <2>2, <2>3
<1>5. OpenFirst \/ WriteBySize \/ disk' = disk
  BY DEF Next, vars, sizeSink, Tick, Start, Exit, Log, WriteByTime
<1> QED BY <1>1, <1>3, <1>4, <1>5

LEMMA LinesStep ==
  ASSUME NEW n \in Nat, NEW m \in Nat, n <= m,
         NEW s \in Seq([from : 1 .. n, to : 1 .. n, file : 1 .. n])
  PROVE  s \in Seq([from : 1 .. m, to : 1 .. m, file : 1 .. m])
<1> DEFINE R == [from : 1 .. n, to : 1 .. n, file : 1 .. n]
           S == [from : 1 .. m, to : 1 .. m, file : 1 .. m]
<1>1. R \subseteq S
  <2>1. 1 .. n \subseteq 1 .. m
    OBVIOUS
  <2> QED BY <2>1
<1> HIDE DEF R, S
<1>2. s \in Seq(R)
  BY DEF R
<1>3. s \in Seq(S)
  BY <1>1, <1>2
<1> QED BY <1>3 DEF S

LEMMA TypeStep == Typed /\ [Next]_vars => Typed'
<1> SUFFICES ASSUME Typed, [Next]_vars PROVE Typed'
  OBVIOUS
<1>1. DiskIsSeq'
  BY DiskStep
<1>2. (\A k \in 1 .. Len(disk) : disk[k].size \in Nat /\ disk[k].before \in Nat)'
  BY <1>1, SizesTyped, PTL
<1> DEFINE LinesOf(n) == Seq([from : 1 .. n, to : 1 .. n, file : 1 .. n])
<1>3. /\ now \in 1 .. Len(Times) /\ Len(Times) \in Nat /\ now \in Nat
      /\ opened \in 0 .. now /\ call.at \in 0 .. now /\ call.len \in Lengths \cup {0}
      /\ lines \in LinesOf(now) /\ cursize \in Nat /\ recount \in Nat
      /\ Lengths \subseteq Nat
  BY LastSecond, SyncLoggerAssumption DEF Typed, TypeOK
<1> SUFFICES /\ now' \in 1 .. Len(Times) /\ starts' \in 0 .. MaxStarts
             /\ stage' \in {"off", "started", "ready", "called", "timed"}
             /\ curgap' \in Nat /\ opened' \in 0 .. now'
             /\ cursize' \in Nat /\ recount' \in Nat
             /\ call' \in [at : 0 .. now', len : Lengths \cup {0}]
             /\ lines' \in LinesOf(now') /\ Named'
  BY <1>1, <1>2 DEF Typed, TypeOK
<1>4. CASE UNCHANGED vars
  BY <1>4 DEF vars, timeSink, sizeSink, Typed, TypeOK, Named, Writes
<1>5. CASE Tick
  <2>1. now' \in now + 1 .. Len(Times) /\ UNCHANGED <<stage, timeSink, sizeSink, call, starts>>
    BY <1>5 DEF Tick
  <2>2. now' \in Nat /\ now' \in 1 .. Len(Times) /\ now <= now'
    BY <1>3, <2>1
  <2>3. lines \in LinesOf(now')
    BY <1>3, <2>2, LinesStep
  <2>4. 0 .. now \subseteq 0 .. now'
    BY <1>3, <2>2
  <2> HIDE DEF LinesOf
  <2> QED BY <2>1, <2>2, <2>3, <2>4 DEF timeSink, sizeSink, Typed, TypeOK, Named, Writes
<1>6. CASE Start
  <2>1. Gap(now) \in Nat
    BY <1>3, GapType
  <2>2. starts' \in 0 .. MaxStarts
    BY <1>6, SyncLoggerAssumption DEF Start, Typed, TypeOK
  <2> QED BY <1>6, <2>1, <2>2 DEF Start, sizeSink, Typed, TypeOK, Named, Writes
<1>7. CASE OpenFirst
  BY <1>3, <1>7 DEF OpenFirst, Typed, TypeOK, Named, Writes
<1>8. CASE Exit
  BY <1>8 DEF Exit, timeSink, sizeSink, Typed, TypeOK, Named, Writes
<1>9. ASSUME NEW len \in Lengths, Log(len) PROVE Typed'
  <2>1. now >= 1 /\ now \in 0 .. now
    BY <1>3
  <2> QED BY <1>1, <1>2, <1>9, <2>1 DEF Log, timeSink, sizeSink, Typed, TypeOK, Named, Writes
<1>10. CASE WriteByTime
  <2>1. call.at \in 1 .. now /\ opened \in 1 .. now /\ now \in 1 .. now
    BY <1>3, <1>10 DEF WriteByTime, Typed, Named, Writes
  <2>2. opened' \in 1 .. now /\ UNCHANGED <<now, sizeSink, call, starts>>
    BY <1>10, <2>1 DEF WriteByTime
  <2>3. [from |-> call.at, to |-> now, file |-> opened'] \in [from : 1 .. now, to : 1 .. now, file : 1 .. now]
    BY <2>1, <2>2
  <2>4. lines' \in LinesOf(now)
    BY <1>3, <1>10, <2>3 DEF WriteByTime
  <2>5. call.at \in 1 .. Len(Times)
    BY <1>3, <2>1
  <2>6. Gap(call.at) \in Nat
    BY <2>5, GapType
  <2> HIDE DEF LinesOf
  <2> QED BY <1>10, <2>1, <2>2, <2>4, <2>6
          DEF WriteByTime, sizeSink, Typed, TypeOK, Named, Writes
<1>11. CASE WriteBySize
  <2>1. call.len \in Nat /\ call' = [at |-> 0, len |-> 0] /\ stage' = "ready"
        /\ UNCHANGED <<now, timeSink, starts>>
    BY <1>3, <1>11, SyncLoggerAssumption DEF WriteBySize, NoCall, Typed, Named
  <2>2. opened >= 1 /\ recount >= 1
    BY <1>11 DEF WriteBySize, Typed, Named, Writes
  <2>3. cursize' \in Nat /\ recount' \in Nat /\ recount' >= 1
    BY <1>3, <1>11, <2>1, <2>2 DEF WriteBySize
  <2> QED BY <1>3, <2>1, <2>2, <2>3 DEF timeSink, Typed, TypeOK, Named, Writes
<1> QED BY <1>4, <1>5, <1>6, <1>7, <1>8, <1>9, <1>10, <1>11 DEF Next, Typed, TypeOK

LEMMA AlwaysTyped == Spec => []Typed
BY InitTypes, TypeStep, PTL DEF Spec

\* Every variable keeps its type: lines are in files that were named when the
\* clock had come that far, and a call begins before it is written
\* (RollByTimeSink::Log, RollBySizeSink::Log).
THEOREM TypeCorrect == Spec => []TypeOK
<1>1. Typed => TypeOK
  BY DEF Typed
<1> QED BY <1>1, AlwaysTyped, PTL

-----------------------------------------------------------------------------
(* Lines are in the files of their time.                                    *)

LEMMA TimeStep ==
  ASSUME GapSize = 1, Typed, OpenedInTime, [Next]_vars PROVE OpenedInTime'
<1>1. now \in Nat /\ opened \in Nat /\ opened <= now /\ curgap \in Nat /\ call.at \in Nat
      /\ call.at <= now /\ now >= 1 /\ Len(Times) \in Nat
  BY LastSecond DEF Typed, TypeOK
<1>2. \A t : Gap(t) = t - 1
  BY DEF Gap, GetCurTime
<1>3. CASE Tick
  <2>1. now' \in Nat /\ now < now'
    BY <1>1, <1>3 DEF Tick
  <2> QED BY <1>1, <1>3, <2>1 DEF Tick, timeSink, OpenedInTime, Writes
<1>4. CASE Start
  BY <1>1, <1>2, <1>4 DEF Start, OpenedInTime, Writes
<1>5. CASE OpenFirst
  BY <1>1, <1>5 DEF OpenFirst, OpenedInTime, Writes
<1>6. CASE WriteByTime
  <2>1. call.at >= 1 /\ curgap < opened
    BY <1>6 DEF WriteByTime, Typed, Named, OpenedInTime, Writes
  <2>2. curgap' = call.at - 1 /\ opened' = IF call.at - 1 # curgap THEN now ELSE opened
    BY <1>2, <1>6 DEF WriteByTime
  <2>3. curgap' < opened'
    BY <1>1, <2>1, <2>2
  <2> QED BY <1>6, <2>3 DEF WriteByTime, OpenedInTime, Writes
<1>7. Exit \/ (\E len \in Lengths : Log(len)) \/ WriteBySize \/ UNCHANGED vars
      => /\ UNCHANGED <<now, curgap, opened>>
         /\ stage' = stage \/ stage' = "off" \/ (stage \in Writes /\ stage' \in Writes)
  BY DEF Exit, Log, WriteBySize, vars, timeSink, Writes
<1> QED BY <1>3, <1>4, <1>5, <1>6, <1>7 DEF Next, OpenedInTime, Writes

\* With periods of a second, a line is in a file that was named between the call
\* and the write, wherever the clock goes on: before the first look, between the
\* two looks of one call or between calls, and when the program is started anew
\* (RollByTimeSink::Log, CreateNewFile).  With longer periods it is not so.
THEOREM LinesAreInTime ==
  ASSUME GapSize = 1 PROVE Spec => []LinesAreInTheirFile
<1>1. \A t \in Nat : t >= 1 => Period(t) = t - 1
  BY DEF Period, GetCurTime
<1>2. Init => OpenedInTime /\ LinesAreInTheirFile
  BY DEF Init, OpenedInTime, Writes, LinesAreInTheirFile
<1>3. ASSUME Typed, OpenedInTime, LinesAreInTheirFile, [Next]_vars
      PROVE  LinesAreInTheirFile'
  <2>1. CASE WriteByTime
    <3> DEFINE line == [from |-> call.at, to |-> now, file |-> opened']
    <3>1. lines' = Append(lines, line) /\ stage = "called"
          /\ opened' = IF Gap(call.at) # curgap THEN now ELSE opened
      BY <2>1 DEF WriteByTime
    <3>2. now \in Nat /\ opened \in Nat /\ opened <= now /\ call.at \in Nat /\ call.at <= now
          /\ now >= 1 /\ call.at >= 1 /\ curgap < opened /\ curgap \in Nat
      BY <1>3, <3>1, LastSecond DEF Typed, TypeOK, Named, OpenedInTime, Writes
    <3>3. Gap(call.at) = call.at - 1
      BY DEF Gap, GetCurTime
    <3>4. opened' \in Nat /\ call.at <= opened' /\ opened' <= now
      BY <3>1, <3>2, <3>3
    <3>5. /\ Period(call.at) = call.at - 1 /\ Period(now) = now - 1
          /\ Period(opened') = opened' - 1
      BY <1>1, <3>2, <3>4
    <3>6. Period(line.file) \in Period(line.from) .. Period(line.to)
      <4>1. line.from = call.at /\ line.to = now /\ line.file = opened'
        OBVIOUS
      <4>2. \A a, b, c \in Nat : a <= b /\ b <= c => b - 1 \in a - 1 .. c - 1
        OBVIOUS
      <4>3. opened' - 1 \in call.at - 1 .. now - 1
        BY <3>2, <3>4, <4>2, Zenon
      <4> HIDE DEF line
      <4> QED BY <3>5, <4>1, <4>3
    <3> HIDE DEF line
    <3>7. PICK S : lines \in Seq(S) /\ line \in S
      <4>1. lines \in Seq([from : 1 .. now, to : 1 .. now, file : 1 .. now])
        BY <1>3 DEF Typed, TypeOK
      <4>2. PICK R : lines \in Seq(R)
        BY <4>1
      <4>3. lines \in Seq(R \cup {line}) /\ line \in R \cup {line}
        BY <4>2
      <4> QED BY <4>3
    <3>8. /\ Len(lines') = Len(lines) + 1 /\ lines'[Len(lines) + 1] = line
          /\ \A k \in 1 .. Len(lines) : lines'[k] = lines[k]
      BY <3>1, <3>7, AppendProperties
    <3>9. Len(lines) \in Nat
      BY <3>7, LenProperties
    <3>10. ASSUME NEW k \in 1 .. Len(lines')
           PROVE  Period(lines'[k].file) \in Period(lines'[k].from) .. Period(lines'[k].to)
      <4>1. k \in 1 .. Len(lines) \/ k = Len(lines) + 1
        BY <3>8, <3>9
      <4>2. CASE k \in 1 .. Len(lines)
        <5>1. lines'[k] = lines[k]
          BY <3>8, <4>2
        <5> QED BY <1>3, <4>2, <5>1 DEF LinesAreInTheirFile
      <4>3. CASE k = Len(lines) + 1
        <5>1. lines'[k] = line
          BY <3>8, <4>3
        <5> QED BY <3>6, <5>1
      <4> QED BY <4>1, <4>2, <4>3
    <3> QED BY <3>10 DEF LinesAreInTheirFile
  <2>2. CASE lines' = lines
    BY <1>3, <2>2 DEF LinesAreInTheirFile
  <2>3. WriteByTime \/ lines' = lines
    BY <1>3 DEF Next, Tick, Start, OpenFirst, Exit, Log, WriteBySize, vars, timeSink
  <2> QED BY <2>1, <2>2, <2>3
<1>4. Typed /\ OpenedInTime /\ [Next]_vars => OpenedInTime'
  BY TimeStep
<1> QED BY <1>2, <1>3, <1>4, AlwaysTyped, PTL DEF Spec

-----------------------------------------------------------------------------
(* Files have their size.                                                   *)

\* What is opened is one of the old files, with its size, or new and empty.
IsOpened(Names, new, name) ==
  /\ new \in Seq(DiskFiles(Names \cup {name}))
  /\ Len(new) \in Nat /\ Len(disk) \in Nat
  /\ \A k \in 1 .. Len(disk) :
       /\ new[k].name = disk[k].name /\ new[k].size = disk[k].size
       /\ new[k].before = IF disk[k].name = name THEN disk[k].size
                          ELSE disk[k].before
  /\ (\E k \in 1 .. Len(disk) : disk[k].name = name) => Len(new) = Len(disk)
  /\ ~ (\E k \in 1 .. Len(disk) : disk[k].name = name) =>
       /\ Len(new) = Len(disk) + 1
       /\ new[Len(new)].size = 0 /\ new[Len(new)].before = 0 /\ new[Len(new)].name = name

LEMMA OpenedOrNew ==
  ASSUME NEW Names, disk \in Seq(DiskFiles(Names)), NEW name
  PROVE  IsOpened(Names, Opened(name), name)
<1> DEFINE new == Opened(name)
           there == \E k \in 1 .. Len(disk) : disk[k].name = name
<1>1. /\ new \in Seq(DiskFiles(Names \cup {name}))
      /\ \A k \in 1 .. Len(disk) :
              /\ new[k].name = disk[k].name /\ new[k].size = disk[k].size
              /\ new[k].before = IF disk[k].name = name THEN disk[k].size
                                 ELSE disk[k].before
      /\ there => Len(new) = Len(disk)
      /\ ~ there => /\ Len(new) = Len(disk) + 1
                    /\ new[Len(new)] = [name |-> name, size |-> 0, before |-> 0]
  BY OpenedIs
<1>2. Len(new) \in Nat /\ Len(disk) \in Nat
  BY <1>1, LenProperties
<1>3. ~ there => /\ new[Len(new)].size = 0 /\ new[Len(new)].before = 0
                 /\ new[Len(new)].name = name
  BY <1>1
<1> QED BY <1>1, <1>2, <1>3 DEF IsOpened

LEMMA OneIsSmall ==
  ASSUME NEW m \in Nat, NEW n \in Nat, n < MaxSize
  PROVE  Small(m + n, m) /\ \A len \in Lengths : Small(m + (n + len), m)
<1>1. MaxSize \in Nat /\ Lengths \subseteq Nat /\ Lengths # {}
  BY SyncLoggerAssumption
<1>2. \A len \in Lengths : m + n < m + MaxSize + len /\ m + (n + len) < m + MaxSize + len
  BY <1>1
<1> QED BY <1>1, <1>2 DEF Small

\* A file that has just been opened is small, and stays so after its first message.
LEMMA FreshIsSmall ==
  ASSUME NEW m \in Nat
  PROVE  Small(m, m) /\ \A len \in Lengths : Small(m + len, m)
<1>1. 0 < MaxSize /\ 0 \in Nat /\ Lengths \subseteq Nat
  BY SyncLoggerAssumption
<1>2. Small(m + 0, m) /\ \A len \in Lengths : Small(m + (0 + len), m)
  BY <1>1, OneIsSmall
<1>3. m + 0 = m /\ \A len \in Lengths : 0 + len = len
  BY <1>1
<1> QED BY <1>2, <1>3

LEMMA CountStep ==
  ASSUME Typed, Counted, [Next]_vars PROVE Counted'
<1>1. PICK Names : disk \in Seq(DiskFiles(Names))
  BY DEF Typed, DiskIsSeq
<1>2. /\ cursize \in Nat /\ MaxSize \in Nat \ {0} /\ Lengths \subseteq Nat
      /\ \A k \in 1 .. Len(disk) : disk[k].size \in Nat /\ disk[k].before \in Nat
  BY SyncLoggerAssumption DEF Typed, TypeOK
<1>3. ASSUME NEW name
      PROVE  LET new == Opened(name)
             IN \A k \in 1 .. Len(new) :
                  /\ new[k].size \in Nat /\ new[k].before \in Nat
                  /\ Small(new[k].size, new[k].before)
                  /\ new[k].name = name => new[k].size = new[k].before
  <2> DEFINE new == Opened(name)
  <2>1. IsOpened(Names, new, name)
    BY <1>1, OpenedOrNew
  <2> HIDE DEF new
  <2>2. SUFFICES ASSUME NEW k \in 1 .. Len(new)
                 PROVE  /\ new[k].size \in Nat /\ new[k].before \in Nat
                        /\ Small(new[k].size, new[k].before)
                        /\ new[k].name = name => new[k].size = new[k].before
    BY DEF new
  <2>3. CASE k \in 1 .. Len(disk)
    <3>1. /\ new[k].name = disk[k].name /\ new[k].size = disk[k].size
          /\ new[k].before = IF disk[k].name = name THEN disk[k].size ELSE disk[k].before
          /\ disk[k].size \in Nat /\ disk[k].before \in Nat
      BY <1>2, <2>1, <2>3 DEF IsOpened
    <3>2. Small(disk[k].size, disk[k].before) /\ Small(disk[k].size, disk[k].size)
      BY <2>3, <3>1, FreshIsSmall DEF Counted
    <3> QED BY <3>1, <3>2
  <2>4. CASE k \notin 1 .. Len(disk)
    <3>1. k = Len(new) /\ new[k].size = 0 /\ new[k].before = 0
      BY <2>1, <2>2, <2>4 DEF IsOpened
    <3>2. 0 \in Nat
      OBVIOUS
    <3> QED BY <3>1, <3>2, FreshIsSmall
  <2> QED BY <2>3, <2>4
<1>4. CASE OpenFirst
  <2> DEFINE new == Opened(file')
  <2>1. /\ disk' = new /\ stage' = "ready" /\ cursize' = 0
    BY <1>4 DEF OpenFirst
  <2>2. \A k \in 1 .. Len(new) : /\ new[k].before \in Nat
                                 /\ Small(new[k].size, new[k].before)
                                 /\ new[k].name = file' => new[k].size = new[k].before
    BY <1>3
  <2> HIDE DEF new
  <2>3. \A m \in Nat : m = m + 0
    OBVIOUS
  <2> QED BY <2>1, <2>2, <2>3 DEF Counted
<1>5. CASE WriteBySize /\ cursize >= MaxSize
  <2> DEFINE new == Opened(file')
             after == Written(new, file', call.len)
  <2>1. /\ disk' = after /\ cursize' = call.len /\ call.len \in Lengths
    BY <1>5 DEF WriteBySize, Typed, Named
  <2>2. IsOpened(Names, new, file')
    BY <1>1, OpenedOrNew
  <2>3. \A k \in 1 .. Len(new) : /\ new[k].before \in Nat
                                 /\ Small(new[k].size, new[k].before)
                                 /\ new[k].name = file' => new[k].size = new[k].before
    BY <1>3
  <2> HIDE DEF new
  <2>4. call.len \in Nat
    BY <1>2, <2>1
  <2>5. /\ Len(after) = Len(new)
        /\ \A k \in 1 .. Len(new) :
             /\ after[k].name = new[k].name /\ after[k].before = new[k].before
             /\ after[k].size = IF new[k].name = file' THEN new[k].size + call.len
                                ELSE new[k].size
    <3>1. new \in Seq(DiskFiles(Names \cup {file'}))
      BY <2>2 DEF IsOpened
    <3> QED BY <2>4, <3>1, WrittenIs
  <2> HIDE DEF after
  <2>6. ASSUME NEW k \in 1 .. Len(after)
        PROVE  /\ Small(after[k].size, after[k].before)
               /\ after[k].name = file' => after[k].size = after[k].before + call.len
    <3>1. k \in 1 .. Len(new)
      BY <2>5
    <3>2. new[k].name = file' => Small(new[k].before + call.len, new[k].before)
      BY <2>1, <2>3, <3>1, FreshIsSmall
    <3> QED BY <2>3, <2>5, <3>1, <3>2
  <2> QED BY <2>1, <2>6 DEF Counted
<1>6. CASE WriteBySize /\ ~ (cursize >= MaxSize)
  <2> DEFINE after == Written(disk, file, call.len)
  <2>1. /\ disk' = after /\ file' = file /\ cursize' = cursize + call.len
        /\ stage \in Writes /\ call.len \in Lengths
    BY <1>6 DEF WriteBySize, Typed, Named, Writes
  <2>2. call.len \in Nat
    BY <1>2, <2>1
  <2>3. /\ Len(after) = Len(disk)
        /\ \A k \in 1 .. Len(disk) :
             /\ after[k].name = disk[k].name /\ after[k].before = disk[k].before
             /\ after[k].size = IF disk[k].name = file THEN disk[k].size + call.len
                                ELSE disk[k].size
    BY <1>1, <2>2, WrittenIs
  <2> HIDE DEF after
  <2>4. cursize < MaxSize
    BY <1>2, <1>6
  <2>5. ASSUME NEW k \in 1 .. Len(after)
        PROVE  /\ Small(after[k].size, after[k].before)
               /\ after[k].name = file => after[k].size = after[k].before + (cursize + call.len)
    <3>1. k \in 1 .. Len(disk) /\ disk[k].before \in Nat
      BY <1>2, <2>3
    <3>2. /\ Small(disk[k].size, disk[k].before)
          /\ disk[k].name = file => disk[k].size = disk[k].before + cursize
      BY <2>1, <3>1 DEF Counted
    <3>3. Small(disk[k].before + (cursize + call.len), disk[k].before)
      BY <1>2, <2>1, <2>4, <3>1, OneIsSmall
    <3>4. (disk[k].before + cursize) + call.len = disk[k].before + (cursize + call.len)
      BY <1>2, <2>2, <3>1
    <3> QED BY <2>3, <3>1, <3>2, <3>3, <3>4
  <2> QED BY <2>1, <2>5 DEF Counted
<1>7. UNCHANGED vars \/ Tick \/ Start \/ Exit \/ (\E len \in Lengths : Log(len)) \/ WriteByTime
      => UNCHANGED <<disk, file, cursize>> /\ (stage' \in Writes => stage \in Writes)
  BY DEF vars, Tick, Start, Exit, Log, WriteByTime, sizeSink, Writes
<1> QED BY <1>4, <1>5, <1>6, <1>7 DEF Next, Counted

LEMMA NumberStep ==
  ASSUME Typed, Numbered, [Next]_vars PROVE Numbered'
<1>1. PICK Names : disk \in Seq(DiskFiles(Names))
  BY DEF Typed, DiskIsSeq
<1>2. /\ cursize \in Nat /\ recount \in Nat /\ starts \in Nat /\ Lengths \subseteq Nat
      /\ MaxSize \in Nat
      /\ \A k \in 1 .. Len(disk) : disk[k].size \in Nat
  BY SyncLoggerAssumption DEF Typed, TypeOK
<1>3. Len(disk) \in Nat
  BY <1>1, LenProperties
<1>4. \A t, n : SizeName(t, n)[2] = n
  BY DEF SizeName
<1>5. CASE Start
  <2>1. CASE starts = 0
    <3>1. disk' = <<>> /\ stage' = "started" /\ starts' = 1
      BY <1>5, <2>1 DEF Start, sizeSink, Numbered
    <3>2. Len(disk') = 0
      BY <3>1
    <3> QED BY <3>1, <3>2 DEF Numbered, Writes
  <2>2. CASE starts # 0
    <3>1. starts' # 0 /\ starts' # 1
      BY <1>2, <1>5, <2>2 DEF Start
    <3> QED BY <3>1 DEF Numbered
  <2> QED BY <2>1, <2>2
<1>6. CASE OpenFirst
  <2>1. /\ disk' = Opened(file') /\ file'[2] = 1 /\ recount' = 1 /\ cursize' = 0
        /\ stage' = "ready" /\ starts' = starts /\ stage = "started"
    BY <1>4, <1>6 DEF OpenFirst
  <2>2. starts # 0
    BY <2>1 DEF Numbered
  <2>3. CASE starts = 1
    <3>1. disk = <<>> /\ Len(disk) = 0
      BY <2>1, <2>3 DEF Numbered
    <3> DEFINE new == Opened(file')
    <3>2. IsOpened(Names, new, file')
      BY <1>1, OpenedOrNew
    <3> HIDE DEF new
    <3>3. Len(new) = 1 /\ new[1].size = 0 /\ new[1].name = file'
      <4>1. ~ \E k \in 1 .. Len(disk) : disk[k].name = file'
        BY <3>1
      <4>2. Len(new) = Len(disk) + 1 /\ new[Len(new)].size = 0 /\ new[Len(new)].name = file'
        BY <3>2, <4>1 DEF IsOpened
      <4>3. Len(new) = 1
        BY <3>1, <4>2
      <4> QED BY <4>2, <4>3
    <3>4. disk' = new
      BY <2>1 DEF new
    <3>5. \A k \in 1 .. Len(disk') : disk'[k].name[2] = k
      <4>1. \A k \in 1 .. 1 : k = 1
        OBVIOUS
      <4> QED BY <2>1, <3>3, <3>4, <4>1
    <3>6. \A k \in 1 .. Len(disk') - 1 : disk'[k].size >= MaxSize
      <4>1. Len(disk') = 1 /\ 1 .. 1 - 1 = {}
        BY <3>3, <3>4
      <4>2. 1 .. Len(disk') - 1 = {}
        BY <4>1, Zenon
      <4> QED BY <4>2
    <3> QED BY <2>1, <2>3, <3>3, <3>4, <3>5, <3>6 DEF Numbered
  <2>4. CASE starts # 1
    BY <2>1, <2>2, <2>4 DEF Numbered
  <2> QED BY <2>3, <2>4
<1>7. CASE WriteBySize
  <2>1. stage \in Writes /\ stage' = "ready" /\ starts' = starts /\ call.len \in Nat
    BY <1>2, <1>7 DEF WriteBySize, Writes, timeSink, Typed, Named
  <2>2. starts # 0
    BY <2>1 DEF Numbered, Writes
  <2>3. CASE starts # 1
    BY <2>1, <2>2, <2>3 DEF Numbered
  <2>4. CASE starts = 1
    <3>1. /\ Len(disk) = recount /\ \A k \in 1 .. recount : disk[k].name[2] = k
          /\ disk[recount].name = file /\ disk[recount].size = cursize
          /\ \A k \in 1 .. recount - 1 : disk[k].size >= MaxSize
      BY <2>1, <2>4 DEF Numbered
    <3>2. recount >= 1 /\ recount \in 1 .. recount
      BY <1>2, <2>1 DEF Typed, Named
    <3>3. CASE cursize >= MaxSize
      <4> DEFINE new == Opened(file')
                 after == Written(new, file', call.len)
      <4>1. /\ disk' = after /\ recount' = recount + 1 /\ cursize' = call.len
            /\ file'[2] = recount + 1
        BY <1>4, <1>7, <3>3 DEF WriteBySize
      <4>2. IsOpened(Names, new, file')
        BY <1>1, OpenedOrNew
      <4> HIDE DEF new
      <4>3. new \in Seq(DiskFiles(Names \cup {file'}))
        BY <4>2 DEF IsOpened
      <4>4. /\ Len(after) = Len(new)
            /\ \A k \in 1 .. Len(new) :
                 /\ after[k].name = new[k].name
                 /\ after[k].size = IF new[k].name = file' THEN new[k].size + call.len
                                    ELSE new[k].size
        BY <2>1, <4>3, WrittenIs
      <4> HIDE DEF after
      <4>5. ASSUME NEW k \in 1 .. recount PROVE disk[k].name # file'
        <5>1. disk[k].name[2] = k /\ k # recount + 1
          BY <1>2, <3>1
        <5> QED BY <4>1, <5>1
      <4>6. Len(new) = recount + 1 /\ new[recount + 1].size = 0 /\ new[recount + 1].name = file'
        BY <3>1, <4>2, <4>5 DEF IsOpened
      <4>7. ASSUME NEW k \in 1 .. recount
            PROVE  after[k].name = disk[k].name /\ after[k].size = disk[k].size
        <5>1. k \in 1 .. Len(new) /\ k \in 1 .. Len(disk)
          BY <1>2, <3>1, <4>6
        <5>2. new[k].name = disk[k].name /\ new[k].size = disk[k].size
          BY <4>2, <5>1 DEF IsOpened
        <5> QED BY <4>4, <4>5, <5>1, <5>2
      <4>8. after[recount + 1].name = file' /\ after[recount + 1].size = call.len
        <5>1. recount + 1 \in 1 .. Len(new) /\ 0 + call.len = call.len
          BY <1>2, <2>1, <4>6
        <5> QED BY <4>4, <4>6, <5>1
      <4>9. ASSUME NEW k \in 1 .. recount PROVE after[k].size >= MaxSize
        <5>1. k = recount \/ k \in 1 .. recount - 1
          BY <1>2
        <5> QED BY <3>1, <3>3, <4>7, <5>1
      <4>10. ASSUME NEW k \in 1 .. recount + 1 PROVE after[k].name[2] = k
        <5>1. k \in 1 .. recount \/ k = recount + 1
          BY <1>2
        <5> QED BY <3>1, <4>1, <4>7, <4>8, <5>1
      <4>11. Len(after) = recount + 1 /\ (recount + 1) - 1 = recount
        BY <1>2, <4>4, <4>6
      <4> QED BY <2>1, <2>4, <4>1, <4>8, <4>9, <4>10, <4>11 DEF Numbered
    <3>4. CASE ~ (cursize >= MaxSize)
      <4> DEFINE after == Written(disk, file, call.len)
      <4>1. /\ disk' = after /\ file' = file /\ cursize' = cursize + call.len
            /\ recount' = recount
        BY <1>7, <3>4 DEF WriteBySize
      <4>2. /\ Len(after) = Len(disk)
            /\ \A k \in 1 .. Len(disk) :
                 /\ after[k].name = disk[k].name
                 /\ after[k].size = IF disk[k].name = file THEN disk[k].size + call.len
                                    ELSE disk[k].size
        BY <1>1, <2>1, WrittenIs
      <4> HIDE DEF after
      <4>3. ASSUME NEW k \in 1 .. recount - 1 PROVE after[k].size >= MaxSize
        <5>1. k \in 1 .. recount /\ k # recount
          BY <1>2
        <5>2. disk[k].name # file
          <6>1. disk[k].name[2] = k /\ file[2] = recount
            BY <3>1, <3>2, <5>1
          <6> QED BY <5>1, <6>1
        <5> QED BY <3>1, <4>2, <5>1, <5>2
      <4>4. after[recount].size = cursize + call.len /\ after[recount].name = file
        BY <3>1, <3>2, <4>2
      <4> QED BY <2>1, <2>4, <3>1, <4>1, <4>2, <4>3, <4>4 DEF Numbered
    <3> QED BY <3>3, <3>4
  <2> QED BY <2>3, <2>4
<1>8. UNCHANGED vars \/ Tick \/ Exit \/ (\E len \in Lengths : Log(len)) \/ WriteByTime
      => /\ UNCHANGED <<disk, file, cursize, recount, starts>>
         /\ stage' = stage \/ (stage \in Writes /\ stage' \in Writes \cup {"off"})
  BY DEF vars, Tick, Exit, Log, WriteByTime, sizeSink, Writes
<1>9. CASE /\ UNCHANGED <<disk, file, cursize, recount, starts>>
           /\ stage' = stage \/ (stage \in Writes /\ stage' \in Writes \cup {"off"})
  BY <1>9 DEF Numbered, Writes
<1> QED BY <1>5, <1>6, <1>7, <1>8, <1>9 DEF Next

\* Whatever the lengths, the times, the names and the starts of the program: a
\* file grows, after it has been opened, by no more than the size and the message
\* that filled it, whatever a program that was there before has left in it; and
\* the first program fills each file before it opens the next: the number in the
\* name is what tells them apart, whatever the clock says (RollBySizeSink::Log,
\* CreateNewFile).
THEOREM FilesAreFilled == Spec => []FilesHaveTheirSize
<1>1. Init => Counted /\ Numbered
  BY DEF Init, Counted, Numbered, Writes
<1>2. Typed /\ Counted /\ Numbered /\ [Next]_vars => Counted' /\ Numbered'
  BY CountStep, NumberStep
<1>3. Counted /\ Numbered => FilesHaveTheirSize
  BY DEF Counted, Small, Numbered, FilesHaveTheirSize
<1> QED BY <1>1, <1>2, <1>3, AlwaysTyped, PTL DEF Spec

=============================================================================
