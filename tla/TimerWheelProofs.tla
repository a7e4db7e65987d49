-------------------------- MODULE TimerWheelProofs --------------------------
(***************************************************************************)
(* The timing wheel keeps time, for every size of the dial, any number of  *)
(* tasks and ids, any number of refreshes and any callback: proofs about   *)
(* TimerWheel.tla.  The argument is the invariant ReferencesMatchDeadline: *)
(* a task has a reference in the slot of its LAST deadline and none beyond *)
(* it, so the hand drops its last reference exactly on time.               *)
(***************************************************************************)
EXTENDS TimerWheel, TLAPS

-----------------------------------------------------------------------------
(* The dial.                                                                *)

\* The dial's % does nothing before the end of the dial ...
LEMMA ModSmall ==
  ASSUME NEW c \in Nat \ {0}, NEW a \in 0 .. c - 1 PROVE a % c = a
  BY SMT

\* ... and wraps once beyond it.
LEMMA ModWrap ==
  ASSUME NEW c \in Nat \ {0}, NEW a \in c .. 2 * c - 1 PROVE a % c = a - c
  BY SMT

\* Moving d places from slot x, at most a whole turn.
LEMMA Turn ==
  ASSUME NEW c \in Nat \ {0}, NEW x \in 0 .. c - 1, NEW d \in 1 .. c
  PROVE  (x + d) % c = IF x + d < c THEN x + d ELSE x + d - c
  BY ModSmall, ModWrap, SMT

\* Pos and Distance are inverse to each other.
LEMMA PosDistance ==
  ASSUME WheelAssumption, curtick \in Slots, NEW d \in 1 .. Capacity
  PROVE  Pos(d) \in Slots /\ Distance(Pos(d)) = d
  <1>1. Capacity \in Nat \ {0} BY DEF WheelAssumption
  <1>2. curtick \in 0 .. Capacity - 1 BY DEF Slots
  <1>3. Pos(d) = IF curtick + d < Capacity THEN curtick + d ELSE curtick + d - Capacity
    BY <1>1, <1>2, Turn DEF Pos
  <1> QED BY <1>1, <1>2, <1>3 DEF Slots, Distance

\* A slot is between one tick and a whole turn away.
LEMMA DistanceRange ==
  ASSUME WheelAssumption, curtick \in Slots, NEW p \in Slots
  PROVE  Distance(p) \in 1 .. Capacity
  BY DEF WheelAssumption, Slots, Distance

\* The hand moves one slot: every other slot is one tick nearer, and what was
\* d > 1 ticks away is d - 1 ticks away.
LEMMA HandMoves ==
  ASSUME WheelAssumption, curtick \in Slots, curtick' = NextSlot
  PROVE  /\ NextSlot \in Slots
         /\ Pos(1) = NextSlot
         /\ \A p \in Slots \ {NextSlot} : Distance(p)' = Distance(p) - 1
         /\ \A d \in 2 .. Capacity : /\ Pos(d) # NextSlot
                                     /\ Pos(d) = Pos(d - 1)'
  <1>1. Capacity \in Nat \ {0} BY DEF WheelAssumption
  <1>2. curtick \in 0 .. Capacity - 1 BY DEF Slots
  <1>3. NextSlot = IF curtick + 1 < Capacity THEN curtick + 1 ELSE 0
    <2>1. 1 \in 1 .. Capacity BY <1>1
    <2>2. (curtick + 1) % Capacity
            = IF curtick + 1 < Capacity THEN curtick + 1 ELSE curtick + 1 - Capacity
      BY <1>1, <1>2, <2>1, Turn
    <2>3. NextSlot = (curtick + 1) % Capacity BY DEF NextSlot
    <2> QED BY <1>1, <1>2, <2>2, <2>3
  <1>4. NextSlot \in Slots BY <1>1, <1>2, <1>3 DEF Slots
  <1>5. Pos(1) = NextSlot BY DEF Pos, NextSlot
  <1>6. ASSUME NEW p \in Slots \ {NextSlot} PROVE Distance(p)' = Distance(p) - 1
    <2>1. Distance(p)' = IF p > NextSlot THEN p - NextSlot ELSE p + Capacity - NextSlot
      BY DEF Distance
    <2> QED BY <1>1, <1>2, <1>3, <1>4, <2>1 DEF Slots, Distance
  <1>7. ASSUME NEW d \in 2 .. Capacity
        PROVE  Pos(d) # NextSlot /\ Pos(d) = Pos(d - 1)'
    <2>1. d \in 1 .. Capacity /\ d - 1 \in 1 .. Capacity BY <1>1
    <2>2. Pos(d) = IF curtick + d < Capacity THEN curtick + d ELSE curtick + d - Capacity
      BY <1>1, <1>2, <2>1, Turn DEF Pos
    <2>3. NextSlot \in 0 .. Capacity - 1 BY <1>4 DEF Slots
    <2>4. (NextSlot + (d - 1)) % Capacity
            = IF NextSlot + (d - 1) < Capacity THEN NextSlot + (d - 1)
                                               ELSE NextSlot + (d - 1) - Capacity
      BY <1>1, <2>3, <2>1, Turn
    <2>5. Pos(d - 1)' = (NextSlot + (d - 1)) % Capacity BY DEF Pos
    <2> QED BY <1>1, <1>2, <1>3, <2>2, <2>4, <2>5
  <1> QED BY <1>4, <1>5, <1>6, <1>7

-----------------------------------------------------------------------------
(* The inductive invariant.                                                 *)


\* TypeOK alone is not inductive (that no task waits less than no time needs
\* the references to be in the right slots), nor is the deadline of the task
\* in its destructor without its references being gone.
RunningIsGone == running # NoTask => running \in Tasks /\ ~ Alive(running)
InPlace(t) ==
  /\ Alive(t) => IF left[t] = 0 THEN t \in dropping ELSE t \in wheel[Pos(left[t])]
  /\ \A p \in Slots : t \in wheel[p] => Distance(p) <= left[t]
\* No task has longer to wait than it asked for, so a refresh never has a
\* reference beyond the new deadline.
TimeoutBoundsLeft == \A t \in Tasks : left[t] <= task[t].timeout
Inv == /\ TypeOK /\ ReferencesMatchDeadline /\ RunningIsGone /\ FiresOnDeadline
       /\ TimeoutBoundsLeft

\* A task that is due is in the slot being cleared, and conversely a task with
\* no reference outside that slot is due.
LEMMA DueIsDropping ==
  ASSUME WheelAssumption, Inv, NEW t \in Tasks, Alive(t)
  PROVE  /\ left[t] = 0 => t \in dropping
         /\ ~ InWheel(t) => left[t] = 0
  <1>1. left[t] # 0 => left[t] \in 1 .. Capacity
    BY DEF Inv, TypeOK, WheelAssumption
  <1>2. left[t] # 0 => Pos(left[t]) \in Slots
    BY <1>1, PosDistance DEF Inv, TypeOK
  <1> QED BY <1>2 DEF Inv, ReferencesMatchDeadline, InWheel

\* The empty wheel satisfies the invariant.
LEMMA InitInv == ASSUME WheelAssumption, Init PROVE Inv
  <1>1. TypeOK
    <2>1. curtick \in Slots /\ expirations \in Nat /\ ticks \in Nat
      BY DEF Init, Slots, WheelAssumption
    <2>2. wheel \in [Slots -> SUBSET Tasks] /\ timers \in [Ids -> Tasks \cup {NoTask}]
      BY DEF Init
    <2>3. left \in [Tasks -> 0 .. Capacity]
      BY DEF Init, WheelAssumption
    <2>4. task \in [Tasks -> TaskRecord]
      BY DEF Init
    <2> QED BY <2>1, <2>2, <2>3, <2>4 DEF Init, TypeOK
  <1>2. \A p \in Slots : wheel[p] = {}
    BY DEF Init
  <1>3. dropping = {} /\ running = NoTask
    BY DEF Init
  <1>4. \A t \in Tasks : ~ Alive(t) /\ \A p \in Slots : t \notin wheel[p]
    BY <1>2, <1>3 DEF Alive
  <1>5. TimeoutBoundsLeft
    <2>1. \A t \in Tasks : left[t] = 0 BY DEF Init
    <2>2. task \in [Tasks -> TaskRecord] BY DEF Init
    <2>3. \A t \in Tasks : task[t].timeout \in Delays BY <2>2 DEF TaskRecord
    <2>4. \A n \in Delays : 0 <= n BY DEF WheelAssumption
    <2> QED BY <2>1, <2>3, <2>4 DEF TimeoutBoundsLeft
  <1> QED BY <1>1, <1>3, <1>4, <1>5 DEF Inv, ReferencesMatchDeadline, RunningIsGone,
             FiresOnDeadline

\* Giving task t one more reference, d ticks ahead, when none is further away,
\* makes d its deadline.
LEMMA PushReference ==
  ASSUME WheelAssumption, Inv, NEW t \in Tasks, NEW d \in 1 .. Capacity,
         t # running, \A p \in Slots : t \in wheel[p] => Distance(p) <= d,
         wheel' = [wheel EXCEPT ![Pos(d)] = @ \cup {t}],
         left' = [left EXCEPT ![t] = d],
         UNCHANGED <<curtick, dropping, running>>
  PROVE  /\ wheel' \in [Slots -> SUBSET Tasks]
         /\ left' \in [Tasks -> 0 .. Capacity]
         /\ ReferencesMatchDeadline' /\ RunningIsGone' /\ FiresOnDeadline'
  <1> USE DEF Inv, TypeOK
  <1>1. d \in 0 .. Capacity /\ d # 0 BY DEF WheelAssumption
  <1>2. Pos(d) \in Slots /\ Distance(Pos(d)) = d BY PosDistance
  <1>3. wheel' \in [Slots -> SUBSET Tasks] /\ left' \in [Tasks -> 0 .. Capacity]
    BY <1>1, <1>2
  <1>4. \A p \in Slots : wheel'[p] = IF p = Pos(d) THEN wheel[p] \cup {t} ELSE wheel[p]
    BY <1>2
  <1>5. \A s \in Tasks : left'[s] = IF s = t THEN d ELSE left[s]
    OBVIOUS
  <1>6. \A p \in Slots : Distance(p)' = Distance(p)
    BY DEF Distance
  <1>8. ASSUME NEW s \in Tasks, s # t PROVE Alive(s)' <=> Alive(s)
    BY <1>4, <1>8 DEF Alive
  <1>9. ReferencesMatchDeadline'
    <2> SUFFICES ASSUME NEW s \in Tasks PROVE InPlace(s)'
      BY DEF ReferencesMatchDeadline, InPlace
    <2>1. CASE s = t
      <3>1. Pos(left[s])' = Pos(d) BY <1>5, <2>1 DEF Pos
      <3>2. t \in wheel'[Pos(d)] BY <1>2, <1>4
      <3> QED BY <1>1, <1>2, <1>4, <1>5, <1>6, <2>1, <3>1, <3>2 DEF InPlace
    <2>2. CASE s # t
      <3>1. left'[s] = left[s] BY <1>5, <2>2
      <3>2. \A p \in Slots : s \in wheel'[p] <=> s \in wheel[p] BY <1>4, <2>2
      <3>3. left[s] # 0 => left[s] \in 1 .. Capacity BY DEF WheelAssumption
      <3>4. left[s] # 0 => Pos(left[s]) \in Slots BY <3>3, PosDistance
      <3>5. Pos(left[s])' = Pos(left[s]) BY <3>1 DEF Pos
      <3>6. InPlace(s) BY DEF ReferencesMatchDeadline, InPlace
      <3> QED BY <1>6, <1>8, <2>2, <3>1, <3>2, <3>4, <3>5, <3>6 DEF InPlace
    <2> QED BY <2>1, <2>2
  <1>10. RunningIsGone' BY <1>8 DEF RunningIsGone
  <1>11. FiresOnDeadline' BY <1>5 DEF FiresOnDeadline, RunningIsGone
  <1> QED BY <1>3, <1>9, <1>10, <1>11

\* One reference of t is destroyed: the others, and every deadline, stay.
LEMMA LoseReference ==
  ASSUME WheelAssumption, Inv, NEW t \in Tasks, t \in dropping, running = NoTask,
         dropping' = dropping \ {t}, running' \in {NoTask, t},
         InWheel(t) => running' = NoTask,
         UNCHANGED <<wheel, left, curtick>>
  PROVE  ReferencesMatchDeadline' /\ RunningIsGone' /\ FiresOnDeadline'
  <1> USE DEF Inv, TypeOK
  <1>1. Alive(t) BY DEF Alive
  <1>2. \A s \in Tasks : Alive(s)' => Alive(s)
    BY DEF Alive
  <1>3. \A s \in Tasks : Pos(left[s])' = Pos(left[s])
    BY DEF Pos
  <1>4. \A p \in Slots : Distance(p)' = Distance(p)
    BY DEF Distance
  <1>5. left[t] = 0 => ~ InWheel(t)
    <2> SUFFICES ASSUME left[t] = 0, NEW p \in Slots, t \in wheel[p] PROVE FALSE
      BY DEF InWheel
    <2>1. Distance(p) <= 0 BY DEF ReferencesMatchDeadline
    <2>2. Distance(p) \in 1 .. Capacity BY DistanceRange
    <2> QED BY <2>1, <2>2 DEF WheelAssumption
  <1>6. ReferencesMatchDeadline'
    <2> SUFFICES ASSUME NEW s \in Tasks PROVE InPlace(s)'
      BY DEF ReferencesMatchDeadline, InPlace
    <2>1. InPlace(s) BY DEF ReferencesMatchDeadline, InPlace
    <2>2. CASE s = t
      <3>1. ~ InWheel(t) => ~ Alive(t)' BY DEF Alive, InWheel
      <3>2. InWheel(t) => left[t] # 0 BY <1>5
      <3> QED BY <1>1, <1>3, <1>4, <2>1, <2>2, <3>1, <3>2 DEF InPlace
    <2>3. CASE s # t
      <3>1. s \in dropping => s \in dropping' BY <2>3
      <3> QED BY <1>2, <1>3, <1>4, <2>1, <3>1 DEF InPlace
    <2> QED BY <2>2, <2>3
  <1>7. RunningIsGone'
    BY DEF RunningIsGone, Alive, InWheel
  <1>8. FiresOnDeadline'
    BY <1>1, DueIsDropping DEF FiresOnDeadline
  <1> QED BY <1>6, <1>7, <1>8

\* The hand moves: every task in the wheel has waited one more tick, and those
\* whose time is up are exactly those whose slot is cleared.
LEMMA TickKeepsDeadlines ==
  ASSUME WheelAssumption, Inv, RunTimerTask
  PROVE  Inv'
  <1> USE DEF Inv, TypeOK, RunTimerTask
  <1>1. /\ NextSlot \in Slots
        /\ Pos(1) = NextSlot
        /\ \A p \in Slots \ {NextSlot} : Distance(p)' = Distance(p) - 1
        /\ \A d \in 2 .. Capacity : /\ Pos(d) # NextSlot
                                    /\ Pos(d) = Pos(d - 1)'
    BY HandMoves
  <1>2. \A p \in Slots : wheel'[p] = IF p = NextSlot THEN {} ELSE wheel[p]
    BY <1>1
  <1>3. \A s \in Tasks : Alive(s)' <=> Alive(s)
    BY <1>1, <1>2 DEF Alive
  <1>4. \A s \in Tasks : left'[s] = IF Alive(s) THEN left[s] - 1 ELSE left[s]
    OBVIOUS
  <1>5. \A s \in Tasks : Alive(s) => left[s] \in 1 .. Capacity
    BY DueIsDropping DEF WheelAssumption
  <1>6. left' \in [Tasks -> 0 .. Capacity]
    <2>1. \A s \in Tasks : left'[s] \in 0 .. Capacity
      BY <1>4, <1>5 DEF WheelAssumption
    <2> QED BY <2>1
  <1>7. ReferencesMatchDeadline'
    <2> SUFFICES ASSUME NEW s \in Tasks PROVE InPlace(s)'
      BY DEF ReferencesMatchDeadline, InPlace
    <2>1. InPlace(s) BY DEF ReferencesMatchDeadline, InPlace
    <2>2. CASE ~ Alive(s)
      <3>1. \A p \in Slots : s \notin wheel[p] BY <2>2 DEF Alive
      <3> QED BY <1>2, <1>3, <2>2, <3>1 DEF InPlace
    <2>3. CASE Alive(s) /\ left[s] = 1
      <3>1. left'[s] = 0 BY <1>4, <2>3
      <3>2. s \in dropping' BY <1>1, <2>1, <2>3 DEF InPlace
      <3>3. ASSUME NEW p \in Slots, s \in wheel'[p] PROVE Distance(p)' <= left'[s]
        <4>1. p # NextSlot /\ s \in wheel[p] BY <1>2, <3>3
        <4>2. Distance(p) <= 1 BY <2>1, <2>3, <4>1 DEF InPlace
        <4>3. Distance(p) \in 1 .. Capacity BY DistanceRange
        <4> QED BY <1>1, <3>1, <4>1, <4>2, <4>3 DEF WheelAssumption
      <3> QED BY <3>1, <3>2, <3>3 DEF InPlace
    <2>4. CASE Alive(s) /\ left[s] # 1
      <3>1. left[s] \in 2 .. Capacity /\ left'[s] = left[s] - 1 /\ left'[s] # 0
        BY <1>4, <1>5, <2>4 DEF WheelAssumption
      <3>2. Pos(left[s])' = Pos(left[s])
        <4>1. Pos(left[s])' = (curtick' + left'[s]) % Capacity BY DEF Pos
        <4>3. \A d : Pos(d)' = (curtick' + d) % Capacity BY DEF Pos
        <4> QED BY <1>1, <3>1, <4>1, <4>3
      <3>3. s \in wheel'[Pos(left[s])]
        <4>1. Pos(left[s]) \in Slots BY <1>5, <2>4, PosDistance
        <4> QED BY <1>1, <1>2, <2>1, <2>4, <3>1, <4>1 DEF InPlace
      <3>4. ASSUME NEW p \in Slots, s \in wheel'[p] PROVE Distance(p)' <= left'[s]
        <4>1. p # NextSlot /\ s \in wheel[p] BY <1>2, <3>4
        <4>2. Distance(p) <= left[s] BY <2>1, <4>1 DEF InPlace
        <4>3. Distance(p) \in 1 .. Capacity BY DistanceRange
        <4> QED BY <1>1, <3>1, <4>1, <4>2, <4>3 DEF WheelAssumption
      <3> QED BY <3>1, <3>2, <3>3, <3>4 DEF InPlace
    <2> QED BY <2>2, <2>3, <2>4
  <1>8. TypeOK'
    <2>1. wheel' \in [Slots -> SUBSET Tasks] /\ dropping' \in SUBSET Tasks
      BY <1>1
    <2> QED BY <1>1, <1>6, <2>1
  <1>9. TimeoutBoundsLeft'
    <2> SUFFICES ASSUME NEW s \in Tasks PROVE left'[s] <= task[s].timeout
      BY DEF TimeoutBoundsLeft
    <2>1. task[s].timeout \in 1 .. Capacity BY DEF TaskRecord, WheelAssumption
    <2>2. left[s] \in 0 .. Capacity OBVIOUS
    <2> QED BY <1>4, <2>1, <2>2 DEF TimeoutBoundsLeft, WheelAssumption
  <1> QED BY <1>3, <1>7, <1>8, <1>9 DEF RunningIsGone, FiresOnDeadline

\* A step that leaves the wheel alone keeps the invariant.
LEMMA FrameKeepsInv ==
  ASSUME Inv, UNCHANGED <<curtick, wheel, dropping, running, left>>
  PROVE  ReferencesMatchDeadline' /\ RunningIsGone' /\ FiresOnDeadline'
  BY DEF Inv, ReferencesMatchDeadline, RunningIsGone, FiresOnDeadline, Alive, Pos,
         Distance

\* TimerAddInLoop keeps it: the new task's only reference is its deadline.
LEMMA AddKeepsInv ==
  ASSUME WheelAssumption, Inv, NEW i \in Ids, NEW d \in Delays, TimerAddInLoop(i, d)
  PROVE  Inv'
  <1> USE DEF Inv, TypeOK
  <1>1. PICK t \in Tasks :
          /\ ~ Alive(t) /\ t # running
          /\ task' = [task EXCEPT ![t] = [id |-> i, timeout |-> d, canceled |-> FALSE]]
          /\ wheel' = [wheel EXCEPT ![Pos(d)] = @ \cup {t}]
          /\ timers' = [timers EXCEPT ![i] = t]
          /\ left' = [left EXCEPT ![t] = d]
    BY DEF TimerAddInLoop
  <1>2. d \in 1 .. Capacity BY DEF WheelAssumption
  <1>3. UNCHANGED <<curtick, dropping, running, expirations, ticks>>
    BY DEF TimerAddInLoop
  <1>4. \A p \in Slots : t \notin wheel[p] BY <1>1 DEF Alive
  <1>5. /\ wheel' \in [Slots -> SUBSET Tasks] /\ left' \in [Tasks -> 0 .. Capacity]
        /\ ReferencesMatchDeadline' /\ RunningIsGone' /\ FiresOnDeadline'
    BY <1>1, <1>2, <1>3, <1>4, PushReference
  <1>6. [id |-> i, timeout |-> d, canceled |-> FALSE] \in TaskRecord
    BY DEF TaskRecord
  <1>7. task' \in [Tasks -> TaskRecord] /\ timers' \in [Ids -> Tasks \cup {NoTask}]
    BY <1>1, <1>6
  <1>8. undefined' \in BOOLEAN /\ canceledId' \in SUBSET Ids
    BY DEF TimerAddInLoop, HitsClearedSlot
  <1>9. TimeoutBoundsLeft'
    <2> SUFFICES ASSUME NEW s \in Tasks PROVE left'[s] <= task'[s].timeout
      BY DEF TimeoutBoundsLeft
    <2>1. CASE s = t
      <3>1. left'[s] = d /\ task'[s].timeout = d BY <1>1, <2>1
      <3> QED BY <1>2, <3>1 DEF WheelAssumption
    <2>2. CASE s # t
      <3>1. left'[s] = left[s] /\ task'[s] = task[s] BY <1>1, <2>2
      <3> QED BY <3>1 DEF TimeoutBoundsLeft
    <2> QED BY <2>1, <2>2
  <1> QED BY <1>3, <1>5, <1>7, <1>8, <1>9

\* TimerRefreshInLoop keeps it: the added reference is the furthest one.
LEMMA RefreshKeepsInv ==
  ASSUME WheelAssumption, Inv, NEW i \in Ids, TimerRefreshInLoop(i)
  PROVE  Inv'
  <1> USE DEF Inv, TypeOK
  <1>1. PICK t \in Tasks : t = timers[i] BY DEF TimerRefreshInLoop
  <1>2. PICK d \in 1 .. Capacity : d = task[t].timeout
    BY <1>1 DEF WheelAssumption, TaskRecord
  <1>3. UNCHANGED <<curtick, dropping, running, expirations, ticks, timers, task,
                    canceledId>>
    BY DEF TimerRefreshInLoop
  <1>4. undefined' \in BOOLEAN
    BY DEF TimerRefreshInLoop, HitsClearedSlot
  <1>5. CASE Alive(t)
    <2>1. /\ wheel' = [wheel EXCEPT ![Pos(d)] = @ \cup {t}]
          /\ left' = [left EXCEPT ![t] = d]
      BY <1>1, <1>2, <1>5 DEF TimerRefreshInLoop
    <2>2. t # running BY <1>1, <1>5 DEF RunningIsGone, WheelAssumption
    <2>3. \A p \in Slots : t \in wheel[p] => Distance(p) <= d
      <3>1. left[t] <= d /\ left[t] \in 0 .. Capacity
        BY <1>1, <1>2 DEF TimeoutBoundsLeft
      <3> QED BY <1>1, <3>1, DistanceRange DEF ReferencesMatchDeadline, WheelAssumption
    <2>4. TimeoutBoundsLeft'
      BY <1>2, <1>3, <2>1 DEF TimeoutBoundsLeft, WheelAssumption
    <2> QED BY <1>3, <1>4, <2>1, <2>2, <2>3, <2>4, PushReference
  <1>6. CASE ~ Alive(t)
    <2>1. UNCHANGED <<wheel, left>> BY <1>1, <1>6 DEF TimerRefreshInLoop
    <2>2. TimeoutBoundsLeft' BY <1>3, <2>1 DEF TimeoutBoundsLeft
    <2> QED BY <1>3, <1>4, <2>1, <2>2, FrameKeepsInv
  <1> QED BY <1>5, <1>6

\* TimerCannelInLoop keeps it: the references stay where they are.
LEMMA CancelKeepsInv ==
  ASSUME WheelAssumption, Inv, NEW i \in Ids, TimerCancelInLoop(i)
  PROVE  Inv'
  <1> USE DEF Inv, TypeOK, TimerCancelInLoop
  <1>1. /\ task' \in [Tasks -> TaskRecord]
        /\ \A s \in Tasks : task'[s].timeout = task[s].timeout
    <2>1. CASE timers[i] # NoTask /\ Alive(timers[i])
      <3>1. PICK t \in Tasks : t = timers[i] BY <2>1
      <3>2. PICK r : r = [task[t] EXCEPT !.canceled = TRUE] OBVIOUS
      <3>3. task' = [task EXCEPT ![t] = r] BY <2>1, <3>1, <3>2, Zenon
      <3>4. r \in TaskRecord /\ r.timeout = task[t].timeout BY <3>2, ZenonT(40) DEF TaskRecord
      <3> QED BY <3>3, <3>4, ZenonT(40)
    <2>2. CASE ~ (timers[i] # NoTask /\ Alive(timers[i]))
      BY <2>2, Zenon
    <2> QED BY <2>1, <2>2
  <1>2. UNCHANGED <<curtick, wheel, timers, dropping, running, left, expirations,
                    ticks, undefined>> /\ canceledId' \in SUBSET Ids
    BY Zenon
  <1>3. TimeoutBoundsLeft' BY <1>1, <1>2 DEF TimeoutBoundsLeft
  <1>4. TypeOK' BY <1>1, <1>2, SMT
  <1> QED BY <1>2, <1>3, <1>4, FrameKeepsInv

\* The invariant is inductive: one step per action.
LEMMA NextInv == ASSUME WheelAssumption, Inv, [Next]_vars PROVE Inv'
<1>1. ASSUME NEW i \in Ids, NEW d \in Delays, TimerAddInLoop(i, d) PROVE Inv'
  BY <1>1, AddKeepsInv
<1>2. ASSUME NEW i \in Ids, TimerRefreshInLoop(i) PROVE Inv'
  BY <1>2, RefreshKeepsInv
<1>3. ASSUME NEW i \in Ids, TimerCancelInLoop(i) PROVE Inv'
  BY <1>3, CancelKeepsInv
<1>4. CASE Expire
  BY <1>4, FrameKeepsInv DEF Expire, Inv, TypeOK, TimeoutBoundsLeft
<1>5. CASE OnTime
  BY <1>5, FrameKeepsInv DEF OnTime, Inv, TypeOK, TimeoutBoundsLeft
<1>6. CASE RunTimerTask
  BY <1>6, TickKeepsDeadlines
<1>7. ASSUME NEW t \in Tasks, DropReference(t) PROVE Inv'
  <2>1. ReferencesMatchDeadline' /\ RunningIsGone' /\ FiresOnDeadline'
    BY <1>7, LoseReference DEF DropReference
  <2> QED BY <1>7, <2>1 DEF DropReference, Inv, TypeOK, TimeoutBoundsLeft
<1>8. ASSUME NEW t \in Tasks, DestroyTask(t) PROVE Inv'
  <2>1. ReferencesMatchDeadline' /\ RunningIsGone' /\ FiresOnDeadline'
    BY <1>8, LoseReference DEF DestroyTask
  <2> QED BY <1>8, <2>1 DEF DestroyTask, Inv, TypeOK, TimeoutBoundsLeft
<1>9. ASSUME NEW t \in Tasks, DestroyCanceledTask(t) PROVE Inv'
  <2>1. ReferencesMatchDeadline' /\ RunningIsGone' /\ FiresOnDeadline'
    BY <1>9, LoseReference DEF DestroyCanceledTask
  <2> QED BY <1>9, <2>1 DEF DestroyCanceledTask, RemoveTimer, Inv, TypeOK,
             TimeoutBoundsLeft
<1>10. CASE CallbackReturns
  <2>1. RunningIsGone' /\ FiresOnDeadline'
    BY <1>10 DEF CallbackReturns, RunningIsGone, FiresOnDeadline
  <2>2. ReferencesMatchDeadline'
    BY <1>10 DEF CallbackReturns, Inv, ReferencesMatchDeadline, Alive, Pos, Distance
  <2> QED BY <1>10, <2>1, <2>2 DEF CallbackReturns, RemoveTimer, Inv, TypeOK,
             TimeoutBoundsLeft, WheelAssumption
<1>11. CASE UNCHANGED vars
  BY <1>11, FrameKeepsInv DEF vars, state, Inv, TypeOK, TimeoutBoundsLeft
<1> QED
  BY <1>1, <1>2, <1>3, <1>4, <1>5, <1>6, <1>7, <1>8, <1>9, <1>10, <1>11 DEF Next

\* So the invariant always holds.
LEMMA AlwaysInv == Spec => []Inv
<1>1. Init => Inv
  BY InitInv, WheelAssumption
<1>2. Inv /\ [Next]_vars => Inv'
  BY NextInv, WheelAssumption
<1> QED BY <1>1, <1>2, PTL DEF Spec

\* Every variable of the wheel keeps its type: the hand stays on the dial and
\* no task ever waits less than no time or more than a turn.
THEOREM TypeCorrect == Spec => []TypeOK
<1>1. Inv => TypeOK BY DEF Inv
<1> QED BY <1>1, AlwaysInv, PTL

\* The references of every task match its last deadline (TimerAddInLoop,
\* TimerRefreshInLoop, RunTimerTask).
THEOREM WheelKeepsTime == Spec => []ReferencesMatchDeadline
<1>1. Inv => ReferencesMatchDeadline BY DEF Inv
<1> QED BY <1>1, AlwaysInv, PTL

\* A callback runs when its time is up, neither before nor after.
THEOREM CallbacksAreOnTime == Spec => []FiresOnDeadline
<1>1. Inv => FiresOnDeadline BY DEF Inv
<1> QED BY <1>1, AlwaysInv, PTL

-----------------------------------------------------------------------------
(* Names: what _timers says about the tasks, with and without the calls a   *)
(* callback makes on its own id.                                            *)

\* Which tasks live on: a push keeps its task alive, the hand kills nobody,
\* and dropping a reference kills its task if it was the last one.
LEMMA PushLives ==
  ASSUME WheelAssumption, Inv, NEW t \in Tasks, NEW d \in 1 .. Capacity,
         wheel' = [wheel EXCEPT ![Pos(d)] = @ \cup {t}], dropping' = dropping
  PROVE  \A s \in Tasks : Alive(s)' <=> Alive(s) \/ s = t
<1>1. Pos(d) \in Slots
  BY PosDistance DEF Inv, TypeOK
<1>2. \A p \in Slots : wheel'[p] = IF p = Pos(d) THEN wheel[p] \cup {t} ELSE wheel[p]
  BY <1>1 DEF Inv, TypeOK
<1>3. ASSUME NEW s \in Tasks, s # t PROVE Alive(s)' <=> Alive(s)
  BY <1>2, <1>3 DEF Alive
<1>4. Alive(t)'
  BY <1>1, <1>2 DEF Alive
<1> QED BY <1>3, <1>4

LEMMA TickLives ==
  ASSUME WheelAssumption, Inv, RunTimerTask
  PROVE  \A s \in Tasks : Alive(s)' <=> Alive(s)
<1>1. NextSlot \in Slots
  BY HandMoves DEF RunTimerTask, Inv, TypeOK
<1>2. \A p \in Slots : wheel'[p] = IF p = NextSlot THEN {} ELSE wheel[p]
  BY <1>1 DEF RunTimerTask, Inv, TypeOK
<1> QED BY <1>1, <1>2 DEF RunTimerTask, Alive

LEMMA DropLives ==
  ASSUME NEW t \in Tasks, t \in dropping, dropping' = dropping \ {t}, UNCHANGED wheel
  PROVE  \A s \in Tasks : Alive(s)' <=> Alive(s) /\ (s # t \/ InWheel(t))
<1>1. Alive(t)' <=> InWheel(t)
  BY DEF Alive, InWheel
<1>2. \A s \in Tasks : s # t => (Alive(s)' <=> Alive(s))
  BY DEF Alive
<1>3. Alive(t)
  BY DEF Alive
<1> QED BY <1>1, <1>2, <1>3

\* A task is there while it has a reference, and then while its destructor runs.
Present(t) == Alive(t) \/ t = running

\* An entry always leads to a task of its own id that is there: no weak_ptr is
\* left behind by a task that has gone.
EntriesLeadToTasks ==
  \A i \in Ids : \A t \in Tasks : timers[i] = t => Present(t) /\ task[t].id = i
\* Unless callbacks add their own ids, the id of a task that is there leads to it ...
TasksAreNamed ==
  ~ Repeating => \A t \in Tasks : Present(t) => timers[task[t].id] = t
\* ... so a cancel has found the task, however often it was refreshed since.
CanceledIsFlagged ==
  ~ Repeating =>
    \A t \in Tasks : Alive(t) /\ task[t].id \in canceledId => task[t].canceled
Names == EntriesLeadToTasks /\ TasksAreNamed /\ CanceledIsFlagged

LEMMA InitNames == ASSUME WheelAssumption, Init PROVE Names
<1>1. \A p \in Slots : wheel[p] = {}
  BY DEF Init
<1>2. \A t \in Tasks : ~ Alive(t)
  BY <1>1 DEF Init, Alive
<1>3. \A i \in Ids : timers[i] = NoTask
  BY DEF Init
<1>5. EntriesLeadToTasks
  BY <1>3 DEF EntriesLeadToTasks, WheelAssumption
<1>4. ASSUME ~ Repeating, NEW t \in Tasks, Present(t) PROVE timers[task[t].id] = t
  <2>1. t = NoTask
    BY <1>2, <1>4 DEF Present, Init
  <2>2. task[t].id \in Ids
    BY DEF Init, TaskRecord
  <2> QED BY <1>3, <2>1, <2>2
<1> QED BY <1>2, <1>4, <1>5 DEF Names, TasksAreNamed, CanceledIsFlagged

\* What the lemmas about steps use of the types.
LEMMA TaskFields ==
  ASSUME Inv
  PROVE  /\ \A t \in Tasks : task[t].id \in Ids
         /\ \A i \in Ids : timers[i] \in Tasks \cup {NoTask}
BY DEF Inv, TypeOK, TaskRecord

\* A step after which the same tasks are there under the same ids.
LEMMA SameNames ==
  ASSUME Inv, Names, UNCHANGED <<timers, task, canceledId>>,
         \A s \in Tasks : Present(s)' <=> Present(s),
         \A s \in Tasks : Alive(s)' => Alive(s)
  PROVE  Names'
<1>1. EntriesLeadToTasks'
  BY DEF Names, EntriesLeadToTasks
<1>2. TasksAreNamed'
  BY DEF Names, TasksAreNamed
<1>3. CanceledIsFlagged'
  BY DEF Names, CanceledIsFlagged
<1> QED BY <1>1, <1>2, <1>3 DEF Names

\* A task goes, and takes the entry of its id with it.
LEMMA GoneNames ==
  ASSUME WheelAssumption, Inv, Names, NEW t \in Tasks, Present(t), ~ Present(t)',
         timers' = [timers EXCEPT ![task[t].id] = NoTask],
         UNCHANGED <<task, canceledId>>,
         \A s \in Tasks : s # t => (Present(s)' <=> Present(s)),
         \A s \in Tasks : Alive(s)' => Alive(s)
  PROVE  Names'
<1>1. /\ task[t].id \in Ids
      /\ \A i \in Ids : timers'[i] = IF i = task[t].id THEN NoTask ELSE timers[i]
  BY TaskFields DEF Inv, TypeOK
<1>2. EntriesLeadToTasks'
  <2> SUFFICES ASSUME NEW i \in Ids, NEW s \in Tasks, timers'[i] = s
               PROVE  Present(s)' /\ task'[s].id = i
    BY DEF EntriesLeadToTasks
  <2>1. i # task[t].id /\ timers[i] = s
    BY <1>1 DEF WheelAssumption
  <2>2. Present(s) /\ task[s].id = i /\ s # t
    BY <2>1 DEF Names, EntriesLeadToTasks
  <2> QED BY <2>2
<1>3. TasksAreNamed'
  <2> SUFFICES ASSUME ~ Repeating, NEW s \in Tasks, Present(s)' PROVE timers'[task'[s].id] = s
    BY DEF TasksAreNamed
  <2>1. s # t /\ Present(s)
    OBVIOUS
  <2>2. timers[task[s].id] = s /\ timers[task[t].id] = t
    BY <2>1 DEF Names, TasksAreNamed
  <2> QED BY <1>1, <2>1, <2>2, TaskFields
<1>4. CanceledIsFlagged'
  BY DEF Names, CanceledIsFlagged
<1> QED BY <1>2, <1>3, <1>4 DEF Names

\* TimerAddInLoop: the id leads to the new task, which nobody has cancelled.
LEMMA AddNames ==
  ASSUME WheelAssumption, Inv, Names, NEW i \in Ids, NEW d \in Delays, TimerAddInLoop(i, d)
  PROVE  Names'
<1>1. PICK t \in Tasks :
        /\ ~ Alive(t) /\ t # running
        /\ task' = [task EXCEPT ![t] = [id |-> i, timeout |-> d, canceled |-> FALSE]]
        /\ wheel' = [wheel EXCEPT ![Pos(d)] = @ \cup {t}]
        /\ timers' = [timers EXCEPT ![i] = t]
  BY DEF TimerAddInLoop
<1>2. UNCHANGED <<dropping, running>> /\ canceledId' = canceledId \ {i}
  BY DEF TimerAddInLoop
<1>3. d \in 1 .. Capacity
  BY DEF WheelAssumption
<1>4. \A s \in Tasks : Alive(s)' <=> Alive(s) \/ s = t
  BY <1>1, <1>2, <1>3, PushLives
<1>5. \A s \in Tasks : Present(s)' <=> Present(s) \/ s = t
  BY <1>2, <1>4 DEF Present
<1>6. /\ task'[t].id = i /\ task'[t].canceled = FALSE
      /\ \A s \in Tasks : s # t => task'[s] = task[s]
  BY <1>1 DEF Inv, TypeOK
<1>7. timers'[i] = t /\ \A j \in Ids : j # i => timers'[j] = timers[j]
  BY <1>1 DEF Inv, TypeOK
<1>8. ~ Present(t)
  BY <1>1 DEF Present
<1>9. EntriesLeadToTasks'
  <2> SUFFICES ASSUME NEW j \in Ids, NEW s \in Tasks, timers'[j] = s
               PROVE  Present(s)' /\ task'[s].id = j
    BY DEF EntriesLeadToTasks
  <2>1. CASE j = i
    BY <1>5, <1>6, <1>7, <2>1
  <2>2. CASE j # i
    <3>1. Present(s) /\ task[s].id = j
      BY <1>7, <2>2 DEF Names, EntriesLeadToTasks
    <3> QED BY <1>5, <1>6, <1>8, <3>1
  <2> QED BY <2>1, <2>2
<1>10. ASSUME ~ Repeating, NEW s \in Tasks, Present(s), s # t PROVE task[s].id # i
  <2>1. timers[i] = NoTask
    BY <1>10 DEF TimerAddInLoop
  <2>2. timers[task[s].id] = s
    BY <1>10 DEF Names, TasksAreNamed
  <2> QED BY <2>1, <2>2 DEF WheelAssumption
<1>11. TasksAreNamed'
  <2> SUFFICES ASSUME ~ Repeating, NEW s \in Tasks, Present(s)' PROVE timers'[task'[s].id] = s
    BY DEF TasksAreNamed
  <2>1. CASE s = t
    BY <1>6, <1>7, <2>1
  <2>2. CASE s # t
    <3>1. Present(s)
      BY <1>5, <2>2
    <3>2. timers[task[s].id] = s /\ task[s].id # i /\ task[s].id \in Ids
      BY <1>10, <2>2, <3>1, TaskFields DEF Names, TasksAreNamed
    <3> QED BY <1>6, <1>7, <2>2, <3>2
  <2> QED BY <2>1, <2>2
<1>12. CanceledIsFlagged'
  <2> SUFFICES ASSUME ~ Repeating, NEW s \in Tasks, Alive(s)', task'[s].id \in canceledId'
               PROVE  task'[s].canceled
    BY DEF CanceledIsFlagged
  <2>1. s # t
    BY <1>2, <1>6
  <2>2. Alive(s) /\ task'[s] = task[s] /\ task[s].id \in canceledId
    BY <1>2, <1>4, <1>6, <2>1
  <2> QED BY <2>2 DEF Names, CanceledIsFlagged
<1> QED BY <1>9, <1>11, <1>12 DEF Names

\* TimerRefreshInLoop: the same tasks under the same ids.
LEMMA RefreshNames ==
  ASSUME WheelAssumption, Inv, Names, NEW i \in Ids, TimerRefreshInLoop(i)
  PROVE  Names'
<1>1. PICK t \in Tasks : t = timers[i] /\ timers[i] # NoTask
  BY DEF TimerRefreshInLoop, Inv, TypeOK
<1>2. UNCHANGED <<dropping, running, timers, task, canceledId>>
  BY DEF TimerRefreshInLoop
<1>3. \A s \in Tasks : Alive(s)' <=> Alive(s)
  <2>1. CASE Alive(t)
    <3>1. PICK d \in 1 .. Capacity : d = task[t].timeout
      BY DEF WheelAssumption, TaskRecord, Inv, TypeOK
    <3>2. wheel' = [wheel EXCEPT ![Pos(d)] = @ \cup {t}]
      BY <1>1, <2>1, <3>1 DEF TimerRefreshInLoop
    <3>3. \A s \in Tasks : Alive(s)' <=> Alive(s) \/ s = t
      BY <1>2, <3>2, PushLives
    <3> QED BY <2>1, <3>3
  <2>2. CASE ~ Alive(t)
    <3>1. UNCHANGED wheel
      BY <1>1, <2>2 DEF TimerRefreshInLoop
    <3> QED BY <1>2, <3>1 DEF Alive
  <2> QED BY <2>1, <2>2
<1>4. \A s \in Tasks : Present(s)' <=> Present(s)
  BY <1>2, <1>3 DEF Present
<1> QED BY <1>2, <1>3, <1>4, SameNames

\* TimerCancelInLoop: the id leads to the only task that has to be flagged.
LEMMA CancelNames ==
  ASSUME WheelAssumption, Inv, Names, NEW i \in Ids, TimerCancelInLoop(i)
  PROVE  Names'
<1>1. UNCHANGED <<wheel, dropping, running, timers>> /\ canceledId' = canceledId \cup {i}
  BY DEF TimerCancelInLoop
<1>2. \A s \in Tasks : (Alive(s)' <=> Alive(s)) /\ (Present(s)' <=> Present(s))
  BY <1>1 DEF Alive, Present
<1>3. \A s \in Tasks : /\ task'[s].id = task[s].id
                       /\ task[s].canceled => task'[s].canceled
                       /\ Alive(s) /\ s = timers[i] => task'[s].canceled
  <2>1. CASE timers[i] # NoTask /\ Alive(timers[i])
    <3>1. PICK t \in Tasks : t = timers[i]
      BY <2>1, TaskFields
    <3>2. PICK r : r = [task[t] EXCEPT !.canceled = TRUE]
      OBVIOUS
    <3>3. task' = [task EXCEPT ![t] = r]
      BY <2>1, <3>1, <3>2, Zenon DEF TimerCancelInLoop
    <3>4. task[t] \in TaskRecord
      BY DEF Inv, TypeOK
    <3>5. r.id = task[t].id /\ r.canceled
      BY <3>2, <3>4 DEF TaskRecord
    <3>6. \A s \in Tasks : task'[s] = IF s = t THEN r ELSE task[s]
      BY <3>3 DEF Inv, TypeOK
    <3> QED BY <3>1, <3>5, <3>6
  <2>2. CASE ~ (timers[i] # NoTask /\ Alive(timers[i]))
    <3>1. task' = task
      BY <2>2, Zenon DEF TimerCancelInLoop
    <3>2. \A s \in Tasks : ~ (Alive(s) /\ s = timers[i])
      BY <2>2 DEF WheelAssumption
    <3> QED BY <3>1, <3>2
  <2> QED BY <2>1, <2>2
<1>4. EntriesLeadToTasks'
  BY <1>1, <1>2, <1>3 DEF Names, EntriesLeadToTasks
<1>5. TasksAreNamed'
  BY <1>1, <1>2, <1>3 DEF Names, TasksAreNamed
<1>6. CanceledIsFlagged'
  <2> SUFFICES ASSUME ~ Repeating, NEW s \in Tasks, Alive(s)', task'[s].id \in canceledId'
               PROVE  task'[s].canceled
    BY DEF CanceledIsFlagged
  <2>1. Alive(s) /\ task'[s].id = task[s].id
    BY <1>2, <1>3
  <2>2. CASE task[s].id = i
    <3>1. timers[i] = s
      BY <2>1, <2>2 DEF Names, TasksAreNamed, Present
    <3> QED BY <1>3, <2>1, <3>1
  <2>3. CASE task[s].id # i
    <3>1. task[s].id \in canceledId
      BY <1>1, <2>1, <2>3
    <3>2. task[s].canceled
      BY <2>1, <3>1 DEF Names, CanceledIsFlagged
    <3> QED BY <1>3, <3>2
  <2> QED BY <2>2, <2>3
<1> QED BY <1>4, <1>5, <1>6 DEF Names

\* Every step keeps the names.
LEMMA NextNames == ASSUME WheelAssumption, Inv, Names, [Next]_vars PROVE Names'
<1>1. ASSUME NEW i \in Ids, NEW d \in Delays, TimerAddInLoop(i, d) PROVE Names'
  BY <1>1, AddNames
<1>2. ASSUME NEW i \in Ids, TimerRefreshInLoop(i) PROVE Names'
  BY <1>2, RefreshNames
<1>3. ASSUME NEW i \in Ids, TimerCancelInLoop(i) PROVE Names'
  BY <1>3, CancelNames
<1>4. CASE Expire \/ OnTime \/ UNCHANGED vars
  <2>1. UNCHANGED <<wheel, dropping, running, timers, task, canceledId>>
    BY <1>4 DEF Expire, OnTime, vars, state
  <2>2. \A s \in Tasks : (Alive(s)' <=> Alive(s)) /\ (Present(s)' <=> Present(s))
    BY <2>1 DEF Alive, Present
  <2> QED BY <2>1, <2>2, SameNames
<1>5. CASE RunTimerTask
  <2>1. UNCHANGED <<running, timers, task, canceledId>>
    BY <1>5 DEF RunTimerTask
  <2>2. \A s \in Tasks : Alive(s)' <=> Alive(s)
    BY <1>5, TickLives
  <2>3. \A s \in Tasks : Present(s)' <=> Present(s)
    BY <2>1, <2>2 DEF Present
  <2> QED BY <2>1, <2>2, <2>3, SameNames
<1>6. ASSUME NEW t \in Tasks, DropReference(t) PROVE Names'
  <2>1. UNCHANGED <<running, timers, task, canceledId>>
    BY <1>6 DEF DropReference
  <2>2. \A s \in Tasks : Alive(s)' <=> Alive(s)
    BY <1>6, DropLives DEF DropReference
  <2>3. \A s \in Tasks : Present(s)' <=> Present(s)
    BY <2>1, <2>2 DEF Present
  <2> QED BY <2>1, <2>2, <2>3, SameNames
<1>7. ASSUME NEW t \in Tasks, DestroyTask(t) PROVE Names'
  <2>1. UNCHANGED <<timers, task, canceledId>> /\ running = NoTask /\ running' = t
    BY <1>7 DEF DestroyTask
  <2>2. \A s \in Tasks : Alive(s)' <=> Alive(s) /\ s # t
    BY <1>7, DropLives DEF DestroyTask
  <2>3. Alive(t)
    BY <1>7 DEF DestroyTask, Alive
  <2>4. \A s \in Tasks : Present(s)' <=> Present(s)
    BY <2>1, <2>2, <2>3 DEF Present, WheelAssumption
  <2> QED BY <2>1, <2>2, <2>4, SameNames
<1>8. ASSUME NEW t \in Tasks, DestroyCanceledTask(t) PROVE Names'
  <2>1. /\ UNCHANGED <<running, task, canceledId>> /\ running = NoTask
        /\ timers' = [timers EXCEPT ![task[t].id] = NoTask]
    BY <1>8 DEF DestroyCanceledTask, RemoveTimer
  <2>2. \A s \in Tasks : Alive(s)' <=> Alive(s) /\ s # t
    BY <1>8, DropLives DEF DestroyCanceledTask
  <2>3. Present(t) /\ ~ Present(t)'
    BY <1>8, <2>1, <2>2 DEF DestroyCanceledTask, Alive, Present, WheelAssumption
  <2>4. \A s \in Tasks : s # t => (Present(s)' <=> Present(s))
    BY <2>1, <2>2 DEF Present
  <2> QED BY <2>1, <2>2, <2>3, <2>4, GoneNames
<1>9. CASE CallbackReturns
  <2>1. PICK t \in Tasks : t = running /\ running # NoTask
    BY <1>9 DEF CallbackReturns, Inv, TypeOK
  <2>2. /\ UNCHANGED <<wheel, dropping, task, canceledId>> /\ running' = NoTask
        /\ timers' = [timers EXCEPT ![task[t].id] = NoTask]
    BY <1>9, <2>1 DEF CallbackReturns, RemoveTimer
  <2>3. \A s \in Tasks : Alive(s)' <=> Alive(s)
    BY <2>2 DEF Alive
  <2>4. Present(t) /\ ~ Present(t)'
    BY <2>1, <2>2, <2>3 DEF Present, Inv, RunningIsGone
  <2>5. \A s \in Tasks : s # t => (Present(s)' <=> Present(s))
    BY <2>1, <2>2, <2>3 DEF Present, WheelAssumption
  <2> QED BY <2>2, <2>3, <2>4, <2>5, GoneNames
<1> QED
  BY <1>1, <1>2, <1>3, <1>4, <1>5, <1>6, <1>7, <1>8, <1>9 DEF Next

LEMMA AlwaysNames == Spec => [](Inv /\ Names)
<1>1. Init => Names
  BY InitNames, WheelAssumption
<1>2. Inv /\ Names /\ [Next]_vars => Names'
  BY NextNames, WheelAssumption
<1> QED BY <1>1, <1>2, AlwaysInv, PTL DEF Spec

\* _timers and the wheel agree, for any number of ids and tasks, as long as no
\* callback adds its own id again: an id leads only to a task of its own that is
\* there, and every task that is there is led to (TimerAddInLoop, RemoveTimer).
THEOREM IdsNameTheirTasks == Spec => []IdNamesItsTask
<1>1. Inv /\ Names => IdNamesItsTask
  BY TaskFields DEF Names, EntriesLeadToTasks, TasksAreNamed, Present, IdNamesItsTask
<1> QED BY <1>1, AlwaysNames, PTL

\* "TimerCancel prevents callback" (test/server_test/eventlooptest.cpp), whatever
\* was refreshed, cancelled and added again in between: with the assumption the
\* code needs, that no callback adds its own id again.
THEOREM CanceledNeverCallsBack ==
  ASSUME ~ Repeating PROVE Spec => CancelPreventsCallback
<1>1. ASSUME Inv, Names, [Next]_vars, running' # running, running' # NoTask
      PROVE  task[running'].id \notin canceledId
  <2>1. ASSUME NEW t \in Tasks, DestroyTask(t) PROVE task[running'].id \notin canceledId
    <3>1. running' = t /\ Alive(t) /\ ~ task[t].canceled
      BY <2>1 DEF DestroyTask, Alive
    <3> QED BY <1>1, <3>1 DEF Names, CanceledIsFlagged
  <2>2. \A t \in Tasks : ~ (DropReference(t) \/ DestroyCanceledTask(t))
    BY <1>1 DEF DropReference, DestroyCanceledTask
  <2>3. \A i \in Ids : ~ (TimerRefreshInLoop(i) \/ TimerCancelInLoop(i))
    BY <1>1 DEF TimerRefreshInLoop, TimerCancelInLoop
  <2>4. \A i \in Ids, d \in Delays : ~ TimerAddInLoop(i, d)
    BY <1>1 DEF TimerAddInLoop
  <2>5. ~ (Expire \/ OnTime \/ RunTimerTask \/ CallbackReturns \/ UNCHANGED vars)
    BY <1>1 DEF Expire, OnTime, RunTimerTask, CallbackReturns, vars, state
  <2> QED BY <1>1, <2>1, <2>2, <2>3, <2>4, <2>5 DEF Next
<1>2. Inv /\ Names /\ [Next]_vars
        => [running' # running /\ running' # NoTask
              => task[running'].id \notin canceledId]_vars
  BY <1>1
<1> QED BY <1>2, AlwaysNames, PTL DEF Spec, CancelPreventsCallback

\* If callbacks are careful, the wheel never follows the null pointer of a task
\* that is being destroyed and never changes the slot it is clearing: an entry
\* without a task would be one (TimerRefreshInLoop), and there are none, even
\* when callbacks add their own ids again.
THEOREM CarefulIsDefined ==
  ASSUME CarefulCallbacks PROVE Spec => []NoUndefinedBehaviour
<1> USE DEF NoUndefinedBehaviour
<1>1. Init => ~ undefined
  BY DEF Init
<1>2. ASSUME Inv, Names, ~ undefined, [Next]_vars PROVE ~ undefined'
  <2>1. ASSUME NEW i \in Ids, NEW d \in Delays, TimerAddInLoop(i, d) PROVE ~ undefined'
    BY <1>2, <2>1, Zenon DEF TimerAddInLoop
  <2>2. ASSUME NEW i \in Ids, TimerRefreshInLoop(i) PROVE ~ undefined'
    <3>1. timers[i] # NoTask /\ timers[i] # running
      BY <1>2, <2>2 DEF TimerRefreshInLoop
    <3>2. Alive(timers[i])
      BY <1>2, <3>1, TaskFields DEF Names, EntriesLeadToTasks, Present
    <3> QED BY <1>2, <2>2, <3>2, Zenon DEF TimerRefreshInLoop
  <2>3. ASSUME NEW i \in Ids, TimerCancelInLoop(i) PROVE ~ undefined'
    BY <1>2, <2>3 DEF TimerCancelInLoop
  <2>4. ASSUME NEW t \in Tasks, DropReference(t) \/ DestroyTask(t) \/ DestroyCanceledTask(t)
        PROVE  ~ undefined'
    BY <1>2, <2>4 DEF DropReference, DestroyTask, DestroyCanceledTask
  <2>5. CASE Expire \/ OnTime \/ RunTimerTask \/ CallbackReturns \/ UNCHANGED vars
    BY <1>2, <2>5 DEF Expire, OnTime, RunTimerTask, CallbackReturns, vars, state
  <2> QED BY <1>2, <2>1, <2>2, <2>3, <2>4, <2>5 DEF Next
<1>3. Inv /\ Names /\ ~ undefined /\ [Next]_vars => ~ undefined'
  BY <1>2
<1> QED BY <1>1, <1>3, AlwaysNames, PTL DEF Spec

-----------------------------------------------------------------------------
(* Refinement: the wheel is a timer service.                                *)

Pending == {t \in Tasks : Alive(t)}
AbstractVars == <<Pending, left, task, timers, running>>

\* Steps that neither create nor destroy tasks.
LEMMA SamePending ==
  ASSUME \A t \in Tasks : Alive(t)' <=> Alive(t)
  PROVE  Pending' = Pending
  BY DEF Pending

\* Destroying a task takes exactly it out of the pending ones.
LEMMA DestroyRemoves ==
  ASSUME NEW t \in Tasks, t \in dropping, ~ InWheel(t), dropping' = dropping \ {t},
         UNCHANGED wheel
  PROVE  Pending' = Pending \ {t}
  <1>1. ~ Alive(t)' BY DEF Alive, InWheel
  <1>2. \A s \in Tasks \ {t} : Alive(s)' <=> Alive(s) BY DEF Alive
  <1> QED BY <1>1, <1>2 DEF Pending

\* The empty wheel is an empty timer service.
LEMMA InitRefines == ASSUME Init PROVE Abstract!Init
  <1>1. \A p \in Slots : wheel[p] = {} BY DEF Init
  <1>2. \A t \in Tasks : ~ Alive(t) BY <1>1 DEF Init, Alive
  <1> QED BY <1>2 DEF Init, Abstract!Init, TaskRecord, Abstract!TaskRecord

\* Every step of the wheel is a step of the service or a stutter of it.
LEMMA StepRefines ==
  ASSUME WheelAssumption, Inv, [Next]_vars
  PROVE  Abstract!Next \/ UNCHANGED AbstractVars
<1> USE DEF Inv, TypeOK
<1>1. ASSUME NEW i \in Ids, NEW d \in Delays, TimerAddInLoop(i, d)
      PROVE  Abstract!Add(i, d)
  <2>1. PICK t \in Tasks :
          /\ ~ Alive(t) /\ t # running
          /\ task' = [task EXCEPT ![t] = [id |-> i, timeout |-> d, canceled |-> FALSE]]
          /\ wheel' = [wheel EXCEPT ![Pos(d)] = @ \cup {t}]
          /\ timers' = [timers EXCEPT ![i] = t]
          /\ left' = [left EXCEPT ![t] = d]
    BY <1>1 DEF TimerAddInLoop
  <2>2. UNCHANGED <<dropping, running>> BY <1>1 DEF TimerAddInLoop
  <2>3. Pos(d) \in Slots BY PosDistance DEF WheelAssumption
  <2>4. \A p \in Slots : wheel'[p] = IF p = Pos(d) THEN wheel[p] \cup {t} ELSE wheel[p]
    BY <2>1, <2>3
  <2>5. Alive(t)' BY <2>3, <2>4 DEF Alive
  <2>6. \A s \in Tasks \ {t} : Alive(s)' <=> Alive(s) BY <2>2, <2>4 DEF Alive
  <2>7. Pending' = Pending \cup {t} BY <2>5, <2>6 DEF Pending
  <2>8. t \in Tasks \ (Pending \cup {running}) BY <2>1 DEF Pending
  <2> QED BY <2>1, <2>2, <2>7, <2>8 DEF Abstract!Add, Pending
<1>2. ASSUME NEW i \in Ids, TimerRefreshInLoop(i)
      PROVE  Abstract!Refresh(i) \/ UNCHANGED AbstractVars
  <2>1. PICK t \in Tasks : t = timers[i] BY <1>2 DEF TimerRefreshInLoop
  <2>2. UNCHANGED <<task, timers, running, dropping>> BY <1>2 DEF TimerRefreshInLoop
  <2>3. CASE Alive(t)
    <3>1. PICK d \in Delays : d = task[t].timeout BY <2>1 DEF TaskRecord
    <3>2. /\ wheel' = [wheel EXCEPT ![Pos(d)] = @ \cup {t}]
          /\ left' = [left EXCEPT ![t] = d]
      BY <1>2, <2>1, <2>3, <3>1 DEF TimerRefreshInLoop
    <3>3. Pos(d) \in Slots BY PosDistance DEF WheelAssumption
    <3>4. \A p \in Slots : wheel'[p] = IF p = Pos(d) THEN wheel[p] \cup {t} ELSE wheel[p]
      BY <3>2, <3>3
    <3>5. \A s \in Tasks : Alive(s)' <=> Alive(s)
      <4>1. ASSUME NEW s \in Tasks \ {t} PROVE Alive(s)' <=> Alive(s)
        BY <2>2, <3>4 DEF Alive
      <4>2. Alive(t)' BY <3>3, <3>4 DEF Alive
      <4> QED BY <2>3, <4>1, <4>2
    <3>6. Pending' = Pending BY <3>5, SamePending
    <3>7. t \in Pending BY <2>3 DEF Pending
    <3> QED BY <2>1, <2>2, <3>1, <3>2, <3>6, <3>7 DEF Abstract!Refresh, Pending
  <2>4. CASE ~ Alive(t)
    <3>1. UNCHANGED <<wheel, left>> BY <1>2, <2>1, <2>4 DEF TimerRefreshInLoop
    <3>2. \A s \in Tasks : Alive(s)' <=> Alive(s) BY <2>2, <3>1 DEF Alive
    <3> QED BY <2>2, <3>1, <3>2, SamePending DEF AbstractVars
  <2> QED BY <2>3, <2>4
<1>3. ASSUME NEW i \in Ids, TimerCancelInLoop(i)
      PROVE  Abstract!Cancel(i) \/ UNCHANGED AbstractVars
  <2>1. UNCHANGED <<wheel, timers, dropping, running, left>>
    BY <1>3 DEF TimerCancelInLoop
  <2>2. \A s \in Tasks : Alive(s)' <=> Alive(s) BY <2>1 DEF Alive
  <2>3. Pending' = Pending BY <2>2, SamePending
  <2>4. CASE timers[i] # NoTask /\ Alive(timers[i])
    <3>1. timers[i] \in Pending BY <2>4 DEF Pending
    <3>2. task' = [task EXCEPT ![timers[i]].canceled = TRUE]
      BY <1>3, <2>4, Zenon DEF TimerCancelInLoop
    <3> QED BY <2>1, <2>3, <3>1, <3>2, Zenon DEF Abstract!Cancel, Pending
  <2>5. CASE ~ (timers[i] # NoTask /\ Alive(timers[i]))
    <3>1. task' = task BY <1>3, <2>5, Zenon DEF TimerCancelInLoop
    <3> QED BY <2>1, <2>3, <3>1 DEF AbstractVars
  <2> QED BY <2>4, <2>5
<1>4. CASE Expire
  <2>1. \A s \in Tasks : Alive(s)' <=> Alive(s) BY <1>4 DEF Expire, Alive
  <2> QED BY <1>4, <2>1, SamePending DEF Expire, AbstractVars
<1>5. CASE OnTime
  <2>1. \A s \in Tasks : Alive(s)' <=> Alive(s) BY <1>5 DEF OnTime, Alive
  <2> QED BY <1>5, <2>1, SamePending DEF OnTime, AbstractVars
<1>6. CASE RunTimerTask
  <2>1. NextSlot \in Slots BY HandMoves, <1>6 DEF RunTimerTask
  <2>2. \A p \in Slots : wheel'[p] = IF p = NextSlot THEN {} ELSE wheel[p]
    BY <1>6, <2>1 DEF RunTimerTask
  <2>3. dropping = {} /\ dropping' = wheel[NextSlot] BY <1>6 DEF RunTimerTask
  <2>4. \A s \in Tasks : Alive(s)' <=> Alive(s) BY <2>1, <2>2, <2>3 DEF Alive
  <2>5. Pending' = Pending BY <2>4, SamePending
  <2>6. \A s \in Tasks : Alive(s) => left[s] # 0
    BY <2>3, DueIsDropping
  <2>7. \A s \in Pending : left[s] > 0
    BY <2>6 DEF Pending, WheelAssumption
  <2>8. left' = [s \in Tasks |-> IF s \in Pending THEN left[s] - 1 ELSE left[s]]
    BY <1>6 DEF RunTimerTask, Pending
  <2>9. UNCHANGED <<task, timers, running>> /\ running = NoTask
    BY <1>6 DEF RunTimerTask
  <2> QED BY <2>5, <2>7, <2>8, <2>9 DEF Abstract!Tick, Abstract!Next, Pending
<1>7. ASSUME NEW t \in Tasks, DropReference(t) PROVE UNCHANGED AbstractVars
  <2>1. \A s \in Tasks : Alive(s)' <=> Alive(s)
    BY <1>7 DEF DropReference, Alive, InWheel
  <2> QED BY <1>7, <2>1, SamePending DEF DropReference, AbstractVars
<1>8. ASSUME NEW t \in Tasks, DestroyTask(t) PROVE Abstract!Fire(t)
  <2>1. Pending' = Pending \ {t} BY <1>8, DestroyRemoves DEF DestroyTask
  <2>2. Alive(t) BY <1>8 DEF DestroyTask, Alive
  <2>3. left[t] = 0 BY <1>8, <2>2, DueIsDropping DEF DestroyTask
  <2> QED BY <1>8, <2>1, <2>2, <2>3
          DEF DestroyTask, Abstract!Fire, Abstract!Due, Pending
<1>9. ASSUME NEW t \in Tasks, DestroyCanceledTask(t) PROVE Abstract!Discard(t)
  <2>1. Pending' = Pending \ {t} BY <1>9, DestroyRemoves DEF DestroyCanceledTask
  <2>2. Alive(t) BY <1>9 DEF DestroyCanceledTask, Alive
  <2>3. left[t] = 0 BY <1>9, <2>2, DueIsDropping DEF DestroyCanceledTask
  <2> QED BY <1>9, <2>1, <2>2, <2>3
          DEF DestroyCanceledTask, RemoveTimer, Abstract!Discard, Abstract!Due, Pending
<1>10. CASE CallbackReturns
  <2>1. running \in Tasks BY <1>10 DEF CallbackReturns
  <2>2. \A s \in Tasks : Alive(s)' <=> Alive(s) BY <1>10 DEF CallbackReturns, Alive
  <2> QED BY <1>10, <2>1, <2>2, SamePending
          DEF CallbackReturns, RemoveTimer, Abstract!Finish, Abstract!Next, Pending
<1>11. CASE UNCHANGED vars
  <2>1. \A s \in Tasks : Alive(s)' <=> Alive(s) BY <1>11 DEF vars, state, Alive
  <2> QED BY <1>11, <2>1, SamePending DEF vars, state, AbstractVars
<1> QED
  BY <1>1, <1>2, <1>3, <1>4, <1>5, <1>6, <1>7, <1>8, <1>9, <1>10, <1>11
  DEF Next, Abstract!Next

\* The dial with its piled-up references implements the timer service: every
\* step of the wheel is a step of Timers.tla, or one nobody sees.
THEOREM WheelImplementsTimers == Spec => ImplementsTimers
<1>1. Init => Abstract!Init BY InitRefines
<1>2. Inv /\ [Next]_vars => [Abstract!Next]_(Abstract!vars)
  BY StepRefines, WheelAssumption DEF Abstract!vars, AbstractVars, Pending
<1> QED BY <1>1, <1>2, AlwaysInv, PTL DEF Spec, ImplementsTimers, Abstract!Spec
=============================================================================
