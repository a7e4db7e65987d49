---------------------------- MODULE ServerProofs ----------------------------
(***************************************************************************)
(* What holds of Server for every size of the pool, any number of          *)
(* connections and descriptors, and however often the user calls.          *)
(***************************************************************************)
EXTENDS Server, WellFoundedInduction, TLAPS

-----------------------------------------------------------------------------
(* The threads of the pool.                                                 *)

\* The threads up to index have published their loops; the mutex has one owner.
PoolInv ==
  /\ thread \in [1 .. PoolSize ->
                   {"none", "started", "made", "locked", "published", "looping"}]
  /\ main \in {"creating", "locked", "asleep", "woken", "started"}
  /\ index \in 1 .. PoolSize + 1
  /\ loops \in [1 .. PoolSize -> 0 .. PoolSize]
  /\ \A t \in 1 .. PoolSize :
       IF t < index THEN loops[t] = t /\ thread[t] \in {"published", "looping"}
                    ELSE loops[t] = 0
  /\ main \in {"locked", "asleep", "woken"} => index <= PoolSize
  /\ main = "locked" => thread[index] # "locked"
  /\ main = "asleep" => thread[index] \notin {"published", "looping"}
  /\ main = "started" => index = PoolSize + 1

\* One case per step of the main thread and of a thread of the pool.
LEMMA PoolStep == PoolInv /\ [Pool!Next]_startup => PoolInv'
<1> SUFFICES ASSUME PoolInv, [Pool!Next]_startup PROVE PoolInv'
  OBVIOUS
<1> USE TcpServerAssumption DEF PoolInv, Pool!Published, Pool!MutexIsFree, Pool!Threads
<1>1. CASE Pool!CreateThread
  BY <1>1 DEF Pool!CreateThread
<1>2. CASE Pool!Lock
  BY <1>2 DEF Pool!Lock
<1>3. CASE Pool!GetEventLoop
  BY <1>3 DEF Pool!GetEventLoop
<1>4. CASE Pool!Wait
  BY <1>4 DEF Pool!Wait
<1>5. CASE Pool!SpuriousWakeup
  BY <1>5 DEF Pool!SpuriousWakeup
<1>6. CASE Pool!StartBaseLoop
  BY <1>6 DEF Pool!StartBaseLoop
<1>7. ASSUME NEW t \in 1 .. PoolSize, Pool!MakeLoop(t) \/ Pool!LockLoop(t) PROVE PoolInv'
  <2>1. CASE Pool!MakeLoop(t)
    BY <2>1 DEF Pool!MakeLoop
  <2>2. CASE Pool!LockLoop(t)
    BY <2>2 DEF Pool!LockLoop
  <2> QED BY <1>7, <2>1, <2>2
<1>8. ASSUME NEW t \in 1 .. PoolSize, Pool!Publish(t) \/ Pool!StartLoop(t) PROVE PoolInv'
  BY <1>8 DEF Pool!Publish, Pool!StartLoop
<1>9. CASE UNCHANGED startup
  BY <1>9 DEF startup
<1> QED
  BY <1>1, <1>2, <1>3, <1>4, <1>5, <1>6, <1>7, <1>8, <1>9
  DEF Pool!Next, Pool!Main, Pool!Pool

\* The server accepts only when the loop of every thread is there, and never
\* sleeps on one that has been published (LoopThread::GetEventLoop, ThreadEntry).
THEOREM LoopsAreAlwaysThere == ServerSpec => []LoopsAreThere
<1>1. ServerInit => PoolInv
  BY TcpServerAssumption DEF ServerInit, Pool!Init, PoolInv, Pool!Threads, Pool!Null
<1>2. PoolInv /\ [ServerNext]_serverVars => PoolInv'
  BY PoolStep DEF ServerNext, StartsUp, Serves, serverVars
<1>3. PoolInv => LoopsAreThere
  BY TcpServerAssumption
  DEF PoolInv, LoopsAreThere, Pool!LoopsAreThere, Pool!NoSleepOnALoop, Pool!Published,
      Pool!Threads, Pool!Null
<1> QED BY <1>1, <1>2, <1>3, PTL DEF ServerSpec

-----------------------------------------------------------------------------
(* Queues.  Loop l has two, f[l] that is run and t[l] that comes after it.  *)

AllOps == Ops \cup {"Remove", "RunAfter"}
Tasks == [op : AllOps, conn : Conns \cup {Nobody}]

Has(q, e) == \E k \in 1 .. Len(q) : q[k] = e
Once(q, e) == \A j, k \in 1 .. Len(q) : q[j] = e /\ q[k] = e => j = k

\* A task is in one of the two, and there once.
Waits(f, t, l, e) == Has(f[l], e) \/ Has(t[l], e)
Single(f, t, l, e) == Once(f[l], e) /\ Once(t[l], e) /\ ~ (Has(f[l], e) /\ Has(t[l], e))

LEMMA HasAppend ==
  ASSUME NEW q \in Seq(Tasks), NEW a \in Tasks, NEW e
  PROVE  /\ Has(Append(q, a), e) <=> Has(q, e) \/ a = e
         /\ Once(q, e) /\ (a = e => ~ Has(q, e)) => Once(Append(q, a), e)
<1>1. /\ Len(Append(q, a)) = Len(q) + 1
      /\ Append(q, a)[Len(q) + 1] = a
      /\ \A k \in 1 .. Len(q) : Append(q, a)[k] = q[k]
  OBVIOUS
<1>2. Len(q) \in Nat
  OBVIOUS
<1> QED BY <1>1, <1>2 DEF Has, Once

LEMMA HasTail ==
  ASSUME NEW q \in Seq(Tasks), q # <<>>, NEW e
  PROVE  /\ Tail(q) \in Seq(Tasks)
         /\ Has(q, e) <=> Has(Tail(q), e) \/ Head(q) = e
         /\ Once(q, e) => Once(Tail(q), e) /\ (Head(q) = e => ~ Has(Tail(q), e))
<1>1. /\ Tail(q) \in Seq(Tasks) /\ Len(q) \in Nat \ {0} /\ Len(Tail(q)) = Len(q) - 1
      /\ Head(q) = q[1]
      /\ \A k \in 1 .. Len(q) - 1 : Tail(q)[k] = q[k + 1]
  OBVIOUS
<1>2. \A k \in 1 .. Len(q) : k = 1 \/ (k - 1 \in 1 .. Len(Tail(q)) /\ Tail(q)[k - 1] = q[k])
  BY <1>1
<1>3. \A k \in 1 .. Len(Tail(q)) : k + 1 \in 1 .. Len(q) /\ q[k + 1] = Tail(q)[k] /\ k + 1 # 1
  BY <1>1
<1>4. 1 \in 1 .. Len(q)
  BY <1>1
<1>5. Has(q, e) <=> Has(Tail(q), e) \/ Head(q) = e
  BY <1>1, <1>2, <1>3, <1>4 DEF Has
<1>6. ASSUME Once(q, e) PROVE Once(Tail(q), e)
  BY <1>1, <1>3, <1>6 DEF Once
<1>7. ASSUME Once(q, e), Head(q) = e PROVE ~ Has(Tail(q), e)
  BY <1>1, <1>3, <1>4, <1>7 DEF Once, Has
<1> QED BY <1>1, <1>5, <1>6, <1>7

\* n releases of one connection behind the others.
LEMMA HasConcat ==
  ASSUME NEW q \in Seq(Tasks), NEW a \in Tasks, NEW n \in Nat, NEW e
  PROVE  LET r == q \o [k \in 1 .. n |-> a]
         IN /\ r \in Seq(Tasks)
            /\ Has(r, e) <=> Has(q, e) \/ (n > 0 /\ a = e)
            /\ Once(q, e) /\ (a = e => n = 0 \/ (n = 1 /\ ~ Has(q, e))) => Once(r, e)
<1> DEFINE s == [k \in 1 .. n |-> a]
           r == q \o s
<1>1. s \in Seq(Tasks) /\ Len(s) = n
  OBVIOUS
<1>2. /\ r \in Seq(Tasks) /\ Len(r) = Len(q) + n
      /\ \A k \in 1 .. Len(r) : r[k] = IF k <= Len(q) THEN q[k] ELSE s[k - Len(q)]
  BY <1>1
<1>3. Len(q) \in Nat
  OBVIOUS
<1>4. \A k \in 1 .. Len(q) : k \in 1 .. Len(r) /\ r[k] = q[k]
  BY <1>2, <1>3
<1>5. \A k \in 1 .. Len(r) : k \in 1 .. Len(q) \/ (r[k] = a /\ n > 0 /\ k > Len(q) /\ k <= Len(q) + n)
  BY <1>1, <1>2, <1>3
<1>6. n > 0 => Len(q) + 1 \in 1 .. Len(r) /\ r[Len(q) + 1] = a
  BY <1>1, <1>2, <1>3
<1> HIDE DEF r, s
<1>7. Has(r, e) <=> Has(q, e) \/ (n > 0 /\ a = e)
  BY <1>4, <1>5, <1>6 DEF Has
<1>8. ASSUME Once(q, e), a = e => n = 0 \/ (n = 1 /\ ~ Has(q, e)) PROVE Once(r, e)
  BY <1>3, <1>4, <1>5, <1>8 DEF Once, Has
<1> QED BY <1>2, <1>7, <1>8 DEF r, s

Queues == [Loops -> Seq(Tasks)]

\* PushQueueInLoop adds one task to one loop.
LEMMA Posting ==
  ASSUME NEW f \in Queues, NEW t \in Queues, NEW m \in Loops,
         NEW op \in AllOps, NEW c \in Conns \cup {Nobody}
  PROVE  /\ Post(t, m, op, c) \in Queues
         /\ \A l \in Loops, e \in Tasks :
              /\ Waits(f, Post(t, m, op, c), l, e)
                   <=> Waits(f, t, l, e) \/ (l = m /\ e = Task(op, c))
              /\ Single(f, t, l, e) /\ (l = m /\ e = Task(op, c) => ~ Waits(f, t, l, e))
                   => Single(f, Post(t, m, op, c), l, e)
<1> DEFINE a == Task(op, c)
           t2 == Post(t, m, op, c)
<1>1. a \in Tasks /\ t[m] \in Seq(Tasks)
  BY DEF Task, Tasks, Queues
<1>2. /\ t2 \in Queues /\ t2[m] = Append(t[m], a)
      /\ \A l \in Loops \ {m} : t2[l] = t[l]
  BY <1>1 DEF Post, Queues
<1> HIDE DEF a, t2
<1> SUFFICES ASSUME NEW l \in Loops, NEW e \in Tasks
    PROVE  /\ Waits(f, t2, l, e) <=> Waits(f, t, l, e) \/ (l = m /\ e = a)
           /\ Single(f, t, l, e) /\ (l = m /\ e = a => ~ Waits(f, t, l, e))
                => Single(f, t2, l, e)
  BY <1>2 DEF a, t2
<1>4. CASE l = m
  <2>1. /\ Has(t2[m], e) <=> Has(t[m], e) \/ a = e
        /\ Once(t[m], e) /\ (a = e => ~ Has(t[m], e)) => Once(t2[m], e)
    BY <1>1, <1>2, HasAppend
  <2> QED BY <1>4, <2>1 DEF Waits, Single
<1>5. CASE l # m
  BY <1>2, <1>5 DEF Waits, Single
<1> QED BY <1>4, <1>5

\* A loop takes the first task of its batch.
LEMMA Taking ==
  ASSUME NEW f \in Queues, NEW t \in Queues, NEW m \in Loops, f[m] # <<>>
  PROVE  LET f2 == [f EXCEPT ![m] = Tail(@)]
         IN /\ f2 \in Queues
            /\ Waits(f, t, m, Head(f[m]))
            /\ \A l \in Loops, e \in Tasks :
                 /\ Waits(f2, t, l, e) => Waits(f, t, l, e)
                 /\ ~ (l = m /\ e = Head(f[m])) /\ Waits(f, t, l, e) => Waits(f2, t, l, e)
                 /\ Single(f, t, l, e) => Single(f2, t, l, e)
                 /\ Single(f, t, l, e) /\ l = m /\ e = Head(f[m]) => ~ Waits(f2, t, l, e)
<1> DEFINE f2 == [f EXCEPT ![m] = Tail(@)]
<1>1. f[m] \in Seq(Tasks)
  BY DEF Queues
<1>2. /\ f2 \in Queues /\ f2[m] = Tail(f[m]) /\ \A l \in Loops \ {m} : f2[l] = f[l]
  BY <1>1, HasTail DEF Queues
<1>3. Waits(f, t, m, Head(f[m]))
  BY <1>1, HasTail DEF Waits
<1> SUFFICES ASSUME NEW l \in Loops, NEW e \in Tasks
    PROVE  /\ Waits(f2, t, l, e) => Waits(f, t, l, e)
           /\ ~ (l = m /\ e = Head(f[m])) /\ Waits(f, t, l, e) => Waits(f2, t, l, e)
           /\ Single(f, t, l, e) => Single(f2, t, l, e)
           /\ Single(f, t, l, e) /\ l = m /\ e = Head(f[m]) => ~ Waits(f2, t, l, e)
  BY <1>2, <1>3
<1> HIDE DEF f2
<1>4. CASE l = m
  BY <1>1, <1>2, <1>4, HasTail DEF Waits, Single
<1>5. CASE l # m
  BY <1>2, <1>5 DEF Waits, Single
<1> QED BY <1>4, <1>5

\* RunAllTask swaps the two.
LEMMA Swapping ==
  ASSUME NEW f \in Queues, NEW t \in Queues, NEW m \in Loops, f[m] = <<>>
  PROVE  LET f2 == [f EXCEPT ![m] = t[m]]
             t2 == [t EXCEPT ![m] = <<>>]
         IN /\ f2 \in Queues /\ t2 \in Queues
            /\ \A l \in Loops, e \in Tasks :
                 /\ Waits(f2, t2, l, e) <=> Waits(f, t, l, e)
                 /\ Single(f, t, l, e) => Single(f2, t2, l, e)
<1> DEFINE f2 == [f EXCEPT ![m] = t[m]]
           t2 == [t EXCEPT ![m] = <<>>]
<1>1. /\ f2 \in Queues /\ t2 \in Queues /\ f2[m] = t[m] /\ t2[m] = <<>>
      /\ \A l \in Loops \ {m} : f2[l] = f[l] /\ t2[l] = t[l]
  BY DEF Queues
<1>2. \A e : ~ Has(<<>>, e) /\ Once(<<>>, e)
  BY DEF Has, Once
<1> HIDE DEF f2, t2
<1> SUFFICES ASSUME NEW l \in Loops, NEW e \in Tasks
    PROVE  /\ Waits(f2, t2, l, e) <=> Waits(f, t, l, e)
           /\ Single(f, t, l, e) => Single(f2, t2, l, e)
  BY <1>1 DEF f2, t2
<1>3. CASE l = m
  BY <1>1, <1>2, <1>3 DEF Waits, Single
<1>4. CASE l # m
  BY <1>1, <1>4 DEF Waits, Single
<1> QED BY <1>3, <1>4

\* n releases of a connection are posted.
LEMMA Releasing ==
  ASSUME NEW f \in Queues, NEW t \in Queues, NEW m \in Loops, NEW c \in Conns, NEW n \in Nat
  PROVE  /\ PostReleases(t, m, c, n) \in Queues
         /\ \A l \in Loops, e \in Tasks :
              /\ Waits(f, PostReleases(t, m, c, n), l, e)
                   <=> Waits(f, t, l, e) \/ (l = m /\ e = Task("Release", c) /\ n > 0)
              /\ /\ Single(f, t, l, e)
                 /\ l = m /\ e = Task("Release", c) => n = 0 \/ (n = 1 /\ ~ Waits(f, t, l, e))
                 => Single(f, PostReleases(t, m, c, n), l, e)
<1> DEFINE a == Task("Release", c)
           r == t[m] \o [k \in 1 .. n |-> a]
           t2 == PostReleases(t, m, c, n)
<1>0. t2 = [t EXCEPT ![m] = r]
  BY DEF PostReleases
<1>1. a \in Tasks /\ t[m] \in Seq(Tasks)
  BY DEF Task, Tasks, Queues, AllOps, Ops, Calls
<1>2. /\ r \in Seq(Tasks)
      /\ \A e : /\ Has(r, e) <=> Has(t[m], e) \/ (n > 0 /\ a = e)
                /\ Once(t[m], e) /\ (a = e => n = 0 \/ (n = 1 /\ ~ Has(t[m], e))) => Once(r, e)
  BY <1>1, HasConcat
<1> HIDE DEF a, r, t2
<1>3. t2 \in Queues /\ t2[m] = r /\ \A l \in Loops \ {m} : t2[l] = t[l]
  BY <1>0, <1>2 DEF Queues
<1> SUFFICES ASSUME NEW l \in Loops, NEW e \in Tasks
    PROVE  /\ Waits(f, t2, l, e) <=> Waits(f, t, l, e) \/ (l = m /\ e = a /\ n > 0)
           /\ /\ Single(f, t, l, e)
              /\ l = m /\ e = a => n = 0 \/ (n = 1 /\ ~ Waits(f, t, l, e))
              => Single(f, t2, l, e)
  BY <1>3 DEF a, t2
<1>4. CASE l = m
  BY <1>2, <1>3, <1>4 DEF Waits, Single
<1>5. CASE l # m
  BY <1>3, <1>5 DEF Waits, Single
<1> QED BY <1>4, <1>5
-----------------------------------------------------------------------------
(* Tasks by what they do, and for whom.                                     *)

On(f, t, l, op, c) == Waits(f, t, l, Task(op, c))
One(f, t, l, op, c) == Single(f, t, l, Task(op, c))

\* Between queues <<f, t>> and <<f2, t2>>: tasks went, and n tasks came, which do
\* op for c on loop m.
Gains(f, t, f2, t2, m, op, c, n) ==
  \A l \in Loops, q \in AllOps, d \in Conns :
    /\ On(f2, t2, l, q, d) => On(f, t, l, q, d) \/ (n > 0 /\ l = m /\ q = op /\ d = c)
    /\ /\ One(f, t, l, q, d)
       /\ l = m /\ q = op /\ d = c => n = 0 \/ (n = 1 /\ ~ On(f, t, l, q, d))
       => One(f2, t2, l, q, d)
Keeps(f, t, f2, t2) ==
  \A l \in Loops, q \in AllOps, d \in Conns :
    /\ On(f2, t2, l, q, d) => On(f, t, l, q, d)
    /\ One(f, t, l, q, d) => One(f2, t2, l, q, d)

LEMMA TaskFacts ==
  /\ \A op, q, c, d : Task(op, c) = Task(q, d) <=> op = q /\ c = d
  /\ \A op \in AllOps, c \in Conns \cup {Nobody} : Task(op, c) \in Tasks
  BY DEF Task, Tasks

LEMMA OpFacts == /\ \A op \in Ops : op \in AllOps
                 /\ {"Established", "Send", "Shutdown", "Release", "Enable", "Cancel",
                     "Remove", "RunAfter"} \subseteq AllOps
  BY DEF AllOps, Ops, Calls

LEMMA PostGains ==
  ASSUME NEW f \in Queues, NEW t \in Queues, NEW m \in Loops, NEW op \in AllOps,
         NEW c \in Conns \cup {Nobody}
  PROVE  /\ Post(t, m, op, c) \in Queues
         /\ Gains(f, t, f, Post(t, m, op, c), m, op, c, 1)
<1>1. /\ Post(t, m, op, c) \in Queues
      /\ \A l \in Loops, e \in Tasks :
           /\ Waits(f, Post(t, m, op, c), l, e)
                <=> Waits(f, t, l, e) \/ (l = m /\ e = Task(op, c))
           /\ Single(f, t, l, e) /\ (l = m /\ e = Task(op, c) => ~ Waits(f, t, l, e))
                => Single(f, Post(t, m, op, c), l, e)
  BY Posting
<1> QED BY <1>1, TaskFacts DEF Gains, On, One

LEMMA ReleasesGain ==
  ASSUME NEW f \in Queues, NEW t \in Queues, NEW m \in Loops, NEW c \in Conns, NEW n \in Nat
  PROVE  /\ PostReleases(t, m, c, n) \in Queues
         /\ Gains(f, t, f, PostReleases(t, m, c, n), m, "Release", c, n)
<1>1. /\ PostReleases(t, m, c, n) \in Queues
      /\ \A l \in Loops, e \in Tasks :
           /\ Waits(f, PostReleases(t, m, c, n), l, e)
                <=> Waits(f, t, l, e) \/ (l = m /\ e = Task("Release", c) /\ n > 0)
           /\ /\ Single(f, t, l, e)
              /\ l = m /\ e = Task("Release", c) => n = 0 \/ (n = 1 /\ ~ Waits(f, t, l, e))
              => Single(f, PostReleases(t, m, c, n), l, e)
  BY Releasing
<1> QED BY <1>1, TaskFacts, OpFacts DEF Gains, On, One

\* A loop takes a task; it may post others after that.
LEMMA BeginsTakes ==
  ASSUME func \in Queues, tasks \in Queues, NEW l \in Loops, NEW op \in AllOps,
         NEW c \in Conns \cup {Nobody}, Begins(l, op, c)
  PROVE  /\ func' \in Queues /\ On(func, tasks, l, op, c)
         /\ actives[l] = {} /\ ~ undefined
         /\ Keeps(func, tasks, func', tasks)
         /\ One(func, tasks, l, op, c) => ~ On(func', tasks, l, op, c)
<1>1. /\ func[l] # <<>> /\ Head(func[l]) = Task(op, c) /\ actives[l] = {} /\ ~ undefined
      /\ func' = [func EXCEPT ![l] = Tail(@)]
  BY DEF Begins
<1>2. /\ func' \in Queues
      /\ Waits(func, tasks, l, Head(func[l]))
      /\ \A m \in Loops, e \in Tasks :
           /\ Waits(func', tasks, m, e) => Waits(func, tasks, m, e)
           /\ Single(func, tasks, m, e) => Single(func', tasks, m, e)
           /\ Single(func, tasks, m, e) /\ m = l /\ e = Head(func[l]) => ~ Waits(func', tasks, m, e)
  BY <1>1, Taking
<1> QED BY <1>1, <1>2, TaskFacts DEF Keeps, On, One

LEMMA KeepsGains ==
  ASSUME NEW f, NEW t, NEW f2, NEW t2, NEW m, NEW op, NEW c, NEW n \in Nat,
         Keeps(f, t, f2, t), Gains(f2, t, f2, t2, m, op, c, n)
  PROVE  Gains(f, t, f2, t2, m, op, c, n)
  BY DEF Keeps, Gains

LEMMA GainsNothing ==
  ASSUME NEW f, NEW t, NEW f2, NEW t2, NEW m, NEW op, NEW c
  PROVE  /\ Keeps(f, t, f, t)
         /\ Keeps(f, t, f2, t2) => Gains(f, t, f2, t2, m, op, c, 0)
         /\ Gains(f, t, f2, t2, m, op, Nobody, 1) => Keeps(f, t, f2, t2)
<1>1. Nobody \notin Conns
  BY DEF Nobody, Conns
<1> QED BY <1>1 DEF Keeps, Gains

-----------------------------------------------------------------------------
(* Connections, descriptors and tasks.                                      *)

TcpTypes ==
  /\ nextId \in Nat /\ nextIndex \in Nat /\ made \in Conns \cup {Nobody}
  /\ stage \in [Conns -> {"none", "accepted", "open", "closed", "revived"}]
  /\ fd \in [Conns -> Fds \cup {Nobody}] /\ loop \in [Conns -> Loops]
  /\ wheel \in [Conns -> {"none", "set", "canceled"}]
  /\ conns \subseteq Conns /\ users \subseteq Conns
  /\ owner \in [Fds -> Conns \cup {Nobody}]
  /\ epoll \in [Loops -> SUBSET Fds]
  /\ channels \in [Loops -> [Fds -> Conns \cup {Nobody}]]
  /\ actives \in [Loops -> SUBSET (Conns \cup {Acceptor})]
  /\ tasks \in Queues /\ func \in Queues
  /\ posts \in [Conns -> Nat] /\ late \subseteq Conns

\* A descriptor is of one connection, which the server holds, until it is released;
\* nothing is known of connections that are still to come.
Owners ==
  /\ \A c \in Conns :
       /\ c > nextId => stage[c] = "none"
       /\ stage[c] = "none" => posts[c] = 0 /\ c \notin late /\ wheel[c] = "none"
       /\ stage[c] # "none" => fd[c] \in Fds
       /\ stage[c] \in {"accepted", "open"} => owner[fd[c]] = c /\ c \in conns \cup {made}
  /\ \A d \in Fds :
       owner[d] # Nobody => fd[owner[d]] = d /\ stage[owner[d]] \in {"accepted", "open"}

\* The connection that is being made: the base loop does nothing else, so it is as
\* it was if it is on the base loop, and it may be closed if it is not.
Making ==
  made # Nobody =>
    /\ Acceptor \in actives[Base]
    /\ stage[made] \notin {"none", "open"} /\ (PoolSize = 0 => stage[made] = "accepted")
    /\ \A l \in Loops : ~ On(func, tasks, l, "Established", made)

\* Events that are still to be handled are of watched connections of the loop: releases
\* run when there are none. The user has only connections that were established.
Reported ==
  /\ \A l \in Loops, c \in Conns :
       c \in actives[l] => stage[c] \in {"open", "revived"} /\ loop[c] = l
  /\ \A c \in users : stage[c] \in {"open", "closed", "revived"}

\* A task is in the loop of its connection, and comes in its time: Established once
\* and first, the removal last; and the releases have all been counted.
InTime ==
  \A l \in Loops, c \in Conns :
    /\ \A op \in Ops : On(func, tasks, l, op, c) => loop[c] = l /\ stage[c] # "none"
    /\ On(func, tasks, l, "Established", c) =>
         stage[c] # "open" /\ One(func, tasks, l, "Established", c)
    /\ On(func, tasks, l, "Send", c) \/ On(func, tasks, l, "Shutdown", c) =>
         stage[c] # "accepted"
    /\ On(func, tasks, l, "Release", c) => posts[c] > 0
    /\ On(func, tasks, l, "Remove", c) => Released(c)
    /\ posts[c] <= 1 => One(func, tasks, l, "Release", c)

\* After the release that is the only one, nothing comes that could change the
\* connection, but what was called in time to be late.
Settled ==
  \A c \in Conns : Released(c) =>
    /\ posts[c] > 0
    /\ posts[c] <= 1 => \A l \in Loops : ~ On(func, tasks, l, "Release", c)
    /\ c \notin late =>
         /\ stage[c] = "closed" /\ wheel[c] # "set" /\ c # made
         /\ \A l \in Loops, op \in Ops \ {"Release"} : ~ On(func, tasks, l, op, c)

Blamed == undefined => \E c \in Conns : posts[c] > 1 \/ c \in late

TcpInv == /\ TcpTypes /\ Owners /\ Making /\ Reported /\ InTime /\ Settled /\ Blamed
          /\ ChannelsAreCurrent /\ OpenIsWatched

\* What the loops and the users do, and the acceptor.
TcpNext == (\E l \in Loops : Poll(l) \/ Thread(l)) \/ Accepting \/ User

LEMMA InitTcp == Init => TcpInv
<1> SUFFICES ASSUME Init PROVE TcpInv
  OBVIOUS
<1>1. \A l \in Loops : \A op, c :
        ~ On(func, tasks, l, op, c) /\ One(func, tasks, l, op, c)
  BY DEF Init, On, One, Waits, Single, Has, Once
<1>2. TcpTypes
  BY TcpServerAssumption DEF Init, TcpTypes, Queues, Conns, Loops, Base, Nobody, Tasks
<1> QED
  BY <1>1, <1>2 DEF Init, TcpInv, Owners, Making, Reported, InTime, Settled, Blamed, Released,
     ChannelsAreCurrent, OpenIsWatched, Nobody, Conns, Loops, Base

-----------------------------------------------------------------------------
(* Steps that open, close and move nothing.                                 *)

\* Tasks, references, events and timers may go, others stay; a timer that is new is of
\* a connection that is not closed, or is late.
LEMMA Calm ==
  ASSUME TcpInv, UNCHANGED <<stage, fd, loop, made, owner, epoll, channels, posts, late>>,
         nextId' \in Nat, nextId' >= nextId, nextIndex' \in Nat,
         conns' \subseteq Conns, \A c \in conns : c \in conns' \/ Released(c),
         users' \subseteq Conns, \A c \in users' : stage[c] \in {"open", "closed", "revived"},
         actives' \in [Loops -> SUBSET (Conns \cup {Acceptor})],
         \A l \in Loops, c \in Conns :
           c \in actives'[l] => stage[c] \in {"open", "revived"} /\ loop[c] = l,
         made # Nobody => Acceptor \in actives'[Base],
         tasks' \in Queues, func' \in Queues, Keeps(func, tasks, func', tasks'),
         wheel' \in [Conns -> {"none", "set", "canceled"}],
         \A c \in Conns : wheel'[c] # "none" => stage[c] # "none",
         \A c \in Conns : wheel'[c] = "set" => wheel[c] = "set" \/ ~ Released(c) \/ c \in late,
         undefined' => undefined \/ \E c \in Conns : posts[c] > 1 \/ c \in late
  PROVE  TcpInv'
<1> USE DEF TcpInv
<1>0. \A q \in Ops : q \in AllOps
  BY OpFacts
<1>1. TcpTypes'
  BY DEF TcpTypes
<1>2. Owners'
  BY DEF Owners, TcpTypes, Conns, Released
<1>3. Making' /\ Reported'
  BY OpFacts DEF Making, Reported, Keeps, TcpTypes
<1>4. InTime'
  BY <1>0, OpFacts DEF InTime, Keeps, Released
<1>5. Settled' /\ Blamed'
  BY <1>0, OpFacts DEF Settled, Blamed, Keeps, Released
<1>6. ChannelsAreCurrent' /\ OpenIsWatched'
  BY DEF ChannelsAreCurrent, OpenIsWatched, Disturbed
<1> QED BY <1>1, <1>2, <1>3, <1>4, <1>5, <1>6

\* As above, with the tasks, the ids and the references of the server as they are.
LEMMA CalmTasks ==
  ASSUME TcpInv, UNCHANGED <<stage, fd, loop, made, owner, epoll, channels, posts, late, tasks, func>>,
         UNCHANGED <<nextId, nextIndex, conns>>,
         users' \subseteq Conns, \A c \in users' : stage[c] \in {"open", "closed", "revived"},
         actives' \in [Loops -> SUBSET (Conns \cup {Acceptor})],
         \A l \in Loops, c \in Conns :
           c \in actives'[l] => stage[c] \in {"open", "revived"} /\ loop[c] = l,
         made # Nobody => Acceptor \in actives'[Base],
         wheel' \in [Conns -> {"none", "set", "canceled"}],
         \A c \in Conns : wheel'[c] \in {wheel[c], "none"},
         undefined' => undefined \/ \E c \in Conns : posts[c] > 1 \/ c \in late
  PROVE  TcpInv'
<1>1. /\ nextId \in Nat /\ nextIndex \in Nat /\ conns \subseteq Conns
      /\ tasks \in Queues /\ func \in Queues
  BY DEF TcpInv, TcpTypes
<1>2. /\ nextId' \in Nat /\ nextId' >= nextId /\ nextIndex' \in Nat /\ conns' \subseteq Conns
      /\ \A c \in conns : c \in conns' \/ Released(c)
      /\ tasks' \in Queues /\ func' \in Queues
  BY <1>1
<1>3. Keeps(func, tasks, func', tasks')
  BY DEF Keeps
<1>4. /\ \A c \in Conns : wheel'[c] # "none" => stage[c] # "none"
      /\ \A c \in Conns : wheel'[c] = "set" => wheel[c] = "set" \/ ~ Released(c) \/ c \in late
  BY DEF TcpInv, Owners
<1> QED BY <1>2, <1>3, <1>4, Calm
-----------------------------------------------------------------------------
(* Steps that ask for releases.                                             *)

\* UpdateEvent puts at most this channel there, where none was.
LEMMA Updating ==
  ASSUME TcpInv, NEW l \in Loops, NEW c \in Conns, NEW d \in Fds, UpdateEvent(l, c, d)
  PROVE  /\ channels' \in [Loops -> [Fds -> Conns \cup {Nobody}]] /\ epoll' \in [Loops -> SUBSET Fds]
         /\ channels'[l][d] = IF channels[l][d] = Nobody THEN c ELSE channels[l][d]
         /\ channels[l][d] = Nobody /\ owner[d] # Nobody => d \in epoll'[l]
         /\ \A m \in Loops, e \in Fds :
              /\ m # l \/ e # d =>
                   channels'[m][e] = channels[m][e] /\ (e \in epoll'[m] <=> e \in epoll[m])
              /\ e \in epoll[m] => e \in epoll'[m]
         /\ d \in epoll'[l] => channels'[l][d] # Nobody
<1>1. /\ channels \in [Loops -> [Fds -> Conns \cup {Nobody}]] /\ epoll \in [Loops -> SUBSET Fds]
      /\ d \in epoll[l] => channels[l][d] # Nobody
  BY DEF TcpInv, TcpTypes, ChannelsAreCurrent
<1>2. c # Nobody
  BY DEF Conns, Nobody
<1>3. CASE channels[l][d] = Nobody
  <2>1. /\ channels' = [channels EXCEPT ![l][d] = c]
        /\ epoll' = [epoll EXCEPT ![l] = @ \cup (IF owner[d] = Nobody THEN {} ELSE {d})]
    BY <1>3 DEF UpdateEvent
  <2> QED BY <1>1, <1>2, <1>3, <2>1
<1>4. CASE channels[l][d] # Nobody
  <2>1. UNCHANGED <<epoll, channels>>
    BY <1>4 DEF UpdateEvent
  <2> QED BY <1>1, <1>4, <2>1
<1> QED BY <1>3, <1>4

\* A connection that handles events, runs out of time, or is called, and may enable
\* and disable writing and be revived, has n releases posted.
LEMMA Asking ==
  ASSUME TcpInv, NEW c \in Conns, NEW n \in Nat, stage[c] # "none",
         UNCHANGED <<nextId, nextIndex, made, fd, loop, conns, users, owner, late, undefined>>,
         \/ stage' = stage
         \/ stage[c] = "closed" /\ c \in late /\ stage' = [stage EXCEPT ![c] = "revived"],
         \/ UNCHANGED <<epoll, channels>>
         \/ stage'[c] \in {"open", "revived"} /\ UpdateEvent(loop[c], c, fd[c]),
         actives' \in [Loops -> SUBSET (Conns \cup {Acceptor})],
         \A l \in Loops : actives'[l] \subseteq actives[l],
         made # Nobody => Acceptor \in actives'[Base],
         posts' = Asked(posts, c, n) \/ (n = 0 /\ posts' = posts),
         tasks' \in Queues, func' \in Queues,
         Gains(func, tasks, func', tasks', loop[c], "Release", c, n),
         wheel' \in [Conns -> {"none", "set", "canceled"}],
         \A d \in Conns : wheel'[d] \in {wheel[d], "none"}
  PROVE  TcpInv'
<1>0. /\ \A q \in Ops : q \in AllOps
      /\ {"Established", "Send", "Shutdown", "Release", "Remove"} \subseteq AllOps
  BY OpFacts
<1>1. /\ stage' \in [Conns -> {"none", "accepted", "open", "closed", "revived"}]
      /\ \A o \in Conns : \/ stage'[o] = stage[o]
                          \/ o = c /\ stage[c] = "closed" /\ stage'[c] = "revived" /\ c \in late
  BY DEF TcpInv, TcpTypes
<1>2. /\ posts' \in [Conns -> Nat] /\ \A o \in Conns \ {c} : posts'[o] = posts[o]
      /\ posts'[c] <= 1 => posts'[c] = posts[c] + n
      /\ posts'[c] >= 2 \/ posts'[c] = posts[c] + n
      /\ \A o \in Conns : posts[o] \in Nat
  BY DEF TcpInv, TcpTypes, Asked
<1>3. \A o \in Conns : posts[o] > 1 => posts'[o] > 1
  BY <1>2
<1>4. /\ c # Nobody /\ fd[c] \in Fds /\ loop[c] \in Loops
      /\ stage[c] = "open" => owner[fd[c]] = c
      /\ stage[c] = "revived" => c \in late
  BY DEF TcpInv, TcpTypes, Owners, Settled, Released, Conns, Nobody
<1>5. /\ channels' \in [Loops -> [Fds -> Conns \cup {Nobody}]] /\ epoll' \in [Loops -> SUBSET Fds]
      /\ \A m \in Loops, e \in Fds :
           /\ \/ channels'[m][e] = channels[m][e]
              \/ /\ m = loop[c] /\ e = fd[c] /\ channels[m][e] = Nobody
                 /\ channels'[m][e] = c /\ stage'[c] \in {"open", "revived"}
           /\ e \in epoll[m] => e \in epoll'[m]
           /\ e \in epoll'[m] => channels'[m][e] # Nobody
  <2>1. /\ channels \in [Loops -> [Fds -> Conns \cup {Nobody}]] /\ epoll \in [Loops -> SUBSET Fds]
        /\ \A m \in Loops, e \in Fds : e \in epoll[m] => channels[m][e] # Nobody
    BY DEF TcpInv, TcpTypes, ChannelsAreCurrent
  <2>2. CASE UNCHANGED <<epoll, channels>>
    BY <2>1, <2>2
  <2>3. CASE stage'[c] \in {"open", "revived"} /\ UpdateEvent(loop[c], c, fd[c])
    <3>1. PICK l \in Loops, d \in Fds : l = loop[c] /\ d = fd[c]
      BY <1>4
    <3>2. UpdateEvent(l, c, d)
      BY <2>3, <3>1
    <3> QED BY <2>1, <2>3, <3>1, <3>2, Updating
  <2> QED BY <2>2, <2>3
<1>6. TcpTypes'
  BY <1>1, <1>2, <1>5 DEF TcpInv, TcpTypes
<1>7. Owners' /\ Making' /\ Reported'
  <2>1. Owners'
    <3>1. \A o \in Conns :
            /\ stage'[o] = stage[o] \/ (stage[o] = "closed" /\ stage'[o] = "revived")
            /\ stage[o] = "none" => posts'[o] = posts[o]
            /\ wheel'[o] \in {wheel[o], "none"}
      BY <1>1, <1>2
    <3>2. owner \in [Fds -> Conns \cup {Nobody}]
      BY DEF TcpInv, TcpTypes
    <3> QED BY <3>1, <3>2 DEF TcpInv, Owners
  <2>2. Making'
    <3> SUFFICES ASSUME made # Nobody PROVE Making'
      BY DEF Making
    <3>1. stage[made] \notin {"none", "open"} /\ (PoolSize = 0 => stage[made] = "accepted")
          /\ made \in Conns /\ \A l \in Loops : ~ On(func, tasks, l, "Established", made)
      BY DEF TcpInv, TcpTypes, Making
    <3>2. \A l \in Loops : ~ On(func', tasks', l, "Established", made)
      BY <1>0, <3>1 DEF Gains
    <3> QED BY <1>1, <3>1, <3>2 DEF Making
  <2>3. Reported'
    <3>1. /\ \A l \in Loops, o \in Conns :
               o \in actives[l] => stage[o] \in {"open", "revived"} /\ loop[o] = l
          /\ users \subseteq Conns /\ \A o \in users : stage[o] \in {"open", "closed", "revived"}
      BY DEF TcpInv, TcpTypes, Reported
    <3>2. \A l \in Loops, o \in Conns : o \in actives'[l] => o \in actives[l]
      OBVIOUS
    <3> QED BY <1>1, <3>1, <3>2 DEF Reported
  <2> QED BY <2>1, <2>2, <2>3
<1>8. \A l \in Loops, o \in Conns :
        /\ \A q \in Ops : On(func', tasks', l, q, o) =>
             On(func, tasks, l, q, o) \/ (n > 0 /\ l = loop[c] /\ q = "Release" /\ o = c)
        /\ On(func', tasks', l, "Remove", o) => On(func, tasks, l, "Remove", o)
        /\ One(func, tasks, l, "Established", o) => One(func', tasks', l, "Established", o)
        /\ One(func, tasks, l, "Release", o) /\ o # c => One(func', tasks', l, "Release", o)
        /\ One(func, tasks, l, "Release", c) /\ (n = 0 \/ (n = 1 /\ ~ On(func, tasks, l, "Release", c)))
             => One(func', tasks', l, "Release", c)
  BY <1>0 DEF Gains
<1>9. InTime'
  <2> SUFFICES ASSUME NEW l \in Loops, NEW o \in Conns
      PROVE  /\ \A op \in Ops : On(func', tasks', l, op, o) => loop'[o] = l /\ stage'[o] # "none"
             /\ On(func', tasks', l, "Established", o) =>
                  stage'[o] # "open" /\ One(func', tasks', l, "Established", o)
             /\ On(func', tasks', l, "Send", o) \/ On(func', tasks', l, "Shutdown", o) =>
                  stage'[o] # "accepted"
             /\ On(func', tasks', l, "Release", o) => posts'[o] > 0
             /\ On(func', tasks', l, "Remove", o) => Released(o)'
             /\ posts'[o] <= 1 => One(func', tasks', l, "Release", o)
    BY DEF InTime
  <2>1. {"Established", "Send", "Shutdown", "Release"} \subseteq Ops
    BY DEF Ops, Calls
  <2>2. /\ \A op \in Ops : On(func, tasks, l, op, o) => loop[o] = l /\ stage[o] # "none"
        /\ On(func, tasks, l, "Established", o) =>
             stage[o] # "open" /\ One(func, tasks, l, "Established", o)
        /\ On(func, tasks, l, "Send", o) \/ On(func, tasks, l, "Shutdown", o) =>
             stage[o] # "accepted"
        /\ On(func, tasks, l, "Release", o) => posts[o] > 0
        /\ On(func, tasks, l, "Remove", o) => Released(o)
        /\ posts[o] <= 1 => One(func, tasks, l, "Release", o)
    BY DEF TcpInv, InTime
  <2>3. \A op \in Ops : On(func', tasks', l, op, o) => loop'[o] = l /\ stage'[o] # "none"
    BY <1>1, <1>8, <2>2
  <2>4. /\ On(func', tasks', l, "Established", o) =>
             stage'[o] # "open" /\ One(func', tasks', l, "Established", o)
        /\ On(func', tasks', l, "Send", o) \/ On(func', tasks', l, "Shutdown", o) =>
             stage'[o] # "accepted"
    BY <1>1, <1>8, <2>1, <2>2
  <2>5. On(func', tasks', l, "Remove", o) => Released(o)'
    BY <1>1, <1>8, <2>2 DEF Released
  <2>6. On(func', tasks', l, "Release", o) => posts'[o] > 0
    BY <1>2, <1>8, <2>1, <2>2
  <2>7. posts'[o] <= 1 => One(func', tasks', l, "Release", o)
    <3>1. CASE o # c
      BY <1>2, <1>8, <2>2, <3>1
    <3>2. CASE o = c
      <4> SUFFICES ASSUME posts'[c] <= 1 PROVE One(func', tasks', l, "Release", c)
        BY <3>2
      <4>1. posts'[c] = posts[c] + n /\ posts[c] \in Nat /\ posts'[c] \in Nat
        BY <1>2
      <4>2. posts[c] <= 1 /\ (n = 0 \/ (n = 1 /\ posts[c] = 0))
        BY <4>1
      <4>3. One(func, tasks, l, "Release", c) /\ (posts[c] = 0 => ~ On(func, tasks, l, "Release", c))
        BY <2>2, <3>2, <4>2
      <4> QED BY <1>8, <4>2, <4>3
    <3> QED BY <3>1, <3>2
  <2> QED BY <2>3, <2>4, <2>5, <2>6, <2>7
<1>10. Settled'
  <2> SUFFICES ASSUME NEW o \in Conns, Released(o)'
      PROVE  /\ posts'[o] > 0
             /\ posts'[o] <= 1 => \A l \in Loops : ~ On(func', tasks', l, "Release", o)
             /\ o \notin late =>
                  /\ stage'[o] = "closed" /\ wheel'[o] # "set" /\ o # made
                  /\ \A l \in Loops, op \in Ops \ {"Release"} : ~ On(func', tasks', l, op, o)
    BY DEF Settled
  <2>1. Released(o) /\ (o \notin late => stage'[o] = stage[o])
    BY <1>1 DEF Released
  <2>2. /\ posts[o] > 0
        /\ posts[o] <= 1 => \A l \in Loops : ~ On(func, tasks, l, "Release", o)
        /\ o \notin late =>
             /\ stage[o] = "closed" /\ wheel[o] # "set" /\ o # made
             /\ \A l \in Loops, op \in Ops \ {"Release"} : ~ On(func, tasks, l, op, o)
    BY <2>1 DEF TcpInv, Settled
  <2>3. posts'[o] > 0 /\ (posts'[o] <= 1 => posts[o] <= 1 /\ (o = c => n = 0))
    BY <1>2, <2>2
  <2>4. "Release" \in Ops
    BY DEF Ops, Calls
  <2> QED BY <1>8, <2>1, <2>2, <2>3, <2>4
<1>11. Blamed'
  BY <1>3 DEF TcpInv, Blamed
<1>12. ChannelsAreCurrent'
  <2> SUFFICES ASSUME NEW m \in Loops, NEW e \in Fds
      PROVE  /\ channels'[m][e] # Nobody =>
                  /\ loop[channels'[m][e]] = m /\ fd[channels'[m][e]] = e
                  /\ \/ stage'[channels'[m][e]] = "open" /\ owner[e] = channels'[m][e]
                     \/ stage'[channels'[m][e]] = "revived" /\ channels'[m][e] \in late
             /\ e \in epoll'[m] => channels'[m][e] # Nobody
    BY DEF ChannelsAreCurrent
  <2>1. /\ channels[m][e] \in Conns \cup {Nobody}
        /\ channels[m][e] # Nobody =>
             /\ loop[channels[m][e]] = m /\ fd[channels[m][e]] = e
             /\ \/ stage[channels[m][e]] = "open" /\ owner[e] = channels[m][e]
                \/ stage[channels[m][e]] = "revived" /\ channels[m][e] \in late
    BY DEF TcpInv, TcpTypes, ChannelsAreCurrent
  <2>2. CASE channels'[m][e] = channels[m][e]
    BY <1>1, <1>5, <2>1, <2>2
  <2>3. CASE channels'[m][e] # channels[m][e]
    <3>1. m = loop[c] /\ e = fd[c] /\ channels'[m][e] = c /\ stage'[c] \in {"open", "revived"}
      BY <1>5, <2>3
    <3> QED BY <1>1, <1>4, <1>5, <3>1
  <2> QED BY <2>2, <2>3
<1>13. OpenIsWatched'
  <2>1. \A o \in Conns : Disturbed(o) => Disturbed(o)'
    BY <1>1, <1>3 DEF Disturbed
  <2> SUFFICES ASSUME NEW o \in Conns, stage'[o] = "open", ~ Disturbed(o)'
      PROVE  owner[fd[o]] = o /\ channels'[loop[o]][fd[o]] = o /\ fd[o] \in epoll'[loop[o]]
    BY DEF OpenIsWatched
  <2>2. stage[o] = "open" /\ ~ Disturbed(o)
    BY <1>1, <2>1
  <2>3. /\ owner[fd[o]] = o /\ channels[loop[o]][fd[o]] = o /\ fd[o] \in epoll[loop[o]]
        /\ fd[o] \in Fds /\ loop[o] \in Loops /\ o # Nobody
    BY <2>2 DEF TcpInv, TcpTypes, Owners, OpenIsWatched, Conns, Nobody
  <2> QED BY <1>5, <2>3
<1> QED
  BY <1>6, <1>7, <1>9, <1>10, <1>11, <1>12, <1>13 DEF TcpInv

-----------------------------------------------------------------------------
(* Steps that call.                                                         *)

LEMMA AbsentIsOne ==
  ASSUME NEW f, NEW t, NEW l, NEW op, NEW c, ~ On(f, t, l, op, c)
  PROVE  One(f, t, l, op, c)
  BY DEF On, One, Waits, Single, Has, Once

\* A call posts a task, of a connection that is there, or was: then the call is late.
LEMMA Calling ==
  ASSUME TcpInv, NEW c \in Conns, NEW op \in Ops \ {"Release"}, stage[c] # "none",
         op \in {"Send", "Shutdown"} => stage[c] # "accepted",
         op = "Established" => c = made /\ made' = Nobody,
         UNCHANGED <<nextId, nextIndex, fd, loop, stage, users, owner, epoll, channels, wheel,
                     posts, func, undefined>>,
         conns \subseteq conns', conns' \subseteq Conns,
         made' = made \/ (made' = Nobody /\ made \in conns'),
         actives' \in [Loops -> SUBSET (Conns \cup {Acceptor})],
         \A l \in Loops : actives'[l] \subseteq actives[l],
         made' # Nobody => actives' = actives,
         late' \in {late, late \cup {c}}, Released(c) => c \in late',
         tasks' = Post(tasks, loop[c], op, c)
  PROVE  TcpInv'
<1>0. /\ \A q \in Ops : q \in AllOps
      /\ {"Established", "Send", "Shutdown", "Release", "Remove"} \subseteq AllOps
      /\ {"Established", "Send", "Shutdown", "Release"} \subseteq Ops /\ "Remove" \notin Ops
  BY OpFacts DEF Ops, Calls
<1>1. tasks' \in Queues /\ Gains(func, tasks, func', tasks', loop[c], op, c, 1)
  <2>1. func \in Queues /\ tasks \in Queues /\ loop[c] \in Loops /\ func' = func
        /\ c \in Conns \cup {Nobody} /\ op \in AllOps
    BY <1>0 DEF TcpInv, TcpTypes
  <2>2. PICK m \in Loops : m = loop[c]
    BY <2>1
  <2> QED BY <2>1, <2>2, PostGains
<1>2. /\ \A o \in Conns : \/ o \in late' <=> o \in late
                          \/ o = c /\ o \in late'
      /\ late \subseteq late' /\ late' \subseteq Conns
  BY DEF TcpInv, TcpTypes
<1>3. \A l \in Loops, o \in Conns :
        /\ \A q \in Ops : On(func', tasks', l, q, o) =>
             On(func, tasks, l, q, o) \/ (l = loop[c] /\ q = op /\ o = c)
        /\ On(func', tasks', l, "Release", o) => On(func, tasks, l, "Release", o)
        /\ On(func', tasks', l, "Remove", o) => On(func, tasks, l, "Remove", o)
        /\ One(func, tasks, l, "Established", o)
           /\ (op = "Established" /\ o = c => ~ On(func, tasks, l, "Established", o))
             => One(func', tasks', l, "Established", o)
        /\ One(func, tasks, l, "Release", o) => One(func', tasks', l, "Release", o)
  BY <1>0, <1>1 DEF Gains
<1>4. TcpTypes' /\ Owners'
  <2>1. TcpTypes'
    BY <1>1, <1>2 DEF TcpInv, TcpTypes
  <2>2. Owners'
    BY <1>2 DEF TcpInv, TcpTypes, Owners
  <2> QED BY <2>1, <2>2
<1>5. Making'
  <2> SUFFICES ASSUME made' # Nobody PROVE Making'
    BY DEF Making
  <2>1. op # "Established" /\ made' = made /\ actives' = actives /\ made \in Conns
    BY DEF TcpInv, TcpTypes
  <2>2. /\ Acceptor \in actives[Base]
        /\ stage[made] \notin {"none", "open"} /\ (PoolSize = 0 => stage[made] = "accepted")
        /\ \A l \in Loops : ~ On(func, tasks, l, "Established", made)
    BY <2>1 DEF TcpInv, Making
  <2>3. \A l \in Loops : ~ On(func', tasks', l, "Established", made)
    BY <1>0, <1>3, <2>1, <2>2
  <2> QED BY <2>1, <2>2, <2>3 DEF Making
<1>6. Reported'
  BY DEF TcpInv, TcpTypes, Reported
<1>7. InTime'
  <2> SUFFICES ASSUME NEW l \in Loops, NEW o \in Conns
      PROVE  /\ \A q \in Ops : On(func', tasks', l, q, o) => loop[o] = l /\ stage[o] # "none"
             /\ On(func', tasks', l, "Established", o) =>
                  stage[o] # "open" /\ One(func', tasks', l, "Established", o)
             /\ On(func', tasks', l, "Send", o) \/ On(func', tasks', l, "Shutdown", o) =>
                  stage[o] # "accepted"
             /\ On(func', tasks', l, "Release", o) => posts[o] > 0
             /\ On(func', tasks', l, "Remove", o) => Released(o)
             /\ posts[o] <= 1 => One(func', tasks', l, "Release", o)
    BY DEF InTime, Released
  <2>1. /\ \A q \in Ops : On(func, tasks, l, q, o) => loop[o] = l /\ stage[o] # "none"
        /\ On(func, tasks, l, "Established", o) =>
             stage[o] # "open" /\ One(func, tasks, l, "Established", o)
        /\ On(func, tasks, l, "Send", o) \/ On(func, tasks, l, "Shutdown", o) =>
             stage[o] # "accepted"
        /\ On(func, tasks, l, "Release", o) => posts[o] > 0
        /\ On(func, tasks, l, "Remove", o) => Released(o)
        /\ posts[o] <= 1 => One(func, tasks, l, "Release", o)
    BY DEF TcpInv, InTime
  <2>2. ASSUME On(func', tasks', l, "Established", o)
        PROVE  stage[o] # "open" /\ One(func', tasks', l, "Established", o)
    <3>1. CASE op = "Established" /\ o = c
      <4>1. stage[o] # "open" /\ ~ On(func, tasks, l, "Established", o)
        BY <3>1 DEF TcpInv, Making, Conns, Nobody
      <4> QED BY <1>3, <4>1, AbsentIsOne
    <3>2. CASE ~ (op = "Established" /\ o = c)
      BY <1>0, <1>3, <2>1, <2>2, <3>2
    <3> QED BY <3>1, <3>2
  <2> QED BY <1>0, <1>3, <2>1, <2>2
<1>8. Settled'
  <2> SUFFICES ASSUME NEW o \in Conns, Released(o)
      PROVE  /\ posts[o] > 0
             /\ posts[o] <= 1 => \A l \in Loops : ~ On(func', tasks', l, "Release", o)
             /\ o \notin late' =>
                  /\ stage[o] = "closed" /\ wheel[o] # "set" /\ o # made'
                  /\ \A l \in Loops, q \in Ops \ {"Release"} : ~ On(func', tasks', l, q, o)
    BY DEF Settled, Released
  <2>1. /\ posts[o] > 0
        /\ posts[o] <= 1 => \A l \in Loops : ~ On(func, tasks, l, "Release", o)
        /\ o \notin late =>
             /\ stage[o] = "closed" /\ wheel[o] # "set" /\ o # made
             /\ \A l \in Loops, q \in Ops \ {"Release"} : ~ On(func, tasks, l, q, o)
    BY DEF TcpInv, Settled
  <2>2. o \notin late' => o # c /\ o \notin late
    BY <1>2
  <2> QED BY <1>3, <2>1, <2>2 DEF Conns, Nobody
<1>9. Blamed' /\ ChannelsAreCurrent' /\ OpenIsWatched'
  BY <1>2 DEF TcpInv, Blamed, ChannelsAreCurrent, OpenIsWatched, Disturbed
<1> QED BY <1>4, <1>5, <1>6, <1>7, <1>8, <1>9 DEF TcpInv

-----------------------------------------------------------------------------
(* Steps that open.                                                         *)

LEMMA Opening ==
  ASSUME TcpInv, NEW c \in Conns, stage[c] = "accepted",
         stage' = [stage EXCEPT ![c] = "open"], UpdateEvent(loop[c], c, fd[c]),
         UNCHANGED <<nextId, nextIndex, fd, loop, users, owner, wheel, posts, late, undefined>>,
         conns \subseteq conns', conns' \subseteq Conns, c \in conns',
         made' = Nobody \/ (made' = made /\ made # c), made # made' => made \in conns',
         actives' \in [Loops -> SUBSET (Conns \cup {Acceptor})],
         \A l \in Loops : actives'[l] \subseteq actives[l],
         made' # Nobody => actives' = actives,
         tasks' \in Queues, func' \in Queues, Keeps(func, tasks, func', tasks'),
         \A l \in Loops : ~ On(func', tasks', l, "Established", c)
  PROVE  TcpInv'
<1>0. /\ \A q \in Ops : q \in AllOps
      /\ {"Established", "Send", "Shutdown", "Release", "Remove"} \subseteq AllOps
      /\ {"Established", "Send", "Shutdown", "Release"} \subseteq Ops
  BY OpFacts DEF Ops, Calls
<1>1. /\ stage' \in [Conns -> {"none", "accepted", "open", "closed", "revived"}]
      /\ stage'[c] = "open" /\ \A o \in Conns \ {c} : stage'[o] = stage[o]
  BY DEF TcpInv, TcpTypes
<1>2. PICK l \in Loops, d \in Fds : l = loop[c] /\ d = fd[c]
  BY DEF TcpInv, TcpTypes, Owners
<1>3. owner[d] = c /\ c # Nobody
  BY <1>2 DEF TcpInv, Owners, Conns, Nobody
<1>4. /\ channels' \in [Loops -> [Fds -> Conns \cup {Nobody}]] /\ epoll' \in [Loops -> SUBSET Fds]
      /\ channels'[l][d] = IF channels[l][d] = Nobody THEN c ELSE channels[l][d]
      /\ channels[l][d] = Nobody /\ owner[d] # Nobody => d \in epoll'[l]
      /\ \A m \in Loops, e \in Fds :
           /\ m # l \/ e # d =>
                channels'[m][e] = channels[m][e] /\ (e \in epoll'[m] <=> e \in epoll[m])
           /\ e \in epoll[m] => e \in epoll'[m]
      /\ d \in epoll'[l] => channels'[l][d] # Nobody
  <2>1. UpdateEvent(l, c, d)
    BY <1>2
  <2> QED BY <2>1, Updating
<1>5. TcpTypes'
  BY <1>1, <1>4 DEF TcpInv, TcpTypes
<1>6. Owners'
  <2>1. \A o \in conns \cup {made} : o \in conns' \cup {made'}
    OBVIOUS
  <2>2. nextId \in Nat /\ owner \in [Fds -> Conns \cup {Nobody}]
    BY DEF TcpInv, TcpTypes
  <2> QED BY <1>1, <2>1, <2>2 DEF TcpInv, Owners
<1>7. Making'
  <2> SUFFICES ASSUME made' # Nobody PROVE Making'
    BY DEF Making
  <2>1. made' = made /\ made # c /\ actives' = actives /\ made \in Conns
    BY DEF TcpInv, TcpTypes
  <2>2. /\ Acceptor \in actives[Base]
        /\ stage[made] \notin {"none", "open"} /\ (PoolSize = 0 => stage[made] = "accepted")
        /\ \A m \in Loops : ~ On(func, tasks, m, "Established", made)
    BY <2>1 DEF TcpInv, Making
  <2>3. \A m \in Loops : ~ On(func', tasks', m, "Established", made)
    BY <1>0, <2>1, <2>2 DEF Keeps
  <2> QED BY <1>1, <2>1, <2>2, <2>3 DEF Making
<1>8. Reported'
  <2>1. /\ \A m \in Loops, o \in Conns :
             o \in actives[m] => stage[o] \in {"open", "revived"} /\ loop[o] = m
        /\ users \subseteq Conns /\ \A o \in users : stage[o] \in {"open", "closed", "revived"}
    BY DEF TcpInv, TcpTypes, Reported
  <2>2. \A m \in Loops, o \in Conns : o \in actives'[m] => o \in actives[m]
    OBVIOUS
  <2> QED BY <1>1, <2>1, <2>2 DEF Reported
<1>9. InTime'
  <2> SUFFICES ASSUME NEW m \in Loops, NEW o \in Conns
      PROVE  /\ \A q \in Ops : On(func', tasks', m, q, o) => loop[o] = m /\ stage'[o] # "none"
             /\ On(func', tasks', m, "Established", o) =>
                  stage'[o] # "open" /\ One(func', tasks', m, "Established", o)
             /\ On(func', tasks', m, "Send", o) \/ On(func', tasks', m, "Shutdown", o) =>
                  stage'[o] # "accepted"
             /\ On(func', tasks', m, "Release", o) => posts[o] > 0
             /\ On(func', tasks', m, "Remove", o) => Released(o)'
             /\ posts[o] <= 1 => One(func', tasks', m, "Release", o)
    BY DEF InTime
  <2>1. /\ \A q \in Ops : On(func, tasks, m, q, o) => loop[o] = m /\ stage[o] # "none"
        /\ On(func, tasks, m, "Established", o) =>
             stage[o] # "open" /\ One(func, tasks, m, "Established", o)
        /\ On(func, tasks, m, "Send", o) \/ On(func, tasks, m, "Shutdown", o) =>
             stage[o] # "accepted"
        /\ On(func, tasks, m, "Release", o) => posts[o] > 0
        /\ On(func, tasks, m, "Remove", o) => stage[o] \in {"closed", "revived"}
        /\ posts[o] <= 1 => One(func, tasks, m, "Release", o)
    BY DEF TcpInv, InTime, Released
  <2>2. /\ \A q \in Ops : On(func', tasks', m, q, o) => On(func, tasks, m, q, o)
        /\ On(func', tasks', m, "Remove", o) => On(func, tasks, m, "Remove", o)
        /\ One(func, tasks, m, "Established", o) => One(func', tasks', m, "Established", o)
        /\ One(func, tasks, m, "Release", o) => One(func', tasks', m, "Release", o)
    BY <1>0 DEF Keeps
  <2>3. CASE o = c
    BY <1>0, <1>1, <2>1, <2>2, <2>3 DEF Released
  <2>4. CASE o # c
    BY <1>0, <1>1, <2>1, <2>2, <2>4 DEF Released
  <2> QED BY <2>3, <2>4
<1>10. Settled' /\ Blamed'
  <2>1. ASSUME NEW o \in Conns, Released(o)'
        PROVE  /\ posts[o] > 0
               /\ posts[o] <= 1 => \A m \in Loops : ~ On(func', tasks', m, "Release", o)
               /\ o \notin late =>
                    /\ stage'[o] = "closed" /\ wheel[o] # "set" /\ o # made'
                    /\ \A m \in Loops, q \in Ops \ {"Release"} : ~ On(func', tasks', m, q, o)
    <3>1. o # c /\ Released(o) /\ stage'[o] = stage[o]
      BY <1>1, <2>1 DEF Released
    <3>2. /\ posts[o] > 0
          /\ posts[o] <= 1 => \A m \in Loops : ~ On(func, tasks, m, "Release", o)
          /\ o \notin late =>
               /\ stage[o] = "closed" /\ wheel[o] # "set" /\ o # made
               /\ \A m \in Loops, q \in Ops \ {"Release"} : ~ On(func, tasks, m, q, o)
      BY <3>1 DEF TcpInv, Settled
    <3>3. \A m \in Loops, q \in Ops : On(func', tasks', m, q, o) => On(func, tasks, m, q, o)
      BY <1>0 DEF Keeps
    <3> QED BY <1>0, <3>1, <3>2, <3>3 DEF Conns, Nobody
  <2>2. Settled'
    BY <2>1 DEF Settled
  <2>3. Blamed'
    BY DEF TcpInv, Blamed
  <2> QED BY <2>2, <2>3
<1>11. \A m \in Loops, e \in Fds : channels[m][e] # c
  BY <1>3 DEF TcpInv, ChannelsAreCurrent
<1>12. ChannelsAreCurrent'
  <2> SUFFICES ASSUME NEW m \in Loops, NEW e \in Fds
      PROVE  /\ channels'[m][e] # Nobody =>
                  /\ loop[channels'[m][e]] = m /\ fd[channels'[m][e]] = e
                  /\ \/ stage'[channels'[m][e]] = "open" /\ owner[e] = channels'[m][e]
                     \/ stage'[channels'[m][e]] = "revived" /\ channels'[m][e] \in late
             /\ e \in epoll'[m] => channels'[m][e] # Nobody
    BY DEF ChannelsAreCurrent
  <2>1. /\ channels[m][e] \in (Conns \cup {Nobody}) \ {c}
        /\ channels[m][e] # Nobody =>
             /\ loop[channels[m][e]] = m /\ fd[channels[m][e]] = e
             /\ \/ stage[channels[m][e]] = "open" /\ owner[e] = channels[m][e]
                \/ stage[channels[m][e]] = "revived" /\ channels[m][e] \in late
        /\ e \in epoll[m] => channels[m][e] # Nobody
    BY <1>11 DEF TcpInv, TcpTypes, ChannelsAreCurrent
  <2>2. CASE m = l /\ e = d /\ channels[m][e] = Nobody
    BY <1>1, <1>2, <1>3, <1>4, <2>2
  <2>3. CASE ~ (m = l /\ e = d /\ channels[m][e] = Nobody)
    <3>1. channels'[m][e] = channels[m][e] /\ (e \in epoll'[m] => channels[m][e] # Nobody)
      BY <1>4, <2>1, <2>3
    <3> QED BY <1>1, <2>1, <3>1
  <2> QED BY <2>2, <2>3
<1>13. OpenIsWatched'
  <2>1. \A o \in Conns : Disturbed(o) => Disturbed(o)'
    BY <1>1 DEF Disturbed
  <2> SUFFICES ASSUME NEW o \in Conns, stage'[o] = "open", ~ Disturbed(o)'
      PROVE  owner[fd[o]] = o /\ channels'[loop[o]][fd[o]] = o /\ fd[o] \in epoll'[loop[o]]
    BY DEF OpenIsWatched
  <2>2. CASE o = c
    <3>1. channels[l][d] = Nobody
      <4> SUFFICES ASSUME NEW x \in Conns, channels[l][d] = x PROVE FALSE
        BY DEF TcpInv, TcpTypes
      <4>1. x # c /\ x # Nobody
        BY <1>11 DEF Conns, Nobody
      <4>2. loop[x] = l /\ fd[x] = d /\ (stage[x] = "revived" \/ owner[d] = x)
        BY <4>1 DEF TcpInv, ChannelsAreCurrent
      <4>3. stage'[x] = "revived"
        BY <1>1, <1>3, <4>1, <4>2
      <4> QED BY <1>2, <2>2, <4>1, <4>2, <4>3 DEF Disturbed
    <3> QED BY <1>2, <1>3, <1>4, <2>2, <3>1
  <2>3. CASE o # c
    <3>1. stage[o] = "open" /\ ~ Disturbed(o)
      BY <1>1, <2>1, <2>3
    <3>2. /\ owner[fd[o]] = o /\ channels[loop[o]][fd[o]] = o /\ fd[o] \in epoll[loop[o]]
          /\ fd[o] \in Fds /\ loop[o] \in Loops /\ o # Nobody
      BY <3>1 DEF TcpInv, TcpTypes, Owners, OpenIsWatched, Conns, Nobody
    <3> QED BY <1>4, <3>2
  <2> QED BY <2>2, <2>3
<1> QED
  BY <1>5, <1>6, <1>7, <1>8, <1>9, <1>10, <1>12, <1>13 DEF TcpInv

-----------------------------------------------------------------------------
(* The release.                                                             *)

LEMMA CloseFacts ==
  ASSUME TcpInv, NEW l \in Loops, NEW c \in Conns, NEW d \in Fds, RemoveAndClose(l, c, d)
  PROVE  /\ channels' \in [Loops -> [Fds -> Conns \cup {Nobody}]]
         /\ epoll' \in [Loops -> SUBSET Fds] /\ owner' \in [Fds -> Conns \cup {Nobody}]
         /\ channels'[l][d] = Nobody /\ d \notin epoll'[l]
         /\ \A m \in Loops, e \in Fds : m # l \/ e # d => channels'[m][e] = channels[m][e]
         /\ \A m \in Loops, e \in Fds : e # d => (e \in epoll'[m] <=> e \in epoll[m])
         /\ \A m \in Loops : epoll'[m] \subseteq epoll[m]
         /\ \A e \in Fds : e # d => owner'[e] = owner[e]
         /\ Released(c) => owner' = owner /\ \A m \in Loops \ {l} : epoll'[m] = epoll[m]
         /\ ~ Released(c) => owner'[d] = Nobody
<1>1. channels' = [channels EXCEPT ![l][d] = Nobody]
  BY DEF RemoveAndClose
<1>2. CASE Released(c)
  <2>1. epoll' = [epoll EXCEPT ![l] = @ \ {d}] /\ owner' = owner
    BY <1>2 DEF RemoveAndClose
  <2> QED BY <1>1, <1>2, <2>1 DEF TcpInv, TcpTypes
<1>3. CASE ~ Released(c)
  <2>1. epoll' = [m \in Loops |-> epoll[m] \ {d}] /\ owner' = [owner EXCEPT ![d] = Nobody]
    BY <1>3 DEF RemoveAndClose
  <2> QED BY <1>1, <1>3, <2>1 DEF TcpInv, TcpTypes
<1> QED BY <1>2, <1>3

LEMMA ReleaseStep ==
  ASSUME TcpInv, NEW l \in Loops, NEW c \in Conns, ReleaseInLoop(l, c) PROVE TcpInv'
<1>0. /\ \A q \in Ops : q \in AllOps
      /\ {"Established", "Send", "Shutdown", "Release", "Remove"} \subseteq AllOps
      /\ {"Established", "Send", "Shutdown", "Release"} \subseteq Ops /\ "Remove" \notin Ops
  BY OpFacts DEF Ops, Calls
<1>1. /\ Begins(l, "Release", c) /\ RemoveAndClose(l, c, fd[c])
      /\ stage' = [stage EXCEPT ![c] = "closed"]
      /\ wheel' = Canceled(wheel, c)
      /\ conns' = conns \ {c} \/ conns' = conns
      /\ tasks' = tasks \/ tasks' = Post(tasks, Base, "Remove", c)
      /\ late' = IF Pending(c) THEN late \cup {c} ELSE late
      /\ UNCHANGED <<nextId, nextIndex, fd, loop, made, users, actives, posts, undefined>>
  BY DEF ReleaseInLoop, ids, user
<1>2. /\ func' \in Queues /\ On(func, tasks, l, "Release", c) /\ actives[l] = {}
      /\ Keeps(func, tasks, func', tasks)
      /\ One(func, tasks, l, "Release", c) => ~ On(func', tasks, l, "Release", c)
  <2>1. func \in Queues /\ tasks \in Queues /\ c \in Conns \cup {Nobody} /\ "Release" \in AllOps
    BY <1>0 DEF TcpInv, TcpTypes
  <2> QED BY <1>1, <2>1, BeginsTakes
<1>3. tasks' \in Queues /\ Gains(func', tasks, func', tasks', Base, "Remove", c, 1)
  <2>1. /\ tasks \in Queues /\ Base \in Loops /\ c \in Conns \cup {Nobody} /\ "Remove" \in AllOps
    BY <1>0, TcpServerAssumption DEF TcpInv, TcpTypes, Base, Loops
  <2>2. CASE tasks' = tasks
    BY <2>1, <2>2 DEF Gains
  <2>3. CASE tasks' = Post(tasks, Base, "Remove", c)
    BY <1>2, <2>1, <2>3, PostGains
  <2> QED BY <1>1, <2>2, <2>3
<1>4. \A m \in Loops, o \in Conns :
        /\ \A q \in Ops : On(func', tasks', m, q, o) => On(func, tasks, m, q, o)
        /\ On(func', tasks', m, "Remove", o) => o = c \/ On(func, tasks, m, "Remove", o)
        /\ One(func, tasks, m, "Established", o) => One(func', tasks', m, "Established", o)
        /\ One(func, tasks, m, "Release", o) => One(func', tasks', m, "Release", o)
        /\ m = l /\ o = c /\ One(func, tasks, m, "Release", o)
             => ~ On(func', tasks', m, "Release", o)
  BY <1>0, <1>2, <1>3 DEF Keeps, Gains
<1>5. /\ loop[c] = l /\ stage[c] # "none" /\ posts[c] \in Nat /\ posts[c] > 0
      /\ posts[c] <= 1 => ~ Released(c) /\ One(func, tasks, l, "Release", c)
  BY <1>0, <1>2 DEF TcpInv, TcpTypes, InTime, Settled
<1>6. PICK d \in Fds : d = fd[c]
  BY <1>5 DEF TcpInv, Owners
<1>7. /\ channels' \in [Loops -> [Fds -> Conns \cup {Nobody}]]
      /\ epoll' \in [Loops -> SUBSET Fds] /\ owner' \in [Fds -> Conns \cup {Nobody}]
      /\ channels'[l][d] = Nobody /\ d \notin epoll'[l]
      /\ \A m \in Loops, e \in Fds : m # l \/ e # d => channels'[m][e] = channels[m][e]
      /\ \A m \in Loops, e \in Fds : e # d => (e \in epoll'[m] <=> e \in epoll[m])
      /\ \A m \in Loops : epoll'[m] \subseteq epoll[m]
      /\ \A e \in Fds : e # d => owner'[e] = owner[e]
      /\ Released(c) => owner' = owner /\ \A m \in Loops \ {l} : epoll'[m] = epoll[m]
      /\ ~ Released(c) => owner'[d] = Nobody
  <2>1. RemoveAndClose(l, c, d)
    BY <1>1, <1>6
  <2> QED BY <2>1, CloseFacts
<1>8. /\ stage' \in [Conns -> {"none", "accepted", "open", "closed", "revived"}]
      /\ stage'[c] = "closed" /\ \A o \in Conns \ {c} : stage'[o] = stage[o]
  BY <1>1 DEF TcpInv, TcpTypes
<1>9. ~ Released(c) => stage[c] \in {"accepted", "open"} /\ owner[d] = c
  BY <1>5, <1>6 DEF TcpInv, TcpTypes, Owners, Released
<1>10. /\ wheel' \in [Conns -> {"none", "set", "canceled"}]
       /\ wheel'[c] # "set" /\ \A o \in Conns \ {c} : wheel'[o] = wheel[o]
       /\ \A o \in Conns : wheel'[o] # "none" => wheel[o] # "none"
  BY <1>1 DEF TcpInv, TcpTypes, Canceled
<1>11. /\ late \subseteq late' /\ late' \subseteq Conns /\ \A o \in Conns \ {c} : o \in late' <=> o \in late
       /\ c \notin late' =>
            c # made /\ \A m \in Loops, q \in Ops \ {"Release"} : ~ On(func, tasks, m, q, c)
  <2>1. late \subseteq Conns
    BY DEF TcpInv, TcpTypes
  <2>2. ASSUME NEW m \in Loops, NEW q \in Ops \ {"Release"}, On(func, tasks, m, q, c)
        PROVE  Pending(c)
    <3>1. PICK s \in {tasks, func} : \E k \in 1 .. Len(s[m]) : s[m][k] = Task(q, c)
      BY <2>2 DEF On, Waits, Has
    <3>2. PICK k \in 1 .. Len(s[m]) : s[m][k].conn = c /\ s[m][k].op = q
      BY <3>1 DEF Task
    <3> QED BY <3>2 DEF Pending, Queued
  <2> QED BY <1>1, <2>1, <2>2 DEF Pending
<1>12. TcpTypes'
  BY <1>1, <1>2, <1>3, <1>7, <1>8, <1>10, <1>11 DEF TcpInv, TcpTypes
<1>13. Owners'
  <2>1. ASSUME NEW o \in Conns
        PROVE  /\ o > nextId => stage'[o] = "none"
               /\ stage'[o] = "none" => posts[o] = 0 /\ o \notin late' /\ wheel'[o] = "none"
               /\ stage'[o] # "none" => fd[o] \in Fds
               /\ stage'[o] \in {"accepted", "open"} =>
                    owner'[fd[o]] = o /\ o \in conns' \cup {made}
    <3>0. /\ o > nextId => stage[o] = "none"
          /\ stage[o] = "none" => posts[o] = 0 /\ o \notin late /\ wheel[o] = "none"
          /\ stage[o] # "none" => fd[o] \in Fds
          /\ stage[o] \in {"accepted", "open"} => owner[fd[o]] = o /\ o \in conns \cup {made}
      BY DEF TcpInv, Owners
    <3>1. CASE o = c
      BY <1>5, <1>6, <1>8, <3>0, <3>1
    <3>2. CASE o # c
      <4>1. stage'[o] = stage[o] /\ wheel'[o] = wheel[o] /\ (o \in late' <=> o \in late)
            /\ (o \in conns => o \in conns')
        BY <1>1, <1>8, <1>10, <1>11, <3>2
      <4>2. stage[o] \in {"accepted", "open"} => owner'[fd[o]] = o
        BY <1>7, <1>9, <3>0, <3>2
      <4> QED BY <3>0, <4>1, <4>2
    <3> QED BY <3>1, <3>2
  <2>2. ASSUME NEW e \in Fds, owner'[e] # Nobody
        PROVE  fd[owner'[e]] = e /\ stage'[owner'[e]] \in {"accepted", "open"}
    <3>1. owner'[e] = owner[e]
      BY <1>7, <2>2
    <3>2. fd[owner[e]] = e /\ stage[owner[e]] \in {"accepted", "open"} /\ owner[e] \in Conns
      BY <2>2, <3>1 DEF TcpInv, TcpTypes, Owners
    <3>3. owner[e] # c
      BY <1>6, <1>7, <2>2, <3>2 DEF Released
    <3> QED BY <1>8, <3>1, <3>2, <3>3
  <2> QED BY <1>1, <2>1, <2>2 DEF Owners
<1>14. Making'
  <2> SUFFICES ASSUME made # Nobody PROVE Making'
    BY <1>1 DEF Making
  <2>1. /\ made \in Conns /\ Acceptor \in actives[Base]
        /\ stage[made] \notin {"none", "open"} /\ (PoolSize = 0 => stage[made] = "accepted")
        /\ \A m \in Loops : ~ On(func, tasks, m, "Established", made)
    BY DEF TcpInv, TcpTypes, Making
  <2>2. PoolSize = 0 => l = Base
    BY TcpServerAssumption DEF Loops, Base
  <2>3. PoolSize # 0
    BY <1>2, <2>1, <2>2
  <2>4. \A m \in Loops : ~ On(func', tasks', m, "Established", made)
    BY <1>0, <1>4, <2>1
  <2> QED BY <1>1, <1>8, <2>1, <2>3, <2>4 DEF Making
<1>15. Reported'
  <2>1. /\ \A m \in Loops, o \in Conns :
             o \in actives[m] => stage[o] \in {"open", "revived"} /\ loop[o] = m
        /\ users \subseteq Conns /\ \A o \in users : stage[o] \in {"open", "closed", "revived"}
    BY DEF TcpInv, TcpTypes, Reported
  <2> QED BY <1>1, <1>2, <1>5, <1>8, <2>1 DEF Reported
<1>16. InTime'
  <2> SUFFICES ASSUME NEW m \in Loops, NEW o \in Conns
      PROVE  /\ \A q \in Ops : On(func', tasks', m, q, o) => loop[o] = m /\ stage'[o] # "none"
             /\ On(func', tasks', m, "Established", o) =>
                  stage'[o] # "open" /\ One(func', tasks', m, "Established", o)
             /\ On(func', tasks', m, "Send", o) \/ On(func', tasks', m, "Shutdown", o) =>
                  stage'[o] # "accepted"
             /\ On(func', tasks', m, "Release", o) => posts[o] > 0
             /\ On(func', tasks', m, "Remove", o) => Released(o)'
             /\ posts[o] <= 1 => One(func', tasks', m, "Release", o)
    BY <1>1 DEF InTime
  <2>1. /\ \A q \in Ops : On(func, tasks, m, q, o) => loop[o] = m /\ stage[o] # "none"
        /\ On(func, tasks, m, "Established", o) =>
             stage[o] # "open" /\ One(func, tasks, m, "Established", o)
        /\ On(func, tasks, m, "Send", o) \/ On(func, tasks, m, "Shutdown", o) =>
             stage[o] # "accepted"
        /\ On(func, tasks, m, "Release", o) => posts[o] > 0
        /\ On(func, tasks, m, "Remove", o) => stage[o] \in {"closed", "revived"}
        /\ posts[o] <= 1 => One(func, tasks, m, "Release", o)
    BY DEF TcpInv, InTime, Released
  <2>2. stage'[o] = stage[o] \/ (o = c /\ stage'[o] = "closed")
    BY <1>8
  <2>3. On(func', tasks', m, "Remove", o) => Released(o)'
    BY <1>4, <1>8, <2>1 DEF Released
  <2>4. /\ \A q \in Ops : On(func', tasks', m, q, o) => loop[o] = m /\ stage'[o] # "none"
        /\ On(func', tasks', m, "Send", o) \/ On(func', tasks', m, "Shutdown", o) =>
             stage'[o] # "accepted"
    BY <1>0, <1>4, <2>1, <2>2
  <2>5. /\ On(func', tasks', m, "Established", o) =>
             stage'[o] # "open" /\ One(func', tasks', m, "Established", o)
        /\ On(func', tasks', m, "Release", o) => posts[o] > 0
        /\ posts[o] <= 1 => One(func', tasks', m, "Release", o)
    BY <1>0, <1>4, <2>1, <2>2
  <2> QED BY <2>3, <2>4, <2>5
<1>17. Settled'
  <2> SUFFICES ASSUME NEW o \in Conns, Released(o)'
      PROVE  /\ posts[o] > 0
             /\ posts[o] <= 1 => \A m \in Loops : ~ On(func', tasks', m, "Release", o)
             /\ o \notin late' =>
                  /\ stage'[o] = "closed" /\ wheel'[o] # "set" /\ o # made
                  /\ \A m \in Loops, q \in Ops \ {"Release"} : ~ On(func', tasks', m, q, o)
    BY <1>1 DEF Settled
  <2>1. CASE o = c
    <3>1. posts[c] <= 1 => \A m \in Loops : ~ On(func', tasks', m, "Release", c)
      <4> SUFFICES ASSUME posts[c] <= 1, NEW m \in Loops, On(func', tasks', m, "Release", c)
          PROVE  FALSE
        OBVIOUS
      <4>1. m = l
        BY <1>0, <1>4, <1>5 DEF TcpInv, InTime
      <4> QED BY <1>4, <1>5, <4>1
    <3> QED BY <1>4, <1>5, <1>8, <1>10, <1>11, <2>1, <3>1
  <2>2. CASE o # c
    <3>1. Released(o) /\ stage'[o] = stage[o]
      BY <1>8, <2>2 DEF Released
    <3>2. /\ posts[o] > 0
          /\ posts[o] <= 1 => \A m \in Loops : ~ On(func, tasks, m, "Release", o)
          /\ o \notin late =>
               /\ stage[o] = "closed" /\ wheel[o] # "set" /\ o # made
               /\ \A m \in Loops, q \in Ops \ {"Release"} : ~ On(func, tasks, m, q, o)
      BY <3>1 DEF TcpInv, Settled
    <3> QED BY <1>0, <1>4, <1>10, <1>11, <2>2, <3>1, <3>2
  <2> QED BY <2>1, <2>2
<1>18. Blamed'
  BY <1>1, <1>11 DEF TcpInv, Blamed
<1>19. ChannelsAreCurrent'
  <2> SUFFICES ASSUME NEW m \in Loops, NEW e \in Fds
      PROVE  /\ channels'[m][e] # Nobody =>
                  /\ loop[channels'[m][e]] = m /\ fd[channels'[m][e]] = e
                  /\ \/ stage'[channels'[m][e]] = "open" /\ owner'[e] = channels'[m][e]
                     \/ stage'[channels'[m][e]] = "revived" /\ channels'[m][e] \in late'
             /\ e \in epoll'[m] => channels'[m][e] # Nobody
    BY <1>1 DEF ChannelsAreCurrent
  <2>1. /\ channels[m][e] \in Conns \cup {Nobody}
        /\ channels[m][e] # Nobody =>
             /\ loop[channels[m][e]] = m /\ fd[channels[m][e]] = e
             /\ \/ stage[channels[m][e]] = "open" /\ owner[e] = channels[m][e]
                \/ stage[channels[m][e]] = "revived" /\ channels[m][e] \in late
        /\ e \in epoll[m] => channels[m][e] # Nobody
    BY DEF TcpInv, TcpTypes, ChannelsAreCurrent
  <2>2. CASE m = l /\ e = d
    BY <1>7, <2>2
  <2>3. CASE ~ (m = l /\ e = d)
    <3>1. channels'[m][e] = channels[m][e] /\ (e \in epoll'[m] => e \in epoll[m])
      BY <1>7, <2>3
    <3>2. ASSUME channels[m][e] # Nobody
          PROVE  /\ channels[m][e] # c
                 /\ stage[channels[m][e]] = "open" => owner'[e] = owner[e]
      <4>1. channels[m][e] # c
        BY <1>5, <1>6, <2>1, <2>3, <3>2
      <4>2. ASSUME stage[channels[m][e]] = "open" PROVE owner'[e] = owner[e]
        BY <1>7, <1>9, <2>1, <3>2, <4>1, <4>2
      <4> QED BY <4>1, <4>2
    <3> QED BY <1>8, <1>11, <2>1, <3>1, <3>2
  <2> QED BY <2>2, <2>3
<1>20. OpenIsWatched'
  <2>1. \A o \in Conns : Disturbed(o) => Disturbed(o)'
    <3>1. stage[c] = "revived" => posts[c] > 1
      BY <1>5 DEF Released
    <3> QED BY <1>1, <1>8, <3>1 DEF Disturbed
  <2> SUFFICES ASSUME NEW o \in Conns, stage'[o] = "open", ~ Disturbed(o)'
      PROVE  owner'[fd[o]] = o /\ channels'[loop[o]][fd[o]] = o /\ fd[o] \in epoll'[loop[o]]
    BY <1>1 DEF OpenIsWatched
  <2>2. o # c /\ stage[o] = "open" /\ ~ Disturbed(o)
    BY <1>8, <2>1
  <2>3. /\ owner[fd[o]] = o /\ channels[loop[o]][fd[o]] = o /\ fd[o] \in epoll[loop[o]]
        /\ fd[o] \in Fds /\ loop[o] \in Loops
    BY <2>2 DEF TcpInv, TcpTypes, Owners, OpenIsWatched
  <2>4. CASE Released(c)
    <3>1. posts[c] > 1
      BY <1>5, <2>4
    <3>2. ~ (fd[o] = d /\ loop[o] = l)
      BY <1>5, <1>6, <2>2, <3>1 DEF Disturbed
    <3> QED BY <1>7, <2>3, <2>4, <3>2
  <2>5. CASE ~ Released(c)
    <3>1. fd[o] # d
      BY <1>9, <2>2, <2>3, <2>5
    <3> QED BY <1>7, <2>3, <3>1
  <2> QED BY <2>4, <2>5
<1> QED
  BY <1>12, <1>13, <1>14, <1>15, <1>16, <1>17, <1>18, <1>19, <1>20 DEF TcpInv

-----------------------------------------------------------------------------
(* The base loop accepts.                                                   *)

LEMMA LowestIsFree == FreeFds # {} => LowestFree \in FreeFds
<1> SUFFICES ASSUME FreeFds # {} PROVE LowestFree \in FreeFds
  OBVIOUS
<1> DEFINE R == OpToRel(<, Nat)
<1>1. FreeFds \subseteq Nat
  BY TcpServerAssumption DEF FreeFds, Fds
<1>2. IsWellFoundedOn(R, Nat)
  BY NatLessThanWellFounded
<1>3. \A m, n \in Nat : m < n => <<m, n>> \in R
  BY DEF OpToRel
<1> HIDE DEF R
<1>4. PICK d \in FreeFds : \A e \in FreeFds : ~ (<<e, d>> \in R)
  BY <1>1, <1>2, WFMin
<1>5. ASSUME NEW e \in FreeFds PROVE d <= e
  <2>1. d \in Nat /\ e \in Nat /\ ~ (e < d)
    BY <1>1, <1>3, <1>4
  <2> QED BY <2>1
<1> QED BY <1>5 DEF LowestFree

LEMMA NewConnectionStep == ASSUME TcpInv, NewConnection PROVE TcpInv'
<1> DEFINE c == nextId + 1
           d == LowestFree
           l == NextLoop
<1>0. /\ \A q \in Ops : q \in AllOps
      /\ {"Established", "Send", "Shutdown", "Release", "Enable", "Remove"} \subseteq AllOps
      /\ {"Established", "Send", "Shutdown", "Release"} \subseteq Ops /\ "Remove" \notin Ops
  BY OpFacts DEF Ops, Calls
<1>1. /\ made = Nobody /\ Acceptor \in actives[Base]
      /\ FreeFds # {} /\ nextId < MaxConns
      /\ nextId' = c /\ nextIndex' = NextIndex /\ made' = c
      /\ fd' = [fd EXCEPT ![c] = d] /\ loop' = [loop EXCEPT ![c] = l]
      /\ owner' = [owner EXCEPT ![d] = c]
      /\ stage' = [stage EXCEPT ![c] = "accepted"]
      /\ tasks' = tasks \/ tasks' = Post(tasks, l, "Enable", c)
      /\ wheel' = wheel \/ wheel' = Enabled(wheel, c)
      /\ UNCHANGED <<conns, users, epoll, channels, actives, func, posts, late, undefined>>
  BY DEF NewConnection, Free, user, history
<1>2. /\ c \in Conns /\ c > nextId /\ c \in Nat /\ c # Nobody
      /\ stage[c] = "none" /\ posts[c] = 0 /\ c \notin late /\ wheel[c] = "none"
  BY <1>1, TcpServerAssumption DEF TcpInv, TcpTypes, Owners, Conns, Nobody
<1>3. d \in Fds /\ owner[d] = Nobody
  BY <1>1, LowestIsFree DEF FreeFds
<1>5. l \in Loops /\ nextIndex' \in Nat /\ Base \in Loops
  <2>1. PoolSize \in Nat /\ nextIndex \in Nat
    BY TcpServerAssumption DEF TcpInv, TcpTypes
  <2>2. PoolSize # 0 => (nextIndex + 1) % PoolSize \in 0 .. PoolSize - 1
    BY <2>1
  <2> QED BY <1>1, <2>1, <2>2 DEF NextIndex, NextLoop, Base, Loops
<1> HIDE DEF c, d, l
<1>6. /\ fd' \in [Conns -> Fds \cup {Nobody}] /\ fd'[c] = d
      /\ loop' \in [Conns -> Loops] /\ loop'[c] = l
      /\ owner' \in [Fds -> Conns \cup {Nobody}] /\ owner'[d] = c
      /\ stage' \in [Conns -> {"none", "accepted", "open", "closed", "revived"}]
      /\ stage'[c] = "accepted"
      /\ wheel' \in [Conns -> {"none", "set", "canceled"}]
      /\ \A o \in Conns \ {c} :
           /\ fd'[o] = fd[o] /\ loop'[o] = loop[o] /\ stage'[o] = stage[o]
           /\ wheel'[o] = wheel[o]
      /\ \A e \in Fds \ {d} : owner'[e] = owner[e]
  BY <1>1, <1>2, <1>3, <1>5 DEF TcpInv, TcpTypes, Enabled
<1>7. tasks' \in Queues /\ Gains(func, tasks, func', tasks', l, "Enable", c, 1)
  <2>1. /\ func \in Queues /\ tasks \in Queues /\ c \in Conns \cup {Nobody} /\ func' = func
        /\ "Enable" \in AllOps
    BY <1>0, <1>1, <1>2 DEF TcpInv, TcpTypes
  <2>2. CASE tasks' = tasks
    BY <2>1, <2>2 DEF Gains
  <2>3. CASE tasks' = Post(tasks, l, "Enable", c)
    BY <1>5, <2>1, <2>3, PostGains
  <2> QED BY <1>1, <2>2, <2>3
<1>8. \A m \in Loops, o \in Conns :
        /\ \A q \in Ops : On(func', tasks', m, q, o) => On(func, tasks, m, q, o) \/ (m = l /\ q = "Enable" /\ o = c)
        /\ On(func', tasks', m, "Remove", o) => On(func, tasks, m, "Remove", o)
        /\ One(func, tasks, m, "Established", o) => One(func', tasks', m, "Established", o)
        /\ One(func, tasks, m, "Release", o) => One(func', tasks', m, "Release", o)
  BY <1>0, <1>7 DEF Gains
<1>9. \A m \in Loops : /\ \A q \in Ops : ~ On(func, tasks, m, q, c)
                       /\ ~ On(func, tasks, m, "Remove", c)
  BY <1>2 DEF TcpInv, InTime, Released
<1>10. TcpTypes'
  <2>1. func' = func /\ posts' = posts /\ late' = late /\ made' \in Conns /\ nextId' \in Nat
    BY <1>1, <1>2
  <2> QED BY <1>1, <1>5, <1>6, <1>7, <2>1 DEF TcpInv, TcpTypes
<1>11. Owners'
  <2>1. ASSUME NEW o \in Conns
        PROVE  /\ o > nextId' => stage'[o] = "none"
               /\ stage'[o] = "none" => posts'[o] = 0 /\ o \notin late' /\ wheel'[o] = "none"
               /\ stage'[o] # "none" => fd'[o] \in Fds
               /\ stage'[o] \in {"accepted", "open"} =>
                    owner'[fd'[o]] = o /\ o \in conns' \cup {made'}
    <3>1. CASE o = c
      <4>1. ~ (o > nextId')
        BY <1>1, <1>2, <3>1
      <4> QED BY <1>1, <1>3, <1>6, <3>1, <4>1
    <3>2. CASE o # c
      <4>1. o \in Nat /\ nextId \in Nat /\ (o > nextId' => o > nextId)
        BY <1>1, <1>2 DEF TcpInv, TcpTypes, Conns, c
      <4>2. /\ o > nextId => stage[o] = "none"
            /\ stage[o] = "none" => posts[o] = 0 /\ o \notin late /\ wheel[o] = "none"
            /\ stage[o] # "none" => fd[o] \in Fds
            /\ stage[o] \in {"accepted", "open"} => owner[fd[o]] = o /\ o \in conns
        BY <1>1 DEF TcpInv, Owners, Conns, Nobody
      <4>3. stage[o] \in {"accepted", "open"} => fd[o] # d
        BY <1>3, <4>2 DEF Conns, Nobody
      <4> QED BY <1>1, <1>6, <3>2, <4>1, <4>2, <4>3
    <3> QED BY <3>1, <3>2
  <2>2. ASSUME NEW e \in Fds, owner'[e] # Nobody
        PROVE  fd'[owner'[e]] = e /\ stage'[owner'[e]] \in {"accepted", "open"}
    <3>1. CASE e = d
      BY <1>6, <3>1
    <3>2. CASE e # d
      <4>1. fd[owner[e]] = e /\ stage[owner[e]] \in {"accepted", "open"} /\ owner[e] \in Conns
        BY <1>6, <2>2, <3>2 DEF TcpInv, TcpTypes, Owners
      <4>2. owner[e] \in Conns \ {c} /\ owner'[e] = owner[e]
        BY <1>2, <1>6, <3>2, <4>1
      <4> QED BY <1>6, <4>1, <4>2
    <3> QED BY <3>1, <3>2
  <2> QED BY <2>1, <2>2 DEF Owners
<1>12. Making'
  <2>1. \A m \in Loops : ~ On(func', tasks', m, "Established", c)
    BY <1>0, <1>2, <1>8, <1>9
  <2> QED BY <1>1, <1>6, <2>1 DEF Making
<1>13. Reported'
  <2>1. /\ \A m \in Loops, o \in Conns :
             o \in actives[m] => stage[o] \in {"open", "revived"} /\ loop[o] = m
        /\ users \subseteq Conns /\ \A o \in users : stage[o] \in {"open", "closed", "revived"}
    BY DEF TcpInv, TcpTypes, Reported
  <2> QED BY <1>1, <1>2, <1>6, <2>1 DEF Reported
<1>14. InTime'
  <2> SUFFICES ASSUME NEW m \in Loops, NEW o \in Conns
      PROVE  /\ \A q \in Ops : On(func', tasks', m, q, o) => loop'[o] = m /\ stage'[o] # "none"
             /\ On(func', tasks', m, "Established", o) =>
                  stage'[o] # "open" /\ One(func', tasks', m, "Established", o)
             /\ On(func', tasks', m, "Send", o) \/ On(func', tasks', m, "Shutdown", o) =>
                  stage'[o] # "accepted"
             /\ On(func', tasks', m, "Release", o) => posts[o] > 0
             /\ On(func', tasks', m, "Remove", o) => Released(o)'
             /\ posts[o] <= 1 => One(func', tasks', m, "Release", o)
    BY <1>1 DEF InTime
  <2>1. /\ \A q \in Ops : On(func, tasks, m, q, o) => loop[o] = m /\ stage[o] # "none"
        /\ On(func, tasks, m, "Established", o) =>
             stage[o] # "open" /\ One(func, tasks, m, "Established", o)
        /\ On(func, tasks, m, "Send", o) \/ On(func, tasks, m, "Shutdown", o) =>
             stage[o] # "accepted"
        /\ On(func, tasks, m, "Release", o) => posts[o] > 0
        /\ On(func, tasks, m, "Remove", o) => stage[o] \in {"closed", "revived"}
        /\ posts[o] <= 1 => One(func, tasks, m, "Release", o)
    BY DEF TcpInv, InTime, Released
  <2>2. CASE o # c
    BY <1>0, <1>6, <1>8, <2>1, <2>2 DEF Released
  <2>3. CASE o = c
    <3>1. /\ ~ On(func', tasks', m, "Established", c) /\ ~ On(func', tasks', m, "Send", c)
          /\ ~ On(func', tasks', m, "Shutdown", c) /\ ~ On(func', tasks', m, "Release", c)
          /\ ~ On(func', tasks', m, "Remove", c)
      BY <1>0, <1>2, <1>8, <1>9
    <3>2. \A q \in Ops : On(func', tasks', m, q, c) => m = l
      BY <1>2, <1>8, <1>9
    <3> QED BY <1>6, <2>3, <3>1, <3>2, AbsentIsOne
  <2> QED BY <2>2, <2>3
<1>15. Settled' /\ Blamed'
  <2>1. ASSUME NEW o \in Conns, Released(o)'
        PROVE  /\ posts[o] > 0
               /\ posts[o] <= 1 => \A m \in Loops : ~ On(func', tasks', m, "Release", o)
               /\ o \notin late =>
                    /\ stage'[o] = "closed" /\ wheel'[o] # "set" /\ o # made'
                    /\ \A m \in Loops, q \in Ops \ {"Release"} : ~ On(func', tasks', m, q, o)
    <3>1. o # c /\ Released(o) /\ stage'[o] = stage[o] /\ wheel'[o] = wheel[o]
      BY <1>6, <2>1 DEF Released
    <3>2. /\ posts[o] > 0
          /\ posts[o] <= 1 => \A m \in Loops : ~ On(func, tasks, m, "Release", o)
          /\ o \notin late =>
               /\ stage[o] = "closed" /\ wheel[o] # "set"
               /\ \A m \in Loops, q \in Ops \ {"Release"} : ~ On(func, tasks, m, q, o)
      BY <3>1 DEF TcpInv, Settled
    <3> QED BY <1>0, <1>1, <1>8, <3>1, <3>2
  <2>2. Settled'
    BY <1>1, <2>1 DEF Settled
  <2>3. Blamed'
    BY <1>1 DEF TcpInv, Blamed
  <2> QED BY <2>2, <2>3
<1>16. ChannelsAreCurrent'
  <2> SUFFICES ASSUME NEW m \in Loops, NEW e \in Fds
      PROVE  /\ channels[m][e] # Nobody =>
                  /\ loop'[channels[m][e]] = m /\ fd'[channels[m][e]] = e
                  /\ \/ stage'[channels[m][e]] = "open" /\ owner'[e] = channels[m][e]
                     \/ stage'[channels[m][e]] = "revived" /\ channels[m][e] \in late
             /\ e \in epoll[m] => channels[m][e] # Nobody
    BY <1>1 DEF ChannelsAreCurrent
  <2>1. /\ channels[m][e] \in Conns \cup {Nobody}
        /\ channels[m][e] # Nobody =>
             /\ loop[channels[m][e]] = m /\ fd[channels[m][e]] = e
             /\ \/ stage[channels[m][e]] = "open" /\ owner[e] = channels[m][e]
                \/ stage[channels[m][e]] = "revived" /\ channels[m][e] \in late
        /\ e \in epoll[m] => channels[m][e] # Nobody
    BY DEF TcpInv, TcpTypes, ChannelsAreCurrent
  <2>2. ASSUME channels[m][e] # Nobody
        PROVE  /\ channels[m][e] # c
               /\ stage[channels[m][e]] = "open" => owner'[e] = owner[e]
    BY <1>2, <1>3, <1>6, <2>1, <2>2
  <2> QED BY <1>6, <2>1, <2>2
<1>17. OpenIsWatched'
  <2> SUFFICES ASSUME NEW o \in Conns, stage'[o] = "open", ~ Disturbed(o)'
      PROVE  /\ owner'[fd'[o]] = o
             /\ channels[loop'[o]][fd'[o]] = o /\ fd'[o] \in epoll[loop'[o]]
    BY <1>1 DEF OpenIsWatched
  <2>1. o # c /\ stage[o] = "open"
    BY <1>6
  <2>2. ~ Disturbed(o)
    <3> SUFFICES ASSUME NEW x \in Conns \ {o}, fd[x] = fd[o], loop[x] = loop[o],
                        posts[x] > 1 \/ stage[x] = "revived"
                 PROVE  FALSE
      BY DEF Disturbed
    <3>1. x # c
      BY <1>2
    <3> QED BY <1>1, <1>6, <2>1, <3>1 DEF Disturbed
  <2>3. /\ owner[fd[o]] = o /\ channels[loop[o]][fd[o]] = o /\ fd[o] \in epoll[loop[o]]
        /\ fd[o] \in Fds /\ loop[o] \in Loops
    BY <2>1, <2>2 DEF TcpInv, TcpTypes, Owners, OpenIsWatched
  <2>4. fd[o] # d
    BY <1>3, <2>3 DEF Conns, Nobody
  <2> QED BY <1>6, <2>1, <2>3, <2>4
<1> QED
  BY <1>10, <1>11, <1>12, <1>13, <1>14, <1>15, <1>16, <1>17 DEF TcpInv

-----------------------------------------------------------------------------
(* Each step of the program keeps what holds.                               *)

\* What is used finds its connection, if it was asked once to be released and not late.
LEMMA UsedIsHeld ==
  ASSUME TcpInv, NEW c \in Conns, Used(c), posts[c] <= 1, c \notin late
  PROVE  c \in conns \cup {made}
<1>1. \/ \E l \in Loops : c \in actives[l]
      \/ wheel[c] = "set"
      \/ \E l \in Loops, op \in Ops : On(func, tasks, l, op, c)
  <2>1. ASSUME Queued(Ops, c) PROVE \E l \in Loops, op \in Ops : On(func, tasks, l, op, c)
    <3>1. PICK l \in Loops, q \in {tasks, func} :
            \E k \in 1 .. Len(q[l]) : q[l][k].conn = c /\ q[l][k].op \in Ops
      BY <2>1 DEF Queued
    <3>2. PICK k \in 1 .. Len(q[l]) : q[l][k].conn = c /\ q[l][k].op \in Ops
      BY <3>1
    <3>3. q[l] \in Seq(Tasks)
      BY DEF TcpInv, TcpTypes, Queues
    <3>4. q[l][k] \in Tasks
      BY <3>3
    <3>5. q[l][k] = Task(q[l][k].op, c)
      BY <3>2, <3>4 DEF Tasks, Task
    <3> QED BY <3>2, <3>5 DEF On, Waits, Has
  <2> QED BY <2>1 DEF Used
<1>2. stage[c] # "none"
  BY <1>1 DEF TcpInv, Reported, Owners, InTime
<1>3. ~ Released(c)
  <2> SUFFICES ASSUME Released(c) PROVE FALSE
    OBVIOUS
  <2>1. /\ stage[c] = "closed" /\ wheel[c] # "set"
        /\ \A l \in Loops, op \in Ops : ~ On(func, tasks, l, op, c)
    BY DEF TcpInv, Settled
  <2> QED BY <1>1, <2>1 DEF TcpInv, Reported
<1> QED BY <1>2, <1>3 DEF TcpInv, TcpTypes, Owners, Released

LEMMA PollStep == ASSUME TcpInv, NEW l \in Loops, Poll(l) PROVE TcpInv'
<1>1. PICK ready \in SUBSET epoll[l], client \in SUBSET {Acceptor} :
        actives' = [actives EXCEPT ![l] = {channels[l][d] : d \in ready} \cup client]
  BY DEF Poll
<1>2. epoll[l] \subseteq Fds /\ channels[l] \in [Fds -> Conns \cup {Nobody}]
  BY DEF TcpInv, TcpTypes
<1>3. \A c \in {channels[l][d] : d \in ready} :
        c \in Conns /\ stage[c] \in {"open", "revived"} /\ loop[c] = l
  BY <1>1, <1>2 DEF TcpInv, ChannelsAreCurrent
<1>4. actives' \in [Loops -> SUBSET (Conns \cup {Acceptor})]
  BY <1>1, <1>3 DEF TcpInv, TcpTypes
<1>5. \A m \in Loops, c \in Conns :
        c \in actives'[m] => stage[c] \in {"open", "revived"} /\ loop[c] = m
  BY <1>1, <1>3 DEF TcpInv, TcpTypes, Reported, Acceptor, Conns
<1>6. made # Nobody => Acceptor \in actives'[Base]
  <2>1. actives[l] = {} /\ actives \in [Loops -> SUBSET (Conns \cup {Acceptor})]
    BY DEF Poll, Idle, TcpInv, TcpTypes
  <2>2. Base \in Loops
    BY TcpServerAssumption DEF Base, Loops
  <2> QED BY <1>1, <2>1, <2>2 DEF TcpInv, Making
<1>7. UNCHANGED <<stage, fd, loop, made, owner, epoll, channels, posts, late, tasks, func, nextId,
                  nextIndex, conns, users, wheel, undefined>>
  BY DEF Poll, ids, wheels, user, poller, history
<1>8. /\ users \subseteq Conns /\ \A c \in users : stage[c] \in {"open", "closed", "revived"}
      /\ wheel \in [Conns -> {"none", "set", "canceled"}]
  BY DEF TcpInv, TcpTypes, Reported
<1> QED BY <1>4, <1>5, <1>6, <1>7, <1>8, CalmTasks

LEMMA HandleEventStep ==
  ASSUME TcpInv, NEW l \in Loops, NEW c \in Conns, HandleEvent(l, c) PROVE TcpInv'
<1>1. PICK n \in 0 .. MaxReleases :
        tasks' = PostReleases(tasks, l, c, n) /\ posts' = Asked(posts, c, n)
  BY DEF HandleEvent
<1>2. n \in Nat
  BY TcpServerAssumption
<1>3. /\ actives' = [actives EXCEPT ![l] = @ \ {c}] /\ c \in actives[l]
      /\ MayUpdate(l, c)
      /\ UNCHANGED <<nextId, nextIndex, made, fd, loop, users, owner, stage, conns, func, late,
                     wheel, undefined>>
  BY DEF HandleEvent, ids, user, wheels
<1>4. stage[c] \in {"open", "revived"} /\ loop[c] = l
  BY <1>3 DEF TcpInv, Reported
<1>5. /\ actives' \in [Loops -> SUBSET (Conns \cup {Acceptor})]
      /\ \A m \in Loops : actives'[m] \subseteq actives[m]
      /\ Acceptor \in actives[Base] => Acceptor \in actives'[Base]
  <2>1. c # Acceptor /\ Base \in Loops
    BY TcpServerAssumption DEF Conns, Acceptor, Base, Loops
  <2> QED BY <1>3, <2>1 DEF TcpInv, TcpTypes
<1>6. tasks' \in Queues /\ Gains(func, tasks, func', tasks', loop[c], "Release", c, n)
  <2>1. func \in Queues /\ tasks \in Queues
    BY DEF TcpInv, TcpTypes
  <2> QED BY <1>1, <1>2, <1>3, <1>4, <2>1, ReleasesGain
<1> QED
  BY <1>1, <1>2, <1>3, <1>4, <1>5, <1>6, Asking DEF MayUpdate, TcpInv, TcpTypes, Making

LEMMA OnInactiveStep ==
  ASSUME TcpInv, NEW l \in Loops, NEW c \in Conns, OnInactive(l, c) PROVE TcpInv'
<1>1. /\ loop[c] = l /\ wheel[c] # "none"
      /\ wheel' = [wheel EXCEPT ![c] = "none"]
      /\ UNCHANGED <<nextId, nextIndex, made, fd, loop, users, owner, epoll, channels, stage,
                     conns, func, late, actives, undefined>>
  BY DEF OnInactive, ids, poller
<1>2. /\ wheel' \in [Conns -> {"none", "set", "canceled"}]
      /\ \A o \in Conns : wheel'[o] \in {wheel[o], "none"}
  BY <1>1 DEF TcpInv, TcpTypes
<1>3. stage[c] # "none"
  BY <1>1 DEF TcpInv, Owners
<1>4. CASE wheel[c] = "set"
  <2>1. tasks' = Post(tasks, l, "Release", c) /\ posts' = Asked(posts, c, 1)
    BY <1>4 DEF OnInactive
  <2>2. tasks' \in Queues /\ Gains(func, tasks, func', tasks', loop[c], "Release", c, 1)
    <3>1. func \in Queues /\ tasks \in Queues /\ c \in Conns \cup {Nobody} /\ "Release" \in AllOps
      BY OpFacts DEF TcpInv, TcpTypes
    <3> QED BY <1>1, <2>1, <3>1, PostGains
  <2>3. 1 \in Nat /\ actives \in [Loops -> SUBSET (Conns \cup {Acceptor})] /\ func \in Queues
    BY DEF TcpInv, TcpTypes
  <2>4. made # Nobody => Acceptor \in actives[Base]
    BY DEF TcpInv, Making
  <2> QED BY <1>1, <1>2, <1>3, <2>1, <2>2, <2>3, <2>4, Asking
<1>5. CASE wheel[c] # "set"
  <2>1. UNCHANGED <<tasks, posts>>
    BY <1>5 DEF OnInactive
  <2> QED BY <1>1, <1>2, <2>1, CalmTasks DEF TcpInv, TcpTypes, Reported, Making
<1> QED BY <1>4, <1>5

LEMMA RunAllTaskStep == ASSUME TcpInv, NEW l \in Loops, RunAllTask(l) PROVE TcpInv'
<1>1. func \in Queues /\ tasks \in Queues
  BY DEF TcpInv, TcpTypes
<1>2. /\ func[l] = <<>> /\ func' = [func EXCEPT ![l] = tasks[l]]
      /\ tasks' = [tasks EXCEPT ![l] = <<>>]
  BY DEF RunAllTask, Idle
<1>3. /\ func' \in Queues /\ tasks' \in Queues
      /\ \A m \in Loops, e \in Tasks :
           /\ Waits(func', tasks', m, e) <=> Waits(func, tasks, m, e)
           /\ Single(func, tasks, m, e) => Single(func', tasks', m, e)
  BY <1>1, <1>2, Swapping
<1>4. Keeps(func, tasks, func', tasks')
  BY <1>3, TaskFacts DEF Keeps, On, One
<1>5. UNCHANGED <<stage, fd, loop, made, owner, epoll, channels, posts, late, users, actives,
                  nextIndex, nextId, conns, wheel, undefined>>
  BY DEF RunAllTask, ids, wheels, user, poller, history
<1> QED BY <1>3, <1>4, <1>5, Calm DEF TcpInv, TcpTypes, Reported, Making, Owners

\* A task that moves nothing but timers and references.
LEMMA TaskIsCalm ==
  ASSUME TcpInv, NEW l \in Loops, NEW op \in AllOps, NEW c \in Conns \cup {Nobody},
         Begins(l, op, c),
         UNCHANGED <<stage, fd, loop, made, owner, epoll, channels, posts, late, users, actives,
                     nextIndex, tasks>>,
         nextId' \in Nat, nextId' >= nextId,
         conns' \subseteq conns, \A o \in conns : o \in conns' \/ Released(o),
         wheel' \in [Conns -> {"none", "set", "canceled"}],
         \A o \in Conns : wheel'[o] # "none" => stage[o] # "none",
         \A o \in Conns : wheel'[o] = "set" => wheel[o] = "set" \/ ~ Released(o) \/ o \in late,
         undefined' => undefined \/ \E o \in Conns : posts[o] > 1 \/ o \in late
  PROVE  TcpInv'
<1>1. func' \in Queues /\ Keeps(func, tasks, func', tasks')
  <2>1. func \in Queues /\ tasks \in Queues
    BY DEF TcpInv, TcpTypes
  <2> QED BY <2>1, BeginsTakes
<1> QED BY <1>1, Calm DEF TcpInv, TcpTypes, Reported, Making

LEMMA UseOfDeadObjectStep ==
  ASSUME TcpInv, NEW l \in Loops, NEW c \in Conns, UseOfDeadObject(l, c) PROVE TcpInv'
<1>1. /\ ~ Alive(c)
      /\ UNCHANGED <<stage, fd, loop, made, owner, epoll, channels, posts, late, users, actives,
                     nextIndex, nextId, conns, wheel, tasks>>
  BY DEF UseOfDeadObject, ids, wheels, user, poller, history
<1>2. \/ c \in actives[l] /\ UNCHANGED func
      \/ wheel[c] = "set" /\ UNCHANGED func
      \/ \E op \in Ops : Begins(l, op, c)
  BY DEF UseOfDeadObject
<1>3. Used(c)
  <2>1. ASSUME NEW op \in Ops, Begins(l, op, c) PROVE Queued(Ops, c)
    <3>1. func[l] # <<>> /\ Head(func[l]) = Task(op, c) /\ func[l] \in Seq(Tasks)
      BY <2>1 DEF Begins, TcpInv, TcpTypes, Queues
    <3>2. 1 \in 1 .. Len(func[l]) /\ func[l][1] = Task(op, c)
      BY <3>1
    <3> QED BY <3>2 DEF Queued, Task
  <2> QED BY <1>2, <2>1 DEF Used
<1>4. posts[c] > 1 \/ c \in late
  <2>1. c \notin conns \cup {made} /\ posts[c] \in Nat
    BY <1>1 DEF Alive, TcpInv, TcpTypes
  <2> QED BY <1>3, <2>1, UsedIsHeld
<1>5. /\ \A o \in Conns : wheel[o] # "none" => stage[o] # "none"
      /\ nextId \in Nat /\ nextId >= nextId /\ wheel \in [Conns -> {"none", "set", "canceled"}]
  BY DEF TcpInv, TcpTypes, Owners
<1>6. CASE UNCHANGED func
  BY <1>1, <1>4, <1>5, <1>6, CalmTasks DEF TcpInv, TcpTypes, Reported, Making
<1>7. ASSUME NEW op \in Ops, Begins(l, op, c) PROVE TcpInv'
  <2>1. op \in AllOps /\ c \in Conns \cup {Nobody}
    BY OpFacts
  <2> QED BY <1>1, <1>4, <1>5, <1>7, <2>1, TaskIsCalm
<1> QED BY <1>2, <1>6, <1>7

LEMMA EstablishedStep ==
  ASSUME TcpInv, NEW l \in Loops, NEW c \in Conns, EstablishedInLoop(l, c) PROVE TcpInv'
<1>0. c \in Conns \cup {Nobody} /\ "Established" \in AllOps /\ "Established" \in Ops
      /\ func \in Queues /\ tasks \in Queues
  BY OpFacts DEF TcpInv, TcpTypes, Ops
<1>1. /\ Begins(l, "Established", c)
      /\ UNCHANGED <<nextId, nextIndex, made, fd, loop, users, owner, conns, actives, tasks, posts,
                     late, wheel>>
  BY DEF EstablishedInLoop, ids, user, wheels, history
<1>2. /\ func' \in Queues /\ On(func, tasks, l, "Established", c) /\ actives[l] = {}
      /\ Keeps(func, tasks, func', tasks')
      /\ One(func, tasks, l, "Established", c) => ~ On(func', tasks', l, "Established", c)
  BY <1>0, <1>1, BeginsTakes
<1>3. loop[c] = l /\ stage[c] \notin {"none", "open"} /\ One(func, tasks, l, "Established", c)
      /\ (made # Nobody => made # c)
  BY <1>0, <1>2 DEF TcpInv, InTime, Making
<1>4. CASE stage[c] = "accepted"
  <2>1. /\ stage' = [stage EXCEPT ![c] = "open"] /\ UpdateEvent(loop[c], c, fd[c])
        /\ undefined' = undefined
    BY <1>3, <1>4 DEF EstablishedInLoop
  <2>2. c \in conns /\ made # c
    BY <1>3, <1>4 DEF TcpInv, Owners, Conns, Nobody
  <2>3. \A m \in Loops : ~ On(func', tasks', m, "Established", c)
    <3> SUFFICES ASSUME NEW m \in Loops, On(func', tasks', m, "Established", c) PROVE FALSE
      OBVIOUS
    <3>1. On(func, tasks, m, "Established", c)
      BY <1>0, <1>2 DEF Keeps
    <3>2. m = l
      BY <1>0, <1>3, <3>1 DEF TcpInv, InTime
    <3> QED BY <1>2, <1>3, <3>2
  <2>4. conns \subseteq Conns /\ actives \in [Loops -> SUBSET (Conns \cup {Acceptor})]
    BY DEF TcpInv, TcpTypes
  <2> QED BY <1>0, <1>1, <1>2, <1>4, <2>1, <2>2, <2>3, <2>4, Opening
<1>5. CASE stage[c] # "accepted"
  <2>1. UNCHANGED <<stage, epoll, channels>>
    BY <1>5 DEF EstablishedInLoop
  <2>2. Released(c) /\ c \in late
    BY <1>0, <1>2, <1>3, <1>5 DEF TcpInv, TcpTypes, Settled, Released
  <2>3. /\ \A o \in Conns : wheel[o] # "none" => stage[o] # "none"
        /\ nextId \in Nat /\ nextId >= nextId /\ wheel \in [Conns -> {"none", "set", "canceled"}]
    BY DEF TcpInv, TcpTypes, Owners
  <2> QED BY <1>0, <1>1, <2>1, <2>2, <2>3, TaskIsCalm
<1> QED BY <1>4, <1>5

LEMMA SendStep ==
  ASSUME TcpInv, NEW l \in Loops, NEW c \in Conns, SendInLoop(l, c) PROVE TcpInv'
<1>0. c \in Conns \cup {Nobody} /\ "Send" \in AllOps /\ "Send" \in Ops
      /\ func \in Queues /\ tasks \in Queues
  BY OpFacts DEF TcpInv, TcpTypes, Ops, Calls
<1>1. /\ Begins(l, "Send", c)
      /\ IF stage[c] = "closed" THEN UNCHANGED <<epoll, channels>> ELSE MayUpdate(l, c)
      /\ UNCHANGED <<nextId, nextIndex, made, fd, loop, users, owner, conns, actives, tasks, posts,
                     late, wheel, undefined, stage>>
  BY DEF SendInLoop, ids, user, wheels, history
<1>2. func' \in Queues /\ On(func, tasks, l, "Send", c) /\ Keeps(func, tasks, func', tasks')
  BY <1>0, <1>1, BeginsTakes
<1>3. loop[c] = l /\ stage[c] \notin {"none", "accepted"}
  BY <1>0, <1>2 DEF TcpInv, InTime
<1>4. Gains(func, tasks, func', tasks', loop[c], "Release", c, 0)
  BY <1>2, GainsNothing
<1>5. posts' = posts
  BY <1>1
<1>6. \/ UNCHANGED <<epoll, channels>>
      \/ stage'[c] \in {"open", "revived"} /\ UpdateEvent(loop[c], c, fd[c])
  BY <1>1, <1>3 DEF TcpInv, TcpTypes, MayUpdate
<1>7. /\ actives \in [Loops -> SUBSET (Conns \cup {Acceptor})]
      /\ wheel \in [Conns -> {"none", "set", "canceled"}] /\ 0 \in Nat
      /\ made # Nobody => Acceptor \in actives[Base]
  BY DEF TcpInv, TcpTypes, Making
<1> QED BY <1>0, <1>1, <1>2, <1>3, <1>4, <1>5, <1>6, <1>7, Asking

LEMMA ShutdownStep ==
  ASSUME TcpInv, NEW l \in Loops, NEW c \in Conns, ShutdownInLoop(l, c) PROVE TcpInv'
<1>0. c \in Conns \cup {Nobody} /\ "Shutdown" \in AllOps /\ "Shutdown" \in Ops \ {"Release"}
      /\ func \in Queues /\ tasks \in Queues
  BY OpFacts DEF TcpInv, TcpTypes, Ops, Calls
<1>1. PICK n \in 0 .. MaxReleases :
        tasks' = PostReleases(tasks, l, c, n) /\ posts' = Asked(posts, c, n)
  BY DEF ShutdownInLoop
<1>2. /\ Begins(l, "Shutdown", c) /\ MayUpdate(l, c)
      /\ stage' = IF stage[c] = "closed" THEN [stage EXCEPT ![c] = "revived"] ELSE stage
      /\ UNCHANGED <<nextId, nextIndex, made, fd, loop, users, owner, conns, actives, late, wheel,
                     undefined>>
  BY DEF ShutdownInLoop, ids, user, wheels
<1>3. func' \in Queues /\ On(func, tasks, l, "Shutdown", c) /\ Keeps(func, tasks, func', tasks)
  BY <1>0, <1>2, BeginsTakes
<1>4. loop[c] = l /\ stage[c] \in {"open", "closed", "revived"}
  BY <1>0, <1>3 DEF TcpInv, TcpTypes, InTime
<1>5. n \in Nat
  BY TcpServerAssumption
<1>6. tasks' \in Queues /\ Gains(func, tasks, func', tasks', loop[c], "Release", c, n)
  BY <1>0, <1>1, <1>3, <1>4, <1>5, ReleasesGain, KeepsGains
<1>7. stage[c] = "closed" => c \in late
  BY <1>0, <1>3 DEF TcpInv, Settled, Released
<1>8. \/ stage' = stage
      \/ stage[c] = "closed" /\ c \in late /\ stage' = [stage EXCEPT ![c] = "revived"]
  BY <1>2, <1>7
<1>9. \/ UNCHANGED <<epoll, channels>>
      \/ stage'[c] \in {"open", "revived"} /\ UpdateEvent(loop[c], c, fd[c])
  BY <1>2, <1>4 DEF TcpInv, TcpTypes, MayUpdate
<1>10. /\ actives \in [Loops -> SUBSET (Conns \cup {Acceptor})]
       /\ wheel \in [Conns -> {"none", "set", "canceled"}]
       /\ made # Nobody => Acceptor \in actives[Base]
  BY DEF TcpInv, TcpTypes, Making
<1> QED BY <1>1, <1>2, <1>3, <1>4, <1>5, <1>6, <1>8, <1>9, <1>10, Asking

\* Those that enable and cancel the timer, and that which removes.
LEMMA OtherTasksStep ==
  ASSUME TcpInv, NEW l \in Loops, NEW c \in Conns,
         \/ EnableInactiveReleaseInLoop(l, c) \/ CancelInactiveReleaseInLoop(l, c)
         \/ RemoveConnectionInLoop(l, c)
  PROVE  TcpInv'
<1>0. c \in Conns \cup {Nobody} /\ {"Enable", "Cancel", "Remove"} \subseteq AllOps
      /\ "Enable" \in Ops \ {"Release"} /\ "Cancel" \in Ops
      /\ func \in Queues /\ tasks \in Queues /\ nextId \in Nat /\ nextId >= nextId
      /\ wheel \in [Conns -> {"none", "set", "canceled"}]
  BY OpFacts DEF TcpInv, TcpTypes, Ops, Calls
<1>1. UNCHANGED <<stage, fd, loop, made, owner, epoll, channels, posts, late, users, actives,
                  nextIndex, nextId, tasks, undefined>>
  BY DEF EnableInactiveReleaseInLoop, CancelInactiveReleaseInLoop, RemoveConnectionInLoop,
     ids, user, poller, history
<1>2. \A o \in Conns : wheel[o] # "none" => stage[o] # "none"
  BY DEF TcpInv, Owners
<1>3. CASE EnableInactiveReleaseInLoop(l, c)
  <2>1. Begins(l, "Enable", c) /\ wheel' = Enabled(wheel, c) /\ conns' = conns
    BY <1>3 DEF EnableInactiveReleaseInLoop
  <2>2. On(func, tasks, l, "Enable", c)
    BY <1>0, <2>1, BeginsTakes
  <2>3. stage[c] # "none" /\ (Released(c) => c \in late)
    BY <1>0, <2>2 DEF TcpInv, InTime, Settled
  <2>4. /\ wheel' \in [Conns -> {"none", "set", "canceled"}]
        /\ \A o \in Conns : wheel'[o] # "none" => stage[o] # "none"
        /\ \A o \in Conns : wheel'[o] = "set" => wheel[o] = "set" \/ ~ Released(o) \/ o \in late
    BY <1>0, <1>2, <2>1, <2>3 DEF Enabled
  <2> QED BY <1>0, <1>1, <2>1, <2>4, TaskIsCalm
<1>4. CASE CancelInactiveReleaseInLoop(l, c)
  <2>1. Begins(l, "Cancel", c) /\ wheel' = Canceled(wheel, c) /\ conns' = conns
    BY <1>4 DEF CancelInactiveReleaseInLoop
  <2>2. /\ wheel' \in [Conns -> {"none", "set", "canceled"}]
        /\ \A o \in Conns : wheel'[o] # "none" => stage[o] # "none"
        /\ \A o \in Conns : wheel'[o] = "set" => wheel[o] = "set" \/ ~ Released(o) \/ o \in late
    BY <1>0, <1>2, <2>1 DEF Canceled
  <2> QED BY <1>0, <1>1, <2>1, <2>2, TaskIsCalm
<1>5. CASE RemoveConnectionInLoop(l, c)
  <2>1. Begins(l, "Remove", c) /\ conns' = conns \ {c} /\ wheel' = wheel
    BY <1>5 DEF RemoveConnectionInLoop, wheels
  <2>2. On(func, tasks, l, "Remove", c)
    BY <1>0, <2>1, BeginsTakes
  <2>3. Released(c)
    BY <2>2 DEF TcpInv, InTime
  <2> QED BY <1>0, <1>1, <1>2, <2>1, <2>3, TaskIsCalm
<1> QED BY <1>3, <1>4, <1>5

LEMMA TimersStep ==
  ASSUME TcpInv, RunAfterInLoop \/ (\E id \in timers : OnTime(id)) \/ RunAfter PROVE TcpInv'
<1>0. Base \in Loops /\ func \in Queues /\ tasks \in Queues /\ nextId \in Nat
      /\ Nobody \in Conns \cup {Nobody} /\ "RunAfter" \in AllOps
      /\ wheel \in [Conns -> {"none", "set", "canceled"}]
      /\ \A o \in Conns : wheel[o] # "none" => stage[o] # "none"
  BY TcpServerAssumption, OpFacts DEF Base, Loops, TcpInv, TcpTypes, Owners
<1>1. CASE RunAfterInLoop
  <2>1. Begins(Base, "RunAfter", Nobody) /\ nextId' = nextId + 1
    BY <1>1 DEF RunAfterInLoop
  <2>2. UNCHANGED <<stage, fd, loop, made, owner, epoll, channels, posts, late, users, actives,
                    nextIndex, conns, wheel, tasks, undefined>>
    BY <1>1 DEF RunAfterInLoop, user, poller, history
  <2>3. nextId' \in Nat /\ nextId' >= nextId
    BY <1>0, <2>1
  <2> QED BY <1>0, <2>1, <2>2, <2>3, TaskIsCalm
<1>2. CASE \E id \in timers : OnTime(id)
  <2>1. UNCHANGED <<stage, fd, loop, made, owner, epoll, channels, posts, late, users, actives,
                    nextId, nextIndex, conns, wheel, tasks, func, undefined>>
    BY <1>2 DEF OnTime, ids, user, poller, history
  <2> QED BY <1>0, <2>1, CalmTasks DEF TcpInv, TcpTypes, Reported, Making
<1>3. CASE RunAfter
  <2>1. tasks' = Post(tasks, Base, "RunAfter", Nobody)
    BY <1>3 DEF RunAfter
  <2>2. UNCHANGED <<stage, fd, loop, made, owner, epoll, channels, posts, late, users, actives,
                    nextIndex, nextId, conns, wheel, func, undefined>>
    BY <1>3 DEF RunAfter, ids, wheels, poller, history
  <2>3. tasks' \in Queues /\ Gains(func, tasks, func', tasks', Base, "RunAfter", Nobody, 1)
    BY <1>0, <2>1, <2>2, PostGains
  <2>4. Keeps(func, tasks, func', tasks')
    BY <2>3, GainsNothing
  <2> QED BY <1>0, <2>2, <2>3, <2>4, Calm DEF TcpInv, TcpTypes, Reported, Making
<1> QED BY <1>1, <1>2, <1>3

LEMMA UserStep ==
  ASSUME TcpInv, NEW c \in Conns,
         \/ UserTakesReference(c) \/ UserDropsReference(c)
         \/ \E op \in Calls : UserCalls(op, c)
  PROVE  TcpInv'
<1>0. /\ func \in Queues /\ tasks \in Queues /\ nextId \in Nat
      /\ wheel \in [Conns -> {"none", "set", "canceled"}]
      /\ actives \in [Loops -> SUBSET (Conns \cup {Acceptor})]
      /\ \A o \in Conns : wheel[o] # "none" => stage[o] # "none"
      /\ made # Nobody => Acceptor \in actives[Base]
  BY DEF TcpInv, TcpTypes, Owners, Making
<1>1. CASE UserTakesReference(c) \/ UserDropsReference(c)
  <2>1. UNCHANGED <<stage, fd, loop, made, owner, epoll, channels, posts, late, actives,
                    nextId, nextIndex, conns, wheel, tasks, func, undefined>>
    BY <1>1 DEF UserTakesReference, UserDropsReference, ids, wheels, poller, history
  <2>2. users' = users \ {c} \/ (users' = users \cup {c} /\ stage[c] = "open")
    BY <1>1 DEF UserTakesReference, UserDropsReference
  <2>3. users' \subseteq Conns /\ \A o \in users' : stage[o] \in {"open", "closed", "revived"}
    BY <2>2 DEF TcpInv, TcpTypes, Reported
  <2> QED BY <1>0, <2>1, <2>3, CalmTasks DEF TcpInv, TcpTypes, Reported
<1>2. ASSUME NEW op \in Calls, UserCalls(op, c) PROVE TcpInv'
  <2>1. /\ c \in users /\ tasks' = Post(tasks, loop[c], op, c)
        /\ IF op = "Release" THEN posts' = Asked(posts, c, 1) /\ UNCHANGED late
           ELSE late' = (IF Released(c) THEN late \cup {c} ELSE late) /\ UNCHANGED posts
        /\ UNCHANGED <<nextId, nextIndex, fd, loop, made, stage, conns, users, owner, epoll,
                       channels, wheel, actives, func, undefined>>
    BY <1>2 DEF UserCalls, ids, wheels, poller
  <2>2. stage[c] \in {"open", "closed", "revived"}
    BY <2>1 DEF TcpInv, Reported
  <2>3. op \in Ops /\ op \in AllOps /\ op # "Established"
    BY OpFacts DEF Ops, Calls
  <2>4. CASE op = "Release"
    <3>1. tasks' \in Queues /\ Gains(func, tasks, func', tasks', loop[c], "Release", c, 1)
      <4>1. c \in Conns \cup {Nobody} /\ loop[c] \in Loops
        BY DEF TcpInv, TcpTypes
      <4>2. PICK m \in Loops : m = loop[c]
        BY <4>1
      <4> QED BY <1>0, <2>1, <2>3, <2>4, <4>1, <4>2, PostGains
    <3> QED BY <1>0, <2>1, <2>2, <2>4, <3>1, Asking
  <2>5. CASE op # "Release"
    <3>1. op \in Ops \ {"Release"} /\ late' \in {late, late \cup {c}} /\ (Released(c) => c \in late')
          /\ posts' = posts /\ conns \subseteq Conns
      BY <2>1, <2>3, <2>5 DEF TcpInv, TcpTypes
    <3> QED BY <1>0, <2>1, <2>2, <2>3, <3>1, Calling
  <2> QED BY <2>4, <2>5
<1> QED BY <1>1, <1>2

LEMMA InsertConnectionStep == ASSUME TcpInv, InsertConnection PROVE TcpInv'
<1>0. /\ func \in Queues /\ tasks \in Queues /\ made \in Conns /\ Base \in Loops
      /\ actives \in [Loops -> SUBSET (Conns \cup {Acceptor})] /\ conns \subseteq Conns
  BY TcpServerAssumption DEF TcpInv, TcpTypes, InsertConnection, Base, Loops
<1>1. /\ made' = Nobody /\ conns' = conns \cup {made}
      /\ actives' = [actives EXCEPT ![Base] = @ \ {Acceptor}]
      /\ UNCHANGED <<nextId, nextIndex, fd, loop, users, owner, func, posts, late, wheel,
                     undefined>>
  BY DEF InsertConnection, ids, wheels, user, history
<1>2. /\ actives' \in [Loops -> SUBSET (Conns \cup {Acceptor})]
      /\ \A l \in Loops : actives'[l] \subseteq actives[l]
  BY <1>0, <1>1
<1>3. /\ stage[made] \notin {"none", "open"} /\ (PoolSize = 0 => stage[made] = "accepted")
      /\ \A l \in Loops : ~ On(func, tasks, l, "Established", made)
  BY <1>0 DEF TcpInv, Making, Conns, Nobody
<1>4. PICK c \in Conns : c = made
  BY <1>0
<1>5. CASE PoolSize = 0
  <2>1. /\ stage' = [stage EXCEPT ![c] = "open"] /\ UpdateEvent(Base, c, fd[c])
        /\ UNCHANGED tasks
    BY <1>4, <1>5 DEF InsertConnection
  <2>2. loop[c] = Base
    BY <1>5 DEF TcpInv, TcpTypes, Loops, Base
  <2>3. Keeps(func, tasks, func', tasks')
    BY <1>1, <2>1, GainsNothing
  <2>4. \A l \in Loops : ~ On(func', tasks', l, "Established", c)
    BY <1>1, <1>3, <1>4, <2>1
  <2> QED BY <1>0, <1>1, <1>2, <1>3, <1>4, <1>5, <2>1, <2>2, <2>3, <2>4, Opening
<1>6. CASE PoolSize # 0
  <2>1. tasks' = Post(tasks, loop[c], "Established", c) /\ UNCHANGED <<stage, epoll, channels>>
    BY <1>4, <1>6 DEF InsertConnection
  <2>2. "Established" \in Ops \ {"Release"} /\ "Established" \notin {"Send", "Shutdown"}
    BY DEF Ops
  <2>3. Released(c) => c \in late
    BY <1>4 DEF TcpInv, Settled
  <2> QED BY <1>0, <1>1, <1>2, <1>3, <1>4, <2>1, <2>2, <2>3, Calling
<1> QED BY <1>5, <1>6

LEMMA AcceptFailsStep == ASSUME TcpInv, AcceptFails PROVE TcpInv'
<1>1. /\ actives \in [Loops -> SUBSET (Conns \cup {Acceptor})] /\ Base \in Loops
      /\ \A o \in Conns : wheel[o] # "none" => stage[o] # "none"
  BY TcpServerAssumption DEF TcpInv, TcpTypes, Owners, Base, Loops
<1>2. /\ made = Nobody
      /\ actives' = [actives EXCEPT ![Base] = @ \ {Acceptor}]
      /\ UNCHANGED <<stage, fd, loop, made, owner, epoll, channels, posts, late, users,
                     nextId, nextIndex, conns, wheel, tasks, func, undefined>>
  BY DEF AcceptFails, Free, ids, wheels, user, poller, history
<1>3. /\ actives' \in [Loops -> SUBSET (Conns \cup {Acceptor})]
      /\ \A l \in Loops : actives'[l] \subseteq actives[l]
  BY <1>1, <1>2
<1> QED BY <1>1, <1>2, <1>3, CalmTasks DEF TcpInv, TcpTypes, Reported

LEMMA TcpStep == TcpInv /\ [TcpNext]_vars => TcpInv'
<1> SUFFICES ASSUME TcpInv, [TcpNext]_vars PROVE TcpInv'
  OBVIOUS
<1>1. ASSUME NEW l \in Loops, Poll(l) \/ Thread(l) PROVE TcpInv'
  <2>1. ASSUME NEW c \in Conns, RunTask(l, c) PROVE TcpInv'
    BY <2>1, EstablishedStep, SendStep, ShutdownStep, ReleaseStep, OtherTasksStep DEF RunTask
  <2>2. ASSUME NEW c \in Conns, HandleEvent(l, c) \/ OnInactive(l, c) \/ UseOfDeadObject(l, c)
        PROVE  TcpInv'
    BY <2>2, HandleEventStep, OnInactiveStep, UseOfDeadObjectStep
  <2> QED BY <1>1, <2>1, <2>2, PollStep, RunAllTaskStep, TimersStep DEF Thread
<1>2. CASE Accepting
  BY <1>2, NewConnectionStep, InsertConnectionStep, AcceptFailsStep DEF Accepting
<1>3. CASE User
  BY <1>3, UserStep, TimersStep DEF User
<1>4. CASE UNCHANGED vars
  <2>1. UNCHANGED <<stage, fd, loop, made, owner, epoll, channels, posts, late, tasks, func,
                    nextId, nextIndex, conns, users, actives, wheel, undefined>>
    BY <1>4 DEF vars, ids, wheels, user, poller, history
  <2> QED BY <2>1, CalmTasks DEF TcpInv, TcpTypes, Reported, Making
<1> QED BY <1>1, <1>2, <1>3, <1>4 DEF TcpNext

LEMMA TcpInvariant == ServerSpec => []TcpInv
<1>1. ServerInit => TcpInv
  BY InitTcp DEF ServerInit
<1>2. TcpInv /\ [ServerNext]_serverVars => TcpInv'
  <2>1. [ServerNext]_serverVars => [TcpNext]_vars
    BY DEF ServerNext, StartsUp, Serves, serverVars, TcpNext
  <2> QED BY <2>1, TcpStep
<1> QED BY <1>1, <1>2, PTL DEF ServerSpec

-----------------------------------------------------------------------------
(* What follows.                                                            *)

\* The channels a poller knows own their descriptors and are of open connections,
\* but those a late Shutdown has revived; what epoll reports is among them
\* (UpdateEvent, RemoveEvent and "assert(it != _chennels.end())" of Poll).
THEOREM PollersAreCurrent == ServerSpec => []ChannelsAreCurrent
<1>1. TcpInv => ChannelsAreCurrent
  BY DEF TcpInv
<1> QED BY <1>1, TcpInvariant, PTL

\* An open connection is in its poller and its epoll set, unless one that had its
\* descriptor before on this loop was asked twice to be released, or revived
\* (ReleaseInLoop again, ShutdownInLoop after it).
THEOREM OpenConnectionsAreWatched == ServerSpec => []OpenIsWatched
<1>1. TcpInv => OpenIsWatched
  BY DEF TcpInv
<1> QED BY <1>1, TcpInvariant, PTL

\* Events reported before, timers and the tasks that are bound to a bare Connection*
\* (all of them but the removal) find it in _conns or in NewConnection's hands, and
\* EstablishedInLoop finds it CONNECTING, if it is asked only once to be released and
\* no call comes late: nothing else leads to an object that is gone.
THEOREM TasksFindTheirConnection == ServerSpec => []NothingOutlivesItsConnection
<1>1. TcpInv => NothingOutlivesItsConnection
  <2>1. ASSUME TcpInv PROVE undefined => \E c \in Conns : posts[c] > 1 \/ c \in late
    BY <2>1 DEF TcpInv, Blamed
  <2> QED BY <2>1, UsedIsHeld DEF NothingOutlivesItsConnection
<1> QED BY <1>1, TcpInvariant, PTL

-----------------------------------------------------------------------------
(* Types.                                                                   *)

\* Ids of connections and of timers have been given out.
GivenOut ==
  /\ nextId \in Nat /\ timers \subseteq 1 .. nextId /\ conns \subseteq 1 .. nextId
  /\ made \in 0 .. nextId /\ phase \in [Loops -> {"poll", "handle"}]

LEMMA GivenOutStep == GivenOut /\ [TcpNext]_vars => GivenOut'
<1> SUFFICES ASSUME GivenOut, [TcpNext]_vars PROVE GivenOut'
  OBVIOUS
<1> DEFINE Given == /\ nextId' = nextId + 1 /\ timers' \subseteq timers \cup {nextId'}
                    /\ made' \in {made, nextId'} /\ conns' = conns /\ phase' = phase
           Kept  == /\ nextId' = nextId /\ timers' \subseteq timers
                    /\ conns' \subseteq conns \cup ({made} \ {Nobody}) /\ made' \in {made, Nobody}
                    /\ phase' \in [Loops -> {"poll", "handle"}]
<1>1. Given => GivenOut'
  BY DEF GivenOut
<1>2. Kept => GivenOut'
  BY DEF GivenOut, Nobody
<1>3. UNCHANGED vars \/ AcceptFails \/ InsertConnection => Kept
  BY DEF vars, AcceptFails, InsertConnection, ids, wheels, GivenOut
<1>4. NewConnection \/ RunAfterInLoop => Given
  BY DEF NewConnection, RunAfterInLoop
<1>5. User => Kept
  BY DEF User, RunAfter, UserTakesReference, UserCalls, UserDropsReference, ids, wheels, GivenOut
<1>6. ASSUME NEW id, OnTime(id) PROVE Kept
  BY <1>6 DEF OnTime, ids, GivenOut
<1>7. ASSUME NEW l \in Loops, Poll(l) \/ RunAllTask(l) PROVE Kept
  BY <1>7 DEF Poll, RunAllTask, ids, wheels, GivenOut
<1>8. ASSUME NEW l \in Loops, NEW c \in Conns,
             HandleEvent(l, c) \/ OnInactive(l, c) \/ UseOfDeadObject(l, c) \/ RunTask(l, c)
      PROVE  Kept
  <2>1. CASE HandleEvent(l, c) \/ OnInactive(l, c) \/ UseOfDeadObject(l, c)
    BY <2>1 DEF HandleEvent, OnInactive, UseOfDeadObject, ids, wheels, GivenOut
  <2>2. CASE RunTask(l, c)
    BY <2>2 DEF RunTask, EstablishedInLoop, SendInLoop, ShutdownInLoop,
       EnableInactiveReleaseInLoop, CancelInactiveReleaseInLoop, ReleaseInLoop,
       RemoveConnectionInLoop, ids, wheels, GivenOut
  <2> QED BY <1>8, <2>1, <2>2
<1> HIDE DEF Given, Kept
<1>9. ASSUME NEW l \in Loops, Poll(l) \/ Thread(l) PROVE Given \/ Kept
  BY <1>4, <1>6, <1>7, <1>8, <1>9 DEF Thread
<1> QED BY <1>1, <1>2, <1>3, <1>4, <1>5, <1>9 DEF TcpNext, Accepting

\* Every variable of the server's loops has its type; in particular ids are
\* those that _next_id has given out, to connections and timers alike.
THEOREM TypeCorrect == ServerSpec => []TypeOK
<1>1. ServerInit => GivenOut
  BY DEF ServerInit, Init, GivenOut, Nobody
<1>2. GivenOut /\ [ServerNext]_serverVars => GivenOut'
  <2>1. [ServerNext]_serverVars => [TcpNext]_vars
    BY DEF ServerNext, StartsUp, Serves, serverVars, TcpNext
  <2> QED BY <2>1, GivenOutStep
<1>3. TcpInv /\ GivenOut => TypeOK
  <2> SUFFICES ASSUME TcpInv, GivenOut PROVE TypeOK
    OBVIOUS
  <2>1. users \subseteq 1 .. nextId
    <3>1. \A c \in users : c \in Conns /\ stage[c] # "none"
      BY DEF TcpInv, TcpTypes, Reported
    <3>2. \A c \in Conns : c \in Nat \ {0}
      BY TcpServerAssumption DEF Conns
    <3> QED BY <3>1, <3>2 DEF TcpInv, Owners, GivenOut
  <2> QED BY <2>1 DEF TcpInv, TcpTypes, GivenOut, TypeOK
<1> QED BY <1>1, <1>2, <1>3, TcpInvariant, PTL DEF ServerSpec
=============================================================================
