-------------------------- MODULE HttpServerProofs --------------------------
(***************************************************************************)
(* What holds of HttpServer for every tree and base directory, all routes  *)
(* and any requests: every target, every query, any number of them.        *)
(***************************************************************************)
EXTENDS HttpServer, SequenceTheorems, FiniteSetTheorems, WellFoundedInduction, TLAPS

-----------------------------------------------------------------------------
(* Induction and recursion.                                                 *)

LEMMA LowestOf ==
  ASSUME NEW T \in SUBSET Nat, T # {}
  PROVE  \E i \in T : \A j \in T : i <= j
<1> DEFINE R == OpToRel(<, Nat)
<1>1. IsWellFoundedOn(R, Nat)
  BY NatLessThanWellFounded
<1>2. \A x, y \in Nat : <<x, y>> \in R <=> x < y
  BY DEF OpToRel
<1> HIDE DEF R
<1>3. PICK i \in T : \A j \in T : ~ (<<j, i>> \in R)
  BY <1>1, WFMin
<1>4. ASSUME NEW j \in T PROVE i <= j
  <2>1. i \in Nat /\ j \in Nat /\ ~ (j < i)
    BY <1>2, <1>3
  <2> QED BY <2>1
<1> QED BY <1>4

LEMMA MinIsIt ==
  ASSUME NEW T \in SUBSET Nat, NEW i \in T, \A j \in T : i <= j
  PROVE  Min(T) = i
<1>1. Min(T) \in T /\ \A j \in T : Min(T) <= j
  BY DEF Min
<1>2. Min(T) \in Nat /\ i \in Nat /\ Min(T) <= i /\ i <= Min(T)
  BY <1>1
<1> QED BY <1>2

LEMMA MinOf ==
  ASSUME NEW T \in SUBSET Nat, T # {}
  PROVE  Min(T) \in T /\ \A j \in T : Min(T) <= j
BY LowestOf, MinIsIt

LEMMA HighestOf ==
  ASSUME NEW n \in Nat, NEW T \in SUBSET (0 .. n), T # {}
  PROVE  \E i \in T : \A j \in T : j <= i
<1> DEFINE M == {n - i : i \in T}
<1>1. M \in SUBSET Nat /\ M # {}
  <2>1. \A i \in T : n - i \in Nat
    OBVIOUS
  <2> QED BY <2>1
<1> HIDE DEF M
<1>2. PICK m \in M : \A k \in M : m <= k
  BY <1>1, LowestOf
<1>3. PICK i \in T : m = n - i
  BY <1>2 DEF M
<1>4. ASSUME NEW j \in T PROVE j <= i
  <2>1. n - j \in M
    BY DEF M
  <2>2. n - i <= n - j /\ i \in Nat /\ j \in Nat
    BY <1>2, <1>3, <2>1
  <2> QED BY <2>2
<1> QED BY <1>4

\* Induction, on a set of numbers.
LEMMA AllNumbers ==
  ASSUME NEW T \in SUBSET Nat, 0 \in T, \A k \in T : k + 1 \in T
  PROVE  T = Nat
<1> SUFFICES ASSUME Nat \ T # {} PROVE FALSE
  OBVIOUS
<1>1. PICK i \in Nat \ T : \A j \in Nat \ T : i <= j
  BY LowestOf
<1>2. i # 0 /\ i - 1 \in Nat /\ ~ (i <= i - 1)
  BY <1>1
<1>3. i - 1 \in T
  BY <1>1, <1>2
<1>4. (i - 1) + 1 \in T /\ (i - 1) + 1 = i
  BY <1>1, <1>3
<1> QED BY <1>1, <1>4

\* A function that is defined by its values at elements of lower rank is there.
LooksBelow(D, S, rank, step) ==
  \A k \in D : \A g, h \in [D -> S] :
    (\A j \in D : rank[j] < rank[k] => g[j] = h[j]) => step[k][g] = step[k][h]
IsDefined(D, S, step) == \E f \in [D -> S] : \A k \in D : f[k] = step[k][f]

LEMMA Recursion ==
  ASSUME NEW D, NEW S, S # {}, NEW n \in Nat, NEW rank \in [D -> 0 .. n],
         NEW step \in [D -> [[D -> S] -> S]], LooksBelow(D, S, rank, step)
  PROVE  IsDefined(D, S, step)
<1> DEFINE T == {m \in Nat : \E g \in [D -> S] :
                              \A k \in D : rank[k] < m => g[k] = step[k][g]}
<1>1. 0 \in T
  <2>1. PICK s \in S : TRUE
    OBVIOUS
  <2>2. [k \in D |-> s] \in [D -> S]
    OBVIOUS
  <2>3. \A k \in D : ~ (rank[k] < 0)
    OBVIOUS
  <2> QED BY <2>2, <2>3
<1>2. ASSUME NEW m \in T PROVE m + 1 \in T
  <2>1. m \in Nat /\ m + 1 \in Nat
    OBVIOUS
  <2>2. PICK g \in [D -> S] : \A k \in D : rank[k] < m => g[k] = step[k][g]
    OBVIOUS
  <2> DEFINE h == [k \in D |-> IF rank[k] = m THEN step[k][g] ELSE g[k]]
  <2>3. \A k \in D : step[k][g] \in S
    BY <2>2
  <2>4. h \in [D -> S]
    BY <2>2, <2>3
  <2>5. \A k \in D : rank[k] < m => h[k] = g[k]
    BY <2>1
  <2>6. \A k \in D : rank[k] = m => h[k] = step[k][g]
    OBVIOUS
  <2> HIDE DEF h
  <2>7. ASSUME NEW k \in D, rank[k] < m + 1 PROVE h[k] = step[k][h]
    <3>1. rank[k] \in Nat /\ (rank[k] < m \/ rank[k] = m)
      <4>1. rank[k] \in 0 .. n /\ rank[k] < m + 1
        BY <2>7
      <4>2. \A i, j \in Nat : i < j + 1 => i < j \/ i = j
        OBVIOUS
      <4>3. rank[k] \in Nat
        BY <4>1
      <4> QED BY <2>1, <4>1, <4>2, <4>3, Zenon
    <3>2. \A j \in D : rank[j] < rank[k] => g[j] = h[j]
      BY <2>1, <2>5, <3>1
    <3>3. step[k][g] = step[k][h]
      BY <2>2, <2>4, <3>2 DEF LooksBelow
    <3>4. h[k] = step[k][g]
      BY <2>2, <2>5, <2>6, <3>1
    <3> QED BY <3>3, <3>4
  <2> QED BY <2>1, <2>4, <2>7
<1>3. T = Nat
  <2> HIDE DEF T
  <2>1. T \in SUBSET Nat
    BY DEF T
  <2> QED BY <1>1, <1>2, <2>1, AllNumbers
<1>4. n + 1 \in T
  <2>1. n + 1 \in Nat
    OBVIOUS
  <2> HIDE DEF T
  <2> QED BY <1>3, <2>1
<1>5. \A k \in D : rank[k] < n + 1
  OBVIOUS
<1> QED BY <1>4, <1>5 DEF IsDefined

-----------------------------------------------------------------------------
(* The parts of a text.                                                     *)

Seps(text, sep) == {k \in 1 .. Len(text) : text[k] = sep}
Starts(text, sep) == {1} \cup {k + 1 : k \in {j \in Seps(text, sep) : j + 1 \notin Seps(text, sep)}}
Below(T, k) == {j \in T : j < k}
Nth(T, n) == CHOOSE k \in T : Cardinality(Below(T, k)) = n - 1
EndOf(text, sep, k) == Min({j \in Seps(text, sep) : j >= k} \cup {Len(text) + 1}) - 1
Part(text, sep, k) == SubSeq(text, k, EndOf(text, sep, k))

LEMMA SplitIs ==
  ASSUME NEW text, NEW sep
  PROVE  SplitString(text, sep) =
           [n \in 1 .. Cardinality(Starts(text, sep)) |->
              Part(text, sep, Nth(Starts(text, sep), n))]
BY DEF SplitString, Seps, Starts, Below, Nth, EndOf, Part

\* The numbers of a finite set can be counted from the lowest on.
LEMMA NthIsThere ==
  ASSUME NEW T \in SUBSET Nat, IsFiniteSet(T), NEW n \in 1 .. Cardinality(T)
  PROVE  Nth(T, n) \in T /\ Cardinality(Below(T, Nth(T, n))) = n - 1
<1> DEFINE M == {m \in Nat : m < Cardinality(T) =>
                              \E k \in T : Cardinality(Below(T, k)) = m}
<1>1. Cardinality(T) \in Nat
  BY FS_CardinalityType
<1>2. 0 \in M
  <2> SUFFICES ASSUME 0 < Cardinality(T)
               PROVE  \E k \in T : Cardinality(Below(T, k)) = 0
    OBVIOUS
  <2>1. T # {}
    BY FS_EmptySet
  <2>2. PICK k \in T : \A j \in T : k <= j
    BY <2>1, LowestOf
  <2>3. Below(T, k) = {}
    <3>1. ASSUME NEW j \in T PROVE ~ (j < k)
      <4>1. j \in Nat /\ k \in Nat /\ k <= j
        BY <2>2
      <4> QED BY <4>1
    <3> QED BY <3>1 DEF Below
  <2> QED BY <2>3, FS_EmptySet
<1>3. ASSUME NEW m \in M PROVE m + 1 \in M
  <2>1. m \in Nat /\ m + 1 \in Nat
    OBVIOUS
  <2> SUFFICES ASSUME m + 1 < Cardinality(T)
               PROVE  \E k \in T : Cardinality(Below(T, k)) = m + 1
    BY <2>1
  <2>2. m < Cardinality(T)
    BY <1>1, <2>1
  <2>3. PICK k \in T : Cardinality(Below(T, k)) = m
    BY <2>2
  <2> HIDE DEF M
  <2> DEFINE low == Below(T, k) \cup {k}
             high == {j \in T : j > k}
  <2>4. IsFiniteSet(Below(T, k)) /\ k \notin Below(T, k)
    BY FS_Subset DEF Below
  <2>5. IsFiniteSet(low) /\ Cardinality(low) = m + 1
    BY <2>3, <2>4, FS_AddElement
  <2>6. high # {}
    <3>1. ASSUME high = {} PROVE FALSE
      <4>1. ASSUME NEW j \in T PROVE j \in low
        <5>1. j \in Nat /\ k \in Nat /\ ~ (j > k)
          BY <3>1
        <5>2. j < k \/ j = k
          BY <5>1
        <5> QED BY <5>2 DEF Below
      <4>2. low \subseteq T
        BY DEF Below
      <4>3. T = low
        BY <4>1, <4>2
      <4>4. m + 1 < m + 1
        BY <2>5, <4>3
      <4> QED BY <2>1, <4>4
    <3> QED BY <3>1
  <2>7. PICK l \in high : \A j \in high : l <= j
    BY <2>6, LowestOf
  <2>8. Below(T, l) = low
    <3>1. l \in T /\ l \in Nat /\ k \in Nat /\ k < l
      BY <2>7
    <3>2. ASSUME NEW j \in T PROVE j < l <=> j < k \/ j = k
      <4>1. j \in Nat
        OBVIOUS
      <4>2. j > k => l <= j
        BY <2>7
      <4> QED BY <3>1, <4>1, <4>2
    <3> QED BY <3>2 DEF Below
  <2> QED BY <2>5, <2>7, <2>8
<1>4. M = Nat
  <2> HIDE DEF M
  <2>1. M \in SUBSET Nat
    BY DEF M
  <2> QED BY <1>2, <1>3, <2>1, AllNumbers
<1>5. n - 1 \in Nat /\ n - 1 < Cardinality(T)
  BY <1>1
<1>6. \E k \in T : Cardinality(Below(T, k)) = n - 1
  <2>1. n - 1 \in M
    BY <1>4, <1>5
  <2> QED BY <1>5, <2>1
<1> QED BY <1>6 DEF Nth

LEMMA StartsAreThere ==
  ASSUME NEW S, NEW text \in Seq(S), NEW sep
  PROVE  /\ Starts(text, sep) \in SUBSET (1 .. Len(text) + 1)
         /\ IsFiniteSet(Starts(text, sep)) /\ Cardinality(Starts(text, sep)) \in Nat
         /\ Seps(text, sep) \in SUBSET (1 .. Len(text)) /\ Len(text) \in Nat
<1>1. Len(text) \in Nat
  BY LenProperties
<1>2. Seps(text, sep) \in SUBSET (1 .. Len(text))
  BY DEF Seps
<1>3. Starts(text, sep) \in SUBSET (1 .. Len(text) + 1)
  BY <1>1, <1>2 DEF Starts
<1>4. IsFiniteSet(1 .. Len(text) + 1)
  BY <1>1, FS_Interval
<1>5. IsFiniteSet(Starts(text, sep))
  BY <1>3, <1>4, FS_Subset
<1> QED BY <1>1, <1>2, <1>3, <1>5, FS_CardinalityType

LEMMA EndIsThere ==
  ASSUME NEW S, NEW text \in Seq(S), NEW sep, NEW k \in 1 .. Len(text) + 1
  PROVE  /\ EndOf(text, sep, k) \in k - 1 .. Len(text)
         /\ \A j \in Seps(text, sep) : j >= k => EndOf(text, sep, k) <= j - 1
<1> DEFINE ends == {j \in Seps(text, sep) : j >= k} \cup {Len(text) + 1}
<1>1. Seps(text, sep) \in SUBSET (1 .. Len(text)) /\ Len(text) \in Nat
  BY StartsAreThere
<1>2. ends \in SUBSET Nat /\ Len(text) + 1 \in ends /\ \A j \in ends : j >= k
  BY <1>1
<1> HIDE DEF ends
<1>3. Min(ends) \in ends /\ \A j \in ends : Min(ends) <= j
  BY <1>2, MinOf
<1>4. Min(ends) \in k .. Len(text) + 1 /\ EndOf(text, sep, k) = Min(ends) - 1
  BY <1>1, <1>2, <1>3 DEF EndOf, ends
<1>5. ASSUME NEW j \in Seps(text, sep), j >= k PROVE EndOf(text, sep, k) <= j - 1
  <2>1. j \in ends /\ j \in Nat
    BY <1>1, <1>5 DEF ends
  <2>2. Min(ends) <= j
    BY <1>3, <2>1
  <2> QED BY <1>1, <1>4, <2>1, <2>2
<1> QED BY <1>1, <1>4, <1>5

LEMMA PartIsText ==
  ASSUME NEW S, NEW text \in Seq(S), NEW sep, NEW k \in 1 .. Len(text) + 1
  PROVE  Part(text, sep, k) \in Seq(S)
<1> DEFINE e == EndOf(text, sep, k)
<1>1. e \in k - 1 .. Len(text) /\ Len(text) \in Nat /\ k \in Int
  BY EndIsThere, StartsAreThere
<1> HIDE DEF e
<1>2. \A i \in k .. e : text[i] \in S
  BY <1>1, ElementOfSeq
<1>3. e \in Int
  BY <1>1
<1> QED BY <1>1, <1>2, <1>3, SubSeqProperties DEF Part, e

LEMMA SplitParts ==
  ASSUME NEW S, NEW text \in Seq(S), NEW sep
  PROVE  /\ SplitString(text, sep) \in Seq(Seq(S))
         /\ Len(SplitString(text, sep)) = Cardinality(Starts(text, sep))
         /\ \A n \in 1 .. Cardinality(Starts(text, sep)) :
              /\ Nth(Starts(text, sep), n) \in Starts(text, sep)
              /\ Nth(Starts(text, sep), n) \in 1 .. Len(text) + 1
              /\ SplitString(text, sep)[n] = Part(text, sep, Nth(Starts(text, sep), n))
<1> DEFINE T == Starts(text, sep)
           c == Cardinality(T)
           split == SplitString(text, sep)
<1>1. T \in SUBSET (1 .. Len(text) + 1) /\ IsFiniteSet(T) /\ c \in Nat /\ T \in SUBSET Nat
  BY StartsAreThere
<1>2. split = [n \in 1 .. c |-> Part(text, sep, Nth(T, n))]
  BY SplitIs
<1> HIDE DEF T, split
<1>3. \A n \in 1 .. c : Nth(T, n) \in T /\ Nth(T, n) \in 1 .. Len(text) + 1
  BY <1>1, NthIsThere
<1>4. \A n \in 1 .. c : Part(text, sep, Nth(T, n)) \in Seq(S)
  BY <1>3, PartIsText
<1> HIDE DEF c
<1>5. split \in [1 .. c -> Seq(S)]
  BY <1>2, <1>4
<1>6. split \in Seq(Seq(S)) /\ Len(split) = c
  BY <1>1, <1>5
<1>7. \A n \in 1 .. c : split[n] = Part(text, sep, Nth(T, n))
  BY <1>2
<1> QED BY <1>3, <1>6, <1>7 DEF T, c, split

\* Behind the last part of a text there is no separator, and one in front of it.
LEMMA LastStart ==
  ASSUME NEW S, NEW text \in Seq(S), NEW sep
  PROVE  LET names == SplitString(text, sep)
         IN /\ Len(names) \in Nat \ {0}
            /\ \E k \in 1 .. Len(text) + 1 :
                 /\ names[Len(names)] = SubSeq(text, k, Len(text))
                 /\ \A i \in k .. Len(text) : text[i] # sep
                 /\ k = 1 \/ (k - 1 \in 1 .. Len(text) /\ text[k - 1] = sep)
<1> DEFINE T == Starts(text, sep)
           seps == Seps(text, sep)
           names == SplitString(text, sep)
           n == Len(text)
           c == Cardinality(T)
           k == Nth(T, c)
<1>1. /\ T \in SUBSET (1 .. n + 1) /\ T \in SUBSET Nat /\ IsFiniteSet(T) /\ c \in Nat
      /\ seps \in SUBSET (1 .. n) /\ n \in Nat
  BY StartsAreThere
<1>2. 1 \in T
  BY DEF Starts
<1>3. c # 0
  BY <1>1, <1>2, FS_EmptySet
<1>4. /\ Len(names) = c
      /\ \A m \in 1 .. c : /\ Nth(T, m) \in T /\ Nth(T, m) \in 1 .. n + 1
                           /\ names[m] = Part(text, sep, Nth(T, m))
  BY SplitParts
<1>5. c \in 1 .. c
  BY <1>1, <1>3
<1>6. k \in T /\ k \in 1 .. n + 1 /\ names[c] = Part(text, sep, k)
  BY <1>4, <1>5
<1> HIDE DEF T, names, c
<1>7. Cardinality(Below(T, k)) = c - 1
  <2>1. \A m \in 1 .. Cardinality(T) : Cardinality(Below(T, Nth(T, m))) = m - 1
    BY <1>1, NthIsThere
  <2> QED BY <1>5, <2>1 DEF c
<1> HIDE DEF k
<1>8. ASSUME NEW j \in T PROVE j <= k
  <2> DEFINE low == Below(T, k) \cup {k}
  <2>1. IsFiniteSet(Below(T, k)) /\ k \notin Below(T, k)
    <3>1. k \in Nat /\ ~ (k < k)
      BY <1>1, <1>6
    <3>2. Below(T, k) \subseteq T
      BY DEF Below
    <3> QED BY <1>1, <3>1, <3>2, FS_Subset DEF Below
  <2>2. Cardinality(low) = c /\ low \subseteq T
    <3>1. Cardinality(low) = (c - 1) + 1
      BY <1>7, <2>1, FS_AddElement
    <3> QED BY <1>1, <1>6, <3>1 DEF Below
  <2>3. low = T
    <3> HIDE DEF low
    <3> QED BY <1>1, <2>2, FS_Subset DEF c
  <2>4. j < k \/ j = k
    BY <2>3 DEF Below
  <2>5. j \in Nat /\ k \in Nat
    BY <1>1, <1>6
  <2> QED BY <2>4, <2>5
<1>9. ASSUME NEW i \in seps PROVE i < k
  <2>1. seps \in SUBSET (0 .. n) /\ seps # {}
    BY <1>1
  <2>2. PICK top \in seps : \A j \in seps : j <= top
    <3> HIDE DEF seps
    <3> QED BY <1>1, <2>1, HighestOf
  <2> HIDE DEF seps
  <2>3. top \in Nat /\ i \in Nat /\ i <= top
    BY <1>1, <2>2
  <2>4. top + 1 \notin seps
    <3>1. ~ (top + 1 <= top)
      BY <2>3
    <3> QED BY <2>2, <3>1
  <2>5. top + 1 \in T
    BY <2>2, <2>4 DEF T, Starts, seps
  <2>6. top + 1 <= k /\ k \in Nat
    BY <1>1, <1>6, <1>8, <2>5
  <2> QED BY <2>3, <2>6
<1>10. EndOf(text, sep, k) = n
  <2>1. {j \in seps : j >= k} = {}
    <3> SUFFICES ASSUME NEW j \in seps, j >= k PROVE FALSE
      OBVIOUS
    <3>1. j < k /\ j \in Nat /\ k \in Nat
      BY <1>1, <1>6, <1>9
    <3> QED BY <3>1
  <2> DEFINE ends == {j \in seps : j >= k} \cup {n + 1}
  <2>2. ends = {n + 1}
    BY <2>1
  <2>3. EndOf(text, sep, k) = Min(ends) - 1
    BY DEF EndOf
  <2> HIDE DEF ends
  <2>4. Min(ends) = n + 1
    BY <1>1, <2>2, MinOf
  <2> HIDE DEF n
  <2> QED BY <1>1, <2>3, <2>4
<1>11. names[c] = SubSeq(text, k, n)
  BY <1>6, <1>10 DEF Part
<1>12. \A i \in k .. n : text[i] # sep
  <2> SUFFICES ASSUME NEW i \in k .. n, text[i] = sep PROVE FALSE
    OBVIOUS
  <2>1. i \in 1 .. n /\ ~ (i < k)
    BY <1>1, <1>6
  <2>2. i \in seps
    BY <2>1 DEF Seps
  <2> QED BY <1>9, <2>1, <2>2
<1>13. k = 1 \/ (k - 1 \in 1 .. n /\ text[k - 1] = sep)
  <2>1. k = 1 \/ \E j \in seps : k = j + 1
    BY <1>6 DEF T, Starts
  <2>2. ASSUME NEW j \in seps, k = j + 1 PROVE k - 1 \in 1 .. n /\ text[k - 1] = sep
    <3>1. j \in 1 .. n /\ text[j] = sep
      BY DEF Seps
    <3>2. k - 1 = j
      BY <1>1, <2>2, <3>1
    <3> QED BY <3>1, <3>2
  <2> QED BY <2>1, <2>2
<1> QED BY <1>1, <1>3, <1>4, <1>6, <1>11, <1>12, <1>13 DEF names

\* The end of a text, from one of its bytes on.
LEMMA EndOfText ==
  ASSUME NEW S, NEW text \in Seq(S), NEW k \in 1 .. Len(text) + 1
  PROVE  LET end == SubSeq(text, k, Len(text))
         IN /\ end \in Seq(S) /\ Len(end) = Len(text) - k + 1
            /\ \A i \in 1 .. Len(end) : k + i - 1 \in 1 .. Len(text) /\ end[i] = text[k + i - 1]
<1> DEFINE n == Len(text)
           end == SubSeq(text, k, n)
<1>1. n \in Nat /\ n \in Int /\ k \in Int
  BY LenProperties
<1>2. \A i \in k .. n : text[i] \in S
  BY <1>1, ElementOfSeq
<1> HIDE DEF n
<1>3. /\ end \in Seq(S) /\ Len(end) = IF k <= n THEN n - k + 1 ELSE 0
      /\ \A i \in 1 .. n - k + 1 : end[i] = text[k + i - 1]
  BY <1>1, <1>2, SubSeqProperties
<1> HIDE DEF end
<1>4. k <= n \/ n - k + 1 = 0
  BY <1>1 DEF n
<1>5. Len(end) = n - k + 1
  BY <1>1, <1>3, <1>4
<1>6. \A i \in 1 .. Len(end) : k + i - 1 \in 1 .. n /\ end[i] = text[k + i - 1]
  <2> TAKE i \in 1 .. Len(end)
  <2>1. i \in 1 .. n - k + 1
    BY <1>5
  <2>2. k + i - 1 \in 1 .. n
    BY <1>1, <2>1 DEF n
  <2> QED BY <1>3, <2>1, <2>2
<1> QED BY <1>3, <1>5, <1>6 DEF end, n

\* The beginning of a text.
LEMMA BeginOfText ==
  ASSUME NEW S, NEW text \in Seq(S), NEW m \in 0 .. Len(text)
  PROVE  LET cut == SubSeq(text, 1, m)
         IN /\ cut \in Seq(S) /\ Len(cut) = m
            /\ \A i \in 1 .. m : i \in 1 .. Len(text) /\ cut[i] = text[i]
<1> DEFINE cut == SubSeq(text, 1, m)
<1>1. Len(text) \in Nat /\ m \in Nat /\ m \in Int /\ m <= Len(text)
  BY LenProperties
<1>2. \A i \in 1 .. m : i \in 1 .. Len(text)
  BY <1>1
<1>3. PICK one \in Int : one = 1
  OBVIOUS
<1>4. \A i \in one .. m : text[i] \in S
  BY <1>2, <1>3, ElementOfSeq
<1>5. /\ SubSeq(text, one, m) \in Seq(S)
      /\ Len(SubSeq(text, one, m)) = IF one <= m THEN m - one + 1 ELSE 0
      /\ \A i \in 1 .. m - one + 1 : SubSeq(text, one, m)[i] = text[one + i - 1]
  BY <1>1, <1>4, SubSeqProperties
<1>6. /\ cut \in Seq(S) /\ Len(cut) = IF 1 <= m THEN m - 1 + 1 ELSE 0
      /\ \A i \in 1 .. m - 1 + 1 : cut[i] = text[1 + i - 1]
  BY <1>3, <1>5
<1> HIDE DEF cut
<1> QED BY <1>1, <1>2, <1>6 DEF cut

\* A text that is cut in front of a byte which is no separator loses parts, and of
\* those it keeps only the last may differ.
LEMMA CutParts ==
  ASSUME NEW S, NEW text \in Seq(S), NEW sep, NEW m \in 0 .. Len(text) - 1, text[m + 1] # sep
  PROVE  LET names == SplitString(SubSeq(text, 1, m), sep)
             parts == SplitString(text, sep)
         IN /\ Len(names) <= Len(parts)
            /\ \A n \in 1 .. Len(names) - 1 : names[n] = parts[n]
<1> DEFINE cut == SubSeq(text, 1, m)
           T == Starts(text, sep)
           U == Starts(cut, sep)
           c == Cardinality(U)
           names == SplitString(cut, sep)
           parts == SplitString(text, sep)
           l == Len(text)
<1>1. l \in Nat /\ m \in Nat /\ m \in 0 .. l /\ m + 1 <= l
  BY LenProperties
<1>2. cut \in Seq(S) /\ Len(cut) = m /\ \A i \in 1 .. m : i \in 1 .. l /\ cut[i] = text[i]
  BY <1>1, BeginOfText
<1> HIDE DEF cut, l
<1>3. /\ Seps(cut, sep) = {k \in Seps(text, sep) : k <= m} /\ m + 1 \notin Seps(text, sep)
      /\ Seps(text, sep) \in SUBSET (1 .. l)
  <2>1. \A k \in 1 .. l : k <= m <=> k \in 1 .. m
    BY <1>1
  <2> QED BY <1>2, <2>1 DEF Seps, l
<1>4. U = {k \in T : k <= m + 1}
  <2>1. ASSUME NEW k \in Seps(text, sep), k <= m
        PROVE  k + 1 \in Seps(cut, sep) <=> k + 1 \in Seps(text, sep)
    <3>1. k \in Nat /\ (k + 1 <= m \/ k + 1 = m + 1)
      <4>1. k \in 1 .. l
        BY <1>3
      <4> QED BY <1>1, <2>1, <4>1
    <3> QED BY <1>3, <3>1
  <2>2. \A k \in Seps(text, sep) : k <= m <=> k + 1 <= m + 1
    BY <1>1, <1>3
  <2>3. 1 <= m + 1
    BY <1>1
  <2>4. ASSUME NEW k PROVE k \in U <=> k \in T /\ k <= m + 1
    <3>1. k \in U <=> k = 1 \/ \E j \in Seps(cut, sep) : j + 1 \notin Seps(cut, sep) /\ k = j + 1
      BY DEF Starts
    <3>2. k \in T <=> k = 1 \/ \E j \in Seps(text, sep) : j + 1 \notin Seps(text, sep) /\ k = j + 1
      BY DEF Starts
    <3> HIDE DEF U, T
    <3>3. ASSUME NEW j \in Seps(text, sep), k = j + 1
          PROVE  j \in Seps(cut, sep) <=> k <= m + 1
      BY <1>3, <2>2, <3>3
    <3> QED BY <1>3, <2>1, <2>3, <3>1, <3>2, <3>3
  <2> HIDE DEF U, T
  <2> QED BY <2>4
<1>5. /\ T \in SUBSET Nat /\ IsFiniteSet(T) /\ Cardinality(T) \in Nat
      /\ U \in SUBSET Nat /\ IsFiniteSet(U) /\ c \in Nat /\ U \in SUBSET (1 .. m + 1)
  BY <1>2, StartsAreThere
<1>6. Len(names) = c /\ Len(parts) = Cardinality(T)
  BY <1>2, SplitParts
<1>7. \A n \in 1 .. c : names[n] = Part(cut, sep, Nth(U, n))
  BY <1>2, SplitParts
<1>8. \A n \in 1 .. Cardinality(T) : parts[n] = Part(text, sep, Nth(T, n))
  BY SplitParts
<1> HIDE DEF T, U, names, parts
<1>9. c <= Cardinality(T)
  <2>1. U \subseteq T
    BY <1>4
  <2> QED BY <1>5, <2>1, FS_Subset
<1> HIDE DEF c
<1>10. ASSUME NEW j \in T, NEW k \in T, j < k
       PROVE  Cardinality(Below(T, j)) < Cardinality(Below(T, k))
  <2>1. j \in Nat /\ k \in Nat
    BY <1>5
  <2>2. IsFiniteSet(Below(T, j)) /\ j \notin Below(T, j) /\ IsFiniteSet(Below(T, k))
    <3>1. ~ (j < j) /\ Below(T, j) \subseteq T /\ Below(T, k) \subseteq T
      BY <2>1 DEF Below
    <3> QED BY <1>5, <3>1, FS_Subset DEF Below
  <2>3. Below(T, j) \cup {j} \subseteq Below(T, k)
    <3>1. ASSUME NEW i \in T, i < j PROVE i < k
      <4>1. i \in Nat
        BY <1>5
      <4> QED BY <1>10, <2>1, <3>1, <4>1
    <3> QED BY <1>10, <3>1 DEF Below
  <2>4. Cardinality(Below(T, j) \cup {j}) = Cardinality(Below(T, j)) + 1
    BY <2>2, FS_AddElement
  <2>5. Cardinality(Below(T, j) \cup {j}) <= Cardinality(Below(T, k))
    BY <2>2, <2>3, FS_Subset
  <2>6. Cardinality(Below(T, j)) \in Nat /\ Cardinality(Below(T, k)) \in Nat
    BY <2>2, FS_CardinalityType
  <2> QED BY <2>4, <2>5, <2>6
<1>11. ASSUME NEW n \in 1 .. c
       PROVE  /\ Nth(U, n) \in U /\ Nth(U, n) = Nth(T, n)
              /\ Cardinality(Below(T, Nth(U, n))) = n - 1
  <2> DEFINE j == Nth(U, n)
             k == Nth(T, n)
  <2>1. n \in 1 .. Cardinality(U) /\ n \in 1 .. Cardinality(T)
    BY <1>5, <1>9 DEF c
  <2>2. j \in U /\ Cardinality(Below(U, j)) = n - 1
    BY <1>5, <2>1, NthIsThere
  <2>3. k \in T /\ Cardinality(Below(T, k)) = n - 1
    BY <1>5, <2>1, NthIsThere
  <2> HIDE DEF j, k
  <2>4. Below(U, j) = Below(T, j)
    <3>1. ASSUME NEW i \in T, i < j PROVE i \in U
      <4>1. i \in Nat /\ j \in 1 .. m + 1
        BY <1>5, <2>2
      <4>2. i <= m + 1
        BY <1>1, <3>1, <4>1
      <4> QED BY <1>4, <4>2
    <3>2. U \subseteq T
      BY <1>4
    <3> QED BY <3>1, <3>2 DEF Below
  <2>5. j \in T /\ j \in Nat /\ k \in Nat
    BY <1>4, <1>5, <2>2, <2>3
  <2>6. n - 1 \in Int /\ ~ (n - 1 < n - 1)
    OBVIOUS
  <2>7. ~ (j < k) /\ ~ (k < j)
    BY <1>10, <2>2, <2>3, <2>4, <2>5, <2>6
  <2> QED BY <2>2, <2>4, <2>5, <2>7 DEF j, k
<1>12. ASSUME NEW n \in 1 .. c - 1 PROVE names[n] = parts[n]
  <2> DEFINE k == Nth(U, n)
             next == Nth(U, n + 1)
  <2>1. n \in 1 .. c /\ n + 1 \in 1 .. c /\ n \in 1 .. Cardinality(T) /\ (n + 1) - 1 = n
    BY <1>5, <1>9
  <2>2. /\ k \in U /\ Cardinality(Below(T, k)) = n - 1
        /\ next \in U /\ Cardinality(Below(T, next)) = n
    BY <1>11, <2>1
  <2>3. names[n] = Part(cut, sep, k) /\ parts[n] = Part(text, sep, k)
    BY <1>7, <1>8, <1>11, <2>1
  <2> HIDE DEF k, next
  <2>4. k \in T /\ next \in T /\ k \in 1 .. m + 1 /\ next \in 1 .. m + 1
    BY <1>4, <1>5, <2>2
  <2>5. k < next
    <3>1. next # k /\ ~ (next < k)
      BY <1>10, <2>1, <2>2, <2>4
    <3> QED BY <2>4, <3>1
  <2>6. PICK last \in Seps(text, sep) : next = last + 1
    <3>1. next # 1
      BY <2>4, <2>5
    <3> QED BY <2>4, <3>1 DEF T, Starts
  <2>7. last \in Nat /\ last >= k /\ last <= m
    <3>1. last \in 1 .. l
      BY <1>3
    <3> QED BY <1>1, <2>4, <2>5, <2>6, <3>1
  <2> DEFINE later == {j \in Seps(text, sep) : j >= k /\ j <= m}
  <2>8. later \in SUBSET Nat /\ last \in later
    BY <1>3, <2>7
  <2> DEFINE e == Min(later)
  <2>9. e \in later /\ \A j \in later : e <= j
    <3> HIDE DEF later
    <3> QED BY <2>8, MinOf
  <2> HIDE DEF e
  <2>10. e \in Nat /\ e >= k /\ e <= m /\ e \in Seps(text, sep)
    BY <2>8, <2>9
  <2>11. EndOf(cut, sep, k) = e - 1
    <3> DEFINE ends == {j \in Seps(cut, sep) : j >= k} \cup {m + 1}
    <3>1. ends = later \cup {m + 1}
      BY <1>3
    <3> HIDE DEF ends, later
    <3>2. ends \in SUBSET Nat /\ e \in ends /\ \A j \in ends : e <= j
      BY <1>1, <2>8, <2>9, <2>10, <3>1
    <3>3. Min(ends) = e
      BY <3>2, MinIsIt
    <3> QED BY <1>2, <3>3 DEF EndOf, ends
  <2>12. EndOf(text, sep, k) = e - 1
    <3> DEFINE ends == {j \in Seps(text, sep) : j >= k} \cup {l + 1}
    <3>1. ends \in SUBSET Nat /\ e \in ends
      BY <1>1, <1>3, <2>10
    <3>2. ASSUME NEW j \in ends PROVE e <= j
      <4>1. j \in later \/ ~ (j <= m)
        BY <1>1 DEF l
      <4>2. j \in Nat
        BY <3>1
      <4> HIDE DEF ends, later
      <4> QED BY <1>1, <2>9, <2>10, <4>1, <4>2
    <3> HIDE DEF ends
    <3>3. Min(ends) = e
      BY <3>1, <3>2, MinIsIt
    <3> QED BY <3>3 DEF EndOf, ends, l
  <2> HIDE DEF later
  <2> DEFINE f == e - 1
             s == SubSeq(cut, k, f)
             t == SubSeq(text, k, f)
  <2>13. f \in Int /\ k \in Int /\ \A i \in k .. f : i \in 1 .. m
    BY <1>1, <2>4, <2>10
  <2>14. \A i \in k .. f : cut[i] \in S /\ text[i] \in S /\ text[i] = cut[i]
    <3> HIDE DEF f
    <3> TAKE i \in k .. f
    <3>1. i \in 1 .. m /\ i \in 1 .. l
      BY <1>2, <2>13
    <3>2. text[i] \in S
      BY <3>1, ElementOfSeq DEF l
    <3> QED BY <1>2, <3>1, <3>2
  <2> HIDE DEF f
  <2>15. /\ s \in Seq(S) /\ Len(s) = IF k <= f THEN f - k + 1 ELSE 0
         /\ \A i \in 1 .. f - k + 1 : s[i] = cut[k + i - 1]
    BY <1>2, <2>13, <2>14, SubSeqProperties
  <2>16. /\ t \in Seq(S) /\ Len(t) = IF k <= f THEN f - k + 1 ELSE 0
         /\ \A i \in 1 .. f - k + 1 : t[i] = text[k + i - 1]
    BY <2>13, <2>14, SubSeqProperties
  <2> HIDE DEF s, t
  <2>17. ASSUME NEW i \in 1 .. Len(s) PROVE s[i] = t[i]
    <3>1. i \in 1 .. f - k + 1 /\ k + i - 1 \in k .. f
      BY <2>13, <2>15
    <3> QED BY <2>14, <2>15, <2>16, <3>1
  <2>18. s = t
    BY <2>15, <2>16, <2>17, SeqEqual
  <2> QED BY <2>3, <2>11, <2>12, <2>18 DEF Part, s, t, f
<1> QED BY <1>6, <1>9, <1>12 DEF names, parts, cut

-----------------------------------------------------------------------------
(* The page of a directory: its name takes the place of the empty last part. *)

LEMMA Homepage ==
  /\ homepage \in Seq(Byte) /\ Len(homepage) = 10
  /\ \A i \in 1 .. 10 : homepage[i] # Slash /\ homepage[i] # Nul
  /\ homepage \notin {<<>>, <<Dot>>, <<Dot, Dot>>}
<1>1. homepage \in Seq(Byte) /\ Len(homepage) = 10
  BY DEF homepage, Dot, Byte
<1>2. \A i \in 1 .. 10 : homepage[i] # Slash /\ homepage[i] # Nul
  BY DEF homepage, Dot, Slash, Nul
<1>3. Len(<<>>) = 0 /\ (\A d : Len(<<d>>) = 1) /\ (\A d : Len(<<d, d>>) = 2)
  OBVIOUS
<1>4. homepage \notin {<<>>, <<Dot>>, <<Dot, Dot>>}
  <2>1. homepage # <<>>
    BY <1>1, <1>3
  <2>2. homepage # <<Dot>>
    BY <1>1, <1>3
  <2>3. homepage # <<Dot, Dot>>
    BY <1>1, <1>3
  <2> QED BY <2>1, <2>2, <2>3
<1> QED BY <1>1, <1>2, <1>4

LEMMA WithHomepage ==
  ASSUME NEW path \in Seq(Byte), path # <<>>, Last(path) = Slash
  PROVE  LET text == path \o homepage
         IN /\ text \in Seq(Byte) /\ Starts(text, Slash) = Starts(path, Slash)
            /\ \A k \in Starts(path, Slash) :
                 Part(text, Slash, k) = Part(path, Slash, k) \/ Part(text, Slash, k) = homepage
<1> DEFINE text == path \o homepage
           n == Len(path)
           seps == Seps(path, Slash)
<1>1. n \in Nat \ {0}
  BY EmptySeq
<1>2. /\ text \in Seq(Byte) /\ Len(text) = n + 10
      /\ \A i \in 1 .. n + 10 : text[i] = IF i <= n THEN path[i] ELSE homepage[i - n]
  <2>1. homepage \in Seq(Byte) /\ Len(homepage) = 10
    BY Homepage
  <2> HIDE DEF text
  <2>2. /\ text \in Seq(Byte) /\ Len(text) = Len(path) + Len(homepage)
        /\ \A i \in 1 .. Len(path) + Len(homepage) :
             text[i] = IF i <= Len(path) THEN path[i] ELSE homepage[i - Len(path)]
    BY <2>1, ConcatProperties, Zenon DEF text
  <2> QED BY <2>1, <2>2
<1> HIDE DEF text, n
<1>3. n \in seps
  BY <1>1 DEF Seps, Last, n
<1>4. Seps(text, Slash) = seps
  <2>1. ASSUME NEW k \in 1 .. n + 10 PROVE text[k] = Slash <=> k <= n /\ path[k] = Slash
    <3>1. CASE k <= n
      BY <1>2, <3>1
    <3>2. CASE ~ (k <= n)
      <4>1. k - n \in 1 .. 10
        BY <1>1, <3>2
      <4>2. text[k] = homepage[k - n]
        BY <1>2, <3>2
      <4> QED BY <3>2, <4>1, <4>2, Homepage
    <3> QED BY <3>1, <3>2
  <2>2. \A k \in 1 .. n + 10 : k <= n <=> k \in 1 .. n
    BY <1>1
  <2>3. 1 .. n \subseteq 1 .. n + 10
    BY <1>1
  <2> QED BY <1>2, <2>1, <2>2, <2>3 DEF Seps, n
<1>5. Starts(text, Slash) = Starts(path, Slash)
  BY <1>4 DEF Starts
<1>6. seps \in SUBSET (1 .. n)
  BY DEF Seps, n
<1> HIDE DEF seps
<1>7. ASSUME NEW k \in 1 .. n PROVE Part(text, Slash, k) = Part(path, Slash, k)
  <2> DEFINE later == {j \in seps : j >= k}
             m == Min(later)
  <2>1. later \in SUBSET Nat /\ n \in later
    <3>1. \A j \in seps : j \in Nat
      BY <1>6
    <3>2. n >= k
      BY <1>1
    <3> QED BY <1>3, <3>1, <3>2
  <2>2. m \in later /\ \A j \in later : m <= j
    <3> HIDE DEF later
    <3> QED BY <2>1, MinOf
  <2>3. m \in k .. n /\ m \in Nat
    <3>1. m \in Nat /\ m >= k /\ m <= n
      BY <2>1, <2>2
    <3> QED BY <1>1, <3>1
  <2> HIDE DEF m
  <2>4. EndOf(path, Slash, k) = m - 1
    <3>1. m <= n + 1 /\ n + 1 \in Nat
      BY <1>1, <2>3
    <3>2. Min(later \cup {n + 1}) = m
      <4> HIDE DEF later
      <4>1. later \cup {n + 1} \in SUBSET Nat /\ m \in later \cup {n + 1}
        BY <2>1, <2>2, <3>1
      <4>2. \A j \in later \cup {n + 1} : m <= j
        BY <2>2, <3>1
      <4> QED BY <4>1, <4>2, MinIsIt
    <3> QED BY <3>2 DEF EndOf, n, seps
  <2>5. EndOf(text, Slash, k) = m - 1
    <3>1. m <= n + 10 + 1 /\ n + 10 + 1 \in Nat
      BY <1>1, <2>3
    <3>2. Min(later \cup {n + 10 + 1}) = m
      <4> HIDE DEF later
      <4>1. later \cup {n + 10 + 1} \in SUBSET Nat /\ m \in later \cup {n + 10 + 1}
        BY <2>1, <2>2, <3>1
      <4>2. \A j \in later \cup {n + 10 + 1} : m <= j
        BY <2>2, <3>1
      <4> QED BY <4>1, <4>2, MinIsIt
    <3> QED BY <1>2, <1>4, <3>2 DEF EndOf
  <2> HIDE DEF later
  <2> DEFINE e == m - 1
             s == SubSeq(path, k, e)
             t == SubSeq(text, k, e)
  <2>6. e \in k - 1 .. n - 1 /\ e \in Int /\ k \in Int
    BY <1>1, <2>3
  <2>7. \A i \in k .. e : path[i] \in Byte /\ text[i] = path[i]
    <3> HIDE DEF e
    <3> TAKE i \in k .. e
    <3>1. i \in 1 .. n /\ i \in 1 .. n + 10 /\ i <= n
      BY <1>1, <2>6
    <3>2. path[i] \in Byte
      BY <3>1, ElementOfSeq DEF n
    <3> QED BY <1>2, <3>1, <3>2
  <2> HIDE DEF e
  <2>8. /\ s \in Seq(Byte) /\ Len(s) = IF k <= e THEN e - k + 1 ELSE 0
        /\ \A i \in 1 .. e - k + 1 : s[i] = path[k + i - 1]
    BY <2>6, <2>7, SubSeqProperties
  <2>9. /\ t \in Seq(Byte) /\ Len(t) = IF k <= e THEN e - k + 1 ELSE 0
        /\ \A i \in 1 .. e - k + 1 : t[i] = text[k + i - 1]
    <3>1. \A i \in k .. e : text[i] \in Byte
      BY <2>7
    <3> QED BY <2>6, <3>1, SubSeqProperties
  <2> HIDE DEF s, t
  <2>10. ASSUME NEW i \in 1 .. Len(s) PROVE s[i] = t[i]
    <3>1. i \in 1 .. e - k + 1 /\ k + i - 1 \in k .. e
      BY <2>6, <2>8
    <3> QED BY <2>7, <2>8, <2>9, <3>1
  <2>11. s = t
    BY <2>8, <2>9, <2>10, SeqEqual
  <2> QED BY <2>4, <2>5, <2>11 DEF Part, s, t, e
<1>8. Part(text, Slash, n + 1) = homepage
  <2> DEFINE later == {j \in seps : j >= n + 1}
  <2>1. later = {}
    <3>1. ASSUME NEW j \in seps PROVE ~ (j >= n + 1)
      <4>1. j \in 1 .. n
        BY <1>6
      <4> QED BY <1>1, <4>1
    <3> QED BY <3>1
  <2>2. Min({n + 10 + 1}) = n + 10 + 1
    BY <1>1, MinIsIt
  <2>3. EndOf(text, Slash, n + 1) = n + 10
    <3>1. EndOf(text, Slash, n + 1) = Min(later \cup {n + 10 + 1}) - 1
      BY <1>2, <1>4 DEF EndOf
    <3>2. later \cup {n + 10 + 1} = {n + 10 + 1}
      BY <2>1
    <3> HIDE DEF later
    <3>3. EndOf(text, Slash, n + 1) = (n + 10 + 1) - 1
      BY <2>2, <3>1, <3>2
    <3> QED BY <1>1, <3>3
  <2> DEFINE t == SubSeq(text, n + 1, n + 10)
  <2>4. \A i \in n + 1 .. n + 10 : text[i] \in Byte
    <3> TAKE i \in n + 1 .. n + 10
    <3>1. i \in 1 .. Len(text)
      BY <1>1, <1>2
    <3> QED BY <1>2, <3>1, ElementOfSeq
  <2>5. /\ t \in Seq(Byte)
        /\ Len(t) = IF n + 1 <= n + 10 THEN (n + 10) - (n + 1) + 1 ELSE 0
        /\ \A i \in 1 .. (n + 10) - (n + 1) + 1 : t[i] = text[(n + 1) + i - 1]
    <3>1. n + 1 \in Int /\ n + 10 \in Int
      BY <1>1
    <3> QED BY <2>4, <3>1, SubSeqProperties
  <2> HIDE DEF t
  <2>6. ASSUME NEW i \in 1 .. 10 PROVE t[i] = homepage[i]
    <3>1. /\ i \in 1 .. (n + 10) - (n + 1) + 1 /\ (n + 1) + i - 1 = n + i
          /\ n + i \in 1 .. n + 10 /\ ~ (n + i <= n) /\ (n + i) - n = i
      BY <1>1
    <3>2. t[i] = text[n + i]
      BY <2>5, <3>1
    <3>3. text[n + i] = homepage[(n + i) - n]
      BY <1>2, <3>1
    <3> QED BY <3>1, <3>2, <3>3
  <2>7. Len(t) = 10
    BY <1>1, <2>5
  <2>8. t = homepage
    BY <2>5, <2>6, <2>7, Homepage, SeqEqual
  <2> QED BY <2>3, <2>8 DEF Part, t
<1>9. \A k \in Starts(path, Slash) : k \in 1 .. n \/ k = n + 1
  <2>1. Starts(path, Slash) \in SUBSET (1 .. n + 1)
    BY StartsAreThere DEF n
  <2>2. \A k \in 1 .. n + 1 : k \in 1 .. n \/ k = n + 1
    BY <1>1
  <2> QED BY <2>1, <2>2
<1> QED BY <1>2, <1>5, <1>7, <1>8, <1>9 DEF text, n

-----------------------------------------------------------------------------
(* What of a text reaches the system.                                       *)

LEMMA CStrIs ==
  ASSUME NEW text \in Seq(Byte)
  PROVE  /\ c_str(text) \in Seq(Byte)
         /\ \/ c_str(text) = text
            \/ \E m \in 0 .. Len(text) - 1 : c_str(text) = SubSeq(text, 1, m) /\ text[m + 1] = Nul
<1> DEFINE n == Len(text)
           nuls == {k \in 1 .. n : text[k] = Nul}
           ends == nuls \cup {n + 1}
           e == Min(ends)
           m == e - 1
<1>1. n \in Nat
  BY LenProperties
<1>2. ends \in SUBSET Nat /\ n + 1 \in ends /\ ends \subseteq 1 .. n + 1
  BY <1>1
<1>3. e \in ends
  <2> HIDE DEF ends
  <2> QED BY <1>2, MinOf
<1>4. c_str(text) = SubSeq(text, 1, m)
  BY DEF c_str
<1>5. e \in nuls \/ e = n + 1
  <2> HIDE DEF e
  <2> QED BY <1>3
<1> HIDE DEF e, ends
<1>6. e \in 1 .. n + 1
  BY <1>2, <1>3
<1>7. m \in 0 .. n /\ m + 1 = e
  BY <1>1, <1>6
<1> HIDE DEF m
<1>8. SubSeq(text, 1, m) \in Seq(Byte)
  BY <1>7, BeginOfText
<1>9. CASE e \in nuls
  <2>1. m \in 0 .. n - 1 /\ text[m + 1] = Nul
    <3>1. e \in 1 .. n
      BY <1>9
    <3> QED BY <1>1, <1>7, <1>9, <3>1
  <2> QED BY <1>4, <1>8, <2>1
<1>10. CASE e = n + 1
  <2>1. m = n
    BY <1>1, <1>7, <1>10
  <2>2. /\ Len(SubSeq(text, 1, n)) = n
        /\ \A i \in 1 .. n : SubSeq(text, 1, n)[i] = text[i]
    BY <1>7, <2>1, BeginOfText
  <2>3. SubSeq(text, 1, m) = text
    BY <1>8, <2>1, <2>2, SeqEqual
  <2> QED BY <1>4, <1>8, <2>3
<1> QED BY <1>5, <1>9, <1>10

\* The page of a directory has no byte 0: where there is one, the path is cut.
LEMMA PathIsCut ==
  ASSUME NEW path \in Seq(Byte)
  PROVE  LET text == RequestPath(path)
         IN /\ text \in Seq(Byte)
            /\ \/ c_str(text) = text
               \/ \E m \in 0 .. Len(path) - 1 :
                    c_str(text) = SubSeq(path, 1, m) /\ path[m + 1] = Nul
<1> DEFINE text == path \o homepage
           n == Len(path)
<1>1. CASE RequestPath(path) = path
  BY <1>1, CStrIs
<1>2. CASE RequestPath(path) = text
  <2>1. n \in Nat /\ homepage \in Seq(Byte) /\ Len(homepage) = 10
    BY Homepage, LenProperties
  <2>2. /\ text \in Seq(Byte) /\ Len(text) = n + 10
        /\ \A i \in 1 .. n + 10 : text[i] = IF i <= n THEN path[i] ELSE homepage[i - n]
    <3> HIDE DEF text
    <3>1. /\ text \in Seq(Byte) /\ Len(text) = Len(path) + Len(homepage)
          /\ \A i \in 1 .. Len(path) + Len(homepage) :
               text[i] = IF i <= Len(path) THEN path[i] ELSE homepage[i - Len(path)]
      BY <2>1, ConcatProperties, Zenon DEF text
    <3> QED BY <2>1, <3>1
  <2> HIDE DEF text, n
  <2>3. ASSUME NEW m \in 0 .. Len(text) - 1, text[m + 1] = Nul
        PROVE  m \in 0 .. n - 1 /\ path[m + 1] = Nul /\ SubSeq(text, 1, m) = SubSeq(path, 1, m)
    <3>1. m + 1 \in 1 .. n + 10
      BY <2>1, <2>2
    <3>2. m + 1 <= n
      <4> SUFFICES ASSUME ~ (m + 1 <= n) PROVE FALSE
        OBVIOUS
      <4>1. (m + 1) - n \in 1 .. 10 /\ text[m + 1] = homepage[(m + 1) - n]
        BY <2>1, <2>2, <3>1
      <4> QED BY <2>3, <4>1, Homepage
    <3>3. m \in 0 .. n - 1 /\ m \in 0 .. n /\ path[m + 1] = Nul
      BY <2>1, <2>2, <2>3, <3>1, <3>2
    <3>4. /\ SubSeq(path, 1, m) \in Seq(Byte) /\ Len(SubSeq(path, 1, m)) = m
          /\ \A i \in 1 .. m : SubSeq(path, 1, m)[i] = path[i]
      BY <3>3, BeginOfText DEF n
    <3>5. /\ SubSeq(text, 1, m) \in Seq(Byte) /\ Len(SubSeq(text, 1, m)) = m
          /\ \A i \in 1 .. m : SubSeq(text, 1, m)[i] = text[i]
      <4>1. m \in 0 .. Len(text)
        BY <2>1, <2>2
      <4> QED BY <2>2, <4>1, BeginOfText
    <3>6. \A i \in 1 .. m : text[i] = path[i]
      BY <2>1, <2>2, <3>3
    <3>7. SubSeq(text, 1, m) = SubSeq(path, 1, m)
      BY <3>4, <3>5, <3>6, SeqEqual
    <3> QED BY <3>3, <3>7
  <2>4. \/ c_str(text) = text
        \/ \E m \in 0 .. Len(text) - 1 : c_str(text) = SubSeq(text, 1, m) /\ text[m + 1] = Nul
    BY <2>2, CStrIs
  <2>5. \/ c_str(text) = text
        \/ \E m \in 0 .. n - 1 : c_str(text) = SubSeq(path, 1, m) /\ path[m + 1] = Nul
    BY <2>3, <2>4
  <2> QED BY <1>2, <2>2, <2>5 DEF n
<1> QED BY <1>1, <1>2 DEF RequestPath

-----------------------------------------------------------------------------
(* Down the parts of a path.                                                *)

\* A function by recursion from one number to the next.
HasChain(S, x, n, step) ==
  \E f \in [0 .. n -> S] : f[0] = x /\ \A k \in 1 .. n : f[k] = step[k][f[k - 1]]

LEMMA Chain ==
  ASSUME NEW S, NEW x \in S, NEW n \in Nat, NEW step \in [1 .. n -> [S -> S]]
  PROVE  HasChain(S, x, n, step)
<1> DEFINE D == 0 .. n
           F == [D -> S]
           rank == [k \in D |-> k]
           next == [k \in D |-> [g \in F |-> IF k = 0 THEN x ELSE step[k][g[k - 1]]]]
<1>1. \A k \in D : k \in Nat /\ (k # 0 => k \in 1 .. n /\ k - 1 \in D)
  OBVIOUS
<1>2. rank \in [D -> 0 .. n] /\ S # {}
  OBVIOUS
<1>3. next \in [D -> [F -> S]]
  <2>1. ASSUME NEW k \in D, NEW g \in F PROVE (IF k = 0 THEN x ELSE step[k][g[k - 1]]) \in S
    <3> HIDE DEF D
    <3>1. CASE k = 0
      BY <3>1
    <3>2. CASE k # 0
      <4>1. k \in 1 .. n /\ g[k - 1] \in S
        BY <1>1, <3>2
      <4> QED BY <3>2, <4>1
    <3> QED BY <3>1, <3>2
  <2> HIDE DEF D, F
  <2> QED BY <2>1
<1>4. ASSUME NEW k \in D, NEW g \in F, NEW h \in F,
             \A j \in D : rank[j] < rank[k] => g[j] = h[j]
      PROVE  next[k][g] = next[k][h]
  <2>1. CASE k = 0
    BY <2>1
  <2>2. CASE k # 0
    <3>1. k - 1 \in D /\ rank[k - 1] < rank[k]
      BY <1>1, <2>2
    <3>2. g[k - 1] = h[k - 1]
      BY <1>4, <3>1
    <3>3. next[k][g] = step[k][g[k - 1]] /\ next[k][h] = step[k][h[k - 1]]
      <4> HIDE DEF D, F
      <4> QED BY <2>2
    <3> QED BY <3>2, <3>3
  <2> QED BY <2>1, <2>2
<1>5. IsDefined(D, S, next)
  <2> HIDE DEF rank, next, D
  <2>1. LooksBelow(D, S, rank, next)
    BY <1>4 DEF LooksBelow
  <2>2. n \in Nat /\ S # {}
    BY <1>2
  <2>3. rank \in [D -> 0 .. n]
    BY <1>2
  <2>4. next \in [D -> [[D -> S] -> S]]
    BY <1>3
  <2> QED BY <2>1, <2>2, <2>3, <2>4, Recursion, Zenon
<1>6. PICK f \in F : \A k \in D : f[k] = next[k][f]
  BY <1>5 DEF IsDefined
<1>7. \A k \in D : f[k] = IF k = 0 THEN x ELSE step[k][f[k - 1]]
  <2> HIDE DEF D, F
  <2> QED BY <1>6
<1>8. f[0] = x
  BY <1>7
<1>9. ASSUME NEW k \in 1 .. n PROVE f[k] = step[k][f[k - 1]]
  <2>1. k \in D /\ k # 0
    OBVIOUS
  <2> QED BY <1>7, <2>1
<1> QED BY <1>8, <1>9 DEF HasChain

Up == <<Dot, Dot>>
Here == {<<>>, <<Dot>>}

\* The depth of ValidPath.
Depth(parts) ==
  CHOOSE L : L = [k \in 0 .. Len(parts) |->
                    CASE k = 0 -> 0
                      [] k > 0 /\ parts[k] \in {<<>>, <<Dot>>} -> L[k - 1]
                      [] k > 0 /\ parts[k] = <<Dot, Dot>> -> L[k - 1] - 1
                      [] OTHER -> L[k - 1] + 1]

LEMMA ValidPathIs ==
  ASSUME NEW path
  PROVE  LET parts == SplitString(path, Slash)
         IN ValidPath(path) <=> \A k \in 1 .. Len(parts) : Depth(parts)[k] >= 0
BY DEF ValidPath, Depth

LEMMA UpIsNotHere == Up \notin Here
<1>1. Len(<<>>) = 0 /\ Len(<<Dot>>) = 1 /\ Len(<<Dot, Dot>>) = 2
  OBVIOUS
<1>2. Up # <<>>
  BY <1>1 DEF Up
<1>3. Up # <<Dot>>
  BY <1>1 DEF Up
<1> QED BY <1>2, <1>3 DEF Here

LEMMA DepthIs ==
  ASSUME NEW parts, Len(parts) \in Nat
  PROVE  /\ Depth(parts) \in [0 .. Len(parts) -> Int] /\ Depth(parts)[0] = 0
         /\ \A k \in 1 .. Len(parts) :
              Depth(parts)[k] = Depth(parts)[k - 1] +
                IF parts[k] \in Here THEN 0 ELSE IF parts[k] = Up THEN -1 ELSE 1
<1> DEFINE n == Len(parts)
           by(k) == IF parts[k] \in Here THEN 0 ELSE IF parts[k] = Up THEN -1 ELSE 1
           step == [k \in 1 .. n |-> [d \in Int |-> d + by(k)]]
           value(L, k) == CASE k = 0 -> 0
                            [] k > 0 /\ parts[k] \in {<<>>, <<Dot>>} -> L[k - 1]
                            [] k > 0 /\ parts[k] = <<Dot, Dot>> -> L[k - 1] - 1
                            [] OTHER -> L[k - 1] + 1
<1>1. \A k : by(k) \in Int
  OBVIOUS
<1>2. step \in [1 .. n -> [Int -> Int]]
  <2> HIDE DEF by
  <2> QED BY <1>1
<1>3. PICK f \in [0 .. n -> Int] : f[0] = 0 /\ \A k \in 1 .. n : f[k] = step[k][f[k - 1]]
  <2>1. n \in Nat /\ 0 \in Int
    OBVIOUS
  <2> HIDE DEF step, n
  <2>2. HasChain(Int, 0, n, step)
    <3>1. n \in Nat
      BY <2>1
    <3> QED BY <1>2, <2>1, <3>1, Chain, Zenon
  <2> QED BY <2>2 DEF HasChain
<1>4. ASSUME NEW L, NEW k \in 1 .. n, L[k - 1] \in Int
      PROVE  value(L, k) = L[k - 1] + by(k)
  <2>1. k # 0 /\ k > 0
    OBVIOUS
  <2>2. CASE parts[k] \in Here
    <3>1. parts[k] # Up
      BY <2>2, UpIsNotHere
    <3>2. value(L, k) = L[k - 1]
      <4>1. parts[k] \in {<<>>, <<Dot>>} /\ parts[k] # <<Dot, Dot>>
        BY <2>2, <3>1 DEF Here, Up
      <4> QED BY <2>1, <4>1, Zenon
    <3> QED BY <1>4, <2>2, <3>2
  <2>3. CASE parts[k] = Up
    <3>1. parts[k] \notin Here
      BY <2>3, UpIsNotHere
    <3>2. value(L, k) = L[k - 1] - 1
      <4>1. parts[k] \notin {<<>>, <<Dot>>} /\ parts[k] = <<Dot, Dot>>
        BY <2>3, <3>1 DEF Here, Up
      <4> QED BY <2>1, <4>1, Zenon
    <3> QED BY <1>4, <2>3, <3>1, <3>2
  <2>4. CASE parts[k] \notin Here /\ parts[k] # Up
    <3>1. value(L, k) = L[k - 1] + 1
      <4>1. parts[k] \notin {<<>>, <<Dot>>} /\ parts[k] # <<Dot, Dot>>
        BY <2>4 DEF Here, Up
      <4> QED BY <2>1, <4>1, Zenon
    <3> QED BY <1>4, <2>4, <3>1
  <2> QED BY <2>2, <2>3, <2>4
<1>5. ASSUME NEW k \in 1 .. n PROVE f[k - 1] \in Int /\ f[k] = f[k - 1] + by(k)
  <2>1. k - 1 \in 0 .. n
    OBVIOUS
  <2>2. f[k - 1] \in Int
    BY <1>3, <2>1
  <2> HIDE DEF by
  <2>3. f[k] = step[k][f[k - 1]]
    BY <1>3
  <2> QED BY <2>2, <2>3
<1> HIDE DEF by
<1>6. ASSUME NEW k \in 0 .. n PROVE f[k] = value(f, k)
  <2>1. CASE k = 0
    BY <1>3, <2>1
  <2>2. CASE k \in 1 .. n
    <3> HIDE DEF value
    <3> QED BY <1>4, <1>5, <2>2
  <2> QED BY <2>1, <2>2
<1> DEFINE a == Depth(parts)
<1>7. a = [k \in 0 .. n |-> value(a, k)]
  <2>1. f = [k \in 0 .. n |-> value(f, k)]
    <3> HIDE DEF value
    <3> QED BY <1>3, <1>6
  <2>2. \E L : L = [k \in 0 .. n |-> value(L, k)]
    <3> HIDE DEF value
    <3> QED BY <2>1
  <2>3. a = CHOOSE L : L = [k \in 0 .. n |-> value(L, k)]
    BY DEF Depth
  <2> HIDE DEF value, a
  <2> QED BY <2>2, <2>3
<1> HIDE DEF a
<1>8. a[0] = 0
  <2>1. 0 \in 0 .. n
    OBVIOUS
  <2> QED BY <1>7, <2>1
<1> DEFINE M == {k \in Nat : k <= n => a[k] \in Int}
<1>9. M = Nat
  <2>1. 0 \in M
    BY <1>8
  <2>2. ASSUME NEW k \in M PROVE k + 1 \in M
    <3>1. k \in Nat /\ k + 1 \in Nat
      OBVIOUS
    <3> SUFFICES ASSUME k + 1 <= n PROVE a[k + 1] \in Int
      BY <3>1
    <3>2. k + 1 \in 1 .. n /\ k + 1 \in 0 .. n /\ (k + 1) - 1 = k /\ k <= n
      BY <3>1
    <3>3. a[k] \in Int
      BY <3>2
    <3>4. a[k + 1] = value(a, k + 1)
      <4> HIDE DEF value
      <4> QED BY <1>7, <3>2
    <3>5. value(a, k + 1) = a[k] + by(k + 1)
      <4> HIDE DEF value
      <4> QED BY <1>4, <3>2, <3>3
    <3> QED BY <1>1, <3>3, <3>4, <3>5
  <2>3. M \in SUBSET Nat
    OBVIOUS
  <2> HIDE DEF M
  <2> QED BY <2>1, <2>2, <2>3, AllNumbers
<1>10. \A k \in 0 .. n : a[k] \in Int
  <2> TAKE k \in 0 .. n
  <2>1. k \in M /\ k <= n
    BY <1>9
  <2> QED BY <2>1
<1>11. a \in [0 .. n -> Int]
  <2> HIDE DEF value, M, n
  <2> QED BY <1>7, <1>10
<1>12. ASSUME NEW k \in 1 .. n PROVE a[k] = a[k - 1] + by(k)
  <2>1. k \in 0 .. n /\ k - 1 \in 0 .. n
    OBVIOUS
  <2>2. a[k] = value(a, k)
    <3> HIDE DEF value
    <3> QED BY <1>7, <2>1
  <2>3. value(a, k) = a[k - 1] + by(k)
    <3> HIDE DEF value
    <3> QED BY <1>4, <1>10, <2>1
  <2> QED BY <2>2, <2>3
<1> QED BY <1>8, <1>11, <1>12 DEF a, by

\* Where the parts are the same, so is the depth.
LEMMA DepthsAgree ==
  ASSUME NEW parts, NEW names, Len(parts) \in Nat, Len(names) \in Nat, NEW m \in Nat,
         m <= Len(parts), m <= Len(names), \A k \in 1 .. m : parts[k] = names[k]
  PROVE  \A k \in 0 .. m : Depth(parts)[k] = Depth(names)[k]
<1> DEFINE D == Depth(parts)
           E == Depth(names)
           M == {k \in Nat : k <= m => D[k] = E[k]}
<1>1. /\ D[0] = 0 /\ E[0] = 0
      /\ \A k \in 1 .. Len(parts) :
           D[k] = D[k - 1] + IF parts[k] \in Here THEN 0 ELSE IF parts[k] = Up THEN -1 ELSE 1
      /\ \A k \in 1 .. Len(names) :
           E[k] = E[k - 1] + IF names[k] \in Here THEN 0 ELSE IF names[k] = Up THEN -1 ELSE 1
  BY DepthIs
<1> HIDE DEF D, E
<1>2. 0 \in M
  BY <1>1
<1>3. ASSUME NEW k \in M PROVE k + 1 \in M
  <2> SUFFICES ASSUME k + 1 <= m PROVE D[k + 1] = E[k + 1]
    OBVIOUS
  <2>1. /\ k <= m /\ (k + 1) - 1 = k /\ k + 1 \in 1 .. m
        /\ k + 1 \in 1 .. Len(parts) /\ k + 1 \in 1 .. Len(names)
    OBVIOUS
  <2>2. D[k] = E[k] /\ parts[k + 1] = names[k + 1]
    BY <2>1
  <2>3. D[k + 1] = D[k] + IF parts[k + 1] \in Here THEN 0 ELSE IF parts[k + 1] = Up THEN -1 ELSE 1
    BY <1>1, <2>1
  <2>4. E[k + 1] = E[k] + IF names[k + 1] \in Here THEN 0 ELSE IF names[k + 1] = Up THEN -1 ELSE 1
    BY <1>1, <2>1
  <2> QED BY <2>2, <2>3, <2>4
<1>4. M = Nat
  <2>1. M \in SUBSET Nat
    OBVIOUS
  <2> HIDE DEF M
  <2> QED BY <1>2, <1>3, <2>1, AllNumbers
<1>5. ASSUME NEW k \in 0 .. m PROVE D[k] = E[k]
  <2>1. k \in M /\ k <= m
    BY <1>4
  <2> QED BY <2>1
<1> QED BY <1>5 DEF D, E

\* The place of Lookup.
Walk(start, names) ==
  CHOOSE P : P = [k \in 0 .. Len(names) |->
                    CASE k = 0 -> start
                      [] k > 0 /\ names[k] \in {<<>>, <<Dot>>} -> P[k - 1]
                      [] k > 0 /\ names[k] = <<Dot, Dot>> ->
                           LET here == P[k - 1] IN SubSeq(here, 1, Len(here) - 1)
                      [] OTHER -> Append(P[k - 1], names[k])]
Step(here, name) ==
  IF name \in Here THEN here
  ELSE IF name = Up THEN SubSeq(here, 1, Len(here) - 1) ELSE Append(here, name)

LEMMA LookupIs ==
  ASSUME NEW t, NEW start, NEW path \in Seq(Byte)
  PROVE  LET names == SplitString(c_str(path), Slash)
         IN \/ /\ Lookup(t, start, path) = Walk(start, names)[Len(names)]
               /\ \A k \in 0 .. Len(names) - 1 : Walk(start, names)[k] \in t.dirs
            \/ Lookup(t, start, path) = Nowhere
<1> DEFINE names == SplitString(c_str(path), Slash)
           place == Walk(start, names)[Len(names)]
           there == \A k \in 0 .. Len(names) - 1 : Walk(start, names)[k] \in t.dirs
<1>1. Names[c_str(path)] = names
  BY CStrIs DEF Names
<1>2. Lookup(t, start, path) = IF there THEN place ELSE Nowhere
  BY <1>1 DEF Lookup, Walk
<1> QED BY <1>2

LEMMA StepIs ==
  ASSUME NEW T, NEW here \in Seq(T), NEW name \in T
  PROVE  /\ Step(here, name) \in Seq(T)
         /\ name \in Here => Step(here, name) = here
         /\ name = Up => /\ Len(Step(here, name)) = IF here = <<>> THEN 0 ELSE Len(here) - 1
                         /\ \A i \in 1 .. Len(here) - 1 : Step(here, name)[i] = here[i]
         /\ name \notin Here /\ name # Up =>
              /\ Len(Step(here, name)) = Len(here) + 1
              /\ \A i \in 1 .. Len(here) : Step(here, name)[i] = here[i]
<1>1. Len(here) \in Nat /\ (here = <<>> <=> Len(here) = 0)
  BY EmptySeq
<1>2. CASE name \in Here
  BY <1>2, UpIsNotHere DEF Step
<1>3. CASE name = Up
  <2> DEFINE n == Len(here) - 1
             s == SubSeq(here, 1, n)
  <2>1. \A i \in 1 .. n : here[i] \in T
    <3> TAKE i \in 1 .. n
    <3>1. i \in 1 .. Len(here)
      BY <1>1
    <3> QED BY <3>1, ElementOfSeq
  <2>2. n \in Int /\ 1 \in Int
    BY <1>1
  <2> HIDE DEF n
  <2>3. /\ s \in Seq(T) /\ Len(s) = IF 1 <= n THEN n - 1 + 1 ELSE 0
        /\ \A i \in 1 .. n - 1 + 1 : s[i] = here[1 + i - 1]
    <3>1. PICK one \in Int : one = 1
      BY <2>2
    <3>2. \A i \in one .. n : here[i] \in T
      BY <2>1, <3>1
    <3>3. /\ SubSeq(here, one, n) \in Seq(T)
          /\ Len(SubSeq(here, one, n)) = IF one <= n THEN n - one + 1 ELSE 0
          /\ \A i \in 1 .. n - one + 1 : SubSeq(here, one, n)[i] = here[one + i - 1]
      BY <2>2, <3>2, SubSeqProperties
    <3> QED BY <3>1, <3>3
  <2> HIDE DEF s
  <2>4. Step(here, name) = s
    BY <1>3, UpIsNotHere DEF Step, s, n
  <2>5. Len(s) = IF here = <<>> THEN 0 ELSE Len(here) - 1
    BY <1>1, <2>3 DEF n
  <2>6. \A i \in 1 .. Len(here) - 1 : s[i] = here[i]
    <3> TAKE i \in 1 .. Len(here) - 1
    <3>1. i \in 1 .. n - 1 + 1 /\ 1 + i - 1 = i
      BY <1>1 DEF n
    <3> QED BY <2>3, <3>1
  <2>7. name \notin Here
    BY <1>3, UpIsNotHere
  <2> QED BY <1>3, <2>3, <2>4, <2>5, <2>6, <2>7
<1>4. CASE name \notin Here /\ name # Up
  <2>1. Step(here, name) = Append(here, name)
    BY <1>4 DEF Step
  <2> QED BY <1>4, <2>1, AppendProperties
<1> QED BY <1>2, <1>3, <1>4

LEMMA WalkIs ==
  ASSUME NEW T, NEW start \in Seq(T), NEW names \in Seq(T)
  PROVE  /\ Walk(start, names) \in [0 .. Len(names) -> Seq(T)] /\ Walk(start, names)[0] = start
         /\ \A k \in 1 .. Len(names) :
              Walk(start, names)[k] = Step(Walk(start, names)[k - 1], names[k])
<1> DEFINE n == Len(names)
           step == [k \in 1 .. n |-> [here \in Seq(T) |-> Step(here, names[k])]]
           value(P, k) == CASE k = 0 -> start
                            [] k > 0 /\ names[k] \in {<<>>, <<Dot>>} -> P[k - 1]
                            [] k > 0 /\ names[k] = <<Dot, Dot>> ->
                                 LET here == P[k - 1] IN SubSeq(here, 1, Len(here) - 1)
                            [] OTHER -> Append(P[k - 1], names[k])
<1>1. n \in Nat /\ \A k \in 1 .. n : names[k] \in T
  BY LenProperties, ElementOfSeq
<1>2. step \in [1 .. n -> [Seq(T) -> Seq(T)]]
  <2>1. ASSUME NEW k \in 1 .. n, NEW here \in Seq(T) PROVE Step(here, names[k]) \in Seq(T)
    BY <1>1, StepIs
  <2> HIDE DEF n
  <2> QED BY <2>1
<1>3. PICK f \in [0 .. n -> Seq(T)] :
        f[0] = start /\ \A k \in 1 .. n : f[k] = step[k][f[k - 1]]
  <2> HIDE DEF step, n
  <2>1. HasChain(Seq(T), start, n, step)
    BY <1>1, <1>2, Chain, Zenon
  <2> QED BY <2>1 DEF HasChain
<1>4. ASSUME NEW P, NEW k \in 1 .. n PROVE value(P, k) = Step(P[k - 1], names[k])
  <2>1. k # 0 /\ k > 0
    OBVIOUS
  <2>2. CASE names[k] \in Here
    <3>1. names[k] \in {<<>>, <<Dot>>} /\ names[k] # <<Dot, Dot>>
      BY <2>2, UpIsNotHere DEF Here, Up
    <3>2. value(P, k) = P[k - 1]
      BY <2>1, <3>1, Zenon
    <3> QED BY <2>2, <3>2 DEF Step
  <2>3. CASE names[k] = Up
    <3>1. names[k] \notin {<<>>, <<Dot>>} /\ names[k] = <<Dot, Dot>>
      BY <2>3, UpIsNotHere DEF Here, Up
    <3>2. value(P, k) = SubSeq(P[k - 1], 1, Len(P[k - 1]) - 1)
      BY <2>1, <3>1, Zenon
    <3>3. names[k] \notin Here
      BY <2>3, UpIsNotHere
    <3> HIDE DEF value
    <3> QED BY <2>3, <3>2, <3>3 DEF Step
  <2>4. CASE names[k] \notin Here /\ names[k] # Up
    <3>1. names[k] \notin {<<>>, <<Dot>>} /\ names[k] # <<Dot, Dot>>
      BY <2>4 DEF Here, Up
    <3>2. value(P, k) = Append(P[k - 1], names[k])
      BY <2>1, <3>1, Zenon
    <3> HIDE DEF value
    <3> QED BY <2>4, <3>2 DEF Step
  <2> QED BY <2>2, <2>3, <2>4
<1>5. ASSUME NEW k \in 1 .. n PROVE f[k - 1] \in Seq(T) /\ f[k] = Step(f[k - 1], names[k])
  <2>1. k - 1 \in 0 .. n
    BY <1>1
  <2>2. f[k - 1] \in Seq(T)
    BY <1>3, <2>1
  <2>3. f[k] = step[k][f[k - 1]]
    BY <1>3
  <2> QED BY <2>2, <2>3
<1>6. ASSUME NEW k \in 0 .. n PROVE f[k] = value(f, k)
  <2>1. CASE k = 0
    BY <1>3, <2>1
  <2>2. CASE k \in 1 .. n
    <3> HIDE DEF value
    <3> QED BY <1>4, <1>5, <2>2
  <2>3. k = 0 \/ k \in 1 .. n
    BY <1>1
  <2> QED BY <2>1, <2>2, <2>3
<1> DEFINE a == Walk(start, names)
<1>7. a = [k \in 0 .. n |-> value(a, k)]
  <2>1. f = [k \in 0 .. n |-> value(f, k)]
    <3> HIDE DEF value
    <3> QED BY <1>3, <1>6
  <2>2. \E P : P = [k \in 0 .. n |-> value(P, k)]
    <3> HIDE DEF value
    <3> QED BY <2>1
  <2>3. a = CHOOSE P : P = [k \in 0 .. n |-> value(P, k)]
    BY DEF Walk
  <2> HIDE DEF value, a
  <2> QED BY <2>2, <2>3
<1> HIDE DEF a
<1>8. a[0] = start
  <2>1. 0 \in 0 .. n
    BY <1>1
  <2>2. a[0] = value(a, 0)
    <3> HIDE DEF value
    <3> QED BY <1>7, <2>1
  <2> QED BY <2>2
<1>9. ASSUME NEW k \in 1 .. n PROVE a[k] = Step(a[k - 1], names[k])
  <2>1. k \in 0 .. n
    BY <1>1
  <2>2. a[k] = value(a, k)
    <3> HIDE DEF value
    <3> QED BY <1>7, <2>1
  <2>3. value(a, k) = Step(a[k - 1], names[k])
    <3> HIDE DEF value
    <3> QED BY <1>4
  <2> HIDE DEF value
  <2> QED BY <2>2, <2>3
<1> HIDE DEF n
<1> DEFINE M == {k \in Nat : k <= n => a[k] \in Seq(T)}
<1>10. M = Nat
  <2>1. 0 \in M
    BY <1>8
  <2>2. ASSUME NEW k \in M PROVE k + 1 \in M
    <3>1. k \in Nat /\ k + 1 \in Nat
      OBVIOUS
    <3> SUFFICES ASSUME k + 1 <= n PROVE a[k + 1] \in Seq(T)
      BY <3>1
    <3>2. k + 1 \in 1 .. n /\ (k + 1) - 1 = k /\ k <= n
      BY <1>1, <3>1
    <3>3. a[k] \in Seq(T)
      BY <3>2
    <3>4. a[k + 1] = Step(a[k], names[k + 1]) /\ names[k + 1] \in T
      BY <1>1, <1>9, <3>2
    <3>5. \A here \in Seq(T), name \in T : Step(here, name) \in Seq(T)
      BY StepIs
    <3> QED BY <3>3, <3>4, <3>5, Zenon
  <2>3. M \in SUBSET Nat
    OBVIOUS
  <2> HIDE DEF M
  <2> QED BY <2>1, <2>2, <2>3, AllNumbers
<1>11. \A k \in 0 .. n : a[k] \in Seq(T)
  <2> TAKE k \in 0 .. n
  <2>1. k \in M /\ k <= n
    BY <1>1, <1>10
  <2> QED BY <2>1
<1>12. a \in [0 .. n -> Seq(T)]
  <2> HIDE DEF value, M
  <2> QED BY <1>7, <1>11
<1> QED BY <1>8, <1>9, <1>12 DEF a, n

\* Whoever is as deep as the parts of a path allow keeps the names he began with,
\* even where a part is replaced by the page of a directory.
LEMMA WalkStays ==
  ASSUME NEW start \in Seq(Seq(Byte)), NEW parts \in Seq(Seq(Byte)), NEW names \in Seq(Seq(Byte)),
         Len(names) = Len(parts),
         \A k \in 1 .. Len(parts) : names[k] = parts[k] \/ names[k] = homepage,
         \A k \in 1 .. Len(parts) : Depth(parts)[k] >= 0
  PROVE  LET place == Walk(start, names)[Len(names)]
         IN /\ place \in Seq(Seq(Byte)) /\ Len(place) >= Len(start)
            /\ \A i \in 1 .. Len(start) : place[i] = start[i]
<1> DEFINE n == Len(parts)
           D == Depth(parts)
           W == Walk(start, names)
           l == Len(start)
           below(k) == /\ Len(W[k]) >= l + D[k]
                       /\ \A i \in 1 .. l : W[k][i] = start[i]
           M == {k \in Nat : k <= n => below(k)}
<1>1. n \in Nat /\ l \in Nat
  BY LenProperties
<1>2. D \in [0 .. n -> Int] /\ D[0] = 0
  BY <1>1, DepthIs
<1>3. \A k \in 1 .. n : D[k] = D[k - 1] + IF parts[k] \in Here THEN 0 ELSE IF parts[k] = Up THEN -1 ELSE 1
  BY <1>1, DepthIs
<1>4. /\ W \in [0 .. n -> Seq(Seq(Byte))] /\ W[0] = start
      /\ \A k \in 1 .. n : W[k] = Step(W[k - 1], names[k])
  <2>1. /\ W \in [0 .. Len(names) -> Seq(Seq(Byte))] /\ W[0] = start
        /\ \A k \in 1 .. Len(names) : W[k] = Step(W[k - 1], names[k])
    BY WalkIs
  <2> QED BY <2>1
<1>5. homepage \notin Here /\ homepage # Up
  BY Homepage DEF Here, Up
<1> HIDE DEF D, W
<1>6. ASSUME NEW k \in 0 .. n - 1, below(k) PROVE below(k + 1)
  <2> DEFINE here == W[k]
             name == names[k + 1]
             part == parts[k + 1]
             there == Step(here, name)
  <2>1. k \in 0 .. n /\ k + 1 \in 1 .. n /\ k + 1 \in 0 .. n /\ (k + 1) - 1 = k
    BY <1>1
  <2>2. here \in Seq(Seq(Byte))
    BY <1>4, <2>1
  <2>3. name \in Seq(Byte)
    <3>1. k + 1 \in 1 .. Len(names)
      BY <2>1
    <3> HIDE DEF name
    <3>2. \A j \in 1 .. Len(names) : names[j] \in Seq(Byte)
      BY ElementOfSeq
    <3> QED BY <3>1, <3>2 DEF name
  <2>4. W[k + 1] = there
    BY <1>4, <2>1
  <2>5. D[k] \in Int /\ D[k + 1] \in Int /\ D[k + 1] >= 0 /\ D[k] >= 0
    <3>1. k = 0 \/ k \in 1 .. n
      BY <1>1
    <3>2. D[k + 1] >= 0 /\ (k \in 1 .. n => D[k] >= 0)
      BY <2>1 DEF D
    <3>3. D[k] \in Int /\ D[k + 1] \in Int
      <4> HIDE DEF n
      <4> QED BY <1>2, <2>1
    <3>4. k = 0 => D[k] >= 0
      BY <1>2
    <3> QED BY <3>1, <3>2, <3>3, <3>4
  <2>6. D[k + 1] = D[k] + IF part \in Here THEN 0 ELSE IF part = Up THEN -1 ELSE 1
    BY <1>3, <2>1
  <2>7. name = part \/ name = homepage
    BY <2>1
  <2> DEFINE h == Len(here)
  <2>8. h \in Nat /\ h >= l + D[k] /\ \A i \in 1 .. l : here[i] = start[i]
    <3>1. h \in Nat
      BY <2>2, LenProperties
    <3> QED BY <1>6, <3>1
  <2>9. here = <<>> => h = 0
    OBVIOUS
  <2> HIDE DEF here, name, part, there, h, l
  <2>10. CASE name \in Here
    <3>1. part \in Here /\ D[k + 1] = D[k]
      BY <1>5, <2>5, <2>6, <2>7, <2>10
    <3>2. there = here
      BY <2>2, <2>3, <2>10, StepIs DEF there
    <3>3. Len(there) = h
      BY <3>2 DEF h
    <3> QED BY <2>4, <2>8, <3>1, <3>2, <3>3
  <2>11. CASE name = Up
    <3>1. part = Up /\ part \notin Here
      BY <1>5, <2>7, <2>11, UpIsNotHere
    <3>2. D[k + 1] = D[k] - 1
      BY <2>5, <2>6, <3>1
    <3>3. h >= l + 1 /\ h # 0
      <4>1. D[k] >= 1
        BY <2>5, <3>2
      <4>2. \A c, x \in Nat : \A d \in Int : x >= c + d /\ d >= 1 => x >= c + 1 /\ x # 0
        OBVIOUS
      <4> QED BY <1>1, <2>5, <2>8, <4>1, <4>2
    <3>4. Len(there) = h - 1 /\ \A i \in 1 .. h - 1 : there[i] = here[i]
      <4>1. here # <<>>
        BY <2>9, <3>3
      <4>2. /\ Len(there) = IF here = <<>> THEN 0 ELSE Len(here) - 1
            /\ \A i \in 1 .. Len(here) - 1 : there[i] = here[i]
        BY <2>2, <2>3, <2>11, StepIs DEF there
      <4> QED BY <4>1, <4>2 DEF h
    <3>5. \A i \in 1 .. l : i \in 1 .. h - 1
      <4>1. \A c, x \in Nat : x >= c + 1 => \A i \in 1 .. c : i \in 1 .. x - 1
        OBVIOUS
      <4> QED BY <1>1, <2>8, <3>3, <4>1
    <3>6. \A i \in 1 .. l : there[i] = start[i]
      BY <2>8, <3>4, <3>5
    <3>7. Len(there) >= l + D[k + 1]
      <4>1. \A d, e \in Int : h >= l + d /\ e = d - 1 => h - 1 >= l + e
        BY <1>1, <2>8
      <4> QED BY <2>5, <2>8, <3>2, <3>4, <4>1
    <3> QED BY <2>4, <3>6, <3>7
  <2>12. CASE name \notin Here /\ name # Up
    <3>1. D[k + 1] <= D[k] + 1
      <4>1. PICK e \in {-1, 0, 1} : D[k + 1] = D[k] + e
        BY <2>6
      <4>2. \A x \in Int : \A y \in {-1, 0, 1} : x + y <= x + 1
        OBVIOUS
      <4> QED BY <2>5, <4>1, <4>2
    <3>2. Len(there) = h + 1 /\ \A i \in 1 .. h : there[i] = here[i]
      BY <2>2, <2>3, <2>12, StepIs DEF there, h
    <3>3. ASSUME NEW i \in 1 .. l PROVE there[i] = start[i]
      <4>1. i \in 1 .. h
        <5>1. \A c, x \in Nat : \A d \in Int : x >= c + d /\ d >= 0 => c <= x
          OBVIOUS
        <5>2. l <= h
          BY <1>1, <2>5, <2>8, <5>1
        <5> QED BY <1>1, <2>8, <5>2
      <4>2. there[i] = here[i]
        BY <3>2, <4>1
      <4> QED BY <2>8, <4>2
    <3>4. Len(there) >= l + D[k + 1]
      <4>1. \A d, e \in Int : h >= l + d /\ e <= d + 1 => h + 1 >= l + e
        BY <1>1, <2>8
      <4> QED BY <2>5, <2>8, <3>1, <3>2, <4>1
    <3> QED BY <2>4, <3>3, <3>4
  <2> QED BY <2>10, <2>11, <2>12
<1> HIDE DEF below
<1>7. below(0)
  <2>1. Len(W[0]) >= l + D[0]
    BY <1>1, <1>2, <1>4
  <2> QED BY <1>4, <2>1 DEF below
<1> HIDE DEF n
<1>8. M = Nat
  <2>1. 0 \in M
    BY <1>7
  <2>2. ASSUME NEW k \in M PROVE k + 1 \in M
    <3>1. k \in Nat /\ k + 1 \in Nat
      OBVIOUS
    <3> SUFFICES ASSUME k + 1 <= n PROVE below(k + 1)
      BY <3>1
    <3>2. k \in 0 .. n - 1 /\ k <= n
      BY <1>1, <3>1
    <3>3. below(k)
      BY <3>2
    <3> QED BY <1>6, <3>2, <3>3
  <2>3. M \in SUBSET Nat
    OBVIOUS
  <2> HIDE DEF M
  <2> QED BY <2>1, <2>2, <2>3, AllNumbers
<1>9. below(n)
  <2>1. n <= n
    BY <1>1
  <2>2. n \in M
    <3> HIDE DEF M
    <3> QED BY <1>1, <1>8
  <2> QED BY <2>1, <2>2
<1>10. D[n] \in Int /\ D[n] >= 0 /\ W[n] \in Seq(Seq(Byte))
  <2>1. n \in 0 .. n /\ (n = 0 \/ n \in 1 .. n)
    BY <1>1
  <2>2. n \in 1 .. n => D[n] >= 0
    BY DEF D, n
  <2> QED BY <1>2, <1>4, <2>1, <2>2
<1>11. Len(W[n]) \in Nat
  BY <1>10, LenProperties
<1>12. Len(W[n]) >= l
  BY <1>1, <1>9, <1>10, <1>11 DEF below
<1> QED BY <1>9, <1>10, <1>12 DEF below, n, W

\* A disk: nothing is both, and above a directory is a directory.
IsDisk(t) ==
  /\ t.dirs \subseteq Places /\ t.files \subseteq Places /\ t.dirs \cap t.files = {}
  /\ \A p \in t.dirs : Front(p) \in t.dirs

\* Where a file is found, its name is the last one, and what is before it a directory.
LEMMA FileIsNamed ==
  ASSUME NEW text \in Seq(Byte), NEW t, IsDisk(t), NEW start \in t.dirs,
         IsFileExists(t, start, text)
  PROVE  LET names == SplitString(c_str(text), Slash)
             n == Len(names)
             W == Walk(start, names)
         IN /\ names \in Seq(Seq(Byte)) /\ n \in Nat \ {0} /\ W[n - 1] \in Seq(Seq(Byte))
            /\ names[n] \in Seq(Byte) \ Here /\ names[n] # Up
            /\ Lookup(t, start, text) = W[n]
            /\ Lookup(t, start, text) = Append(W[n - 1], names[n])
<1> DEFINE names == SplitString(c_str(text), Slash)
           n == Len(names)
           W == Walk(start, names)
           here == W[n - 1]
           name == names[n]
           place == Lookup(t, start, text)
<1>1. names \in Seq(Seq(Byte)) /\ start \in Seq(Seq(Byte))
  <2>1. c_str(text) \in Seq(Byte)
    BY CStrIs
  <2> QED BY <2>1, SplitParts DEF IsDisk, Places
<1>2. n \in Nat \ {0}
  <2>1. c_str(text) \in Seq(Byte)
    BY CStrIs
  <2> QED BY <2>1, LastStart
<1>3. /\ W \in [0 .. n -> Seq(Seq(Byte))]
      /\ \A k \in 1 .. n : W[k] = Step(W[k - 1], names[k])
  <2> HIDE DEF names
  <2> QED BY <1>1, WalkIs
<1>4. place = W[n] /\ \A k \in 0 .. n - 1 : W[k] \in t.dirs
  <2>1. place \in Places /\ place # Nowhere
    <3>1. place \in t.files
      BY DEF IsFileExists
    <3>2. Nowhere \notin Places
      <4> SUFFICES ASSUME Nowhere \in Places PROVE FALSE
        OBVIOUS
      <4>1. Nowhere \in Seq(Seq(Byte) \ {<<>>}) /\ 1 \in 1 .. Len(Nowhere)
        BY DEF Places, Nowhere
      <4>2. Nowhere[1] \in Seq(Byte) \ {<<>>}
        BY <4>1, ElementOfSeq
      <4> QED BY <4>2 DEF Nowhere
    <3> HIDE DEF place
    <3> QED BY <3>1, <3>2 DEF IsDisk
  <2> QED BY <2>1, LookupIs
<1>5. place \notin t.dirs
  BY DEF IsFileExists, IsDisk
<1> HIDE DEF names, n, W, place
<1>6. n - 1 \in 0 .. n - 1 /\ n \in 1 .. n /\ n - 1 \in 0 .. n
  BY <1>2
<1>7. here \in t.dirs /\ here \in Seq(Seq(Byte)) /\ place = Step(here, name)
  BY <1>3, <1>4, <1>6
<1>8. name \in Seq(Byte)
  <2>1. n \in 1 .. Len(names)
    BY <1>6 DEF n
  <2> HIDE DEF n
  <2> QED BY <1>1, <2>1, ElementOfSeq
<1> HIDE DEF here, name
<1>9. name \notin Here
  BY <1>5, <1>7 DEF Step
<1>10. name # Up
  <2> SUFFICES ASSUME name = Up PROVE FALSE
    OBVIOUS
  <2>1. Step(here, name) = Front(here)
    BY <1>9 DEF Step, Front
  <2> QED BY <1>5, <1>7, <2>1 DEF IsDisk
<1>11. place = Append(here, name)
  BY <1>7, <1>9, <1>10 DEF Step
<1> QED BY <1>1, <1>2, <1>4, <1>7, <1>8, <1>9, <1>10, <1>11 DEF names, n, W, here, name, place

\* What IsFileHandler has found valid names no file but those below the start, even
\* where the name is cut at a byte 0: up to its last part it is the path.
LEMMA LookupStays ==
  ASSUME NEW path \in Seq(Byte), ValidPath(path), NEW t, IsDisk(t), NEW start \in t.dirs,
         IsFileExists(t, start, RequestPath(path))
  PROVE  IsPrefix(start, Lookup(t, start, RequestPath(path)))
<1> DEFINE text == RequestPath(path)
           parts == SplitString(path, Slash)
           names == SplitString(c_str(text), Slash)
           c == Cardinality(Starts(path, Slash))
           place == Walk(start, names)[Len(names)]
           stays == /\ place \in Seq(Seq(Byte)) /\ Len(place) >= Len(start)
                    /\ \A i \in 1 .. Len(start) : place[i] = start[i]
<1>1. /\ text \in Seq(Byte)
      /\ \/ c_str(text) = text
         \/ \E m \in 0 .. Len(path) - 1 : c_str(text) = SubSeq(path, 1, m) /\ path[m + 1] = Nul
  BY PathIsCut
<1>2. /\ parts \in Seq(Seq(Byte)) /\ Len(parts) = c
      /\ \A k \in 1 .. c : /\ Nth(Starts(path, Slash), k) \in Starts(path, Slash)
                          /\ parts[k] = Part(path, Slash, Nth(Starts(path, Slash), k))
  BY SplitParts
<1>3. \A k \in 1 .. Len(parts) : Depth(parts)[k] >= 0
  BY ValidPathIs
<1>4. start \in Seq(Seq(Byte))
  BY DEF IsDisk, Places
<1>5. /\ names \in Seq(Seq(Byte)) /\ Len(names) \in Nat \ {0}
      /\ names[Len(names)] \notin Here /\ names[Len(names)] # Up
      /\ Lookup(t, start, text) = place
  <2> HIDE DEF text
  <2> QED BY <1>1, FileIsNamed DEF text
<1>6. ASSUME c_str(text) = text PROVE stays
  <2>1. /\ Starts(text, Slash) = Starts(path, Slash)
        /\ \A k \in Starts(path, Slash) :
             Part(text, Slash, k) = Part(path, Slash, k) \/ Part(text, Slash, k) = homepage
    BY WithHomepage DEF RequestPath
  <2>2. /\ Len(names) = c
        /\ \A k \in 1 .. c : names[k] = Part(text, Slash, Nth(Starts(path, Slash), k))
    <3> HIDE DEF text
    <3> QED BY <1>1, <1>6, <2>1, SplitParts
  <2>3. \A k \in 1 .. Len(parts) : names[k] = parts[k] \/ names[k] = homepage
    <3> HIDE DEF text, parts, names, c
    <3> QED BY <1>2, <2>1, <2>2
  <2>4. Len(names) = Len(parts)
    BY <1>2, <2>2
  <2> HIDE DEF text, parts, names, c
  <2> QED BY <1>2, <1>3, <1>4, <1>5, <2>3, <2>4, WalkStays
<1>7. ASSUME NEW m \in 0 .. Len(path) - 1, c_str(text) = SubSeq(path, 1, m), path[m + 1] = Nul
      PROVE  stays
  <2> DEFINE n == Len(names)
  <2>1. path[m + 1] # Slash
    BY <1>7 DEF Nul, Slash
  <2>2. n <= Len(parts) /\ \A k \in 1 .. n - 1 : names[k] = parts[k]
    <3> HIDE DEF text
    <3> QED BY <1>7, <2>1, CutParts
  <2> HIDE DEF text, names, parts
  <2>3. Len(parts) \in Nat /\ n \in Nat \ {0}
    BY <1>2, <1>5, LenProperties
  <2>4. \A k \in 0 .. n - 1 : Depth(parts)[k] = Depth(names)[k]
    <3>1. PICK m1 \in Nat : m1 = n - 1
      <4> HIDE DEF n
      <4> QED BY <2>3
    <3>2. m1 <= Len(parts) /\ m1 <= Len(names)
      BY <2>2, <2>3, <3>1
    <3>3. \A k \in 1 .. m1 : parts[k] = names[k]
      BY <2>2, <3>1
    <3>4. \A k \in 0 .. m1 : Depth(parts)[k] = Depth(names)[k]
      BY <2>3, <3>2, <3>3, DepthsAgree
    <3> QED BY <3>1, <3>4
  <2>5. /\ Depth(names) \in [0 .. n -> Int] /\ Depth(names)[0] = 0
        /\ \A k \in 1 .. n :
             Depth(names)[k] = Depth(names)[k - 1] +
               IF names[k] \in Here THEN 0 ELSE IF names[k] = Up THEN -1 ELSE 1
    BY <2>3, DepthIs
  <2>6. \A k \in 0 .. n - 1 : Depth(names)[k] >= 0
    <3> SUFFICES ASSUME NEW k \in 0 .. n - 1 PROVE Depth(names)[k] >= 0
      OBVIOUS
    <3>1. k = 0 \/ k \in 1 .. Len(parts)
      BY <2>2, <2>3
    <3>2. Depth(names)[k] = Depth(parts)[k]
      BY <2>4
    <3> QED BY <1>3, <2>5, <3>1, <3>2
  <2>7. Depth(names)[n] >= 0
    <3>1. n \in 1 .. n /\ n - 1 \in 0 .. n - 1 /\ n - 1 \in 0 .. n
      BY <2>3
    <3>2. Depth(names)[n] = Depth(names)[n - 1] + 1
      BY <1>5, <2>5, <3>1
    <3>3. Depth(names)[n - 1] \in Int /\ Depth(names)[n - 1] >= 0
      <4> HIDE DEF n
      <4> QED BY <2>5, <2>6, <3>1
    <3> QED BY <3>2, <3>3
  <2>8. \A k \in 1 .. Len(names) : Depth(names)[k] >= 0
    <3> SUFFICES ASSUME NEW k \in 1 .. n PROVE Depth(names)[k] >= 0
      OBVIOUS
    <3>1. k = n \/ k \in 0 .. n - 1
      BY <2>3
    <3> QED BY <2>6, <2>7, <3>1
  <2> QED BY <1>4, <1>5, <2>8, WalkStays
<1>8. stays /\ Lookup(t, start, text) = place
  <2> HIDE DEF text, place, stays
  <2> QED BY <1>1, <1>5, <1>6, <1>7
<1>9. stays
  BY <1>8
<1> HIDE DEF place, text
<1>10. SubSeq(start, 1, Len(start)) = SubSeq(place, 1, Len(start))
  <2> DEFINE l == Len(start)
             s == SubSeq(start, 1, l)
             p == SubSeq(place, 1, l)
  <2>1. l \in Nat /\ l \in Int /\ Len(place) \in Nat
    BY <1>4, <1>9, LenProperties
  <2>2. PICK one \in Int : one = 1
    OBVIOUS
  <2>3. \A i \in one .. l : start[i] \in Seq(Byte)
    BY <1>4, <2>2, ElementOfSeq
  <2>4. \A i \in one .. l : place[i] \in Seq(Byte)
    BY <1>9, <2>2, <2>3
  <2> HIDE DEF l
  <2>5. /\ SubSeq(start, one, l) \in Seq(Seq(Byte))
        /\ Len(SubSeq(start, one, l)) = IF one <= l THEN l - one + 1 ELSE 0
        /\ \A i \in 1 .. l - one + 1 : SubSeq(start, one, l)[i] = start[one + i - 1]
    BY <2>1, <2>3, SubSeqProperties
  <2>6. /\ SubSeq(place, one, l) \in Seq(Seq(Byte))
        /\ Len(SubSeq(place, one, l)) = IF one <= l THEN l - one + 1 ELSE 0
        /\ \A i \in 1 .. l - one + 1 : SubSeq(place, one, l)[i] = place[one + i - 1]
    BY <2>1, <2>4, SubSeqProperties
  <2>7. /\ s \in Seq(Seq(Byte)) /\ Len(s) = l /\ \A i \in 1 .. l : s[i] = start[i]
    BY <2>1, <2>2, <2>5
  <2>8. /\ p \in Seq(Seq(Byte)) /\ Len(p) = l /\ \A i \in 1 .. l : p[i] = place[i]
    BY <2>1, <2>2, <2>6
  <2> HIDE DEF s, p
  <2>9. \A i \in 1 .. Len(s) : s[i] = p[i]
    BY <1>9, <2>7, <2>8 DEF l
  <2>10. s = p
    BY <2>7, <2>8, <2>9, SeqEqual
  <2> QED BY <2>10 DEF s, p, l
<1> QED BY <1>8, <1>9, <1>10 DEF IsPrefix, text

-----------------------------------------------------------------------------
(* UrlDecode.                                                               *)

LEMMA Digits == \A c \in Byte : HEXTOI(c) \in -1 .. 35
BY DEF HEXTOI, IsDigit, IsLower, IsUpper, Byte

\* What two bytes behind a percent sign say, and what is decoded from each place on.
HexPair(x, y) == (HEXTOI(x) * 16 + HEXTOI(y)) % 256
Decoding(url, plus, from) ==
  /\ from \in [1 .. Len(url) + 1 -> Seq(Byte)]
  /\ from[1] = UrlDecode(url, plus) /\ from[Len(url) + 1] = <<>>
  /\ \A k \in 1 .. Len(url) :
       /\ url[k] = Plus /\ plus => from[k] = <<Space>> \o from[k + 1]
       /\ k + 2 <= Len(url) /\ url[k] = Percent =>
            from[k] = <<HexPair(url[k + 1], url[k + 2])>> \o from[k + 3]
       /\ ~ (url[k] = Plus /\ plus) /\ ~ (k + 2 <= Len(url) /\ url[k] = Percent) =>
            from[k] = <<url[k]>> \o from[k + 1]

LEMMA DecodesBy ==
  ASSUME NEW url \in Seq(Byte), NEW plus
  PROVE  \E from : Decoding(url, plus, from)
<1> DEFINE n == Len(url)
           D == 1 .. n + 1
           S == Seq(Byte)
           hex(k) == (HEXTOI(url[k + 1]) * 16 + HEXTOI(url[k + 2])) % 256
           value(g, k) == CASE k > n -> <<>>
                            [] k <= n /\ url[k] = Plus /\ plus -> <<Space>> \o g[k + 1]
                            [] k + 2 <= n /\ url[k] = Percent -> <<hex(k)>> \o g[k + 3]
                            [] OTHER -> <<url[k]>> \o g[k + 1]
<1>1. n \in Nat /\ \A k \in 1 .. n : url[k] \in Byte
  BY LenProperties, ElementOfSeq
<1>2. ASSUME NEW k \in D, k + 2 <= n PROVE hex(k) \in Byte
  <2>1. k + 1 \in 1 .. n /\ k + 2 \in 1 .. n
    BY <1>1, <1>2
  <2>2. HEXTOI(url[k + 1]) \in -1 .. 35 /\ HEXTOI(url[k + 2]) \in -1 .. 35
    BY <1>1, <2>1, Digits
  <2>3. \A x, y \in -1 .. 35 : (x * 16 + y) % 256 \in Byte
    BY DEF Byte
  <2> QED BY <2>2, <2>3
<1> HIDE DEF hex
<1>3. <<>> \in S /\ \A c \in Byte, s \in S : <<c>> \o s \in S
  <2>1. \A c \in Byte : <<c>> \in Seq(Byte)
    OBVIOUS
  <2>2. \A s, t \in Seq(Byte) : s \o t \in Seq(Byte)
    BY ConcatProperties
  <2> QED BY <2>1, <2>2
<1>4. Plus # Percent /\ Space \in Byte
  BY DEF Plus, Percent, Space, Byte
<1>5. ASSUME NEW g, NEW k \in D
      PROVE  /\ k > n => value(g, k) = <<>>
             /\ k <= n /\ url[k] = Plus /\ plus => value(g, k) = <<Space>> \o g[k + 1]
             /\ k + 2 <= n /\ url[k] = Percent => value(g, k) = <<hex(k)>> \o g[k + 3]
             /\ k <= n /\ ~ (url[k] = Plus /\ plus) /\ ~ (k + 2 <= n /\ url[k] = Percent)
                  => value(g, k) = <<url[k]>> \o g[k + 1]
  <2>1. (k > n => ~ (k <= n) /\ ~ (k + 2 <= n)) /\ (k + 2 <= n => k <= n) /\ (k <= n => ~ (k > n))
    BY <1>1
  <2>2. CASE k > n
    BY <2>1, <2>2, Zenon
  <2>3. CASE k <= n /\ url[k] = Plus /\ plus
    <3>1. ~ (k > n) /\ url[k] # Percent
      BY <1>4, <2>1, <2>3
    <3> QED BY <2>1, <2>3, <3>1, Zenon
  <2>4. CASE k + 2 <= n /\ url[k] = Percent
    <3>1. ~ (k > n) /\ url[k] # Plus
      BY <1>4, <2>1, <2>4
    <3> QED BY <2>1, <2>4, <3>1, Zenon
  <2>5. CASE k <= n /\ ~ (url[k] = Plus /\ plus) /\ ~ (k + 2 <= n /\ url[k] = Percent)
    <3>1. ~ (k > n)
      BY <2>1, <2>5
    <3> QED BY <2>1, <2>5, <3>1, Zenon
  <2>6. k > n \/ k <= n
    BY <1>1
  <2> HIDE DEF value
  <2> QED BY <2>1, <2>2, <2>3, <2>4, <2>5, <2>6, Zenon
<1>6. ASSUME NEW k \in D, ~ (k > n)
      PROVE  /\ k \in 1 .. n /\ k + 1 \in D /\ k + 1 > k
             /\ k + 2 <= n => k + 3 \in D /\ k + 3 > k
  BY <1>1, <1>6
<1> HIDE DEF value
<1>7. ASSUME NEW k \in D, NEW g, \A j \in D : j > k => g[j] \in S
      PROVE  value(g, k) \in S
  <2>1. CASE k > n
    BY <1>3, <1>5, <2>1
  <2>2. CASE ~ (k > n)
    <3>1. k \in 1 .. n /\ k <= n /\ url[k] \in Byte /\ g[k + 1] \in S
      BY <1>1, <1>6, <1>7, <2>2
    <3> HIDE DEF D, S, n
    <3>2. CASE url[k] = Plus /\ plus
      <4>1. value(g, k) = <<Space>> \o g[k + 1]
        BY <1>5, <3>1, <3>2, Zenon
      <4> QED BY <1>3, <1>4, <3>1, <4>1, Zenon
    <3>3. CASE k + 2 <= n /\ url[k] = Percent
      <4>1. value(g, k) = <<hex(k)>> \o g[k + 3]
        BY <1>5, <3>1, <3>3, Zenon
      <4>2. hex(k) \in Byte /\ g[k + 3] \in S
        BY <1>2, <1>6, <1>7, <2>2, <3>3
      <4> QED BY <1>3, <4>1, <4>2, Zenon
    <3>4. CASE ~ (url[k] = Plus /\ plus) /\ ~ (k + 2 <= n /\ url[k] = Percent)
      <4>1. value(g, k) = <<url[k]>> \o g[k + 1]
        BY <1>5, <3>1, <3>4, Zenon
      <4> QED BY <1>3, <3>1, <4>1, Zenon
    <3> QED BY <3>2, <3>3, <3>4
  <2> QED BY <2>1, <2>2
<1>8. ASSUME NEW k \in D, NEW g, NEW h, \A j \in D : j > k => g[j] = h[j]
      PROVE  value(g, k) = value(h, k)
  <2>1. CASE k > n
    <3>1. value(g, k) = <<>> /\ value(h, k) = <<>>
      BY <1>5, <2>1
    <3> QED BY <3>1
  <2>2. CASE ~ (k > n)
    <3>1. k <= n /\ g[k + 1] = h[k + 1]
      BY <1>1, <1>6, <1>8, <2>2
    <3> HIDE DEF D, S, n
    <3>2. CASE url[k] = Plus /\ plus
      <4>1. value(g, k) = <<Space>> \o g[k + 1] /\ value(h, k) = <<Space>> \o h[k + 1]
        BY <1>5, <3>1, <3>2, Zenon
      <4> QED BY <3>1, <4>1
    <3>3. CASE k + 2 <= n /\ url[k] = Percent
      <4>1. value(g, k) = <<hex(k)>> \o g[k + 3] /\ value(h, k) = <<hex(k)>> \o h[k + 3]
        BY <1>5, <3>1, <3>3, Zenon
      <4>2. g[k + 3] = h[k + 3]
        BY <1>6, <1>8, <2>2, <3>3
      <4> QED BY <4>1, <4>2
    <3>4. CASE ~ (url[k] = Plus /\ plus) /\ ~ (k + 2 <= n /\ url[k] = Percent)
      <4>1. value(g, k) = <<url[k]>> \o g[k + 1] /\ value(h, k) = <<url[k]>> \o h[k + 1]
        BY <1>5, <3>1, <3>4, Zenon
      <4> QED BY <3>1, <4>1
    <3> QED BY <3>2, <3>3, <3>4
  <2> QED BY <2>1, <2>2
<1> DEFINE rank == [k \in D |-> n + 1 - k]
<1>9. \A j, k \in D : j > k => rank[j] < rank[k]
  BY <1>1
<1>10. rank \in [D -> 0 .. n]
  BY <1>1
<1>11. PICK f \in [D -> S] : \A k \in D : f[k] = value(f, k)
  <2> DEFINE next == [k \in D |-> [g \in [D -> S] |-> value(g, k)]]
  <2> HIDE DEF D, S, rank
  <2>1. ASSUME NEW k \in D, NEW g \in [D -> S] PROVE value(g, k) \in S
    BY <1>7
  <2>2. next \in [D -> [[D -> S] -> S]]
    BY <2>1
  <2>3. \A k \in D, g \in [D -> S] : next[k][g] = value(g, k)
    OBVIOUS
  <2> HIDE DEF next
  <2>4. LooksBelow(D, S, rank, next)
    <3>1. ASSUME NEW k \in D, NEW g \in [D -> S], NEW h \in [D -> S],
                 \A j \in D : rank[j] < rank[k] => g[j] = h[j]
          PROVE  next[k][g] = next[k][h]
      <4>1. \A j \in D : j > k => g[j] = h[j]
        BY <1>9, <3>1
      <4>2. value(g, k) = value(h, k)
        BY <1>8, <4>1
      <4> QED BY <2>3, <4>2
    <3> QED BY <3>1 DEF LooksBelow
  <2>5. S # {}
    BY <1>3
  <2>6. n \in Nat
    BY <1>1
  <2> HIDE DEF n
  <2>7. IsDefined(D, S, next)
    BY <1>10, <2>2, <2>4, <2>5, <2>6, Recursion, Zenon
  <2> QED BY <2>3, <2>7 DEF IsDefined
<1> DEFINE a == CHOOSE F : F = [k \in D |-> value(F, k)]
<1>12. a = [k \in D |-> value(a, k)]
  <2>1. f = [k \in D |-> value(f, k)]
    <3> HIDE DEF D
    <3> QED BY <1>11
  <2>2. \E F : F = [k \in D |-> value(F, k)]
    <3> HIDE DEF D
    <3> QED BY <2>1
  <2> QED BY <2>2
<1>13. UrlDecode(url, plus) = a[1]
  BY DEF UrlDecode, value, hex
<1> HIDE DEF a
<1> DEFINE M == {m \in Nat : \A k \in D : n + 1 - k <= m => a[k] \in S}
<1>14. \A k \in D : a[k] = value(a, k)
  <2> HIDE DEF D
  <2> QED BY <1>12
<1>15. ASSUME NEW m \in Nat, \A k \in D : n + 1 - k < m => a[k] \in S,
              NEW k \in D, n + 1 - k <= m
       PROVE  a[k] \in S
  <2>1. \A j \in D : j > k => n + 1 - j < m
    BY <1>1, <1>15
  <2>2. \A j \in D : j > k => a[j] \in S
    BY <1>15, <2>1
  <2> HIDE DEF D, S
  <2> QED BY <1>7, <1>14, <2>2
<1>16. M = Nat
  <2>1. 0 \in M
    <3>1. \A k \in D : ~ (n + 1 - k < 0)
      BY <1>1
    <3>2. \A k \in D : n + 1 - k <= 0 => a[k] \in S
      BY <1>15, <3>1
    <3> QED BY <3>2
  <2>2. ASSUME NEW m \in M PROVE m + 1 \in M
    <3>1. m \in Nat /\ m + 1 \in Nat /\ \A k \in D : n + 1 - k <= m => a[k] \in S
      OBVIOUS
    <3>2. \A k \in D : n + 1 - k < m + 1 => n + 1 - k <= m
      BY <1>1, <3>1
    <3>3. \A k \in D : n + 1 - k <= m + 1 => a[k] \in S
      BY <1>15, <3>1, <3>2
    <3> QED BY <3>1, <3>3
  <2>3. M \in SUBSET Nat
    OBVIOUS
  <2> HIDE DEF M
  <2> QED BY <2>1, <2>2, <2>3, AllNumbers
<1>17. ASSUME NEW k \in D PROVE a[k] \in S
  <2>1. n + 1 - k \in Nat /\ n + 1 - k <= n + 1 - k
    BY <1>1
  <2>2. n + 1 - k \in M
    <3> HIDE DEF M
    <3> QED BY <1>16, <2>1
  <2> HIDE DEF D, S
  <2> QED BY <2>1, <2>2
<1>18. a \in [D -> S]
  <2> HIDE DEF D, S
  <2> QED BY <1>12, <1>17
<1>19. a[n + 1] = <<>>
  <2>1. n + 1 \in D /\ n + 1 > n
    BY <1>1
  <2> HIDE DEF D, n
  <2> QED BY <1>5, <1>14, <2>1
<1>20. ASSUME NEW k \in 1 .. n
       PROVE  /\ url[k] = Plus /\ plus => a[k] = <<Space>> \o a[k + 1]
              /\ k + 2 <= n /\ url[k] = Percent => a[k] = <<hex(k)>> \o a[k + 3]
              /\ ~ (url[k] = Plus /\ plus) /\ ~ (k + 2 <= n /\ url[k] = Percent) =>
                   a[k] = <<url[k]>> \o a[k + 1]
  <2>1. k \in D /\ k <= n
    BY <1>1
  <2> HIDE DEF D, n
  <2>2. a[k] = value(a, k)
    BY <1>14, <2>1
  <2> QED BY <1>5, <2>1, <2>2, Zenon
<1>21. \A k : hex(k) = HexPair(url[k + 1], url[k + 2])
  BY DEF hex, HexPair
<1> HIDE DEF S
<1>22. Decoding(url, plus, a)
  BY <1>13, <1>18, <1>19, <1>20, <1>21 DEF Decoding, D, n, S
<1> QED BY <1>22

LEMMA Decodes ==
  ASSUME NEW url \in Seq(Byte), NEW plus
  PROVE  UrlDecode(url, plus) \in Seq(Byte)
<1>1. PICK from : Decoding(url, plus, from)
  BY DecodesBy
<1>2. 1 \in 1 .. Len(url) + 1
  BY LenProperties
<1> QED BY <1>1, <1>2 DEF Decoding

-----------------------------------------------------------------------------
(* The text of the requests.                                                *)

\* c has the elements of a, and those of b behind them.
Joins(c, a, b) ==
  /\ Len(c) = Len(a) + Len(b)
  /\ \A k \in 1 .. Len(a) : c[k] = a[k]
  /\ \A k \in 1 .. Len(b) : c[Len(a) + k] = b[k]

LEMMA Concatenated ==
  ASSUME NEW S, NEW a \in Seq(S), NEW b \in Seq(S)
  PROVE  Joins(a \o b, a, b)
<1> DEFINE c == a \o b
<1>1. /\ Len(c) = Len(a) + Len(b)
      /\ \A k \in 1 .. Len(a) + Len(b) : c[k] = IF k <= Len(a) THEN a[k] ELSE b[k - Len(a)]
  BY ConcatProperties
<1>2. Len(a) \in Nat /\ Len(b) \in Nat
  BY LenProperties
<1>3. \A x \in Nat, y \in Nat :
        /\ \A k \in 1 .. x : k \in 1 .. x + y /\ k <= x
        /\ \A k \in 1 .. y : x + k \in 1 .. x + y /\ ~ (x + k <= x) /\ (x + k) - x = k
  OBVIOUS
<1>4. /\ \A k \in 1 .. Len(a) : k \in 1 .. Len(a) + Len(b) /\ k <= Len(a)
      /\ \A k \in 1 .. Len(b) : /\ Len(a) + k \in 1 .. Len(a) + Len(b)
                                /\ ~ (Len(a) + k <= Len(a)) /\ (Len(a) + k) - Len(a) = k
  BY <1>2, <1>3, Zenon
<1> HIDE DEF c
<1>5. /\ \A k \in 1 .. Len(a) : c[k] = a[k]
      /\ \A k \in 1 .. Len(b) : c[Len(a) + k] = b[k]
  BY <1>1, <1>4, Zenon
<1>6. Joins(c, a, b)
  BY <1>1, <1>5 DEF Joins
<1> QED BY <1>6 DEF c

\* FlattenSeq puts one sequence after the other.
Flattened(S, seqs, f) ==
  /\ f \in [0 .. Len(seqs) -> Seq(S)] /\ f[0] = <<>> /\ f[Len(seqs)] = FlattenSeq(seqs)
  /\ \A k \in 1 .. Len(seqs) : f[k] = f[k - 1] \o seqs[k]

LEMMA FlattensBy ==
  ASSUME NEW S, NEW seqs \in Seq(Seq(S))
  PROVE  \E f : Flattened(S, seqs, f)
<1> DEFINE n == Len(seqs)
           value(F, i) == IF i = 1 THEN seqs[i] ELSE F[i - 1] \o seqs[i]
           a == CHOOSE F : F = [i \in 1 .. n |-> value(F, i)]
           step == [k \in 1 .. n |-> [s \in Seq(S) |-> s \o seqs[k]]]
<1>1. n \in Nat /\ \A i \in 1 .. n : seqs[i] \in Seq(S)
  BY LenProperties, ElementOfSeq
<1>2. CASE n = 0
  <2>1. seqs = <<>>
    BY <1>2, EmptySeq
  <2>2. FlattenSeq(seqs) = <<>>
    BY <2>1 DEF FlattenSeq
  <2> DEFINE f == [k \in 0 .. 0 |-> <<>>]
  <2>3. f \in [0 .. 0 -> Seq(S)] /\ f[0] = <<>>
    OBVIOUS
  <2> HIDE DEF f
  <2> QED BY <1>2, <2>2, <2>3 DEF Flattened
<1>3. CASE n # 0
  <2>1. FlattenSeq(seqs) = a[n]
    BY <1>3 DEF FlattenSeq
  <2>2. \A s, t \in Seq(S) : s \o t \in Seq(S)
    BY ConcatProperties
  <2>3. step \in [1 .. n -> [Seq(S) -> Seq(S)]]
    <3> HIDE DEF n
    <3>1. \A k \in 1 .. n, s \in Seq(S) : s \o seqs[k] \in Seq(S)
      BY <1>1, <2>2
    <3> QED BY <3>1
  <2>4. PICK f \in [0 .. n -> Seq(S)] :
          f[0] = <<>> /\ \A k \in 1 .. n : f[k] = step[k][f[k - 1]]
    <3>1. <<>> \in Seq(S)
      OBVIOUS
    <3> HIDE DEF n, step
    <3>2. HasChain(Seq(S), <<>>, n, step)
      BY <1>1, <2>3, <3>1, Chain, Zenon
    <3> QED BY <3>2 DEF HasChain
  <2>5. ASSUME NEW k \in 1 .. n PROVE f[k - 1] \in Seq(S) /\ f[k] = f[k - 1] \o seqs[k]
    <3>1. k - 1 \in 0 .. n
      BY <1>1
    <3>2. f[k - 1] \in Seq(S)
      BY <2>4, <3>1
    <3>3. f[k] = step[k][f[k - 1]]
      BY <2>4
    <3> QED BY <3>2, <3>3
  <2> DEFINE g == [i \in 1 .. n |-> f[i]]
  <2>6. ASSUME NEW i \in 1 .. n PROVE g[i] = value(g, i)
    <3>1. CASE i = 1
      <4>1. f[i] = f[i - 1] \o seqs[i] /\ seqs[i] \in Seq(S)
        BY <1>1, <2>5
      <4>2. <<>> \o seqs[i] = seqs[i]
        BY <4>1, ConcatEmptySeq
      <4>3. i - 1 = 0
        BY <3>1
      <4>4. f[i] = seqs[i]
        BY <2>4, <4>1, <4>2, <4>3
      <4> QED BY <3>1, <4>4
    <3>2. CASE i # 1
      <4>1. i - 1 \in 1 .. n
        BY <3>2
      <4>2. g[i - 1] = f[i - 1] /\ g[i] = f[i]
        BY <4>1
      <4>3. f[i] = f[i - 1] \o seqs[i]
        BY <2>5
      <4> QED BY <3>2, <4>2, <4>3
    <3> QED BY <3>1, <3>2
  <2>7. a = [i \in 1 .. n |-> value(a, i)]
    <3>1. g = [i \in 1 .. n |-> value(g, i)]
      <4>1. g = [i \in 1 .. n |-> g[i]]
        OBVIOUS
      <4> HIDE DEF g, value
      <4> QED BY <2>6, <4>1
    <3>2. \E F : F = [i \in 1 .. n |-> value(F, i)]
      <4> HIDE DEF g, value
      <4> QED BY <3>1
    <3> HIDE DEF value
    <3> QED BY <3>2
  <2> HIDE DEF a
  <2>8. \A i \in 1 .. n : a[i] = value(a, i)
    <3> HIDE DEF value, n
    <3> QED BY <2>7
  <2> DEFINE M == {m \in Nat : m + 1 <= n => a[m + 1] = f[m + 1]}
  <2>9. M = Nat
    <3>1. 0 \in M
      <4>1. 1 \in 1 .. n
        BY <1>1, <1>3
      <4>2. a[1] = seqs[1] /\ g[1] = f[1] /\ g[1] = seqs[1]
        BY <1>1, <2>6, <2>8, <4>1
      <4> QED BY <4>2
    <3>2. ASSUME NEW m \in M PROVE m + 1 \in M
      <4>1. m \in Nat /\ m + 1 \in Nat
        OBVIOUS
      <4> SUFFICES ASSUME (m + 1) + 1 <= n PROVE a[(m + 1) + 1] = f[(m + 1) + 1]
        BY <4>1
      <4> DEFINE i == (m + 1) + 1
      <4>2. i \in 1 .. n /\ i # 1 /\ i - 1 = m + 1 /\ m + 1 <= n
        BY <1>1, <4>1
      <4>3. a[m + 1] = f[m + 1]
        BY <4>2
      <4> HIDE DEF i
      <4>4. a[i] = a[m + 1] \o seqs[i] /\ f[i] = f[m + 1] \o seqs[i]
        BY <2>5, <2>8, <4>2
      <4>5. a[i] = f[i]
        BY <4>3, <4>4
      <4> QED BY <4>5 DEF i
    <3>3. M \in SUBSET Nat
      OBVIOUS
    <3> HIDE DEF M
    <3> QED BY <3>1, <3>2, <3>3, AllNumbers
  <2>10. n - 1 \in Nat /\ (n - 1) + 1 = n /\ n <= n
    BY <1>1, <1>3
  <2>11. n - 1 \in M
    <3> HIDE DEF M
    <3> QED BY <2>9, <2>10
  <2>12. a[n] = f[n]
    BY <2>10, <2>11
  <2>13. \A k \in 1 .. n : f[k] = f[k - 1] \o seqs[k]
    BY <2>5
  <2> QED BY <2>1, <2>4, <2>12, <2>13 DEF Flattened
<1> QED BY <1>2, <1>3

LEMMA Flattens ==
  ASSUME NEW S, NEW seqs \in Seq(Seq(S))
  PROVE  FlattenSeq(seqs) \in Seq(S)
<1>1. PICK f : Flattened(S, seqs, f)
  BY FlattensBy
<1>2. Len(seqs) \in 0 .. Len(seqs)
  BY LenProperties
<1> QED BY <1>1, <1>2 DEF Flattened

\* Where each of them ends.
Offsets(seqs, off) ==
  /\ off \in [0 .. Len(seqs) -> Nat] /\ off[0] = 0
  /\ off[Len(seqs)] = Len(FlattenSeq(seqs))
  /\ \A k \in 1 .. Len(seqs) :
       /\ off[k] = off[k - 1] + Len(seqs[k])
       /\ \A j \in 1 .. Len(seqs[k]) : FlattenSeq(seqs)[off[k - 1] + j] = seqs[k][j]

LEMMA OffsetsAre ==
  ASSUME NEW S, NEW seqs \in Seq(Seq(S))
  PROVE  \E off : Offsets(seqs, off)
<1>1. PICK f : Flattened(S, seqs, f)
  BY FlattensBy
<1> DEFINE n == Len(seqs)
           off == [k \in 0 .. n |-> Len(f[k])]
<1>2. n \in Nat /\ \A k \in 1 .. n : seqs[k] \in Seq(S) /\ Len(seqs[k]) \in Nat
  BY LenProperties, ElementOfSeq
<1>3. /\ \A k \in 0 .. n : f[k] \in Seq(S) /\ Len(f[k]) \in Nat
      /\ f[0] = <<>> /\ f[n] = FlattenSeq(seqs)
      /\ \A k \in 1 .. n : f[k] = f[k - 1] \o seqs[k]
  <2>1. f \in [0 .. n -> Seq(S)]
    BY <1>1 DEF Flattened
  <2>2. \A k \in 0 .. n : f[k] \in Seq(S)
    BY <2>1
  <2>3. \A k \in 0 .. n : f[k] \in Seq(S) /\ Len(f[k]) \in Nat
    BY <2>2, LenProperties
  <2> QED BY <1>1, <2>3 DEF Flattened
<1> HIDE DEF n
<1>4. \A k \in 0 .. n : off[k] = Len(f[k]) /\ off[k] \in Nat
  BY <1>3
<1>5. off \in [0 .. n -> Nat]
  BY <1>3
<1>6. 0 \in 0 .. n /\ n \in 0 .. n /\ \A k \in 1 .. n : k \in 0 .. n /\ k - 1 \in 0 .. n
  BY <1>2
<1>7. off[0] = 0 /\ off[n] = Len(FlattenSeq(seqs))
  BY <1>3, <1>4, <1>6
<1> HIDE DEF off
<1>8. ASSUME NEW k \in 1 .. n
      PROVE  /\ off[k] = off[k - 1] + Len(seqs[k])
             /\ \A j \in 1 .. off[k - 1] : f[k][j] = f[k - 1][j]
             /\ \A j \in 1 .. Len(seqs[k]) : f[k][off[k - 1] + j] = seqs[k][j]
  <2>1. f[k - 1] \in Seq(S) /\ seqs[k] \in Seq(S) /\ f[k] = f[k - 1] \o seqs[k]
    BY <1>2, <1>3, <1>6
  <2>2. off[k] = Len(f[k]) /\ off[k - 1] = Len(f[k - 1])
    BY <1>4, <1>6
  <2>3. Joins(f[k], f[k - 1], seqs[k])
    BY <2>1, Concatenated
  <2> QED BY <2>2, <2>3 DEF Joins
\* What has been put there stays.
<1>9. ASSUME NEW k \in 0 .. n
      PROVE  \A m \in Nat : k + m <= n =>
               off[k] <= off[k + m] /\ \A j \in 1 .. off[k] : f[k + m][j] = f[k][j]
  <2> DEFINE P(m) == off[k] <= off[k + m] /\ \A j \in 1 .. off[k] : f[k + m][j] = f[k][j]
             M == {m \in Nat : k + m <= n => P(m)}
  <2>1. 0 \in M
    <3>1. k + 0 = k /\ off[k] \in Nat
      BY <1>4
    <3> QED BY <3>1
  <2>2. ASSUME NEW m \in M PROVE m + 1 \in M
    <3> SUFFICES ASSUME k + (m + 1) <= n PROVE P(m + 1)
      OBVIOUS
    <3>1. /\ k + (m + 1) \in 1 .. n /\ (k + (m + 1)) - 1 = k + m /\ k + m <= n
          /\ k + m \in 0 .. n /\ k + (m + 1) \in 0 .. n
      BY <1>2
    <3>2. P(m)
      BY <3>1
    <3> DEFINE i == k + (m + 1)
    <3>3. off[i] = off[i - 1] + Len(seqs[i]) /\ \A j \in 1 .. off[i - 1] : f[i][j] = f[i - 1][j]
      BY <1>8, <3>1
    <3>4. off[k] \in Nat /\ off[i] \in Nat /\ off[i - 1] \in Nat /\ Len(seqs[i]) \in Nat
      BY <1>2, <1>4, <3>1
    <3>5. i - 1 = k + m
      BY <3>1
    <3> HIDE DEF i
    <3>6. off[k] <= off[i - 1] /\ \A j \in 1 .. off[k] : f[i - 1][j] = f[k][j]
      BY <3>2, <3>5
    <3>7. off[k] <= off[i] /\ \A j \in 1 .. off[k] : j \in 1 .. off[i - 1]
      <4>1. \A x, y, z, w \in Nat :
              x <= y /\ z = y + w => x <= z /\ \A j \in 1 .. x : j \in 1 .. y
        OBVIOUS
      <4>2. off[k] <= off[i - 1] /\ off[i] = off[i - 1] + Len(seqs[i])
        BY <3>3, <3>6
      <4> QED BY <3>4, <4>1, <4>2
    <3>8. off[k] <= off[i] /\ \A j \in 1 .. off[k] : f[i][j] = f[k][j]
      BY <3>3, <3>6, <3>7
    <3> QED BY <3>8 DEF i
  <2>3. M \in SUBSET Nat
    OBVIOUS
  <2>4. M = Nat
    <3> HIDE DEF M
    <3> QED BY <2>1, <2>2, <2>3, AllNumbers
  <2> QED BY <2>4
<1>10. ASSUME NEW k \in 1 .. n, NEW j \in 1 .. Len(seqs[k])
       PROVE  FlattenSeq(seqs)[off[k - 1] + j] = seqs[k][j]
  <2>1. n - k \in Nat /\ k + (n - k) = n /\ n <= n /\ k \in 0 .. n
    BY <1>2
  <2>2. \A i \in 1 .. off[k] : f[n][i] = f[k][i]
    BY <1>9, <2>1
  <2>3. off[k] = off[k - 1] + Len(seqs[k]) /\ off[k - 1] \in Nat /\ Len(seqs[k]) \in Nat
    BY <1>2, <1>4, <1>6, <1>8
  <2>4. off[k - 1] + j \in 1 .. off[k]
    BY <2>3
  <2> QED BY <1>3, <1>8, <2>2, <2>4
<1>11. \A k \in 1 .. n : off[k] = off[k - 1] + Len(seqs[k])
  BY <1>8
<1>12. \A k \in 1 .. n : \A j \in 1 .. Len(seqs[k]) : FlattenSeq(seqs)[off[k - 1] + j] = seqs[k][j]
  BY <1>10
<1>13. Offsets(seqs, off)
  BY <1>5, <1>7, <1>11, <1>12, Zenon DEF n, Offsets
<1> QED BY <1>13

\* Each place is in one of them.
LEMMA PlaceIn ==
  ASSUME NEW n \in Nat, NEW off \in [0 .. n -> Nat], off[0] = 0,
         NEW p \in 1 .. off[n]
  PROVE  \E k \in 1 .. n : off[k - 1] < p /\ p <= off[k]
<1> DEFINE T == {k \in 0 .. n : p <= off[k]}
<1>1. n \in T /\ T \in SUBSET Nat
  BY DEF T
<1>2. PICK k \in T : \A j \in T : k <= j
  BY <1>1, LowestOf
<1>3. k # 0 /\ k \in 1 .. n /\ k - 1 \in 0 .. n
  BY <1>2
<1>4. k - 1 \notin T
  BY <1>2, <1>3
<1>5. off[k - 1] \in Nat /\ ~ (p <= off[k - 1])
  BY <1>3, <1>4
<1> QED BY <1>2, <1>3, <1>5

\* What grows from one number to the next is nowhere more than at the end.
LEMMA OffsetsGrow ==
  ASSUME NEW n \in Nat, NEW off \in [0 .. n -> Nat], \A k \in 1 .. n : off[k - 1] <= off[k],
         NEW j \in 0 .. n
  PROVE  off[j] <= off[n]
<1> DEFINE M == {m \in Nat : j + m <= n => off[j] <= off[j + m]}
<1>1. 0 \in M
  BY DEF M
<1>2. ASSUME NEW m \in M PROVE m + 1 \in M
  <2> SUFFICES ASSUME j + (m + 1) <= n PROVE off[j] <= off[j + (m + 1)]
    OBVIOUS
  <2> DEFINE k == j + (m + 1)
  <2>1. k \in 1 .. n /\ k - 1 = j + m /\ j + m <= n /\ k - 1 \in 0 .. n /\ k \in 0 .. n
    OBVIOUS
  <2>2. off[j] <= off[k - 1]
    BY <2>1
  <2> HIDE DEF k
  <2>3. off[k - 1] <= off[k] /\ off[j] \in Nat /\ off[k - 1] \in Nat /\ off[k] \in Nat
    BY <2>1
  <2>4. off[j] <= off[k]
    BY <2>2, <2>3
  <2> QED BY <2>4 DEF k
<1>3. M \in SUBSET Nat
  OBVIOUS
<1>4. M = Nat
  <2> HIDE DEF M
  <2> QED BY <1>1, <1>2, <1>3, AllNumbers
<1>5. n - j \in Nat /\ j + (n - j) = n /\ n <= n
  OBVIOUS
<1>6. n - j \in M
  <2> HIDE DEF M
  <2> QED BY <1>4, <1>5
<1> QED BY <1>5, <1>6

PieceOf(m) ==
  [req : 1 .. m, kind : Kinds \cup {"body"}, at : Nat \ {0}, newline : BOOLEAN]

LEMMA OneTextIsPieces ==
  ASSUME NEW m \in Nat, NEW i \in 1 .. m, NEW r \in Requests
  PROVE  Text(i, r) \in Seq(PieceOf(m))
<1> DEFINE P == PieceOf(m)
           rows == [k \in 1 .. Len(r.lines) |-> LineText(i, r.lines[k])]
<1>1. r.lines \in Seq(Kinds) /\ r.body \in Nat
  BY DEF Requests
<1>2. ASSUME NEW kind \in Kinds PROVE LineText(i, kind) \in Seq(P)
  <2>1. Pieces(kind) \in Nat
    BY HttpAssumption DEF Pieces
  <2>2. \A k \in 1 .. Pieces(kind) :
          [req |-> i, kind |-> kind, at |-> k, newline |-> k = Pieces(kind)] \in P
    BY <2>1 DEF PieceOf
  <2> HIDE DEF P
  <2> QED BY <2>1, <2>2 DEF LineText
<1>3. Len(r.lines) \in Nat /\ \A k \in 1 .. Len(r.lines) : r.lines[k] \in Kinds
  BY <1>1, LenProperties, ElementOfSeq
<1>4. rows \in Seq(Seq(P))
  <2>1. \A k \in 1 .. Len(r.lines) : LineText(i, r.lines[k]) \in Seq(P)
    BY <1>2, <1>3
  <2> HIDE DEF P
  <2> QED BY <1>3, <2>1
<1>5. FlattenSeq(rows) \in Seq(P)
  <2> HIDE DEF rows, P
  <2> QED BY <1>4, Flattens
<1>6. BodyText(i, r.body) \in Seq(P)
  <2>1. \A k \in 1 .. r.body :
          [req |-> i, kind |-> "body", at |-> k, newline |-> FALSE] \in P
    BY <1>1 DEF PieceOf
  <2> HIDE DEF P
  <2> QED BY <1>1, <2>1 DEF BodyText
<1>7. Text(i, r) = FlattenSeq(rows) \o BodyText(i, r.body)
  BY DEF Text
<1> HIDE DEF rows, P
<1>8. \A s, t \in Seq(P) : s \o t \in Seq(P)
  BY ConcatProperties
<1>9. Text(i, r) \in Seq(P)
  BY <1>5, <1>6, <1>7, <1>8, Zenon
<1> QED BY <1>9 DEF P

LEMMA TextIsPieces ==
  ASSUME NEW requests \in Seq(Requests)
  PROVE  FlattenSeq([i \in 1 .. Len(requests) |-> Text(i, requests[i])])
           \in Seq(PieceOf(Len(requests)))
<1> DEFINE m == Len(requests)
           P == PieceOf(m)
<1>1. m \in Nat /\ \A i \in 1 .. m : requests[i] \in Requests
  BY LenProperties, ElementOfSeq
<1>2. ASSUME NEW i \in 1 .. m PROVE Text(i, requests[i]) \in Seq(P)
  BY <1>1, OneTextIsPieces
<1> HIDE DEF P
<1>3. [i \in 1 .. m |-> Text(i, requests[i])] \in Seq(Seq(P))
  BY <1>1, <1>2
<1> QED BY <1>3, Flattens DEF P

-----------------------------------------------------------------------------
(* Cuts and stacks.                                                         *)

LEMMA Cut ==
  ASSUME NEW S, NEW s \in Seq(S), NEW a \in Nat \ {0}, NEW b \in Nat, b <= Len(s)
  PROVE  /\ SubSeq(s, a, b) \in Seq(S)
         /\ Len(SubSeq(s, a, b)) = IF a <= b THEN b - a + 1 ELSE 0
         /\ a > b => SubSeq(s, a, b) = <<>>
         /\ \A i \in 1 .. b - a + 1 : SubSeq(s, a, b)[i] = s[a + i - 1]
<1>1. Len(s) \in Nat /\ a \in Int /\ b \in Int
  BY LenProperties
<1>2. \A i \in a .. b : s[i] \in S
  <2> TAKE i \in a .. b
  <2>1. i \in 1 .. Len(s)
    BY <1>1
  <2> QED BY <2>1, ElementOfSeq
<1>3. /\ SubSeq(s, a, b) \in Seq(S)
      /\ Len(SubSeq(s, a, b)) = IF a <= b THEN b - a + 1 ELSE 0
      /\ \A i \in 1 .. b - a + 1 : SubSeq(s, a, b)[i] = s[a + i - 1]
  BY <1>1, <1>2, SubSeqProperties
<1>4. a > b => SubSeq(s, a, b) = <<>>
  BY <1>1, SubSeqEmpty
<1> QED BY <1>3, <1>4

Ats == {"loop", "parse", "parsed", "file", "drain"}
Frame == [at : Ats, seen : Nat]

\* A frame below another one has called Shutdown(), or is a loop that calls back.
Lower == {"loop", "parsed", "drain"}
Stacks == {s \in Seq(Frame) : \A k \in 1 .. Len(s) - 1 : s[k].at \in Lower}

LEMMA TopIs ==
  ASSUME NEW s \in Stacks, s # <<>>
  PROVE  Len(s) \in Nat \ {0} /\ s[Len(s)] \in Frame
<1>1. s \in Seq(Frame)
  BY DEF Stacks
<1>2. Len(s) \in Nat \ {0}
  BY <1>1, EmptySeq
<1>3. Len(s) \in 1 .. Len(s)
  BY <1>2
<1> QED BY <1>1, <1>2, <1>3, ElementOfSeq

LEMMA Replaced ==
  ASSUME NEW s \in Stacks, s # <<>>, NEW f \in Frame, NEW t, t = [s EXCEPT ![Len(s)] = f]
  PROVE  t \in Stacks /\ t # <<>> /\ t[Len(t)] = f /\ Len(t) = Len(s)
<1>1. s \in Seq(Frame) /\ Len(s) \in Nat \ {0}
  BY TopIs DEF Stacks
<1>2. t \in Seq(Frame) /\ Len(t) = Len(s)
      /\ \A k \in 1 .. Len(s) : t[k] = IF k = Len(s) THEN f ELSE s[k]
  BY <1>1, ExceptSeq
<1>3. Len(s) \in 1 .. Len(s)
  BY <1>1
<1>4. t[Len(t)] = f
  BY <1>2, <1>3
<1>5. ASSUME NEW k \in 1 .. Len(t) - 1 PROVE t[k].at \in Lower
  <2>1. k \in 1 .. Len(s) /\ k # Len(s) /\ k \in 1 .. Len(s) - 1
    <3>1. \A m \in Nat : \A j \in 1 .. m - 1 : j \in 1 .. m /\ j # m
      OBVIOUS
    <3>2. k \in 1 .. Len(s) - 1
      BY <1>2
    <3> QED BY <1>1, <3>1, <3>2, Zenon
  <2>2. t[k] = s[k]
    BY <1>2, <2>1
  <2> QED BY <2>1, <2>2 DEF Stacks
<1>6. t # <<>>
  <2>1. Len(t) # 0
    BY <1>1, <1>2
  <2> QED BY <2>1, EmptySeq
<1> QED BY <1>2, <1>4, <1>5, <1>6 DEF Stacks

LEMMA GotoIs ==
  ASSUME NEW s \in Stacks, s # <<>>, NEW place \in Ats, NEW t, t = [s EXCEPT ![Len(s)].at = place]
  PROVE  /\ t \in Stacks /\ t # <<>> /\ t[Len(t)].at = place
         /\ t[Len(t)].seen = s[Len(s)].seen
<1> DEFINE f == [s[Len(s)] EXCEPT !.at = place]
<1>1. s[Len(s)] \in Frame
  BY TopIs
<1>2. f \in Frame /\ f.at = place /\ f.seen = s[Len(s)].seen
  BY <1>1 DEF Frame
<1>3. t = [s EXCEPT ![Len(s)] = f]
  OBVIOUS
<1> HIDE DEF f
<1>4. PICK g \in Frame : g = f
  BY <1>2
<1>5. t = [s EXCEPT ![Len(s)] = g]
  BY <1>3, <1>4
<1>6. t \in Stacks /\ t # <<>> /\ t[Len(t)] = g
  BY <1>5, Replaced
<1> QED BY <1>2, <1>4, <1>6

LEMMA SawIs ==
  ASSUME NEW s \in Stacks, s # <<>>, NEW n \in Nat, NEW t, t = [s EXCEPT ![Len(s)].seen = n]
  PROVE  /\ t \in Stacks /\ t # <<>> /\ t[Len(t)].at = s[Len(s)].at
         /\ t[Len(t)].seen = n
<1> DEFINE f == [s[Len(s)] EXCEPT !.seen = n]
<1>1. s[Len(s)] \in Frame
  BY TopIs
<1>2. f \in Frame /\ f.at = s[Len(s)].at /\ f.seen = n
  BY <1>1 DEF Frame
<1>3. t = [s EXCEPT ![Len(s)] = f]
  OBVIOUS
<1> HIDE DEF f
<1>4. PICK g \in Frame : g = f
  BY <1>2
<1>5. t = [s EXCEPT ![Len(s)] = g]
  BY <1>3, <1>4
<1>6. t \in Stacks /\ t # <<>> /\ t[Len(t)] = g
  BY <1>5, Replaced
<1> QED BY <1>2, <1>4, <1>6

LEMMA PushIs ==
  ASSUME NEW s \in Stacks, s # <<>> => s[Len(s)].at \in Lower, NEW f \in Frame,
         NEW t, t = Append(s, f)
  PROVE  t \in Stacks /\ t # <<>> /\ t[Len(t)] = f
<1>1. s \in Seq(Frame) /\ Len(s) \in Nat
  BY LenProperties DEF Stacks
<1>2. /\ t \in Seq(Frame) /\ t # <<>> /\ Len(t) = Len(s) + 1
      /\ \A k \in 1 .. Len(s) : t[k] = s[k]
      /\ t[Len(s) + 1] = f
  BY <1>1, AppendProperties
<1>3. ASSUME NEW k \in 1 .. Len(t) - 1 PROVE t[k].at \in Lower
  <2>1. k \in 1 .. Len(s) /\ (k = Len(s) \/ k \in 1 .. Len(s) - 1) /\ Len(s) # 0
    <3>1. \A m \in Nat : \A j \in 1 .. (m + 1) - 1 :
            j \in 1 .. m /\ (j = m \/ j \in 1 .. m - 1) /\ m # 0
      OBVIOUS
    <3>2. k \in 1 .. (Len(s) + 1) - 1
      BY <1>2
    <3> QED BY <1>1, <3>1, <3>2, Zenon
  <2>2. t[k] = s[k]
    BY <1>2, <2>1
  <2>3. s # <<>>
    BY <2>1
  <2> QED BY <2>1, <2>2, <2>3 DEF Stacks
<1> QED BY <1>2, <1>3 DEF Stacks

LEMMA PopIs ==
  ASSUME NEW s \in Stacks, s # <<>>
  PROVE  /\ Front(s) \in Stacks
         /\ Front(s) # <<>> => Front(s)[Len(Front(s))].at \in Lower
<1> DEFINE n == Len(s) - 1
           t == Front(s)
<1>1. s \in Seq(Frame) /\ Len(s) \in Nat \ {0} /\ n \in Nat /\ n <= Len(s)
  BY TopIs DEF Stacks
<1>2. t = SubSeq(s, 1, n)
  BY DEF Front
<1>3. PICK one \in Nat \ {0} : one = 1
  OBVIOUS
<1> HIDE DEF n, t
<1>4. /\ SubSeq(s, one, n) \in Seq(Frame)
      /\ Len(SubSeq(s, one, n)) = IF one <= n THEN n - one + 1 ELSE 0
      /\ \A i \in 1 .. n - one + 1 : SubSeq(s, one, n)[i] = s[one + i - 1]
  BY <1>1, Cut
<1>5. t \in Seq(Frame) /\ Len(t) = n /\ \A i \in 1 .. n : t[i] = s[i]
  BY <1>1, <1>2, <1>3, <1>4
<1>6. \A k \in 1 .. n : t[k].at \in Lower
  BY <1>5 DEF Stacks, n
<1>7. \A k \in 1 .. n - 1 : k \in 1 .. n
  BY <1>1
<1>8. t \in Stacks
  BY <1>5, <1>6, <1>7 DEF Stacks
<1>9. ASSUME t # <<>> PROVE t[Len(t)].at \in Lower
  <2>1. Len(t) \in Nat \ {0}
    BY <1>5, <1>9, EmptySeq
  <2>2. n \in 1 .. n
    BY <1>1, <1>5, <2>1
  <2> QED BY <1>5, <1>6, <2>2
<1> QED BY <1>8, <1>9 DEF t

-----------------------------------------------------------------------------
(* Types.                                                                   *)

Piece == PieceOf(Len(sent))

WorldInv ==
  /\ sent \in Seq(Requests) \ {<<>>}
  /\ BaseDir \in Places /\ tree \in [dirs : SUBSET Places, files : SUBSET Places]

TextInv == wire \in Seq(Piece) /\ buf \in Seq(Piece)

\* A body is empty until the headers are read, and never longer than they say.
CtxInv ==
  /\ ctx \in [recv : {"error", "line", "head", "body", "over"}, resp : {200, 400, 414},
              req : 0 .. Len(sent), path : Seq(Byte), params : {ctx.params},
              heads : SUBSET {"keep-alive", "length"}, body : Seq(Piece)]
  /\ ctx.recv \in {"head", "body", "over"} => ctx.req # 0
  /\ ctx.recv \in {"line", "head"} => ctx.body = <<>>
  /\ ctx.recv = "line" => ctx.heads = {}
  /\ ctx.recv \in {"body", "over"} => Len(ctx.body) <= ContentLength

StatusInv == status \in {"connected", "disconnecting", "released", "aborted"}

TypeInv == WorldInv /\ TextInv /\ CtxInv /\ StatusInv /\ stack \in Stacks

LEMMA InitTypes == Init => TypeInv
<1> SUFFICES ASSUME Init PROVE TypeInv
  OBVIOUS
<1>1. PICK input \in Inputs : sent = input.requests /\ tree = input.tree
  BY DEF Init
<1>2. WorldInv
  <2>1. input.tree \in [dirs : SUBSET Places, files : SUBSET Places] /\ BaseDir \in input.tree.dirs
    BY HttpAssumption
  <2>2. BaseDir \in Places
    BY <2>1
  <2>3. input.requests \in Seq(Requests) \ {<<>>}
    BY HttpAssumption
  <2> QED BY <1>1, <2>1, <2>2, <2>3 DEF WorldInv
<1>3. wire \in Seq(Piece)
  <2>1. sent \in Seq(Requests)
    BY <1>2 DEF WorldInv
  <2> QED BY <2>1, TextIsPieces DEF Init, Piece
<1>4. Len(sent) \in Nat
  BY <1>2, LenProperties DEF WorldInv
<1>5. CtxInv
  BY <1>4 DEF Init, Fresh, CtxInv
<1>6. stack \in Stacks
  BY DEF Init, Stacks
<1> QED BY <1>2, <1>3, <1>5, <1>6 DEF Init, TypeInv, TextInv, StatusInv

LEMMA WorldStep == WorldInv /\ [Next]_vars => WorldInv' /\ sent' = sent
<1> SUFFICES ASSUME WorldInv, [Next]_vars PROVE WorldInv' /\ sent' = sent
  OBVIOUS
<1>1. CASE Vanish
  <2>1. PICK f \in fleeting : tree' = [tree EXCEPT !.files = @ \ {f}]
    BY <1>1 DEF Vanish
  <2>2. sent' = sent
    BY <1>1 DEF Vanish
  <2> QED BY <2>1, <2>2 DEF WorldInv
<1>2. CASE UNCHANGED world
  BY <1>2 DEF world, WorldInv
<1>3. Next => Vanish \/ UNCHANGED world
  BY DEF Next, Loop, OnMessage, HandleReadData, HandleReadEnd, DrainCallsBack, ShutdownEnds,
     ReleaseInLoop, NeedsMore, LineTooLong, RecvHttpLine, RecvHttpHead, RecvHttpBody,
     OnMessageParses, OnMessageReturns, AnswerError, RouteToFile, FileHandler, Dispatcher
<1>4. UNCHANGED vars => UNCHANGED world
  BY DEF vars, world
<1> QED BY <1>1, <1>2, <1>3, <1>4

\* The line that ends first, and the piece that comes first.
LEMMA LineIs ==
  ASSUME TextInv, HasLine
  PROVE  LineEnd \in 1 .. Len(buf) /\ buf # <<>> /\ buf[1] \in Piece
<1>1. Newlines \in SUBSET Nat /\ Newlines \subseteq 1 .. Len(buf) /\ Newlines # {}
  BY DEF Newlines, HasLine
<1>2. \E k \in Newlines : \A j \in Newlines : k <= j
  BY <1>1, LowestOf
<1>3. LineEnd \in Newlines
  BY <1>2 DEF LineEnd
<1>4. Len(buf) \in Nat /\ LineEnd \in 1 .. Len(buf)
  BY <1>1, <1>3, LenProperties DEF TextInv
<1>5. 1 \in 1 .. Len(buf) /\ Len(buf) # 0
  BY <1>4
<1>6. \A k \in 1 .. Len(buf) : buf[k] \in Piece
  BY ElementOfSeq DEF TextInv
<1> QED BY <1>4, <1>5, <1>6

LEMMA RestIs ==
  ASSUME TextInv, NEW n \in Nat, n <= Len(buf)
  PROVE  /\ Rest(n) \in Seq(Piece) /\ SubSeq(buf, 1, n) \in Seq(Piece)
         /\ Len(SubSeq(buf, 1, n)) = n
         /\ n = Len(buf) => Rest(n) = <<>>
<1>1. buf \in Seq(Piece) /\ Len(buf) \in Nat
  BY LenProperties DEF TextInv
<1>2. n + 1 \in Nat \ {0} /\ Len(buf) <= Len(buf) /\ (n = Len(buf) => n + 1 > Len(buf))
  BY <1>1
<1>3. PICK one \in Nat \ {0} : one = 1
  OBVIOUS
<1>4. SubSeq(buf, one, n) \in Seq(Piece) /\ Len(SubSeq(buf, one, n)) = IF one <= n THEN n - one + 1 ELSE 0
  BY <1>1, Cut
<1>5. SubSeq(buf, 1, n) \in Seq(Piece) /\ Len(SubSeq(buf, 1, n)) = n
  BY <1>3, <1>4
<1>6. SubSeq(buf, n + 1, Len(buf)) \in Seq(Piece)
      /\ (n + 1 > Len(buf) => SubSeq(buf, n + 1, Len(buf)) = <<>>)
  BY <1>1, <1>2, Cut
<1> QED BY <1>2, <1>5, <1>6 DEF Rest

\* How much of a body is there.
BodyPart ==
  LET left == ContentLength - Len(ctx.body) IN IF left <= Len(buf) THEN left ELSE Len(buf)

LEMMA BodyPartIs ==
  ASSUME WorldInv, TextInv, CtxInv, ctx.recv = "body"
  PROVE  /\ BodyPart \in Nat /\ BodyPart <= Len(buf) /\ ContentLength \in Nat
         /\ Len(ctx.body) \in Nat /\ Len(buf) \in Nat /\ Len(ctx.body) + BodyPart <= ContentLength
         /\ BodyPart # ContentLength - Len(ctx.body) =>
              BodyPart = Len(buf) /\ Len(ctx.body) + BodyPart < ContentLength
<1>1. ctx.req \in 1 .. Len(sent)
  <2>1. ctx.req \in 0 .. Len(sent) /\ ctx.req # 0 /\ Len(sent) \in Nat
    BY LenProperties DEF CtxInv, WorldInv
  <2> QED BY <2>1
<1>2. sent[ctx.req] \in Requests
  BY <1>1, ElementOfSeq DEF WorldInv
<1>3. ContentLength \in Nat
  BY <1>2 DEF ContentLength, Requests
<1>4. Len(ctx.body) \in Nat /\ Len(buf) \in Nat
  BY LenProperties DEF CtxInv, TextInv
<1>5. Len(ctx.body) <= ContentLength
  BY DEF CtxInv
<1> DEFINE c == ContentLength
           l == Len(ctx.body)
           b == Len(buf)
<1>6. BodyPart = IF c - l <= b THEN c - l ELSE b
  BY DEF BodyPart
<1>7. c \in Nat /\ l \in Nat /\ b \in Nat /\ l <= c
  BY <1>3, <1>4, <1>5
<1> HIDE DEF c, l, b
<1>8. \A n : n = (IF c - l <= b THEN c - l ELSE b) =>
        n \in Nat /\ n <= b /\ l + n <= c /\ (n # c - l => n = b /\ l + n < c)
  BY <1>7
<1> QED BY <1>6, <1>7, <1>8 DEF c, l, b

LEMMA BodyStep ==
  RecvHttpBody =>
    /\ buf' = Rest(BodyPart)
    /\ ctx' = [ctx EXCEPT !.body = @ \o SubSeq(buf, 1, BodyPart),
                          !.recv = IF BodyPart = ContentLength - Len(ctx.body) THEN "over" ELSE @]
BY DEF RecvHttpBody, BodyPart

LEMMA TextStep == WorldInv /\ TextInv /\ CtxInv /\ [Next]_vars => TextInv'
<1> SUFFICES ASSUME WorldInv, TextInv, CtxInv, [Next]_vars PROVE TextInv'
  OBVIOUS
<1>1. sent' = sent /\ Piece' = Piece
  BY WorldStep DEF Piece
<1>2. wire \in Seq(Piece) /\ buf \in Seq(Piece) /\ Len(wire) \in Nat /\ Len(buf) \in Nat
  BY LenProperties DEF TextInv
<1>3. CASE UNCHANGED <<wire, buf>>
  BY <1>1, <1>2, <1>3 DEF TextInv
<1>4. CASE HandleReadData
  <2>1. PICK n \in 1 .. Len(wire) : /\ buf' = buf \o SubSeq(wire, 1, n)
                                    /\ wire' = SubSeq(wire, n + 1, Len(wire))
    BY <1>4 DEF HandleReadData
  <2>2. PICK one \in Nat \ {0} : one = 1
    OBVIOUS
  <2>3. n \in Nat /\ n <= Len(wire) /\ n + 1 \in Nat \ {0} /\ Len(wire) <= Len(wire)
    BY <1>2
  <2>4. SubSeq(wire, one, n) \in Seq(Piece) /\ SubSeq(wire, n + 1, Len(wire)) \in Seq(Piece)
    BY <1>2, <2>3, Cut
  <2>5. \A s \in Seq(Piece) : buf \o s \in Seq(Piece)
    BY <1>2, ConcatProperties
  <2>6. buf' \in Seq(Piece)
    BY <2>1, <2>2, <2>4, <2>5
  <2> QED BY <1>1, <2>1, <2>4, <2>6 DEF TextInv
<1>5. CASE (LineTooLong \/ RecvHttpLine \/ RecvHttpHead)
  <2>1. HasLine /\ buf' = Rest(LineEnd) /\ wire' = wire
    BY <1>5 DEF LineTooLong, RecvHttpLine, RecvHttpHead
  <2>2. LineEnd \in Nat /\ LineEnd <= Len(buf)
    BY <1>2, <2>1, LineIs
  <2>3. Rest(LineEnd) \in Seq(Piece)
    BY <2>2, RestIs
  <2> QED BY <1>1, <1>2, <2>1, <2>3 DEF TextInv
<1>6. CASE RecvHttpBody
  <2>1. ctx.recv = "body" /\ wire' = wire
    BY <1>6 DEF RecvHttpBody
  <2>2. buf' = Rest(BodyPart) /\ BodyPart \in Nat /\ BodyPart <= Len(buf)
    BY <1>6, <2>1, BodyPartIs, BodyStep
  <2>3. Rest(BodyPart) \in Seq(Piece)
    BY <2>2, RestIs
  <2> QED BY <1>1, <1>2, <2>1, <2>2, <2>3 DEF TextInv
<1>7. CASE AnswerError
  <2>1. buf' = <<>> /\ wire' = wire
    BY <1>7 DEF AnswerError
  <2>2. <<>> \in Seq(Piece)
    OBVIOUS
  <2> QED BY <1>1, <1>2, <2>1, <2>2 DEF TextInv
<1>8. Next => \/ UNCHANGED <<wire, buf>> \/ HandleReadData
              \/ (LineTooLong \/ RecvHttpLine \/ RecvHttpHead) \/ RecvHttpBody \/ AnswerError
  BY DEF Next, Loop, OnMessage, HandleReadEnd, DrainCallsBack, ShutdownEnds,
     ReleaseInLoop, NeedsMore, OnMessageParses, OnMessageReturns, RouteToFile, FileHandler,
     Dispatcher, Vanish, AnswerRequest
<1>9. UNCHANGED vars => UNCHANGED <<wire, buf>>
  BY DEF vars
<1> QED BY <1>3, <1>4, <1>5, <1>6, <1>7, <1>8, <1>9

\* The fields of a context, and what the parser does to them.
IsCtx(c, v, w, i, u, p, h, b) ==
  c = [recv |-> v, resp |-> w, req |-> i, path |-> u, params |-> p, heads |-> h, body |-> b]

LEMMA SetRecv ==
  ASSUME NEW v, NEW w, NEW i, NEW u, NEW p, NEW h, NEW b, NEW c, IsCtx(c, v, w, i, u, p, h, b),
         NEW x
  PROVE  IsCtx([c EXCEPT !.recv = x], x, w, i, u, p, h, b)
BY DEF IsCtx

LEMMA SetHeads ==
  ASSUME NEW v, NEW w, NEW i, NEW u, NEW p, NEW h, NEW b, NEW c, IsCtx(c, v, w, i, u, p, h, b),
         NEW x
  PROVE  IsCtx([c EXCEPT !.heads = x], v, w, i, u, p, x, b)
BY DEF IsCtx

LEMMA SetRecvResp ==
  ASSUME NEW v, NEW w, NEW i, NEW u, NEW p, NEW h, NEW b, NEW c, IsCtx(c, v, w, i, u, p, h, b),
         NEW x, NEW y
  PROVE  IsCtx([c EXCEPT !.recv = x, !.resp = y], x, y, i, u, p, h, b)
<1> DEFINE d == [c EXCEPT !.recv = x]
           e == [d EXCEPT !.resp = y]
<1>1. IsCtx(d, x, w, i, u, p, h, b)
  BY SetRecv
<1>2. [c EXCEPT !.recv = x, !.resp = y] = e
  OBVIOUS
<1> HIDE DEF d
<1>3. IsCtx(e, x, y, i, u, p, h, b)
  BY <1>1 DEF IsCtx
<1> HIDE DEF e
<1> QED BY <1>2, <1>3, Zenon

LEMMA SetBodyRecv ==
  ASSUME NEW v, NEW w, NEW i, NEW u, NEW p, NEW h, NEW b, NEW c, IsCtx(c, v, w, i, u, p, h, b),
         NEW x, NEW y
  PROVE  IsCtx([c EXCEPT !.body = x, !.recv = y], y, w, i, u, p, h, x)
<1> DEFINE d == [c EXCEPT !.body = x]
           e == [d EXCEPT !.recv = y]
<1>1. IsCtx(d, v, w, i, u, p, h, x)
  BY DEF IsCtx
<1>2. [c EXCEPT !.body = x, !.recv = y] = e
  OBVIOUS
<1> HIDE DEF d
<1>3. IsCtx(e, y, w, i, u, p, h, x)
  BY <1>1 DEF IsCtx
<1> HIDE DEF e
<1> QED BY <1>2, <1>3, Zenon

LEMMA SetLine ==
  ASSUME NEW v, NEW w, NEW i, NEW u, NEW p, NEW h, NEW b, NEW c, IsCtx(c, v, w, i, u, p, h, b),
         NEW x, NEW y, NEW z
  PROVE  IsCtx([c EXCEPT !.req = x, !.path = y, !.params = z], v, w, x, y, z, h, b)
<1> DEFINE d == [c EXCEPT !.req = x]
           e == [d EXCEPT !.path = y]
           f == [e EXCEPT !.params = z]
<1>1. IsCtx(d, v, w, x, u, p, h, b)
  BY DEF IsCtx
<1>2. [c EXCEPT !.req = x, !.path = y, !.params = z] = f
  OBVIOUS
<1> HIDE DEF d
<1>3. IsCtx(e, v, w, x, y, p, h, b)
  BY <1>1 DEF IsCtx
<1> HIDE DEF e
<1>4. IsCtx(f, v, w, x, y, z, h, b)
  BY <1>3 DEF IsCtx
<1> HIDE DEF f
<1> QED BY <1>2, <1>4, Zenon

LEMMA CtxFields ==
  ASSUME CtxInv
  PROVE  IsCtx(ctx, ctx.recv, ctx.resp, ctx.req, ctx.path, ctx.params, ctx.heads, ctx.body)
BY DEF CtxInv, IsCtx

LEMMA Failed ==
  ASSUME CtxInv
  PROVE  \A x, y : IsCtx([ctx EXCEPT !.recv = x, !.resp = y], x, y, ctx.req, ctx.path,
                         ctx.params, ctx.heads, ctx.body)
<1>1. IsCtx(ctx, ctx.recv, ctx.resp, ctx.req, ctx.path, ctx.params, ctx.heads, ctx.body)
  BY CtxFields
<1>2. ASSUME NEW x, NEW y
      PROVE  IsCtx([ctx EXCEPT !.recv = x, !.resp = y], x, y, ctx.req, ctx.path, ctx.params,
                   ctx.heads, ctx.body)
  BY <1>1, SetRecvResp, Zenon
<1> QED BY <1>2

LEMMA FailIs ==
  ASSUME CtxInv, NEW code \in {400, 414}, Fail(code)
  PROVE  IsCtx(ctx', "error", code, ctx.req, ctx.path, ctx.params, ctx.heads, ctx.body)
<1>1. ctx' = [ctx EXCEPT !.recv = "error", !.resp = code]
  BY DEF Fail
<1>2. IsCtx([ctx EXCEPT !.recv = "error", !.resp = code], "error", code, ctx.req, ctx.path,
            ctx.params, ctx.heads, ctx.body)
  BY Failed
<1> QED BY <1>1, <1>2, Zenon

LEMMA ParseIs ==
  ASSUME NEW i, CtxInv
  PROVE  LET u == UrlDecode(sent[i].target, FALSE)
             q == Params(sent[i].query)
         IN \E p :
              /\ p = q.kv
              /\ \/ /\ q.good
                    /\ IsCtx(ParseHttpLine(i), "head", ctx.resp, i, u, p, ctx.heads, ctx.body)
                 \/ /\ ~ q.good
                    /\ IsCtx(ParseHttpLine(i), "error", 400, i, u, p, ctx.heads, ctx.body)
<1> DEFINE q == Params(sent[i].query)
           u == UrlDecode(sent[i].target, FALSE)
           c == [ctx EXCEPT !.req = i, !.path = u, !.params = q.kv]
           good == [c EXCEPT !.recv = "head"]
           bad == [c EXCEPT !.recv = "error", !.resp = 400]
<1>1. ParseHttpLine(i) = IF q.good THEN good ELSE bad
  BY DEF ParseHttpLine
<1> HIDE DEF q, u
<1>2. IsCtx(c, ctx.recv, ctx.resp, i, u, q.kv, ctx.heads, ctx.body)
  BY CtxFields, SetLine, Zenon
<1> HIDE DEF c
<1>3. IsCtx(good, "head", ctx.resp, i, u, q.kv, ctx.heads, ctx.body)
  BY <1>2, SetRecv, Zenon
<1>4. IsCtx(bad, "error", 400, i, u, q.kv, ctx.heads, ctx.body)
  <2>1. \A x, y : IsCtx([c EXCEPT !.recv = x, !.resp = y], x, y, i, u, q.kv, ctx.heads, ctx.body)
    BY <1>2, SetRecvResp, Zenon
  <2> QED BY <2>1, ZenonT(40)
<1> HIDE DEF good, bad
<1>5. \/ /\ q.good
         /\ IsCtx(ParseHttpLine(i), "head", ctx.resp, i, u, q.kv, ctx.heads, ctx.body)
      \/ /\ ~ q.good
         /\ IsCtx(ParseHttpLine(i), "error", 400, i, u, q.kv, ctx.heads, ctx.body)
  <2>1. CASE q.good
    BY <1>1, <1>3, <2>1, Zenon
  <2>2. CASE ~ q.good
    BY <1>1, <1>4, <2>2, Zenon
  <2> QED BY <2>1, <2>2
<1> QED BY <1>5 DEF u, q

LEMMA CtxStep == WorldInv /\ TextInv /\ CtxInv /\ [Next]_vars => CtxInv'
<1> SUFFICES ASSUME WorldInv, TextInv, CtxInv, [Next]_vars PROVE CtxInv'
  OBVIOUS
<1>1. sent' = sent /\ Piece' = Piece
  BY WorldStep DEF Piece
<1>2. Len(sent) \in Nat \ {0} /\ \A i \in 1 .. Len(sent) : sent[i] \in Requests
  BY EmptySeq, ElementOfSeq DEF WorldInv
<1> HIDE DEF Piece
<1>3. CASE ctx' = ctx
  BY <1>1, <1>3 DEF CtxInv, ContentLength
<1>4. ASSUME NEW code \in {400, 414}, Fail(code) PROVE CtxInv'
  <2>1. IsCtx(ctx', "error", code, ctx.req, ctx.path, ctx.params, ctx.heads, ctx.body)
    BY <1>4, FailIs
  <2> QED BY <1>1, <1>4, <2>1 DEF CtxInv, IsCtx
<1>5. CASE ctx' = Fresh
  <2>1. /\ 200 \in {200, 400, 414} /\ 0 \in 0 .. Len(sent) /\ <<>> \in Seq(Byte)
        /\ <<>> \in Seq(Piece)
    BY <1>2
  <2> QED BY <1>1, <1>5, <2>1 DEF CtxInv, Fresh
<1>6. CASE RecvHttpLine
  <2>1. ctx.recv = "line" /\ HasLine
    BY <1>6 DEF RecvHttpLine
  <2>2. CASE KindOf(buf) = "request"
    <3> DEFINE i == buf[1].req
    <3>1. ctx' = ParseHttpLine(i)
      BY <1>6, <2>2 DEF RecvHttpLine
    <3>2. i \in 1 .. Len(sent) /\ i \in 0 .. Len(sent) /\ i # 0
      <4>1. buf[1] \in Piece
        BY <2>1, LineIs
      <4>2. i \in 1 .. Len(sent)
        BY <4>1 DEF Piece, PieceOf
      <4> QED BY <1>2, <4>2
    <3> HIDE DEF i
    <3>3. sent[i].target \in Seq(Byte)
      BY <1>2, <3>2 DEF Requests
    <3> DEFINE u == UrlDecode(sent[i].target, FALSE)
    <3>4. u \in Seq(Byte)
      BY <3>3, Decodes
    <3>5. PICK p : \/ IsCtx(ctx', "head", ctx.resp, i, u, p, ctx.heads, ctx.body)
                   \/ IsCtx(ctx', "error", 400, i, u, p, ctx.heads, ctx.body)
      BY <3>1, ParseIs
    <3> HIDE DEF u
    <3>6. ctx.body = <<>> /\ ctx.heads = {} /\ ctx.resp \in {200, 400, 414} /\ <<>> \in Seq(Piece)
      BY <2>1 DEF CtxInv
    <3>7. CASE IsCtx(ctx', "head", ctx.resp, i, u, p, ctx.heads, ctx.body)
      BY <1>1, <3>2, <3>4, <3>6, <3>7 DEF CtxInv, IsCtx
    <3>8. CASE IsCtx(ctx', "error", 400, i, u, p, ctx.heads, ctx.body)
      BY <1>1, <3>2, <3>4, <3>6, <3>8 DEF CtxInv, IsCtx
    <3> QED BY <3>5, <3>7, <3>8
  <2>3. CASE KindOf(buf) # "request"
    <3>1. Fail(400)
      BY <1>6, <2>3 DEF RecvHttpLine
    <3> QED BY <1>4, <3>1
  <2> QED BY <2>2, <2>3
<1>7. CASE RecvHttpHead
  <2>1. ctx.recv = "head" /\ ctx.body = <<>> /\ ctx.req # 0
    BY <1>7 DEF RecvHttpHead, CtxInv
  <2>2. CASE KindOf(buf) = "empty"
    <3>1. ctx' = [ctx EXCEPT !.recv = "body"]
      BY <1>7, <2>2, Zenon DEF RecvHttpHead
    <3>2. ContentLength' = ContentLength
      BY <1>1, <3>1 DEF ContentLength, CtxInv
    <3>3. ContentLength \in Nat
      <4>1. ctx.req \in 1 .. Len(sent)
        <5>1. ctx.req \in 0 .. Len(sent)
          BY DEF CtxInv
        <5> QED BY <1>2, <2>1, <5>1
      <4>2. sent[ctx.req].body \in Nat
        BY <1>2, <4>1 DEF Requests
      <4> QED BY <4>2 DEF ContentLength
    <3>4. ctx'.body = <<>> /\ Len(ctx'.body) <= ContentLength'
      BY <2>1, <3>1, <3>2, <3>3 DEF CtxInv
    <3> QED BY <1>1, <2>1, <3>1, <3>4, SMTT(30) DEF CtxInv
  <2>3. CASE KindOf(buf) \in {"keep-alive", "length"}
    <3>1. KindOf(buf) # "empty"
      BY <2>3
    <3>2. ctx' = [ctx EXCEPT !.heads = @ \cup {KindOf(buf)}]
      BY <1>7, <2>3, <3>1, Zenon DEF RecvHttpHead
    <3> DEFINE h == ctx.heads \cup {KindOf(buf)}
    <3>3. h \subseteq {"keep-alive", "length"}
      <4> HIDE DEF KindOf
      <4> QED BY <2>3 DEF CtxInv
    <3> HIDE DEF h
    <3>4. IsCtx(ctx', ctx.recv, ctx.resp, ctx.req, ctx.path, ctx.params, h, ctx.body)
      <4>1. ctx' = [ctx EXCEPT !.heads = h]
        BY <3>2 DEF h
      <4>2. IsCtx([ctx EXCEPT !.heads = h], ctx.recv, ctx.resp, ctx.req, ctx.path, ctx.params,
                  h, ctx.body)
        BY CtxFields, SetHeads, Zenon
      <4> QED BY <4>1, <4>2, Zenon
    <3> QED BY <1>1, <2>1, <3>3, <3>4 DEF CtxInv, IsCtx
  <2>4. CASE KindOf(buf) \notin {"empty", "keep-alive", "length"}
    <3>1. KindOf(buf) # "empty" /\ KindOf(buf) \notin {"keep-alive", "length"}
      BY <2>4
    <3>2. Fail(400)
      BY <1>7, <3>1, Zenon DEF RecvHttpHead
    <3> QED BY <1>4, <3>2
  <2> QED BY <2>2, <2>3, <2>4
<1>8. CASE RecvHttpBody
  <2> DEFINE part == SubSeq(buf, 1, BodyPart)
  <2>1. ctx.recv = "body"
    BY <1>8 DEF RecvHttpBody
  <2>2. ctx' = [ctx EXCEPT !.body = @ \o part,
                           !.recv = IF BodyPart = ContentLength - Len(ctx.body) THEN "over" ELSE @]
    BY <1>8, BodyStep
  <2>3. BodyPart \in Nat /\ BodyPart <= Len(buf) /\ Len(ctx.body) + BodyPart <= ContentLength
    BY <2>1, BodyPartIs
  <2>4. part \in Seq(Piece) /\ Len(part) = BodyPart
    BY <2>3, RestIs
  <2> HIDE DEF part
  <2>5. ctx.body \in Seq(Piece) /\ ctx.req # 0
    BY <2>1 DEF CtxInv
  <2>6. ctx.body \o part \in Seq(Piece) /\ Len(ctx.body \o part) = Len(ctx.body) + Len(part)
    BY <2>4, <2>5, ConcatProperties
  <2> DEFINE b == ctx.body \o part
             v == IF BodyPart = ContentLength - Len(ctx.body) THEN "over" ELSE "body"
  <2>7. v \in {"over", "body"} /\ b \in Seq(Piece) /\ Len(b) <= ContentLength
    BY <2>3, <2>4, <2>6
  <2> HIDE DEF b, v
  <2>8. IsCtx(ctx', v, ctx.resp, ctx.req, ctx.path, ctx.params, ctx.heads, b)
    <3>1. ctx' = [ctx EXCEPT !.body = b, !.recv = v]
      BY <2>1, <2>2 DEF b, v
    <3>2. IsCtx([ctx EXCEPT !.body = b, !.recv = v], v, ctx.resp, ctx.req, ctx.path, ctx.params,
                ctx.heads, b)
      BY CtxFields, SetBodyRecv, Zenon
    <3> QED BY <3>1, <3>2, Zenon
  <2>9. ContentLength' = ContentLength
    BY <1>1, <2>8 DEF ContentLength, IsCtx
  <2> QED BY <1>1, <2>5, <2>7, <2>8, <2>9 DEF CtxInv, IsCtx
<1>9. CASE NeedsMore
  BY <1>3, <1>4, <1>9 DEF NeedsMore
<1>10. CASE LineTooLong
  BY <1>4, <1>10 DEF LineTooLong
<1>11. CASE (AnswerError \/ FileHandler \/ Dispatcher)
  BY <1>3, <1>5, <1>11 DEF AnswerError, FileHandler, Dispatcher, AnswerRequest
<1>12. Next => \/ ctx' = ctx \/ RecvHttpLine \/ RecvHttpHead \/ RecvHttpBody \/ NeedsMore
               \/ LineTooLong \/ (AnswerError \/ FileHandler \/ Dispatcher)
  BY DEF Next, Loop, OnMessage, HandleReadData, HandleReadEnd, DrainCallsBack, ShutdownEnds,
     ReleaseInLoop, OnMessageParses, OnMessageReturns, RouteToFile, Vanish
<1>13. UNCHANGED vars => ctx' = ctx
  BY DEF vars
<1> QED BY <1>3, <1>6, <1>7, <1>8, <1>9, <1>10, <1>11, <1>12, <1>13

\* What the steps do to the stack.
LEMMA NewFrames ==
  /\ OnMessageFrame \in Frame /\ OnMessageFrame.at = "loop"
  /\ ShutdownFrame \in Frame /\ ShutdownFrame.at = "drain" /\ ShutdownFrame.seen = 0
BY DEF OnMessageFrame, ShutdownFrame, Frame, Ats

LEMMA Enters ==
  ASSUME NEW f \in Frame, stack' = <<f>>
  PROVE  stack' \in Stacks /\ stack' # <<>> /\ Top' = f
<1>1. <<>> \in Stacks /\ <<f>> = Append(<<>>, f)
  BY DEF Stacks
<1>2. stack' \in Stacks /\ stack' # <<>> /\ stack'[Len(stack')] = f
  <2> DEFINE t == <<f>>
  <2>1. t = Append(<<>>, f)
    BY <1>1
  <2> HIDE DEF t
  <2>2. t \in Stacks /\ t # <<>> /\ t[Len(t)] = f
    BY <1>1, <2>1, PushIs
  <2> QED BY <2>2 DEF t
<1> QED BY <1>2 DEF Top

LEMMA Goes ==
  ASSUME stack \in Stacks, stack # <<>>, NEW place \in Ats, stack' = Goto(place)
  PROVE  stack' \in Stacks /\ stack' # <<>> /\ Top'.at = place
<1> DEFINE t == [stack EXCEPT ![Len(stack)].at = place]
<1>1. t \in Stacks /\ t # <<>> /\ t[Len(t)].at = place
  BY GotoIs
<1>2. stack' = t
  BY DEF Goto
<1> HIDE DEF t
<1> QED BY <1>1, <1>2 DEF Top

LEMMA Returns ==
  ASSUME stack \in Stacks, stack # <<>>, stack' = Return
  PROVE  stack' \in Stacks /\ (stack' # <<>> => Top'.at \in Lower)
BY PopIs DEF Return, Top

LEMMA ShutsDown ==
  ASSUME stack \in Stacks, stack # <<>>, NEW place \in Lower,
         stack' = Append(Goto(place), ShutdownFrame)
  PROVE  stack' \in Stacks /\ stack' # <<>> /\ Top' = ShutdownFrame
<1> DEFINE s == [stack EXCEPT ![Len(stack)].at = place]
<1>1. place \in Ats
  BY DEF Lower, Ats
<1>2. s \in Stacks /\ s # <<>> /\ s[Len(s)].at = place
  BY <1>1, GotoIs
<1>3. stack' = Append(s, ShutdownFrame)
  BY DEF Goto
<1> HIDE DEF s
<1>4. stack' \in Stacks /\ stack' # <<>> /\ stack'[Len(stack')] = ShutdownFrame
  BY <1>2, <1>3, NewFrames, PushIs
<1> QED BY <1>4 DEF Top

LEMMA CallsBack ==
  ASSUME TextInv, stack \in Stacks, DrainCallsBack
  PROVE  stack' \in Stacks /\ stack' # <<>> /\ Top' = OnMessageFrame
<1> DEFINE s == [stack EXCEPT ![Len(stack)].seen = Len(buf)]
<1>1. stack # <<>> /\ stack[Len(stack)].at = "drain" /\ stack' = Append(s, OnMessageFrame)
  BY DEF DrainCallsBack, In, Top
<1>2. Len(buf) \in Nat
  BY LenProperties DEF TextInv
<1>3. s \in Stacks /\ s # <<>> /\ s[Len(s)].at = "drain"
  BY <1>1, <1>2, SawIs
<1> HIDE DEF s
<1>4. stack' \in Stacks /\ stack' # <<>> /\ stack'[Len(stack')] = OnMessageFrame
  <2>1. s[Len(s)].at \in Lower
    BY <1>3 DEF Lower
  <2> QED BY <1>1, <1>3, <2>1, NewFrames, PushIs
<1> QED BY <1>4 DEF Top

\* An answer goes on with the loop or calls Shutdown().
LEMMA Answers ==
  ASSUME stack \in Stacks, stack # <<>>, NEW resp, AnswerRequest(resp)
  PROVE  /\ stack' \in Stacks /\ stack' # <<>> /\ ctx' = Fresh /\ buf' = buf
         /\ Top'.at = "loop" \/ Top' = ShutdownFrame
         /\ out' = Append(out, resp)
<1>1. ctx' = Fresh /\ buf' = buf /\ out' = Append(out, resp)
  BY DEF AnswerRequest
<1>2. CASE stack' = Goto("loop")
  <2>1. "loop" \in Ats
    BY DEF Ats
  <2> QED BY <1>1, <1>2, <2>1, Goes
<1>3. CASE stack' = Append(Goto("loop"), ShutdownFrame)
  <2>1. "loop" \in Lower
    BY DEF Lower
  <2> QED BY <1>1, <1>3, <2>1, ShutsDown
<1> QED BY <1>2, <1>3 DEF AnswerRequest

LEMMA Handles ==
  ASSUME stack \in Stacks, FileHandler \/ Dispatcher
  PROVE  \/ \E resp : AnswerRequest(resp) /\ stack # <<>>
         \/ stack' = <<>> /\ status' = "aborted"
<1>1. CASE FileHandler
  BY <1>1 DEF FileHandler, In
<1>2. CASE Dispatcher
  <2>1. stack # <<>>
    BY <1>2 DEF Dispatcher, Complete, In
  <2>2. \E resp : AnswerRequest(resp)
    BY <1>2 DEF Dispatcher
  <2> QED BY <2>1, <2>2
<1> QED BY <1>1, <1>2

LEMMA StackStep == TextInv /\ stack \in Stacks /\ [Next]_vars => stack' \in Stacks
<1> SUFFICES ASSUME TextInv, stack \in Stacks, [Next]_vars PROVE stack' \in Stacks
  OBVIOUS
<1>1. CASE stack' = stack
  BY <1>1
<1>2. CASE (HandleReadData \/ HandleReadEnd)
  BY <1>2, Enters, NewFrames DEF HandleReadData, HandleReadEnd
<1>3. CASE DrainCallsBack
  BY <1>3, CallsBack
<1>4. CASE (ShutdownEnds \/ OnMessageReturns)
  <2>1. stack # <<>> /\ stack' = Return
    BY <1>4 DEF ShutdownEnds, OnMessageReturns, In
  <2> QED BY <2>1, Returns
<1>5. ASSUME NEW place \in Ats, stack # <<>>, stack' = Goto(place) PROVE stack' \in Stacks
  BY <1>5, Goes
<1>6. CASE (OnMessageParses \/ RouteToFile)
  <2>1. stack # <<>> /\ \E place \in Ats : stack' = Goto(place)
    BY <1>6 DEF OnMessageParses, RouteToFile, Complete, In, Ats
  <2> QED BY <1>5, <2>1
<1>7. CASE (NeedsMore \/ LineTooLong \/ RecvHttpLine \/ RecvHttpHead \/ RecvHttpBody)
  <2>1. stack # <<>> /\ (Parsed \/ stack' = stack)
    BY <1>7 DEF NeedsMore, LineTooLong, RecvHttpLine, RecvHttpHead, RecvHttpBody, Parsing, In
  <2>2. "parsed" \in Ats
    BY DEF Ats
  <2> QED BY <1>1, <1>5, <2>1, <2>2 DEF Parsed
<1>8. CASE AnswerError
  <2>1. stack # <<>> /\ stack' = Append(Goto("parsed"), ShutdownFrame) /\ "parsed" \in Lower
    BY <1>8 DEF AnswerError, In, Lower
  <2> QED BY <2>1, ShutsDown
<1>9. CASE (FileHandler \/ Dispatcher)
  <2>1. <<>> \in Stacks
    BY DEF Stacks
  <2> QED BY <1>9, <2>1, Handles, Answers
<1>10. Next => \/ stack' = stack \/ (HandleReadData \/ HandleReadEnd) \/ DrainCallsBack
               \/ (ShutdownEnds \/ OnMessageReturns) \/ (OnMessageParses \/ RouteToFile)
               \/ (NeedsMore \/ LineTooLong \/ RecvHttpLine \/ RecvHttpHead \/ RecvHttpBody)
               \/ AnswerError \/ (FileHandler \/ Dispatcher)
  BY DEF Next, Loop, OnMessage, ReleaseInLoop, Vanish
<1>11. UNCHANGED vars => stack' = stack
  BY DEF vars
<1> QED BY <1>1, <1>2, <1>3, <1>4, <1>6, <1>7, <1>8, <1>9, <1>10, <1>11

LEMMA StatusStep == StatusInv /\ [Next]_vars => StatusInv'
<1> SUFFICES ASSUME StatusInv, [Next]_vars PROVE StatusInv'
  OBVIOUS
<1>1. Next => status' \in {status, "disconnecting", "released", "aborted"}
  BY DEF Next, Loop, OnMessage, HandleReadData, HandleReadEnd, DrainCallsBack, ShutdownEnds,
     ReleaseInLoop, NeedsMore, LineTooLong, RecvHttpLine, RecvHttpHead, RecvHttpBody,
     OnMessageParses, OnMessageReturns, AnswerError, RouteToFile, FileHandler, Dispatcher,
     AnswerRequest, Vanish
<1>2. UNCHANGED vars => status' = status
  BY DEF vars
<1> QED BY <1>1, <1>2 DEF StatusInv

LEMMA TypeStep == TypeInv /\ [Next]_vars => TypeInv'
BY WorldStep, TextStep, CtxStep, StatusStep, StackStep DEF TypeInv

LEMMA TypesHold == Spec => []TypeInv
<1>1. Init => TypeInv
  BY InitTypes
<1>2. TypeInv /\ [Next]_vars => TypeInv'
  BY TypeStep
<1> QED BY <1>1, <1>2, PTL DEF Spec

LEMMA TypesAreOK == TypeInv => TypeOK
<1> SUFFICES ASSUME TypeInv PROVE TypeOK
  OBVIOUS
<1>1. WorldInv /\ CtxInv /\ StatusInv /\ stack \in Stacks
  BY DEF TypeInv
<1>2. sent \in Seq(Requests) /\ Len(sent) \in Nat
  BY <1>1, LenProperties DEF WorldInv
<1>3. ASSUME ctx.recv # "error" PROVE Len(ctx.body) <= ContentLength
  <2>1. CASE ctx.recv = "line"
    <3>1. ctx.heads = {} /\ Len(ctx.body) = 0
      BY <1>1, <2>1 DEF CtxInv
    <3> QED BY <3>1 DEF ContentLength
  <2>2. CASE ctx.recv = "head"
    <3>1. Len(ctx.body) = 0 /\ ctx.req \in 1 .. Len(sent)
      <4>1. ctx.body = <<>> /\ ctx.req \in 0 .. Len(sent) /\ ctx.req # 0
        BY <1>1, <2>2 DEF CtxInv
      <4> QED BY <1>2, <4>1
    <3>2. sent[ctx.req] \in Requests
      BY <1>2, <3>1, ElementOfSeq
    <3>3. ContentLength \in Nat
      BY <3>2 DEF ContentLength, Requests
    <3> QED BY <3>1, <3>3
  <2>3. CASE ctx.recv \in {"body", "over"}
    BY <1>1, <2>3 DEF CtxInv
  <2> QED BY <1>1, <1>3, <2>1, <2>2, <2>3 DEF CtxInv
<1>4. ASSUME NEW k \in 1 .. Len(stack)
      PROVE  stack[k].at \in {"loop", "parse", "parsed", "file", "drain"}
  <2>1. stack[k] \in Frame
    BY <1>1, ElementOfSeq DEF Stacks
  <2> QED BY <2>1 DEF Frame, Ats
<1> QED BY <1>1, <1>2, <1>3, <1>4 DEF TypeOK, CtxInv, StatusInv

\* The request of a context, its headers and its body belong to what the client has
\* sent; no more of a body is taken from the buffer than there is of it, however the
\* text was cut, and no handler runs anywhere else than OnMessage and
\* ShutdownInLoop put it.
THEOREM TypeCorrect == Spec => []TypeOK
BY TypesHold, TypesAreOK, PTL

-----------------------------------------------------------------------------
(* Nothing waits that could be answered.                                    *)

\* The request is not complete; and what there is of it does not help.
Waiting == ctx.recv \in {"line", "head"} \/ (ctx.recv = "body" /\ Len(ctx.body) < ContentLength)
Quiet ==
  \/ ctx.recv \in {"line", "head"} /\ ~ HasLine /\ Len(buf) <= MaxLine
  \/ ctx.recv = "body" /\ buf = <<>> /\ Len(ctx.body) < ContentLength

\* What holds where the innermost handler is: a drain loop that has called back
\* finds nothing left to do, and so does whoever is behind it.
OnTop ==
  /\ Top.at = "loop" => ctx.resp < 400 /\ Waiting
  /\ Top.at = "parse" => ctx.resp < 400 /\ ctx.recv \in {"line", "head", "body"}
  /\ Top.at = "parsed" => ctx.resp >= 400 \/ ctx.recv = "over" \/ Quiet
  /\ Top.at = "drain" => ctx.resp < 400 /\ Waiting /\ (Top.seen # 0 => Quiet)
  /\ Top.at = "file" => ValidPath(ctx.path) /\ ctx.recv = "over" /\ Method \in {"GET", "HEAD"}
WaitInv ==
  /\ stack = <<>> => status = "aborted" \/ (ctx.resp < 400 /\ Quiet)
  /\ stack # <<>> => OnTop

LEMMA QuietWaits == Quiet => Waiting
BY DEF Quiet, Waiting

LEMMA InitWaits == Init => WaitInv
<1> SUFFICES ASSUME Init PROVE WaitInv
  OBVIOUS
<1>1. stack = <<>> /\ buf = <<>> /\ ctx.recv = "line" /\ ctx.resp = 200
  BY DEF Init, Fresh
<1>2. Len(buf) = 0 /\ ~ HasLine
  BY <1>1 DEF HasLine, Newlines
<1>3. 0 <= MaxLine
  BY HttpAssumption
<1> QED BY <1>1, <1>2, <1>3 DEF WaitInv, Quiet

\* Who returns leaves nothing to do.
LEMMA BackQuietly ==
  ASSUME stack \in Stacks, stack # <<>>, stack' = Return, ctx'.resp < 400, Quiet', Waiting'
  PROVE  WaitInv'
<1>1. stack' # <<>> => Top'.at \in Lower
  BY Returns
<1> QED BY <1>1 DEF WaitInv, OnTop, Lower

LEMMA ParserWaits ==
  ASSUME TypeInv, WaitInv, sent' = sent,
         NeedsMore \/ LineTooLong \/ RecvHttpLine \/ RecvHttpHead \/ RecvHttpBody
  PROVE  WaitInv'
<1>1. stack \in Stacks /\ stack # <<>> /\ Top.at = "parse"
  BY DEF TypeInv, NeedsMore, LineTooLong, RecvHttpLine, RecvHttpHead, RecvHttpBody, Parsing, In
<1>2. ctx.resp < 400 /\ ctx.recv \in {"line", "head", "body"}
  BY <1>1 DEF WaitInv, OnTop
<1>3. CtxInv /\ WorldInv /\ TextInv
  BY DEF TypeInv
<1>4. Parsed => stack' # <<>> /\ Top'.at = "parsed"
  <2>1. "parsed" \in Ats
    BY DEF Ats
  <2> QED BY <1>1, <2>1, Goes DEF Parsed
<1>5. ASSUME NEW code \in {400, 414}, Fail(code), Parsed PROVE WaitInv'
  <2>1. IsCtx([ctx EXCEPT !.recv = "error", !.resp = code], "error", code, ctx.req, ctx.path,
              ctx.params, ctx.heads, ctx.body)
    BY <1>3, Failed
  <2>2. ctx'.resp = code
    BY <1>5, <2>1 DEF Fail, IsCtx
  <2>3. ctx'.resp >= 400
    BY <1>5, <2>2
  <2> QED BY <1>4, <1>5, <2>3 DEF WaitInv, OnTop
<1>6. ASSUME stack' = stack, ctx'.resp < 400, ctx'.recv \in {"line", "head", "body"} PROVE WaitInv'
  <2>1. stack' # <<>> /\ Top'.at = "parse"
    BY <1>1, <1>6 DEF Top
  <2> QED BY <1>6, <2>1 DEF WaitInv, OnTop
<1>7. ASSUME Parsed, Quiet' PROVE WaitInv'
  BY <1>4, <1>7 DEF WaitInv, OnTop
<1>8. CASE NeedsMore
  <2>1. ~ HasLine /\ ctx.recv \in {"line", "head"} /\ buf' = buf /\ Parsed
    BY <1>8 DEF NeedsMore
  <2>2. CASE Len(buf) > MaxLine
    <3>1. Fail(414)
      BY <1>8, <2>2 DEF NeedsMore
    <3> QED BY <1>5, <2>1, <3>1
  <2>3. CASE ~ (Len(buf) > MaxLine)
    <3>1. ctx' = ctx
      BY <1>8, <2>3 DEF NeedsMore
    <3>2. Len(buf) \in Nat /\ MaxLine \in Nat
      BY <1>3, HttpAssumption, LenProperties DEF TextInv
    <3>3. Len(buf) <= MaxLine
      BY <2>3, <3>2
    <3>4. Quiet'
      BY <2>1, <3>1, <3>3 DEF Quiet, HasLine, Newlines
    <3> QED BY <1>7, <2>1, <3>4
  <2> QED BY <2>2, <2>3
<1>9. CASE LineTooLong
  BY <1>5, <1>9 DEF LineTooLong
<1>10. CASE RecvHttpLine
  <2>1. CASE KindOf(buf) = "request"
    <3> DEFINE i == buf[1].req
               u == UrlDecode(sent[i].target, FALSE)
    <3>1. ctx' = ParseHttpLine(i) /\ IF ctx'.recv = "error" THEN Parsed ELSE stack' = stack
      BY <1>10, <2>1 DEF RecvHttpLine
    <3>2. PICK p : \/ IsCtx(ctx', "head", ctx.resp, i, u, p, ctx.heads, ctx.body)
                   \/ IsCtx(ctx', "error", 400, i, u, p, ctx.heads, ctx.body)
      BY <1>3, <3>1, ParseIs
    <3> HIDE DEF i, u
    <3>3. CASE IsCtx(ctx', "head", ctx.resp, i, u, p, ctx.heads, ctx.body)
      BY <1>2, <1>6, <3>1, <3>3 DEF IsCtx
    <3>4. CASE IsCtx(ctx', "error", 400, i, u, p, ctx.heads, ctx.body)
      <4>1. ctx'.resp >= 400 /\ Parsed
        BY <3>1, <3>4 DEF IsCtx
      <4> QED BY <1>4, <4>1 DEF WaitInv, OnTop
    <3> QED BY <3>2, <3>3, <3>4
  <2>2. CASE KindOf(buf) # "request"
    <3>1. Fail(400) /\ IF ctx'.recv = "error" THEN Parsed ELSE stack' = stack
      BY <1>10, <2>2 DEF RecvHttpLine
    <3>2. ctx'.recv = "error"
      <4>1. IsCtx([ctx EXCEPT !.recv = "error", !.resp = 400], "error", 400, ctx.req, ctx.path,
                  ctx.params, ctx.heads, ctx.body)
        BY <1>3, Failed, ZenonT(40)
      <4> QED BY <3>1, <4>1 DEF Fail, IsCtx
    <3> QED BY <1>5, <3>1, <3>2
  <2> QED BY <2>1, <2>2
<1>11. CASE RecvHttpHead
  <2>1. CASE KindOf(buf) = "empty"
    <3>1. ctx' = [ctx EXCEPT !.recv = "body"] /\ stack' = stack
      BY <1>11, <2>1, Zenon DEF RecvHttpHead
    <3>2. ctx'.resp = ctx.resp /\ ctx'.recv = "body"
      BY <1>3, <3>1 DEF CtxInv
    <3> QED BY <1>2, <1>6, <3>1, <3>2
  <2>2. CASE KindOf(buf) \in {"keep-alive", "length"}
    <3>1. KindOf(buf) # "empty"
      BY <2>2
    <3>2. ctx' = [ctx EXCEPT !.heads = @ \cup {KindOf(buf)}] /\ stack' = stack
      BY <1>11, <2>2, <3>1, Zenon DEF RecvHttpHead
    <3>3. ctx'.resp = ctx.resp /\ ctx'.recv = ctx.recv
      BY <1>3, <3>2 DEF CtxInv
    <3> QED BY <1>2, <1>6, <3>2, <3>3
  <2>3. CASE KindOf(buf) \notin {"empty", "keep-alive", "length"}
    <3>1. KindOf(buf) # "empty" /\ KindOf(buf) \notin {"keep-alive", "length"}
      BY <2>3
    <3>2. Fail(400) /\ Parsed
      BY <1>11, <3>1, Zenon DEF RecvHttpHead
    <3> QED BY <1>5, <3>2
  <2> QED BY <2>1, <2>2, <2>3
<1>12. CASE RecvHttpBody
  <2> DEFINE part == SubSeq(buf, 1, BodyPart)
             b == ctx.body \o part
             v == IF BodyPart = ContentLength - Len(ctx.body) THEN "over" ELSE "body"
  <2>1. ctx.recv = "body" /\ Parsed
    BY <1>12 DEF RecvHttpBody
  <2>2. ctx' = [ctx EXCEPT !.body = b, !.recv = v] /\ buf' = Rest(BodyPart)
    BY <1>12, <2>1, BodyStep
  <2>3. /\ BodyPart \in Nat /\ BodyPart <= Len(buf)
        /\ BodyPart # ContentLength - Len(ctx.body) =>
             BodyPart = Len(buf) /\ Len(ctx.body) + BodyPart < ContentLength
    BY <1>3, <2>1, BodyPartIs
  <2>4. part \in Seq(Piece) /\ Len(part) = BodyPart /\ (BodyPart = Len(buf) => Rest(BodyPart) = <<>>)
    BY <1>3, <2>3, RestIs
  <2>5. Len(b) = Len(ctx.body) + Len(part)
    <3>1. ctx.body \in Seq(Piece)
      BY <1>3 DEF CtxInv
    <3> HIDE DEF part
    <3> QED BY <2>4, <3>1, ConcatProperties
  <2> HIDE DEF part
  <2>6. v = "over" \/ (v = "body" /\ Len(b) < ContentLength /\ buf' = <<>>)
    BY <2>2, <2>3, <2>4, <2>5
  <2> HIDE DEF b, v
  <2>7. IsCtx(ctx', v, ctx.resp, ctx.req, ctx.path, ctx.params, ctx.heads, b)
    <3>1. IsCtx([ctx EXCEPT !.body = b, !.recv = v], v, ctx.resp, ctx.req, ctx.path, ctx.params,
                ctx.heads, b)
      BY <1>3, CtxFields, SetBodyRecv, Zenon
    <3> QED BY <2>2, <3>1, Zenon
  <2>8. ContentLength' = ContentLength
    BY <2>7 DEF ContentLength, IsCtx
  <2>9. ctx'.recv = v /\ ctx'.body = b
    BY <2>7 DEF IsCtx
  <2>10. CASE v = "over"
    BY <1>4, <2>1, <2>9, <2>10 DEF WaitInv, OnTop
  <2>11. CASE v = "body" /\ Len(b) < ContentLength /\ buf' = <<>>
    <3>1. Quiet'
      BY <2>8, <2>9, <2>11 DEF Quiet
    <3> QED BY <1>7, <2>1, <3>1
  <2> QED BY <2>6, <2>10, <2>11
<1> QED BY <1>8, <1>9, <1>10, <1>11, <1>12

LEMMA ServerWaits ==
  ASSUME TypeInv, WaitInv, sent' = sent, AnswerError \/ FileHandler \/ Dispatcher
  PROVE  WaitInv'
<1>1. stack \in Stacks
  BY DEF TypeInv
<1>2. ASSUME ctx' = Fresh, stack' # <<>>, Top'.at = "loop" \/ Top' = ShutdownFrame PROVE WaitInv'
  <2>1. ctx'.recv = "line" /\ ctx'.resp = 200
    BY <1>2 DEF Fresh
  <2>2. Top'.at = "loop" \/ (Top'.at = "drain" /\ Top'.seen = 0)
    BY <1>2, NewFrames
  <2>3. Waiting' /\ ctx'.resp < 400
    BY <2>1 DEF Waiting
  <2> QED BY <1>2, <2>2, <2>3 DEF WaitInv, OnTop
<1>3. CASE AnswerError
  <2>1. /\ stack # <<>> /\ stack' = Append(Goto("parsed"), ShutdownFrame) /\ "parsed" \in Lower
        /\ ctx' = Fresh
    BY <1>3 DEF AnswerError, In, Lower
  <2>2. stack' # <<>> /\ Top' = ShutdownFrame
    BY <1>1, <2>1, ShutsDown
  <2> QED BY <1>2, <2>1, <2>2
<1>4. CASE (FileHandler \/ Dispatcher)
  <2>1. CASE stack' = <<>> /\ status' = "aborted"
    BY <2>1 DEF WaitInv
  <2>2. ASSUME NEW resp, AnswerRequest(resp), stack # <<>> PROVE WaitInv'
    BY <1>1, <1>2, <2>2, Answers
  <2> QED BY <1>1, <1>4, <2>1, <2>2, Handles
<1> QED BY <1>3, <1>4

LEMMA LoopWaits ==
  ASSUME TypeInv, WaitInv, sent' = sent,
         \/ HandleReadData \/ HandleReadEnd \/ DrainCallsBack \/ ShutdownEnds \/ ReleaseInLoop
         \/ OnMessageParses \/ OnMessageReturns \/ RouteToFile \/ Vanish
  PROVE  WaitInv'
<1>1. stack \in Stacks /\ TextInv
  BY DEF TypeInv
<1>2. ctx' = ctx
  BY DEF HandleReadData, HandleReadEnd, DrainCallsBack, ShutdownEnds, ReleaseInLoop,
     OnMessageParses, OnMessageReturns, RouteToFile, Vanish
<1>3. Waiting' = Waiting
  BY <1>2 DEF Waiting, ContentLength
<1>4. ASSUME buf' = buf PROVE Quiet' = Quiet
  BY <1>2, <1>4 DEF Quiet, ContentLength, HasLine, Newlines
<1>5. CASE HandleReadData
  <2>1. stack = <<>> /\ status # "aborted" /\ stack' = <<OnMessageFrame>>
    BY <1>5 DEF HandleReadData, Open
  <2>2. ctx'.resp < 400 /\ Waiting'
    BY <1>2, <1>3, <2>1, QuietWaits DEF WaitInv
  <2>3. stack' # <<>> /\ Top'.at = "loop"
    BY <2>1, NewFrames, Enters
  <2> QED BY <2>2, <2>3 DEF WaitInv, OnTop
<1>6. CASE HandleReadEnd
  <2>1. stack = <<>> /\ status # "aborted" /\ stack' = <<ShutdownFrame>>
    BY <1>6 DEF HandleReadEnd, Open
  <2>2. ctx'.resp < 400 /\ Waiting'
    BY <1>2, <1>3, <2>1, QuietWaits DEF WaitInv
  <2>3. stack' # <<>> /\ Top'.at = "drain" /\ Top'.seen = 0
    BY <2>1, NewFrames, Enters
  <2> QED BY <2>2, <2>3 DEF WaitInv, OnTop
<1>7. CASE DrainCallsBack
  <2>1. stack # <<>> /\ Top.at = "drain"
    BY <1>7 DEF DrainCallsBack, In
  <2>2. ctx'.resp < 400 /\ Waiting'
    BY <1>2, <1>3, <2>1 DEF WaitInv, OnTop
  <2>3. stack' # <<>> /\ Top'.at = "loop"
    BY <1>1, <1>7, CallsBack, NewFrames
  <2> QED BY <2>2, <2>3 DEF WaitInv, OnTop
<1>8. CASE ShutdownEnds
  <2>1. /\ stack # <<>> /\ Top.at = "drain" /\ stack' = Return /\ buf' = buf
        /\ buf = <<>> \/ Len(buf) = Top.seen
    BY <1>8 DEF ShutdownEnds, In, DrainGoesOn
  <2>2. ctx.resp < 400 /\ Waiting /\ (Top.seen # 0 => Quiet)
    BY <2>1 DEF WaitInv, OnTop
  <2>3. Quiet
    <3>1. CASE buf = <<>>
      <4>1. Len(buf) = 0 /\ ~ HasLine /\ 0 <= MaxLine
        BY <3>1, HttpAssumption DEF HasLine, Newlines
      <4> QED BY <2>2, <3>1, <4>1 DEF Waiting, Quiet
    <3>2. CASE buf # <<>>
      <4>1. Len(buf) # 0
        BY <1>1, <3>2, EmptySeq DEF TextInv
      <4> QED BY <2>1, <2>2, <3>2, <4>1
    <3> QED BY <3>1, <3>2
  <2>4. ctx'.resp < 400 /\ Quiet' /\ Waiting'
    BY <1>2, <1>3, <1>4, <2>1, <2>2, <2>3
  <2> QED BY <1>1, <2>1, <2>4, BackQuietly
<1>9. CASE ReleaseInLoop
  <2>1. stack = <<>> /\ stack' = stack /\ buf' = buf /\ status # "aborted"
    BY <1>9 DEF ReleaseInLoop
  <2> QED BY <1>2, <1>4, <2>1 DEF WaitInv
<1>10. CASE OnMessageParses
  <2>1. stack # <<>> /\ Top.at = "loop" /\ stack' = Goto("parse") /\ "parse" \in Ats
    BY <1>10 DEF OnMessageParses, In, Ats
  <2>2. ctx'.resp < 400 /\ ctx'.recv \in {"line", "head", "body"}
    BY <1>2, <2>1 DEF WaitInv, OnTop, Waiting
  <2>3. stack' # <<>> /\ Top'.at = "parse"
    BY <1>1, <2>1, Goes
  <2> QED BY <2>2, <2>3 DEF WaitInv, OnTop
<1>11. CASE OnMessageReturns
  <2>1. stack # <<>> /\ stack' = Return /\ buf' = buf
    BY <1>11 DEF OnMessageReturns, In
  <2>2. ctx.resp < 400 /\ Quiet
    <3>1. CASE Top.at = "loop" /\ buf = <<>>
      <4>1. Len(buf) = 0 /\ ~ HasLine /\ 0 <= MaxLine
        BY <3>1, HttpAssumption DEF HasLine, Newlines
      <4>2. ctx.resp < 400 /\ Waiting
        BY <2>1, <3>1 DEF WaitInv, OnTop
      <4> QED BY <3>1, <4>1, <4>2 DEF Waiting, Quiet
    <3>2. CASE Top.at = "parsed" /\ ctx.resp < 400 /\ ctx.recv # "over"
      <4>1. ctx.resp >= 400 \/ ctx.recv = "over" \/ Quiet
        BY <2>1, <3>2 DEF WaitInv, OnTop
      <4>2. ~ (ctx.resp >= 400)
        <5>1. ctx.resp \in {200, 400, 414}
          BY DEF TypeInv, CtxInv
        <5> QED BY <3>2, <5>1
      <4> QED BY <3>2, <4>1, <4>2
    <3> QED BY <1>11, <3>1, <3>2 DEF OnMessageReturns, In
  <2>3. ctx'.resp < 400 /\ Quiet' /\ Waiting'
    BY <1>2, <1>3, <1>4, <2>1, <2>2, QuietWaits
  <2> QED BY <1>1, <2>1, <2>3, BackQuietly
<1>12. CASE RouteToFile
  <2>1. stack # <<>> /\ stack' = Goto("file") /\ "file" \in Ats /\ ValidPath(ctx.path)
        /\ ctx.recv = "over" /\ Method \in {"GET", "HEAD"}
    BY <1>12 DEF RouteToFile, Complete, IsFileHandler, In, Ats
  <2>2. stack' # <<>> /\ Top'.at = "file"
    BY <1>1, <2>1, Goes
  <2> QED BY <1>2, <2>1, <2>2 DEF WaitInv, OnTop, Method
<1>13. CASE Vanish
  <2>1. stack' = stack /\ buf' = buf /\ status' = status
    BY <1>13 DEF Vanish
  <2>2. Top' = Top
    BY <2>1 DEF Top
  <2> QED BY <1>2, <1>3, <1>4, <2>1, <2>2 DEF WaitInv, OnTop, Method
<1> QED BY <1>5, <1>6, <1>7, <1>8, <1>9, <1>10, <1>11, <1>12, <1>13

LEMMA WaitStep == TypeInv /\ WaitInv /\ [Next]_vars => WaitInv'
<1> SUFFICES ASSUME TypeInv, WaitInv, [Next]_vars PROVE WaitInv'
  OBVIOUS
<1>1. sent' = sent
  BY WorldStep DEF TypeInv
<1>2. CASE UNCHANGED vars
  BY <1>2 DEF vars, world, WaitInv, OnTop, Method, Top, Waiting, Quiet, ContentLength, HasLine, Newlines
<1>3. Next => \/ NeedsMore \/ LineTooLong \/ RecvHttpLine \/ RecvHttpHead \/ RecvHttpBody
              \/ AnswerError \/ FileHandler \/ Dispatcher
              \/ HandleReadData \/ HandleReadEnd \/ DrainCallsBack \/ ShutdownEnds \/ ReleaseInLoop
              \/ OnMessageParses \/ OnMessageReturns \/ RouteToFile \/ Vanish
  BY DEF Next, Loop, OnMessage
<1> QED BY <1>1, <1>2, <1>3, ParserWaits, ServerWaits, LoopWaits

LEMMA WaitsHold == Spec => [](TypeInv /\ WaitInv)
<1>1. Init => TypeInv /\ WaitInv
  BY InitTypes, InitWaits
<1>2. (TypeInv /\ WaitInv) /\ [Next]_vars => (TypeInv /\ WaitInv)'
  BY TypeStep, WaitStep
<1> QED BY <1>1, <1>2, PTL DEF Spec

\* OnMessage, however it is re-entered, leaves nothing behind that it could have
\* answered: whenever no handler runs, what is buffered is the beginning of a line of
\* legal length, or nothing while a body is not complete.
THEOREM NothingIsLeft == Spec => []NothingWaits
<1>1. TypeInv /\ WaitInv => NothingWaits
  BY DEF WaitInv, Quiet, NothingWaits
<1> QED BY <1>1, WaitsHold, PTL

-----------------------------------------------------------------------------
(* Files are served from the base directory only.                           *)

\* What has become of the disk.
IsInput(i) ==
  /\ sent = i.requests /\ vanished \cup fleeting \subseteq i.fleeting
  /\ tree.dirs = i.tree.dirs /\ tree.files \subseteq i.tree.files
DiskInv == fleeting \subseteq tree.files /\ \E i \in Inputs : IsInput(i)

LEMMA InitDisk == Init => DiskInv
<1> SUFFICES ASSUME Init PROVE DiskInv
  OBVIOUS
<1>1. PICK i \in Inputs : sent = i.requests /\ tree = i.tree /\ fleeting = i.fleeting
  BY DEF Init
<1>2. i.fleeting \subseteq i.tree.files
  BY HttpAssumption
<1>3. vanished = {}
  BY DEF Init
<1> QED BY <1>1, <1>2, <1>3 DEF DiskInv, IsInput

\* Where the directories are, and what there is or was, does not change.
SameDisk ==
  /\ tree'.dirs = tree.dirs /\ tree'.files \cup vanished' = tree.files \cup vanished
  /\ vanished \subseteq vanished'

LEMMA DiskStep == WorldInv /\ DiskInv /\ [Next]_vars => DiskInv' /\ SameDisk
<1> SUFFICES ASSUME WorldInv, DiskInv, [Next]_vars PROVE DiskInv' /\ SameDisk
  OBVIOUS
<1>1. CASE UNCHANGED world
  BY <1>1 DEF world, DiskInv, IsInput, SameDisk
<1>2. CASE Vanish
  <2>1. PICK f \in fleeting :
          /\ tree' = [tree EXCEPT !.files = @ \ {f}]
          /\ fleeting' = fleeting \ {f} /\ vanished' = vanished \cup {f}
    BY <1>2 DEF Vanish
  <2>2. sent' = sent
    BY <1>2 DEF Vanish
  <2>3. tree'.dirs = tree.dirs /\ tree'.files = tree.files \ {f}
    BY <2>1 DEF WorldInv
  <2>4. f \in tree.files
    BY <2>1 DEF DiskInv
  <2>5. SameDisk
    BY <2>1, <2>3, <2>4 DEF SameDisk
  <2>6. PICK i \in Inputs : IsInput(i)
    BY DEF DiskInv
  <2>7. IsInput(i)'
    BY <2>1, <2>2, <2>3, <2>6 DEF IsInput
  <2>8. fleeting' \subseteq tree'.files
    BY <2>1, <2>3 DEF DiskInv
  <2> QED BY <2>5, <2>6, <2>7, <2>8 DEF DiskInv
<1>3. Next => Vanish \/ UNCHANGED world
  BY DEF Next, Loop, OnMessage, HandleReadData, HandleReadEnd, DrainCallsBack, ShutdownEnds,
     ReleaseInLoop, NeedsMore, LineTooLong, RecvHttpLine, RecvHttpHead, RecvHttpBody,
     OnMessageParses, OnMessageReturns, AnswerError, RouteToFile, FileHandler, Dispatcher
<1>4. UNCHANGED vars => UNCHANGED world
  BY DEF vars, world
<1> QED BY <1>1, <1>2, <1>3, <1>4

LEMMA TreeIsDisk == DiskInv => IsDisk(tree) /\ BaseDir \in tree.dirs
<1> SUFFICES ASSUME DiskInv PROVE IsDisk(tree) /\ BaseDir \in tree.dirs
  OBVIOUS
<1>1. PICK i \in Inputs : IsInput(i)
  BY DEF DiskInv
<1>2. /\ i.tree.dirs \subseteq Places /\ i.tree.files \subseteq Places
      /\ i.tree.dirs \cap i.tree.files = {} /\ \A p \in i.tree.dirs : Front(p) \in i.tree.dirs
      /\ BaseDir \in i.tree.dirs
  BY HttpAssumption
<1>3. tree.dirs = i.tree.dirs /\ tree.files \subseteq i.tree.files
  BY <1>1 DEF IsInput
<1> QED BY <1>2, <1>3 DEF IsDisk

OutInv == (\E R : out \in Seq(R)) /\ ServedFromBaseDir

LEMMA OneMore ==
  ASSUME OutInv, NEW resp, out' = Append(out, resp),
         resp.content.kind = "file" => IsPrefix(BaseDir, resp.content.of)
  PROVE  OutInv'
<1>1. PICK R : out \in Seq(R)
  BY DEF OutInv
<1> DEFINE S == R \cup {resp}
<1>2. out \in Seq(S) /\ resp \in S
  BY <1>1
<1> HIDE DEF S
<1>3. /\ out' \in Seq(S) /\ Len(out') = Len(out) + 1
      /\ \A i \in 1 .. Len(out) : out'[i] = out[i]
      /\ out'[Len(out) + 1] = resp
  BY <1>2, AppendProperties
<1>4. Len(out) \in Nat
  BY <1>2, LenProperties
<1>5. ASSUME NEW k \in 1 .. Len(out'), out'[k].content.kind = "file"
      PROVE  IsPrefix(BaseDir, out'[k].content.of)
  <2>1. k \in 1 .. Len(out) \/ k = Len(out) + 1
    BY <1>3, <1>4
  <2>2. CASE k \in 1 .. Len(out)
    <3>1. out'[k] = out[k]
      BY <1>3, <2>2
    <3> QED BY <1>5, <2>2, <3>1 DEF OutInv, ServedFromBaseDir
  <2>3. CASE k = Len(out) + 1
    <3>1. out'[k] = resp
      BY <1>3, <2>3
    <3> QED BY <1>5, <3>1
  <2> QED BY <2>1, <2>2, <2>3
<1> QED BY <1>3, <1>5 DEF OutInv, ServedFromBaseDir

LEMMA OutStep == TypeInv /\ WaitInv /\ DiskInv /\ OutInv /\ [Next]_vars => OutInv'
<1> SUFFICES ASSUME TypeInv, WaitInv, DiskInv, OutInv, [Next]_vars PROVE OutInv'
  OBVIOUS
<1>1. CASE out' = out
  BY <1>1 DEF OutInv, ServedFromBaseDir
<1>2. CASE AnswerError
  <2> DEFINE resp == Response(0, ctx.resp, Page, "")
  <2>1. out' = Append(out, resp)
    BY <1>2 DEF AnswerError
  <2>2. resp.content.kind = "page"
    BY DEF Response, Content, Page
  <2> HIDE DEF resp
  <2> QED BY <2>1, <2>2, OneMore
<1>3. CASE Dispatcher
  <2> DEFINE handlers == Routes[IF Method = "HEAD" THEN "GET" ELSE Method]
             found == {k \in 1 .. Len(handlers) : ctx.path \in handlers[k].paths}
             k == Min(found)
             none == Response(ctx.req, 404, NoContent, "")
             some == Response(ctx.req, 200, Content("handler", <<k>>, <<>>),
                              handlers[k].connection)
             resp == IF found = {} THEN none ELSE some
  <2>1. AnswerRequest(resp)
    BY <1>3 DEF Dispatcher
  <2>2. none.content.kind = "none"
    BY DEF Response, NoContent, Content
  <2> HIDE DEF k, handlers
  <2>3. some.content.kind = "handler"
    BY DEF Response, Content
  <2> HIDE DEF none, some, found
  <2>4. resp = none \/ resp = some
    OBVIOUS
  <2> HIDE DEF resp
  <2>5. resp.content.kind # "file"
    BY <2>2, <2>3, <2>4
  <2>6. out' = Append(out, resp)
    BY <2>1 DEF AnswerRequest
  <2> QED BY <2>5, <2>6, OneMore
<1>4. CASE FileHandler
  <2> DEFINE path == RequestPath(ctx.path)
             place == Lookup(tree, BaseDir, path)
             resp == Response(ctx.req, 200, Content("file", place, ExtMime(path, Mimes)), "")
  <2>1. CASE IsFileExists(tree, BaseDir, path)
    <3>1. AnswerRequest(resp)
      BY <1>4, <2>1 DEF FileHandler
    <3>2. ValidPath(ctx.path)
      BY <1>4 DEF FileHandler, In, WaitInv, OnTop
    <3>3. ctx.path \in Seq(Byte) /\ IsDisk(tree) /\ BaseDir \in tree.dirs
      BY TreeIsDisk DEF TypeInv, CtxInv
    <3>4. IsPrefix(BaseDir, place)
      BY <2>1, <3>2, <3>3, LookupStays
    <3> HIDE DEF place
    <3>5. resp.content.of = place
      BY DEF Response, Content
    <3> HIDE DEF resp
    <3>6. out' = Append(out, resp)
      BY <3>1 DEF AnswerRequest
    <3> QED BY <3>4, <3>5, <3>6, OneMore
  <2>2. CASE ~ IsFileExists(tree, BaseDir, path)
    <3>1. out' = out
      BY <1>4, <2>2 DEF FileHandler
    <3> QED BY <1>1, <3>1
  <2> QED BY <2>1, <2>2
<1>5. Next => out' = out \/ AnswerError \/ Dispatcher \/ FileHandler
  BY DEF Next, Loop, OnMessage, HandleReadData, HandleReadEnd, DrainCallsBack, ShutdownEnds,
     ReleaseInLoop, NeedsMore, LineTooLong, RecvHttpLine, RecvHttpHead, RecvHttpBody,
     OnMessageParses, OnMessageReturns, RouteToFile, Vanish
<1>6. UNCHANGED vars => out' = out
  BY DEF vars
<1> QED BY <1>1, <1>2, <1>3, <1>4, <1>5, <1>6

\* Whatever bytes a target is made of, a file that is served lies in the base
\* directory: ValidPath counts the depth of what the client has asked for, and
\* neither the page of a directory, nor a byte 0 behind which the system does not
\* look, nor a file that vanishes leads out of it.
THEOREM NoFileOutside == Spec => []ServedFromBaseDir
<1>1. Init => DiskInv /\ OutInv
  BY InitDisk DEF Init, OutInv, ServedFromBaseDir
<1>2. TypeInv /\ WaitInv /\ DiskInv /\ OutInv /\ [Next]_vars => DiskInv' /\ OutInv'
  BY OutStep, DiskStep DEF TypeInv
<1>3. OutInv => ServedFromBaseDir
  BY DEF OutInv
<1> QED BY <1>1, <1>2, <1>3, WaitsHold, PTL DEF Spec

-----------------------------------------------------------------------------
(* Where the lines and the bodies are in the text.                          *)

LinePiece(i, kind, k) == [req |-> i, kind |-> kind, at |-> k, newline |-> k = Pieces(kind)]
BodyPiece(i, k) == [req |-> i, kind |-> "body", at |-> k, newline |-> FALSE]

\* In the text of one request: off[j] is where its j-th line ends.
RowsAt(i, r, off) ==
  /\ off \in [0 .. Len(r.lines) -> Nat] /\ off[0] = 0
  /\ Len(Text(i, r)) = off[Len(r.lines)] + r.body
  /\ \A j \in 1 .. Len(r.lines) :
       /\ off[j] = off[j - 1] + Pieces(r.lines[j])
       /\ \A k \in 1 .. Pieces(r.lines[j]) :
            Text(i, r)[off[j - 1] + k] = LinePiece(i, r.lines[j], k)
  /\ \A k \in 1 .. r.body : Text(i, r)[off[Len(r.lines)] + k] = BodyPiece(i, k)

LEMMA PiecesAre == \A kind \in Kinds : Pieces(kind) \in Nat \ {0}
  BY HttpAssumption DEF Pieces

LEMMA RequestIs ==
  ASSUME NEW r \in Requests
  PROVE  /\ r.lines \in Seq(Kinds) /\ Len(r.lines) \in Nat \ {0} /\ r.body \in Nat
         /\ \A j \in 1 .. Len(r.lines) : r.lines[j] \in Kinds
         /\ Framed(r.lines) /\ r.target \in Seq(Byte) /\ r.query \in Seq(Byte)
         /\ r.body > 0 => \E k \in 1 .. Len(r.lines) : r.lines[k] = "length"
<1>1. r.lines \in Seq(Kinds) /\ r.body \in Nat /\ r.target \in Seq(Byte) /\ r.query \in Seq(Byte)
  BY DEF Requests
<1>2. Framed(r.lines) /\ (r.body > 0 => "length" \in {r.lines[k] : k \in 1 .. Len(r.lines)})
  BY DEF Requests
<1>3. Len(r.lines) \in Nat /\ \A j \in 1 .. Len(r.lines) : r.lines[j] \in Kinds
  BY <1>1, LenProperties, ElementOfSeq
<1>4. Len(r.lines) # 0
  BY <1>1, <1>2, EmptySeq DEF Framed
<1> QED BY <1>1, <1>2, <1>3, <1>4

LEMMA TextAt ==
  ASSUME NEW i \in Nat, NEW r \in Requests
  PROVE  \E off : RowsAt(i, r, off)
<1> DEFINE n == Len(r.lines)
           rows == [k \in 1 .. n |-> LineText(i, r.lines[k])]
           P == [req : {i}, kind : Kinds \cup {"body"}, at : Nat, newline : BOOLEAN]
           body == BodyText(i, r.body)
           front == FlattenSeq(rows)
<1>1. n \in Nat \ {0} /\ r.body \in Nat /\ \A j \in 1 .. n : r.lines[j] \in Kinds
  BY RequestIs
<1>2. ASSUME NEW kind \in Kinds
      PROVE  /\ LineText(i, kind) \in Seq(P) /\ Len(LineText(i, kind)) = Pieces(kind)
             /\ \A k \in 1 .. Pieces(kind) : LineText(i, kind)[k] = LinePiece(i, kind, k)
  <2>1. Pieces(kind) \in Nat
    BY PiecesAre
  <2>2. \A k \in 1 .. Pieces(kind) : LinePiece(i, kind, k) \in P
    BY <2>1 DEF LinePiece
  <2>3. LineText(i, kind) = [k \in 1 .. Pieces(kind) |-> LinePiece(i, kind, k)]
    BY DEF LineText, LinePiece
  <2> HIDE DEF P
  <2> QED BY <2>1, <2>2, <2>3
<1>3. /\ body \in Seq(P) /\ Len(body) = r.body
      /\ \A k \in 1 .. r.body : body[k] = BodyPiece(i, k)
  <2>1. \A k \in 1 .. r.body : BodyPiece(i, k) \in P
    BY <1>1 DEF BodyPiece
  <2>2. body = [k \in 1 .. r.body |-> BodyPiece(i, k)]
    BY DEF BodyText, BodyPiece
  <2> HIDE DEF P, body
  <2> QED BY <1>1, <2>1, <2>2
<1> HIDE DEF P, body
<1>4. rows \in Seq(Seq(P)) /\ Len(rows) = n /\ \A j \in 1 .. n : rows[j] = LineText(i, r.lines[j])
  <2>1. \A j \in 1 .. n : LineText(i, r.lines[j]) \in Seq(P)
    BY <1>1, <1>2
  <2> HIDE DEF n
  <2> QED BY <1>1, <2>1
<1> HIDE DEF rows
<1>5. PICK off : Offsets(rows, off)
  BY <1>4, OffsetsAre
<1>6. /\ off \in [0 .. n -> Nat] /\ off[0] = 0 /\ off[n] = Len(front)
      /\ \A j \in 1 .. n :
           /\ off[j] = off[j - 1] + Len(rows[j])
           /\ \A k \in 1 .. Len(rows[j]) : front[off[j - 1] + k] = rows[j][k]
  BY <1>4, <1>5 DEF Offsets
<1>7. front \in Seq(P)
  BY <1>4, Flattens
<1> HIDE DEF front
<1>8. Text(i, r) = front \o body
  BY DEF Text, front, body, rows
<1> HIDE DEF n
<1>9. /\ Len(Text(i, r)) = off[n] + r.body
      /\ \A k \in 1 .. off[n] : Text(i, r)[k] = front[k]
      /\ \A k \in 1 .. r.body : Text(i, r)[off[n] + k] = BodyPiece(i, k)
  <2>1. /\ Len(front \o body) = Len(front) + Len(body)
        /\ \A k \in 1 .. Len(front) : (front \o body)[k] = front[k]
        /\ \A k \in 1 .. Len(body) : (front \o body)[Len(front) + k] = body[k]
    BY <1>3, <1>7, ConcatProperties
  <2>2. Len(body) = r.body /\ Len(front) = off[n]
    BY <1>3, <1>6
  <2> QED BY <1>3, <1>8, <2>1, <2>2
<1>10. ASSUME NEW j \in 1 .. n
       PROVE  /\ off[j] = off[j - 1] + Pieces(r.lines[j])
              /\ \A k \in 1 .. Pieces(r.lines[j]) :
                   Text(i, r)[off[j - 1] + k] = LinePiece(i, r.lines[j], k)
  <2>1. /\ Len(rows[j]) = Pieces(r.lines[j]) /\ Pieces(r.lines[j]) \in Nat
        /\ \A k \in 1 .. Pieces(r.lines[j]) : rows[j][k] = LinePiece(i, r.lines[j], k)
    BY <1>1, <1>2, <1>4, PiecesAre
  <2>2. off[j] = off[j - 1] + Pieces(r.lines[j])
    BY <1>6, <2>1
  <2>3. off[j] <= off[n]
    <3>1. \A k \in 1 .. n : off[k - 1] <= off[k]
      <4>1. \A k \in 1 .. n : Len(rows[k]) \in Nat
        BY <1>1, <1>2, <1>4, PiecesAre
      <4>2. ASSUME NEW k \in 1 .. n
            PROVE  off[k] = off[k - 1] + Len(rows[k]) /\ off[k - 1] \in Nat
        <5>1. k - 1 \in 0 .. n
          BY <1>1
        <5> QED BY <1>6, <5>1
      <4> QED BY <4>1, <4>2
    <3>2. j \in 0 .. n
      BY <1>1
    <3> QED BY <1>1, <1>6, <3>1, <3>2, OffsetsGrow
  <2>4. \A k \in 1 .. Pieces(r.lines[j]) : off[j - 1] + k \in 1 .. off[n]
    <3>1. off[j - 1] \in Nat /\ off[n] \in Nat /\ off[j] \in Nat
      <4>1. j - 1 \in 0 .. n /\ n \in 0 .. n /\ j \in 0 .. n
        BY <1>1
      <4> QED BY <1>6, <4>1
    <3>2. \A w, x, y, z \in Nat : y = w + x /\ y <= z => \A k \in 1 .. x : w + k \in 1 .. z
      OBVIOUS
    <3> QED BY <2>1, <2>2, <2>3, <3>1, <3>2
  <2> QED BY <1>6, <1>9, <2>1, <2>2, <2>4
<1>11. off \in [0 .. n -> Nat] /\ off[0] = 0
  BY <1>6
<1> QED BY <1>9, <1>10, <1>11 DEF RowsAt, n

\* The text of all requests: E[i] is where the i-th of them ends, L[i][j] where its
\* j-th line does.
AllText(s) == FlattenSeq([i \in 1 .. Len(s) |-> Text(i, s[i])])

Ends(s, E) ==
  E \in [0 .. Len(s) -> Nat] /\ E[0] = 0 /\ E[Len(s)] = Len(AllText(s))
LineEnds(s, E, L) ==
  \A i \in 1 .. Len(s) :
    /\ \A j \in 0 .. Len(s[i].lines) : L[i][j] \in Nat
    /\ L[i][0] = E[i - 1] /\ E[i] = L[i][Len(s[i].lines)] + s[i].body
    /\ \A j \in 1 .. Len(s[i].lines) : L[i][j] = L[i][j - 1] + Pieces(s[i].lines[j])
LinePieces(s, L) ==
  \A i \in 1 .. Len(s) : \A j \in 1 .. Len(s[i].lines) : \A k \in 1 .. Pieces(s[i].lines[j]) :
    AllText(s)[L[i][j - 1] + k] = LinePiece(i, s[i].lines[j], k)
BodyPieces(s, L) ==
  \A i \in 1 .. Len(s) : \A k \in 1 .. s[i].body :
    AllText(s)[L[i][Len(s[i].lines)] + k] = BodyPiece(i, k)
Layout(s, E, L) == Ends(s, E) /\ LineEnds(s, E, L) /\ LinePieces(s, L) /\ BodyPieces(s, L)

LEMMA LayoutIs ==
  ASSUME NEW s \in Seq(Requests)
  PROVE  \E E, L : Layout(s, E, L)
<1> DEFINE m == Len(s)
           texts == [i \in 1 .. m |-> Text(i, s[i])]
           P == PieceOf(m)
<1>1. m \in Nat /\ \A i \in 1 .. m : s[i] \in Requests
  BY LenProperties, ElementOfSeq
<1>2. texts \in Seq(Seq(P)) /\ Len(texts) = m /\ \A i \in 1 .. m : texts[i] = Text(i, s[i])
  <2>1. ASSUME NEW i \in 1 .. m PROVE Text(i, s[i]) \in Seq(P)
    BY <1>1, <2>1, OneTextIsPieces
  <2> HIDE DEF P
  <2> QED BY <1>1, <2>1
<1> HIDE DEF texts
<1>3. PICK E : Offsets(texts, E)
  BY <1>2, OffsetsAre
<1>4. FlattenSeq(texts) = AllText(s)
  BY DEF texts, AllText
<1>5. /\ E \in [0 .. m -> Nat] /\ E[0] = 0 /\ E[m] = Len(AllText(s))
      /\ \A i \in 1 .. m :
           /\ E[i] = E[i - 1] + Len(Text(i, s[i]))
           /\ \A j \in 1 .. Len(Text(i, s[i])) : AllText(s)[E[i - 1] + j] = Text(i, s[i])[j]
  <2>1. /\ E \in [0 .. m -> Nat] /\ E[0] = 0 /\ E[m] = Len(FlattenSeq(texts))
        /\ \A i \in 1 .. m :
             /\ E[i] = E[i - 1] + Len(texts[i])
             /\ \A j \in 1 .. Len(texts[i]) : FlattenSeq(texts)[E[i - 1] + j] = texts[i][j]
    BY <1>2, <1>3 DEF Offsets
  <2>2. ASSUME NEW i \in 1 .. m
        PROVE  /\ E[i] = E[i - 1] + Len(Text(i, s[i]))
               /\ \A j \in 1 .. Len(Text(i, s[i])) : AllText(s)[E[i - 1] + j] = Text(i, s[i])[j]
    <3>1. texts[i] = Text(i, s[i])
      BY <1>2
    <3> QED BY <1>4, <2>1, <3>1
  <2> QED BY <1>4, <2>1, <2>2
<1> DEFINE rows == [i \in 1 .. m |-> CHOOSE off : RowsAt(i, s[i], off)]
           L == [i \in 1 .. m |-> [j \in 0 .. Len(s[i].lines) |-> E[i - 1] + rows[i][j]]]
<1>6. \A i \in 1 .. m : RowsAt(i, s[i], rows[i])
  <2>1. ASSUME NEW i \in 1 .. m PROVE RowsAt(i, s[i], CHOOSE off : RowsAt(i, s[i], off))
    <3>1. \E off : RowsAt(i, s[i], off)
      BY <1>1, TextAt
    <3> QED BY <3>1
  <2> QED BY <2>1
<1> HIDE DEF rows
<1>7. \A i \in 1 .. m : \A j \in 0 .. Len(s[i].lines) : L[i][j] = E[i - 1] + rows[i][j]
  OBVIOUS
<1> HIDE DEF L
<1>8. ASSUME NEW i \in 1 .. m
      PROVE  /\ \A j \in 0 .. Len(s[i].lines) : L[i][j] \in Nat
             /\ L[i][0] = E[i - 1] /\ E[i] = L[i][Len(s[i].lines)] + s[i].body
             /\ \A j \in 1 .. Len(s[i].lines) :
                  /\ L[i][j] = L[i][j - 1] + Pieces(s[i].lines[j])
                  /\ \A k \in 1 .. Pieces(s[i].lines[j]) :
                       AllText(s)[L[i][j - 1] + k] = LinePiece(i, s[i].lines[j], k)
             /\ \A k \in 1 .. s[i].body :
                  AllText(s)[L[i][Len(s[i].lines)] + k] = BodyPiece(i, k)
  <2> DEFINE r == s[i]
             n == Len(r.lines)
             off == rows[i]
             start == E[i - 1]
  <2>1. /\ n \in Nat \ {0} /\ r.body \in Nat /\ \A j \in 1 .. n : r.lines[j] \in Kinds
    BY <1>1, RequestIs
  <2>2. /\ off \in [0 .. n -> Nat] /\ off[0] = 0
        /\ Len(Text(i, r)) = off[n] + r.body
        /\ \A j \in 1 .. n :
             /\ off[j] = off[j - 1] + Pieces(r.lines[j])
             /\ \A k \in 1 .. Pieces(r.lines[j]) :
                  Text(i, r)[off[j - 1] + k] = LinePiece(i, r.lines[j], k)
        /\ \A k \in 1 .. r.body : Text(i, r)[off[n] + k] = BodyPiece(i, k)
    BY <1>6 DEF RowsAt
  <2>3. start \in Nat
    <3>1. i - 1 \in 0 .. m
      BY <1>1
    <3> QED BY <1>5, <3>1
  <2>4. E[i] = start + (off[n] + r.body)
    BY <1>5, <2>2
  <2>5. \A j \in 1 .. off[n] + r.body : AllText(s)[start + j] = Text(i, r)[j]
    BY <1>5, <2>2
  <2>6. \A j \in 0 .. n : L[i][j] = start + off[j]
    BY <1>7
  <2> HIDE DEF start, off
  <2>7. \A j \in 0 .. n : off[j] \in Nat /\ L[i][j] \in Nat
    BY <2>2, <2>3, <2>6
  <2>8. 0 \in 0 .. n /\ n \in 0 .. n /\ \A j \in 1 .. n : j \in 0 .. n /\ j - 1 \in 0 .. n
    BY <2>1
  <2>9. L[i][0] = start /\ E[i] = L[i][n] + r.body
    <3>1. off[n] \in Nat /\ L[i][n] = start + off[n] /\ L[i][0] = start + off[0]
      BY <2>6, <2>7, <2>8
    <3>2. off[0] = 0 /\ r.body \in Nat
      BY <2>1, <2>2
    <3> QED BY <2>3, <2>4, <3>1, <3>2
  <2>10. ASSUME NEW j \in 1 .. n, NEW k \in 1 .. Pieces(r.lines[j])
         PROVE  AllText(s)[L[i][j - 1] + k] = LinePiece(i, r.lines[j], k)
    <3>1. off[j - 1] + k \in 1 .. off[n] + r.body
      <4>1. \A l \in 1 .. n : off[l - 1] <= off[l]
        <5>1. \A l \in 1 .. n : Pieces(r.lines[l]) \in Nat
          BY <2>1, PiecesAre
        <5>2. \A l \in 1 .. n : off[l - 1] \in Nat /\ off[l] = off[l - 1] + Pieces(r.lines[l])
          BY <2>2, <2>7, <2>8
        <5> SUFFICES ASSUME NEW l \in 1 .. n PROVE off[l - 1] <= off[l]
          OBVIOUS
        <5>3. Pieces(r.lines[l]) \in Nat /\ off[l - 1] \in Nat
              /\ off[l] = off[l - 1] + Pieces(r.lines[l])
          BY <5>1, <5>2
        <5> QED BY <5>3
      <4>2. off[j] <= off[n]
        BY <2>1, <2>2, <2>8, <4>1, OffsetsGrow
      <4>3. off[j] = off[j - 1] + Pieces(r.lines[j]) /\ Pieces(r.lines[j]) \in Nat
            /\ off[j - 1] \in Nat /\ off[n] \in Nat
        BY <2>1, <2>2, <2>7, <2>8, PiecesAre
      <4>4. \A w \in Nat, x \in Nat, y \in Nat, z \in Nat :
              w + x <= y => \A l \in 1 .. x : w + l \in 1 .. y + z
        OBVIOUS
      <4> QED BY <2>1, <4>2, <4>3, <4>4
    <3>2. L[i][j - 1] + k = start + (off[j - 1] + k)
      <4>1. off[j - 1] \in Nat /\ L[i][j - 1] = start + off[j - 1] /\ k \in Nat
        BY <2>1, <2>6, <2>7, <2>8, PiecesAre
      <4> QED BY <2>3, <4>1
    <3> QED BY <2>2, <2>5, <3>1, <3>2
  <2>11. ASSUME NEW j \in 1 .. n PROVE L[i][j] = L[i][j - 1] + Pieces(r.lines[j])
    <3>1. off[j - 1] \in Nat /\ Pieces(r.lines[j]) \in Nat /\ off[j] = off[j - 1] + Pieces(r.lines[j])
      BY <2>1, <2>2, <2>7, <2>8, PiecesAre
    <3>2. L[i][j - 1] = start + off[j - 1] /\ L[i][j] = start + off[j]
      BY <2>6, <2>8
    <3> QED BY <2>3, <3>1, <3>2
  <2>12. ASSUME NEW k \in 1 .. r.body PROVE AllText(s)[L[i][n] + k] = BodyPiece(i, k)
    <3>1. off[n] \in Nat /\ L[i][n] = start + off[n]
      BY <2>6, <2>7, <2>8
    <3>2. L[i][n] + k = start + (off[n] + k) /\ off[n] + k \in 1 .. off[n] + r.body
      <4>1. \A x, y, z \in Nat : \A w \in 1 .. z :
              (x + y) + w = x + (y + w) /\ y + w \in 1 .. y + z
        OBVIOUS
      <4>2. r.body \in Nat /\ k \in 1 .. r.body
        BY <2>1
      <4>3. /\ (start + off[n]) + k = start + (off[n] + k)
            /\ off[n] + k \in 1 .. off[n] + r.body
        BY <2>3, <3>1, <4>1, <4>2
      <4> QED BY <3>1, <4>3
    <3> QED BY <2>2, <2>5, <3>2
  <2> QED BY <2>7, <2>9, <2>10, <2>11, <2>12 DEF start
<1>9. Ends(s, E)
  BY <1>5 DEF Ends
<1>10. LineEnds(s, E, L)
  BY <1>8 DEF LineEnds
<1>11. LinePieces(s, L)
  BY <1>8 DEF LinePieces
<1>12. BodyPieces(s, L)
  BY <1>8 DEF BodyPieces
<1> QED BY <1>9, <1>10, <1>11, <1>12 DEF Layout

\* Every place of the text is in a line or a body.
LEMMA Covered ==
  ASSUME NEW s \in Seq(Requests), NEW E, NEW L, Layout(s, E, L), NEW p \in 1 .. Len(AllText(s))
  PROVE  \E i \in 1 .. Len(s) :
           \/ \E j \in 1 .. Len(s[i].lines) : \E k \in 1 .. Pieces(s[i].lines[j]) : p = L[i][j - 1] + k
           \/ \E k \in 1 .. s[i].body : p = L[i][Len(s[i].lines)] + k
<1>1. Len(s) \in Nat /\ \A i \in 1 .. Len(s) : s[i] \in Requests
  BY LenProperties, ElementOfSeq
<1>2. E \in [0 .. Len(s) -> Nat] /\ E[0] = 0 /\ p \in 1 .. E[Len(s)]
  BY DEF Layout, Ends
<1>3. PICK i \in 1 .. Len(s) : E[i - 1] < p /\ p <= E[i]
  BY <1>1, <1>2, PlaceIn
<1> DEFINE r == s[i]
           n == Len(r.lines)
<1>4. n \in Nat \ {0} /\ r.body \in Nat /\ \A j \in 1 .. n : r.lines[j] \in Kinds
  BY <1>1, RequestIs
<1>5. /\ \A j \in 0 .. n : L[i][j] \in Nat
      /\ L[i][0] = E[i - 1] /\ E[i] = L[i][n] + r.body
      /\ \A j \in 1 .. n : L[i][j] = L[i][j - 1] + Pieces(r.lines[j])
  BY DEF Layout, LineEnds
<1>6. n \in 0 .. n /\ 0 \in 0 .. n /\ \A j \in 1 .. n : j \in 0 .. n /\ j - 1 \in 0 .. n
  BY <1>4
<1>7. CASE p > L[i][n]
  <2>1. L[i][n] \in Nat /\ p \in Nat /\ p <= L[i][n] + r.body
    BY <1>2, <1>3, <1>5, <1>6
  <2>2. p - L[i][n] \in 1 .. r.body /\ p = L[i][n] + (p - L[i][n])
    <3>1. \A x, y, z \in Nat : x > y /\ x <= y + z => x - y \in 1 .. z /\ x = y + (x - y)
      OBVIOUS
    <3> QED BY <1>4, <1>7, <2>1, <3>1
  <2> QED BY <2>2
<1>8. CASE ~ (p > L[i][n])
  <2> DEFINE T == {j \in 0 .. n : p <= L[i][j]}
  <2>1. n \in T /\ T \in SUBSET Nat
    <3>1. p \in Nat /\ L[i][n] \in Nat
      BY <1>2, <1>5, <1>6
    <3>2. p <= L[i][n]
      BY <1>8, <3>1
    <3> QED BY <1>6, <3>2
  <2>2. PICK j \in T : \A k \in T : j <= k
    <3> HIDE DEF T
    <3> QED BY <2>1, LowestOf
  <2>3. j # 0
    BY <1>2, <1>3, <1>5, <1>6, <2>2
  <2>4. j \in 1 .. n /\ j - 1 \in 0 .. n /\ ~ (j <= j - 1)
    BY <1>4, <2>2, <2>3
  <2>5. ~ (p <= L[i][j - 1])
    BY <2>2, <2>4
  <2>6. L[i][j] = L[i][j - 1] + Pieces(r.lines[j]) /\ L[i][j - 1] \in Nat
        /\ Pieces(r.lines[j]) \in Nat /\ p <= L[i][j] /\ p \in Nat
    <3>1. L[i][j] = L[i][j - 1] + Pieces(r.lines[j]) /\ L[i][j - 1] \in Nat
      BY <1>5, <2>4
    <3>2. Pieces(r.lines[j]) \in Nat
      BY <1>4, <2>4, PiecesAre
    <3>3. p <= L[i][j] /\ p \in Nat
      BY <1>2, <2>2
    <3> QED BY <3>1, <3>2, <3>3
  <2>7. p - L[i][j - 1] \in 1 .. Pieces(r.lines[j]) /\ p = L[i][j - 1] + (p - L[i][j - 1])
    <3>1. \A x, y, z \in Nat : ~ (x <= y) /\ x <= y + z => x - y \in 1 .. z /\ x = y + (x - y)
      OBVIOUS
    <3> QED BY <2>5, <2>6, <3>1
  <2> QED BY <2>4, <2>7
<1> QED BY <1>7, <1>8

-----------------------------------------------------------------------------
(* Where the server is in the text.                                         *)

\* The first p pieces have been read or thrown away.
IsRead(p) ==
  /\ p \in Nat /\ p + (Len(buf) + Len(wire)) = Len(AllText(sent))
  /\ \A k \in 1 .. Len(buf) : buf[k] = AllText(sent)[p + k]
  /\ \A k \in 1 .. Len(wire) : wire[k] = AllText(sent)[(p + Len(buf)) + k]

LEMMA InitRead == Init => IsRead(0)
<1> SUFFICES ASSUME Init PROVE IsRead(0)
  OBVIOUS
<1>1. wire = AllText(sent) /\ buf = <<>>
  BY DEF Init, AllText
<1>2. wire \in Seq(Piece)
  BY InitTypes DEF TypeInv, TextInv
<1>3. Len(wire) \in Nat /\ Len(buf) = 0
  BY <1>1, <1>2, LenProperties
<1> QED BY <1>1, <1>3 DEF IsRead

\* More is received.
LEMMA ReceivedRead ==
  ASSUME TextInv, HandleReadData, NEW p, IsRead(p) PROVE IsRead(p)'
<1>1. PICK n \in 1 .. Len(wire) :
        buf' = buf \o SubSeq(wire, 1, n) /\ wire' = SubSeq(wire, n + 1, Len(wire))
  BY DEF HandleReadData
<1>2. Len(wire) \in Nat /\ Len(buf) \in Nat /\ wire \in Seq(Piece) /\ buf \in Seq(Piece)
  BY LenProperties DEF TextInv
<1> DEFINE front == SubSeq(wire, 1, n)
           back == SubSeq(wire, n + 1, Len(wire))
<1>3. PICK one \in Nat \ {0} : one = 1
  OBVIOUS
<1>4. n \in Nat /\ n + 1 \in Nat \ {0} /\ n <= Len(wire) /\ Len(wire) <= Len(wire)
  BY <1>2
<1>5. /\ SubSeq(wire, one, n) \in Seq(Piece)
      /\ Len(SubSeq(wire, one, n)) = IF one <= n THEN n - one + 1 ELSE 0
      /\ \A i \in 1 .. n - one + 1 : SubSeq(wire, one, n)[i] = wire[one + i - 1]
  BY <1>2, <1>4, Cut
<1>6. front \in Seq(Piece) /\ Len(front) = n /\ \A i \in 1 .. n : front[i] = wire[i]
  BY <1>3, <1>4, <1>5
<1>7. /\ back \in Seq(Piece)
      /\ Len(back) = IF n + 1 <= Len(wire) THEN Len(wire) - (n + 1) + 1 ELSE 0
      /\ \A i \in 1 .. Len(wire) - (n + 1) + 1 : back[i] = wire[(n + 1) + i - 1]
  BY <1>2, <1>4, Cut
<1>8. Len(back) = Len(wire) - n /\ \A i \in 1 .. Len(back) : back[i] = wire[n + i]
  BY <1>2, <1>4, <1>7
<1> HIDE DEF front, back
<1>9. /\ Len(buf') = Len(buf) + n
      /\ \A k \in 1 .. Len(buf) : buf'[k] = buf[k]
      /\ \A k \in 1 .. n : buf'[Len(buf) + k] = front[k]
  BY <1>1, <1>2, <1>6, ConcatProperties DEF front
<1>10. wire' = back /\ Len(wire') = Len(wire) - n
  BY <1>1, <1>8 DEF back
<1>11. AllText(sent)' = AllText(sent)
  BY DEF HandleReadData, world, AllText
<1>12. p \in Nat /\ p + (Len(buf') + Len(wire')) = Len(AllText(sent))
  <2>1. p \in Nat /\ p + (Len(buf) + Len(wire)) = Len(AllText(sent))
    BY DEF IsRead
  <2>2. Len(buf') + Len(wire') = Len(buf) + Len(wire)
    BY <1>2, <1>4, <1>9, <1>10
  <2> QED BY <2>1, <2>2
<1>13. ASSUME NEW k \in 1 .. Len(buf') PROVE buf'[k] = AllText(sent)[p + k]
  <2>1. CASE k \in 1 .. Len(buf)
    BY <1>9, <2>1 DEF IsRead
  <2>2. CASE k \notin 1 .. Len(buf)
    <3>1. k - Len(buf) \in 1 .. n /\ k - Len(buf) \in 1 .. Len(wire)
          /\ k = Len(buf) + (k - Len(buf))
          /\ (p + Len(buf)) + (k - Len(buf)) = p + k
      BY <1>2, <1>4, <1>9, <1>12, <2>2
    <3>2. buf'[Len(buf) + (k - Len(buf))] = wire[k - Len(buf)]
      BY <1>6, <1>9, <3>1
    <3>3. wire[k - Len(buf)] = AllText(sent)[(p + Len(buf)) + (k - Len(buf))]
      BY <3>1 DEF IsRead
    <3> QED BY <3>1, <3>2, <3>3
  <2> QED BY <2>1, <2>2
<1>14. ASSUME NEW k \in 1 .. Len(wire') PROVE wire'[k] = AllText(sent)[(p + Len(buf')) + k]
  <2>1. wire'[k] = wire[n + k] /\ n + k \in 1 .. Len(wire)
    BY <1>2, <1>4, <1>8, <1>10
  <2>2. (p + Len(buf)) + (n + k) = (p + Len(buf')) + k
    BY <1>2, <1>4, <1>9, <1>10, <1>12
  <2> QED BY <2>1, <2>2 DEF IsRead
<1> QED BY <1>11, <1>12, <1>13, <1>14 DEF IsRead

\* n pieces of the buffer go.
LEMMA RestRead ==
  ASSUME TextInv, NEW p, IsRead(p), NEW n \in Nat, n <= Len(buf), buf' = Rest(n),
         UNCHANGED <<sent, wire>>
  PROVE  IsRead(p + n)'
<1>1. Len(wire) \in Nat /\ Len(buf) \in Nat /\ buf \in Seq(Piece) /\ p \in Nat
  BY LenProperties DEF TextInv, IsRead
<1>2. n + 1 \in Nat \ {0} /\ Len(buf) <= Len(buf)
  BY <1>1
<1>3. /\ Len(buf') = IF n + 1 <= Len(buf) THEN Len(buf) - (n + 1) + 1 ELSE 0
      /\ \A i \in 1 .. Len(buf) - (n + 1) + 1 : buf'[i] = buf[(n + 1) + i - 1]
  BY <1>1, <1>2, Cut DEF Rest
<1>4. Len(buf') = Len(buf) - n /\ \A i \in 1 .. Len(buf') : buf'[i] = buf[n + i]
  BY <1>1, <1>2, <1>3
<1>5. p + n \in Nat /\ (p + n) + (Len(buf') + Len(wire')) = Len(AllText(sent))
      /\ (p + n) + Len(buf') = p + Len(buf)
  <2>1. p + (Len(buf) + Len(wire)) = Len(AllText(sent)) /\ wire' = wire
    BY DEF IsRead
  <2>2. n + Len(buf') = Len(buf) /\ Len(buf') \in Nat
    BY <1>1, <1>4
  <2> QED BY <1>1, <2>1, <2>2
<1>6. ASSUME NEW k \in 1 .. Len(buf') PROVE buf'[k] = AllText(sent)[(p + n) + k]
  <2>1. n + k \in 1 .. Len(buf) /\ p + (n + k) = (p + n) + k
    BY <1>1, <1>4
  <2> QED BY <1>4, <2>1 DEF IsRead
<1>7. AllText(sent)' = AllText(sent)
  BY DEF AllText
<1>8. \A k \in 1 .. Len(wire') : wire'[k] = AllText(sent)[((p + n) + Len(buf')) + k]
  BY <1>5 DEF IsRead
<1> QED BY <1>5, <1>6, <1>7, <1>8 DEF IsRead

\* What is buffered, when the j-th line of the i-th request is next.
LineIsNext(L, p, i, j) ==
  i \in 1 .. Len(sent) /\ j \in 1 .. Len(sent[i].lines) /\ p = L[i][j - 1]

LEMMA NextLine ==
  ASSUME WorldInv, TextInv, NEW E, NEW L, Layout(sent, E, L), NEW p, IsRead(p),
         NEW i, NEW j, LineIsNext(L, p, i, j)
  PROVE  /\ sent[i].lines[j] \in Kinds /\ Pieces(sent[i].lines[j]) \in Nat \ {0}
         /\ L[i][j] = p + Pieces(sent[i].lines[j])
         /\ HasLine => /\ LineEnd = Pieces(sent[i].lines[j])
                       /\ KindOf(buf) = sent[i].lines[j] /\ buf[1].req = i
         /\ ~ HasLine => Len(buf) < Pieces(sent[i].lines[j])
<1> DEFINE kind == sent[i].lines[j]
           n == Pieces(kind)
           b == Len(buf)
<1>1. i \in 1 .. Len(sent) /\ j \in 1 .. Len(sent[i].lines) /\ p = L[i][j - 1] /\ p \in Nat
  BY DEF LineIsNext, IsRead
<1>2. sent[i] \in Requests
  BY <1>1, ElementOfSeq DEF WorldInv
<1>3. kind \in Kinds
  BY <1>1, <1>2, RequestIs
<1>4. n \in Nat \ {0} /\ b \in Nat
  BY <1>3, PiecesAre, LenProperties DEF TextInv
<1>5. L[i][j] = p + n
  BY <1>1 DEF Layout, LineEnds
<1>6. \A k \in 1 .. n : AllText(sent)[p + k] = LinePiece(i, kind, k)
  BY <1>1 DEF Layout, LinePieces
<1> HIDE DEF n, kind, b
<1>7. ASSUME NEW k \in 1 .. b, k <= n PROVE buf[k] = LinePiece(i, kind, k)
  <2>1. k \in 1 .. n
    BY <1>4, <1>7
  <2> QED BY <1>6, <2>1 DEF IsRead, b
<1>8. ASSUME NEW k \in 1 .. b, k <= n PROVE buf[k].newline <=> k = n
  <2>1. buf[k] = LinePiece(i, kind, k)
    BY <1>7, <1>8
  <2>2. LinePiece(i, kind, k).newline = (k = Pieces(kind))
    BY Zenon DEF LinePiece
  <2>3. buf[k].newline = (k = n)
    BY <2>1, <2>2, Zenon DEF n
  <2> QED BY <2>3, Zenon
<1>9. Newlines \subseteq 1 .. b /\ \A k \in 1 .. b : k \in Newlines <=> buf[k].newline
  BY DEF Newlines, b
<1>10. ASSUME HasLine PROVE LineEnd = n /\ KindOf(buf) = kind /\ buf[1].req = i
  <2>1. PICK k \in Newlines : TRUE
    BY <1>10 DEF HasLine
  <2>2. k \in 1 .. b /\ k >= n
    BY <1>4, <1>8, <1>9, <2>1
  <2>3. n \in 1 .. b /\ n <= n /\ 1 \in 1 .. b /\ 1 <= n
    BY <1>4, <2>2
  <2>4. n \in Newlines
    BY <1>8, <1>9, <2>3
  <2>5. \A l \in Newlines : n <= l
    <3>1. ASSUME NEW l \in Newlines, ~ (n <= l) PROVE FALSE
      <4>1. l \in 1 .. b /\ l <= n /\ l # n
        BY <1>4, <1>9, <3>1
      <4> QED BY <1>8, <1>9, <4>1
    <3> QED BY <3>1
  <2>6. LineEnd = n
    <3>1. LineEnd \in Newlines /\ \A l \in Newlines : LineEnd <= l
      <4>1. \E m \in Newlines : \A l \in Newlines : m <= l
        BY <2>4, <2>5
      <4> QED BY <4>1 DEF LineEnd
    <3>2. LineEnd <= n /\ n <= LineEnd /\ LineEnd \in Nat
      BY <1>9, <2>4, <2>5, <3>1
    <3> QED BY <1>4, <3>2
  <2>7. buf[1] = LinePiece(i, kind, 1)
    BY <1>7, <2>3
  <2>8. kind # "body"
    BY <1>3 DEF Kinds
  <2> QED BY <2>6, <2>7, <2>8 DEF KindOf, LinePiece
<1>11. ASSUME ~ HasLine PROVE b < n
  <2> SUFFICES ASSUME ~ (b < n) PROVE FALSE
    OBVIOUS
  <2>1. n \in 1 .. b /\ n <= n
    BY <1>4
  <2> QED BY <1>8, <1>9, <1>11, <2>1 DEF HasLine
<1> QED BY <1>3, <1>4, <1>5, <1>10, <1>11 DEF n, kind, b

\* A request line that is next is the first line of its request.
LEMMA RequestLine ==
  ASSUME WorldInv, TextInv, NEW E, NEW L, Layout(sent, E, L), NEW p, IsRead(p),
         HasLine, KindOf(buf) = "request"
  PROVE  LineIsNext(L, p, buf[1].req, 1) /\ sent[buf[1].req].lines[1] = "request"
<1>1. Len(buf) \in Nat /\ Len(wire) \in Nat /\ p \in Nat /\ Len(buf) # 0
  <2>1. LineEnd \in 1 .. Len(buf)
    BY LineIs
  <2> QED BY <2>1, LenProperties DEF TextInv, IsRead
<1>2. p + 1 \in 1 .. Len(AllText(sent)) /\ buf[1] = AllText(sent)[p + 1]
  BY <1>1 DEF IsRead
<1>3. buf[1].at = 1 /\ buf[1].kind = "request"
  <2>1. "mangled" # "request"
    OBVIOUS
  <2> QED BY <2>1 DEF KindOf
<1>4. sent \in Seq(Requests)
  BY DEF WorldInv
<1>5. PICK i \in 1 .. Len(sent) :
        \/ \E j \in 1 .. Len(sent[i].lines) : \E k \in 1 .. Pieces(sent[i].lines[j]) :
             p + 1 = L[i][j - 1] + k
        \/ \E k \in 1 .. sent[i].body : p + 1 = L[i][Len(sent[i].lines)] + k
  BY <1>2, <1>4, Covered
<1>6. sent[i] \in Requests
  BY <1>4, ElementOfSeq
<1>7. CASE \E k \in 1 .. sent[i].body : p + 1 = L[i][Len(sent[i].lines)] + k
  <2>1. PICK k \in 1 .. sent[i].body : p + 1 = L[i][Len(sent[i].lines)] + k
    BY <1>7
  <2>2. buf[1] = BodyPiece(i, k)
    BY <1>2, <2>1 DEF Layout, BodyPieces
  <2> QED BY <1>3, <2>2 DEF BodyPiece
<1>8. CASE \E j \in 1 .. Len(sent[i].lines) : \E k \in 1 .. Pieces(sent[i].lines[j]) :
             p + 1 = L[i][j - 1] + k
  <2>0. PICK j \in 1 .. Len(sent[i].lines) :
          \E k \in 1 .. Pieces(sent[i].lines[j]) : p + 1 = L[i][j - 1] + k
    BY <1>8
  <2>1. PICK k \in 1 .. Pieces(sent[i].lines[j]) : p + 1 = L[i][j - 1] + k
    BY <2>0
  <2>2. buf[1] = LinePiece(i, sent[i].lines[j], k)
    BY <1>2, <2>1 DEF Layout, LinePieces
  <2>3. k = 1 /\ sent[i].lines[j] = "request" /\ buf[1].req = i
    BY <1>3, <2>2 DEF LinePiece
  <2>4. j = 1
    BY <1>6, <2>1, <2>3, RequestIs DEF Framed
  <2>5. L[i][j - 1] \in Nat
    <3>1. Len(sent[i].lines) \in Nat
      BY <1>6, RequestIs
    <3>2. j - 1 \in 0 .. Len(sent[i].lines)
      BY <2>1, <3>1
    <3> QED BY <3>2 DEF Layout, LineEnds
  <2>6. p = L[i][j - 1]
    BY <1>1, <2>1, <2>3, <2>5
  <2> QED BY <2>1, <2>3, <2>4, <2>6 DEF LineIsNext
<1> QED BY <1>5, <1>7, <1>8

-----------------------------------------------------------------------------
(* How far the context is with the request it has.                          *)

\* The first j lines of a request are those of one that is well-formed.
Begun(r, j) ==
  /\ r.lines[1] = "request" /\ Params(r.query).good
  /\ \A m \in 2 .. j : r.lines[m] \in {"keep-alive", "length"}
Heads(r, j) == {r.lines[m] : m \in 2 .. j}

LEMMA GoodIs ==
  ASSUME NEW r \in Requests
  PROVE  Params(r.query).good <=>
           (r.query # <<>> =>
              \A k \in 1 .. Len(SplitString(r.query, Ampersand)) :
                Equals \in ToSet(SplitString(r.query, Ampersand)[k]))
<1> DEFINE split == SplitString(r.query, Ampersand)
           parts == IF r.query = <<>> THEN <<>> ELSE split
           bad == {k \in 1 .. Len(parts) : {p \in 1 .. Len(parts[k]) : parts[k][p] = Equals} = {}}
<1>1. Params(r.query).good = (bad = {})
  BY Zenon DEF Params
<1>2. split \in Seq(Seq(Byte))
  BY RequestIs, SplitParts
<1>3. CASE r.query = <<>>
  <2>1. Len(parts) = 0
    BY <1>3
  <2>2. bad = {}
    <3> HIDE DEF parts
    <3> QED BY <2>1
  <2> QED BY <1>1, <1>3, <2>2, Zenon
<1>4. CASE r.query # <<>>
  <2>1. parts = split
    BY <1>4
  <2> HIDE DEF parts, split
  <2>2. \A k \in 1 .. Len(split) :
          {p \in 1 .. Len(split[k]) : split[k][p] = Equals} = {} <=> Equals \notin ToSet(split[k])
    <3> TAKE k \in 1 .. Len(split)
    <3>1. split[k] \in Seq(Byte)
      BY <1>2, ElementOfSeq
    <3>2. DOMAIN split[k] = 1 .. Len(split[k])
      BY <3>1
    <3> QED BY <3>2 DEF ToSet
  <2>3. bad \subseteq 1 .. Len(split) /\ \A k \in 1 .. Len(split) :
          k \in bad <=> {p \in 1 .. Len(split[k]) : split[k][p] = Equals} = {}
    BY <2>1
  <2> HIDE DEF bad
  <2>4. bad = {} <=> \A k \in 1 .. Len(split) : Equals \in ToSet(split[k])
    BY <2>2, <2>3
  <2>5. Params(r.query).good <=> \A k \in 1 .. Len(split) : Equals \in ToSet(split[k])
    BY <1>1, <2>4, Zenon
  <2> QED BY <1>4, <2>5, Zenon DEF split
<1> QED BY <1>3, <1>4

LEMMA WellFormedIs ==
  ASSUME NEW r \in Requests
  PROVE  WellFormed(r) <=> Begun(r, Len(r.lines) - 1)
<1> DEFINE good == Params(r.query).good
           asks == r.query # <<>> =>
                     \A k \in 1 .. Len(SplitString(r.query, Ampersand)) :
                       Equals \in ToSet(SplitString(r.query, Ampersand)[k])
<1>1. good <=> asks
  BY GoodIs
<1>2. Len(r.lines) \in Nat \ {0} /\ Framed(r.lines)
  BY RequestIs
<1>3. Len(r.lines) > 0 /\ Last(r.lines) = "empty"
  BY <1>2 DEF Framed, Last
<1>4. WellFormed(r) <=> /\ r.lines[1] = "request"
                        /\ \A k \in 2 .. Len(r.lines) - 1 : r.lines[k] \in {"keep-alive", "length"}
                        /\ asks
  BY <1>3, Zenon DEF WellFormed
<1>5. Begun(r, Len(r.lines) - 1) <=>
        /\ r.lines[1] = "request" /\ good
        /\ \A k \in 2 .. Len(r.lines) - 1 : r.lines[k] \in {"keep-alive", "length"}
  BY Zenon DEF Begun
<1> HIDE DEF good, asks
<1> QED BY <1>1, <1>4, <1>5, Zenon

\* A request with a bad line is not well-formed.
LEMMA BadLine ==
  ASSUME NEW r \in Requests, NEW j \in 1 .. Len(r.lines),
         IF j = 1 THEN r.lines[j] # "request"
                  ELSE r.lines[j] \notin {"keep-alive", "length", "empty"}
  PROVE  ~ WellFormed(r)
<1>1. Len(r.lines) \in Nat \ {0} /\ (j = Len(r.lines) => r.lines[j] = "empty")
  BY RequestIs DEF Framed
<1>2. CASE j = 1
  BY <1>2, WellFormedIs DEF Begun
<1>3. CASE j # 1
  <2>1. j \in 2 .. Len(r.lines) - 1
    BY <1>1, <1>3
  <2> QED BY <1>3, <2>1, WellFormedIs DEF Begun
<1> QED BY <1>2, <1>3

\* What the context c, after p pieces, has of its request.
Requested(s, c) ==
  /\ c.req \in 1 .. Len(s)
  /\ c.path = UrlDecode(s[c.req].target, FALSE) /\ c.params = Params(s[c.req].query).kv
InHead(s, c, L, p) ==
  \E j \in 1 .. Len(s[c.req].lines) - 1 :
    p = L[c.req][j] /\ Begun(s[c.req], j) /\ c.heads = Heads(s[c.req], j)
InBody(s, c, L, p) ==
  LET r == s[c.req]
      n == Len(r.lines)
  IN /\ Begun(r, n - 1) /\ c.heads = Heads(r, n - 1)
     /\ Len(c.body) <= r.body /\ p = L[c.req][n] + Len(c.body)
     /\ \A k \in 1 .. Len(c.body) : c.body[k] = BodyPiece(c.req, k)
IsAt(s, c, L, p) ==
  /\ c.recv \in {"head", "body", "over"} => Requested(s, c)
  /\ c.recv = "head" => InHead(s, c, L, p)
  /\ c.recv \in {"body", "over"} => InBody(s, c, L, p)
  /\ c.recv = "over" => Len(c.body) = s[c.req].body
  /\ c.resp >= 400 => c.recv = "error"

\* After n - 1 answers, it is the n-th request's turn, if those before are well-formed.
Turn(s, n) == n \in 1 .. Len(s) /\ \A k \in 1 .. n - 1 : WellFormed(s[k])
InTurn(s, c, n, L, p) ==
  Turn(s, n) =>
    /\ c.recv = "line" => p = L[n][0]
    /\ c.recv \in {"head", "body", "over"} => c.req = n
    /\ c.recv = "error" => ~ WellFormed(s[n])

\* The line that is next.
LEMMA UpcomingHead ==
  ASSUME WorldInv, NEW L, NEW p, IsAt(sent, ctx, L, p), ctx.recv = "head"
  PROVE  \E j \in 1 .. Len(sent[ctx.req].lines) - 1 :
           /\ LineIsNext(L, p, ctx.req, j + 1) /\ j + 1 # 1
           /\ Begun(sent[ctx.req], j) /\ ctx.heads = Heads(sent[ctx.req], j)
<1>1. ctx.req \in 1 .. Len(sent)
  BY DEF IsAt, Requested
<1>2. sent[ctx.req] \in Requests
  BY <1>1, ElementOfSeq DEF WorldInv
<1>3. PICK j \in 1 .. Len(sent[ctx.req].lines) - 1 :
        p = L[ctx.req][j] /\ Begun(sent[ctx.req], j) /\ ctx.heads = Heads(sent[ctx.req], j)
  BY DEF IsAt, InHead
<1>4. Len(sent[ctx.req].lines) \in Nat
  BY <1>2, RequestIs
<1>5. j + 1 \in 1 .. Len(sent[ctx.req].lines) /\ (j + 1) - 1 = j /\ j + 1 # 1
  BY <1>4
<1>6. LineIsNext(L, p, ctx.req, j + 1)
  BY <1>1, <1>3, <1>5 DEF LineIsNext
<1> QED BY <1>3, <1>5, <1>6

LEMMA UpcomingLine ==
  ASSUME WorldInv, NEW L, NEW p, NEW n, InTurn(sent, ctx, n, L, p), Turn(sent, n),
         ctx.recv = "line"
  PROVE  LineIsNext(L, p, n, 1)
<1>1. n \in 1 .. Len(sent) /\ p = L[n][0]
  BY DEF InTurn, Turn
<1>2. sent[n] \in Requests
  BY <1>1, ElementOfSeq DEF WorldInv
<1>3. Len(sent[n].lines) \in Nat \ {0}
  BY <1>2, RequestIs
<1>4. 1 \in 1 .. Len(sent[n].lines) /\ 1 - 1 = 0
  BY <1>3
<1> QED BY <1>1, <1>4 DEF LineIsNext

\* A failure is for a line that makes the request a bad one.
LEMMA FailsInTurn ==
  ASSUME WorldInv, CtxInv, NEW L, NEW p, NEW n, NEW code \in {400, 414}, Fail(code),
         ctx.recv \in {"line", "head"},
         IsAt(sent, ctx, L, p), InTurn(sent, ctx, n, L, p),
         \A i, j : LineIsNext(L, p, i, j) /\ (j = 1 <=> ctx.recv = "line") => ~ WellFormed(sent[i])
  PROVE  \A q : IsAt(sent, ctx', L, q) /\ InTurn(sent, ctx', n, L, q)
<1>1. IsCtx(ctx', "error", code, ctx.req, ctx.path, ctx.params, ctx.heads, ctx.body)
  BY FailIs
<1>2. ctx'.recv = "error"
  BY <1>1 DEF IsCtx
<1>3. ASSUME Turn(sent, n) PROVE ~ WellFormed(sent[n])
  <2>1. CASE ctx.recv = "line"
    <3>1. LineIsNext(L, p, n, 1)
      BY <1>3, <2>1, UpcomingLine
    <3> QED BY <2>1, <3>1
  <2>2. CASE ctx.recv = "head"
    <3>1. PICK j \in 1 .. Len(sent[ctx.req].lines) - 1 :
            LineIsNext(L, p, ctx.req, j + 1) /\ j + 1 # 1
      BY <2>2, UpcomingHead
    <3>2. ctx.req = n
      BY <1>3, <2>2 DEF InTurn
    <3> QED BY <2>2, <3>1, <3>2
  <2> QED BY <2>1, <2>2
<1> QED BY <1>2, <1>3 DEF IsAt, InTurn

LEMMA LongLine ==
  ASSUME WorldInv, NEW L, NEW p, NEW i, NEW j, LineIsNext(L, p, i, j),
         Pieces(sent[i].lines[j]) > MaxLine
  PROVE  ~ WellFormed(sent[i])
<1>1. i \in 1 .. Len(sent) /\ j \in 1 .. Len(sent[i].lines)
  BY DEF LineIsNext
<1>2. sent[i] \in Requests
  BY <1>1, ElementOfSeq DEF WorldInv
<1>3. sent[i].lines[j] = "long"
  <2>1. MaxLine \in Nat \ {0, 1} /\ ~ (1 > MaxLine) /\ ~ (2 > MaxLine)
    BY HttpAssumption
  <2>2. \A kind : kind # "long" => Pieces(kind) = 1 \/ Pieces(kind) = 2
    BY DEF Pieces
  <2> QED BY <2>1, <2>2
<1> QED BY <1>1, <1>2, <1>3, BadLine

LEMMA NeedsMoreInTurn ==
  ASSUME WorldInv, TextInv, CtxInv, NEW E, NEW L, Layout(sent, E, L), NEW p, IsRead(p), NEW n,
         IsAt(sent, ctx, L, p), InTurn(sent, ctx, n, L, p), NeedsMore
  PROVE  IsAt(sent, ctx', L, p) /\ InTurn(sent, ctx', n, L, p)
<1>1. ctx.recv \in {"line", "head"} /\ ~ HasLine /\ (IF Len(buf) > MaxLine THEN Fail(414) ELSE ctx' = ctx)
  BY DEF NeedsMore
<1>2. CASE Len(buf) > MaxLine
  <2>1. ASSUME NEW i, NEW j, LineIsNext(L, p, i, j) PROVE ~ WellFormed(sent[i])
    <3>1. Len(buf) < Pieces(sent[i].lines[j]) /\ Pieces(sent[i].lines[j]) \in Nat
      BY <1>1, <2>1, NextLine
    <3>2. Len(buf) \in Nat /\ MaxLine \in Nat
      BY LenProperties, HttpAssumption DEF TextInv
    <3>3. Pieces(sent[i].lines[j]) > MaxLine
      BY <1>2, <3>1, <3>2
    <3> QED BY <2>1, <3>3, LongLine
  <2> QED BY <1>1, <1>2, <2>1, FailsInTurn
<1>3. CASE ~ (Len(buf) > MaxLine)
  BY <1>1, <1>3
<1> QED BY <1>2, <1>3

LEMMA LineTooLongInTurn ==
  ASSUME WorldInv, TextInv, CtxInv, NEW E, NEW L, Layout(sent, E, L), NEW p, IsRead(p), NEW n,
         IsAt(sent, ctx, L, p), InTurn(sent, ctx, n, L, p), LineTooLong
  PROVE  \A q : IsAt(sent, ctx', L, q) /\ InTurn(sent, ctx', n, L, q)
<1>1. ctx.recv \in {"line", "head"} /\ HasLine /\ LineEnd > MaxLine /\ Fail(414)
  BY DEF LineTooLong
<1>2. ASSUME NEW i, NEW j, LineIsNext(L, p, i, j) PROVE ~ WellFormed(sent[i])
  <2>1. LineEnd = Pieces(sent[i].lines[j])
    BY <1>1, <1>2, NextLine
  <2> QED BY <1>1, <1>2, <2>1, LongLine
<1> QED BY <1>1, <1>2, FailsInTurn

\* The request line, of whichever request.
LEMMA LineInTurn ==
  ASSUME WorldInv, TextInv, CtxInv, NEW E, NEW L, Layout(sent, E, L), NEW p, IsRead(p), NEW n,
         IsAt(sent, ctx, L, p), InTurn(sent, ctx, n, L, p), RecvHttpLine
  PROVE  IsAt(sent, ctx', L, p + LineEnd) /\ InTurn(sent, ctx', n, L, p + LineEnd)
<1>1. ctx.recv = "line" /\ HasLine
      /\ (IF KindOf(buf) = "request" THEN ctx' = ParseHttpLine(buf[1].req) ELSE Fail(400))
  BY DEF RecvHttpLine
<1>2. CASE KindOf(buf) # "request"
  <2>1. ASSUME NEW i, NEW j, LineIsNext(L, p, i, j), j = 1 <=> ctx.recv = "line"
        PROVE  ~ WellFormed(sent[i])
    <3>1. KindOf(buf) = sent[i].lines[j] /\ j = 1
      BY <1>1, <2>1, NextLine
    <3>2. i \in 1 .. Len(sent) /\ j \in 1 .. Len(sent[i].lines)
      BY <2>1 DEF LineIsNext
    <3>3. sent[i] \in Requests
      BY <3>2, ElementOfSeq DEF WorldInv
    <3> QED BY <1>2, <3>1, <3>2, <3>3, BadLine
  <2>2. Fail(400)
    BY <1>1, <1>2
  <2> QED BY <1>1, <2>1, <2>2, FailsInTurn
<1>3. CASE KindOf(buf) = "request"
  <2> DEFINE i == buf[1].req
             r == sent[i]
             q == p + LineEnd
  <2>1. LineIsNext(L, p, i, 1) /\ r.lines[1] = "request"
    BY <1>1, <1>3, RequestLine
  <2>2. LineEnd = Pieces(r.lines[1]) /\ L[i][1] = p + Pieces(r.lines[1])
    BY <1>1, <2>1, NextLine
  <2>3. i \in 1 .. Len(sent) /\ 1 \in 1 .. Len(r.lines)
    BY <2>1 DEF LineIsNext
  <2>4. r \in Requests
    BY <2>3, ElementOfSeq DEF WorldInv
  <2>5. 1 \in 1 .. Len(r.lines) - 1
    <3>1. Len(r.lines) \in Nat \ {0} /\ \A k \in 1 .. Len(r.lines) : r.lines[k] = "empty" <=> k = Len(r.lines)
      <4> HIDE DEF r
      <4> QED BY <2>4, RequestIs DEF Framed
    <3>2. r.lines[1] # "empty"
      <4> HIDE DEF r
      <4> QED BY <2>1
    <3>3. Len(r.lines) # 1
      <4> HIDE DEF r
      <4> QED BY <2>3, <3>1, <3>2
    <3>4. \A m \in Nat \ {0} : m # 1 => 1 \in 1 .. m - 1
      OBVIOUS
    <3> HIDE DEF r
    <3> QED BY <3>1, <3>3, <3>4, Zenon
  <2>6. ctx.heads = {} /\ Heads(r, 1) = {}
    BY <1>1 DEF CtxInv, Heads
  <2>7. ctx.resp < 400
    <3>1. ~ (ctx.resp >= 400) /\ ctx.resp \in {200, 400, 414}
      BY <1>1 DEF IsAt, CtxInv
    <3> QED BY <3>1
  <2>8. ASSUME Turn(sent, n) PROVE i = n
    <3>1. LineIsNext(L, p, n, 1)
      BY <1>1, <2>8, UpcomingLine
    <3> QED BY <1>1, <3>1, NextLine
  <2> DEFINE u == UrlDecode(r.target, FALSE)
             kv == Params(r.query).kv
             good == Params(r.query).good
  <2>9. \/ good /\ IsCtx(ctx', "head", ctx.resp, i, u, kv, ctx.heads, ctx.body)
        \/ ~ good /\ IsCtx(ctx', "error", 400, i, u, kv, ctx.heads, ctx.body)
    <3>1. ctx' = ParseHttpLine(i)
      BY <1>1, <1>3
    <3> HIDE DEF i
    <3> QED BY <3>1, ParseIs
  <2>10. q = L[i][1]
    BY <2>2
  <2> HIDE DEF i, r, u, kv, good, q
  <2>11. CASE good /\ IsCtx(ctx', "head", ctx.resp, i, u, kv, ctx.heads, ctx.body)
    <3>1. /\ ctx'.recv = "head" /\ ctx'.resp = ctx.resp /\ ctx'.req = i /\ ctx'.path = u
          /\ ctx'.params = kv /\ ctx'.heads = ctx.heads
      BY <2>11 DEF IsCtx
    <3>2. Requested(sent, ctx')
      BY <2>3, <3>1 DEF Requested, u, kv, r
    <3>3. Begun(r, 1)
      BY <2>1, <2>11 DEF Begun, good
    <3>4. InHead(sent, ctx', L, q)
      BY <2>5, <2>6, <2>10, <3>1, <3>3 DEF InHead, r
    <3>5. ~ (ctx'.resp >= 400)
      <4>1. ctx.resp \in {200, 400, 414}
        BY DEF CtxInv
      <4> QED BY <2>7, <3>1, <4>1
    <3>6. IsAt(sent, ctx', L, q)
      BY <3>1, <3>2, <3>4, <3>5 DEF IsAt
    <3>7. InTurn(sent, ctx', n, L, q)
      BY <2>8, <3>1 DEF InTurn
    <3> QED BY <3>6, <3>7 DEF q
  <2>12. CASE ~ good /\ IsCtx(ctx', "error", 400, i, u, kv, ctx.heads, ctx.body)
    <3>1. ctx'.recv = "error"
      BY <2>12 DEF IsCtx
    <3>2. ~ WellFormed(r)
      BY <2>4, <2>12, WellFormedIs DEF Begun, good
    <3>3. IsAt(sent, ctx', L, q) /\ InTurn(sent, ctx', n, L, q)
      BY <2>8, <3>1, <3>2 DEF IsAt, InTurn, r
    <3> QED BY <3>3 DEF q
  <2> QED BY <2>9, <2>11, <2>12
<1> QED BY <1>2, <1>3
\* A header, the empty line, or what is neither.
LEMMA HeadInTurn ==
  ASSUME WorldInv, TextInv, CtxInv, NEW E, NEW L, Layout(sent, E, L), NEW p, IsRead(p), NEW n,
         IsAt(sent, ctx, L, p), InTurn(sent, ctx, n, L, p), RecvHttpHead
  PROVE  IsAt(sent, ctx', L, p + LineEnd) /\ InTurn(sent, ctx', n, L, p + LineEnd)
<1> DEFINE i == ctx.req
           r == sent[i]
           m == Len(r.lines)
           q == p + LineEnd
           kind == KindOf(buf)
<1>1. ctx.recv = "head" /\ HasLine
  BY DEF RecvHttpHead
<1>2. PICK j \in 1 .. m - 1 :
        LineIsNext(L, p, i, j + 1) /\ j + 1 # 1 /\ Begun(r, j) /\ ctx.heads = Heads(r, j)
  BY <1>1, UpcomingHead
<1>3. Requested(sent, ctx) /\ i \in 1 .. Len(sent)
  BY <1>1 DEF IsAt, Requested
<1>4. r \in Requests
  BY <1>3, ElementOfSeq DEF WorldInv
<1>5. kind = r.lines[j + 1] /\ q = L[i][j + 1]
  BY <1>1, <1>2, NextLine
<1> HIDE DEF r
<1>6. m \in Nat \ {0} /\ \A k \in 1 .. m : r.lines[k] = "empty" <=> k = m
  BY <1>4, RequestIs DEF Framed
<1> HIDE DEF m
<1>7. /\ j + 1 \in 1 .. m /\ (j + 1 # m => j + 1 \in 1 .. m - 1) /\ (j + 1 = m => j = m - 1)
      /\ \A k \in 2 .. j + 1 : k \in 2 .. j \/ k = j + 1
      /\ 2 .. j \subseteq 2 .. j + 1 /\ j + 1 \in 2 .. j + 1
  BY <1>6
<1>8. kind = "empty" <=> j + 1 = m
  BY <1>5, <1>6, <1>7
<1>9. ~ (ctx.resp >= 400)
  BY <1>1 DEF IsAt
<1>10. Turn(sent, n) => i = n
  BY <1>1 DEF InTurn
<1> HIDE DEF kind, q, i
<1>11. CASE kind = "empty"
  <2>1. ctx' = [ctx EXCEPT !.recv = "body"]
    BY <1>11, Zenon DEF RecvHttpHead, kind
  <2>2. IsCtx(ctx', "body", ctx.resp, i, ctx.path, ctx.params, ctx.heads, ctx.body)
    BY <2>1, CtxFields, SetRecv, Zenon DEF i
  <2>3. /\ ctx'.recv = "body" /\ ctx'.resp = ctx.resp /\ ctx'.req = i /\ ctx'.path = ctx.path
        /\ ctx'.params = ctx.params /\ ctx'.heads = ctx.heads /\ ctx'.body = ctx.body
    BY <2>2 DEF IsCtx
  <2>4. Requested(sent, ctx')
    BY <1>3, <2>3 DEF Requested, i
  <2>5. Len(ctx'.body) = 0
    BY <1>1, <2>3 DEF CtxInv
  <2>6. Begun(r, m - 1) /\ ctx'.heads = Heads(r, m - 1)
    BY <1>2, <1>7, <1>8, <1>11, <2>3
  <2>7. q = L[i][m] /\ L[i][m] \in Nat /\ r.body \in Nat
    <3>1. m \in 0 .. m
      BY <1>6
    <3>2. L[i][m] \in Nat
      BY <1>3, <3>1 DEF Layout, LineEnds, m, r
    <3> QED BY <1>4, <1>5, <1>8, <1>11, <3>2, RequestIs
  <2>8. Len(ctx'.body) <= r.body /\ q = L[i][m] + Len(ctx'.body)
    BY <2>5, <2>7
  <2>9. InBody(sent, ctx', L, q)
    <3>1. \A k \in 1 .. Len(ctx'.body) : ctx'.body[k] = BodyPiece(i, k)
      BY <2>5
    <3> QED BY <2>3, <2>6, <2>8, <3>1 DEF InBody, r, m
  <2>10. IsAt(sent, ctx', L, q)
    BY <1>9, <2>3, <2>4, <2>9 DEF IsAt
  <2>11. InTurn(sent, ctx', n, L, q)
    BY <1>10, <2>3 DEF InTurn
  <2> QED BY <2>10, <2>11 DEF q
<1>12. CASE kind \in {"keep-alive", "length"}
  <2> DEFINE h == ctx.heads \cup {kind}
  <2>1. ctx' = [ctx EXCEPT !.heads = h]
    <3>1. kind # "empty"
      BY <1>12
    <3>2. ctx' = [ctx EXCEPT !.heads = @ \cup {kind}]
      BY <1>12, <3>1, Zenon DEF RecvHttpHead, kind
    <3> QED BY <3>2
  <2> HIDE DEF h
  <2>2. IsCtx(ctx', ctx.recv, ctx.resp, i, ctx.path, ctx.params, h, ctx.body)
    BY <2>1, CtxFields, SetHeads, Zenon DEF i
  <2>3. /\ ctx'.recv = "head" /\ ctx'.resp = ctx.resp /\ ctx'.req = i /\ ctx'.path = ctx.path
        /\ ctx'.params = ctx.params /\ ctx'.heads = h
    BY <1>1, <2>2 DEF IsCtx
  <2>4. Requested(sent, ctx')
    BY <1>3, <2>3 DEF Requested, i
  <2>5. Begun(r, j + 1)
    BY <1>2, <1>5, <1>7, <1>12 DEF Begun
  <2>6. h = Heads(r, j + 1)
    BY <1>2, <1>5, <1>7 DEF Heads, h
  <2>7. j + 1 \in 1 .. m - 1
    BY <1>7, <1>8, <1>12
  <2>8. InHead(sent, ctx', L, q)
    BY <1>5, <2>3, <2>5, <2>6, <2>7 DEF InHead, r, m
  <2>9. IsAt(sent, ctx', L, q)
    BY <1>9, <2>3, <2>4, <2>8 DEF IsAt
  <2>10. InTurn(sent, ctx', n, L, q)
    BY <1>10, <2>3 DEF InTurn
  <2> QED BY <2>9, <2>10 DEF q
<1>13. CASE kind \notin {"empty", "keep-alive", "length"}
  <2>1. kind # "empty" /\ kind \notin {"keep-alive", "length"}
    BY <1>13
  <2>2. Fail(400)
    BY <2>1, Zenon DEF RecvHttpHead, kind
  <2>3. ASSUME NEW k, NEW l, LineIsNext(L, p, k, l), l = 1 <=> ctx.recv = "line"
        PROVE  ~ WellFormed(sent[k])
    <3>1. kind = sent[k].lines[l] /\ l # 1
      BY <1>1, <2>3, NextLine DEF kind
    <3>2. k \in 1 .. Len(sent) /\ l \in 1 .. Len(sent[k].lines)
      BY <2>3 DEF LineIsNext
    <3>3. sent[k] \in Requests
      BY <3>2, ElementOfSeq DEF WorldInv
    <3> QED BY <1>13, <3>1, <3>2, <3>3, BadLine
  <2> QED BY <1>1, <2>2, <2>3, FailsInTurn DEF q
<1> QED BY <1>11, <1>12, <1>13 DEF q

\* The length of the body is what the header says, and there is no body without it.
LEMMA LengthIs ==
  ASSUME WorldInv, NEW L, NEW p, IsAt(sent, ctx, L, p), ctx.recv = "body"
  PROVE  ContentLength = sent[ctx.req].body
<1> DEFINE r == sent[ctx.req]
           m == Len(r.lines)
<1>1. ctx.req \in 1 .. Len(sent)
  BY DEF IsAt, Requested
<1>2. r \in Requests
  BY <1>1, ElementOfSeq DEF WorldInv
<1>3. r.lines[1] = "request" /\ ctx.heads = Heads(r, m - 1)
  BY DEF IsAt, InBody, Begun
<1>4. CASE "length" \in ctx.heads
  BY <1>4 DEF ContentLength
<1>5. CASE "length" \notin ctx.heads
  <2> HIDE DEF r
  <2>1. m \in Nat \ {0} /\ \A k \in 1 .. m : r.lines[k] = "empty" <=> k = m
    BY <1>2, RequestIs DEF Framed
  <2>2. r.body \in Nat /\ (r.body > 0 => \E k \in 1 .. m : r.lines[k] = "length")
    BY <1>2, RequestIs
  <2> HIDE DEF m
  <2>3. ASSUME NEW k \in 1 .. m PROVE r.lines[k] # "length"
    <3>1. CASE k = 1
      BY <1>3, <3>1
    <3>2. CASE k = m
      BY <2>1, <3>2
    <3>3. CASE k # 1 /\ k # m
      <4>1. k \in 2 .. m - 1
        BY <2>1, <3>3
      <4> QED BY <1>3, <1>5, <4>1 DEF Heads
    <3> QED BY <3>1, <3>2, <3>3
  <2>4. r.body = 0
    BY <2>2, <2>3
  <2> QED BY <1>5, <2>4 DEF ContentLength, r
<1> QED BY <1>4, <1>5

\* What comes of a body is its own.
LEMMA BodyInTurn ==
  ASSUME WorldInv, TextInv, CtxInv, NEW E, NEW L, Layout(sent, E, L), NEW p, IsRead(p), NEW n,
         IsAt(sent, ctx, L, p), InTurn(sent, ctx, n, L, p), RecvHttpBody
  PROVE  IsAt(sent, ctx', L, p + BodyPart) /\ InTurn(sent, ctx', n, L, p + BodyPart)
<1> DEFINE i == ctx.req
           r == sent[i]
           m == Len(r.lines)
           l == Len(ctx.body)
           part == SubSeq(buf, 1, BodyPart)
           b == ctx.body \o part
           v == IF BodyPart = ContentLength - l THEN "over" ELSE "body"
           q == p + BodyPart
<1>1. ctx.recv = "body"
  BY DEF RecvHttpBody
<1>2. ContentLength = r.body
  BY <1>1, LengthIs
<1>3. BodyPart \in Nat /\ BodyPart <= Len(buf) /\ l \in Nat /\ Len(buf) \in Nat
      /\ l + BodyPart <= r.body /\ r.body \in Nat
  BY <1>1, <1>2, BodyPartIs
<1>4. part \in Seq(Piece) /\ Len(part) = BodyPart /\ \A k \in 1 .. BodyPart : part[k] = buf[k]
  <2>1. part \in Seq(Piece) /\ Len(part) = BodyPart
    BY <1>3, RestIs
  <2>2. PICK one \in Nat \ {0} : one = 1
    OBVIOUS
  <2>3. \A k \in 1 .. BodyPart - one + 1 : SubSeq(buf, one, BodyPart)[k] = buf[one + k - 1]
    BY <1>3, Cut DEF TextInv
  <2>4. \A k \in 1 .. BodyPart : k \in 1 .. BodyPart - one + 1 /\ one + k - 1 = k
    BY <1>3, <2>2
  <2> QED BY <2>1, <2>2, <2>3, <2>4
<1>5. ctx' = [ctx EXCEPT !.body = b, !.recv = v]
  BY <1>1, BodyStep
<1> HIDE DEF part, l
<1>6. /\ Len(b) = l + BodyPart /\ \A k \in 1 .. l : b[k] = ctx.body[k]
      /\ \A k \in 1 .. BodyPart : b[l + k] = part[k]
  <2>1. ctx.body \in Seq(Piece)
    BY DEF CtxInv
  <2>2. Joins(b, ctx.body, part)
    BY <1>4, <2>1, Concatenated
  <2> HIDE DEF b
  <2> QED BY <1>4, <2>2 DEF l, Joins
<1> HIDE DEF b, v
<1>7. IsCtx(ctx', v, ctx.resp, i, ctx.path, ctx.params, ctx.heads, b)
  BY <1>5, CtxFields, SetBodyRecv, Zenon
<1>8. Requested(sent, ctx) /\ i \in 1 .. Len(sent)
  BY <1>1 DEF IsAt, Requested
<1>9. /\ Begun(r, m - 1) /\ ctx.heads = Heads(r, m - 1) /\ p = L[i][m] + l
      /\ \A k \in 1 .. l : ctx.body[k] = BodyPiece(i, k)
  BY <1>1 DEF IsAt, InBody, l
<1>10. L[i][m] \in Nat
  <2>1. sent[i] \in Requests
    BY <1>8, ElementOfSeq DEF WorldInv
  <2>2. m \in 0 .. m
    <3>1. m \in Nat
      BY <2>1, RequestIs
    <3> QED BY <3>1
  <2> QED BY <1>8, <2>2 DEF Layout, LineEnds
<1>11. ASSUME NEW k \in 1 .. Len(b) PROVE b[k] = BodyPiece(i, k)
  <2>1. CASE k \in 1 .. l
    BY <1>6, <1>9, <2>1
  <2>2. CASE k \notin 1 .. l
    <3>1. /\ k - l \in 1 .. BodyPart /\ k - l \in 1 .. Len(buf) /\ k \in 1 .. r.body
          /\ l + (k - l) = k
      BY <1>3, <1>6, <2>2
    <3>2. p + (k - l) = L[i][m] + k
      <4>1. \A x \in Nat, y \in Nat, z \in Nat : (x + y) + (z - y) = x + z
        OBVIOUS
      <4>2. k \in Nat
        BY <3>1
      <4> QED BY <1>3, <1>9, <1>10, <4>1, <4>2
    <3>3. b[l + (k - l)] = buf[k - l]
      BY <1>4, <1>6, <3>1
    <3>4. buf[k - l] = AllText(sent)[p + (k - l)]
      BY <3>1 DEF IsRead
    <3>5. AllText(sent)[L[i][m] + k] = BodyPiece(i, k)
      BY <1>8, <3>1 DEF Layout, BodyPieces
    <3> QED BY <3>1, <3>2, <3>3, <3>4, <3>5
  <2> QED BY <2>1, <2>2
<1>12. Len(b) <= r.body /\ q = L[i][m] + Len(b)
  <2>1. \A x \in Nat, y \in Nat, z \in Nat : (x + y) + z = x + (y + z)
    OBVIOUS
  <2>2. q = (L[i][m] + l) + BodyPart /\ Len(b) = l + BodyPart
    BY <1>6, <1>9
  <2>3. q = L[i][m] + (l + BodyPart)
    BY <1>3, <1>10, <2>1, <2>2
  <2> QED BY <1>3, <2>2, <2>3
<1>13. v \in {"body", "over"} /\ (v = "over" => Len(b) = r.body)
  <2>1. BodyPart = r.body - l => l + BodyPart = r.body
    BY <1>3
  <2> QED BY <1>2, <1>6, <2>1 DEF v
<1> HIDE DEF q
<1>14. /\ ctx'.recv = v /\ ctx'.resp = ctx.resp /\ ctx'.req = i /\ ctx'.path = ctx.path
       /\ ctx'.params = ctx.params /\ ctx'.heads = ctx.heads /\ ctx'.body = b
  BY <1>7 DEF IsCtx
<1>15. Requested(sent, ctx')
  BY <1>8, <1>14 DEF Requested
<1>16. InBody(sent, ctx', L, q)
  BY <1>9, <1>11, <1>12, <1>14 DEF InBody
<1>17. ~ (ctx.resp >= 400)
  BY <1>1 DEF IsAt
<1>18. IsAt(sent, ctx', L, q)
  BY <1>13, <1>14, <1>15, <1>16, <1>17 DEF IsAt
<1>19. InTurn(sent, ctx', n, L, q)
  <2>1. Turn(sent, n) => i = n
    BY <1>1 DEF InTurn
  <2> QED BY <1>13, <1>14, <2>1 DEF InTurn
<1> QED BY <1>18, <1>19 DEF q

-----------------------------------------------------------------------------
(* The answers.                                                             *)

\* The n-th answer is next, and where the server is.
Placed(E, L, p, n) ==
  Layout(sent, E, L) /\ IsRead(p) /\ IsAt(sent, ctx, L, p) /\ InTurn(sent, ctx, n, L, p)
AnswerIs(o, k) == o[k].req = IF WellFormed(sent[k]) THEN k ELSE 0
Answered == \A k \in 1 .. Len(out) : Turn(sent, k) => AnswerIs(out, k)
OrderInv == Answered /\ \E E, L, p : Placed(E, L, p, Len(out) + 1)

LEMMA InitOrder == Init => OrderInv
<1> SUFFICES ASSUME Init PROVE OrderInv
  OBVIOUS
<1>1. sent \in Seq(Requests) /\ Len(sent) \in Nat
  BY InitTypes, LenProperties DEF TypeInv, WorldInv
<1>2. PICK E, L : Layout(sent, E, L)
  BY <1>1, LayoutIs
<1>3. IsRead(0)
  BY InitRead
<1>4. ctx.recv = "line" /\ ctx.resp = 200 /\ out = <<>> /\ Len(out) = 0
  BY DEF Init, Fresh
<1>5. IsAt(sent, ctx, L, 0)
  <2>1. ~ (200 >= 400)
    OBVIOUS
  <2> QED BY <1>4, <2>1 DEF IsAt
<1>6. InTurn(sent, ctx, 1, L, 0)
  <2>1. Turn(sent, 1) => L[1][0] = E[0] /\ 1 - 1 = 0
    BY <1>2 DEF Turn, Layout, LineEnds
  <2>2. E[0] = 0
    BY <1>2 DEF Layout, Ends
  <2> QED BY <1>4, <2>1, <2>2 DEF InTurn
<1>7. Placed(E, L, 0, Len(out) + 1)
  BY <1>2, <1>3, <1>4, <1>5, <1>6 DEF Placed
<1>8. Answered
  BY <1>4 DEF Answered
<1> QED BY <1>7, <1>8 DEF OrderInv

\* The parser reads on in the request whose turn it is.
LEMMA ParserTurns ==
  ASSUME WorldInv, TextInv, CtxInv, NEW E, NEW L, NEW p, NEW n, Placed(E, L, p, n),
         NeedsMore \/ LineTooLong \/ RecvHttpLine \/ RecvHttpHead \/ RecvHttpBody
  PROVE  \E q : Placed(E, L, q, n)'
<1>1. /\ Layout(sent, E, L) /\ IsRead(p) /\ IsAt(sent, ctx, L, p) /\ InTurn(sent, ctx, n, L, p)
      /\ p \in Nat
  BY DEF Placed, IsRead
<1>2. sent' = sent /\ wire' = wire
  BY DEF NeedsMore, LineTooLong, RecvHttpLine, RecvHttpHead, RecvHttpBody, world
<1>3. ASSUME NEW m \in Nat, m <= Len(buf), buf' = Rest(m),
             IsAt(sent, ctx', L, p + m) /\ InTurn(sent, ctx', n, L, p + m)
      PROVE  Placed(E, L, p + m, n)'
  <2>1. IsRead(p + m)'
    BY <1>1, <1>2, <1>3, RestRead
  <2> QED BY <1>1, <1>2, <1>3, <2>1 DEF Placed
<1>4. CASE NeedsMore
  <2>1. IsAt(sent, ctx', L, p) /\ InTurn(sent, ctx', n, L, p)
    BY <1>1, <1>4, NeedsMoreInTurn
  <2>2. buf' = buf
    BY <1>4 DEF NeedsMore
  <2>3. IsRead(p)'
    BY <1>1, <1>2, <2>2 DEF IsRead
  <2> QED BY <1>1, <1>2, <2>1, <2>3 DEF Placed
<1>5. CASE LineTooLong \/ RecvHttpLine \/ RecvHttpHead
  <2>1. HasLine /\ buf' = Rest(LineEnd)
    BY <1>5 DEF LineTooLong, RecvHttpLine, RecvHttpHead
  <2>2. LineEnd \in Nat /\ LineEnd <= Len(buf)
    <3>1. LineEnd \in 1 .. Len(buf) /\ Len(buf) \in Nat
      BY <2>1, LineIs, LenProperties DEF TextInv
    <3> QED BY <3>1
  <2>3. IsAt(sent, ctx', L, p + LineEnd) /\ InTurn(sent, ctx', n, L, p + LineEnd)
    BY <1>1, <1>5, LineTooLongInTurn, LineInTurn, HeadInTurn
  <2> QED BY <1>3, <2>1, <2>2, <2>3
<1>6. CASE RecvHttpBody
  <2>1. buf' = Rest(BodyPart) /\ BodyPart \in Nat /\ BodyPart <= Len(buf)
    BY <1>6, BodyPartIs, BodyStep DEF RecvHttpBody
  <2>2. IsAt(sent, ctx', L, p + BodyPart) /\ InTurn(sent, ctx', n, L, p + BodyPart)
    BY <1>1, <1>6, BodyInTurn
  <2> QED BY <1>3, <2>1, <2>2
<1> QED BY <1>4, <1>5, <1>6

\* A context that has been reset is that of the next request, if there is one.
LEMMA FreshInTurn ==
  ASSUME sent' = sent, NEW L, NEW p, NEW n, ctx' = Fresh, Turn(sent, n) => p = L[n][0]
  PROVE  IsAt(sent, ctx', L, p) /\ InTurn(sent, ctx', n, L, p)
<1>1. ctx'.recv = "line" /\ ctx'.resp = 200
  BY DEF Fresh
<1>2. ~ (200 >= 400)
  OBVIOUS
<1> QED BY <1>1, <1>2 DEF IsAt, InTurn

LEMMA AnswerMore ==
  ASSUME OutInv, Answered, sent' = sent, NEW resp, out' = Append(out, resp),
         Turn(sent, Len(out) + 1) =>
           resp.req = IF WellFormed(sent[Len(out) + 1]) THEN Len(out) + 1 ELSE 0
  PROVE  Answered' /\ Len(out') = Len(out) + 1 /\ Len(out) \in Nat
<1>1. PICK R : out \in Seq(R)
  BY DEF OutInv
<1> DEFINE S == R \cup {resp}
<1>2. out \in Seq(S) /\ resp \in S
  BY <1>1
<1> HIDE DEF S
<1>3. /\ out' \in Seq(S) /\ Len(out') = Len(out) + 1
      /\ \A i \in 1 .. Len(out) : out'[i] = out[i]
      /\ out'[Len(out) + 1] = resp
  BY <1>2, AppendProperties
<1>4. Len(out) \in Nat
  BY <1>2, LenProperties
<1>5. ASSUME NEW k \in 1 .. Len(out'), Turn(sent, k) PROVE AnswerIs(out', k)
  <2>1. k \in 1 .. Len(out) \/ k = Len(out) + 1
    BY <1>3, <1>4
  <2>2. CASE k \in 1 .. Len(out)
    <3>1. out'[k] = out[k] /\ AnswerIs(out, k)
      BY <1>3, <1>5, <2>2 DEF Answered
    <3> QED BY <3>1 DEF AnswerIs
  <2>3. CASE k = Len(out) + 1
    <3>1. out'[k] = resp
      BY <1>3, <2>3
    <3> QED BY <1>5, <2>3, <3>1 DEF AnswerIs
  <2> QED BY <2>1, <2>2, <2>3
<1> QED BY <1>3, <1>4, <1>5 DEF Answered, AnswerIs

\* When it is the next one's turn, this one was well-formed.
LEMMA NextTurn ==
  ASSUME NEW n \in Nat \ {0}, NEW s, Len(s) \in Nat, Turn(s, n + 1)
  PROVE  Turn(s, n) /\ WellFormed(s[n])
<1>1. n + 1 \in 1 .. Len(s) /\ \A k \in 1 .. (n + 1) - 1 : WellFormed(s[k])
  BY DEF Turn
<1>2. n \in 1 .. (n + 1) - 1 /\ n \in 1 .. Len(s) /\ \A k \in 1 .. n - 1 : k \in 1 .. (n + 1) - 1
  BY <1>1
<1> QED BY <1>1, <1>2 DEF Turn

\* An error is answered for a request that is not well-formed, and then nothing
\* is known of what comes.
LEMMA ErrorTurn ==
  ASSUME WorldInv, TextInv, OutInv, OrderInv, AnswerError PROVE OrderInv'
<1> DEFINE n == Len(out) + 1
<1>1. PICK E, L, p : Placed(E, L, p, n)
  BY DEF OrderInv
<1>2. /\ Layout(sent, E, L) /\ IsRead(p) /\ IsAt(sent, ctx, L, p) /\ InTurn(sent, ctx, n, L, p)
  BY <1>1 DEF Placed
<1>3. /\ ctx' = Fresh /\ buf' = <<>> /\ sent' = sent /\ wire' = wire /\ ctx.resp >= 400
      /\ out' = Append(out, Response(0, ctx.resp, Page, ""))
  BY DEF AnswerError, world
<1>4. Turn(sent, n) => ~ WellFormed(sent[n])
  BY <1>2, <1>3 DEF IsAt, InTurn
<1> DEFINE resp == Response(0, ctx.resp, Page, "")
<1>5. resp.req = 0
  BY DEF Response
<1> HIDE DEF resp
<1>6. Answered' /\ Len(out') = n /\ n \in Nat \ {0}
  <2>1. Answered' /\ Len(out') = Len(out) + 1 /\ Len(out) \in Nat
    BY <1>3, <1>4, <1>5, AnswerMore DEF OrderInv, resp
  <2> QED BY <2>1
<1>7. PICK b \in Nat : b = Len(buf)
  BY LenProperties DEF TextInv
<1> DEFINE q == p + b
<1>8. IsRead(q)'
  <2>1. b <= Len(buf)
    BY <1>7
  <2>2. buf' = Rest(b)
    BY <1>3, <1>7, <2>1, RestIs
  <2> QED BY <1>2, <1>3, <2>1, <2>2, RestRead
<1>9. Turn(sent, n + 1) => FALSE
  <2>1. Len(sent) \in Nat
    BY LenProperties DEF WorldInv
  <2> HIDE DEF n
  <2> QED BY <1>4, <1>6, <2>1, NextTurn
<1> HIDE DEF n
<1>10. IsAt(sent, ctx', L, q) /\ InTurn(sent, ctx', n + 1, L, q)
  BY <1>3, <1>9, FreshInTurn
<1>11. Placed(E, L, q, Len(out) + 1)'
  BY <1>2, <1>3, <1>6, <1>10, <1>8 DEF Placed
<1> QED BY <1>6, <1>11 DEF OrderInv

\* A request that is complete is the one whose turn it is, and the text of the
\* next one follows.
LEMMA AnswerTurn ==
  ASSUME WorldInv, TextInv, OutInv, OrderInv, ctx.recv = "over", sent' = sent, wire' = wire,
         NEW resp, AnswerRequest(resp), resp.req = ctx.req
  PROVE  OrderInv'
<1> DEFINE n == Len(out) + 1
<1>1. PICK E, L, p : Placed(E, L, p, n)
  BY DEF OrderInv
<1>2. /\ Layout(sent, E, L) /\ IsRead(p) /\ IsAt(sent, ctx, L, p) /\ InTurn(sent, ctx, n, L, p)
  BY <1>1 DEF Placed
<1>3. ctx' = Fresh /\ buf' = buf /\ out' = Append(out, resp)
  BY DEF AnswerRequest
<1>4. IsRead(p)'
  BY <1>2, <1>3 DEF IsRead
<1>5. Len(sent) \in Nat
  BY LenProperties DEF WorldInv
<1>6. ASSUME Turn(sent, n)
      PROVE  /\ ctx.req = n /\ WellFormed(sent[n]) /\ n \in 1 .. Len(sent)
             /\ p = L[n][Len(sent[n].lines)] + sent[n].body
  <2>1. ctx.req = n /\ n \in 1 .. Len(sent)
    BY <1>2, <1>6 DEF InTurn, Turn
  <2>2. sent[n] \in Requests
    BY <2>1, ElementOfSeq DEF WorldInv
  <2>3. /\ Begun(sent[n], Len(sent[n].lines) - 1)
        /\ p = L[n][Len(sent[n].lines)] + Len(ctx.body) /\ Len(ctx.body) = sent[n].body
    BY <1>2, <2>1 DEF IsAt, InBody
  <2> QED BY <2>1, <2>2, <2>3, WellFormedIs
<1>7. Answered' /\ Len(out') = n /\ n \in Nat \ {0}
  <2>1. Turn(sent, Len(out) + 1) =>
          resp.req = IF WellFormed(sent[Len(out) + 1]) THEN Len(out) + 1 ELSE 0
    BY <1>6
  <2>2. Answered' /\ Len(out') = Len(out) + 1 /\ Len(out) \in Nat
    BY <1>3, <2>1, AnswerMore DEF OrderInv
  <2> QED BY <2>2
<1> HIDE DEF n
<1>8. ASSUME Turn(sent, n + 1) PROVE p = L[n + 1][0]
  <2>1. Turn(sent, n)
    BY <1>5, <1>7, <1>8, NextTurn
  <2>2. n + 1 \in 1 .. Len(sent) /\ (n + 1) - 1 = n
    BY <1>7, <1>8 DEF Turn
  <2>3. L[n + 1][0] = E[(n + 1) - 1] /\ E[n] = L[n][Len(sent[n].lines)] + sent[n].body
    BY <1>2, <1>6, <2>1, <2>2 DEF Layout, LineEnds
  <2> QED BY <1>6, <2>1, <2>2, <2>3
<1>9. IsAt(sent, ctx', L, p) /\ InTurn(sent, ctx', n + 1, L, p)
  BY <1>3, <1>8, FreshInTurn
<1>10. Placed(E, L, p, Len(out) + 1)'
  BY <1>2, <1>4, <1>7, <1>9 DEF Placed
<1> QED BY <1>7, <1>10 DEF OrderInv

LEMMA OrderStep ==
  TypeInv /\ WaitInv /\ OutInv /\ OrderInv /\ [Next]_vars => OrderInv'
<1> SUFFICES ASSUME TypeInv, WaitInv, OutInv, OrderInv, [Next]_vars PROVE OrderInv'
  OBVIOUS
<1>1. WorldInv /\ TextInv /\ CtxInv /\ sent' = sent
  BY WorldStep DEF TypeInv
<1>2. PICK E, L, p : Placed(E, L, p, Len(out) + 1)
  BY DEF OrderInv
<1>3. CASE UNCHANGED <<wire, buf, ctx, out>>
  <2>1. IsRead(p)' = IsRead(p)
    BY <1>1, <1>3 DEF IsRead
  <2>2. Placed(E, L, p, Len(out) + 1)'
    BY <1>1, <1>2, <1>3, <2>1 DEF Placed
  <2>3. Answered'
    BY <1>1, <1>3 DEF OrderInv, Answered, AnswerIs
  <2> QED BY <2>2, <2>3 DEF OrderInv
<1>4. CASE HandleReadData
  <2>1. UNCHANGED <<ctx, out>>
    BY <1>4 DEF HandleReadData
  <2>2. IsRead(p)'
    BY <1>1, <1>2, <1>4, ReceivedRead DEF Placed
  <2>3. Placed(E, L, p, Len(out) + 1)'
    BY <1>1, <1>2, <2>1, <2>2 DEF Placed
  <2>4. Answered'
    BY <1>1, <2>1 DEF OrderInv, Answered, AnswerIs
  <2> QED BY <2>3, <2>4 DEF OrderInv
<1>5. CASE NeedsMore \/ LineTooLong \/ RecvHttpLine \/ RecvHttpHead \/ RecvHttpBody
  <2>1. out' = out
    BY <1>5 DEF NeedsMore, LineTooLong, RecvHttpLine, RecvHttpHead, RecvHttpBody
  <2>2. PICK n : n = Len(out) + 1
    OBVIOUS
  <2>3. PICK q : Placed(E, L, q, n)'
    BY <1>1, <1>2, <1>5, <2>2, ParserTurns
  <2>4. Placed(E, L, q, Len(out) + 1)'
    BY <2>1, <2>3, <2>2
  <2>5. Answered'
    BY <1>1, <2>1 DEF OrderInv, Answered, AnswerIs
  <2> QED BY <2>4, <2>5 DEF OrderInv
<1>6. CASE AnswerError
  BY <1>1, <1>6, ErrorTurn
<1>7. CASE Dispatcher
  <2> DEFINE handlers == Routes[IF Method = "HEAD" THEN "GET" ELSE Method]
             found == {k \in 1 .. Len(handlers) : ctx.path \in handlers[k].paths}
             k == Min(found)
             none == Response(ctx.req, 404, NoContent, "")
             some == Response(ctx.req, 200, Content("handler", <<k>>, <<>>),
                              handlers[k].connection)
             resp == IF found = {} THEN none ELSE some
  <2>1. AnswerRequest(resp) /\ ctx.recv = "over" /\ wire' = wire
    BY <1>7 DEF Dispatcher, Complete
  <2> HIDE DEF k, handlers
  <2>2. none.req = ctx.req /\ some.req = ctx.req
    BY DEF Response
  <2> HIDE DEF none, some, found
  <2>3. resp.req = ctx.req
    BY <2>2
  <2> HIDE DEF resp
  <2> QED BY <1>1, <2>1, <2>3, AnswerTurn
<1>8. CASE FileHandler
  <2> DEFINE path == RequestPath(ctx.path)
             place == Lookup(tree, BaseDir, path)
             resp == Response(ctx.req, 200, Content("file", place, ExtMime(path, Mimes)), "")
  <2>1. wire' = wire
    BY <1>8 DEF FileHandler
  <2>2. CASE IsFileExists(tree, BaseDir, path)
    <3>1. AnswerRequest(resp)
      BY <1>8, <2>2 DEF FileHandler
    <3>2. ctx.recv = "over"
      BY <1>8 DEF FileHandler, In, WaitInv, OnTop
    <3> HIDE DEF place
    <3>3. resp.req = ctx.req
      BY DEF Response
    <3> HIDE DEF resp
    <3> QED BY <1>1, <2>1, <3>1, <3>2, <3>3, AnswerTurn
  <2>3. CASE ~ IsFileExists(tree, BaseDir, path)
    <3>1. UNCHANGED <<buf, ctx, out>>
      BY <1>8, <2>3 DEF FileHandler
    <3> QED BY <1>3, <2>1, <3>1
  <2> QED BY <2>2, <2>3
<1>9. Next => \/ UNCHANGED <<wire, buf, ctx, out>> \/ HandleReadData
              \/ (NeedsMore \/ LineTooLong \/ RecvHttpLine \/ RecvHttpHead \/ RecvHttpBody)
              \/ AnswerError \/ Dispatcher \/ FileHandler
  BY DEF Next, Loop, OnMessage, HandleReadEnd, DrainCallsBack, ShutdownEnds,
     ReleaseInLoop, OnMessageParses, OnMessageReturns, RouteToFile, Vanish
<1>10. UNCHANGED vars => UNCHANGED <<wire, buf, ctx, out>>
  BY DEF vars
<1> QED BY <1>3, <1>4, <1>5, <1>6, <1>7, <1>8, <1>9, <1>10

LEMMA ReachIs ==
  ASSUME Len(sent) \in Nat \ {0}
  PROVE  Reach \in 1 .. Len(sent) /\ \A k \in 1 .. Reach - 1 : Stays(sent[k])
<1> DEFINE T == {n \in 1 .. Len(sent) : n = Len(sent) \/ ~ Stays(sent[n])}
<1>1. Len(sent) \in T /\ T \in SUBSET Nat
  OBVIOUS
<1>2. PICK n \in T : \A k \in T : n <= k
  <2> HIDE DEF T
  <2> QED BY <1>1, LowestOf
<1>3. n \in 1 .. Len(sent) /\ (n = Len(sent) \/ ~ Stays(sent[n]))
  BY <1>2
<1>4. ASSUME NEW k \in 1 .. n - 1 PROVE Stays(sent[k])
  <2>1. k \in 1 .. Len(sent) /\ ~ (n <= k)
    BY <1>3, <1>4
  <2> QED BY <1>2, <2>1
<1> QED BY <1>3, <1>4 DEF Reach

\* However the text is cut and however often the handler is re-entered, the
\* answers are those of the requests in their order, one each, up to the first
\* that is wrong or asks to close: the context is always in the request whose
\* turn it is, at the place of the text where the buffer begins.
THEOREM AnswersComeInOrder == Spec => []AnswersInOrder
<1>1. Init => DiskInv /\ OutInv /\ OrderInv
  BY InitDisk, InitOrder DEF Init, OutInv, ServedFromBaseDir
<1>2. TypeInv /\ WaitInv /\ DiskInv /\ OutInv /\ OrderInv /\ [Next]_vars
        => DiskInv' /\ OutInv' /\ OrderInv'
  BY OutStep, OrderStep, DiskStep DEF TypeInv
<1>3. TypeInv /\ OutInv /\ OrderInv => AnswersInOrder
  <2> SUFFICES ASSUME TypeInv, OutInv, OrderInv, NEW k \in 1 .. Len(out), k <= Reach
               PROVE  IF WellFormed(sent[k]) THEN out[k].req = k ELSE out[k].req = 0
    BY DEF AnswersInOrder
  <2>1. Len(sent) \in Nat \ {0}
    <3>1. sent \in Seq(Requests) /\ sent # <<>>
      BY DEF TypeInv, WorldInv
    <3> QED BY <3>1, LenProperties, EmptySeq
  <2>2. Reach \in 1 .. Len(sent) /\ \A m \in 1 .. Reach - 1 : Stays(sent[m])
    BY <2>1, ReachIs
  <2>3. k \in 1 .. Len(sent) /\ 1 .. k - 1 \subseteq 1 .. Reach - 1
    BY <2>1, <2>2
  <2>4. Turn(sent, k)
    BY <2>2, <2>3 DEF Turn, Stays
  <2> QED BY <2>4 DEF OrderInv, Answered, AnswerIs
<1> QED BY <1>1, <1>2, <1>3, WaitsHold, PTL DEF Spec

-----------------------------------------------------------------------------
(* The paths that ValidPath accepts.                                        *)

\* How many of those in S are among the first k parts.
Among(parts, S, k) == {j \in 1 .. k : parts[j] \in S}
Counts(parts, S) ==
  /\ Cardinality(Among(parts, S, 0)) = 0
  /\ \A k \in Nat : Cardinality(Among(parts, S, k)) \in Nat
  /\ \A k \in Nat : Cardinality(Among(parts, S, k + 1)) =
       Cardinality(Among(parts, S, k)) + IF parts[k + 1] \in S THEN 1 ELSE 0

LEMMA AmongIs == ASSUME NEW parts, NEW S PROVE Counts(parts, S)
<1>1. ASSUME NEW k \in Nat PROVE IsFiniteSet(Among(parts, S, k))
  <2>1. IsFiniteSet(1 .. k)
    BY FS_Interval
  <2>2. Among(parts, S, k) \in SUBSET (1 .. k)
    BY DEF Among
  <2> QED BY <2>1, <2>2, FS_Subset
<1>2. \A k \in Nat : Cardinality(Among(parts, S, k)) \in Nat
  BY <1>1, FS_CardinalityType
<1>3. Cardinality(Among(parts, S, 0)) = 0
  <2>1. Among(parts, S, 0) = {}
    BY DEF Among
  <2> QED BY <2>1, FS_EmptySet
<1>4. ASSUME NEW k \in Nat
      PROVE  Cardinality(Among(parts, S, k + 1)) =
               Cardinality(Among(parts, S, k)) + IF parts[k + 1] \in S THEN 1 ELSE 0
  <2>1. \A j : j \in 1 .. k + 1 <=> j \in 1 .. k \/ j = k + 1
    OBVIOUS
  <2>2. k + 1 \notin 1 .. k
    OBVIOUS
  <2>3. CASE parts[k + 1] \in S
    <3>1. Among(parts, S, k + 1) = Among(parts, S, k) \cup {k + 1}
      BY <2>1, <2>3 DEF Among
    <3>2. k + 1 \notin Among(parts, S, k)
      BY <2>2 DEF Among
    <3>3. Cardinality(Among(parts, S, k) \cup {k + 1}) = Cardinality(Among(parts, S, k)) + 1
      BY <1>1, <3>2, FS_AddElement
    <3> QED BY <2>3, <3>1, <3>3
  <2>4. CASE parts[k + 1] \notin S
    <3>1. Among(parts, S, k + 1) = Among(parts, S, k)
      BY <2>1, <2>4 DEF Among
    <3> QED BY <1>2, <2>4, <3>1
  <2> QED BY <2>3, <2>4
<1> QED BY <1>2, <1>3, <1>4 DEF Counts

\* ValidPath accepts the paths that never climb above where they begin: those
\* of which no beginning has more ".." than names.
THEOREM ValidPathsStayBelow == \A path \in Seq(Byte) : ValidPath(path) <=> StaysBelow(path)
<1> SUFFICES ASSUME NEW path \in Seq(Byte) PROVE ValidPath(path) <=> StaysBelow(path)
  OBVIOUS
<1> DEFINE parts == SplitString(path, Slash)
           n == Len(parts)
           up(k) == Cardinality(Among(parts, {Up}, k))
           here(k) == Cardinality(Among(parts, Here, k))
           d == Depth(parts)
<1>1. n \in Nat
  BY SplitParts, LenProperties
<1>2. StaysBelow(path) <=> \A k \in 1 .. n : 2 * up(k) + here(k) <= k
  BY DEF StaysBelow, Among, Up, Here
<1>3. ValidPath(path) <=> \A k \in 1 .. n : d[k] >= 0
  BY ValidPathIs
<1>4. /\ d \in [0 .. n -> Int] /\ d[0] = 0
      /\ \A k \in 1 .. n :
           d[k] = d[k - 1] + IF parts[k] \in Here THEN 0 ELSE IF parts[k] = Up THEN -1 ELSE 1
  BY <1>1, DepthIs
<1>5. /\ up(0) = 0 /\ here(0) = 0 /\ \A k \in Nat : up(k) \in Nat /\ here(k) \in Nat
      /\ \A k \in Nat : up(k + 1) = up(k) + IF parts[k + 1] = Up THEN 1 ELSE 0
      /\ \A k \in Nat : here(k + 1) = here(k) + IF parts[k + 1] \in Here THEN 1 ELSE 0
  <2>1. Counts(parts, {Up}) /\ Counts(parts, Here)
    BY AmongIs
  <2> HIDE DEF parts
  <2> QED BY <2>1 DEF Counts
<1> HIDE DEF parts, n, up, here, d
<1> DEFINE M == {k \in Nat : k <= n => d[k] + (2 * up(k) + here(k)) = k}
<1>6. M = Nat
  <2>1. 0 \in M
    BY <1>4, <1>5
  <2>2. ASSUME NEW k \in M PROVE k + 1 \in M
    <3>1. k \in Nat /\ k + 1 \in Nat
      OBVIOUS
    <3> SUFFICES ASSUME k + 1 <= n PROVE d[k + 1] + (2 * up(k + 1) + here(k + 1)) = k + 1
      BY <3>1
    <3>2. k + 1 \in 1 .. n /\ k \in 0 .. n /\ (k + 1) - 1 = k /\ k <= n
      BY <1>1, <3>1
    <3>3. d[k] \in Int /\ d[k] + (2 * up(k) + here(k)) = k /\ up(k) \in Nat /\ here(k) \in Nat
      BY <1>4, <1>5, <3>1, <3>2
    <3>4. d[k + 1] = d[k] + IF parts[k + 1] \in Here THEN 0 ELSE IF parts[k + 1] = Up THEN -1 ELSE 1
      BY <1>4, <3>2
    <3>5. /\ up(k + 1) = up(k) + IF parts[k + 1] = Up THEN 1 ELSE 0
          /\ here(k + 1) = here(k) + IF parts[k + 1] \in Here THEN 1 ELSE 0
      BY <1>5, <3>1
    <3>6. ~ (parts[k + 1] = Up /\ parts[k + 1] \in Here)
      BY UpIsNotHere
    <3> DEFINE Adds(e, u, w) == d[k + 1] = d[k] + e /\ up(k + 1) = up(k) + u /\ here(k + 1) = here(k) + w
    <3>7. ASSUME NEW e \in Int, NEW u \in Nat, NEW w \in Nat, Adds(e, u, w), e + (2 * u + w) = 1
           PROVE  d[k + 1] + (2 * up(k + 1) + here(k + 1)) = k + 1
      <4>1. \A x \in Int, y, z \in Nat :
              x + (2 * y + z) = k => (x + e) + (2 * (y + u) + (z + w)) = k + 1
        BY <3>1, <3>7
      <4>2. (d[k] + e) + (2 * (up(k) + u) + (here(k) + w)) = k + 1
        BY <3>3, <4>1
      <4> QED BY <3>7, <4>2
    <3>8. CASE parts[k + 1] \in Here
      <4>1. Adds(0, 0, 1)
        BY <3>4, <3>5, <3>6, <3>8
      <4> HIDE DEF Adds
      <4> QED BY <3>7, <4>1
    <3>9. CASE parts[k + 1] = Up
      <4>1. Adds(-1, 1, 0)
        BY <3>4, <3>5, <3>6, <3>9
      <4> HIDE DEF Adds
      <4> QED BY <3>7, <4>1
    <3>10. CASE parts[k + 1] \notin Here /\ parts[k + 1] # Up
      <4>1. Adds(1, 0, 0)
        BY <3>4, <3>5, <3>10
      <4> HIDE DEF Adds
      <4> QED BY <3>7, <4>1
    <3> QED BY <3>8, <3>9, <3>10
  <2>3. M \in SUBSET Nat
    OBVIOUS
  <2> HIDE DEF M
  <2> QED BY <2>1, <2>2, <2>3, AllNumbers
<1>7. ASSUME NEW k \in 1 .. n PROVE d[k] >= 0 <=> 2 * up(k) + here(k) <= k
  <2>1. k \in Nat /\ k <= n /\ k \in 0 .. n
    BY <1>1
  <2>2. k \in M
    BY <1>6, <2>1
  <2>3. d[k] \in Int /\ up(k) \in Nat /\ here(k) \in Nat /\ d[k] + (2 * up(k) + here(k)) = k
    BY <1>4, <1>5, <2>1, <2>2
  <2> QED BY <2>1, <2>3
<1> QED BY <1>2, <1>3, <1>7

-----------------------------------------------------------------------------
(* The type of a file is that of its own name.                              *)

\* Where the dots of a text are, and what begins at the last of them.
Dots(text) == {i \in 1 .. Len(text) : text[i] = Dot}
LastDot(text) == CHOOSE i \in Dots(text) : \A j \in Dots(text) : j <= i
Postfix(text) == SubSeq(text, LastDot(text), Len(text))

LEMMA ExtMimeIs ==
  ASSUME NEW text, NEW M
  PROVE  ExtMime(text, M) =
           IF Dots(text) # {} /\ Postfix(text) \in M THEN Postfix(text) ELSE <<>>
BY DEF ExtMime, Dots, LastDot, Postfix

LEMMA LastDotIs ==
  ASSUME NEW text \in Seq(Byte), NEW i \in Dots(text), \A j \in Dots(text) : j <= i
  PROVE  LastDot(text) = i /\ i \in Nat
<1>1. Dots(text) \in SUBSET Nat
  BY DEF Dots
<1>2. LastDot(text) \in Dots(text) /\ \A j \in Dots(text) : j <= LastDot(text)
  BY DEF LastDot
<1>3. i <= LastDot(text) /\ LastDot(text) <= i /\ i \in Nat /\ LastDot(text) \in Nat
  BY <1>1, <1>2
<1> QED BY <1>3

LEMMA LastDotIsThere ==
  ASSUME NEW text \in Seq(Byte), Dots(text) # {}
  PROVE  LastDot(text) \in Dots(text) /\ \A j \in Dots(text) : j <= LastDot(text)
<1>1. Len(text) \in Nat
  BY LenProperties
<1>2. Dots(text) \in SUBSET (0 .. Len(text))
  BY <1>1 DEF Dots
<1>3. PICK i \in Dots(text) : \A j \in Dots(text) : j <= i
  BY <1>1, <1>2, HighestOf
<1> QED BY <1>3, LastDotIs

\* A path and its last part have the same type.
LEMMA TypeOfLastPart ==
  ASSUME NEW text \in Seq(Byte), NEW k \in 1 .. Len(text) + 1,
         k = 1 \/ (k - 1 \in 1 .. Len(text) /\ text[k - 1] = Slash),
         NEW M, \A m \in M : Slash \notin ToSet(m)
  PROVE  ExtMime(text, M) = ExtMime(SubSeq(text, k, Len(text)), M)
<1> DEFINE n == Len(text)
           name == SubSeq(text, k, n)
<1>1. n \in Nat /\ k \in Nat /\ k >= 1
  BY LenProperties
<1>2. /\ name \in Seq(Byte) /\ Len(name) = n - k + 1
      /\ \A i \in 1 .. Len(name) : k + i - 1 \in 1 .. n /\ name[i] = text[k + i - 1]
  BY EndOfText
<1> HIDE DEF n, name
<1>3. \A j \in 1 .. n : j >= k => /\ j - k + 1 \in 1 .. Len(name) /\ name[j - k + 1] = text[j]
  <2> SUFFICES ASSUME NEW j \in 1 .. n, j >= k
               PROVE  j - k + 1 \in 1 .. Len(name) /\ name[j - k + 1] = text[j]
    OBVIOUS
  <2>1. j - k + 1 \in 1 .. Len(name) /\ k + (j - k + 1) - 1 = j
    BY <1>1, <1>2
  <2>2. name[j - k + 1] = text[k + (j - k + 1) - 1]
    BY <1>2, <2>1
  <2> QED BY <2>1, <2>2
<1>4. CASE Dots(name) # {}
  <2> DEFINE i == LastDot(name)
             j == k + i - 1
  <2>1. i \in Dots(name) /\ \A l \in Dots(name) : l <= i
    BY <1>2, <1>4, LastDotIsThere
  <2>2. i \in 1 .. Len(name) /\ name[i] = Dot
    BY <2>1 DEF Dots
  <2> HIDE DEF i
  <2>3. j \in 1 .. n /\ text[j] = Dot
    BY <1>2, <2>2
  <2>4. j \in Dots(text)
    BY <2>3 DEF Dots, n
  <2>5. ASSUME NEW l \in Dots(text) PROVE l <= j
    <3>1. l \in 1 .. n /\ text[l] = Dot
      BY DEF Dots, n
    <3>2. CASE l >= k
      <4>1. l - k + 1 \in 1 .. Len(name) /\ name[l - k + 1] = Dot
        BY <1>3, <3>1, <3>2
      <4>2. l - k + 1 <= i
        BY <2>1, <4>1 DEF Dots
      <4> QED BY <1>1, <2>2, <3>1, <4>2
    <3>3. CASE ~ (l >= k)
      BY <1>1, <2>2, <3>1, <3>3
    <3> QED BY <3>2, <3>3
  <2>6. LastDot(text) = j
    <3> HIDE DEF j
    <3> QED BY <2>4, <2>5, LastDotIs
  <2>7. Postfix(text) = Postfix(name)
    <3> DEFINE p == SubSeq(text, j, n)
               q == SubSeq(name, i, Len(name))
    <3>1. j \in 1 .. Len(text) + 1
      BY <1>1, <2>3 DEF n
    <3> HIDE DEF j
    <3>2. /\ p \in Seq(Byte) /\ Len(p) = n - j + 1
          /\ \A l \in 1 .. Len(p) : p[l] = text[j + l - 1]
      BY <3>1, EndOfText DEF n
    <3>3. i \in 1 .. Len(name) + 1
      BY <1>1, <1>2, <2>2
    <3>4. /\ q \in Seq(Byte) /\ Len(q) = Len(name) - i + 1
          /\ \A l \in 1 .. Len(q) : i + l - 1 \in 1 .. Len(name) /\ q[l] = name[i + l - 1]
      BY <1>2, <3>3, EndOfText, SMTT(30)
    <3> HIDE DEF p, q
    <3>5. Len(p) = Len(q)
      BY <1>1, <1>2, <2>2, <3>2, <3>4, SMTT(30) DEF j
    <3>6. ASSUME NEW l \in 1 .. Len(p) PROVE p[l] = q[l]
      <4>1. i + l - 1 \in 1 .. Len(name) /\ q[l] = name[i + l - 1]
        BY <3>4, <3>5
      <4>2. name[i + l - 1] = text[k + (i + l - 1) - 1]
        BY <1>2, <4>1
      <4>3. l \in Nat /\ k + (i + l - 1) - 1 = j + l - 1
        BY <1>1, <2>2 DEF j
      <4> QED BY <3>2, <4>1, <4>2, <4>3
    <3>7. p = q
      BY <3>2, <3>4, <3>5, <3>6, SeqEqual
    <3> QED BY <2>6, <3>7 DEF Postfix, p, q, n, i
  <2>8. Dots(text) # {}
    BY <2>4
  <2> QED BY <1>4, <2>7, <2>8, ExtMimeIs DEF name, n
<1>5. CASE Dots(name) = {} /\ Dots(text) # {}
  <2> DEFINE j == LastDot(text)
             p == SubSeq(text, j, n)
  <2>1. j \in Dots(text)
    BY <1>5, LastDotIsThere
  <2>2. j \in 1 .. n /\ text[j] = Dot
    BY <2>1 DEF Dots, n
  <2>3. Postfix(text) = p
    BY DEF Postfix, n
  <2> HIDE DEF j
  <2>4. j < k
    <3>1. CASE j >= k
      <4>1. j - k + 1 \in Dots(name)
        BY <1>3, <2>2, <3>1 DEF Dots
      <4> QED BY <1>5, <4>1
    <3> QED BY <1>1, <2>2, <3>1
  <2>5. k - 1 \in 1 .. n /\ text[k - 1] = Slash
    BY <1>1, <2>2, <2>4 DEF n
  <2>6. j \in 1 .. Len(text) + 1
    BY <1>1, <2>2 DEF n
  <2>7. /\ p \in Seq(Byte) /\ Len(p) = n - j + 1
        /\ \A l \in 1 .. Len(p) : p[l] = text[j + l - 1]
    BY <2>6, EndOfText DEF n
  <2> HIDE DEF p
  <2>8. k - j \in 1 .. Len(p) /\ j + (k - j) - 1 = k - 1
    BY <1>1, <2>2, <2>4, <2>5, <2>7
  <2>9. p[k - j] = Slash
    BY <2>5, <2>7, <2>8
  <2>10. Slash \in ToSet(p)
    BY <2>8, <2>9 DEF ToSet
  <2>11. p \notin M
    BY <2>10
  <2>12. ExtMime(text, M) = <<>> /\ ExtMime(name, M) = <<>>
    BY <1>5, <2>3, <2>11, ExtMimeIs
  <2> QED BY <2>12 DEF name, n
<1>6. CASE Dots(name) = {} /\ Dots(text) = {}
  BY <1>6, ExtMimeIs DEF name, n
<1> QED BY <1>4, <1>5, <1>6

\* Where a file is found by a whole path, its name is the last part of it.
LEMMA FileHasItsType ==
  ASSUME NEW text \in Seq(Byte), c_str(text) = text, NEW t, IsDisk(t), NEW start \in t.dirs,
         IsFileExists(t, start, text), NEW M, \A m \in M : Slash \notin ToSet(m)
  PROVE  ExtMime(text, M) = ExtMime(Last(Lookup(t, start, text)), M)
<1> DEFINE names == SplitString(text, Slash)
           n == Len(names)
           here == Walk(start, names)[n - 1]
           name == names[n]
           place == Lookup(t, start, text)
<1>1. \E k \in 1 .. Len(text) + 1 :
        /\ name = SubSeq(text, k, Len(text))
        /\ k = 1 \/ (k - 1 \in 1 .. Len(text) /\ text[k - 1] = Slash)
  BY LastStart
<1>2. here \in Seq(Seq(Byte)) /\ name \in Seq(Byte) /\ place = Append(here, name)
  BY FileIsNamed
<1> HIDE DEF name, here, place
<1>3. ExtMime(text, M) = ExtMime(name, M)
  <2>1. PICK k \in 1 .. Len(text) + 1 :
          /\ name = SubSeq(text, k, Len(text))
          /\ k = 1 \/ (k - 1 \in 1 .. Len(text) /\ text[k - 1] = Slash)
    BY <1>1
  <2> QED BY <2>1, TypeOfLastPart
<1>4. Last(place) = name
  <2>1. Len(here) \in Nat
    BY <1>2, LenProperties
  <2>2. Len(place) = Len(here) + 1 /\ place[Len(here) + 1] = name
    BY <1>2, AppendProperties
  <2> QED BY <2>2 DEF Last
<1> QED BY <1>3, <1>4 DEF place

-----------------------------------------------------------------------------
(* The answers are their own, and the resources the right ones.             *)

\* The text of a request says what the client means.
IsMeant(r) ==
  /\ UrlDecode(r.target, FALSE) = r.path
  /\ Params(r.query).good => Params(r.query).kv = FirstValues(r.params)
TextsAreMeant == \A i \in Inputs : \A k \in 1 .. Len(i.requests) : IsMeant(i.requests[k])

\* No file that may vanish is in front of a handler that sets the connection.
IsPlain(r, i) ==
  \A j \in 1 .. Len(Handlers(r)) :
    r.path \in Handlers(r)[j].paths /\ Handlers(r)[j].connection # "" =>
      Lookup(i.tree, BaseDir, RequestPath(r.path)) \notin i.fleeting
NoneInFront == \A i \in Inputs : \A k \in 1 .. Len(i.requests) : IsPlain(i.requests[k], i)

LEMMA SameDirs ==
  ASSUME NEW t, NEW u, t.dirs = u.dirs, NEW path
  PROVE  Lookup(t, BaseDir, path) = Lookup(u, BaseDir, path)
BY DEF Lookup

\* What a request asks for stays the same.
LEMMA SameStays ==
  ASSUME SameDisk, NEW r
  PROVE  /\ AsksForFile(r)' = AsksForFile(r) /\ Stays(r)' = Stays(r)
         /\ PlaceOf(r)' = PlaceOf(r) /\ Resource(r)' = Resource(r)
<1> DEFINE path == RequestPath(r.path)
           below == StaysBelow(r.path)
           handlers == Handlers(r)
           handler == HandlerOf(r)
           wellFormed == WellFormed(r)
<1>1. PlaceOf(r)' = PlaceOf(r)
  <2>1. Lookup(tree', BaseDir, path) = Lookup(tree, BaseDir, path)
    <3>1. tree'.dirs = tree.dirs
      BY DEF SameDisk
    <3> QED BY <3>1, SameDirs
  <2> QED BY <2>1 DEF PlaceOf
<1>2. AsksForFile(r)' = AsksForFile(r)
  <2>1. AsksForFile(r) = (r.method \in {"GET", "HEAD"} /\ below /\ PlaceOf(r) \in tree.files \cup vanished)
    BY DEF AsksForFile
  <2>2. AsksForFile(r)' =
          (r.method \in {"GET", "HEAD"} /\ below /\ PlaceOf(r)' \in tree'.files \cup vanished')
    BY DEF AsksForFile
  <2>3. tree'.files \cup vanished' = tree.files \cup vanished
    BY DEF SameDisk
  <2> HIDE DEF below
  <2> QED BY <1>1, <2>1, <2>2, <2>3, Zenon
<1>3. SetsConnection(r) = (~ AsksForFile(r) /\ handler # 0 /\ handlers[handler].connection # "")
  BY Zenon DEF SetsConnection
<1>4. SetsConnection(r)' = (~ AsksForFile(r)' /\ handler # 0 /\ handlers[handler].connection # "")
  BY Zenon DEF SetsConnection
<1>5. Stays(r) = /\ wellFormed
                 /\ IF SetsConnection(r) THEN handlers[handler].connection = "keep-alive"
                    ELSE \E k \in 1 .. Len(r.lines) : r.lines[k] = "keep-alive"
  BY Zenon DEF Stays
<1>6. Stays(r)' = /\ wellFormed
                  /\ IF SetsConnection(r)' THEN handlers[handler].connection = "keep-alive"
                     ELSE \E k \in 1 .. Len(r.lines) : r.lines[k] = "keep-alive"
  BY Zenon DEF Stays
<1> HIDE DEF handler, handlers, wellFormed
<1>7. SetsConnection(r)' = SetsConnection(r)
  BY <1>2, <1>3, <1>4, Zenon
<1>8. Stays(r)' = Stays(r)
  BY <1>5, <1>6, <1>7, Zenon
<1>9. Resource(r)' = Resource(r)
  <2>1. AsksForFile(r)' <=> AsksForFile(r)
    BY <1>2, Zenon
  <2>2. CASE AsksForFile(r)
    <3>1. Resource(r) = Content("file", PlaceOf(r), ExtMime(Last(PlaceOf(r)), Mimes))
      BY <2>2, Zenon DEF Resource
    <3>2. Resource(r)' = Content("file", PlaceOf(r)', ExtMime(Last(PlaceOf(r)'), Mimes))
      BY <2>1, <2>2, Zenon DEF Resource
    <3> QED BY <1>1, <3>1, <3>2, Zenon
  <2>3. CASE ~ AsksForFile(r)
    <3> DEFINE content == IF HandlerOf(r) # 0 THEN Content("handler", <<HandlerOf(r)>>, <<>>)
                          ELSE NoContent
    <3>1. Resource(r) = content
      BY <2>3, Zenon DEF Resource
    <3>2. Resource(r)' = content
      BY <2>1, <2>3, Zenon DEF Resource
    <3> QED BY <3>1, <3>2, Zenon
  <2> QED BY <2>2, <2>3
<1> QED BY <1>1, <1>2, <1>8, <1>9, Zenon

\* The context has what the client means, and all of it.
KeepsAlive(r) == \E k \in 1 .. Len(r.lines) : r.lines[k] = "keep-alive"
Understood ==
  /\ ctx.req \in 1 .. Len(sent)
  /\ sent[ctx.req] \in Requests /\ WellFormed(sent[ctx.req])
  /\ ctx.path = sent[ctx.req].path /\ ctx.params = FirstValues(sent[ctx.req].params)
  /\ ctx.body = BodyText(ctx.req, sent[ctx.req].body)
  /\ "keep-alive" \in ctx.heads <=> KeepsAlive(sent[ctx.req])

LEMMA OverIs ==
  ASSUME WorldInv, CtxInv, DiskInv, TextsAreMeant, NEW L, NEW p, IsAt(sent, ctx, L, p),
         ctx.recv = "over"
  PROVE  Understood
<1> DEFINE i == ctx.req
           r == sent[i]
           m == Len(r.lines)
<1>1. /\ i \in 1 .. Len(sent) /\ ctx.path = UrlDecode(r.target, FALSE)
      /\ ctx.params = Params(r.query).kv
  BY DEF IsAt, Requested
<1>2. /\ Begun(r, m - 1) /\ ctx.heads = Heads(r, m - 1) /\ Len(ctx.body) = r.body
      /\ \A k \in 1 .. Len(ctx.body) : ctx.body[k] = BodyPiece(i, k)
  BY DEF IsAt, InBody
<1>3. r \in Requests
  BY <1>1, ElementOfSeq DEF WorldInv
<1>4. IsMeant(r)
  <2>1. PICK input \in Inputs : sent = input.requests
    BY DEF DiskInv, IsInput
  <2> QED BY <1>1, <2>1 DEF TextsAreMeant
<1> HIDE DEF r
<1>5. WellFormed(r)
  BY <1>2, <1>3, WellFormedIs
<1>6. ctx.path = r.path /\ ctx.params = FirstValues(r.params)
  BY <1>1, <1>2, <1>4 DEF IsMeant, Begun
<1>7. ctx.body = BodyText(i, r.body)
  <2>1. ctx.body \in Seq(Piece) /\ r.body \in Nat
    BY <1>3, RequestIs DEF CtxInv
  <2>2. ctx.body = [k \in 1 .. r.body |-> ctx.body[k]]
    BY <1>2, <2>1
  <2>3. \A k \in 1 .. r.body : ctx.body[k] = BodyPiece(i, k)
    BY <1>2
  <2>4. BodyText(i, r.body) = [k \in 1 .. r.body |-> BodyPiece(i, k)]
    BY DEF BodyText, BodyPiece
  <2> QED BY <2>2, <2>3, <2>4
<1>8. "keep-alive" \in ctx.heads <=> KeepsAlive(r)
  <2>1. m \in Nat \ {0} /\ \A k \in 1 .. m : r.lines[k] = "empty" <=> k = m
    BY <1>3, RequestIs DEF Framed
  <2>2. r.lines[1] = "request"
    BY <1>2 DEF Begun
  <2>3. "keep-alive" \in ctx.heads <=> \E k \in 2 .. m - 1 : r.lines[k] = "keep-alive"
    BY <1>2 DEF Heads
  <2> HIDE DEF m
  <2>4. \A k \in 1 .. m : r.lines[k] = "keep-alive" => k \in 2 .. m - 1
    <3> SUFFICES ASSUME NEW k \in 1 .. m, r.lines[k] = "keep-alive" PROVE k \in 2 .. m - 1
      OBVIOUS
    <3>1. k # 1 /\ k # m
      BY <2>1, <2>2
    <3> QED BY <2>1, <3>1
  <2>5. \A k \in 2 .. m - 1 : k \in 1 .. m
    BY <2>1
  <2>6. "keep-alive" \in ctx.heads <=> \E k \in 1 .. m : r.lines[k] = "keep-alive"
    BY <2>3, <2>4, <2>5
  <2> QED BY <2>6 DEF KeepsAlive, m
<1> QED BY <1>1, <1>3, <1>5, <1>6, <1>7, <1>8 DEF Understood, r

\* An answer is its request's own.
Own(resp) ==
  /\ resp.req \in 1 .. Len(sent)
  /\ LET r == sent[resp.req]
     IN /\ resp.keep = Stays(r) /\ resp.body = BodyText(resp.req, r.body)
        /\ resp.path = r.path /\ resp.params = FirstValues(r.params)

\* What is answered is the right thing, and of the right type unless the path is cut.
IsRight(code, content, right, path) ==
  /\ content.kind = right.kind /\ content.of = right.of
  /\ content.type = right.type \/ Nul \in ToSet(path)
  /\ code = 404 <=> right = NoContent

\* Its resource is the one that its request names, unless a file has vanished.
Right(resp) ==
  LET r == sent[resp.req]
  IN PlaceOf(r) \in vanished \/ IsRight(resp.code, resp.content, Resource(r), r.path)

Good(resp) == (NoneInFront => Own(resp)) /\ Right(resp)

LEMMA SameGood ==
  ASSUME sent' = sent, SameDisk, NEW resp, Good(resp)
  PROVE  Good(resp)'
<1>1. ASSUME NoneInFront PROVE Own(resp)'
  BY <1>1, SameStays DEF Good, Own
<1>2. PICK r : r = sent[resp.req] /\ r = sent'[resp.req]
  OBVIOUS
<1>3. PlaceOf(r)' = PlaceOf(r) /\ Resource(r)' = Resource(r) /\ vanished \subseteq vanished'
  BY SameStays DEF SameDisk
<1>4. PlaceOf(r) \in vanished \/ IsRight(resp.code, resp.content, Resource(r), r.path)
  BY <1>2, Zenon DEF Good, Right
<1>5. PlaceOf(r)' \in vanished' \/ IsRight(resp.code, resp.content, Resource(r)', r.path)
  BY <1>3, <1>4
<1>6. Right(resp)'
  BY <1>2, <1>5 DEF Right
<1> QED BY <1>1, <1>6 DEF Good

LEMMA SameTruth ==
  ASSUME NEW x, NEW S, NEW r, x \in S <=> KeepsAlive(r) PROVE (x \in S) = KeepsAlive(r)
<1>1. CASE x \in S
  <2>1. (x \in S) = TRUE
    BY <1>1, Zenon
  <2>2. KeepsAlive(r) = TRUE
    BY <1>1, Zenon DEF KeepsAlive
  <2> QED BY <2>1, <2>2, Zenon
<1>2. CASE ~ (x \in S)
  <2>1. (x \in S) = FALSE
    BY <1>2, SMT
  <2>2. KeepsAlive(r) = FALSE
    BY <1>2, Zenon DEF KeepsAlive
  <2> QED BY <2>1, <2>2, Zenon
<1> QED BY <1>1, <1>2

\* It is, if the connection is what is said of it.
LEMMA OwnIs ==
  ASSUME Understood, NEW code, NEW content, NEW connection,
         Stays(sent[ctx.req]) = (IF connection # "" THEN connection = "keep-alive"
                                 ELSE KeepsAlive(sent[ctx.req]))
  PROVE  Own(Response(ctx.req, code, content, connection))
<1> DEFINE resp == Response(ctx.req, code, content, connection)
           r == sent[ctx.req]
           keeps == IF connection # "" THEN connection = "keep-alive" ELSE "keep-alive" \in ctx.heads
<1>1. /\ resp.req = ctx.req /\ resp.path = ctx.path /\ resp.params = ctx.params
      /\ resp.body = ctx.body
  BY DEF Response
<1>2. resp.keep = keeps
  BY Zenon DEF Response
<1>3. ("keep-alive" \in ctx.heads) = KeepsAlive(r)
  <2>1. "keep-alive" \in ctx.heads <=> KeepsAlive(r)
    BY DEF Understood
  <2> QED BY <2>1, SameTruth, Zenon
<1>4. keeps = Stays(r)
  BY <1>3, Zenon
<1> HIDE DEF resp, keeps
<1>5. resp.keep = Stays(r)
  BY <1>2, <1>4, Zenon
<1>6. /\ resp.req \in 1 .. Len(sent) /\ resp.body = BodyText(ctx.req, r.body)
      /\ resp.path = r.path /\ resp.params = FirstValues(r.params)
  BY <1>1 DEF Understood
<1>7. Own(resp)
  BY <1>1, <1>5, <1>6, Zenon DEF Own
<1> QED BY <1>7 DEF resp

\* The answer of the file handler, and of a handler.
LEMMA FileOwn ==
  ASSUME Understood, NEW code, NEW content, AsksForFile(sent[ctx.req])
  PROVE  Own(Response(ctx.req, code, content, ""))
<1> DEFINE r == sent[ctx.req]
<1>1. Stays(r) = KeepsAlive(r)
  <2>1. ~ SetsConnection(r)
    BY DEF SetsConnection
  <2>2. WellFormed(r)
    BY DEF Understood
  <2> QED BY <2>1, <2>2, Zenon DEF Stays, KeepsAlive
<1> QED BY <1>1, OwnIs

\* The handlers of a request, and the one that is called.
Found(r) == {k \in 1 .. Len(Handlers(r)) : r.path \in Handlers(r)[k].paths}

LEMMA HandlerIs ==
  ASSUME NEW r \in Requests
  PROVE  /\ Found(r) = {} => HandlerOf(r) = 0
         /\ Found(r) # {} => HandlerOf(r) = Min(Found(r)) /\ HandlerOf(r) \in Found(r)
                             /\ HandlerOf(r) # 0
<1>1. r.method \in Methods
  BY DEF Requests
<1> DEFINE m == IF r.method = "HEAD" THEN "GET" ELSE r.method
<1>2. m \in DOMAIN Routes
  BY <1>1, HttpAssumption DEF Methods
<1>3. Len(Handlers(r)) \in Nat
  <2>1. Handlers(r) = Routes[m]
    BY DEF Handlers
  <2> HIDE DEF m
  <2>2. Routes[m] \in Seq([paths : SUBSET Seq(Byte), connection : STRING])
    BY <1>2, HttpAssumption
  <2> QED BY <2>1, <2>2, LenProperties
<1>4. Found(r) \in SUBSET Nat /\ 0 \notin Found(r)
  BY <1>3 DEF Found
<1>5. HandlerOf(r) = IF Found(r) = {} THEN 0 ELSE Min(Found(r))
  BY DEF HandlerOf, Found
<1>6. CASE Found(r) # {}
  <2>1. Min(Found(r)) \in Found(r)
    BY <1>4, <1>6, MinOf
  <2> QED BY <1>4, <1>5, <1>6, <2>1
<1> QED BY <1>5, <1>6

LEMMA DispatcherGood ==
  ASSUME DiskInv, Understood, Dispatcher
  PROVE  \E resp : AnswerRequest(resp) /\ Good(resp)
<1> DEFINE r == sent[ctx.req]
           k == Min(Found(r))
           connection == Handlers(r)[k].connection
           none == Response(ctx.req, 404, NoContent, "")
           some == Response(ctx.req, 200, Content("handler", <<k>>, <<>>), connection)
<1>1. r \in Requests /\ WellFormed(r) /\ ctx.path = r.path /\ ctx.req \in 1 .. Len(sent)
  BY DEF Understood
<1>2. AnswerRequest(IF Found(r) = {} THEN none ELSE some) /\ ~ IsFileHandler
  <2> DEFINE found == {j \in 1 .. Len(Handlers(r)) : ctx.path \in Handlers(r)[j].paths}
  <2>1. /\ AnswerRequest(IF found = {} THEN none
                         ELSE Response(ctx.req, 200, Content("handler", <<Min(found)>>, <<>>),
                                       Handlers(r)[Min(found)].connection))
        /\ ~ IsFileHandler
    BY Zenon DEF Dispatcher, Method, Handlers
  <2>2. found = Found(r)
    BY <1>1 DEF Found
  <2> HIDE DEF found
  <2> QED BY <2>1, <2>2, Zenon
<1>3. ASSUME ~ SetsConnection(r) PROVE Stays(r) = KeepsAlive(r)
  <2>1. WellFormed(r)
    BY <1>1
  <2> QED BY <1>3, <2>1, Zenon DEF Stays, KeepsAlive
<1>4. ASSUME AsksForFile(r) PROVE PlaceOf(r) \notin tree.files /\ PlaceOf(r) \in vanished
  <2>1. /\ r.method \in {"GET", "HEAD"} /\ StaysBelow(r.path)
        /\ PlaceOf(r) \in tree.files \cup vanished
    BY <1>4 DEF AsksForFile
  <2>2. r.path \in Seq(Byte)
    BY <1>1 DEF Requests
  <2>3. ValidPath(ctx.path)
    BY <1>1, <2>1, <2>2, ValidPathsStayBelow
  <2>4. PlaceOf(r) \notin tree.files
    BY <1>1, <1>2, <2>1, <2>3 DEF IsFileHandler, Method, PlaceOf, IsFileExists
  <2> QED BY <2>1, <2>4
<1>5. CASE Found(r) = {}
  <2>1. HandlerOf(r) = 0
    BY <1>1, <1>5, HandlerIs
  <2>2. Stays(r) = KeepsAlive(r)
    BY <1>3, <2>1 DEF SetsConnection
  <2>3. Own(none)
    BY <2>2, OwnIs, ZenonT(40)
  <2>4. Right(none)
    <3>1. none.req = ctx.req /\ none.code = 404 /\ none.content = NoContent
      BY DEF Response
    <3>2. ~ AsksForFile(r) => Resource(r) = NoContent
      BY <2>1 DEF Resource
    <3> HIDE DEF none
    <3> QED BY <1>4, <3>1, <3>2 DEF Right, IsRight
  <2>5. AnswerRequest(none)
    <3> HIDE DEF none, some
    <3> QED BY <1>2, <1>5
  <2> QED BY <2>3, <2>4, <2>5 DEF Good
<1>6. CASE Found(r) # {}
  <2>1. HandlerOf(r) = k /\ k \in Found(r) /\ k # 0
    BY <1>1, <1>6, HandlerIs
  <2>2. ASSUME connection = "" PROVE Own(some)
    <3>1. ~ SetsConnection(r)
      BY <2>1, <2>2 DEF SetsConnection
    <3>2. Stays(r) = KeepsAlive(r)
      BY <1>3, <3>1
    <3> HIDE DEF k, connection
    <3>3. Stays(r) = (IF connection # "" THEN connection = "keep-alive" ELSE KeepsAlive(r))
      BY <2>2, <3>2, Zenon
    <3> QED BY <3>3, OwnIs, Zenon DEF some
  <2>3. ASSUME connection # "", NoneInFront PROVE Own(some)
    <3>1. ~ AsksForFile(r)
      <4> SUFFICES ASSUME AsksForFile(r) PROVE FALSE
        OBVIOUS
      <4>5. PICK i \in Inputs : IsInput(i)
        BY DEF DiskInv
      <4>6. PlaceOf(r) \in i.fleeting /\ tree.dirs = i.tree.dirs /\ sent = i.requests
        BY <1>4, <4>5 DEF IsInput
      <4>7. PlaceOf(r) = Lookup(i.tree, BaseDir, RequestPath(r.path))
        BY <4>6, SameDirs DEF PlaceOf
      <4>8. IsPlain(r, i)
        BY <1>1, <2>3, <4>5, <4>6 DEF NoneInFront
      <4>9. k \in 1 .. Len(Handlers(r)) /\ r.path \in Handlers(r)[k].paths
        BY <2>1 DEF Found
      <4> HIDE DEF k, r
      <4> QED BY <2>3, <4>6, <4>7, <4>8, <4>9 DEF IsPlain
    <3>2. SetsConnection(r)
      BY <2>1, <2>3, <3>1 DEF SetsConnection
    <3>3. WellFormed(r)
      BY <1>1
    <3>4. Stays(r) = (connection = "keep-alive")
      <4>1. Stays(r) = (Handlers(r)[HandlerOf(r)].connection = "keep-alive")
        BY <3>2, <3>3, Zenon DEF Stays
      <4> QED BY <2>1, <4>1, Zenon
    <3> HIDE DEF k, connection
    <3>5. Stays(r) = (IF connection # "" THEN connection = "keep-alive" ELSE KeepsAlive(r))
      BY <2>3, <3>4, Zenon
    <3> QED BY <3>5, OwnIs, Zenon DEF some
  <2>4. ASSUME NoneInFront PROVE Own(some)
    <3> HIDE DEF some
    <3> QED BY <2>2, <2>3, <2>4, Zenon
  <2>5. Right(some)
    <3> DEFINE content == Content("handler", <<k>>, <<>>)
    <3>1. some.req = ctx.req /\ some.code = 200 /\ some.content = content
      BY DEF Response
    <3>2. content # NoContent
      <4>1. content.kind = "handler" /\ NoContent.kind = "none"
        BY DEF Content, NoContent
      <4> HIDE DEF content
      <4> QED BY <4>1
    <3>3. ~ AsksForFile(r) => Resource(r) = content
      BY <2>1 DEF Resource
    <3> HIDE DEF some, content
    <3> QED BY <1>4, <3>1, <3>2, <3>3 DEF Right, IsRight
  <2>6. AnswerRequest(some)
    <3> HIDE DEF none, some
    <3> QED BY <1>2, <1>6
  <2> HIDE DEF some
  <2> QED BY <2>4, <2>5, <2>6 DEF Good
<1> QED BY <1>5, <1>6

LEMMA FileHandlerGood ==
  ASSUME WorldInv, DiskInv, WaitInv, Understood, FileHandler
  PROVE  UNCHANGED <<buf, ctx, out>> \/ \E resp : AnswerRequest(resp) /\ Good(resp)
<1> DEFINE r == sent[ctx.req]
           path == RequestPath(ctx.path)
           place == Lookup(tree, BaseDir, path)
           type == ExtMime(path, Mimes)
           resp == Response(ctx.req, 200, Content("file", place, type), "")
<1>1. CASE IsFileExists(tree, BaseDir, path)
  <2>1. AnswerRequest(resp)
    BY <1>1 DEF FileHandler
  <2>2. ValidPath(ctx.path) /\ r.method \in {"GET", "HEAD"}
    BY DEF FileHandler, In, WaitInv, OnTop, Method
  <2>3. r.path \in Seq(Byte) /\ ctx.path = r.path
    BY DEF Understood, Requests
  <2>4. StaysBelow(r.path)
    BY <2>2, <2>3, ValidPathsStayBelow
  <2>5. AsksForFile(r)
    BY <1>1, <2>2, <2>3, <2>4 DEF AsksForFile, PlaceOf, IsFileExists
  <2>6. Own(resp)
    <3> HIDE DEF place, type
    <3> QED BY <2>5, FileOwn
  <2>7. type = ExtMime(Last(place), Mimes) \/ Nul \in ToSet(r.path)
    <3>1. IsDisk(tree) /\ BaseDir \in tree.dirs /\ \A m \in Mimes : Slash \notin ToSet(m)
      BY TreeIsDisk, HttpAssumption
    <3>2. path \in Seq(Byte)
      BY <2>3, PathIsCut
    <3>3. c_str(path) = path \/ Nul \in ToSet(r.path)
      <4>1. ASSUME NEW m \in 0 .. Len(r.path) - 1, r.path[m + 1] = Nul
            PROVE  Nul \in ToSet(r.path)
        <5>1. m + 1 \in 1 .. Len(r.path)
          BY <2>3, LenProperties
        <5> QED BY <4>1, <5>1 DEF ToSet
      <4> QED BY <2>3, <4>1, PathIsCut
    <3> HIDE DEF path
    <3> QED BY <1>1, <3>1, <3>2, <3>3, FileHasItsType
  <2>8. Right(resp)
    <3> DEFINE content == Content("file", place, type)
    <3>1. resp.req = ctx.req /\ resp.code = 200 /\ resp.content = content
      BY DEF Response
    <3>2. PlaceOf(r) = place
      BY <2>3 DEF PlaceOf
    <3> HIDE DEF place, type
    <3>3. Resource(r) = Content("file", place, ExtMime(Last(place), Mimes))
      BY <2>5, <3>2 DEF Resource
    <3>4. /\ content.kind = Resource(r).kind /\ content.of = Resource(r).of
          /\ content.type = Resource(r).type \/ Nul \in ToSet(r.path)
          /\ Resource(r) # NoContent
      BY <2>7, <3>3 DEF Content, NoContent
    <3> HIDE DEF resp, content
    <3> QED BY <3>1, <3>4 DEF Right, IsRight
  <2> HIDE DEF resp
  <2> QED BY <2>1, <2>6, <2>8 DEF Good
<1>2. CASE ~ IsFileExists(tree, BaseDir, path)
  BY <1>2 DEF FileHandler
<1> QED BY <1>1, <1>2

GoodInv == \A k \in 1 .. Len(out) : out[k].req # 0 => Good(out[k])

LEMMA GoodMore ==
  ASSUME OutInv, GoodInv, sent' = sent, SameDisk, NEW resp, out' = Append(out, resp),
         resp.req # 0 => Good(resp)
  PROVE  GoodInv'
<1>1. PICK R : out \in Seq(R)
  BY DEF OutInv
<1> DEFINE S == R \cup {resp}
<1>2. out \in Seq(S) /\ resp \in S
  BY <1>1
<1> HIDE DEF S
<1>3. /\ out' \in Seq(S) /\ Len(out') = Len(out) + 1
      /\ \A i \in 1 .. Len(out) : out'[i] = out[i]
      /\ out'[Len(out) + 1] = resp
  BY <1>2, AppendProperties
<1>4. Len(out) \in Nat
  BY <1>2, LenProperties
<1>5. ASSUME NEW answer, Good(answer) PROVE Good(answer)'
  BY <1>5, SameGood
<1>6. ASSUME NEW k \in 1 .. Len(out'), out'[k].req # 0 PROVE Good(out'[k])
  <2>1. k \in 1 .. Len(out) \/ k = Len(out) + 1
    BY <1>3, <1>4
  <2>2. CASE k \in 1 .. Len(out)
    <3>1. out'[k] = out[k]
      BY <1>3, <2>2
    <3> QED BY <1>6, <2>2, <3>1 DEF GoodInv
  <2>3. CASE k = Len(out) + 1
    <3>1. out'[k] = resp
      BY <1>3, <2>3
    <3> QED BY <1>6, <3>1
  <2> QED BY <2>1, <2>2, <2>3
<1>7. ASSUME NEW k \in 1 .. Len(out'), out'[k].req # 0 PROVE Good(out[k])'
  <2>1. PICK answer : answer = out'[k]
    OBVIOUS
  <2>2. Good(answer)'
    BY <1>5, <1>6, <1>7, <2>1
  <2> QED BY <2>1, <2>2 DEF Good, Own, Right
<1> QED BY <1>7 DEF GoodInv

LEMMA GoodStep ==
  ASSUME TextsAreMeant, TypeInv, WaitInv, OutInv, OrderInv, DiskInv, GoodInv,
         [Next]_vars
  PROVE  GoodInv'
<1>1. WorldInv /\ TextInv /\ CtxInv /\ sent' = sent /\ SameDisk
  BY WorldStep, DiskStep DEF TypeInv
<1>2. CASE out' = out
  <2>1. ASSUME NEW answer, Good(answer) PROVE Good(answer)'
    BY <1>1, <2>1, SameGood
  <2>2. ASSUME NEW k \in 1 .. Len(out'), out'[k].req # 0 PROVE Good(out[k])'
    <3>1. PICK answer : answer = out'[k]
      OBVIOUS
    <3>2. Good(answer)
      BY <1>2, <2>2, <3>1 DEF GoodInv
    <3>3. Good(answer)'
      BY <2>1, <3>2
    <3> QED BY <3>1, <3>3 DEF Good, Own, Right
  <2> QED BY <2>2 DEF GoodInv
<1>3. CASE AnswerError
  <2> DEFINE resp == Response(0, ctx.resp, Page, "")
  <2>1. resp.req = 0
    BY DEF Response
  <2>2. out' = Append(out, resp)
    BY <1>3 DEF AnswerError
  <2> HIDE DEF resp
  <2> QED BY <1>1, <2>1, <2>2, GoodMore
<1>4. ASSUME ctx.recv = "over" PROVE Understood
  <2>1. PICK E, L, p : Placed(E, L, p, Len(out) + 1)
    BY DEF OrderInv
  <2>2. IsAt(sent, ctx, L, p)
    BY <2>1 DEF Placed
  <2> QED BY <1>1, <1>4, <2>2, OverIs
<1>5. ASSUME NEW resp, AnswerRequest(resp), Good(resp) PROVE GoodInv'
  <2>1. out' = Append(out, resp)
    BY <1>5 DEF AnswerRequest
  <2> QED BY <1>1, <1>5, <2>1, GoodMore
<1>6. CASE Dispatcher
  <2>1. ctx.recv = "over"
    BY <1>6 DEF Dispatcher, Complete
  <2> QED BY <1>4, <1>5, <1>6, <2>1, DispatcherGood
<1>7. CASE FileHandler
  <2>1. ctx.recv = "over"
    BY <1>7 DEF FileHandler, In, WaitInv, OnTop
  <2> QED BY <1>1, <1>2, <1>4, <1>5, <1>7, <2>1, FileHandlerGood
<1>8. Next => out' = out \/ AnswerError \/ Dispatcher \/ FileHandler
  BY DEF Next, Loop, OnMessage, HandleReadData, HandleReadEnd, DrainCallsBack, ShutdownEnds,
     ReleaseInLoop, NeedsMore, LineTooLong, RecvHttpLine, RecvHttpHead, RecvHttpBody,
     OnMessageParses, OnMessageReturns, RouteToFile, Vanish
<1>9. UNCHANGED vars => out' = out
  BY DEF vars
<1> QED BY <1>2, <1>3, <1>6, <1>7, <1>8, <1>9

LEMMA GoodHolds == ASSUME TextsAreMeant PROVE Spec => []GoodInv
<1>1. Init => OutInv /\ OrderInv /\ DiskInv /\ GoodInv
  BY InitOrder, InitDisk DEF Init, OutInv, GoodInv, ServedFromBaseDir
<1>2. TypeInv /\ WaitInv /\ OutInv /\ OrderInv /\ DiskInv /\ GoodInv /\ [Next]_vars
        => OutInv' /\ OrderInv' /\ DiskInv' /\ GoodInv'
  <2>1. TypeInv => WorldInv
    BY DEF TypeInv
  <2> QED BY <2>1, OutStep, OrderStep, DiskStep, GoodStep
<1> QED BY <1>1, <1>2, WaitsHold, PTL DEF Spec

\* Every answer is made of its own request: however the text is cut, and
\* whatever was answered before, it has the path, the parameters and the body
\* that the client has sent with it, and its own say about the connection.  What
\* the client means is what its text says, and no file that may vanish hides a
\* handler that sets the connection.
THEOREM AnswersAreOwn ==
  ASSUME TextsAreMeant, NoneInFront PROVE Spec => []AnswersAreTheirOwn
<1>1. GoodInv => AnswersAreTheirOwn
  BY DEF GoodInv, Good, Own, AnswersAreTheirOwn
<1> QED BY <1>1, GoodHolds, PTL

\* Route gives every request the resource that its path names: the file, or else
\* the first handler of its method for the path, or 404.  The file has the type of
\* its own name, though the code takes it from the path; only where the path has a
\* byte 0, and stat() and ifstream see less of it, the type may be another.  Where
\* a file vanishes the request may get either.
THEOREM RightResourceIsGiven == ASSUME TextsAreMeant PROVE Spec => []RightResource
<1>1. GoodInv => RightResource
  <2> SUFFICES ASSUME GoodInv, NEW k \in 1 .. Len(out), out[k].req # 0 PROVE Right(out[k])
    BY DEF RightResource, Right, IsRight
  <2> QED BY DEF GoodInv, Good
<1> QED BY <1>1, GoodHolds, PTL

-----------------------------------------------------------------------------
(* What a client encodes is decoded again.                                  *)

\* The bytes that UrlEncode has two digits for.
Ascii == 0 .. 127

\* What one byte is written as.
AsItIs(c, enc) == enc = <<c>> /\ c # Plus /\ c # Percent
AsPlus(c, plus, enc) == plus /\ c = Space /\ enc = <<Plus>>
InHex(c, enc) == \E x, y \in Byte : enc = <<Percent, x, y>> /\ HexPair(x, y) = c
IsEncoded(c, plus, enc) == AsItIs(c, enc) \/ AsPlus(c, plus, enc) \/ InHex(c, enc)

\* A text stands behind a place in another.
Stands(url, p, enc) ==
  p + Len(enc) <= Len(url) /\ \A j \in 1 .. Len(enc) : url[p + j] = enc[j]

LEMMA HexDigitsAre == \A n \in 0 .. 15 : HexDigit(n) \in Byte /\ HEXTOI(HexDigit(n)) = n
<1> SUFFICES ASSUME NEW n \in 0 .. 15 PROVE HexDigit(n) \in Byte /\ HEXTOI(HexDigit(n)) = n
  OBVIOUS
<1>1. CASE n < 10
  <2>1. HexDigit(n) = 48 + n
    BY <1>1 DEF HexDigit
  <2>2. IsDigit(48 + n) /\ ~ IsLower(48 + n) /\ ~ IsUpper(48 + n)
    BY <1>1 DEF IsDigit, IsLower, IsUpper
  <2>3. HEXTOI(48 + n) = (48 + n) - 48
    BY <2>2, Zenon DEF HEXTOI
  <2> QED BY <1>1, <2>1, <2>3 DEF Byte
<1>2. CASE ~ (n < 10)
  <2>1. HexDigit(n) = 55 + n
    BY <1>2 DEF HexDigit
  <2>2. ~ IsDigit(55 + n) /\ ~ IsLower(55 + n) /\ IsUpper(55 + n)
    BY <1>2 DEF IsDigit, IsLower, IsUpper
  <2>3. HEXTOI(55 + n) = (55 + n) - 65 + 10
    BY <2>2, Zenon DEF HEXTOI
  <2> QED BY <1>2, <2>1, <2>3 DEF Byte
<1> QED BY <1>1, <1>2

LEMMA EncodedIs ==
  ASSUME NEW c \in Ascii, NEW plus
  PROVE  LET enc == Encoded(c, plus)
         IN enc \in Seq(Byte) /\ IsEncoded(c, plus, enc)
<1> DEFINE enc == Encoded(c, plus)
           kept == c \in {Dot, Dash, Underscore, Tilde} \/ IsAlnum(c)
           hex == <<Percent, HexDigit(c \div 16), HexDigit(c % 16)>>
<1>1. CASE kept
  <2>1. enc = <<c>>
    <3>1. c # Space /\ ~ (c >= 128)
      BY <1>1 DEF IsAlnum, IsDigit, IsLower, IsUpper, Dot, Dash, Underscore, Tilde, Space, Ascii
    <3> QED BY <1>1, <3>1, Zenon DEF Encoded
  <2>2. c # Plus /\ c # Percent
    BY <1>1 DEF IsAlnum, IsDigit, IsLower, IsUpper, Dot, Dash, Underscore, Tilde, Plus, Percent
  <2>3. <<c>> \in Seq(Byte)
    BY DEF Ascii, Byte
  <2> QED BY <2>1, <2>2, <2>3 DEF AsItIs, IsEncoded
<1>2. CASE ~ kept /\ c = Space /\ plus
  <2>1. enc = <<Plus>>
    <3>1. ~ (c >= 128)
      BY DEF Ascii
    <3> QED BY <1>2, <3>1, Zenon DEF Encoded
  <2>2. <<Plus>> \in Seq(Byte)
    BY DEF Plus, Byte
  <2> QED BY <1>2, <2>1, <2>2 DEF AsPlus, IsEncoded
<1>3. CASE ~ kept /\ ~ (c = Space /\ plus)
  <2>1. ~ (c >= 128)
    BY DEF Ascii
  <2>2. enc = hex
    BY <1>3, <2>1, Zenon DEF Encoded
  <2>3. c \div 16 \in 0 .. 15 /\ c % 16 \in 0 .. 15 /\ ((c \div 16) * 16 + (c % 16)) % 256 = c
    BY DEF Ascii
  <2>4. PICK x \in Byte, y \in Byte :
          /\ x = HexDigit(c \div 16) /\ HEXTOI(x) = c \div 16
          /\ y = HexDigit(c % 16) /\ HEXTOI(y) = c % 16
    BY <2>3, HexDigitsAre
  <2>5. HexPair(x, y) = c
    BY <2>3, <2>4 DEF HexPair
  <2>6. enc = <<Percent, x, y>>
    BY <2>2, <2>4
  <2>7. <<Percent, x, y>> \in Seq(Byte)
    BY DEF Percent, Byte
  <2>8. InHex(c, enc)
    <3> HIDE DEF enc
    <3> QED BY <2>5, <2>6, Zenon DEF InHex
  <2> QED BY <2>6, <2>7, <2>8 DEF IsEncoded
<1> HIDE DEF kept
<1> QED BY <1>1, <1>2, <1>3

\* One byte of the text is decoded from what it was encoded as.
LEMMA DecodesOne ==
  ASSUME NEW url \in Seq(Byte), NEW plus, NEW from, Decoding(url, plus, from),
         NEW c \in Ascii, NEW enc, IsEncoded(c, plus, enc), NEW p \in Nat, Stands(url, p, enc)
  PROVE  /\ p + 1 \in 1 .. Len(url) + 1 /\ p + Len(enc) + 1 \in 1 .. Len(url) + 1
         /\ from[p + 1] = <<c>> \o from[p + Len(enc) + 1]
<1> DEFINE n == Len(url)
<1>1. n \in Nat
  BY LenProperties
<1>2. Plus # Percent
  BY DEF Plus, Percent
<1>3. \A k \in 1 .. n :
       /\ url[k] = Plus /\ plus => from[k] = <<Space>> \o from[k + 1]
       /\ k + 2 <= n /\ url[k] = Percent =>
            from[k] = <<HexPair(url[k + 1], url[k + 2])>> \o from[k + 3]
       /\ ~ (url[k] = Plus /\ plus) /\ ~ (k + 2 <= n /\ url[k] = Percent) =>
            from[k] = <<url[k]>> \o from[k + 1]
  BY DEF Decoding
<1>4. p + Len(enc) <= n /\ \A j \in 1 .. Len(enc) : url[p + j] = enc[j]
  BY DEF Stands
<1> HIDE DEF n
<1>5. ASSUME Len(enc) = 1
      PROVE  p + 1 \in 1 .. n /\ p + Len(enc) + 1 = (p + 1) + 1 /\ url[p + 1] = enc[1]
  BY <1>1, <1>5, <1>4 DEF n
<1>6. CASE AsItIs(c, enc)
  <2>1. enc[1] = c /\ Len(enc) = 1 /\ c # Plus /\ c # Percent
    BY <1>6 DEF AsItIs
  <2>2. p + 1 \in 1 .. n /\ p + Len(enc) + 1 = (p + 1) + 1 /\ url[p + 1] = c
    BY <1>5, <2>1
  <2>3. from[p + 1] = <<url[p + 1]>> \o from[(p + 1) + 1]
    BY <1>3, <2>1, <2>2
  <2> QED BY <1>1, <2>2, <2>3 DEF n
<1>7. CASE AsPlus(c, plus, enc)
  <2>1. enc[1] = Plus /\ Len(enc) = 1 /\ plus /\ c = Space
    BY <1>7 DEF AsPlus
  <2>2. p + 1 \in 1 .. n /\ p + Len(enc) + 1 = (p + 1) + 1 /\ url[p + 1] = Plus
    BY <1>5, <2>1
  <2>3. from[p + 1] = <<Space>> \o from[(p + 1) + 1]
    BY <1>3, <2>1, <2>2, Zenon
  <2> QED BY <1>1, <2>1, <2>2, <2>3 DEF n
<1>8. CASE InHex(c, enc)
  <2>1. PICK x, y \in Byte : enc = <<Percent, x, y>> /\ HexPair(x, y) = c
    BY <1>8 DEF InHex
  <2>2. Len(enc) = 3 /\ enc[1] = Percent /\ enc[2] = x /\ enc[3] = y
    BY <2>1
  <2>3. /\ p + 1 \in 1 .. n /\ (p + 1) + 2 <= n /\ p + Len(enc) + 1 = (p + 1) + 3
        /\ (p + 1) + 1 = p + 2 /\ (p + 1) + 2 = p + 3
    BY <1>1, <1>4, <2>2 DEF n
  <2>4. url[p + 1] = Percent /\ url[p + 2] = x /\ url[p + 3] = y
    BY <1>4, <2>2
  <2>5. from[p + 1] = <<HexPair(url[(p + 1) + 1], url[(p + 1) + 2])>> \o from[(p + 1) + 3]
    BY <1>3, <2>3, <2>4
  <2>6. from[p + 1] = <<c>> \o from[p + Len(enc) + 1]
    BY <2>1, <2>3, <2>4, <2>5
  <2> QED BY <1>1, <2>3, <2>6 DEF n
<1> QED BY <1>6, <1>7, <1>8 DEF IsEncoded

\* However a text is encoded, in a path or in a query, it is decoded as what it
\* was: plus and percent signs, spaces and separators among it (UrlEncode,
\* UrlDecode).  The text has no byte beyond 127; those are not encoded as they are.
THEOREM DecodingUndoesEncoding ==
  \A text \in Seq(Ascii), plus \in BOOLEAN : UrlDecode(UrlEncode(text, plus), plus) = text
<1> SUFFICES ASSUME NEW text \in Seq(Ascii), NEW plus \in BOOLEAN
             PROVE  UrlDecode(UrlEncode(text, plus), plus) = text
  OBVIOUS
<1> DEFINE n == Len(text)
           seqs == [k \in 1 .. n |-> Encoded(text[k], plus)]
           url == FlattenSeq(seqs)
<1>1. n \in Nat /\ \A k \in 1 .. n : text[k] \in Ascii
  BY LenProperties, ElementOfSeq
<1>2. UrlEncode(text, plus) = url
  BY DEF UrlEncode
<1>3. ASSUME NEW k \in 1 .. n
      PROVE  seqs[k] \in Seq(Byte) /\ IsEncoded(text[k], plus, seqs[k])
  <2>1. seqs[k] = Encoded(text[k], plus)
    OBVIOUS
  <2> HIDE DEF seqs, n
  <2> QED BY <1>1, <2>1, EncodedIs
<1>4. seqs \in Seq(Seq(Byte)) /\ Len(seqs) = n
  <2>1. seqs \in [1 .. n -> Seq(Byte)]
    BY <1>3
  <2> QED BY <1>1, <2>1
<1> HIDE DEF n, seqs
<1>5. url \in Seq(Byte)
  BY <1>4, Flattens
<1>6. PICK off : Offsets(seqs, off)
  BY <1>4, OffsetsAre
<1>7. PICK from : Decoding(url, plus, from)
  BY <1>5, DecodesBy
<1> HIDE DEF url
<1>8. /\ off \in [0 .. n -> Nat] /\ off[0] = 0 /\ off[n] = Len(url)
      /\ \A k \in 1 .. n : /\ off[k] = off[k - 1] + Len(seqs[k])
                          /\ \A j \in 1 .. Len(seqs[k]) : url[off[k - 1] + j] = seqs[k][j]
  BY <1>4, <1>6 DEF Offsets, url
<1>9. \A k \in 1 .. n : Len(seqs[k]) \in Nat
  BY <1>3, LenProperties
<1>10. \A k \in 1 .. n : off[k] <= off[n]
  <2>1. \A k \in 1 .. n : off[k - 1] <= off[k]
    <3> TAKE k \in 1 .. n
    <3>1. k - 1 \in 0 .. n
      BY <1>1
    <3>2. off[k - 1] \in Nat /\ Len(seqs[k]) \in Nat /\ off[k] = off[k - 1] + Len(seqs[k])
      BY <1>8, <1>9, <3>1
    <3> QED BY <3>2
  <2>2. \A j \in 0 .. n : off[j] <= off[n]
    BY <1>1, <1>8, <2>1, OffsetsGrow
  <2> QED BY <1>1, <2>2
<1>11. ASSUME NEW k \in 1 .. n
       PROVE  /\ from[off[k - 1] + 1] = <<text[k]>> \o from[off[k] + 1]
              /\ off[k] + 1 \in 1 .. Len(url) + 1
  <2> DEFINE p == off[k - 1]
             enc == seqs[k]
  <2>1. k - 1 \in 0 .. n /\ k \in 0 .. n
    BY <1>1
  <2>2. p \in Nat /\ off[k] = p + Len(enc) /\ off[k] <= Len(url)
    BY <1>8, <1>10, <2>1
  <2>3. \A j \in 1 .. Len(enc) : url[p + j] = enc[j]
    BY <1>8
  <2>4. text[k] \in Ascii
    BY <1>1
  <2>5. IsEncoded(text[k], plus, enc)
    BY <1>3
  <2> HIDE DEF p, enc
  <2>6. /\ p + Len(enc) + 1 \in 1 .. Len(url) + 1
        /\ from[p + 1] = <<text[k]>> \o from[p + Len(enc) + 1]
    <3>1. Stands(url, p, enc)
      BY <2>2, <2>3 DEF Stands
    <3>2. PICK c \in Ascii : c = text[k]
      BY <2>4
    <3>3. IsEncoded(c, plus, enc) /\ p \in Nat
      BY <2>2, <2>5, <3>2
    <3>4. /\ p + 1 \in 1 .. Len(url) + 1 /\ p + Len(enc) + 1 \in 1 .. Len(url) + 1
          /\ from[p + 1] = <<c>> \o from[p + Len(enc) + 1]
      BY <1>5, <1>7, <3>1, <3>3, DecodesOne
    <3> QED BY <3>2, <3>4
  <2> QED BY <2>2, <2>6 DEF p
<1> DEFINE says(s, m) == Len(s) = m /\ \A i \in 1 .. m : s[i] = text[n - m + i]
           M == {m \in Nat : m <= n => says(from[off[n - m] + 1], m)}
<1>12. \A k \in 1 .. Len(url) + 1 : from[k] \in Seq(Byte)
  BY <1>7 DEF Decoding
<1>13. 0 \in M
  <2>1. from[off[n] + 1] = <<>>
    BY <1>7, <1>8 DEF Decoding
  <2>2. n - 0 = n
    BY <1>1
  <2> QED BY <2>1, <2>2
<1>14. ASSUME NEW m \in M PROVE m + 1 \in M
  <2>1. m \in Nat /\ m + 1 \in Nat
    OBVIOUS
  <2> SUFFICES ASSUME m + 1 <= n PROVE says(from[off[n - (m + 1)] + 1], m + 1)
    BY <2>1
  <2> DEFINE k == n - m
             s == from[off[k] + 1]
             t == from[off[k - 1] + 1]
  <2>2. k \in 1 .. n /\ n - (m + 1) = k - 1 /\ n - (m + 1) + 1 = k /\ m <= n
    BY <1>1, <2>1
  <2>3. says(s, m)
    BY <2>2
  <2> HIDE DEF k, M
  <2>4. t = <<text[k]>> \o s /\ s \in Seq(Byte) /\ text[k] \in Byte
    <3>1. t = <<text[k]>> \o s /\ off[k] + 1 \in 1 .. Len(url) + 1
      BY <1>11, <2>2
    <3>2. text[k] \in Byte
      BY <1>1, <2>2 DEF Ascii, Byte
    <3> QED BY <1>12, <3>1, <3>2
  <2> HIDE DEF s, t
  <2>5. <<text[k]>> \in Seq(Byte) /\ Len(<<text[k]>>) = 1 /\ <<text[k]>>[1] = text[k]
    BY <2>4
  <2>6. Joins(t, <<text[k]>>, s)
    BY <2>4, <2>5, Concatenated
  <2>7. Len(t) = 1 + m /\ t[1] = text[k] /\ \A i \in 1 .. m : t[1 + i] = s[i]
    BY <2>3, <2>5, <2>6 DEF Joins
  <2>8. ASSUME NEW i \in 1 .. m + 1 PROVE t[i] = text[n - (m + 1) + i]
    <3>1. CASE i = 1
      BY <2>2, <2>7, <3>1
    <3>2. CASE i # 1
      <4>1. i - 1 \in 1 .. m /\ 1 + (i - 1) = i /\ n - m + (i - 1) = n - (m + 1) + i
        BY <1>1, <2>1, <3>2
      <4>2. t[i] = s[i - 1] /\ s[i - 1] = text[n - m + (i - 1)]
        BY <2>3, <2>7, <4>1
      <4> QED BY <4>1, <4>2
    <3> QED BY <3>1, <3>2
  <2>9. Len(t) = m + 1
    BY <2>1, <2>7
  <2> QED BY <2>2, <2>8, <2>9 DEF t
<1>15. M = Nat
  <2>1. M \in SUBSET Nat
    OBVIOUS
  <2> HIDE DEF M
  <2> QED BY <1>13, <1>14, <2>1, AllNumbers
<1>16. says(from[1], n)
  <2>1. n \in M
    <3> HIDE DEF M
    <3> QED BY <1>1, <1>15
  <2>2. n - n = 0 /\ n <= n /\ off[n - n] + 1 = 1
    BY <1>1, <1>8
  <2> QED BY <2>1, <2>2
<1>17. from[1] = text
  <2>1. from[1] \in Seq(Byte)
    <3>1. 1 \in 1 .. Len(url) + 1
      BY <1>5, LenProperties
    <3> QED BY <1>12, <3>1
  <2>2. text \in Seq(Byte)
    <3>1. \A k \in 1 .. n : text[k] \in Byte
      BY <1>1 DEF Ascii, Byte
    <3> QED BY <3>1 DEF n
  <2>3. \A i \in 1 .. n : n - n + i = i
    BY <1>1
  <2>4. Len(from[1]) = Len(text) /\ \A i \in 1 .. Len(from[1]) : from[1][i] = text[i]
    BY <1>16, <2>3 DEF n
  <2> QED BY <2>1, <2>2, <2>4, SeqEqual
<1> QED BY <1>2, <1>7, <1>17 DEF Decoding
=============================================================================
