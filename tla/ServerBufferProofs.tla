------------------------- MODULE ServerBufferProofs -------------------------
(***************************************************************************)
(* What holds of ServerBuffer for every set of buffers and of bytes, every *)
(* default, threshold and increment of the memory: a ring is a queue.      *)
(***************************************************************************)
EXTENDS ServerBuffer, SequenceTheorems, WellFoundedInduction, TLAPS

\* A ring as the operations leave it: indices inside the memory.
Memories == UNION {[0 .. n - 1 -> Bytes] : n \in Nat \ {0}}
Rings ==
  {r \in [size : Nat \ {0}, rindex : Nat, windex : Nat, cells : Memories] :
     r.cells \in [0 .. r.size - 1 -> Bytes] /\ r.rindex < r.size /\ r.windex < r.size}

LEMMA RingFields ==
  ASSUME NEW r \in Rings
  PROVE  /\ r = [size |-> r.size, rindex |-> r.rindex, windex |-> r.windex, cells |-> r.cells]
         /\ r.size \in Nat \ {0} /\ r.cells \in [0 .. r.size - 1 -> Bytes]
         /\ r.rindex \in 0 .. r.size - 1 /\ r.windex \in 0 .. r.size - 1
BY DEF Rings

LEMMA RingMade ==
  ASSUME NEW n \in Nat \ {0}, NEW i \in 0 .. n - 1, NEW j \in 0 .. n - 1,
         NEW c \in [0 .. n - 1 -> Bytes]
  PROVE  [size |-> n, rindex |-> i, windex |-> j, cells |-> c] \in Rings
<1>1. c \in Memories
  BY DEF Memories
<1> QED BY <1>1 DEF Rings

\* A position runs over the end of the memory at most once.
Around(i, n) == IF i < n THEN i ELSE i - n

LEMMA ModIsAround ==
  ASSUME NEW n \in Nat \ {0}, NEW i \in 0 .. 2 * n - 1
  PROVE  i % n = Around(i, n)
<1>1. CASE i < n
  BY <1>1 DEF Around
<1>2. CASE i >= n
  <2>1. (i - n) % n = i - n
    BY <1>2
  <2>2. i % n = (i - n) % n
    BY <1>2
  <2> QED BY <1>2, <2>1, <2>2 DEF Around
<1> QED BY <1>1, <1>2

-----------------------------------------------------------------------------
(* The bytes of a ring.                                                     *)

LEMMA Readable ==
  ASSUME NEW r \in Rings
  PROVE  /\ ReadableSize(r) \in 0 .. r.size - 1
         /\ WriteableSize(r) \in 0 .. r.size - 1
         /\ WriteableSize(r) = r.size - 1 - ReadableSize(r)
BY RingFields DEF ReadableSize, WriteableSize

\* Where the bytes lie.
LEMMA Contents ==
  ASSUME NEW r \in Rings
  PROVE  /\ Content(r) \in Seq(Bytes) /\ Len(Content(r)) = ReadableSize(r)
         /\ \A i \in 1 .. ReadableSize(r) :
              /\ Around(r.rindex + i - 1, r.size) \in 0 .. r.size - 1
              /\ Content(r)[i] = r.cells[Around(r.rindex + i - 1, r.size)]
<1>1. /\ r.size \in Nat \ {0} /\ r.cells \in [0 .. r.size - 1 -> Bytes]
      /\ r.rindex \in 0 .. r.size - 1 /\ ReadableSize(r) \in 0 .. r.size - 1
  BY RingFields, Readable
<1>2. ASSUME NEW i \in 1 .. ReadableSize(r)
      PROVE  /\ Around(r.rindex + i - 1, r.size) \in 0 .. r.size - 1
             /\ (r.rindex + i - 1) % r.size = Around(r.rindex + i - 1, r.size)
  <2>1. r.rindex + i - 1 \in 0 .. 2 * r.size - 1
    BY <1>1
  <2>2. (r.rindex + i - 1) % r.size = Around(r.rindex + i - 1, r.size)
    BY <1>1, <2>1, ModIsAround
  <2>3. Around(r.rindex + i - 1, r.size) \in 0 .. r.size - 1
    BY <1>1, <2>1 DEF Around
  <2> QED BY <2>2, <2>3
<1>3. \A i \in 1 .. ReadableSize(r) : r.cells[(r.rindex + i - 1) % r.size] \in Bytes
  BY <1>1, <1>2
<1>4. Content(r) \in [1 .. ReadableSize(r) -> Bytes]
  BY <1>3 DEF Content
<1>5. \A i \in 1 .. ReadableSize(r) :
        Content(r)[i] = r.cells[Around(r.rindex + i - 1, r.size)]
  BY <1>2 DEF Content
<1>6. Content(r) \in Seq(Bytes) /\ Len(Content(r)) = ReadableSize(r)
  BY <1>1, <1>4
<1> QED BY <1>2, <1>5, <1>6

LEMMA ManyCells ==
  ASSUME NEW r \in Rings, NEW from \in Nat, NEW n \in Nat, from + n <= r.size
  PROVE  /\ Cells(r, from, n) \in Seq(Bytes) /\ Len(Cells(r, from, n)) = n
         /\ \A i \in 1 .. n : Cells(r, from, n)[i] = r.cells[from + i - 1]
<1>1. \A i \in 1 .. n : r.cells[from + i - 1] \in Bytes
  BY RingFields
<1>2. Cells(r, from, n) \in [1 .. n -> Bytes]
  BY <1>1 DEF Cells
<1> QED BY <1>2 DEF Cells

\* The beginning of a text.
LEMMA Beginning ==
  ASSUME NEW S, NEW s \in Seq(S), NEW n \in 0 .. Len(s)
  PROVE  /\ SubSeq(s, 1, n) \in Seq(S) /\ Len(SubSeq(s, 1, n)) = n
         /\ \A i \in 1 .. n : SubSeq(s, 1, n)[i] = s[i]
<1>1. \A i \in 1 .. n : s[i] \in S
  BY ElementOfSeq
<1>2. /\ SubSeq(s, 1, n) \in Seq(S)
      /\ Len(SubSeq(s, 1, n)) = IF 1 <= n THEN n - 1 + 1 ELSE 0
      /\ \A i \in 1 .. n - 1 + 1 : SubSeq(s, 1, n)[i] = s[1 + i - 1]
  BY <1>1, SubSeqProperties
<1>3. n \in Nat
  BY LenProperties
<1> QED BY <1>2, <1>3

\* The rest of it.
LEMMA Remainder ==
  ASSUME NEW S, NEW s \in Seq(S), NEW n \in 0 .. Len(s)
  PROVE  /\ SubSeq(s, n + 1, Len(s)) \in Seq(S)
         /\ Len(SubSeq(s, n + 1, Len(s))) = Len(s) - n
         /\ \A i \in 1 .. Len(s) - n : SubSeq(s, n + 1, Len(s))[i] = s[n + i]
<1>1. n \in Nat /\ Len(s) \in Nat
  BY LenProperties
<1>2. \A i \in n + 1 .. Len(s) : s[i] \in S
  BY <1>1, ElementOfSeq
<1>3. /\ SubSeq(s, n + 1, Len(s)) \in Seq(S)
      /\ Len(SubSeq(s, n + 1, Len(s))) =
           IF n + 1 <= Len(s) THEN Len(s) - (n + 1) + 1 ELSE 0
      /\ \A i \in 1 .. Len(s) - (n + 1) + 1 :
           SubSeq(s, n + 1, Len(s))[i] = s[n + 1 + i - 1]
  BY <1>1, <1>2, SubSeqProperties
<1> QED BY <1>1, <1>3

\* The bytes from the read position to the end of the memory, and those from its
\* start.
LEMMA TwoPieces ==
  ASSUME NEW r \in Rings, r.windex < r.rindex,
         NEW n \in r.size - r.rindex .. ReadableSize(r)
  PROVE  Cells(r, r.rindex, r.size - r.rindex) \o Cells(r, 0, n - (r.size - r.rindex))
           = SubSeq(Content(r), 1, n)
<1> DEFINE tail == r.size - r.rindex
           front == Cells(r, r.rindex, tail)
           back == Cells(r, 0, n - tail)
           text == Content(r)
<1>1. /\ r.size \in Nat \ {0} /\ r.rindex \in 0 .. r.size - 1
      /\ r.windex \in 0 .. r.size - 1 /\ tail \in Nat /\ n \in Nat
      /\ ReadableSize(r) \in Nat /\ n \in tail .. ReadableSize(r)
      /\ ReadableSize(r) = tail + r.windex
  BY RingFields DEF ReadableSize
<1>2. /\ front \in Seq(Bytes) /\ Len(front) = tail
      /\ \A i \in 1 .. tail : front[i] = r.cells[r.rindex + i - 1]
  <2>1. r.rindex \in Nat /\ r.rindex + tail <= r.size
    BY <1>1
  <2> HIDE DEF tail
  <2> QED BY <1>1, <2>1, ManyCells
<1>3. /\ back \in Seq(Bytes) /\ Len(back) = n - tail
      /\ \A i \in 1 .. n - tail : back[i] = r.cells[0 + i - 1]
  <2>1. n - tail \in Nat /\ 0 + (n - tail) <= r.size /\ 0 \in Nat
    BY <1>1
  <2> HIDE DEF tail
  <2> QED BY <2>1, ManyCells
<1>4. /\ text \in Seq(Bytes) /\ Len(text) = ReadableSize(r)
      /\ \A i \in 1 .. ReadableSize(r) : text[i] = r.cells[Around(r.rindex + i - 1, r.size)]
  BY Contents
<1> DEFINE beginning == SubSeq(text, 1, n)
<1>5. /\ beginning \in Seq(Bytes) /\ Len(beginning) = n
      /\ \A i \in 1 .. n : beginning[i] = text[i]
  <2>1. n \in 0 .. Len(text)
    BY <1>1, <1>4
  <2> HIDE DEF text
  <2> QED BY <1>4, <2>1, Beginning
<1> DEFINE both == front \o back
<1>6. /\ both \in Seq(Bytes) /\ Len(both) = Len(front) + Len(back)
      /\ \A i \in 1 .. Len(front) + Len(back) :
           both[i] = IF i <= Len(front) THEN front[i] ELSE back[i - Len(front)]
  <2> HIDE DEF front, back
  <2> QED BY <1>2, <1>3, ConcatProperties
<1> HIDE DEF front, back, text, beginning, both
<1>7. Len(both) = n
  BY <1>1, <1>2, <1>3, <1>6
<1>8. ASSUME NEW i \in 1 .. n PROVE both[i] = beginning[i]
  <2>1. beginning[i] = r.cells[Around(r.rindex + i - 1, r.size)]
    <3>1. i \in 1 .. ReadableSize(r)
      BY <1>1
    <3> QED BY <1>4, <1>5, <3>1
  <2>2. CASE i <= tail
    <3>1. both[i] = r.cells[r.rindex + i - 1]
      <4>1. i \in 1 .. tail /\ i \in 1 .. Len(front) + Len(back)
        BY <1>1, <1>2, <1>3, <2>2
      <4> QED BY <1>2, <1>6, <2>2, <4>1
    <3>2. Around(r.rindex + i - 1, r.size) = r.rindex + i - 1
      BY <1>1, <2>2 DEF Around
    <3> QED BY <2>1, <3>1, <3>2
  <2>3. CASE i > tail
    <3>1. i - tail \in 1 .. n - tail
      BY <1>1, <2>3
    <3>2. both[i] = r.cells[0 + (i - tail) - 1]
      <4>1. i \in 1 .. Len(front) + Len(back) /\ ~ (i <= Len(front))
        BY <1>1, <1>2, <1>3, <2>3, SMTT(30)
      <4>2. both[i] = back[i - Len(front)]
        BY <1>6, <4>1
      <4>3. back[i - tail] = r.cells[0 + (i - tail) - 1]
        BY <1>3, <3>1
      <4> QED BY <1>2, <4>2, <4>3
    <3>3. Around(r.rindex + i - 1, r.size) = 0 + (i - tail) - 1
      BY <1>1, <2>3 DEF Around
    <3> QED BY <2>1, <3>2, <3>3
  <2> QED BY <1>1, <2>2, <2>3
<1>9. both = beginning
  BY <1>5, <1>6, <1>7, <1>8, SeqEqual
<1> QED BY <1>9 DEF both, beginning, front, back, text

LEMMA OnePiece ==
  ASSUME NEW r \in Rings, NEW n \in 0 .. ReadableSize(r), r.rindex + n <= r.size
  PROVE  Cells(r, r.rindex, n) = SubSeq(Content(r), 1, n)
<1> DEFINE piece == Cells(r, r.rindex, n)
           text == Content(r)
           beginning == SubSeq(text, 1, n)
<1>1. /\ r.size \in Nat \ {0} /\ r.rindex \in 0 .. r.size - 1
      /\ n \in Nat /\ ReadableSize(r) \in Nat
  BY RingFields, Readable
<1>2. /\ piece \in Seq(Bytes) /\ Len(piece) = n
      /\ \A i \in 1 .. n : piece[i] = r.cells[r.rindex + i - 1]
  <2>1. r.rindex \in Nat
    BY <1>1
  <2> QED BY <1>1, <2>1, ManyCells
<1>3. /\ text \in Seq(Bytes) /\ Len(text) = ReadableSize(r)
      /\ \A i \in 1 .. ReadableSize(r) : text[i] = r.cells[Around(r.rindex + i - 1, r.size)]
  BY Contents
<1>4. /\ beginning \in Seq(Bytes) /\ Len(beginning) = n
      /\ \A i \in 1 .. n : beginning[i] = text[i]
  <2> HIDE DEF text
  <2> QED BY <1>3, Beginning
<1> HIDE DEF piece, text, beginning
<1>5. ASSUME NEW i \in 1 .. n PROVE piece[i] = beginning[i]
  <2>1. Around(r.rindex + i - 1, r.size) = r.rindex + i - 1
    BY <1>1 DEF Around
  <2>2. i \in 1 .. ReadableSize(r)
    BY <1>1
  <2> QED BY <1>2, <1>3, <1>4, <2>1, <2>2
<1>6. piece = beginning
  BY <1>2, <1>4, <1>5, SeqEqual
<1> QED BY <1>6 DEF piece, text, beginning

\* Peek hands out the oldest bytes.
LEMMA PeekIsOldest ==
  ASSUME NEW r \in Rings, NEW n \in 0 .. ReadableSize(r)
  PROVE  Peek(r, n) = SubSeq(Content(r), 1, n)
<1>1. /\ r.size \in Nat \ {0} /\ r.rindex \in 0 .. r.size - 1
      /\ r.windex \in 0 .. r.size - 1
  BY RingFields
<1>2. CASE r.windex >= r.rindex \/ r.size - r.rindex >= n
  <2>1. r.rindex + n <= r.size
    BY <1>1, <1>2 DEF ReadableSize
  <2> QED BY <1>2, <2>1, OnePiece DEF Peek
<1>3. CASE ~ (r.windex >= r.rindex \/ r.size - r.rindex >= n)
  <2>1. /\ r.windex < r.rindex /\ n \in r.size - r.rindex .. ReadableSize(r)
    BY <1>1, <1>3, Readable
  <2> QED BY <1>3, <2>1, TwoPieces DEF Peek
<1> QED BY <1>2, <1>3

LEMMA SnapshotIsContent ==
  ASSUME NEW r \in Rings PROVE Snapshot(r) = Content(r)
<1>1. ReadableSize(r) \in 0 .. ReadableSize(r)
  BY Readable
<1>2. Snapshot(r) = SubSeq(Content(r), 1, ReadableSize(r))
  BY <1>1, PeekIsOldest DEF Snapshot
<1> QED BY <1>2, Contents, SubSeqFull

LEMMA SegmentsAreContent ==
  ASSUME NEW r \in Rings PROVE Segments(r)[1] \o Segments(r)[2] = Content(r)
<1>1. /\ r.size \in Nat \ {0} /\ r.rindex \in 0 .. r.size - 1
      /\ r.windex \in 0 .. r.size - 1 /\ ReadableSize(r) \in Nat
      /\ ReadableSize(r) \in 0 .. ReadableSize(r)
  BY RingFields, Readable
<1>2. Content(r) \in Seq(Bytes)
      /\ SubSeq(Content(r), 1, ReadableSize(r)) = Content(r)
  BY Contents, SubSeqFull
<1>3. CASE r.windex >= r.rindex
  <2>1. /\ ReadableSizeContiguous(r) = ReadableSize(r)
        /\ r.rindex + ReadableSize(r) <= r.size
    BY <1>1, <1>3 DEF ReadableSizeContiguous, ReadableSize
  <2>2. Segments(r)[1] = Content(r)
    BY <1>1, <1>2, <2>1, OnePiece DEF Segments
  <2>3. Cells(r, 0, 0) = <<>>
    BY ManyCells, <1>1, EmptySeq
  <2>4. Segments(r)[2] = <<>>
    BY <1>1, <2>1, <2>3 DEF Segments
  <2> QED BY <1>2, <2>2, <2>4, ConcatEmptySeq
<1>4. CASE r.windex < r.rindex
  <2>1. /\ ReadableSizeContiguous(r) = r.size - r.rindex
        /\ ReadableSize(r) \in r.size - r.rindex .. ReadableSize(r)
    BY <1>1, <1>4 DEF ReadableSizeContiguous, ReadableSize
  <2> QED BY <1>2, <1>4, <2>1, TwoPieces DEF Segments
<1>5. r.windex >= r.rindex \/ r.windex < r.rindex
  BY <1>1
<1> QED BY <1>3, <1>4, <1>5

\* FindCRLF looks at the cells in two runs; the first newline of a run is the
\* lowest.
NewlineAt(r, from, n) == {i \in 0 .. n - 1 : r.cells[from + i] = Newline}
Newlines(text) == {i \in 1 .. Len(text) : text[i] = Newline}

LEMMA LowestOf ==
  ASSUME NEW T \in SUBSET Nat, T # {}
  PROVE  \E i \in T : \A j \in T : i <= j
<1> DEFINE R == OpToRel(<, Nat)
<1>1. IsWellFoundedOn(R, Nat)
  BY NatLessThanWellFounded
<1>2. \A x, y \in Nat : <<x, y>> \in R <=> x < y
  BY DEF OpToRel
<1> HIDE DEF R
<1>3. PICK i \in T : \A j \in T : ~ (<<j, i>> \in R)
  BY <1>1, WFMin
<1>4. ASSUME NEW j \in T PROVE i <= j
  <2>1. i \in Nat /\ j \in Nat /\ ~ (j < i)
    BY <1>2, <1>3
  <2> QED BY <2>1
<1> QED BY <1>4

Lowest(T) == CHOOSE i \in T : \A j \in T : i <= j

LEMMA LowestIsIt ==
  ASSUME NEW T \in SUBSET Nat, NEW i \in T, \A j \in T : i <= j
  PROVE  Lowest(T) = i
<1>1. Lowest(T) \in T /\ \A j \in T : Lowest(T) <= j
  BY DEF Lowest
<1>2. Lowest(T) \in Nat /\ i \in Nat /\ Lowest(T) <= i /\ i <= Lowest(T)
  BY <1>1
<1> QED BY <1>2

LEMMA FirstNewline ==
  ASSUME NEW N \in SUBSET Nat, NEW m \in N, \A k \in N : m <= k
  PROVE  {i - 1 : i \in {j \in N : \A k \in N : j <= k}} = {m - 1}
<1>1. ASSUME NEW j \in N, \A k \in N : j <= k PROVE j = m
  <2>1. j \in Nat /\ m \in Nat /\ j <= m /\ m <= j
    BY <1>1
  <2> QED BY <2>1
<1>2. {j \in N : \A k \in N : j <= k} = {m}
  BY <1>1
<1> QED BY <1>2

\* The run from the read position.
Run(r) == IF r.size - r.rindex > ReadableSize(r) THEN ReadableSize(r) ELSE r.size - r.rindex
Hits1(r) == NewlineAt(r, r.rindex, Run(r))
Hits2(r) == NewlineAt(r, 0, ReadableSize(r) - Run(r))

LEMMA FindCRLFIs ==
  ASSUME NEW r
  PROVE  FindCRLF(r) = IF Hits1(r) # {} THEN {Lowest(Hits1(r))}
                       ELSE {Run(r) + Lowest(s) : s \in {Hits2(r)} \ {{}}}
BY DEF FindCRLF, Hits1, Hits2, NewlineAt, Run, Lowest

LEMMA Runs ==
  ASSUME NEW r \in Rings
  PROVE  /\ Run(r) \in 0 .. ReadableSize(r) /\ ReadableSize(r) \in Nat
         /\ Newlines(Content(r)) \in SUBSET Nat
         /\ Hits1(r) \in SUBSET Nat /\ Hits2(r) \in SUBSET Nat
         /\ \A i \in 1 .. Run(r) : i \in Newlines(Content(r)) <=> i - 1 \in Hits1(r)
         /\ \A i \in Run(r) + 1 .. ReadableSize(r) :
              i \in Newlines(Content(r)) <=> i - Run(r) - 1 \in Hits2(r)
<1>1. /\ r.size \in Nat \ {0} /\ r.rindex \in 0 .. r.size - 1
      /\ r.windex \in 0 .. r.size - 1 /\ ReadableSize(r) \in Nat
  BY RingFields, Readable
<1>2. /\ Len(Content(r)) = ReadableSize(r)
      /\ \A i \in 1 .. ReadableSize(r) :
           Content(r)[i] = r.cells[Around(r.rindex + i - 1, r.size)]
  BY Contents
<1>3. /\ Run(r) \in 0 .. ReadableSize(r) /\ Run(r) \in Nat
      /\ Run(r) <= r.size - r.rindex
      /\ Run(r) = ReadableSize(r) \/ Run(r) = r.size - r.rindex
  BY <1>1 DEF Run
<1>4. /\ Newlines(Content(r)) \in SUBSET Nat
      /\ Hits1(r) \in SUBSET Nat /\ Hits2(r) \in SUBSET Nat
  BY <1>1, <1>2, <1>3 DEF Newlines, Hits1, Hits2, NewlineAt
<1>5. ASSUME NEW i \in 1 .. Run(r)
      PROVE  i \in Newlines(Content(r)) <=> i - 1 \in Hits1(r)
  <2>1. /\ i \in 1 .. ReadableSize(r) /\ i - 1 \in 0 .. Run(r) - 1
        /\ Around(r.rindex + i - 1, r.size) = r.rindex + (i - 1)
    BY <1>1, <1>3 DEF Around
  <2>2. i \in Newlines(Content(r)) <=> Content(r)[i] = Newline
    BY <1>2, <2>1 DEF Newlines
  <2>3. i - 1 \in Hits1(r) <=> r.cells[r.rindex + (i - 1)] = Newline
    BY <2>1 DEF Hits1, NewlineAt
  <2>4. Content(r)[i] = r.cells[r.rindex + (i - 1)]
    BY <1>2, <2>1
  <2> QED BY <2>2, <2>3, <2>4
<1>6. ASSUME NEW i \in Run(r) + 1 .. ReadableSize(r)
      PROVE  i \in Newlines(Content(r)) <=> i - Run(r) - 1 \in Hits2(r)
  <2>1. /\ i \in 1 .. ReadableSize(r)
        /\ i - Run(r) - 1 \in 0 .. (ReadableSize(r) - Run(r)) - 1
        /\ Around(r.rindex + i - 1, r.size) = 0 + (i - Run(r) - 1)
    BY <1>1, <1>3 DEF Around
  <2>2. i \in Newlines(Content(r)) <=> Content(r)[i] = Newline
    BY <1>2, <2>1 DEF Newlines
  <2>3. i - Run(r) - 1 \in Hits2(r) <=> r.cells[0 + (i - Run(r) - 1)] = Newline
    BY <2>1 DEF Hits2, NewlineAt
  <2>4. Content(r)[i] = r.cells[0 + (i - Run(r) - 1)]
    BY <1>2, <2>1
  <2> QED BY <2>2, <2>3, <2>4
<1> QED BY <1>1, <1>3, <1>4, <1>5, <1>6

\* FindCRLF finds the first newline of the bytes, if there is one.
LEMMA FindsFirst ==
  ASSUME NEW r \in Rings
  PROVE  FindCRLF(r) = {i - 1 : i \in {j \in Newlines(Content(r)) :
                                        \A k \in Newlines(Content(r)) : j <= k}}
<1> DEFINE N == Newlines(Content(r))
           size == ReadableSize(r)
           run == Run(r)
<1>1. /\ run \in 0 .. size /\ size \in Nat /\ N \in SUBSET Nat
      /\ Hits1(r) \in SUBSET Nat /\ Hits2(r) \in SUBSET Nat
      /\ \A i \in 1 .. run : i \in N <=> i - 1 \in Hits1(r)
      /\ \A i \in run + 1 .. size : i \in N <=> i - run - 1 \in Hits2(r)
  BY Runs
<1>2. /\ \A i \in N : i \in 1 .. size
      /\ \A i \in Hits1(r) : i \in 0 .. run - 1
      /\ \A i \in Hits2(r) : i \in 0 .. (size - run) - 1
  BY <1>1, Contents DEF Newlines, Hits1, Hits2, NewlineAt
<1>3. FindCRLF(r) = IF Hits1(r) # {} THEN {Lowest(Hits1(r))}
                    ELSE {run + Lowest(s) : s \in {Hits2(r)} \ {{}}}
  BY FindCRLFIs
<1> HIDE DEF N, size, run
<1>4. CASE Hits1(r) # {}
  <2>1. PICK h \in Hits1(r) : \A j \in Hits1(r) : h <= j
    BY <1>1, <1>4, LowestOf
  <2>2. h \in 0 .. run - 1 /\ h \in Nat /\ h + 1 \in 1 .. run /\ (h + 1) - 1 = h
    BY <1>1, <1>2, <2>1
  <2>3. h + 1 \in N
    BY <1>1, <2>1, <2>2
  <2>4. ASSUME NEW k \in N PROVE h + 1 <= k
    <3>1. CASE k \in 1 .. run
      <4>1. k - 1 \in Hits1(r)
        BY <1>1, <3>1
      <4>2. h <= k - 1
        BY <2>1, <4>1
      <4> QED BY <2>2, <3>1, <4>2
    <3>2. CASE k \notin 1 .. run
      <4>1. k \in 1 .. size
        BY <1>2
      <4> QED BY <1>1, <2>2, <3>2, <4>1
    <3> QED BY <3>1, <3>2
  <2>5. {i - 1 : i \in {j \in N : \A k \in N : j <= k}} = {(h + 1) - 1}
    BY <1>1, <2>3, <2>4, FirstNewline
  <2>6. Lowest(Hits1(r)) = h
    BY <1>1, <2>1, LowestIsIt
  <2> QED BY <1>3, <1>4, <2>2, <2>5, <2>6 DEF N
<1>5. CASE Hits1(r) = {} /\ Hits2(r) # {}
  <2>1. PICK h \in Hits2(r) : \A j \in Hits2(r) : h <= j
    BY <1>1, <1>5, LowestOf
  <2>2. /\ h \in 0 .. (size - run) - 1 /\ h \in Nat /\ run \in Nat
        /\ run + h + 1 \in run + 1 .. size
        /\ (run + h + 1) - run - 1 = h /\ (run + h + 1) - 1 = run + h
    BY <1>1, <1>2, <2>1
  <2>3. run + h + 1 \in N
    BY <1>1, <2>1, <2>2
  <2>4. ASSUME NEW k \in N PROVE run + h + 1 <= k
    <3>1. k \in 1 .. size /\ k \notin 1 .. run
      BY <1>1, <1>2, <1>5
    <3>2. k \in run + 1 .. size
      BY <1>1, <3>1
    <3>3. k - run - 1 \in Hits2(r)
      BY <1>1, <3>2
    <3>4. h <= k - run - 1
      BY <2>1, <3>3
    <3> QED BY <1>1, <2>2, <3>2, <3>4
  <2>5. {i - 1 : i \in {j \in N : \A k \in N : j <= k}} = {(run + h + 1) - 1}
    BY <1>1, <2>3, <2>4, FirstNewline
  <2>6. Lowest(Hits2(r)) = h
    BY <1>1, <2>1, LowestIsIt
  <2>7. {run + Lowest(s) : s \in {Hits2(r)} \ {{}}} = {run + h}
    BY <1>5, <2>6
  <2> QED BY <1>3, <1>5, <2>2, <2>5, <2>7 DEF N
<1>6. CASE Hits1(r) = {} /\ Hits2(r) = {}
  <2>1. ASSUME NEW k \in N PROVE FALSE
    <3>1. k \in 1 .. size
      BY <1>2
    <3>2. k \in 1 .. run \/ k \in run + 1 .. size
      BY <1>1, <3>1
    <3> QED BY <1>1, <1>6, <3>2
  <2>2. N = {}
    BY <2>1
  <2>3. {i - 1 : i \in {j \in N : \A k \in N : j <= k}} = {}
    BY <2>2
  <2>4. {run + Lowest(s) : s \in {Hits2(r)} \ {{}}} = {}
    BY <1>6
  <2> QED BY <1>3, <1>6, <2>3, <2>4 DEF N
<1> QED BY <1>4, <1>5, <1>6

-----------------------------------------------------------------------------
(* What the operations leave behind.                                        *)

\* MoveRindex takes the oldest bytes.
LEMMA MoveTakes ==
  ASSUME NEW r \in Rings, NEW n \in 0 .. ReadableSize(r)
  PROVE  /\ MoveRindex(r, n) \in Rings
         /\ Content(MoveRindex(r, n)) = SubSeq(Content(r), n + 1, Len(Content(r)))
<1> DEFINE m == MoveRindex(r, n)
           i0 == Around(r.rindex + n, r.size)
           rest == SubSeq(Content(r), n + 1, Len(Content(r)))
<1>1. /\ r = [size |-> r.size, rindex |-> r.rindex, windex |-> r.windex, cells |-> r.cells]
      /\ r.size \in Nat \ {0} /\ r.cells \in [0 .. r.size - 1 -> Bytes]
      /\ r.rindex \in 0 .. r.size - 1 /\ r.windex \in 0 .. r.size - 1
      /\ ReadableSize(r) \in 0 .. r.size - 1 /\ n \in Nat
  BY RingFields, Readable
<1>2. (r.rindex + n) % r.size = i0 /\ i0 \in 0 .. r.size - 1
  <2>1. r.rindex + n \in 0 .. 2 * r.size - 1
    BY <1>1
  <2>2. (r.rindex + n) % r.size = i0
    BY <1>1, <2>1, ModIsAround
  <2> QED BY <1>1, <2>1, <2>2, SMTT(30) DEF Around
<1>3. m = [size |-> r.size, rindex |-> i0, windex |-> r.windex, cells |-> r.cells]
  <2> HIDE DEF i0
  <2> QED BY <1>1, <1>2, SMTT(30) DEF MoveRindex
<1>4. m \in Rings
  <2> HIDE DEF i0, m
  <2> QED BY <1>1, <1>2, <1>3, RingMade
<1>5. m.size = r.size /\ m.rindex = i0 /\ m.windex = r.windex /\ m.cells = r.cells
  <2> HIDE DEF i0, m
  <2> QED BY <1>3
<1>6. ReadableSize(m) = ReadableSize(r) - n
  BY <1>1, <1>5 DEF ReadableSize, Around
<1>7. /\ Content(m) \in Seq(Bytes) /\ Len(Content(m)) = ReadableSize(m)
      /\ \A i \in 1 .. ReadableSize(m) :
           Content(m)[i] = m.cells[Around(m.rindex + i - 1, m.size)]
  BY <1>4, Contents
<1>8. /\ Content(r) \in Seq(Bytes) /\ Len(Content(r)) = ReadableSize(r)
      /\ \A i \in 1 .. ReadableSize(r) :
           Content(r)[i] = r.cells[Around(r.rindex + i - 1, r.size)]
  BY Contents
<1>9. /\ rest \in Seq(Bytes) /\ Len(rest) = Len(Content(r)) - n
      /\ \A i \in 1 .. Len(Content(r)) - n : rest[i] = Content(r)[n + i]
  BY <1>8, Remainder
<1> HIDE DEF rest, m
<1>10. ASSUME NEW i \in 1 .. ReadableSize(r) - n
       PROVE  Content(m)[i] = rest[i]
  <2>1. n + i \in 1 .. ReadableSize(r) /\ i \in 1 .. ReadableSize(m)
    BY <1>1, <1>6
  <2>2. Around(i0 + i - 1, r.size) = Around(r.rindex + (n + i) - 1, r.size)
    BY <1>1, <2>1, SMTT(30) DEF Around
  <2>3. Content(m)[i] = r.cells[Around(i0 + i - 1, r.size)]
    BY <1>5, <1>7, <2>1
  <2>4. rest[i] = r.cells[Around(r.rindex + (n + i) - 1, r.size)]
    BY <1>8, <1>9, <2>1
  <2> QED BY <2>2, <2>3, <2>4
<1>11. Content(m) = rest
  <2>1. Len(Content(m)) = Len(rest)
    BY <1>6, <1>7, <1>8, <1>9
  <2>2. \A i \in 1 .. Len(Content(m)) : Content(m)[i] = rest[i]
    BY <1>6, <1>7, <1>10
  <2> QED BY <1>7, <1>9, <2>1, <2>2, SeqEqual
<1> QED BY <1>4, <1>11 DEF m, rest

LEMMA EmptyRing ==
  ASSUME NEW r \in Rings, r.rindex = 0, r.windex = 0
  PROVE  Content(r) = <<>>
<1>1. ReadableSize(r) = 0
  BY RingFields DEF ReadableSize
<1> QED BY <1>1, Contents, EmptySeq

\* A ring whose bytes begin at the start of its memory.
LEMMA FrontContent ==
  ASSUME NEW r \in Rings, NEW s \in Seq(Bytes), r.rindex = 0, r.windex = Len(s),
         \A i \in 1 .. Len(s) : r.cells[i - 1] = s[i]
  PROVE  Content(r) = s
<1>1. r.size \in Nat \ {0} /\ r.windex \in 0 .. r.size - 1 /\ Len(s) \in Nat
  BY RingFields, LenProperties
<1>2. ReadableSize(r) = Len(s)
  BY <1>1 DEF ReadableSize
<1>3. /\ Content(r) \in Seq(Bytes) /\ Len(Content(r)) = Len(s)
      /\ \A i \in 1 .. Len(s) : Content(r)[i] = r.cells[Around(0 + i - 1, r.size)]
  BY <1>2, Contents
<1>4. ASSUME NEW i \in 1 .. Len(s) PROVE Content(r)[i] = s[i]
  <2>1. Around(0 + i - 1, r.size) = i - 1
    BY <1>1 DEF Around
  <2> QED BY <1>3, <2>1
<1> QED BY <1>3, <1>4, SeqEqual

\* Copied changes the cells from a position on, and no others.
LEMMA Copies ==
  ASSUME NEW n \in Nat, NEW c \in [0 .. n - 1 -> Bytes], NEW at \in Nat, NEW s \in Seq(Bytes)
  PROVE  /\ Copied(c, at, s) \in [0 .. n - 1 -> Bytes]
         /\ \A i \in 0 .. n - 1 :
              Copied(c, at, s)[i] = IF at <= i /\ i < at + Len(s) THEN s[i - at + 1] ELSE c[i]
<1>1. Len(s) \in Nat
  BY LenProperties
<1>2. ASSUME NEW i \in 0 .. n - 1, at <= i, i < at + Len(s) PROVE s[i - at + 1] \in Bytes
  <2>1. i - at + 1 \in 1 .. Len(s)
    BY <1>1, <1>2
  <2> QED BY <2>1, ElementOfSeq
<1>3. DOMAIN c = 0 .. n - 1
  OBVIOUS
<1> QED BY <1>2, <1>3 DEF Copied

\* BuyMemory keeps the bytes, and makes room.
NewSize(r) == IF r.size < Threshold THEN r.size * 2 ELSE r.size + Increment
Kept(r) == IF r.windex >= r.rindex THEN r.cells ELSE <<>>
FreshCells(r) ==
  [i \in 0 .. NewSize(r) - 1 |-> IF i \in DOMAIN Kept(r) THEN Kept(r)[i] ELSE Zero]

LEMMA BuysMemory ==
  ASSUME NEW r \in Rings
  PROVE  /\ BuyMemory(r) \in Rings /\ Content(BuyMemory(r)) = Content(r)
         /\ WriteableSize(BuyMemory(r)) > WriteableSize(r)
<1> DEFINE new == NewSize(r)
           fresh == FreshCells(r)
           text == Content(r)
           cells == Copied(fresh, 0, text)
           bought == BuyMemory(r)
<1>1. /\ r.size \in Nat \ {0} /\ r.cells \in [0 .. r.size - 1 -> Bytes]
      /\ ReadableSize(r) \in 0 .. r.size - 1
      /\ text \in Seq(Bytes) /\ Len(text) = ReadableSize(r)
  BY RingFields, Readable, Contents
<1>2. new \in Nat \ {0} /\ new > r.size
  BY <1>1, ServerBufferAssumption DEF NewSize
<1>3. fresh \in [0 .. new - 1 -> Bytes]
  <2>1. DOMAIN Kept(r) \subseteq DOMAIN r.cells
    BY DEF Kept
  <2>2. \A i \in DOMAIN Kept(r) : Kept(r)[i] \in Bytes
    BY <1>1 DEF Kept
  <2> QED BY <1>2, <2>2, ServerBufferAssumption DEF FreshCells
<1>4. bought = [size |-> new, rindex |-> 0, windex |-> ReadableSize(r), cells |-> cells]
  BY SnapshotIsContent DEF BuyMemory, NewSize, FreshCells, Kept
<1> HIDE DEF new, fresh, text
<1>5. /\ cells \in [0 .. new - 1 -> Bytes]
      /\ \A i \in 0 .. new - 1 :
           cells[i] = IF 0 <= i /\ i < 0 + Len(text) THEN text[i - 0 + 1] ELSE fresh[i]
  <2>1. new \in Nat
    BY <1>2
  <2>2. PICK at \in Nat : at = 0
    OBVIOUS
  <2>3. /\ Copied(fresh, at, text) \in [0 .. new - 1 -> Bytes]
        /\ \A i \in 0 .. new - 1 :
             Copied(fresh, at, text)[i] =
               IF at <= i /\ i < at + Len(text) THEN text[i - at + 1] ELSE fresh[i]
    <3>1. text \in Seq(Bytes)
      BY <1>1
    <3> QED BY <1>3, <2>1, <2>2, <3>1, Copies, ZenonT(40)
  <2> QED BY <2>2, <2>3
<1> HIDE DEF cells, bought
<1>6. bought \in Rings
  <2>1. 0 \in 0 .. new - 1 /\ ReadableSize(r) \in 0 .. new - 1
    BY <1>1, <1>2
  <2> QED BY <1>2, <1>4, <1>5, <2>1, RingMade
<1>7. /\ bought.size = new /\ bought.rindex = 0
      /\ bought.windex = ReadableSize(r) /\ bought.cells = cells
  BY <1>4
<1>8. \A i \in 1 .. Len(text) : bought.cells[i - 1] = text[i]
  <2> TAKE i \in 1 .. Len(text)
  <2>1. i - 1 \in 0 .. new - 1 /\ 0 <= i - 1 /\ i - 1 < 0 + Len(text) /\ (i - 1) - 0 + 1 = i
    BY <1>1, <1>2
  <2> QED BY <1>5, <1>7, <2>1
<1>9. Content(bought) = text
  BY <1>1, <1>6, <1>7, <1>8, FrontContent
<1>10. ReadableSize(bought) = ReadableSize(r)
  BY <1>1, <1>7 DEF ReadableSize
<1>11. WriteableSize(bought) > WriteableSize(r)
  BY <1>1, <1>2, <1>7, <1>10 DEF WriteableSize
<1> QED BY <1>6, <1>9, <1>11 DEF bought, text

-----------------------------------------------------------------------------
(* A write into a ring that grows as often as it must.                      *)

\* Induction, on a set of numbers.
LEMMA AllNumbers ==
  ASSUME NEW T \in SUBSET Nat, 0 \in T, \A k \in T : k + 1 \in T
  PROVE  T = Nat
<1> SUFFICES ASSUME Nat \ T # {} PROVE FALSE
  OBVIOUS
<1>1. PICK i \in Nat \ T : \A j \in Nat \ T : i <= j
  BY LowestOf
<1>2. i # 0 /\ i - 1 \in Nat /\ ~ (i <= i - 1)
  BY <1>1
<1>3. i - 1 \in T
  BY <1>1, <1>2
<1>4. (i - 1) + 1 \in T /\ (i - 1) + 1 = i
  BY <1>1, <1>3
<1> QED BY <1>1, <1>4

\* A recursive function on the numbers is there: its beginnings are, and agree.
Beginnings(S, x, step, n) ==
  {g \in [0 .. n -> S] : g[0] = x /\ \A k \in 0 .. n - 1 : g[k + 1] = step[g[k]]}

LEMMA BeginningsExist ==
  ASSUME NEW S, NEW x \in S, NEW step \in [S -> S], NEW n \in Nat
  PROVE  Beginnings(S, x, step, n) # {}
<1> DEFINE T == {k \in Nat : Beginnings(S, x, step, k) # {}}
<1>1. 0 \in T
  <2> DEFINE g == [k \in 0 .. 0 |-> x]
  <2>1. g \in Beginnings(S, x, step, 0)
    BY DEF Beginnings
  <2> QED BY <2>1
<1>2. ASSUME NEW k \in T PROVE k + 1 \in T
  <2>1. PICK g \in Beginnings(S, x, step, k) : TRUE
    OBVIOUS
  <2>2. /\ g \in [0 .. k -> S] /\ g[0] = x /\ k \in Nat
        /\ \A j \in 0 .. k - 1 : g[j + 1] = step[g[j]]
    BY <2>1 DEF Beginnings
  <2> DEFINE h == [j \in 0 .. k + 1 |-> IF j = k + 1 THEN step[g[k]] ELSE g[j]]
  <2>3. h \in [0 .. k + 1 -> S]
    <3>1. step[g[k]] \in S
      BY <2>2
    <3>2. \A j \in 0 .. k + 1 : j # k + 1 => g[j] \in S
      BY <2>2
    <3> QED BY <3>1, <3>2
  <2>4. h[0] = x
    BY <2>2
  <2>5. ASSUME NEW j \in 0 .. (k + 1) - 1 PROVE h[j + 1] = step[h[j]]
    <3>1. j \in 0 .. k /\ j # k + 1 /\ j \in 0 .. k + 1 /\ j + 1 \in 0 .. k + 1
      BY <2>2
    <3>2. h[j] = g[j]
      BY <3>1
    <3>3. CASE j = k
      BY <3>1, <3>2, <3>3
    <3>4. CASE j # k
      <4>1. j \in 0 .. k - 1 /\ j + 1 # k + 1
        BY <2>2, <3>1, <3>4
      <4>2. h[j + 1] = g[j + 1]
        BY <3>1, <4>1
      <4> QED BY <2>2, <3>2, <4>1, <4>2
    <3> QED BY <3>3, <3>4
  <2>6. h \in Beginnings(S, x, step, k + 1)
    <3> HIDE DEF h
    <3> QED BY <2>3, <2>4, <2>5 DEF Beginnings
  <2> QED BY <2>2, <2>6
<1>3. T = Nat
  <2> HIDE DEF T
  <2>1. T \in SUBSET Nat
    BY DEF T
  <2> QED BY <1>1, <1>2, <2>1, AllNumbers
<1> QED BY <1>3

LEMMA BeginningsAgree ==
  ASSUME NEW S, NEW x \in S, NEW step \in [S -> S], NEW m \in Nat, NEW n \in Nat,
         NEW g \in Beginnings(S, x, step, m), NEW h \in Beginnings(S, x, step, n),
         NEW k \in Nat, k <= m, k <= n
  PROVE  g[k] = h[k]
<1> DEFINE T == {j \in Nat : j <= m /\ j <= n => g[j] = h[j]}
<1>1. /\ g[0] = x /\ \A j \in 0 .. m - 1 : g[j + 1] = step[g[j]]
      /\ h[0] = x /\ \A j \in 0 .. n - 1 : h[j + 1] = step[h[j]]
  BY DEF Beginnings
<1>2. 0 \in T
  BY <1>1
<1>3. ASSUME NEW j \in T PROVE j + 1 \in T
  <2>1. j \in Nat /\ j + 1 \in Nat
    OBVIOUS
  <2>2. ASSUME j + 1 <= m, j + 1 <= n PROVE g[j + 1] = h[j + 1]
    <3>1. j <= m /\ j <= n /\ j \in 0 .. m - 1 /\ j \in 0 .. n - 1
      BY <2>1, <2>2
    <3>2. g[j] = h[j]
      BY <3>1
    <3> QED BY <1>1, <3>1, <3>2
  <2> QED BY <2>1, <2>2
<1>4. T = Nat
  <2> HIDE DEF T
  <2>1. T \in SUBSET Nat
    BY DEF T
  <2> QED BY <1>2, <1>3, <2>1, AllNumbers
<1> QED BY <1>4

LEMMA Recursion ==
  ASSUME NEW S, NEW x \in S, NEW step \in [S -> S]
  PROVE  \E f \in [Nat -> S] : f[0] = x /\ \A k \in Nat : f[k + 1] = step[f[k]]
<1> DEFINE G(n) == CHOOSE g \in Beginnings(S, x, step, n) : TRUE
           f == [n \in Nat |-> G(n)[n]]
<1>1. ASSUME NEW n \in Nat PROVE G(n) \in Beginnings(S, x, step, n)
  BY BeginningsExist
<1> HIDE DEF G
<1>2. ASSUME NEW n \in Nat
      PROVE  /\ G(n)[n] \in S /\ G(n)[0] = x
             /\ n # 0 => G(n)[n] = step[G(n)[n - 1]]
  <2>1. /\ G(n) \in [0 .. n -> S] /\ G(n)[0] = x
        /\ \A k \in 0 .. n - 1 : G(n)[k + 1] = step[G(n)[k]]
    BY <1>1 DEF Beginnings
  <2>2. ASSUME n # 0 PROVE G(n)[n] = step[G(n)[n - 1]]
    <3>1. n - 1 \in 0 .. n - 1 /\ (n - 1) + 1 = n
      BY <2>2
    <3> QED BY <2>1, <3>1
  <2> QED BY <2>1, <2>2
<1>3. f \in [Nat -> S]
  BY <1>2
<1>4. f[0] = x
  BY <1>2
<1>5. ASSUME NEW k \in Nat PROVE f[k + 1] = step[f[k]]
  <2>1. k + 1 \in Nat /\ k + 1 # 0 /\ (k + 1) - 1 = k /\ k <= k /\ k <= k + 1
    OBVIOUS
  <2>2. f[k + 1] = step[G(k + 1)[k]]
    BY <1>2, <2>1
  <2>3. G(k + 1) \in Beginnings(S, x, step, k + 1) /\ G(k) \in Beginnings(S, x, step, k)
    BY <1>1, <2>1
  <2>4. G(k + 1)[k] = G(k)[k]
    BY <2>1, <2>3, BeginningsAgree
  <2> QED BY <2>2, <2>4
<1> HIDE DEF f
<1> QED BY <1>3, <1>4, <1>5

\* What a ring is after it has bought memory k times.
After(r) == CHOOSE a : a = [k \in Nat |-> IF k = 0 THEN r ELSE BuyMemory(a[k - 1])]
Enough(r, len) == {k \in 0 .. len : WriteableSize(After(r)[k]) >= len}

LEMMA GrownIs ==
  ASSUME NEW r, NEW len
  PROVE  Grown(r, len) = After(r)[Lowest(Enough(r, len))]
BY DEF Grown, After, Enough, Lowest

LEMMA AfterIs ==
  ASSUME NEW r \in Rings
  PROVE  After(r)[0] = r /\ \A k \in Nat : After(r)[k + 1] = BuyMemory(After(r)[k])
<1> DEFINE step == [q \in Rings |-> BuyMemory(q)]
<1>1. step \in [Rings -> Rings]
  BY BuysMemory
<1>2. PICK f \in [Nat -> Rings] : f[0] = r /\ \A k \in Nat : f[k + 1] = step[f[k]]
  <2> HIDE DEF step
  <2> QED BY <1>1, Recursion
<1>3. ASSUME NEW k \in Nat PROVE f[k] = IF k = 0 THEN r ELSE BuyMemory(f[k - 1])
  <2>1. CASE k = 0
    BY <1>2, <2>1
  <2>2. CASE k # 0
    <3>1. k - 1 \in Nat /\ (k - 1) + 1 = k
      BY <2>2
    <3>2. f[k] = step[f[k - 1]]
      BY <1>2, <3>1
    <3>3. f[k - 1] \in Rings
      BY <1>2, <3>1
    <3> QED BY <2>2, <3>2, <3>3
  <2> QED BY <2>1, <2>2
<1>4. f = [k \in Nat |-> IF k = 0 THEN r ELSE BuyMemory(f[k - 1])]
  BY <1>2, <1>3
<1> DEFINE a == After(r)
<1>5. a = [k \in Nat |-> IF k = 0 THEN r ELSE BuyMemory(a[k - 1])]
  BY <1>4 DEF After
<1> HIDE DEF a
<1>6. a[0] = r
  BY <1>5
<1>7. ASSUME NEW k \in Nat PROVE a[k + 1] = BuyMemory(a[k])
  <2>1. k + 1 \in Nat /\ k + 1 # 0 /\ (k + 1) - 1 = k
    OBVIOUS
  <2> QED BY <1>5, <2>1
<1> QED BY <1>6, <1>7 DEF a

LEMMA AfterKeeps ==
  ASSUME NEW r \in Rings, NEW n \in Nat
  PROVE  /\ After(r)[n] \in Rings /\ Content(After(r)[n]) = Content(r)
         /\ WriteableSize(After(r)[n]) >= n
<1> DEFINE T == {k \in Nat : /\ After(r)[k] \in Rings /\ Content(After(r)[k]) = Content(r)
                             /\ WriteableSize(After(r)[k]) >= k}
<1>1. 0 \in T
  BY AfterIs, Readable, RingFields
<1>2. ASSUME NEW k \in T PROVE k + 1 \in T
  <2> DEFINE q == After(r)[k]
             b == BuyMemory(q)
  <2>1. /\ k \in Nat /\ k + 1 \in Nat /\ q \in Rings /\ Content(q) = Content(r)
        /\ WriteableSize(q) >= k
    OBVIOUS
  <2>2. After(r)[k + 1] = b
    BY <2>1, AfterIs
  <2> HIDE DEF q
  <2>3. b \in Rings /\ Content(b) = Content(q) /\ WriteableSize(b) > WriteableSize(q)
    BY <2>1, BuysMemory
  <2> HIDE DEF b
  <2>4. /\ WriteableSize(b) \in 0 .. b.size - 1 /\ b.size \in Nat
        /\ WriteableSize(q) \in 0 .. q.size - 1 /\ q.size \in Nat
    BY <2>1, <2>3, Readable, RingFields
  <2>5. WriteableSize(b) >= k + 1
    BY <2>1, <2>3, <2>4
  <2> QED BY <2>1, <2>2, <2>3, <2>5
<1>3. T = Nat
  <2> HIDE DEF T
  <2>1. T \in SUBSET Nat
    BY DEF T
  <2> QED BY <1>1, <1>2, <2>1, AllNumbers
<1> QED BY <1>3

\* The ring of "while(WriteableSize() < len) BuyMemory();"
LEMMA Grows ==
  ASSUME NEW r \in Rings, NEW len \in Nat
  PROVE  /\ Grown(r, len) \in Rings /\ Content(Grown(r, len)) = Content(r)
         /\ WriteableSize(Grown(r, len)) >= len
<1>1. len \in Enough(r, len) /\ Enough(r, len) \in SUBSET Nat
  BY AfterKeeps DEF Enough
<1>2. PICK k \in Enough(r, len) : \A j \in Enough(r, len) : k <= j
  BY <1>1, LowestOf
<1>3. Lowest(Enough(r, len)) = k
  BY <1>1, <1>2, LowestIsIt
<1>4. k \in Nat /\ WriteableSize(After(r)[k]) >= len
  BY <1>1, <1>2 DEF Enough
<1> QED BY <1>3, <1>4, AfterKeeps, GrownIs

\* The bytes written into a ring with room for them: behind those that are there,
\* in one copy, or in two around the end of the memory.
WrittenCells(g, s) ==
  LET room == g.size - g.windex
  IN IF g.rindex > g.windex \/ room >= Len(s) THEN Copied(g.cells, g.windex, s)
     ELSE Copied(Copied(g.cells, g.windex, SubSeq(s, 1, room)),
                 0, SubSeq(s, room + 1, Len(s)))

LEMMA CellsWritten ==
  ASSUME NEW g \in Rings, NEW s \in Seq(Bytes), WriteableSize(g) >= Len(s)
  PROVE  /\ WrittenCells(g, s) \in [0 .. g.size - 1 -> Bytes]
         /\ \A i \in 1 .. ReadableSize(g) :
              WrittenCells(g, s)[Around(g.rindex + i - 1, g.size)]
                = g.cells[Around(g.rindex + i - 1, g.size)]
         /\ \A i \in 1 .. Len(s) :
              WrittenCells(g, s)[Around(g.windex + i - 1, g.size)] = s[i]
<1> DEFINE size == g.size
           r == g.rindex
           w == g.windex
           old == g.cells
           n == Len(s)
           room == size - w
           c == WrittenCells(g, s)
<1>1. /\ size \in Nat \ {0} /\ old \in [0 .. size - 1 -> Bytes]
      /\ r \in 0 .. size - 1 /\ w \in 0 .. size - 1 /\ n \in Nat
      /\ room \in 1 .. size
      /\ r <= w => ReadableSize(g) = w - r /\ n <= size - 1 - (w - r)
      /\ w < r => ReadableSize(g) = (size - r) + w /\ n <= r - w - 1
  BY RingFields, LenProperties DEF ReadableSize, WriteableSize
<1>2. \A i \in 1 .. n : s[i] \in Bytes
  BY ElementOfSeq
<1>3. c = IF r > w \/ room >= n THEN Copied(old, w, s)
          ELSE Copied(Copied(old, w, SubSeq(s, 1, room)), 0, SubSeq(s, room + 1, n))
  BY DEF WrittenCells
<1>4. size \in Nat /\ w \in Nat /\ old \in [0 .. size - 1 -> Bytes]
  BY <1>1
<1>7. Len(s) = n
  OBVIOUS
<1> HIDE DEF size, r, w, old, n, c
<1>5. CASE r > w \/ room >= n
  <2>1. c = Copied(old, w, s)
    BY <1>3, <1>5
  <2>2. /\ c \in [0 .. size - 1 -> Bytes]
        /\ \A i \in 0 .. size - 1 :
             c[i] = IF w <= i /\ i < w + n THEN s[i - w + 1] ELSE old[i]
    <3>1. /\ Copied(old, w, s) \in [0 .. size - 1 -> Bytes]
          /\ \A i \in 0 .. size - 1 : Copied(old, w, s)[i] =
               IF w <= i /\ i < w + Len(s) THEN s[i - w + 1] ELSE old[i]
      BY <1>4, Copies, Zenon
    <3> QED BY <1>7, <2>1, <3>1
  <2>3. ASSUME NEW i \in 1 .. ReadableSize(g)
        PROVE  c[Around(r + i - 1, size)] = old[Around(r + i - 1, size)]
    <3> DEFINE p == Around(r + i - 1, size)
    <3>1. p \in 0 .. size - 1 /\ ~ (w <= p /\ p < w + n)
      BY <1>1, <1>5 DEF Around
    <3> HIDE DEF p
    <3>2. c[p] = old[p]
      BY <2>2, <3>1
    <3> QED BY <3>2 DEF p
  <2>4. ASSUME NEW i \in 1 .. n PROVE c[Around(w + i - 1, size)] = s[i]
    <3> DEFINE p == Around(w + i - 1, size)
    <3>1. p \in 0 .. size - 1 /\ w <= p /\ p < w + n /\ p - w + 1 = i
      BY <1>1, <1>5 DEF Around
    <3> HIDE DEF p
    <3>2. c[p] = s[p - w + 1]
      BY <2>2, <3>1
    <3> QED BY <3>1, <3>2 DEF p
  <2> QED BY <2>2, <2>3, <2>4 DEF c, size, r, w, old, n
<1>6. CASE ~ (r > w \/ room >= n)
  <2> DEFINE front == SubSeq(s, 1, room)
             back == SubSeq(s, room + 1, n)
             half == Copied(old, w, front)
  <2>1. c = Copied(half, 0, back)
    BY <1>3, <1>6
  <2>2. room \in 0 .. n /\ r <= w
    BY <1>1, <1>6
  <2>3. /\ front \in Seq(Bytes) /\ Len(front) = room
        /\ \A i \in 1 .. room : front[i] = s[i]
    <3> HIDE DEF room
    <3> QED BY <1>7, <2>2, Beginning
  <2>4. /\ back \in Seq(Bytes) /\ Len(back) = n - room
        /\ \A i \in 1 .. n - room : back[i] = s[room + i]
    <3> HIDE DEF room
    <3> QED BY <1>7, <2>2, Remainder
  <2> HIDE DEF front, back
  <2>5. /\ half \in [0 .. size - 1 -> Bytes]
        /\ \A i \in 0 .. size - 1 :
             half[i] = IF w <= i /\ i < w + Len(front) THEN front[i - w + 1] ELSE old[i]
    <3> HIDE DEF room
    <3>1. front \in Seq(Bytes)
      BY <2>3
    <3> QED BY <1>4, <3>1, Copies, Zenon
  <2> HIDE DEF half
  <2>6. /\ c \in [0 .. size - 1 -> Bytes]
        /\ \A i \in 0 .. size - 1 :
             c[i] = IF 0 <= i /\ i < Len(back) THEN back[i + 1] ELSE half[i]
    <3>1. PICK at \in Nat : at = 0
      OBVIOUS
    <3>2. size \in Nat /\ at \in Nat
      BY <1>4
    <3>3. back \in Seq(Bytes)
      BY <2>4
    <3>4. half \in [0 .. size - 1 -> Bytes]
      BY <2>5
    <3>5. /\ Copied(half, at, back) \in [0 .. size - 1 -> Bytes]
          /\ \A i \in 0 .. size - 1 : Copied(half, at, back)[i] =
               IF at <= i /\ i < at + Len(back) THEN back[i - at + 1] ELSE half[i]
      BY <3>2, <3>3, <3>4, Copies, Zenon
    <3> QED BY <2>1, <2>4, <3>1, <3>5
  <2>7. ASSUME NEW i \in 1 .. ReadableSize(g)
        PROVE  c[Around(r + i - 1, size)] = old[Around(r + i - 1, size)]
    <3> DEFINE p == Around(r + i - 1, size)
    <3>1. p \in 0 .. size - 1 /\ p < w /\ ~ (p < n - room)
      BY <1>1, <1>6, <2>2 DEF Around
    <3> HIDE DEF p
    <3>2. c[p] = half[p]
      BY <2>4, <2>6, <3>1
    <3>3. half[p] = old[p]
      BY <1>1, <2>5, <3>1
    <3> QED BY <3>2, <3>3 DEF p
  <2>8. ASSUME NEW i \in 1 .. n PROVE c[Around(w + i - 1, size)] = s[i]
    <3> DEFINE p == Around(w + i - 1, size)
    <3>1. CASE i <= room
      <4>1. /\ p \in 0 .. size - 1 /\ w <= p /\ p < w + room /\ p - w + 1 = i
            /\ ~ (p < n - room) /\ i \in 1 .. room
        BY <1>1, <1>6, <2>2, <3>1 DEF Around
      <4> HIDE DEF p
      <4>2. c[p] = half[p]
        BY <2>4, <2>6, <4>1
      <4>3. half[p] = front[p - w + 1]
        BY <2>3, <2>5, <4>1
      <4> QED BY <2>3, <4>1, <4>2, <4>3 DEF p
    <3>2. CASE i > room
      <4>1. /\ p \in 0 .. size - 1 /\ 0 <= p /\ p < n - room /\ p + 1 \in 1 .. n - room
            /\ room + (p + 1) = i
        BY <1>1, <1>6, <2>2, <3>2 DEF Around
      <4> HIDE DEF p
      <4>2. c[p] = back[p + 1]
        BY <2>4, <2>6, <4>1
      <4>3. back[p + 1] = s[i]
        BY <2>4, <4>1
      <4> QED BY <4>2, <4>3 DEF p
    <3> QED BY <1>1, <3>1, <3>2
  <2> QED BY <2>6, <2>7, <2>8 DEF c, size, r, w, old, n
<1> QED BY <1>5, <1>6

\* The write position is where the bytes end.
LEMMA EndOfBytes ==
  ASSUME NEW n \in Nat, NEW r \in 0 .. n - 1, NEW w \in 0 .. n - 1,
         NEW l \in Nat, NEW k \in l + 1 .. n - 1,
         l = IF w >= r THEN w - r ELSE (n - r) + w
  PROVE  Around(r + k - 1, n) = Around(w + (k - l) - 1, n)
<1>1. CASE w >= r
  <2>1. r + k - 1 = w + (k - l) - 1
    BY <1>1
  <2> QED BY <2>1
<1>2. CASE w < r
  <2>1. /\ r + k - 1 - n = w + (k - l) - 1
        /\ r + k - 1 >= n /\ w + (k - l) - 1 < n
    BY <1>2
  <2> QED BY <1>2, <2>1 DEF Around
<1> QED BY <1>1, <1>2

LEMMA BehindTheLast ==
  ASSUME NEW g \in Rings, NEW i \in ReadableSize(g) + 1 .. g.size - 1
  PROVE  Around(g.rindex + i - 1, g.size)
           = Around(g.windex + (i - ReadableSize(g)) - 1, g.size)
<1>1. /\ g.size \in Nat /\ g.rindex \in 0 .. g.size - 1
      /\ g.windex \in 0 .. g.size - 1 /\ ReadableSize(g) \in Nat
  BY RingFields, Readable
<1>2. ReadableSize(g) = IF g.windex >= g.rindex THEN g.windex - g.rindex
                        ELSE (g.size - g.rindex) + g.windex
  BY <1>1 DEF ReadableSize
<1> QED BY <1>1, <1>2, EndOfBytes

\* A write appends its bytes.
LEMMA WritesAppend ==
  ASSUME NEW r \in Rings, NEW s \in Seq(Bytes)
  PROVE  Written(r, s) \in Rings /\ Content(Written(r, s)) = Content(r) \o s
<1>1. Content(r) \in Seq(Bytes) /\ Len(s) \in Nat
  BY Contents, LenProperties
<1>2. CASE s = <<>>
  BY <1>1, <1>2, ConcatEmptySeq DEF Written
<1>3. CASE s # <<>>
  <2> DEFINE g == Grown(r, Len(s))
             c == WrittenCells(g, s)
             j == Around(g.windex + Len(s), g.size)
             w == Written(r, s)
             text == Content(r)
  <2>1. g \in Rings /\ Content(g) = text /\ WriteableSize(g) >= Len(s)
    BY <1>1, Grows
  <2>2. w = [g EXCEPT !.cells = c, !.windex = (@ + Len(s)) % g.size]
    BY <1>3 DEF Written, WrittenCells
  <2> HIDE DEF g, c, w, text
  <2>3. /\ g = [size |-> g.size, rindex |-> g.rindex, windex |-> g.windex, cells |-> g.cells]
        /\ g.size \in Nat \ {0} /\ g.rindex \in 0 .. g.size - 1
        /\ g.windex \in 0 .. g.size - 1
        /\ ReadableSize(g) \in 0 .. g.size - 1 /\ Len(s) <= g.size - 1 - ReadableSize(g)
    BY <2>1, RingFields, Readable
  <2>4. /\ c \in [0 .. g.size - 1 -> Bytes]
        /\ \A i \in 1 .. ReadableSize(g) :
             c[Around(g.rindex + i - 1, g.size)] = g.cells[Around(g.rindex + i - 1, g.size)]
        /\ \A i \in 1 .. Len(s) : c[Around(g.windex + i - 1, g.size)] = s[i]
    BY <2>1, CellsWritten DEF c
  <2>5. (g.windex + Len(s)) % g.size = j /\ j \in 0 .. g.size - 1
    <3>1. g.windex + Len(s) \in 0 .. 2 * g.size - 1
      BY <1>1, <2>3
    <3>2. (g.windex + Len(s)) % g.size = j
      BY <2>3, <3>1, ModIsAround
    <3>3. j \in 0 .. g.size - 1
      BY <1>1, <2>3, <3>1 DEF Around
    <3> QED BY <3>2, <3>3
  <2>6. w = [size |-> g.size, rindex |-> g.rindex, windex |-> j, cells |-> c]
    <3> HIDE DEF j
    <3> QED BY <2>2, <2>3, <2>5
  <2>7. w \in Rings
    <3> HIDE DEF j
    <3> QED BY <2>3, <2>4, <2>5, <2>6, RingMade
  <2>8. w.size = g.size /\ w.rindex = g.rindex /\ w.windex = j /\ w.cells = c
    <3> HIDE DEF j
    <3> QED BY <2>6
  <2>9. ReadableSize(w) = ReadableSize(g) + Len(s)
    BY <1>1, <2>3, <2>8, SMTT(30) DEF ReadableSize, Around
  <2> HIDE DEF j
  <2>10. /\ Content(w) \in Seq(Bytes) /\ Len(Content(w)) = ReadableSize(g) + Len(s)
         /\ \A i \in 1 .. ReadableSize(g) + Len(s) :
              Content(w)[i] = c[Around(g.rindex + i - 1, g.size)]
    BY <2>7, <2>8, <2>9, Contents
  <2>11. /\ text \in Seq(Bytes) /\ Len(text) = ReadableSize(g)
         /\ \A i \in 1 .. ReadableSize(g) :
              text[i] = g.cells[Around(g.rindex + i - 1, g.size)]
    BY <2>1, Contents
  <2> DEFINE both == text \o s
  <2>12. /\ both \in Seq(Bytes) /\ Len(both) = Len(text) + Len(s)
         /\ \A i \in 1 .. Len(text) + Len(s) :
              both[i] = IF i <= Len(text) THEN text[i] ELSE s[i - Len(text)]
    BY <2>11, ConcatProperties
  <2> HIDE DEF both
  <2>13. ASSUME NEW i \in 1 .. ReadableSize(g) + Len(s)
         PROVE  Content(w)[i] = both[i]
    <3>1. Content(w)[i] = c[Around(g.rindex + i - 1, g.size)]
      BY <2>10
    <3>2. CASE i <= ReadableSize(g)
      <4>1. i \in 1 .. ReadableSize(g)
        BY <2>3, <3>2
      <4>2. both[i] = text[i]
        BY <2>11, <2>12, <3>2
      <4> QED BY <2>4, <2>11, <3>1, <4>1, <4>2
    <3>3. CASE i > ReadableSize(g)
      <4> DEFINE k == i - ReadableSize(g)
      <4>1. k \in 1 .. Len(s) /\ ~ (i <= ReadableSize(g))
        BY <1>1, <2>3, <3>3
      <4>2. Around(g.rindex + i - 1, g.size) = Around(g.windex + k - 1, g.size)
        <5>1. i \in ReadableSize(g) + 1 .. g.size - 1
          BY <1>1, <2>3, <4>1
        <5> QED BY <2>1, <5>1, BehindTheLast
      <4> HIDE DEF k
      <4>3. c[Around(g.windex + k - 1, g.size)] = s[k]
        BY <2>4, <4>1
      <4>4. both[i] = s[k]
        BY <2>11, <2>12, <4>1 DEF k
      <4> QED BY <3>1, <4>2, <4>3, <4>4
    <3> QED BY <2>3, <3>2, <3>3
  <2>14. Content(w) = both
    <3>1. Len(Content(w)) = Len(both)
      BY <2>10, <2>11, <2>12
    <3>2. \A i \in 1 .. Len(Content(w)) : Content(w)[i] = both[i]
      BY <2>10, <2>13
    <3> QED BY <2>10, <2>12, <3>1, <3>2, SeqEqual
  <2> QED BY <2>7, <2>14 DEF w, both, text
<1> QED BY <1>2, <1>3

-----------------------------------------------------------------------------
(* The operations of the buffers.                                           *)

RingInv == bufs \in [Buffers -> Rings]

LEMMA InitRing == Init => RingInv
<1> SUFFICES ASSUME Init PROVE RingInv
  OBVIOUS
<1>1. Default \in Nat \ {0} /\ Zero \in Bytes
  BY ServerBufferAssumption
<1>2. 0 \in 0 .. Default - 1 /\ [i \in 0 .. Default - 1 |-> Zero] \in [0 .. Default - 1 -> Bytes]
  BY <1>1
<1>3. [size |-> Default, rindex |-> 0, windex |-> 0,
       cells |-> [i \in 0 .. Default - 1 |-> Zero]] \in Rings
  BY <1>1, <1>2, RingMade
<1> QED BY <1>3 DEF Init, RingInv

LEMMA InputsAreTexts ==
  ASSUME NEW bytes \in Inputs PROVE bytes \in Seq(Bytes)
<1>1. PICK n \in 0 .. MaxBytes : bytes \in [1 .. n -> Bytes]
  BY DEF Inputs
<1>2. n \in Nat
  BY ServerBufferAssumption
<1> QED BY <1>1, <1>2

\* The buffer of an operation becomes another ring; the others stay.
Becomes(b, q) == q \in Rings /\ bufs' = [bufs EXCEPT ![b] = q]

LEMMA BecomesKeeps ==
  ASSUME RingInv, NEW b \in Buffers, NEW q, Becomes(b, q)
  PROVE  /\ RingInv' /\ bufs'[b] = q
         /\ \A o \in Buffers \ {b} : bufs'[o] = bufs[o]
BY DEF RingInv, Becomes

LEMMA WriteStep ==
  ASSUME RingInv, NEW b \in Buffers, NEW bytes \in Inputs, Write(b, bytes)
  PROVE  \E q : Becomes(b, q) /\ Content(q) = Content(bufs[b]) \o bytes
<1> DEFINE r == bufs[b]
           q == Written(r, bytes)
<1>1. r \in Rings /\ bytes \in Seq(Bytes)
  BY InputsAreTexts DEF RingInv
<1>2. q \in Rings /\ Content(q) = Content(r) \o bytes
  BY <1>1, WritesAppend
<1>3. bufs' = [bufs EXCEPT ![b] = q]
  BY DEF Write
<1> QED BY <1>2, <1>3 DEF Becomes

\* In one piece, in two around the end of the memory, or a copy of its own.
LEMMA WriteServerBufferStep ==
  ASSUME RingInv, NEW b \in Buffers, NEW s \in Buffers, WriteServerBuffer(b, s)
  PROVE  \E q : Becomes(b, q) /\ Content(q) = Content(bufs[b]) \o Content(bufs[s])
<1> DEFINE d == bufs[b]
           r == bufs[s]
           text == Content(r)
           tail == r.size - r.rindex
           front == Cells(r, r.rindex, tail)
           back == Cells(r, 0, r.windex)
           one == Cells(r, r.rindex, ReadableSize(r))
<1>1. d \in Rings /\ r \in Rings
  BY DEF RingInv
<1>2. bufs' = [bufs EXCEPT ![b] =
                 IF b = s THEN Written(d, Snapshot(r))
                 ELSE IF r.windex >= r.rindex THEN Written(d, one)
                 ELSE Written(Written(d, front), back)]
  BY DEF WriteServerBuffer
<1> HIDE DEF d, r
<1>3. text \in Seq(Bytes) /\ Content(d) \in Seq(Bytes) /\ Len(text) = ReadableSize(r)
  BY <1>1, Contents
<1>4. /\ r.size \in Nat \ {0} /\ r.rindex \in 0 .. r.size - 1
      /\ r.windex \in 0 .. r.size - 1 /\ ReadableSize(r) \in 0 .. r.size - 1
  BY <1>1, RingFields, Readable
<1> HIDE DEF text
<1>5. CASE b = s
  <2>1. Snapshot(r) = text
    BY <1>1, SnapshotIsContent DEF text
  <2>2. Written(d, text) \in Rings /\ Content(Written(d, text)) = Content(d) \o text
    BY <1>1, <1>3, WritesAppend
  <2>3. bufs' = [bufs EXCEPT ![b] = Written(d, text)]
    BY <1>2, <1>5, <2>1
  <2> QED BY <2>2, <2>3 DEF Becomes, text, d, r
<1>6. CASE b # s /\ r.windex >= r.rindex
  <2>1. one = text
    <3>1. ReadableSize(r) \in 0 .. ReadableSize(r) /\ r.rindex + ReadableSize(r) <= r.size
      BY <1>4, <1>6 DEF ReadableSize
    <3>2. one = SubSeq(text, 1, ReadableSize(r))
      BY <1>1, <3>1, OnePiece DEF text
    <3> QED BY <1>3, <3>2, SubSeqFull
  <2>2. Written(d, text) \in Rings /\ Content(Written(d, text)) = Content(d) \o text
    BY <1>1, <1>3, WritesAppend
  <2>3. bufs' = [bufs EXCEPT ![b] = Written(d, text)]
    BY <1>2, <1>6, <2>1
  <2> QED BY <2>2, <2>3 DEF Becomes, text, d, r
<1>7. CASE b # s /\ ~ (r.windex >= r.rindex)
  <2>1. /\ r.windex < r.rindex /\ ReadableSize(r) = tail + r.windex
        /\ tail \in Nat /\ r.windex \in Nat /\ r.rindex \in Nat
        /\ r.rindex + tail <= r.size /\ r.windex <= r.size
        /\ ReadableSize(r) \in tail .. ReadableSize(r)
        /\ ReadableSize(r) - tail = r.windex
    BY <1>4, <1>7 DEF ReadableSize
  <2>2. front \o back = text
    <3>1. front \o back = SubSeq(text, 1, ReadableSize(r))
      BY <1>1, <2>1, TwoPieces DEF text
    <3> QED BY <1>3, <3>1, SubSeqFull
  <2>3. front \in Seq(Bytes)
    <3> HIDE DEF tail
    <3> QED BY <1>1, <2>1, ManyCells
  <2>4. back \in Seq(Bytes)
    <3>1. PICK at \in Nat : at = 0
      OBVIOUS
    <3>2. at + r.windex <= r.size
      BY <2>1, <3>1
    <3>3. Cells(r, at, r.windex) \in Seq(Bytes)
      BY <1>1, <2>1, <3>2, ManyCells
    <3> QED BY <3>1, <3>3
  <2> HIDE DEF front, back
  <2> DEFINE h == Written(d, front)
             q == Written(h, back)
  <2>5. h \in Rings /\ Content(h) = Content(d) \o front
    BY <1>1, <2>3, WritesAppend
  <2> HIDE DEF h
  <2>6. q \in Rings /\ Content(q) = Content(h) \o back
    BY <2>4, <2>5, WritesAppend
  <2>7. Content(q) = Content(d) \o text
    <3> HIDE DEF q
    <3>1. (Content(d) \o front) \o back = Content(d) \o (front \o back)
      BY <1>3, <2>3, <2>4, ConcatAssociative, SMTT(30)
    <3> QED BY <2>2, <2>5, <2>6, <3>1
  <2>8. bufs' = [bufs EXCEPT ![b] = q]
    BY <1>2, <1>7 DEF h, q
  <2> QED BY <2>6, <2>7, <2>8 DEF Becomes, text, d, r
<1> QED BY <1>5, <1>6, <1>7

LEMMA ReadStep ==
  ASSUME RingInv, NEW b \in Buffers, NEW n \in Nat, Read(b, n)
  PROVE  /\ n \in 0 .. Len(Content(bufs[b]))
         /\ \E q : /\ Becomes(b, q)
                   /\ Content(q) = SubSeq(Content(bufs[b]), n + 1, Len(Content(bufs[b])))
<1> DEFINE r == bufs[b]
           q == MoveRindex(r, n)
<1>1. r \in Rings
  BY DEF RingInv
<1>2. n <= ReadableSize(r) /\ bufs' = [bufs EXCEPT ![b] = q]
  BY DEF Read
<1> HIDE DEF r, q
<1>3. n \in 0 .. ReadableSize(r) /\ Len(Content(r)) = ReadableSize(r)
  BY <1>1, <1>2, Readable, Contents
<1>4. q \in Rings /\ Content(q) = SubSeq(Content(r), n + 1, Len(Content(r)))
  BY <1>1, <1>3, MoveTakes DEF q
<1> QED BY <1>2, <1>3, <1>4 DEF Becomes, r

\* Up to the first newline, with it.
LEMMA GetLineStep ==
  ASSUME RingInv, NEW b \in Buffers, GetLine(b)
  PROVE  \E n \in 0 .. Len(Content(bufs[b])) :
           \E q : /\ Becomes(b, q)
                  /\ Content(q) = SubSeq(Content(bufs[b]), n + 1, Len(Content(bufs[b])))
<1> DEFINE r == bufs[b]
<1>1. r \in Rings
  BY DEF RingInv
<1>2. PICK off \in FindCRLF(r) : bufs' = [bufs EXCEPT ![b] = MoveRindex(r, off + 1)]
  BY DEF GetLine
<1> HIDE DEF r
<1>3. /\ Len(Content(r)) = ReadableSize(r) /\ ReadableSize(r) \in Nat
  BY <1>1, Contents, Readable, RingFields
<1>4. off + 1 \in 0 .. ReadableSize(r)
  <2>1. PICK i \in Newlines(Content(r)) : off = i - 1
    BY <1>1, <1>2, FindsFirst
  <2>2. i \in 1 .. ReadableSize(r)
    BY <1>3 DEF Newlines
  <2> QED BY <1>3, <2>1, <2>2
<1>5. /\ MoveRindex(r, off + 1) \in Rings
      /\ Content(MoveRindex(r, off + 1)) =
           SubSeq(Content(r), (off + 1) + 1, Len(Content(r)))
  <2>1. PICK n \in 0 .. ReadableSize(r) : n = off + 1
    BY <1>4
  <2> QED BY <1>1, <2>1, MoveTakes
<1>6. PICK n \in 0 .. Len(Content(r)) : n = off + 1
  BY <1>3, <1>4
<1> QED BY <1>2, <1>5, <1>6 DEF Becomes, r

LEMMA BothReset ==
  ASSUME NEW r \in Rings
  PROVE  [r EXCEPT !.rindex = 0, !.windex = 0]
           = [size |-> r.size, rindex |-> 0, windex |-> 0, cells |-> r.cells]
<1> DEFINE one == [size |-> r.size, rindex |-> 0, windex |-> r.windex, cells |-> r.cells]
<1>1. [r EXCEPT !.rindex = 0] = one
  BY RingFields
<1>2. [one EXCEPT !.windex = 0]
        = [size |-> r.size, rindex |-> 0, windex |-> 0, cells |-> r.cells]
  OBVIOUS
<1>3. [r EXCEPT !.rindex = 0, !.windex = 0] = [[r EXCEPT !.rindex = 0] EXCEPT !.windex = 0]
  OBVIOUS
<1> HIDE DEF one
<1> QED BY <1>1, <1>2, <1>3, Zenon

LEMMA ResetStep ==
  ASSUME RingInv, NEW b \in Buffers, Reset(b)
  PROVE  \E q : Becomes(b, q) /\ Content(q) = <<>>
<1> DEFINE r == bufs[b]
           q == [size |-> r.size, rindex |-> 0, windex |-> 0, cells |-> r.cells]
<1>1. /\ r \in Rings /\ r.size \in Nat \ {0} /\ r.cells \in [0 .. r.size - 1 -> Bytes]
      /\ r = [size |-> r.size, rindex |-> r.rindex, windex |-> r.windex, cells |-> r.cells]
      /\ 0 \in 0 .. r.size - 1
  BY RingFields DEF RingInv
<1>2. bufs' = [bufs EXCEPT ![b] = q]
  <2>1. /\ bufs' = [bufs EXCEPT ![b].rindex = 0, ![b].windex = 0]
        /\ bufs \in [Buffers -> Rings]
    BY DEF Reset, RingInv
  <2>2. [r EXCEPT !.rindex = 0, !.windex = 0] = q
    BY <1>1, BothReset
  <2> HIDE DEF q
  <2>3. bufs' = [bufs EXCEPT ![b] = [r EXCEPT !.rindex = 0, !.windex = 0]]
    <3>1. bufs'[b] = [r EXCEPT !.rindex = 0, !.windex = 0]
      BY <2>1
    <3>2. \A o \in Buffers : o # b => bufs'[o] = bufs[o]
      BY <2>1
    <3>3. bufs' = [o \in Buffers |-> bufs'[o]] /\ DOMAIN bufs' = Buffers
      BY <2>1
    <3> QED BY <2>1, <3>1, <3>2, <3>3
  <2> QED BY <2>2, <2>3
<1>3. q \in Rings
  BY <1>1, RingMade
<1>4. Content(q) = <<>>
  BY <1>3, EmptyRing
<1> QED BY <1>2, <1>3, <1>4 DEF Becomes

LEMMA NextRing == RingInv /\ [Next]_vars => RingInv'
<1> SUFFICES ASSUME RingInv, [Next]_vars PROVE RingInv'
  OBVIOUS
<1>1. ASSUME NEW b \in Buffers, NEW bytes \in Inputs, Write(b, bytes) PROVE RingInv'
  BY <1>1, WriteStep, BecomesKeeps
<1>2. ASSUME NEW b \in Buffers, NEW s \in Buffers, WriteServerBuffer(b, s) PROVE RingInv'
  BY <1>2, WriteServerBufferStep, BecomesKeeps
<1>3. ASSUME NEW b \in Buffers, NEW n \in 0 .. MaxBytes, Read(b, n) PROVE RingInv'
  <2>1. n \in Nat
    BY ServerBufferAssumption
  <2> QED BY <1>3, <2>1, ReadStep, BecomesKeeps
<1>4. ASSUME NEW b \in Buffers, GetLine(b) PROVE RingInv'
  BY <1>4, GetLineStep, BecomesKeeps
<1>5. ASSUME NEW b \in Buffers, Reset(b) PROVE RingInv'
  BY <1>5, ResetStep, BecomesKeeps
<1>6. ASSUME UNCHANGED vars PROVE RingInv'
  BY <1>6 DEF vars, RingInv
<1> QED BY <1>1, <1>2, <1>3, <1>4, <1>5, <1>6 DEF Next

LEMMA AlwaysRing == Spec => []RingInv
BY InitRing, NextRing, PTL DEF Spec

-----------------------------------------------------------------------------
(* The theorems.                                                            *)

\* Indices stay inside the memory, whatever is written, read, moved and reset
\* (source/Buffer.hpp).
THEOREM TypeCorrect == Spec => []TypeOK
<1>1. RingInv => TypeOK
  BY RingFields DEF RingInv, TypeOK
<1> QED BY <1>1, AlwaysRing, PTL

\* Empty and full tell the number of the bytes.
LEMMA OldestOfRing ==
  ASSUME NEW r \in Rings
  PROVE  /\ Empty(r) <=> Content(r) = <<>>
         /\ Full(r) <=> Len(Content(r)) = r.size - 1
<1>1. /\ r.size \in Nat \ {0} /\ r.rindex \in 0 .. r.size - 1
      /\ r.windex \in 0 .. r.size - 1
  BY RingFields
<1>2. Content(r) \in Seq(Bytes) /\ Len(Content(r)) = ReadableSize(r)
  BY Contents
<1>3. Content(r) = <<>> <=> ReadableSize(r) = 0
  BY <1>2, EmptySeq
<1>4. Empty(r) <=> ReadableSize(r) = 0
  BY <1>1 DEF Empty, ReadableSize
<1>5. (r.windex + 1) % r.size = Around(r.windex + 1, r.size)
  <2>1. r.windex + 1 \in 0 .. 2 * r.size - 1
    BY <1>1
  <2> QED BY <1>1, <2>1, ModIsAround
<1>6. Full(r) <=> Around(r.windex + 1, r.size) = r.rindex
  BY <1>5 DEF Full
<1>7. Around(r.windex + 1, r.size) = r.rindex <=> ReadableSize(r) = r.size - 1
  BY <1>1 DEF Around, ReadableSize
<1> QED BY <1>2, <1>3, <1>4, <1>6, <1>7

\* A read in one copy or two, the segments for sendmsg and the search for the end
\* of a line all see the oldest bytes, and empty and full are what they say, for
\* a ring of every size (Peek, Read, FindCRLF, Connection::HandleWrite).
THEOREM OldestIsRead == Spec => []ReadsTheOldest
<1>1. ASSUME RingInv PROVE ReadsTheOldest
  <2>1. ASSUME NEW b \in Buffers
        PROVE  LET r == bufs[b]
                   text == Content(r)
                   newlines == {i \in 1 .. Len(text) : text[i] = Newline}
               IN /\ Empty(r) <=> text = <<>>
                  /\ Full(r) <=> Len(text) = r.size - 1
                  /\ \A n \in 0 .. Len(text) : Peek(r, n) = SubSeq(text, 1, n)
                  /\ Segments(r)[1] \o Segments(r)[2] = text
                  /\ FindCRLF(r) =
                       {i - 1 : i \in {j \in newlines : \A k \in newlines : j <= k}}
    <3> DEFINE r == bufs[b]
    <3>1. r \in Rings
      BY <1>1 DEF RingInv
    <3> HIDE DEF r
    <3>2. Len(Content(r)) = ReadableSize(r)
      BY <3>1, Contents
    <3>3. \A n \in 0 .. Len(Content(r)) : Peek(r, n) = SubSeq(Content(r), 1, n)
      BY <3>1, <3>2, PeekIsOldest
    <3>4. Segments(r)[1] \o Segments(r)[2] = Content(r)
      BY <3>1, SegmentsAreContent
    <3>5. FindCRLF(r) = {i - 1 : i \in {j \in Newlines(Content(r)) :
                                         \A k \in Newlines(Content(r)) : j <= k}}
      BY <3>1, FindsFirst
    <3>6. /\ Empty(r) <=> Content(r) = <<>>
          /\ Full(r) <=> Len(Content(r)) = r.size - 1
      BY <3>1, OldestOfRing
    <3> QED BY <3>3, <3>4, <3>5, <3>6 DEF r, Newlines
  <2> QED BY <2>1 DEF ReadsTheOldest
<1> QED BY <1>1, AlwaysRing, PTL

\* A buffer written into another (Connection::Send) is appended to it, in one
\* piece, in two around the end of the memory, or to itself, whatever memory must
\* be bought for it.
THEOREM AppendsBuffers == Spec => BuffersAreAppended
<1> DEFINE Appended(b, s) ==
      /\ Content(bufs'[b]) = Content(bufs[b]) \o Content(bufs[s])
      /\ \A o \in Buffers \ {b} : Content(bufs'[o]) = Content(bufs[o])
<1>1. ASSUME RingInv, NEW b \in Buffers, NEW s \in Buffers, WriteServerBuffer(b, s)
      PROVE  Appended(b, s)
  <2>1. PICK q : Becomes(b, q) /\ Content(q) = Content(bufs[b]) \o Content(bufs[s])
    BY <1>1, WriteServerBufferStep
  <2>2. bufs'[b] = q /\ \A o \in Buffers \ {b} : bufs'[o] = bufs[o]
    BY <1>1, <2>1, BecomesKeeps
  <2> QED BY <2>1, <2>2
<1>2. RingInv /\ [Next]_vars =>
        [\A b, s \in Buffers : WriteServerBuffer(b, s) => Appended(b, s)]_vars
  BY <1>1
<1> QED BY <1>2, AlwaysRing, PTL DEF Spec, BuffersAreAppended

\* The abstract queues, and what an operation does to them.
queues == [b \in Buffers |-> Content(bufs[b])]

LEMMA PutsOrTakes ==
  ASSUME RingInv, NEW b \in Buffers, NEW q, Becomes(b, q),
         \/ \E s \in Seq(Bytes) : Content(q) = Content(bufs[b]) \o s
         \/ \E n \in 0 .. Len(Content(bufs[b])) :
              Content(q) = SubSeq(Content(bufs[b]), n + 1, Len(Content(bufs[b])))
  PROVE  Queues!Next
<1>1. /\ bufs'[b] = q /\ \A o \in Buffers \ {b} : bufs'[o] = bufs[o]
      /\ q \in Rings /\ bufs[b] \in Rings
  BY BecomesKeeps DEF Becomes, RingInv
<1>2. queues[b] = Content(bufs[b]) /\ DOMAIN queues = Buffers
  BY DEF queues
<1>3. queues' = [queues EXCEPT ![b] = Content(q)]
  <2>1. \A o \in Buffers : queues'[o] = IF o = b THEN Content(q) ELSE queues[o]
    BY <1>1 DEF queues
  <2>2. queues' = [o \in Buffers |-> queues'[o]]
    BY DEF queues
  <2> QED BY <1>2, <2>1, <2>2 DEF queues
<1>4. queues'[b] = Content(q)
  BY <1>2, <1>3
<1>5. Content(bufs[b]) \in Seq(Bytes) /\ Content(q) \in Seq(Bytes)
  BY <1>1, Contents
<1>6. CASE \E s \in Seq(Bytes) : Content(q) = Content(bufs[b]) \o s
  <2> DEFINE text == Content(bufs[b])
             more == Content(q)
  <2>1. PICK s \in Seq(Bytes) : more = text \o s
    BY <1>6
  <2> HIDE DEF text, more
  <2>2. text \in Seq(Bytes) /\ more \in Seq(Bytes) /\ Len(text) \in Nat
    BY <1>5, LenProperties DEF text, more
  <2>3. /\ Len(more) = Len(text) + Len(s) /\ Len(s) \in Nat
        /\ \A i \in 1 .. Len(text) : more[i] = text[i]
    BY <2>1, <2>2, ConcatProperties, LenProperties
  <2>4. Len(text) \in 0 .. Len(more) /\ Len(more) >= Len(text)
    BY <2>2, <2>3
  <2>5. /\ SubSeq(more, 1, Len(text)) \in Seq(Bytes)
        /\ Len(SubSeq(more, 1, Len(text))) = Len(text)
        /\ \A i \in 1 .. Len(text) : SubSeq(more, 1, Len(text))[i] = more[i]
    BY <2>2, <2>4, Beginning
  <2>6. SubSeq(more, 1, Len(text)) = text
    BY <2>2, <2>3, <2>5, SeqEqual
  <2>7. Queues!Put(b)
    BY <1>2, <1>3, <1>4, <2>2, <2>4, <2>6 DEF Queues!Put, queues, text, more
  <2> QED BY <2>7 DEF Queues!Next
<1>7. CASE \E n \in 0 .. Len(Content(bufs[b])) :
             Content(q) = SubSeq(Content(bufs[b]), n + 1, Len(Content(bufs[b])))
  <2>1. PICK n \in 0 .. Len(Content(bufs[b])) :
          Content(q) = SubSeq(Content(bufs[b]), n + 1, Len(Content(bufs[b])))
    BY <1>7
  <2>2. Queues!Take(b, n)
    BY <1>2, <1>3, <2>1 DEF Queues!Take, queues
  <2>3. n \in 0 .. Len(queues[b])
    BY <1>2
  <2> QED BY <2>2, <2>3 DEF Queues!Next, queues
<1> QED BY <1>6, <1>7

\* A ring is a queue: with whatever default, threshold and increment of the
\* memory, every operation puts bytes behind the others or takes the oldest.
THEOREM RingImplementsQueue == Spec => ImplementsByteQueue
<1>1. Init => Queues!Init
  <2> SUFFICES ASSUME Init PROVE Queues!Init
    OBVIOUS
  <2>1. ASSUME NEW b \in Buffers PROVE Content(bufs[b]) = <<>>
    <3>1. bufs[b] \in Rings
      BY InitRing DEF RingInv
    <3>2. bufs[b].rindex = 0 /\ bufs[b].windex = 0
      BY DEF Init
    <3> QED BY <3>1, <3>2, EmptyRing
  <2> QED BY <2>1 DEF Queues!Init
<1>2. RingInv /\ [Next]_vars => [Queues!Next]_queues
  <2> SUFFICES ASSUME RingInv, [Next]_vars PROVE [Queues!Next]_queues
    OBVIOUS
  <2>1. ASSUME NEW b \in Buffers, NEW bytes \in Inputs, Write(b, bytes) PROVE Queues!Next
    BY <2>1, WriteStep, InputsAreTexts, PutsOrTakes
  <2>2. ASSUME NEW b \in Buffers, NEW s \in Buffers, WriteServerBuffer(b, s)
        PROVE  Queues!Next
    <3>1. Content(bufs[s]) \in Seq(Bytes)
      BY Contents DEF RingInv
    <3> QED BY <2>2, <3>1, WriteServerBufferStep, PutsOrTakes
  <2>3. ASSUME NEW b \in Buffers, NEW n \in 0 .. MaxBytes, Read(b, n) PROVE Queues!Next
    <3>1. n \in Nat
      BY ServerBufferAssumption
    <3> QED BY <2>3, <3>1, ReadStep, PutsOrTakes
  <2>4. ASSUME NEW b \in Buffers, GetLine(b) PROVE Queues!Next
    BY <2>4, GetLineStep, PutsOrTakes
  <2>5. ASSUME NEW b \in Buffers, Reset(b) PROVE Queues!Next
    <3> DEFINE text == Content(bufs[b])
    <3>1. PICK q : Becomes(b, q) /\ Content(q) = <<>>
      BY <2>5, ResetStep
    <3>2. text \in Seq(Bytes) /\ Len(text) \in Nat
      BY Contents, LenProperties DEF RingInv
    <3>3. SubSeq(text, Len(text) + 1, Len(text)) = <<>> /\ Len(text) \in 0 .. Len(text)
      <4> HIDE DEF text
      <4>1. Len(text) + 1 \in Int /\ Len(text) \in Int /\ Len(text) < Len(text) + 1
        BY <3>2
      <4> QED BY <3>2, <4>1, SubSeqEmpty
    <3> QED BY <3>1, <3>3, PutsOrTakes
  <2>6. ASSUME UNCHANGED vars PROVE UNCHANGED queues
    BY <2>6 DEF vars, queues
  <2> QED BY <2>1, <2>2, <2>3, <2>4, <2>5, <2>6 DEF Next
<1> QED BY <1>1, <1>2, AlwaysRing, PTL DEF Spec, ImplementsByteQueue, Queues!Spec, queues
=============================================================================
