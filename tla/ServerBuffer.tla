---------------------------- MODULE ServerBuffer ----------------------------
(***************************************************************************)
(* source/Buffer.hpp: the input and output buffers of a connection, rings  *)
(* that grow, with one cell always free to tell a full one from an empty   *)
(* one.  Positions are those of the code, from 0.  A connection has two of *)
(* them, and Send() moves the bytes of one into another.                   *)
(* ByteQueue.tla says what a buffer promises.                              *)
(***************************************************************************)
EXTENDS Naturals, Sequences

CONSTANTS
  Buffers,     \* the buffers
  Bytes,       \* values of bytes ...
  Zero,        \* ... that of fresh memory
  Newline,     \* ... and '\n'
  Default,     \* DEFAULT_SERVER_BUFFER_SIZE
  Threshold,   \* THRESHOLD_SERVER_BUFFER_SIZE: doubles below it ...
  Increment,   \* INCREMENT_SERVER_BUFFER_SIZE: ... and grows by this from it on
  MaxBytes     \* bound: bytes in a buffer

ASSUME ServerBufferAssumption ==
  /\ Zero \in Bytes /\ Newline \in Bytes
  /\ Default \in Nat \ {0} /\ Increment \in Nat \ {0} /\ Threshold \in Nat
  /\ MaxBytes \in Nat

VARIABLE bufs   \* per buffer: _buffer (size and cells), _rindex, _windex

vars == bufs

Init ==
  bufs = [b \in Buffers |-> [size |-> Default, rindex |-> 0, windex |-> 0,
                            cells |-> [i \in 0 .. Default - 1 |-> Zero]]]

-----------------------------------------------------------------------------
(* The operators, of a ring r.                                              *)

ReadableSize(r) ==
  IF r.windex >= r.rindex THEN r.windex - r.rindex ELSE (r.size - r.rindex) + r.windex

WriteableMutant(r) == r.size - ReadableSize(r)
WriteableSize(r) == r.size - 1 - ReadableSize(r)

Empty(r) == r.windex = r.rindex
Full(r) == (r.windex + 1) % r.size = r.rindex

ReadableSizeContiguous(r) ==
  IF r.windex >= r.rindex THEN ReadableSize(r) ELSE r.size - r.rindex

\* std::copy out of, and into, contiguous cells.
Cells(r, from, n) == [i \in 1 .. n |-> r.cells[from + i - 1]]
Copied(cells, at, bytes) ==
  [i \in DOMAIN cells |->
     IF at <= i /\ i < at + Len(bytes) THEN bytes[i - at + 1] ELSE cells[i]]

MoveRindex(r, n) == [r EXCEPT !.rindex = (@ + n) % r.size]

\* The bytes that can be read, in one copy or two; they stay.
PeekMutant(r, n) ==
  IF r.windex >= r.rindex \/ r.size - r.rindex >= n THEN Cells(r, r.rindex, n)
  ELSE Cells(r, 0, n - (r.size - r.rindex)) \o Cells(r, r.rindex, r.size - r.rindex)
Peek(r, n) ==
  IF r.windex >= r.rindex \/ r.size - r.rindex >= n THEN Cells(r, r.rindex, n)
  ELSE Cells(r, r.rindex, r.size - r.rindex) \o Cells(r, 0, n - (r.size - r.rindex))
Snapshot(r) == Peek(r, ReadableSize(r))

\* What is there is moved to the front of the larger memory.
BuyMemory(r) ==
  LET newsize == IF r.size < Threshold THEN r.size * 2 ELSE r.size + Increment
      kept == IF r.windex >= r.rindex THEN r.cells ELSE <<>>
      fresh == [i \in 0 .. newsize - 1 |-> IF i \in DOMAIN kept THEN kept[i] ELSE Zero]
  IN [size |-> newsize, rindex |-> 0, windex |-> ReadableSize(r),
      cells |-> Copied(fresh, 0, Snapshot(r))]

\* "while(WriteableSize() < len) BuyMemory();"
Grown(r, len) ==
  LET after[k \in Nat] == IF k = 0 THEN r ELSE BuyMemory(after[k - 1])
      enough == {k \in 0 .. len : WriteableSize(after[k]) >= len}
  IN after[CHOOSE k \in enough : \A j \in enough : k <= j]

Written(r, bytes) ==
  LET g == Grown(r, Len(bytes))
      room == g.size - g.windex
      cells == IF g.rindex > g.windex \/ room >= Len(bytes)
                 THEN Copied(g.cells, g.windex, bytes)
                 ELSE Copied(Copied(g.cells, g.windex, SubSeq(bytes, 1, room)),
                             0, SubSeq(bytes, room + 1, Len(bytes)))
  IN IF bytes = <<>> THEN r
     ELSE [g EXCEPT !.cells = cells, !.windex = (@ + Len(bytes)) % g.size]

\* FindCRLF: the offset of the first newline behind the read position, searched
\* up to the end of the memory and then from its start.
FindCRLF(r) ==
  LET readable == ReadableSize(r)
      suflen == IF r.size - r.rindex > readable THEN readable ELSE r.size - r.rindex
      Hits(from, n) == {i \in 0 .. n - 1 : r.cells[from + i] = Newline}
      First(s) == CHOOSE i \in s : \A j \in s : i <= j
  IN IF Hits(r.rindex, suflen) # {} THEN {First(Hits(r.rindex, suflen))}
     ELSE {suflen + First(s) : s \in {Hits(0, readable - suflen)} \ {{}}}

\* The two segments that Connection::HandleWrite gives to sendmsg.
Segments(r) ==
  LET tail == ReadableSizeContiguous(r)
  IN <<Cells(r, r.rindex, tail), Cells(r, 0, ReadableSize(r) - tail)>>

-----------------------------------------------------------------------------
(* The operations.  What Read and GetLine hand out is Peek(bufs[b], n), the *)
(* bytes they then move past.                                               *)

Fits(b, n) == ReadableSize(bufs[b]) + n <= MaxBytes

Write(b, bytes) ==
  /\ Fits(b, Len(bytes))
  /\ bufs' = [bufs EXCEPT ![b] = Written(@, bytes)]

\* Appends the bytes of another buffer, in one piece or two, or a copy of its
\* own; the source keeps them.
WriteServerBufferMutant(b, s) ==
  LET r == bufs[s]
      Append2(d) ==
        IF r.windex >= r.rindex THEN Written(d, Cells(r, r.rindex, ReadableSize(r)))
        ELSE Written(Written(d, Cells(r, 0, r.windex)), Cells(r, r.rindex, r.size - r.rindex))
  IN /\ Fits(b, ReadableSize(r))
     /\ bufs' = [bufs EXCEPT ![b] = IF b = s THEN Written(@, Snapshot(r)) ELSE Append2(@)]
WriteServerBuffer(b, s) ==
  LET r == bufs[s]
      Append2(d) ==
        IF r.windex >= r.rindex THEN Written(d, Cells(r, r.rindex, ReadableSize(r)))
        ELSE Written(Written(d, Cells(r, r.rindex, r.size - r.rindex)), Cells(r, 0, r.windex))
  IN /\ Fits(b, ReadableSize(r))
     /\ bufs' = [bufs EXCEPT ![b] = IF b = s THEN Written(@, Snapshot(r)) ELSE Append2(@)]

\* Read, ReadAsString (whose callers, and assertion, see to it that the bytes
\* are there), and the MoveRindex behind a sendmsg of n bytes.
Read(b, n) ==
  /\ n <= ReadableSize(bufs[b])
  /\ bufs' = [bufs EXCEPT ![b] = MoveRindex(@, n)]

\* Up to the newline, with it; nothing if there is none.
GetLine(b) ==
  \E off \in FindCRLF(bufs[b]) : bufs' = [bufs EXCEPT ![b] = MoveRindex(@, off + 1)]

Reset(b) == bufs' = [bufs EXCEPT ![b].rindex = 0, ![b].windex = 0]

Inputs == UNION {[1 .. n -> Bytes] : n \in 0 .. MaxBytes}

Next ==
  \E b \in Buffers :
    \/ \E bytes \in Inputs : Write(b, bytes)
    \/ \E s \in Buffers : WriteServerBuffer(b, s)
    \/ \E n \in 0 .. MaxBytes : Read(b, n)
    \/ GetLine(b)
    \/ Reset(b)

Spec == Init /\ [][Next]_vars

-----------------------------------------------------------------------------
(* Properties.                                                              *)

\* Indices are inside the memory, and one cell is always free (CheckInvariants
\* of test/server_test/serverbuffertest.cpp).
TypeOK ==
  \A b \in Buffers :
    LET r == bufs[b]
    IN /\ r.size \in Nat \ {0} /\ r.cells \in [0 .. r.size - 1 -> Bytes]
       /\ r.rindex \in 0 .. r.size - 1 /\ r.windex \in 0 .. r.size - 1

\* The bytes of a buffer, oldest first.
Content(r) == [i \in 1 .. ReadableSize(r) |-> r.cells[(r.rindex + i - 1) % r.size]]

\* Every read hands out the oldest bytes, in one copy or two; the segments for
\* sendmsg are the same bytes; GetLine ends at the first newline, if there is
\* one; and a buffer calls itself empty or full when it is.
ReadsTheOldest ==
  \A b \in Buffers :
    LET r == bufs[b]
        text == Content(r)
        newlines == {i \in 1 .. Len(text) : text[i] = Newline}
    IN /\ Empty(r) <=> text = <<>>
       /\ Full(r) <=> Len(text) = r.size - 1
       /\ \A n \in 0 .. Len(text) : Peek(r, n) = SubSeq(text, 1, n)
       /\ Segments(r)[1] \o Segments(r)[2] = text
       /\ FindCRLF(r) = {i - 1 : i \in {j \in newlines : \A k \in newlines : j <= k}}

\* A buffer is a FIFO queue of bytes, wrapped or not, grown or not, whatever the
\* mixture of operations.
Queues == INSTANCE ByteQueue WITH queue <- [b \in Buffers |-> Content(bufs[b])]
ImplementsByteQueue == Queues!Spec

\* A buffer's bytes written into another (Connection::Send) are appended in
\* their order, and nobody else's change.
BuffersAreAppended ==
  [][\A b, s \in Buffers : WriteServerBuffer(b, s) =>
       /\ Content(bufs'[b]) = Content(bufs[b]) \o Content(bufs[s])
       /\ \A o \in Buffers \ {b} : Content(bufs'[o]) = Content(bufs[o])]_vars
=============================================================================
