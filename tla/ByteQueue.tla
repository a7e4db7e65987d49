----------------------------- MODULE ByteQueue -----------------------------
(***************************************************************************)
(* What the buffers of the connections promise (source/Buffer.hpp): each   *)
(* is a FIFO queue of bytes.  ServerBuffer.tla implements it.              *)
(***************************************************************************)
EXTENDS Naturals, Sequences

CONSTANTS Buffers, Bytes

VARIABLE queue   \* per buffer: bytes written and not read yet, oldest first

Init == queue = [b \in Buffers |-> <<>>]

\* Bytes are added behind those that are there, from outside or from a buffer.
Put(b) ==
  /\ queue'[b] \in Seq(Bytes)
  /\ Len(queue'[b]) >= Len(queue[b])
  /\ SubSeq(queue'[b], 1, Len(queue[b])) = queue[b]
  /\ queue' = [queue EXCEPT ![b] = queue'[b]]

\* The oldest n bytes are taken.
Take(b, n) == queue' = [queue EXCEPT ![b] = SubSeq(@, n + 1, Len(@))]

Next ==
  \E b \in Buffers :
    \/ Put(b)
    \/ \E n \in 0 .. Len(queue[b]) : Take(b, n)

Spec == Init /\ [][Next]_queue
=============================================================================
