------------------------------ MODULE TaskQueue ------------------------------
(***************************************************************************)
(* What an event loop promises to those who hand it work: what is posted   *)
(* is run by the loop's thread, in the order it was posted, each posting   *)
(* once, one at a time.  Work the loop's thread hands to itself with       *)
(* RunInLoop does not queue.  EventLoop.tla is shown to implement it.      *)
(***************************************************************************)
EXTENDS Naturals, Sequences

CONSTANTS Functors,  \* the pieces of work; each is posted again when it has run
          Idle       \* nothing is being run

VARIABLES queue,     \* posted, not started
          current,   \* what the loop's thread is running
          inlined    \* the last piece of work it ran without queueing

vars == <<queue, current, inlined>>

Queued == {queue[k] : k \in 1 .. Len(queue)}

Init == queue = <<>> /\ current = Idle /\ inlined = Idle

Post(f) == /\ f \notin Queued /\ f # current
           /\ queue' = Append(queue, f)
           /\ UNCHANGED <<current, inlined>>

Start == /\ current = Idle /\ queue # <<>>
         /\ current' = Head(queue)
         /\ queue' = Tail(queue)
         /\ UNCHANGED inlined

Finish == current' = Idle /\ UNCHANGED <<queue, inlined>>

RunInline(f) == /\ f \notin Queued
                /\ inlined' = f
                /\ UNCHANGED <<queue, current>>

Next == \/ \E f \in Functors : Post(f) \/ RunInline(f)
        \/ Start
        \/ Finish

Spec == Init /\ [][Next]_vars
=============================================================================
