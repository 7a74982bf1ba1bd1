---------------------------- MODULE BoundedQueue ----------------------------
(***************************************************************************)
(* What boost::lockfree::ringbuffer promises its one producer and its one  *)
(* consumer: a first-in first-out queue of bounded capacity.  Whole blocks *)
(* of values appear at its end, and the consumer copies out a prefix       *)
(* before it removes it.                                                   *)
(***************************************************************************)
EXTENDS Naturals, Sequences

CONSTANTS
    Values,
    Capacity

VARIABLES
    queue,  \* the values in the queue, the oldest first
    out     \* the values that the consumer has copied and not yet removed

vars == <<queue, out>>

Init == queue = <<>> /\ out = <<>>

\* A block of values becomes visible to the consumer at once.
Publish ==
    /\ queue' \in Seq(Values)
    /\ Len(queue') \in Len(queue) .. Capacity
    /\ SubSeq(queue', 1, Len(queue)) = queue
    /\ UNCHANGED out

\* The consumer has copied the n oldest values.
Copy ==
    /\ out = <<>>
    /\ \E n \in 1 .. Len(queue) : out' = SubSeq(queue, 1, n)
    /\ UNCHANGED queue

\* The values that were copied leave the queue.
Drop ==
    /\ out # <<>>
    /\ queue' = SubSeq(queue, Len(out) + 1, Len(queue))
    /\ out' = <<>>

\* reset(): the queue is emptied.
Reset ==
    /\ out = <<>>
    /\ queue' = <<>>
    /\ UNCHANGED out

Next == Publish \/ Copy \/ Drop \/ Reset

Spec == Init /\ [][Next]_vars
=============================================================================
