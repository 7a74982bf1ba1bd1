---------------------------- MODULE AtomicQueue ----------------------------
(***************************************************************************)
(* What boost::lockfree::fifo promises its users: a first-in first-out     *)
(* queue on which enqueue and dequeue take effect at one instant between   *)
(* their call and their return.  A dequeue that returns false changes      *)
(* nothing, so for it this says that the queue was empty at some moment    *)
(* since the call.                                                         *)
(***************************************************************************)
EXTENDS Sequences

CONSTANTS
    Threads,
    Values,
    NoVal       \* the content of arg[t] when there is none

VARIABLES
    queue,  \* the values in the queue, the oldest first
    call,   \* call[t]: where thread t is in its operation
    arg,    \* arg[t]: the value to enqueue, or the value dequeued
    seen    \* seen[t]: the queue has been empty since t called dequeue

vars == <<queue, call, arg, seen>>

Init ==
    /\ queue = <<>>
    /\ call = [t \in Threads |-> "none"]
    /\ arg = [t \in Threads |-> NoVal]
    /\ seen = [t \in Threads |-> FALSE]

Become(t, c, v) ==
    /\ call' = [call EXCEPT ![t] = c]
    /\ arg' = [arg EXCEPT ![t] = v]

CallEnqueue(t) ==
    /\ call[t] = "none"
    /\ \E v \in Values : Become(t, "enqueue", v)
    /\ UNCHANGED <<queue, seen>>

\* enqueue puts its value at the end of the queue.
Enqueue(t) ==
    /\ call[t] = "enqueue"
    /\ queue' = Append(queue, arg[t])
    /\ Become(t, "enqueued", NoVal)
    /\ UNCHANGED seen

\* enqueue returns true when its value is in the queue, and false when it
\* found no node for it.  When that may happen is not for the queue to say but
\* for its pool, see FifoPoolIsPool.
ReturnEnqueue(t) ==
    /\ call[t] \in {"enqueue", "enqueued"}
    /\ Become(t, "none", NoVal)
    /\ UNCHANGED <<queue, seen>>

CallDequeue(t) ==
    /\ call[t] = "none"
    /\ Become(t, "dequeue", NoVal)
    /\ seen' = [seen EXCEPT ![t] = (queue = <<>>)]
    /\ UNCHANGED queue

\* dequeue takes the oldest value; the others that are dequeueing may find
\* the queue empty if it was the last.
Dequeue(t) ==
    /\ call[t] = "dequeue"
    /\ queue # <<>>
    /\ queue' = Tail(queue)
    /\ Become(t, "dequeued", queue[1])
    /\ seen' = [u \in Threads |->
                    u # t /\ (seen[u] \/ (call[u] = "dequeue" /\ queue' = <<>>))]

\* dequeue returns true with the value it took.
ReturnValue(t) ==
    /\ call[t] = "dequeued"
    /\ Become(t, "none", NoVal)
    /\ UNCHANGED <<queue, seen>>

\* dequeue returns false.
ReturnEmpty(t) ==
    /\ call[t] = "dequeue"
    /\ seen[t]
    /\ Become(t, "none", NoVal)
    /\ seen' = [seen EXCEPT ![t] = FALSE]
    /\ UNCHANGED queue

\* enqueue_unsafe and dequeue_unsafe run alone.
EnqueueAlone ==
    /\ \A t \in Threads : call[t] = "none"
    /\ \E v \in Values : queue' = Append(queue, v)
    /\ UNCHANGED <<call, arg, seen>>

DequeueAlone ==
    /\ \A t \in Threads : call[t] = "none"
    /\ queue # <<>>
    /\ queue' = Tail(queue)
    /\ UNCHANGED <<call, arg, seen>>

Next ==
    \/ \E t \in Threads :
        \/ CallEnqueue(t) \/ Enqueue(t) \/ ReturnEnqueue(t)
        \/ CallDequeue(t) \/ Dequeue(t) \/ ReturnValue(t) \/ ReturnEmpty(t)
    \/ EnqueueAlone \/ DequeueAlone

Spec == Init /\ [][Next]_vars
=============================================================================
