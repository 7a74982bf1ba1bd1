-------------------------------- MODULE Fifo --------------------------------
(***************************************************************************)
(* boost::lockfree::detail::fifo: the queue of Michael and Scott with      *)
(* tagged pointers whose nodes come from a freelist_stack.  A node's next  *)
(* is an atomic tagged pointer.  Its pointer half is the word that the     *)
(* pool uses as its link, next[n] of Freelist; its tag half is ntag[n],    *)
(* which the pool keeps (set_ptr) and which every new life of the node     *)
(* increments.  All steps inside the pool are the steps of Freelist.       *)
(***************************************************************************)
EXTENDS Freelist

CONSTANTS
    Values,     \* the values of T
    NoVal       \* no value: the contents of a node without a T

ASSUME NoValAssumption == NoVal \notin Values

\* node::next is where the pool's link is, so what the pool finds in a node
\* in use includes every pointer.
ASSUME LinkAssumption == Ptr \subseteq Garbage

VARIABLES
    head,       \* head_
    tail,       \* tail_
    ntag,       \* ntag[n]: the tag half of next of node n
    data,       \* data[n]: node::data of node n
    que,        \* history: the nodes from head_ on, the dummy node first
    seen,       \* history: the queue was empty since t called dequeue
    phase,      \* "raw" in the constructor, "open", "drain" and "close" in ~fifo
    fpc,        \* fpc[t]: the step of the fifo's code thread t is at
    fhead,      \* fhead[t], ftail[t], fnext[t]: the locals head, tail, next
    ftail,
    fnext,
    fnode,      \* fnode[t]: the local n of enqueue
    fval        \* fval[t]: the argument t of enqueue, the result ret of dequeue

fifoVars == <<head, tail, ntag, data, que, seen, phase,
              fpc, fhead, ftail, fnext, fnode, fval>>

locals == <<fpc, fhead, ftail, fnext, fnode, fval>>

allVars == <<vars, fifoVars>>

FifoLabels == {"idle", "e_pool", "e_tail", "e_next", "e_check", "e_link",
               "e_help", "e_done", "d_head", "d_tail", "d_next", "d_check",
               "d_help", "d_data", "d_cas", "d_pool", "r_pool", "u_link"}

FifoTypeOK ==
    /\ head \in TPtr /\ tail \in TPtr
    /\ ntag \in [Nodes -> Tag]
    /\ data \in [Nodes -> Values \cup {NoVal}]
    /\ que \in Seq(Nodes)
    /\ seen \in [Threads -> BOOLEAN]
    /\ phase \in {"raw", "open", "drain", "close"}
    /\ fpc \in [Threads -> FifoLabels]
    /\ fhead \in [Threads -> TPtr] /\ ftail \in [Threads -> TPtr]
    /\ fnext \in [Threads -> [ptr : Ptr \cup Garbage, tag : Tag]]
    /\ fnode \in [Threads -> Ptr]
    /\ fval \in [Threads -> Values \cup {NoVal}]

\* Raw storage.  The tag of the next of a node that was never used is
\* whatever was in the memory: node(v) reads it before it is initialised.
FifoInit ==
    /\ Init
    /\ head = Nil /\ tail = Nil
    /\ ntag \in [Nodes -> Tag]
    /\ data = [n \in Nodes |-> NoVal]
    /\ que = <<>>
    /\ seen = [t \in Threads |-> FALSE]
    /\ phase = "raw"
    /\ fpc = [t \in Threads |-> "idle"]
    /\ fhead = [t \in Threads |-> Nil]
    /\ ftail = [t \in Threads |-> Nil]
    /\ fnext = [t \in Threads |-> Nil]
    /\ fnode = [t \in Threads |-> NULL]
    /\ fval = [t \in Threads |-> NoVal]

FGoto(t, l) == fpc' = [fpc EXCEPT ![t] = l]

\* The operation of t is over: its locals are dead.
FReturn(t) ==
    /\ FGoto(t, "idle")
    /\ fhead' = [fhead EXCEPT ![t] = Nil]
    /\ ftail' = [ftail EXCEPT ![t] = Nil]
    /\ fnext' = [fnext EXCEPT ![t] = Nil]
    /\ fnode' = [fnode EXCEPT ![t] = NULL]
    /\ fval' = [fval EXCEPT ![t] = NoVal]

\* The loop of t starts again at label l: head, tail and next are dead.
Again(t, l) ==
    /\ FGoto(t, l)
    /\ fhead' = [fhead EXCEPT ![t] = Nil]
    /\ ftail' = [ftail EXCEPT ![t] = Nil]
    /\ fnext' = [fnext EXCEPT ![t] = Nil]
    /\ UNCHANGED fnode

FIdle == \A t \in Threads : fpc[t] = "idle"

\* A thread may call an operation: no operation that wants to be alone runs.
Ready(t) ==
    /\ phase = "open"
    /\ fpc[t] = "idle"
    /\ \A u \in Threads : fpc[u] # "u_link"

\* p->next.load()
NextOf(n) == MkPtr(next[n], ntag[n])

\* A mutated form of the next definition: tail_ is left where it is.
SwingTailNever(t, p) == UNCHANGED tail

\* tail_.compare_exchange_strong(ftail[t], (p, ftail[t].tag + 1)): it is never
\* retried, so only its effect matters.
SwingTail(t, p) ==
    tail' = IF tail = ftail[t] THEN MkPtr(p, IncTag(tail.tag)) ELSE tail

-----------------------------------------------------------------------------
(* Construction and destruction *)

\* fifo(n): pool.reserve_unsafe(n + 1); also reserve_unsafe(n) later.
FifoReserveUnsafe ==
    /\ phase \in {"raw", "open"} /\ FIdle
    /\ ReserveUnsafe
    /\ UNCHANGED fifoVars

\* initialize(): pool.construct() gives the dummy node, whose next is
\* (NULL, 0).  No other thread knows the fifo yet.
Initialize ==
    /\ phase = "raw"
    /\ ConstructUnsafe(NULL)
    /\ LET n == pool.ptr IN
        /\ head' = MkPtr(n, 0)
        /\ tail' = MkPtr(n, 0)
        /\ ntag' = [ntag EXCEPT ![n] = 0]
        /\ que' = <<n>>
    /\ phase' = "open"
    /\ UNCHANGED <<data, seen, locals>>

\* ~fifo: if (!empty()) the values are dequeued first.
Close ==
    /\ phase = "open" /\ FIdle
    /\ phase' = IF head.ptr = tail.ptr THEN "close" ELSE "drain"
    /\ UNCHANGED <<vars, head, tail, ntag, data, que, seen, locals>>

\* while (dequeue_unsafe(dummy)) is over.  With a null link and a tail_ at
\* another node dequeue_unsafe would not return: ~fifo has no step then.
Drained ==
    /\ phase = "drain"
    /\ head.ptr = tail.ptr
    /\ next[head.ptr] = NULL
    /\ phase' = "close"
    /\ UNCHANGED <<vars, head, tail, ntag, data, que, seen, locals>>

\* pool.destruct(head_.get_ptr()), alone, so that it does what
\* destruct_unsafe does.
CloseDummy ==
    /\ phase = "close"
    /\ que # <<>>
    /\ GiveBackUnsafe(head.ptr)
    /\ que' = Tail(que)
    /\ data' = [data EXCEPT ![head.ptr] = NoVal]
    /\ UNCHANGED <<head, tail, ntag, seen, phase, locals>>

\* The destructor of the pool.
ClosePool ==
    /\ phase = "close"
    /\ que = <<>>
    /\ BeginDestroy \/ DestroyStep
    /\ UNCHANGED fifoVars

\* The storage is raw again.
Reopen ==
    /\ phase = "close"
    /\ Recreate
    /\ phase' = "raw"
    /\ head' = Nil /\ tail' = Nil
    /\ UNCHANGED <<ntag, data, que, seen, locals>>

-----------------------------------------------------------------------------
(* enqueue *)

\* enqueue(v) calls pool.construct(v).
Enqueue(t) ==
    /\ Ready(t)
    /\ Construct(t)
    /\ \E v \in Values : fval' = [fval EXCEPT ![t] = v]
    /\ FGoto(t, "e_pool")
    /\ UNCHANGED <<head, tail, ntag, data, que, seen, phase, fhead, ftail, fnext, fnode>>

\* The steps inside pool.construct, pool.destruct and pool.reserve.
InPool(t) ==
    /\ \/ AllocLoad(t) \/ AllocGrow(t) \/ AllocRead(t) \/ AllocCAS(t)
       \/ AllocRetry(t) \/ DeallocLoad(t) \/ DeallocSet(t) \/ DeallocRetry(t)
    /\ UNCHANGED fifoVars

\* if (n == NULL) return false
EnqFail(t) ==
    /\ fpc[t] = "e_pool"
    /\ AllocFail(t)
    /\ FReturn(t)
    /\ UNCHANGED <<head, tail, ntag, data, que, seen, phase>>

\* The tag that node(v) gives to the next of a node.
NewTag(n) == IncTag(ntag[n])

\* node(v): next becomes (NULL, old tag + 1), and construct returns.
EnqNew(t) ==
    /\ fpc[t] = "e_pool"
    /\ AllocNew(t, NULL)
    /\ ntag' = [ntag EXCEPT ![node[t]] = NewTag(node[t])]
    /\ data' = [data EXCEPT ![node[t]] = fval[t]]
    /\ fnode' = [fnode EXCEPT ![t] = node[t]]
    /\ FGoto(t, "e_tail")
    /\ UNCHANGED <<head, tail, que, seen, phase, fhead, ftail, fnext, fval>>

\* tail = tail_.load(memory_order_acquire)
EnqTail(t) ==
    /\ fpc[t] = "e_tail"
    /\ ftail' = [ftail EXCEPT ![t] = tail]
    /\ FGoto(t, "e_next")
    /\ UNCHANGED <<vars, head, tail, ntag, data, que, seen, phase, fhead, fnext, fnode, fval>>

\* next = tail->next.load(memory_order_acquire)
EnqNext(t) ==
    /\ fpc[t] = "e_next"
    /\ fnext' = [fnext EXCEPT ![t] = NextOf(ftail[t].ptr)]
    /\ FGoto(t, "e_check")
    /\ UNCHANGED <<vars, head, tail, ntag, data, que, seen, phase, fhead, ftail, fnode, fval>>

\* tail2 = tail_.load(); if (tail == tail2) and what next_ptr decides
EnqCheck(t) ==
    /\ fpc[t] = "e_check"
    /\ \/ /\ tail = ftail[t]
          /\ FGoto(t, IF fnext[t].ptr = NULL THEN "e_link" ELSE "e_help")
          /\ UNCHANGED <<fhead, ftail, fnext, fnode>>
       \/ /\ tail # ftail[t]
          /\ Again(t, "e_tail")
    /\ UNCHANGED <<vars, head, tail, ntag, data, que, seen, phase, fval>>

\* tail->next.compare_exchange_weak(next, (n, next.get_tag() + 1)) succeeds
EnqLink(t) ==
    /\ fpc[t] = "e_link"
    /\ LET m == ftail[t].ptr IN
        /\ NextOf(m) = fnext[t]
        /\ PutWord(m, fnode[t])
        /\ ntag' = [ntag EXCEPT ![m] = IncTag(fnext[t].tag)]
    /\ que' = Append(que, fnode[t])
    /\ fnext' = [fnext EXCEPT ![t] = Nil]
    /\ fval' = [fval EXCEPT ![t] = NoVal]
    /\ FGoto(t, "e_done")
    /\ UNCHANGED <<head, tail, data, seen, phase, fhead, ftail, fnode>>

\* ... or fails: the loop starts again
EnqRetry(t) ==
    /\ fpc[t] = "e_link"
    /\ NextOf(ftail[t].ptr) # fnext[t] \/ SpuriousFail
    /\ Again(t, "e_tail")
    /\ UNCHANGED <<vars, head, tail, ntag, data, que, seen, phase, fval>>

\* tail_ is behind: move it to next_ptr and start again
EnqHelp(t) ==
    /\ fpc[t] = "e_help"
    /\ SwingTail(t, fnext[t].ptr)
    /\ Again(t, "e_tail")
    /\ UNCHANGED <<vars, head, ntag, data, que, seen, phase, fval>>

\* The node is linked: try to move tail_ to it, and return true
EnqDone(t) ==
    /\ fpc[t] = "e_done"
    /\ SwingTail(t, fnode[t])
    /\ FReturn(t)
    /\ UNCHANGED <<vars, head, ntag, data, que, seen, phase>>

-----------------------------------------------------------------------------
(* dequeue *)

Dequeue(t) ==
    /\ Ready(t)
    /\ seen' = [seen EXCEPT ![t] = (Len(que) = 1)]
    /\ FGoto(t, "d_head")
    /\ UNCHANGED <<vars, head, tail, ntag, data, que, phase, fhead, ftail, fnext, fnode, fval>>

\* head = head_.load(memory_order_acquire)
DeqHead(t) ==
    /\ fpc[t] = "d_head"
    /\ fhead' = [fhead EXCEPT ![t] = head]
    /\ FGoto(t, "d_tail")
    /\ UNCHANGED <<vars, head, tail, ntag, data, que, seen, phase, ftail, fnext, fnode, fval>>

\* tail = tail_.load(memory_order_acquire)
DeqTail(t) ==
    /\ fpc[t] = "d_tail"
    /\ ftail' = [ftail EXCEPT ![t] = tail]
    /\ FGoto(t, "d_next")
    /\ UNCHANGED <<vars, head, tail, ntag, data, que, seen, phase, fhead, fnext, fnode, fval>>

\* next = head->next.load(memory_order_acquire)
DeqNext(t) ==
    /\ fpc[t] = "d_next"
    /\ fnext' = [fnext EXCEPT ![t] = NextOf(fhead[t].ptr)]
    /\ FGoto(t, "d_check")
    /\ UNCHANGED <<vars, head, tail, ntag, data, que, seen, phase, fhead, ftail, fnode, fval>>

\* A mutated form of the next definition: head_ is not loaded again.
HeadSameAssumed(t) == TRUE

\* head2 = head_.load(): head has not moved
HeadSame(t) == head = fhead[t]

\* if (head == head2), both at the dummy node and no next: return false
DeqFail(t) ==
    /\ fpc[t] = "d_check"
    /\ HeadSame(t)
    /\ fhead[t].ptr = ftail[t].ptr
    /\ fnext[t].ptr = NULL
    /\ FReturn(t)
    /\ seen' = [seen EXCEPT ![t] = FALSE]
    /\ UNCHANGED <<vars, head, tail, ntag, data, que, phase>>

\* The other outcomes of the test: help tail_ forward, go on to read the
\* value, or start again, also when next_ptr is null.
DeqCheck(t) ==
    /\ fpc[t] = "d_check"
    /\ \/ /\ HeadSame(t)
          /\ fnext[t].ptr # NULL
          /\ FGoto(t, IF fhead[t].ptr = ftail[t].ptr THEN "d_help" ELSE "d_data")
          /\ UNCHANGED <<fhead, ftail, fnext, fnode>>
       \/ /\ HeadSame(t) => fhead[t].ptr # ftail[t].ptr /\ fnext[t].ptr = NULL
          /\ Again(t, "d_head")
    /\ UNCHANGED <<vars, head, tail, ntag, data, que, seen, phase, fval>>

\* tail_ is behind: move it to next_ptr and start again
DeqHelp(t) ==
    /\ fpc[t] = "d_help"
    /\ SwingTail(t, fnext[t].ptr)
    /\ Again(t, "d_head")
    /\ UNCHANGED <<vars, head, ntag, data, que, seen, phase, fval>>

\* ret = next_ptr->data: the node may have been dequeued and reused
DeqData(t) ==
    /\ fpc[t] = "d_data"
    /\ fval' = [fval EXCEPT ![t] = data[fnext[t].ptr]]
    /\ FGoto(t, "d_cas")
    /\ UNCHANGED <<vars, head, tail, ntag, data, que, seen, phase, fhead, ftail, fnext, fnode>>

\* Mutated forms of the next definition: the tag is not incremented, or not
\* cut to its width.
HeadTagKept(t) == fhead[t].tag
HeadTagWide(t) == fhead[t].tag + 1

\* The tag of the pointer that dequeue stores in head_.
HeadTag(t) == IncTag(fhead[t].tag)

\* Who has seen the queue empty once t has taken a value from it.
Emptied(t) ==
    [u \in Threads |->
        u # t /\ (seen[u] \/ (Len(que) = 2 /\ fpc[u] \in
            {"d_head", "d_tail", "d_next", "d_check", "d_help", "d_data", "d_cas"}))]

\* Mutated forms of the next definition: the node with the data is given back
\* instead of the old dummy node, or none is.
DeqCASFreesNext(t) ==
    /\ fpc[t] = "d_cas"
    /\ head = fhead[t]
    /\ head' = MkPtr(fnext[t].ptr, HeadTag(t))
    /\ que' = Tail(que)
    /\ seen' = Emptied(t)
    /\ GiveBack(t, fnext[t].ptr)
    /\ Again(t, "d_pool")
    /\ UNCHANGED <<tail, ntag, data, phase, fval>>

DeqCASLeaks(t) ==
    /\ fpc[t] = "d_cas"
    /\ head = fhead[t]
    /\ head' = MkPtr(fnext[t].ptr, HeadTag(t))
    /\ que' = Tail(que)
    /\ seen' = Emptied(t)
    /\ FReturn(t)
    /\ UNCHANGED <<vars, tail, ntag, data, phase>>

\* head_.compare_exchange_weak(head, (next_ptr, head.get_tag() + 1)) succeeds:
\* the old dummy node goes to pool.destruct, which ends the life of its data
DeqCAS(t) ==
    /\ fpc[t] = "d_cas"
    /\ head = fhead[t]
    /\ head' = MkPtr(fnext[t].ptr, HeadTag(t))
    /\ que' = Tail(que)
    /\ seen' = Emptied(t)
    /\ GiveBack(t, fhead[t].ptr)
    /\ data' = [data EXCEPT ![fhead[t].ptr] = NoVal]
    /\ Again(t, "d_pool")
    /\ UNCHANGED <<tail, ntag, phase, fval>>

\* ... or fails: the loop starts again
DeqRetry(t) ==
    /\ fpc[t] = "d_cas"
    /\ head # fhead[t] \/ SpuriousFail
    /\ Again(t, "d_head")
    /\ fval' = [fval EXCEPT ![t] = NoVal]
    /\ UNCHANGED <<vars, head, tail, ntag, data, que, seen, phase>>

\* pool.reserve(1)
FifoReserve(t) ==
    /\ Ready(t)
    /\ Reserve(t)
    /\ FGoto(t, "r_pool")
    /\ UNCHANGED <<head, tail, ntag, data, que, seen, phase, fhead, ftail, fnext, fnode, fval>>

\* destruct or reserve of the pool is over, and with it the operation.
PoolReturn(t) ==
    /\ fpc[t] \in {"d_pool", "r_pool"}
    /\ DeallocCAS(t)
    /\ FReturn(t)
    /\ UNCHANGED <<head, tail, ntag, data, que, seen, phase>>

-----------------------------------------------------------------------------
(* The operations that are not thread-safe. *)

\* enqueue_unsafe(v) takes a node with construct_unsafe (without one it
\* returns false and changes nothing) ...
EnqueueUnsafe(t) ==
    /\ phase = "open" /\ FIdle
    /\ ConstructUnsafe(NULL) \/ GrowUnsafe(NULL)
    /\ \E n \in used' \ used, v \in Values :
        /\ fnode' = [fnode EXCEPT ![t] = n]
        /\ ntag' = [ntag EXCEPT ![n] = NewTag(n)]
        /\ data' = [data EXCEPT ![n] = v]
    /\ FGoto(t, "u_link")
    /\ UNCHANGED <<head, tail, que, seen, phase, fhead, ftail, fnext, fval>>

\* ... moves tail_ if it is behind, links the node and stores tail_.
LinkUnsafe(t) ==
    /\ fpc[t] = "u_link"
    /\ LET tl == IF next[tail.ptr] = NULL
                 THEN tail ELSE MkPtr(next[tail.ptr], IncTag(tail.tag))
       IN /\ PutWord(tl.ptr, fnode[t])
          /\ ntag' = [ntag EXCEPT ![tl.ptr] = IncTag(@)]
          /\ tail' = MkPtr(fnode[t], IncTag(tl.tag))
    /\ que' = Append(que, fnode[t])
    /\ FReturn(t)
    /\ UNCHANGED <<head, data, seen, phase>>

\* dequeue_unsafe on a queue that is not empty; tail_ is moved first if it is
\* at the dummy node.
DequeueUnsafe ==
    /\ phase \in {"open", "drain"} /\ FIdle
    /\ LET n == next[head.ptr] IN
        /\ n # NULL
        /\ tail' = IF head.ptr = tail.ptr THEN MkPtr(n, IncTag(tail.tag)) ELSE tail
        /\ head' = MkPtr(n, IncTag(head.tag))
    /\ que' = Tail(que)
    /\ GiveBackUnsafe(head.ptr)
    /\ data' = [data EXCEPT ![head.ptr] = NoVal]
    /\ UNCHANGED <<ntag, seen, phase, locals>>

-----------------------------------------------------------------------------
\* One step of an operation that thread t has begun.
FifoStep(t) ==
    \/ InPool(t) \/ EnqFail(t) \/ EnqNew(t) \/ EnqTail(t) \/ EnqNext(t)
    \/ EnqCheck(t) \/ EnqLink(t) \/ EnqRetry(t) \/ EnqHelp(t) \/ EnqDone(t)
    \/ DeqHead(t) \/ DeqTail(t) \/ DeqNext(t) \/ DeqFail(t) \/ DeqCheck(t)
    \/ DeqHelp(t) \/ DeqData(t) \/ DeqCAS(t) \/ DeqRetry(t)
    \/ PoolReturn(t) \/ LinkUnsafe(t)

\* The tags of head_, of tail_ and of a node's next do not come round while a
\* thread holds the old value for a comparison: the assumption TagFresh of
\* the pool, for the fifo's own tagged pointers.
FifoFresh ==
    \A t \in Threads :
        /\ fpc[t] \in {"d_tail", "d_next", "d_check", "d_data", "d_cas"} =>
                (head'.tag # head.tag => head'.tag # fhead[t].tag)
        /\ fpc[t] \in {"e_next", "e_check", "e_link", "e_help", "e_done",
                       "d_next", "d_check", "d_help"} =>
                (tail'.tag # tail.tag => tail'.tag # ftail[t].tag)
        /\ fpc[t] \in {"e_check", "e_link"} =>
                LET m == ftail[t].ptr
                IN  ntag'[m] # ntag[m] => ntag'[m] # fnext[t].tag

FifoNext ==
    /\ \/ \E t \in Threads :
            FifoStep(t) \/ Enqueue(t) \/ Dequeue(t) \/ FifoReserve(t) \/ EnqueueUnsafe(t)
       \/ FifoReserveUnsafe \/ Initialize \/ DequeueUnsafe
       \/ Close \/ Drained \/ CloseDummy \/ ClosePool \/ Reopen
    /\ TagFresh
    /\ FifoFresh

FifoSpec == FifoInit /\ [][FifoNext]_allVars

\* Some thread that is inside an operation is run, whichever the scheduler
\* prefers.
FifoFairSpec ==
    /\ FifoSpec
    /\ WF_allVars((\E t \in Threads : FifoStep(t)) /\ TagFresh /\ FifoFresh)

-----------------------------------------------------------------------------
(* Properties *)

\* The fifo keeps what its pool expects of its users: it links only nodes that
\* the pool has handed out to nodes that it has not given back, and gives each
\* back once, although nothing in the code tests it (fifo.hpp:164, 237-241).
LawfulUser == Spec

\* head_ and the links are exactly the nodes that were enqueued and not
\* dequeued, after the dummy node, and tail_ is at the last one or, while an
\* enqueue or a dequeue can still move it, at the one before; so tail_ never
\* falls behind head_ onto a node that may be reused (fifo.hpp:156-243).
QueueIntact ==
    /\ phase # "raw" => IsChain(First(que), next, que)
    /\ phase \in {"open", "drain"} =>
        /\ que # <<>>
        /\ head.ptr = que[1]
        /\ \/ tail.ptr = que[Len(que)]
           \/ /\ Len(que) > 1 /\ tail.ptr = que[Len(que) - 1]
              /\ \E t \in Threads : fpc[t] = "e_done"

\* Thread t has a node that it has not yet linked.
Linking(t) ==
    fpc[t] \in {"e_tail", "e_next", "e_check", "e_link", "e_help", "u_link"}

\* A node of the fifo in the hands of thread t.
Hand(t) == IF Linking(t) THEN {fnode[t]} ELSE {}

\* The nodes that the pool has handed out are those of the queue and those
\* that an enqueue has not yet linked; none is in two places or lost.
QueueOwnsUsed ==
    /\ used = Range(que) \cup UNION {Hand(t) : t \in Threads}
    /\ \A t \in Threads :
        /\ Hand(t) \cap Range(que) = {}
        /\ \A u \in Threads \ {t} : Hand(t) \cap Hand(u) = {}

\* Once head == head2 has been established, next_ptr is null only at the last
\* node: the extra test that dequeue makes for a null pointer is never needed
\* (fifo.hpp:229-235).
NullNotObserved ==
    \A t \in Threads :
        fpc[t] = "d_check" /\ HeadSame(t) /\ fhead[t].ptr # ftail[t].ptr
            => fnext[t].ptr # NULL

\* When ~fifo reaches the destructor of the pool all nodes are back in it: no
\* value was left behind although empty() only compares head_ with tail_
\* (fifo.hpp:123-140).
ClosedEmpty == phase = "close" => Len(que) <= 1 /\ (que = <<>> => used = {})

\* Thread t is inside a dequeue that has not taken a value.
Dequeueing(t) ==
    fpc[t] \in {"d_head", "d_tail", "d_next", "d_check", "d_help", "d_data", "d_cas"}

\* The links from the dummy node on are the queue, and head_ is at its start.
QueueLinked ==
    /\ IsChain(First(que), next, que)
    /\ que # <<>> => head.ptr = que[1]

\* tail_ is at the last node or, as long as the enqueue that linked the last
\* node can still move it there, at the one before.
TailPlaced ==
    phase \in {"open", "drain"} =>
        /\ que # <<>>
        /\ tail.ptr \in Range(que)
        /\ next[tail.ptr] # NULL =>
            /\ next[next[tail.ptr]] = NULL
            /\ \E t \in Threads : fpc[t] = "e_done" /\ ftail[t] = tail

\* Each node that the pool has handed out has one place, and the link of a
\* node that is not yet in the queue is null.
NodesPlaced ==
    /\ \A n \in Range(que) : n \in used
    /\ \A n \in used : n \in Range(que) \/ \E t \in Threads : Linking(t) /\ fnode[t] = n
    /\ \A t \in Threads : Linking(t) =>
        /\ fnode[t] \in used
        /\ fnode[t] \notin Range(que)
        /\ next[fnode[t]] = NULL
        /\ \A u \in Threads \ {t} : Linking(u) => fnode[u] # fnode[t]

\* Where the pool's code is while the fifo's code waits for it.
PoolPhase(t) ==
    /\ fpc[t] = "e_pool" => pc[t] \in {"a_load", "a_read", "a_cas", "a_new"}
    /\ fpc[t] \in {"d_pool", "r_pool"} => pc[t] \in {"d_load", "d_set", "d_cas"}
    /\ fpc[t] \notin {"e_pool", "d_pool", "r_pool"} => pc[t] = "idle"

\* The life of the fifo: threads are inside operations only while it is open,
\* enqueue_unsafe runs alone, and the pool dies only after the last node is
\* back in it.
FifoLife ==
    /\ \A t \in Threads :
        /\ fpc[t] # "idle" => phase = "open"
        /\ fpc[t] = "u_link" => \A u \in Threads \ {t} : fpc[u] = "idle"
    /\ phase # "close" => Alive
    /\ phase = "raw" => que = <<>>
    /\ phase = "close" => Len(que) <= 1

\* The pointers that an operation follows are not null: next_ptr->data is
\* only reached after head == head2 (fifo.hpp:222-236).
FollowsNodes(t) ==
    /\ fpc[t] \in {"d_tail", "d_next", "d_check", "d_data", "d_cas"} => fhead[t].ptr \in Nodes
    /\ fpc[t] \in {"e_next", "e_check", "e_link", "e_help", "e_done"} => ftail[t].ptr \in Nodes
    /\ fpc[t] \in {"d_data", "d_cas"} => fnext[t].ptr \in Nodes
    /\ fpc[t] = "e_done" => fnode[t] \in Nodes

\* What enqueue, and the step of dequeue that helps it, know if tail_ has not
\* moved since they loaded it, or if the tag of the link that they read is
\* still there (fifo.hpp:159-184, 227-231).
TailSnapshot(t) ==
    /\ fpc[t] = "e_check" /\ tail = ftail[t]
            /\ (fnext[t].ptr # NULL \/ ntag[tail.ptr] = fnext[t].tag)
            => next[tail.ptr] = fnext[t].ptr
    /\ fpc[t] = "e_link" =>
        /\ fnext[t].ptr = NULL
        /\ ntag[ftail[t].ptr] = fnext[t].tag => tail = ftail[t] /\ next[tail.ptr] = NULL
    /\ fpc[t] \in {"e_help", "d_help"} /\ tail = ftail[t]
            => next[tail.ptr] = fnext[t].ptr /\ fnext[t].ptr # NULL
    /\ fpc[t] = "e_done" /\ tail = ftail[t] => next[tail.ptr] = fnode[t]

\* What dequeue knows if head_ has not moved since it loaded it
\* (fifo.hpp:217-241).
HeadSnapshot(t) ==
    /\ fpc[t] \in {"d_next", "d_check"} /\ head = fhead[t] /\ fhead[t].ptr # ftail[t].ptr
            => tail.ptr # head.ptr
    /\ fpc[t] = "d_check" /\ head = fhead[t] =>
        /\ fnext[t].ptr # NULL => fnext[t].ptr = next[head.ptr]
        /\ fnext[t].ptr = NULL => seen[t] /\ fhead[t].ptr = ftail[t].ptr
    /\ fpc[t] \in {"d_data", "d_cas"} /\ head = fhead[t]
            => fnext[t].ptr = next[head.ptr] /\ tail.ptr # head.ptr
    /\ fpc[t] = "d_cas" /\ head = fhead[t] => fval[t] = data[fnext[t].ptr]
    /\ Dequeueing(t) /\ Len(que) = 1 => seen[t]

\* Where the value of an operation is.
ValuePlace(t) ==
    /\ fpc[t] \in {"e_tail", "e_next", "e_check", "e_link", "e_help"}
            => data[fnode[t]] = fval[t]
    /\ fpc[t] = "u_link" => data[fnode[t]] \in Values
    /\ fpc[t] \in {"idle", "r_pool", "u_link"} => fval[t] = NoVal

\* The inductive invariant: the pool's own one, and these.
FifoInv ==
    /\ IInv
    /\ FifoTypeOK
    /\ QueueLinked
    /\ TailPlaced
    /\ NodesPlaced
    /\ FifoLife
    /\ \A t \in Threads :
        /\ PoolPhase(t)
        /\ FollowsNodes(t) /\ TailSnapshot(t) /\ HeadSnapshot(t) /\ ValuePlace(t)

\* The queue that the users see.
FifoStatus(l) ==
    CASE l \in {"idle", "r_pool", "u_link"} -> "none"
      [] l \in {"e_pool", "e_tail", "e_next", "e_check", "e_link", "e_help"} -> "enqueue"
      [] l = "e_done" -> "enqueued"
      [] l = "d_pool" -> "dequeued"
      [] OTHER -> "dequeue"

\* The dummy node holds no value of the queue.
AbsQueue == [i \in 1 .. Len(que) - 1 |-> data[que[i + 1]]]

AbsCall == [t \in Threads |-> FifoStatus(fpc[t])]

\* ret is only a result once the compare_exchange has succeeded.
AbsArg == [t \in Threads |-> IF Dequeueing(t) THEN NoVal ELSE fval[t]]

Abs == INSTANCE AtomicQueue WITH queue <- AbsQueue, call <- AbsCall, arg <- AbsArg

\* The fifo is linearisable: it implements AtomicQueue (fifo.hpp:149-282).
FifoLinearisable == Abs!Spec

\* Lock-freedom: if operations are pending forever then operations complete
\* infinitely often.
FifoLockFree ==
    \/ <>[]FIdle
    \/ []<><<\E t \in Threads : fpc[t] # "idle" /\ fpc'[t] = "idle">>_allVars
=============================================================================
