----------------------------- MODULE FifoProofs -----------------------------
(***************************************************************************)
(* The fifo keeps its list of nodes intact, never lets tail_ fall behind   *)
(* head_, gives every node one place and is linearisable, for any number   *)
(* of threads, nodes and values and any width of the tag.                  *)
(***************************************************************************)
EXTENDS Fifo, FreelistProofs

-----------------------------------------------------------------------------
(* The fifo and its pool *)

\* The fifo starts in the inductive invariant.
LEMMA InitFifoInv == FifoInit => FifoInv
  <1> SUFFICES ASSUME FifoInit PROVE FifoInv
    OBVIOUS
  <1> USE DEF FifoInit
  <1>1. IInv
    BY InitIInv
  <1>2. que \in Seq(Nodes) /\ Len(que) = 0 /\ Range(que) = {}
    BY RangeEmpty
  <1>3. FifoTypeOK
    BY <1>2, NilType DEF FifoTypeOK, FifoLabels, Ptr, TPtr
  <1>4. QueueLinked
    BY <1>2 DEF QueueLinked, IsChain
  <1>5. TailPlaced
    BY DEF TailPlaced
  <1>6. NodesPlaced
    BY <1>2 DEF Init, NodesPlaced, Linking
  <1>7. \A t \in Threads : PoolPhase(t)
    BY DEF Init, PoolPhase
  <1>8. FifoLife
    BY DEF Init, FifoLife, Alive
  <1>9. \A t \in Threads :
            FollowsNodes(t) /\ TailSnapshot(t) /\ HeadSnapshot(t) /\ ValuePlace(t)
    BY DEF FollowsNodes, TailSnapshot, HeadSnapshot, ValuePlace, Dequeueing
  <1> QED
    BY <1>1, <1>3, <1>4, <1>5, <1>6, <1>7, <1>8, <1>9 DEF FifoInv

\* While the fifo is open, or its destructor takes values out, the queue has a
\* dummy node, where head_ is, and the links lead from it to the last node.
LEMMA QueueFacts ==
    ASSUME FifoInv, que # <<>>
    PROVE  /\ head.ptr = que[1] /\ head.ptr \in Range(que) /\ head.ptr \in Nodes
           /\ Len(que) \in Nat \ {0}
           /\ que[Len(que)] \in Range(que)
           /\ next[que[Len(que)]] = NULL
           /\ \A n \in Range(que) : n \in Nodes /\ n \in used /\ next[n] \in Ptr
           /\ \A n \in Range(que) : next[n] = NULL => n = que[Len(que)]
           /\ \A n \in Range(que) : next[n] # NULL =>
                next[n] \in Range(que) /\ next[n] # head.ptr /\ next[n] # n
           /\ next[head.ptr] = NULL <=> Len(que) = 1
           /\ next[head.ptr] # NULL => Len(que) > 1 /\ next[head.ptr] = que[2]
           /\ Tail(que) \in Seq(Nodes)
           /\ Range(Tail(que)) = Range(que) \ {head.ptr}
           /\ IsChain(next[head.ptr], next, Tail(que))
           /\ Alive
  <1> USE DEF FifoInv
  <1>1. /\ que \in Seq(Nodes)
        /\ IsChain(head.ptr, next, que)
    BY DEF FifoTypeOK, QueueLinked, IsChain, First
  <1>2. head.ptr \in Nodes
    BY <1>1, ChainLinks
  <1>3. head.ptr # NULL
    BY <1>2, NullAssumption
  <1>4. Alive
    BY <1>1, ChainLinks DEF NodesPlaced, IInv, LocalsValid
  <1> QED
    BY <1>1, <1>3, <1>4, ChainLinks, ChainPop DEF NodesPlaced

-----------------------------------------------------------------------------
(* What the other threads see of a step *)

\* A step leaves the locals of thread u alone.
Aside(u) ==
    /\ fpc'[u] = fpc[u] /\ fhead'[u] = fhead[u] /\ ftail'[u] = ftail[u]
    /\ fnext'[u] = fnext[u] /\ fnode'[u] = fnode[u] /\ fval'[u] = fval[u]

\* What every step of an operation does to the nodes, head_ and tail_ at most:
\* tail_ moves only from a node that has a successor and not to the dummy
\* node, a link is written only if it is null, and every such change shows in
\* a tag.
Monotone ==
    /\ tail' # tail =>
        tail'.tag # tail.tag /\ next[tail.ptr] # NULL /\ tail'.ptr # head.ptr
    /\ head' # head => head'.tag # head.tag
    /\ \A n \in used : next'[n] # next[n] => next[n] = NULL /\ ntag'[n] # ntag[n]
    /\ \A n \in used : data'[n] # data[n] => n = head.ptr /\ head' # head

\* The record that a thread has of an empty queue is kept, and made when the
\* queue becomes empty.
SeenKept(u) ==
    Dequeueing(u) =>
        /\ seen[u] => seen'[u]
        /\ Len(que') = 1 => Len(que) = 1 \/ seen'[u]

\* tail_ is at a node of the queue.
LEMMA TailFacts ==
    ASSUME FifoInv, phase \in {"open", "drain"}
    PROVE  /\ que # <<>>
           /\ tail.ptr \in Range(que) /\ tail.ptr \in Nodes /\ tail.ptr \in used
           /\ next[tail.ptr] \in Ptr
  <1>1. que # <<>> /\ tail.ptr \in Range(que)
    BY DEF FifoInv, TailPlaced
  <1> QED
    BY <1>1, QueueFacts

\* What a thread knows survives such a step of another one: this is where the
\* tags are needed.
LEMMA OthersKeep ==
    ASSUME FifoInv, phase = "open", FifoFresh, Monotone,
           NEW u \in Threads, Aside(u), SeenKept(u)
    PROVE  (FollowsNodes(u) /\ TailSnapshot(u) /\ HeadSnapshot(u) /\ ValuePlace(u))'
  <1> USE DEF FifoInv, Aside
  <1>1. /\ que # <<>>
        /\ tail.ptr \in Range(que) /\ tail.ptr \in used
    BY TailFacts
  <1>2. /\ head.ptr \in Range(que)
        /\ \A n \in Range(que) : n \in Nodes /\ n \in used
        /\ \A n \in Range(que) : next[n] # NULL =>
                next[n] \in Range(que) /\ next[n] # head.ptr /\ next[n] # n
    BY <1>1, QueueFacts
  <1>3. FollowsNodes(u)'
    BY DEF FollowsNodes
  <1>4. ASSUME fpc[u] \in {"e_next", "e_check", "e_link", "e_help", "e_done",
                           "d_next", "d_check", "d_help"},
               tail' = ftail[u]
        PROVE  tail' = tail
    <2>1. tail'.tag # tail.tag => tail'.tag # ftail[u].tag
      BY <1>4 DEF FifoFresh
    <2> QED
      BY <1>4, <2>1 DEF Monotone
  <1>5. ASSUME fpc[u] \in {"d_tail", "d_next", "d_check", "d_data", "d_cas"},
               head' = fhead[u]
        PROVE  head' = head
    <2>1. head'.tag # head.tag => head'.tag # fhead[u].tag
      BY <1>5 DEF FifoFresh
    <2> QED
      BY <1>5, <2>1 DEF Monotone
  <1>6. ASSUME fpc[u] \in {"e_check", "e_link"}, ntag'[ftail[u].ptr] = fnext[u].tag
        PROVE  ntag'[ftail[u].ptr] = ntag[ftail[u].ptr]
    BY <1>6 DEF FifoFresh
  <1>7. TailSnapshot(u)'
    <2>1. ASSUME fpc[u] = "e_check", tail' = ftail[u],
                 fnext[u].ptr # NULL \/ ntag'[tail'.ptr] = fnext[u].tag
          PROVE  next'[tail'.ptr] = fnext[u].ptr
      <3>1. tail' = tail
        BY <1>4, <2>1
      <3>2. CASE fnext[u].ptr # NULL
        BY <1>1, <2>1, <3>1, <3>2 DEF TailSnapshot, Monotone
      <3>3. CASE ntag'[tail'.ptr] = fnext[u].tag
        <4>1. ntag'[tail.ptr] = ntag[tail.ptr]
          BY <1>6, <2>1, <3>1, <3>3
        <4>2. next[tail.ptr] = fnext[u].ptr
          BY <2>1, <3>1, <3>3, <4>1 DEF TailSnapshot
        <4> QED
          BY <1>1, <3>1, <4>1, <4>2 DEF Monotone
      <3> QED
        BY <2>1, <3>2, <3>3
    <2>2. ASSUME fpc[u] = "e_link", ntag'[ftail[u].ptr] = fnext[u].tag
          PROVE  tail' = ftail[u] /\ next'[tail'.ptr] = NULL
      <3>1. ntag'[ftail[u].ptr] = ntag[ftail[u].ptr]
        BY <1>6, <2>2
      <3>2. tail = ftail[u] /\ next[tail.ptr] = NULL
        BY <2>2, <3>1 DEF TailSnapshot
      <3> QED
        BY <1>1, <3>1, <3>2 DEF Monotone
    <2>3. ASSUME fpc[u] \in {"e_help", "d_help"}, tail' = ftail[u]
          PROVE  next'[tail'.ptr] = fnext[u].ptr /\ fnext[u].ptr # NULL
      <3>1. tail' = tail
        BY <1>4, <2>3
      <3> QED
        BY <1>1, <2>3, <3>1 DEF TailSnapshot, Monotone
    <2>4. ASSUME fpc[u] = "e_done", tail' = ftail[u] PROVE next'[tail'.ptr] = fnode[u]
      <3>1. tail' = tail
        BY <1>4, <2>4
      <3>2. next[tail.ptr] = fnode[u] /\ fnode[u] # NULL
        BY <2>4, <3>1, NullAssumption DEF TailSnapshot, FollowsNodes
      <3> QED
        BY <1>1, <3>1, <3>2 DEF Monotone
    <2>5. fpc[u] = "e_link" => fnext[u].ptr = NULL
      BY DEF TailSnapshot
    <2> QED
      BY <2>1, <2>2, <2>3, <2>4, <2>5 DEF TailSnapshot
  <1>8. HeadSnapshot(u)'
    <2>1. ASSUME head' = head, tail.ptr # head.ptr PROVE tail'.ptr # head'.ptr
      BY <2>1 DEF Monotone
    <2>2. ASSUME head' = head, NEW p, p # NULL, p = next[head.ptr]
          PROVE  p = next'[head'.ptr] /\ data'[p] = data[p]
      <3>1. p \in Range(que)
        BY <1>2, <2>2
      <3> QED
        BY <1>2, <2>2, <3>1 DEF Monotone
    <2>3. ASSUME fpc[u] \in {"d_next", "d_check"}, head' = fhead[u],
                 fhead[u].ptr # ftail[u].ptr
          PROVE  tail'.ptr # head'.ptr
      BY <1>5, <2>1, <2>3 DEF HeadSnapshot
    <2>4. ASSUME fpc[u] = "d_check", head' = fhead[u]
          PROVE  /\ fnext[u].ptr # NULL => fnext[u].ptr = next'[head'.ptr]
                 /\ fnext[u].ptr = NULL => seen'[u] /\ fhead[u].ptr = ftail[u].ptr
      <3>1. head' = head
        BY <1>5, <2>4
      <3> QED
        BY <2>2, <2>4, <3>1 DEF HeadSnapshot, SeenKept, Dequeueing
    <2>5. ASSUME fpc[u] \in {"d_data", "d_cas"}, head' = fhead[u]
          PROVE  fnext[u].ptr = next'[head'.ptr] /\ tail'.ptr # head'.ptr
      <3>1. head' = head /\ fnext[u].ptr # NULL
        BY <1>5, <2>5, NullAssumption DEF FollowsNodes
      <3> QED
        BY <2>1, <2>2, <2>5, <3>1 DEF HeadSnapshot
    <2>6. ASSUME fpc[u] = "d_cas", head' = fhead[u] PROVE fval[u] = data'[fnext[u].ptr]
      <3>1. head' = head /\ fnext[u].ptr # NULL
        BY <1>5, <2>6, NullAssumption DEF FollowsNodes
      <3> QED
        BY <2>2, <2>6, <3>1 DEF HeadSnapshot
    <2>7. Dequeueing(u)' = Dequeueing(u)
      BY DEF Dequeueing
    <2>8. ASSUME Dequeueing(u), Len(que') = 1 PROVE seen'[u]
      BY <2>8 DEF HeadSnapshot, SeenKept
    <2> QED
      BY <2>3, <2>4, <2>5, <2>6, <2>7, <2>8 DEF HeadSnapshot
  <1>9. ValuePlace(u)'
    <2>1. Linking(u) => data'[fnode[u]] = data[fnode[u]]
      BY <1>2 DEF NodesPlaced, Monotone
    <2> QED
      BY <2>1 DEF ValuePlace, Linking
  <1> QED
    BY <1>3, <1>7, <1>8, <1>9

\* A step of thread t that adds no node to the queue and takes none from it,
\* and leaves the links of the nodes in use alone, keeps the invariant if it
\* keeps what t itself knows and where tail_ is.
LEMMA ThreadKeeps ==
    ASSUME FifoInv, IInv', FifoFresh, NEW t \in Threads, phase = "open",
           \A u \in Threads : fpc[u] # "u_link",
           UNCHANGED <<used, walk, head, ntag, data, que, phase>>,
           \A n \in used : next'[n] = next[n],
           \A u \in Threads \ {t} : Aside(u) /\ pc'[u] = pc[u] /\ seen'[u] = seen[u],
           tail' # tail =>
                tail'.tag # tail.tag /\ next[tail.ptr] # NULL /\ tail'.ptr # head.ptr,
           FifoTypeOK', TailPlaced',
           fpc'[t] # "u_link",
           Linking(t)' = Linking(t), Linking(t) => fnode'[t] = fnode[t],
           PoolPhase(t)',
           (FollowsNodes(t) /\ TailSnapshot(t) /\ HeadSnapshot(t) /\ ValuePlace(t))'
    PROVE  FifoInv'
  <1> USE DEF FifoInv
  <1>1. Monotone
    BY DEF Monotone
  <1>2. \A u \in Threads \ {t} :
            (FollowsNodes(u) /\ TailSnapshot(u) /\ HeadSnapshot(u) /\ ValuePlace(u))'
    BY <1>1, OthersKeep DEF SeenKept
  <1>3. \A u \in Threads \ {t} : PoolPhase(u)'
    BY DEF PoolPhase, Aside
  <1>4. QueueLinked'
    <2>1. \A n \in Range(que) : next'[n] = next[n]
      BY DEF NodesPlaced
    <2>2. IsChain(First(que), next', que)
      BY <2>1, ChainFrame DEF QueueLinked, FifoTypeOK
    <2> QED
      BY <2>2 DEF QueueLinked
  <1>5. NodesPlaced'
    <2>1. \A u \in Threads : Linking(u)' = Linking(u) /\ (Linking(u) => fnode'[u] = fnode[u])
      BY DEF Linking, Aside
    <2> QED
      BY <2>1 DEF NodesPlaced
  <1>6. FifoLife'
    BY DEF FifoLife, Aside, Alive
  <1> QED
    BY <1>2, <1>3, <1>4, <1>5, <1>6

\* A thread that is inside an operation knows that the fifo is open, and that
\* no enqueue_unsafe runs beside it.
LEMMA Inside ==
    ASSUME FifoInv, NEW t \in Threads, fpc[t] \notin {"idle", "u_link"}
    PROVE  /\ phase = "open" /\ Alive
           /\ \A u \in Threads : fpc[u] # "u_link"
           /\ que # <<>>
           /\ tail.ptr \in Range(que) /\ tail.ptr \in Nodes /\ tail.ptr \in used
           /\ next[tail.ptr] \in Ptr
  <1>1. /\ phase = "open" /\ Alive
        /\ \A u \in Threads : fpc[u] # "u_link"
    BY DEF FifoInv, FifoLife
  <1> QED
    BY <1>1, TailFacts

\* As long as tail_ and the links stay, the thread that can still move tail_
\* is the only one that matters for its place.
LEMMA TailStays ==
    ASSUME FifoInv, NEW t \in Threads,
           UNCHANGED <<tail, que, phase>>,
           \A n \in used : next'[n] = next[n],
           \A u \in Threads \ {t} : Aside(u),
           fpc[t] = "e_done" => tail # ftail[t]
    PROVE  TailPlaced'
  <1> SUFFICES ASSUME phase \in {"open", "drain"} PROVE TailPlaced'
    BY DEF TailPlaced
  <1>1. /\ que # <<>>
        /\ tail.ptr \in Range(que) /\ tail.ptr \in used
    BY TailFacts
  <1>2. ASSUME next[tail.ptr] # NULL
        PROVE  /\ next[next[tail.ptr]] = NULL
               /\ next[tail.ptr] \in used
               /\ \E u \in Threads : fpc'[u] = "e_done" /\ ftail'[u] = tail
    <2>1. PICK u \in Threads : fpc[u] = "e_done" /\ ftail[u] = tail
      BY <1>1, <1>2 DEF FifoInv, TailPlaced
    <2>2. next[tail.ptr] \in used
      BY <1>1, <1>2, QueueFacts
    <2> QED
      BY <1>1, <1>2, <2>1, <2>2 DEF FifoInv, TailPlaced, Aside
  <1> QED
    BY <1>1, <1>2 DEF TailPlaced

-----------------------------------------------------------------------------
(* The steps that leave the queue as it is *)

\* The steps inside the pool keep the invariant, and so do the ends of a call
\* that finds no node and of one whose node is back in the pool.
LEMMA PoolKeeps ==
    ASSUME FifoInv, IInv', FifoFresh, NEW t \in Threads,
           InPool(t) \/ EnqFail(t) \/ PoolReturn(t)
    PROVE  FifoInv'
  <1> USE DEF FifoInv
  <1>1. /\ used' = used
        /\ walk' = walk
        /\ \A n \in used : next'[n] = next[n]
        /\ \A u \in Threads \ {t} : pc'[u] = pc[u]
    BY PoolKeepsUsed DEF InPool, EnqFail, PoolReturn
  <1>2. fpc[t] \in {"e_pool", "d_pool", "r_pool"}
    <2>1. CASE InPool(t)
      <3>1. pc[t] # "idle"
        BY <2>1 DEF InPool, AllocLoad, AllocGrow, AllocRead, AllocCAS, AllocRetry, DeallocLoad,
                    DeallocSet, DeallocRetry
      <3> QED
        BY <3>1 DEF PoolPhase
    <2> QED
      BY <2>1 DEF EnqFail, PoolReturn
  <1>3. phase = "open" /\ \A u \in Threads : fpc[u] # "u_link"
    BY <1>2, Inside
  <1>4. UNCHANGED <<head, tail, ntag, data, que, seen, phase>>
    BY DEF InPool, EnqFail, PoolReturn, fifoVars
  <1>5. CASE InPool(t)
    <2>1. UNCHANGED <<fpc, fhead, ftail, fnext, fnode, fval>>
      BY <1>5 DEF InPool, fifoVars
    <2>2. \A u \in Threads : Aside(u)
      BY <2>1 DEF Aside
    <2>3. FifoTypeOK'
      BY <1>4, <2>1 DEF FifoTypeOK
    <2>4. TailPlaced'
      BY <1>1, <1>2, <1>4, <2>2, TailStays
    <2>5. PoolPhase(t)'
      BY <1>2, <1>5, <2>1 DEF PoolPhase, InPool, AllocLoad, AllocGrow, AllocRead, AllocCAS,
            AllocRetry, DeallocLoad, DeallocSet, DeallocRetry, Goto, IInv, TypeOK
    <2>6. (FollowsNodes(t) /\ TailSnapshot(t) /\ HeadSnapshot(t) /\ ValuePlace(t))'
      BY <1>2, <2>1 DEF FollowsNodes, TailSnapshot, HeadSnapshot, ValuePlace, Dequeueing
    <2>7. Linking(t)' = Linking(t)
      BY <2>1 DEF Linking
    <2> QED
      BY <1>1, <1>2, <1>3, <1>4, <2>1, <2>2, <2>3, <2>4, <2>5, <2>6, <2>7, ThreadKeeps
  <1>6. CASE EnqFail(t) \/ PoolReturn(t)
    <2>1. FReturn(t) /\ pc'[t] = "idle"
      BY <1>6 DEF EnqFail, PoolReturn, AllocFail, DeallocCAS, Return, Goto, IInv, TypeOK
    <2>2. /\ fpc'[t] = "idle" /\ fval'[t] = NoVal
          /\ \A u \in Threads \ {t} : Aside(u)
      BY <2>1 DEF FReturn, FGoto, Aside, FifoTypeOK
    <2>3. FifoTypeOK'
      BY <1>4, <2>1, NilType DEF FReturn, FGoto, FifoTypeOK, FifoLabels, TPtr
    <2>4. TailPlaced'
      BY <1>1, <1>2, <1>4, <2>2, TailStays
    <2>5. PoolPhase(t)'
      BY <2>1, <2>2 DEF PoolPhase
    <2>6. (FollowsNodes(t) /\ TailSnapshot(t) /\ HeadSnapshot(t) /\ ValuePlace(t))'
      BY <2>2 DEF FollowsNodes, TailSnapshot, HeadSnapshot, ValuePlace, Dequeueing
    <2>7. Linking(t)' = Linking(t) /\ ~Linking(t)
      BY <1>2, <2>2 DEF Linking
    <2> QED
      BY <1>1, <1>2, <1>3, <1>4, <2>2, <2>3, <2>4, <2>5, <2>6, <2>7, ThreadKeeps
  <1> QED
    BY <1>5, <1>6

\* The beginning of a call of enqueue, dequeue or reserve keeps it.
LEMMA CallKeeps ==
    ASSUME FifoInv, IInv', FifoFresh, NEW t \in Threads,
           Enqueue(t) \/ Dequeue(t) \/ FifoReserve(t)
    PROVE  FifoInv'
  <1> USE DEF FifoInv
  <1>1. /\ phase = "open" /\ fpc[t] = "idle" /\ \A u \in Threads : fpc[u] # "u_link"
        /\ pc[t] = "idle" /\ fval[t] = NoVal
    BY DEF Enqueue, Dequeue, FifoReserve, Ready, PoolPhase, ValuePlace
  <1>2. /\ UNCHANGED <<used, walk, next, head, tail, ntag, data, que, phase>>
        /\ UNCHANGED <<fhead, ftail, fnext, fnode>>
        /\ \A u \in Threads \ {t} : /\ pc'[u] = pc[u] /\ fpc'[u] = fpc[u]
                                    /\ seen'[u] = seen[u] /\ fval'[u] = fval[u]
    BY DEF Enqueue, Dequeue, FifoReserve, Construct, Reserve, Goto, FGoto, vars,
           FifoTypeOK, IInv, TypeOK
  <1>3. \/ fpc'[t] = "e_pool" /\ pc'[t] = "a_load"
        \/ fpc'[t] = "d_head" /\ pc'[t] = "idle" /\ seen'[t] = (Len(que) = 1)
        \/ fpc'[t] = "r_pool" /\ pc'[t] = "d_load" /\ fval'[t] = NoVal
    BY <1>1 DEF Enqueue, Dequeue, FifoReserve, Construct, Reserve, Goto, FGoto, vars,
           FifoTypeOK, IInv, TypeOK
  <1>4. \A u \in Threads \ {t} : Aside(u)
    BY <1>2 DEF Aside
  <1>5. FifoTypeOK'
    <2>1. fval' \in [Threads -> Values \cup {NoVal}] /\ seen' \in [Threads -> BOOLEAN]
      BY DEF Enqueue, Dequeue, FifoReserve, FifoTypeOK
    <2>2. fpc' \in [Threads -> FifoLabels]
      BY DEF Enqueue, Dequeue, FifoReserve, FGoto, FifoTypeOK, FifoLabels
    <2> QED
      BY <1>2, <2>1, <2>2 DEF FifoTypeOK
  <1>6. TailPlaced'
    BY <1>1, <1>2, <1>4, TailStays
  <1>7. PoolPhase(t)'
    BY <1>3 DEF PoolPhase
  <1>8. (FollowsNodes(t) /\ TailSnapshot(t) /\ HeadSnapshot(t) /\ ValuePlace(t))'
    BY <1>2, <1>3 DEF FollowsNodes, TailSnapshot, HeadSnapshot, ValuePlace, Dequeueing
  <1>9. Linking(t)' = Linking(t) /\ ~Linking(t) /\ fpc'[t] # "u_link"
    BY <1>1, <1>3 DEF Linking
  <1> QED
    BY <1>1, <1>2, <1>4, <1>5, <1>6, <1>7, <1>8, <1>9, ThreadKeeps

\* A step that only changes the locals of t keeps the invariant if it keeps
\* what t itself knows.
LEMMA LocalKeeps ==
    ASSUME FifoInv, IInv', FifoFresh, NEW t \in Threads,
           UNCHANGED <<vars, head, tail, ntag, data, que, phase>>,
           \A u \in Threads \ {t} : Aside(u) /\ seen'[u] = seen[u],
           fpc[t] \notin {"idle", "u_link", "e_pool", "d_pool", "r_pool", "e_done"},
           fpc'[t] \notin {"u_link", "e_pool", "d_pool", "r_pool", "e_done"},
           FifoTypeOK',
           Linking(t)' = Linking(t), Linking(t) => fnode'[t] = fnode[t],
           (FollowsNodes(t) /\ TailSnapshot(t) /\ HeadSnapshot(t) /\ ValuePlace(t))'
    PROVE  FifoInv'
  <1>1. UNCHANGED <<used, walk, next, pc>>
    BY DEF vars
  <1>2. phase = "open" /\ \A u \in Threads : fpc[u] # "u_link"
    BY Inside
  <1>3. TailPlaced'
    BY <1>1, TailStays
  <1>4. PoolPhase(t)'
    BY <1>1 DEF FifoInv, PoolPhase
  <1> QED
    BY <1>1, <1>2, <1>3, <1>4, ThreadKeeps

\* The loads and tests of enqueue keep it (fifo.hpp:159-176).
LEMMA EnqueueLocal ==
    ASSUME FifoInv, IInv', FifoFresh, NEW t \in Threads,
           EnqTail(t) \/ EnqNext(t) \/ EnqCheck(t) \/ EnqRetry(t)
    PROVE  FifoInv'
  <1> USE DEF FifoInv
  <1>1. fpc[t] \in {"e_tail", "e_next", "e_check", "e_link"}
    BY DEF EnqTail, EnqNext, EnqCheck, EnqRetry
  <1>2. /\ tail.ptr \in Nodes /\ next[tail.ptr] \in Ptr
        /\ tail \in TPtr /\ data[fnode[t]] = fval[t]
    BY <1>1, Inside DEF FifoTypeOK, ValuePlace
  <1>3. /\ UNCHANGED <<vars, head, tail, ntag, data, que, seen, phase, fnode, fval>>
        /\ UNCHANGED <<next, ntag>>
    BY DEF EnqTail, EnqNext, EnqCheck, EnqRetry, Again, vars
  <1>4. \A u \in Threads \ {t} : Aside(u) /\ seen'[u] = seen[u]
    BY <1>3 DEF EnqTail, EnqNext, EnqCheck, EnqRetry, Again, FGoto, Aside, FifoTypeOK
  <1>5. ASSUME fpc'[t] \in {"e_tail", "e_next", "e_check", "e_link", "e_help"}
        PROVE  /\ fpc'[t] \notin {"u_link", "e_pool", "d_pool", "r_pool", "e_done"}
               /\ Linking(t)' = Linking(t) /\ (Linking(t) => fnode'[t] = fnode[t])
               /\ ValuePlace(t)' /\ HeadSnapshot(t)'
    BY <1>1, <1>2, <1>3, <1>5 DEF Linking, ValuePlace, HeadSnapshot, Dequeueing
  <1>6. fnext[t].ptr \in Ptr \cup Garbage
    BY DEF FifoTypeOK
  <1>7. CASE EnqTail(t)
    <2>1. fpc'[t] = "e_next" /\ ftail'[t] = tail
      BY <1>7 DEF EnqTail, FGoto, FifoTypeOK
    <2>2. FifoTypeOK'
      BY <1>2, <1>3, <1>7 DEF EnqTail, FGoto, FifoTypeOK, FifoLabels
    <2>3. (FollowsNodes(t) /\ TailSnapshot(t))'
      BY <1>2, <2>1 DEF FollowsNodes, TailSnapshot
    <2> QED
      BY <1>1, <1>3, <1>4, <1>5, <2>1, <2>2, <2>3, LocalKeeps
  <1>8. CASE EnqNext(t)
    <2>1. ftail[t].ptr \in Nodes
      BY <1>8 DEF EnqNext, FollowsNodes
    <2>2. /\ fpc'[t] = "e_check" /\ ftail' = ftail
          /\ fnext'[t] = MkPtr(next[ftail[t].ptr], ntag[ftail[t].ptr])
      BY <1>8 DEF EnqNext, FGoto, NextOf, FifoTypeOK
    <2>3. FifoTypeOK'
      <3>1. next[ftail[t].ptr] \in Ptr \cup Garbage /\ ntag[ftail[t].ptr] \in Tag
        BY <2>1 DEF IInv, TypeOK, FifoTypeOK
      <3>2. fnext' \in [Threads -> [ptr : Ptr \cup Garbage, tag : Tag]]
        BY <1>8, <3>1 DEF EnqNext, NextOf, MkPtr, FifoTypeOK
      <3> QED
        BY <1>3, <1>8, <3>2 DEF EnqNext, FGoto, FifoTypeOK, FifoLabels
    <2>4. (FollowsNodes(t) /\ TailSnapshot(t))'
      BY <1>3, <2>1, <2>2 DEF FollowsNodes, TailSnapshot, MkPtr
    <2> QED
      BY <1>1, <1>3, <1>4, <1>5, <2>2, <2>3, <2>4, LocalKeeps
  <1>9. CASE EnqCheck(t) /\ tail = ftail[t]
    <2>1. /\ fpc'[t] = IF fnext[t].ptr = NULL THEN "e_link" ELSE "e_help"
          /\ UNCHANGED <<fhead, ftail, fnext, fnode>>
      BY <1>9 DEF EnqCheck, FGoto, FifoTypeOK
    <2>2. FifoTypeOK'
      BY <1>3, <1>9, <2>1 DEF EnqCheck, FGoto, FifoTypeOK, FifoLabels
    <2>3. fpc[t] = "e_check" /\ ftail[t].ptr \in Nodes
      BY <1>9 DEF EnqCheck, FollowsNodes
    <2>4. FollowsNodes(t)'
      BY <2>1, <2>3 DEF FollowsNodes
    <2>5. TailSnapshot(t)'
      <3>1. CASE fnext[t].ptr = NULL
        BY <1>3, <1>9, <2>1, <2>3, <3>1 DEF TailSnapshot
      <3>2. CASE fnext[t].ptr # NULL
        BY <1>3, <1>9, <2>1, <2>3, <3>2 DEF TailSnapshot
      <3> QED
        BY <3>1, <3>2
    <2> QED
      BY <1>1, <1>3, <1>4, <1>5, <2>1, <2>2, <2>4, <2>5, LocalKeeps
  <1>10. CASE (EnqCheck(t) /\ tail # ftail[t]) \/ EnqRetry(t)
    <2>1. Again(t, "e_tail") /\ fpc'[t] = "e_tail"
      BY <1>10 DEF EnqCheck, EnqRetry, Again, FGoto, FifoTypeOK
    <2>2. FifoTypeOK'
      BY <1>3, <2>1, NilType DEF Again, FGoto, FifoTypeOK, FifoLabels, TPtr
    <2>3. (FollowsNodes(t) /\ TailSnapshot(t))'
      BY <2>1 DEF FollowsNodes, TailSnapshot
    <2> QED
      BY <1>1, <1>3, <1>4, <1>5, <2>1, <2>2, <2>3, LocalKeeps
  <1> QED
    BY <1>7, <1>8, <1>9, <1>10

\* The loads, tests and copies of dequeue keep it (fifo.hpp:215-241).
LEMMA DequeueLocal ==
    ASSUME FifoInv, IInv', FifoFresh, NEW t \in Threads,
           \/ DeqHead(t) \/ DeqTail(t) \/ DeqNext(t) \/ DeqFail(t) \/ DeqCheck(t)
           \/ DeqData(t) \/ DeqRetry(t)
    PROVE  FifoInv'
  <1> USE DEF FifoInv
  <1>1. Dequeueing(t) /\ fpc[t] # "d_help"
    BY DEF DeqHead, DeqTail, DeqNext, DeqFail, DeqCheck, DeqData, DeqRetry, Dequeueing
  <1>2. /\ tail.ptr \in Range(que) /\ que # <<>>
        /\ fpc[t] \notin {"idle", "u_link", "e_pool", "d_pool", "r_pool", "e_done"}
        /\ ~Linking(t)
    BY <1>1, Inside DEF Dequeueing, Linking
  <1>3. /\ head.ptr \in Nodes /\ head.ptr = que[1] /\ next[head.ptr] \in Ptr
        /\ next[head.ptr] = NULL <=> Len(que) = 1
        /\ \A n \in Range(que) : next[n] = NULL => n = que[Len(que)]
        /\ next[que[Len(que)]] = NULL
        /\ head \in TPtr /\ tail \in TPtr
    BY <1>2, QueueFacts DEF FifoTypeOK
  <1>4. UNCHANGED <<vars, next, head, tail, ntag, data, que, phase>>
    BY DEF DeqHead, DeqTail, DeqNext, DeqFail, DeqCheck, DeqData, DeqRetry, vars
  <1>5. \A u \in Threads \ {t} : Aside(u) /\ seen'[u] = seen[u]
    BY DEF DeqHead, DeqTail, DeqNext, DeqFail, DeqCheck, DeqData, DeqRetry, Again, FReturn,
           FGoto, Aside, FifoTypeOK
  <1>6. ASSUME fpc'[t] \in {"d_head", "d_tail", "d_next", "d_check", "d_help", "d_data", "d_cas"}
        PROVE  /\ fpc'[t] \notin {"u_link", "e_pool", "d_pool", "r_pool", "e_done"}
               /\ Linking(t)' = Linking(t)
               /\ ValuePlace(t)' /\ Dequeueing(t)'
    BY <1>2, <1>6 DEF Linking, ValuePlace, Dequeueing
  <1>7. Len(que) = 1 => seen[t]
    BY <1>1 DEF HeadSnapshot
  <1>8. CASE DeqHead(t)
    <2>1. fpc'[t] = "d_tail" /\ fhead'[t] = head /\ seen' = seen
      BY <1>8 DEF DeqHead, FGoto, FifoTypeOK
    <2>2. FifoTypeOK'
      BY <1>3, <1>8 DEF DeqHead, FGoto, FifoTypeOK, FifoLabels
    <2>3. (FollowsNodes(t) /\ TailSnapshot(t) /\ HeadSnapshot(t))'
      BY <1>3, <1>4, <1>7, <2>1 DEF FollowsNodes, TailSnapshot, HeadSnapshot
    <2> QED
      BY <1>2, <1>4, <1>5, <1>6, <2>1, <2>2, <2>3, LocalKeeps
  <1>9. CASE DeqTail(t)
    <2>1. fpc[t] = "d_tail" /\ fpc'[t] = "d_next" /\ ftail'[t] = tail
            /\ UNCHANGED <<fhead, seen>>
      BY <1>9 DEF DeqTail, FGoto, FifoTypeOK
    <2>2. FifoTypeOK'
      BY <1>3, <1>9 DEF DeqTail, FGoto, FifoTypeOK, FifoLabels
    <2>3. (FollowsNodes(t) /\ TailSnapshot(t) /\ HeadSnapshot(t))'
      BY <1>3, <1>4, <1>7, <2>1 DEF FollowsNodes, TailSnapshot, HeadSnapshot
    <2> QED
      BY <1>2, <1>4, <1>5, <1>6, <2>1, <2>2, <2>3, LocalKeeps
  <1>10. CASE DeqNext(t)
    <2>1. fpc[t] = "d_next" /\ fhead[t].ptr \in Nodes
      BY <1>10 DEF DeqNext, FollowsNodes
    <2>2. /\ fpc'[t] = "d_check" /\ UNCHANGED <<fhead, ftail, seen>>
          /\ fnext'[t] = MkPtr(next[fhead[t].ptr], ntag[fhead[t].ptr])
      BY <1>10 DEF DeqNext, FGoto, NextOf, FifoTypeOK
    <2>3. FifoTypeOK'
      <3>1. next[fhead[t].ptr] \in Ptr \cup Garbage /\ ntag[fhead[t].ptr] \in Tag
        BY <2>1 DEF IInv, TypeOK, FifoTypeOK
      <3>2. fnext' \in [Threads -> [ptr : Ptr \cup Garbage, tag : Tag]]
        BY <1>10, <3>1 DEF DeqNext, NextOf, MkPtr, FifoTypeOK
      <3> QED
        BY <1>10, <3>2 DEF DeqNext, FGoto, FifoTypeOK, FifoLabels
    <2>4. (FollowsNodes(t) /\ TailSnapshot(t))'
      BY <2>1, <2>2 DEF FollowsNodes, TailSnapshot
    <2>5. HeadSnapshot(t)'
      <3>1. ASSUME head = fhead[t]
            PROVE  /\ fhead[t].ptr # ftail[t].ptr => tail.ptr # head.ptr
                   /\ fnext'[t].ptr = next[head.ptr]
        BY <2>1, <2>2, <3>1 DEF HeadSnapshot, MkPtr
      <3>2. ASSUME head = fhead[t], fnext'[t].ptr = NULL
            PROVE  seen[t] /\ fhead[t].ptr = ftail[t].ptr
        <4>1. next[head.ptr] = NULL
          BY <3>1, <3>2
        <4>2. seen[t]
          BY <1>3, <1>7, <4>1
        <4>3. tail.ptr = head.ptr
          <5>1. Len(que) = 1
            BY <1>3, <4>1
          <5>2. Range(que) = {que[i] : i \in 1 .. Len(que)}
            BY RangeElements DEF FifoTypeOK
          <5> QED
            BY <1>2, <1>3, <5>1, <5>2
        <4> QED
          BY <3>1, <3>2, <4>2, <4>3
      <3> QED
        BY <1>4, <1>7, <2>2, <3>1, <3>2 DEF HeadSnapshot
    <2> QED
      BY <1>2, <1>4, <1>5, <1>6, <2>2, <2>3, <2>4, <2>5, LocalKeeps
  <1>11. CASE DeqFail(t)
    <2>1. fpc'[t] = "idle" /\ fval'[t] = NoVal
      BY <1>11 DEF DeqFail, FReturn, FGoto, FifoTypeOK
    <2>2. FifoTypeOK'
      BY <1>11, NilType DEF DeqFail, FReturn, FGoto, FifoTypeOK, FifoLabels, TPtr
    <2>3. (FollowsNodes(t) /\ TailSnapshot(t) /\ HeadSnapshot(t) /\ ValuePlace(t))'
      BY <2>1 DEF FollowsNodes, TailSnapshot, HeadSnapshot, ValuePlace, Dequeueing
    <2>4. Linking(t)' = Linking(t)
      BY <1>2, <2>1 DEF Linking
    <2> QED
      BY <1>2, <1>4, <1>5, <2>1, <2>2, <2>3, <2>4, LocalKeeps
  <1>12. ASSUME Again(t, "d_head"), UNCHANGED seen, fval' \in [Threads -> Values \cup {NoVal}]
         PROVE  FifoInv'
    <2>1. fpc'[t] = "d_head"
      BY <1>12 DEF Again, FGoto, FifoTypeOK
    <2>2. FifoTypeOK'
      BY <1>4, <1>12, NilType DEF Again, FGoto, FifoTypeOK, FifoLabels, TPtr
    <2>3. (FollowsNodes(t) /\ TailSnapshot(t) /\ HeadSnapshot(t))'
      BY <1>4, <1>7, <1>12, <2>1 DEF FollowsNodes, TailSnapshot, HeadSnapshot
    <2> QED
      BY <1>2, <1>4, <1>5, <1>6, <2>1, <2>2, <2>3, LocalKeeps
  <1>13. CASE DeqCheck(t)
    <2>1. CASE Again(t, "d_head")
      BY <1>12, <1>13, <2>1 DEF DeqCheck, FifoTypeOK
    <2>2. CASE ~Again(t, "d_head")
      <3>1. /\ fpc[t] = "d_check" /\ head = fhead[t] /\ fnext[t].ptr # NULL
            /\ fpc'[t] = IF fhead[t].ptr = ftail[t].ptr THEN "d_help" ELSE "d_data"
            /\ UNCHANGED <<fhead, ftail, fnext, fnode, fval, seen>>
        BY <1>13, <2>2 DEF DeqCheck, HeadSame, FGoto, FifoTypeOK
      <3>2. FifoTypeOK'
        <4>1. fpc' = [fpc EXCEPT ![t] = IF fhead[t].ptr = ftail[t].ptr
                                        THEN "d_help" ELSE "d_data"]
          BY <1>13, <2>2 DEF DeqCheck, FGoto
        <4>2. fpc' \in [Threads -> FifoLabels]
          BY <4>1 DEF FifoTypeOK, FifoLabels
        <4> QED
          BY <1>4, <3>1, <4>2 DEF FifoTypeOK
      <3>3. fnext[t].ptr = next[head.ptr]
        BY <3>1 DEF HeadSnapshot
      <3>4. FollowsNodes(t)'
        <4>1. fnext[t].ptr \in Nodes
          BY <1>3, <3>1, <3>3 DEF Ptr
        <4> QED
          BY <3>1, <4>1 DEF FollowsNodes
      <3>5. TailSnapshot(t)'
        BY <1>4, <3>1, <3>3 DEF TailSnapshot
      <3>6. HeadSnapshot(t)'
        BY <1>4, <1>7, <3>1, <3>3 DEF HeadSnapshot
      <3> QED
        BY <1>2, <1>4, <1>5, <1>6, <3>1, <3>2, <3>4, <3>5, <3>6, LocalKeeps
    <2> QED
      BY <2>1, <2>2
  <1>14. CASE DeqData(t)
    <2>1. /\ fpc[t] = "d_data" /\ fnext[t].ptr \in Nodes /\ fpc'[t] = "d_cas"
          /\ UNCHANGED <<fhead, ftail, fnext, fnode, seen>>
          /\ fval' = [fval EXCEPT ![t] = data[fnext[t].ptr]]
      BY <1>14 DEF DeqData, FGoto, FollowsNodes, FifoTypeOK
    <2>2. FifoTypeOK'
      BY <1>4, <1>14, <2>1 DEF DeqData, FGoto, FifoTypeOK, FifoLabels
    <2>3. fval'[t] = data[fnext[t].ptr]
      BY <2>1 DEF FifoTypeOK
    <2>4. (FollowsNodes(t) /\ TailSnapshot(t) /\ HeadSnapshot(t))'
      BY <1>4, <1>7, <2>1, <2>3 DEF FollowsNodes, TailSnapshot, HeadSnapshot
    <2> QED
      BY <1>2, <1>4, <1>5, <1>6, <2>1, <2>2, <2>4, LocalKeeps
  <1>15. CASE DeqRetry(t)
    BY <1>12, <1>15 DEF DeqRetry, FifoTypeOK
  <1> QED
    BY <1>8, <1>9, <1>10, <1>11, <1>13, <1>14, <1>15

\* What a compare_exchange on tail_ does: if it succeeds then tail_ was at the
\* last node but one and is at the last one.
LEMMA SwingPlaces ==
    ASSUME FifoInv, NEW t \in Threads, fpc[t] \in {"e_help", "d_help", "e_done"},
           NEW p, p = IF fpc[t] = "e_done" THEN fnode[t] ELSE fnext[t].ptr,
           SwingTail(t, p), UNCHANGED <<vars, que, phase>>,
           \A u \in Threads \ {t} : Aside(u)
    PROVE  /\ tail' \in TPtr
           /\ tail' # tail =>
                tail'.tag # tail.tag /\ next[tail.ptr] # NULL /\ tail'.ptr # head.ptr
           /\ TailPlaced'
  <1> USE DEF FifoInv
  <1>1. /\ phase = "open" /\ que # <<>>
        /\ tail.ptr \in Range(que) /\ tail \in TPtr /\ next' = next
    BY Inside DEF FifoTypeOK, vars
  <1>2. CASE tail = ftail[t]
    <2>1. next[tail.ptr] = p /\ p # NULL
      BY <1>2, NullAssumption DEF TailSnapshot, FollowsNodes
    <2>2. p \in Range(que) /\ p # head.ptr /\ p \in Nodes
      BY <1>1, <2>1, QueueFacts
    <2>3. next[p] = NULL
      BY <1>1, <2>1 DEF TailPlaced
    <2>4. tail' = MkPtr(p, IncTag(tail.tag)) /\ IncTag(tail.tag) \in Tag
            /\ IncTag(tail.tag) # tail.tag
      BY <1>1, <1>2, IncTagType DEF SwingTail, TPtr
    <2>5. tail' \in TPtr /\ tail'.ptr = p /\ tail'.tag # tail.tag
      BY <2>2, <2>4 DEF MkPtr, TPtr, Ptr
    <2>6. TailPlaced'
      BY <1>1, <2>2, <2>3, <2>5 DEF TailPlaced
    <2> QED
      BY <2>1, <2>2, <2>5, <2>6
  <1>3. CASE tail # ftail[t]
    <2>1. tail' = tail
      BY <1>3 DEF SwingTail
    <2>2. TailPlaced'
      BY <1>1, <1>3, <2>1, TailStays
    <2> QED
      BY <1>1, <2>1, <2>2
  <1> QED
    BY <1>2, <1>3

\* Moving tail_ forward, by the enqueue that linked the node or by a thread
\* that helps it, keeps the invariant (fifo.hpp:173-184, 227-231).
LEMMA SwingKeeps ==
    ASSUME FifoInv, IInv', FifoFresh, NEW t \in Threads,
           EnqHelp(t) \/ EnqDone(t) \/ DeqHelp(t)
    PROVE  FifoInv'
  <1> USE DEF FifoInv
  <1> DEFINE p == IF fpc[t] = "e_done" THEN fnode[t] ELSE fnext[t].ptr
  <1>1. fpc[t] \in {"e_help", "d_help", "e_done"} /\ SwingTail(t, p)
    BY DEF EnqHelp, EnqDone, DeqHelp
  <1>2. /\ UNCHANGED <<vars, head, ntag, data, que, seen, phase>>
        /\ UNCHANGED <<used, walk, next, pc>>
    BY DEF EnqHelp, EnqDone, DeqHelp, vars
  <1>3. \A u \in Threads \ {t} : Aside(u)
    BY DEF EnqHelp, EnqDone, DeqHelp, Again, FReturn, FGoto, Aside, FifoTypeOK
  <1> HIDE DEF p
  <1>4. /\ tail' \in TPtr
        /\ tail' # tail =>
             tail'.tag # tail.tag /\ next[tail.ptr] # NULL /\ tail'.ptr # head.ptr
        /\ TailPlaced'
    BY <1>1, <1>2, <1>3, SwingPlaces DEF p
  <1>5. phase = "open" /\ \A u \in Threads : fpc[u] # "u_link"
    BY <1>1, Inside
  <1>6. FifoTypeOK'
    <2>1. PICK l \in {"e_tail", "d_head", "idle"} :
            /\ fpc' = [fpc EXCEPT ![t] = l]
            /\ fhead' = [fhead EXCEPT ![t] = Nil]
            /\ ftail' = [ftail EXCEPT ![t] = Nil]
            /\ fnext' = [fnext EXCEPT ![t] = Nil]
      BY DEF EnqHelp, EnqDone, DeqHelp, Again, FReturn, FGoto
    <2>2. /\ fnode' \in [Threads -> Ptr]
          /\ fval' \in [Threads -> Values \cup {NoVal}]
      BY NilType DEF EnqHelp, EnqDone, DeqHelp, Again, FReturn, FifoTypeOK
    <2>3. Nil \in [ptr : Ptr \cup Garbage, tag : Tag]
      BY NilType DEF TPtr
    <2> QED
      BY <1>2, <1>4, <2>1, <2>2, <2>3, NilType DEF FifoTypeOK, FifoLabels
  <1>7. pc[t] = "idle"
    BY <1>1 DEF PoolPhase
  <1>8. \/ EnqHelp(t) /\ fpc[t] = "e_help" /\ fpc'[t] = "e_tail" /\ UNCHANGED <<fnode, fval>>
        \/ DeqHelp(t) /\ fpc[t] = "d_help" /\ fpc'[t] = "d_head" /\ UNCHANGED <<fnode, fval>>
        \/ EnqDone(t) /\ fpc[t] = "e_done" /\ fpc'[t] = "idle" /\ fval'[t] = NoVal
    BY DEF EnqHelp, EnqDone, DeqHelp, Again, FReturn, FGoto, FifoTypeOK
  <1>9. /\ fpc'[t] # "u_link" /\ PoolPhase(t)'
        /\ Linking(t)' = Linking(t) /\ (Linking(t) => fnode'[t] = fnode[t])
    BY <1>2, <1>7, <1>8 DEF Linking, PoolPhase
  <1>10. (FollowsNodes(t) /\ TailSnapshot(t) /\ ValuePlace(t))'
    BY <1>2, <1>8 DEF FollowsNodes, TailSnapshot, ValuePlace
  <1>11. HeadSnapshot(t)'
    BY <1>2, <1>8 DEF HeadSnapshot, Dequeueing
  <1> QED
    BY <1>2, <1>3, <1>4, <1>5, <1>6, <1>9, <1>10, <1>11, ThreadKeeps

-----------------------------------------------------------------------------
(* The steps that give the queue a node or take one from it *)

\* construct gives enqueue a node that nobody else has, with a new tag
\* (fifo.hpp:58-64, 151-156).
LEMMA EnqNewKeeps ==
    ASSUME FifoInv, IInv', FifoFresh, NEW t \in Threads, EnqNew(t)
    PROVE  FifoInv'
  <1> USE DEF FifoInv, EnqNew
  <1>1. node[t] \in Nodes /\ node[t] \notin used
    BY DEF AllocNew, IInv, OneOwner, Carrying
  <1>2. /\ used' = used \cup {node[t]} /\ walk' = walk
        /\ next'[node[t]] = NULL
        /\ \A n \in Nodes \ {node[t]} : next'[n] = next[n]
        /\ pc'[t] = "idle" /\ \A u \in Threads \ {t} : pc'[u] = pc[u]
    BY <1>1 DEF AllocNew, Return, Goto, IInv, TypeOK
  <1>3. /\ fpc[t] = "e_pool" /\ fpc'[t] = "e_tail" /\ fnode'[t] = node[t]
        /\ data'[node[t]] = fval[t]
        /\ \A n \in Nodes \ {node[t]} : data'[n] = data[n]
        /\ UNCHANGED <<head, tail, que, seen, phase, fhead, ftail, fnext, fval>>
        /\ \A u \in Threads \ {t} : fpc'[u] = fpc[u] /\ fnode'[u] = fnode[u]
    BY <1>1 DEF FGoto, FifoTypeOK
  <1>4. /\ phase = "open" /\ \A u \in Threads : fpc[u] # "u_link"
        /\ \A n \in used : n \in Nodes
    BY <1>3, Inside DEF IInv, TypeOK
  <1>5. \A u \in Threads \ {t} : Aside(u)
    BY <1>3 DEF Aside
  <1>6. \A n \in used : next'[n] = next[n] /\ data'[n] = data[n]
    BY <1>1, <1>2, <1>3, <1>4
  <1>7. FifoTypeOK'
    <2>1. ntag' \in [Nodes -> Tag]
      BY <1>1, IncTagType DEF NewTag, FifoTypeOK
    <2> QED
      BY <1>1, <1>3, <2>1 DEF FGoto, FifoTypeOK, FifoLabels, Ptr
  <1>8. Monotone
    BY <1>3, <1>6 DEF Monotone
  <1>9. \A u \in Threads \ {t} :
            (FollowsNodes(u) /\ TailSnapshot(u) /\ HeadSnapshot(u) /\ ValuePlace(u))'
    BY <1>3, <1>4, <1>5, <1>8, OthersKeep DEF SeenKept
  <1>10. (FollowsNodes(t) /\ TailSnapshot(t) /\ HeadSnapshot(t) /\ ValuePlace(t))'
    BY <1>3 DEF FollowsNodes, TailSnapshot, HeadSnapshot, ValuePlace, Dequeueing
  <1>11. \A u \in Threads : PoolPhase(u)'
    BY <1>2, <1>3, <1>5 DEF PoolPhase, Aside
  <1>12. QueueLinked'
    <2>1. \A n \in Range(que) : next'[n] = next[n]
      BY <1>6 DEF NodesPlaced
    <2>2. IsChain(First(que), next', que)
      BY <2>1, ChainFrame DEF QueueLinked, FifoTypeOK
    <2> QED
      BY <1>3, <2>2 DEF QueueLinked
  <1>13. TailPlaced'
    BY <1>3, <1>5, <1>6, TailStays
  <1>14. NodesPlaced'
    <2>1. ~Linking(t) /\ Linking(t)'
      BY <1>3 DEF Linking
    <2>2. \A u \in Threads \ {t} : Linking(u)' = Linking(u) /\ fnode'[u] = fnode[u]
      BY <1>3 DEF Linking
    <2> QED
      BY <1>1, <1>2, <1>3, <1>6, <2>1, <2>2 DEF NodesPlaced
  <1>15. FifoLife'
    BY <1>2, <1>3, <1>4 DEF FifoLife, Alive
  <1> QED
    BY <1>7, <1>9, <1>10, <1>11, <1>12, <1>13, <1>14, <1>15

\* A thread links its node behind the last one.
LEMMA AppendPlaces ==
    ASSUME FifoInv, NEW t \in Threads, Linking(t), phase = "open",
           next[tail.ptr] = NULL,
           next' = [next EXCEPT ![tail.ptr] = fnode[t]],
           que' = Append(que, fnode[t]), UNCHANGED <<used, head>>,
           ~Linking(t)',
           \A u \in Threads \ {t} : Aside(u)
    PROVE  /\ fnode[t] \in Nodes /\ fnode[t] # NULL
           /\ que' \in Seq(Nodes) /\ que' # <<>> /\ Len(que') = Len(que) + 1
           /\ Len(que) \in Nat \ {0}
           /\ Range(que') = Range(que) \cup {fnode[t]}
           /\ next'[tail.ptr] = fnode[t] /\ next'[fnode[t]] = NULL
           /\ \A n \in used \ {tail.ptr} : next'[n] = next[n]
           /\ QueueLinked' /\ NodesPlaced'
  <1> USE DEF FifoInv
  <1> DEFINE n == fnode[t]
             m == tail.ptr
  <1>1. /\ que \in Seq(Nodes) /\ que # <<>> /\ m \in Range(que) /\ m \in Nodes
        /\ next \in [Nodes -> Ptr \cup Garbage] /\ \A k \in used : k \in Nodes
    BY TailFacts DEF FifoTypeOK, IInv, TypeOK
  <1>2. /\ n \in used /\ n \notin Range(que) /\ next[n] = NULL
    BY DEF NodesPlaced
  <1>3. n \in Nodes /\ n # NULL /\ n # m
    BY <1>1, <1>2, NullAssumption
  <1>4. /\ Len(que) \in Nat \ {0} /\ head.ptr = que[1]
        /\ m = que[Len(que)]
        /\ \A k \in Range(que) : k \in used
    BY <1>1, QueueFacts
  <1> HIDE DEF n, m
  <1>5. /\ que' \in Seq(Nodes) /\ que' # <<>>
        /\ Len(que') = Len(que) + 1
        /\ que'[1] = que[1]
        /\ Range(que') = Range(que) \cup {n}
    <2>1. que' = Append(que, n)
      BY DEF n
    <2> QED
      BY <1>1, <1>3, <1>4, <2>1, AppendElements
  <1>6. /\ next'[m] = n /\ next'[n] = NULL
        /\ \A k \in Nodes \ {m} : next'[k] = next[k]
    BY <1>1, <1>2, <1>3 DEF n, m
  <1>7. QueueLinked'
    <2>1. IsChain(First(que), next, que)
      BY DEF QueueLinked
    <2>2. IsChain(First(que), next', Append(que, n))
      BY <1>1, <1>2, <1>3, <1>4, <1>6, <2>1, ChainAppend
    <2>3. First(que) = First(que')
      BY <1>1, <1>5 DEF First
    <2>4. IsChain(First(que'), next', que')
      BY <2>2, <2>3 DEF n
    <2> QED
      BY <1>4, <1>5, <2>4 DEF QueueLinked
  <1>8. NodesPlaced'
    <2>1. \A u \in Threads \ {t} : Linking(u)' = Linking(u) /\ fnode'[u] = fnode[u]
      BY DEF Linking, Aside
    <2>2. \A u \in Threads \ {t} : Linking(u) =>
            /\ fnode[u] \in used /\ fnode[u] \notin Range(que) /\ fnode[u] # n
            /\ next[fnode[u]] = NULL /\ fnode[u] \in Nodes \ {m}
      BY <1>1 DEF NodesPlaced, n
    <2>3. \A k \in Range(que') : k \in used'
      BY <1>2, <1>4, <1>5
    <2>4. ASSUME NEW k \in used'
          PROVE  k \in Range(que') \/ \E u \in Threads : Linking(u)' /\ fnode'[u] = k
      <3>1. CASE k = n
        BY <1>5, <3>1
      <3>2. CASE k # n
        BY <1>5, <2>1, <3>2 DEF NodesPlaced, n
      <3> QED
        BY <3>1, <3>2
    <2>5. ASSUME NEW u \in Threads, Linking(u)'
          PROVE  /\ fnode'[u] \in used'
                 /\ fnode'[u] \notin Range(que')
                 /\ next'[fnode'[u]] = NULL
                 /\ \A w \in Threads \ {u} : Linking(w)' => fnode'[w] # fnode'[u]
      <3>1. u # t /\ Linking(u) /\ fnode'[u] = fnode[u]
        BY <2>1, <2>5
      <3>2. \A w \in Threads \ {u} : Linking(w)' => Linking(w) /\ fnode'[w] = fnode[w]
        BY <2>1
      <3>3. \A w \in Threads \ {u} : Linking(w) => fnode[w] # fnode[u]
        BY <3>1 DEF NodesPlaced
      <3> QED
        BY <1>5, <1>6, <2>2, <3>1, <3>2, <3>3
    <2> QED
      BY <2>3, <2>4, <2>5 DEF NodesPlaced
  <1> QED
    BY <1>1, <1>3, <1>4, <1>5, <1>6, <1>7, <1>8 DEF n, m

\* enqueue links its node: the tag of the link that it read tells that the
\* node it read it from is still the last one (fifo.hpp:167-170).
LEMMA EnqLinkKeeps ==
    ASSUME FifoInv, IInv', FifoFresh, NEW t \in Threads, EnqLink(t)
    PROVE  FifoInv'
  <1> USE DEF FifoInv
  <1>1. fpc[t] = "e_link" /\ NextOf(ftail[t].ptr) = fnext[t] /\ Linking(t)
    BY DEF EnqLink, Linking
  <1>2. /\ phase = "open" /\ \A u \in Threads : fpc[u] # "u_link"
        /\ tail.ptr \in Range(que) /\ tail.ptr \in Nodes /\ tail.ptr \in used
    BY <1>1, Inside
  <1>3. tail = ftail[t] /\ next[tail.ptr] = NULL /\ ntag[tail.ptr] = fnext[t].tag
    BY <1>1 DEF TailSnapshot, NextOf, MkPtr
  <1>4. /\ next' = [next EXCEPT ![tail.ptr] = fnode[t]]
        /\ ntag' = [ntag EXCEPT ![tail.ptr] = IncTag(ntag[tail.ptr])]
        /\ que' = Append(que, fnode[t])
        /\ UNCHANGED <<used, walk, pc, head, tail, data, seen, phase, fhead, ftail, fnode>>
        /\ fpc'[t] = "e_done"
        /\ \A u \in Threads \ {t} : Aside(u)
    BY <1>3 DEF EnqLink, PutWord, FGoto, Aside, FifoTypeOK
  <1>5. ~Linking(t)'
    BY <1>4 DEF Linking
  <1>6. /\ fnode[t] \in Nodes /\ fnode[t] # NULL
        /\ que' \in Seq(Nodes) /\ que' # <<>> /\ Len(que') = Len(que) + 1
        /\ Len(que) \in Nat \ {0}
        /\ Range(que') = Range(que) \cup {fnode[t]}
        /\ next'[tail.ptr] = fnode[t] /\ next'[fnode[t]] = NULL
        /\ \A n \in used \ {tail.ptr} : next'[n] = next[n]
        /\ QueueLinked' /\ NodesPlaced'
    BY <1>1, <1>2, <1>3, <1>4, <1>5, AppendPlaces
  <1>7. ntag' \in [Nodes -> Tag] /\ ntag'[tail.ptr] # ntag[tail.ptr]
    BY <1>2, <1>4, IncTagType DEF FifoTypeOK
  <1>8. FifoTypeOK'
    <2>1. fpc' \in [Threads -> FifoLabels] /\ fval' \in [Threads -> Values \cup {NoVal}]
      BY DEF EnqLink, FGoto, FifoTypeOK, FifoLabels
    <2>2. fnext' \in [Threads -> [ptr : Ptr \cup Garbage, tag : Tag]]
      BY NilType DEF EnqLink, FifoTypeOK, TPtr
    <2> QED
      BY <1>4, <1>6, <1>7, <2>1, <2>2 DEF FifoTypeOK
  <1>9. Monotone
    BY <1>3, <1>4, <1>6, <1>7 DEF Monotone
  <1>10. \A u \in Threads \ {t} :
            (FollowsNodes(u) /\ TailSnapshot(u) /\ HeadSnapshot(u) /\ ValuePlace(u))'
    <2>1. Len(que') # 1
      BY <1>6
    <2> QED
      BY <1>2, <1>4, <1>9, <2>1, OthersKeep DEF SeenKept
  <1>11. (FollowsNodes(t) /\ TailSnapshot(t) /\ HeadSnapshot(t) /\ ValuePlace(t))'
    BY <1>2, <1>3, <1>4, <1>6 DEF FollowsNodes, TailSnapshot, HeadSnapshot, ValuePlace, Dequeueing
  <1>12. \A u \in Threads : PoolPhase(u)'
    BY <1>1, <1>4 DEF PoolPhase, Aside
  <1>13. TailPlaced'
    BY <1>2, <1>3, <1>4, <1>6 DEF TailPlaced
  <1>14. FifoLife'
    BY <1>2, <1>4 DEF FifoLife, Alive, Aside
  <1> QED
    BY <1>6, <1>8, <1>10, <1>11, <1>12, <1>13, <1>14

\* A list whose nodes keep their links is still a chain after the step.
LEMMA ChainKept ==
    ASSUME NEW a, que' \in Seq(Nodes), \A n \in Range(que') : next'[n] = next[n],
           IsChain(a, next, que')
    PROVE  IsChain(a, next', que')
  BY ChainFrame

\* The dummy node leaves the queue.
LEMMA RemovePlaces ==
    ASSUME FifoInv, que # <<>>, que' = Tail(que), used' = used \ {head.ptr},
           \A n \in used \ {head.ptr} : next'[n] = next[n],
           \A u \in Threads : Linking(u)' = Linking(u) /\ (Linking(u) => fnode'[u] = fnode[u])
    PROVE  /\ que' \in Seq(Nodes)
           /\ Range(que') = Range(que) \ {head.ptr}
           /\ IsChain(next[head.ptr], next', que')
           /\ IsChain(First(que'), next', que')
           /\ que' # <<>> => next[head.ptr] = que'[1]
           /\ Len(que') = Len(que) - 1
           /\ NodesPlaced'
  <1> USE DEF FifoInv
  <1>1. /\ que' \in Seq(Nodes)
        /\ Range(que') = Range(que) \ {head.ptr}
        /\ IsChain(next[head.ptr], next, que')
        /\ head.ptr \in Range(que)
        /\ \A n \in Range(que) : n \in used
    BY QueueFacts
  <1>2. IsChain(next[head.ptr], next', que')
    <2>1. \A n \in Range(que') : next'[n] = next[n]
      BY <1>1
    <2> QED
      <3>1. que' \in Seq(Nodes) /\ IsChain(next[head.ptr], next, que')
        BY <1>1
      <3> HIDE DEF FifoInv
      <3> QED
        BY <2>1, <3>1, ChainKept
  <1>3. next[head.ptr] = First(que')
    BY <1>2 DEF IsChain
  <1>4. Len(que') = Len(que) - 1
    BY TailElements DEF FifoTypeOK
  <1>5. NodesPlaced'
    <2>1. \A n \in Range(que') : n \in used'
      BY <1>1
    <2>2. ASSUME NEW n \in used'
          PROVE  n \in Range(que') \/ \E u \in Threads : Linking(u)' /\ fnode'[u] = n
      BY <1>1 DEF NodesPlaced
    <2>3. \A u \in Threads : Linking(u) =>
            /\ fnode[u] \in used' /\ fnode[u] \notin Range(que')
            /\ next'[fnode[u]] = NULL
      BY <1>1 DEF NodesPlaced
    <2> QED
      BY <2>1, <2>2, <2>3 DEF NodesPlaced
  <1> QED
    BY <1>1, <1>2, <1>3, <1>4, <1>5 DEF First

\* dequeue takes the first value: the tag of head_ tells that the link and the
\* value it read are still those of the queue, and tail_ is ahead
\* (fifo.hpp:233-241).
LEMMA DeqCASKeeps ==
    ASSUME FifoInv, IInv', FifoFresh, NEW t \in Threads, DeqCAS(t)
    PROVE  FifoInv'
  <1> USE DEF FifoInv
  <1>1. fpc[t] = "d_cas" /\ head = fhead[t] /\ Dequeueing(t)
    BY DEF DeqCAS, Dequeueing
  <1>2. /\ phase = "open" /\ \A u \in Threads : fpc[u] # "u_link"
        /\ que # <<>> /\ tail.ptr \in Range(que) /\ tail.ptr \in used
    BY <1>1, Inside
  <1>3. /\ fnext[t].ptr = next[head.ptr] /\ fnext[t].ptr \in Nodes
        /\ tail.ptr # head.ptr
    BY <1>1 DEF HeadSnapshot, FollowsNodes
  <1>4. /\ head.ptr \in Nodes /\ head.ptr \in used
        /\ Len(que) \in Nat \ {0}
        /\ \A n \in Range(que) : n \in used
        /\ \A n \in Range(que) : next[n] # NULL =>
                next[n] \in Range(que) /\ next[n] # head.ptr /\ next[n] # n
    BY <1>2, QueueFacts
  <1>5. /\ head' = MkPtr(fnext[t].ptr, IncTag(head.tag))
        /\ que' = Tail(que) /\ used' = used \ {head.ptr}
        /\ data' = [data EXCEPT ![head.ptr] = NoVal]
        /\ UNCHANGED <<next, walk, tail, ntag, phase>>
        /\ pc'[t] = "d_load" /\ \A u \in Threads \ {t} : pc'[u] = pc[u]
    BY <1>1 DEF DeqCAS, GiveBack, HeadTag, Goto, IInv, TypeOK
  <1>6. /\ fpc'[t] = "d_pool"
        /\ \A u \in Threads \ {t} : Aside(u)
    BY DEF DeqCAS, Again, FGoto, Aside, FifoTypeOK
  <1>7. seen' \in [Threads -> BOOLEAN]
            /\ \A u \in Threads \ {t} :
                seen'[u] = (seen[u] \/ (Len(que) = 2 /\ Dequeueing(u)))
    BY DEF DeqCAS, Emptied, Dequeueing, FifoTypeOK
  <1>8. head' \in TPtr /\ head'.ptr = next[head.ptr] /\ head'.tag # head.tag
    <2>1. head.tag \in Tag
      BY DEF FifoTypeOK, TPtr
    <2> QED
      BY <1>3, <1>5, <2>1, IncTagType DEF MkPtr, TPtr, Ptr
  <1>9. \A u \in Threads : Linking(u)' = Linking(u) /\ (Linking(u) => fnode'[u] = fnode[u])
    BY <1>1, <1>6 DEF Linking, Aside
  <1>10. /\ que' \in Seq(Nodes)
         /\ Range(que') = Range(que) \ {head.ptr}
         /\ IsChain(First(que'), next', que')
         /\ que' # <<>> => next[head.ptr] = que'[1]
         /\ Len(que') = Len(que) - 1
         /\ NodesPlaced'
    BY <1>2, <1>5, <1>9, RemovePlaces
  <1>11. FifoTypeOK'
    <2>1. /\ fpc' \in [Threads -> FifoLabels]
          /\ fhead' \in [Threads -> TPtr] /\ ftail' \in [Threads -> TPtr]
          /\ fnode' \in [Threads -> Ptr] /\ fval' \in [Threads -> Values \cup {NoVal}]
      BY NilType DEF DeqCAS, Again, FGoto, FifoTypeOK, FifoLabels
    <2>2. fnext' \in [Threads -> [ptr : Ptr \cup Garbage, tag : Tag]]
      BY NilType DEF DeqCAS, Again, FifoTypeOK, TPtr
    <2>3. data' \in [Nodes -> Values \cup {NoVal}]
      BY <1>5 DEF FifoTypeOK
    <2> QED
      BY <1>5, <1>7, <1>8, <1>10, <2>1, <2>2, <2>3 DEF FifoTypeOK
  <1>12. Monotone
    <2>1. \A n \in used : data'[n] # data[n] => n = head.ptr
      BY <1>5 DEF FifoTypeOK, IInv, TypeOK
    <2> QED
      BY <1>5, <1>8, <2>1 DEF Monotone
  <1>13. \A u \in Threads \ {t} :
            (FollowsNodes(u) /\ TailSnapshot(u) /\ HeadSnapshot(u) /\ ValuePlace(u))'
    <2>1. Len(que') = 1 => Len(que) = 2
      <3>1. \A k \in Nat \ {0} : k - 1 = 1 => k = 2
        OBVIOUS
      <3> QED
        BY <1>4, <1>10, <3>1
    <2>2. \A u \in Threads \ {t} : SeenKept(u)
      BY <1>7, <2>1 DEF SeenKept
    <2> QED
      BY <1>2, <1>6, <1>12, <2>2, OthersKeep
  <1>14. (FollowsNodes(t) /\ TailSnapshot(t) /\ HeadSnapshot(t) /\ ValuePlace(t))'
    BY <1>6 DEF FollowsNodes, TailSnapshot, HeadSnapshot, ValuePlace, Dequeueing
  <1>15. \A u \in Threads : PoolPhase(u)'
    BY <1>5, <1>6 DEF PoolPhase, Aside
  <1>16. QueueLinked'
    BY <1>8, <1>10 DEF QueueLinked
  <1>17. TailPlaced'
    <2>1. tail.ptr \in Range(que') /\ que' # <<>>
      BY <1>2, <1>3, <1>10, RangeEmpty
    <2>2. ASSUME next[tail.ptr] # NULL
          PROVE  /\ next[next[tail.ptr]] = NULL
                 /\ \E u \in Threads : fpc'[u] = "e_done" /\ ftail'[u] = tail
      <3>1. PICK u \in Threads : fpc[u] = "e_done" /\ ftail[u] = tail
        BY <1>2, <2>2 DEF TailPlaced
      <3>2. u # t
        BY <1>1, <3>1
      <3> QED
        BY <1>2, <1>6, <2>2, <3>1, <3>2 DEF TailPlaced, Aside
    <2> QED
      BY <1>5, <2>1, <2>2 DEF TailPlaced
  <1>18. FifoLife'
    BY <1>2, <1>5, <1>6 DEF FifoLife, Alive, Aside
  <1> QED
    BY <1>10, <1>11, <1>13, <1>14, <1>15, <1>16, <1>17, <1>18

-----------------------------------------------------------------------------
(* The steps of an operation that runs alone *)

\* Nothing is known of a thread that is in no operation.
LEMMA Resting ==
    ASSUME NEW u \in Threads, fpc'[u] = "idle", fval'[u] = NoVal, pc'[u] = "idle"
    PROVE  (/\ PoolPhase(u) /\ FollowsNodes(u) /\ TailSnapshot(u)
            /\ HeadSnapshot(u) /\ ValuePlace(u))'
  BY DEF PoolPhase, FollowsNodes, TailSnapshot, HeadSnapshot, ValuePlace, Dequeueing

\* Outside its operations a thread is not in the pool and has no value; none
\* is inside an operation while the fifo is built or destroyed.
LEMMA AtRest ==
    ASSUME FifoInv, FIdle \/ phase # "open"
    PROVE  /\ FIdle
           /\ \A u \in Threads : fval[u] = NoVal /\ pc[u] = "idle" /\ ~Linking(u)
           /\ \A n \in used : n \in Range(que)
           /\ \A n \in used : n \in Nodes
           /\ phase \in {"open", "drain"} => next[tail.ptr] = NULL /\ tail.ptr = que[Len(que)]
  <1> USE DEF FifoInv
  <1>1. FIdle
    BY DEF FifoLife, FIdle
  <1>2. \A u \in Threads : fval[u] = NoVal /\ pc[u] = "idle" /\ ~Linking(u)
    BY <1>1 DEF FIdle, ValuePlace, PoolPhase, Linking
  <1>3. \A n \in used : n \in Range(que) /\ n \in Nodes
    BY <1>2 DEF NodesPlaced, IInv, TypeOK
  <1>4. ASSUME phase \in {"open", "drain"}
        PROVE  next[tail.ptr] = NULL /\ tail.ptr = que[Len(que)]
    <2>1. next[tail.ptr] = NULL
      BY <1>1, <1>4 DEF FIdle, TailPlaced
    <2> QED
      BY <1>4, <2>1, TailFacts, QueueFacts
  <1> QED
    BY <1>1, <1>2, <1>3, <1>4

\* A step that runs alone and leaves the nodes in use as they are keeps the
\* invariant if it respects the life of the fifo.
LEMMA AloneKeeps ==
    ASSUME FifoInv, IInv', FIdle,
           UNCHANGED <<used, ntag, data, que, seen, locals, pc>>,
           \A n \in used : next'[n] = next[n],
           que # <<>> => head' = head,
           head' \in TPtr, tail' \in TPtr,
           phase' \in {"raw", "open", "drain", "close"},
           phase' \in {"open", "drain"} => phase \in {"open", "drain"} /\ tail' = tail,
           phase' # "close" => Alive',
           phase' = "raw" => que = <<>>,
           phase' = "close" => Len(que) <= 1
    PROVE  FifoInv'
  <1> USE DEF FifoInv
  <1>1. /\ \A u \in Threads : fval[u] = NoVal /\ pc[u] = "idle" /\ ~Linking(u)
        /\ phase \in {"open", "drain"} => next[tail.ptr] = NULL
    BY AtRest
  <1>2. /\ \A u \in Threads : fpc'[u] = "idle" /\ fval'[u] = NoVal /\ pc'[u] = "idle"
        /\ \A u \in Threads : ~Linking(u)'
    BY <1>1 DEF FIdle, locals, Linking
  <1>3. \A u \in Threads :
            (/\ PoolPhase(u) /\ FollowsNodes(u) /\ TailSnapshot(u)
             /\ HeadSnapshot(u) /\ ValuePlace(u))'
    BY <1>2, Resting
  <1>4. FifoTypeOK'
    BY DEF FifoTypeOK, locals
  <1>5. QueueLinked'
    <2>1. \A n \in Range(que) : next'[n] = next[n]
      BY DEF NodesPlaced
    <2>2. IsChain(First(que), next', que)
      BY <2>1, ChainFrame DEF QueueLinked, FifoTypeOK
    <2> QED
      BY <2>2 DEF QueueLinked
  <1>6. TailPlaced'
    <2> SUFFICES ASSUME phase' \in {"open", "drain"} PROVE TailPlaced'
      BY DEF TailPlaced
    <2>1. que # <<>> /\ tail.ptr \in Range(que) /\ tail.ptr \in used
      BY TailFacts
    <2> QED
      BY <1>1, <2>1 DEF TailPlaced
  <1>7. NodesPlaced'
    BY <1>1, <1>2 DEF NodesPlaced
  <1>8. FifoLife'
    BY <1>2 DEF FifoLife
  <1> QED
    BY <1>3, <1>4, <1>5, <1>6, <1>7, <1>8

\* reserve_unsafe, and the steps of the destructor that leave the queue as it
\* is: it reaches the destructor of the pool only with at most the dummy node
\* in the queue (fifo.hpp:95-140).
LEMMA LifeKeeps ==
    ASSUME FifoInv, IInv',
           FifoReserveUnsafe \/ Close \/ Drained \/ ClosePool \/ Reopen
    PROVE  FifoInv'
  <1> USE DEF FifoInv
  <1>0. head \in TPtr /\ tail \in TPtr /\ phase \in {"raw", "open", "drain", "close"}
    BY DEF FifoTypeOK
  <1>1. CASE FifoReserveUnsafe
    <2>1. /\ phase \in {"raw", "open"} /\ FIdle /\ Alive
          /\ UNCHANGED <<used, walk, pc>> /\ UNCHANGED fifoVars
      BY <1>1 DEF FifoReserveUnsafe, ReserveUnsafe, PushUnsafe
    <2>2. \A n \in used : next'[n] = next[n]
      <3>1. PICK n \in os : next' = [next EXCEPT ![n] = pool.ptr]
        BY <1>1 DEF FifoReserveUnsafe, ReserveUnsafe, PushUnsafe
      <3>2. n \notin used
        BY <3>1 DEF IInv, OneOwner
      <3> QED
        BY <3>1, <3>2 DEF IInv, TypeOK
    <2> QED
      BY <1>0, <2>1, <2>2, AloneKeeps DEF fifoVars, locals, FifoLife, Alive
  <1>2. CASE Close
    <2>1. /\ phase = "open" /\ FIdle
          /\ phase' = IF head.ptr = tail.ptr THEN "close" ELSE "drain"
          /\ UNCHANGED <<vars, head, tail, ntag, data, que, seen, locals>>
      BY <1>2 DEF Close
    <2>2. head.ptr = tail.ptr => Len(que) = 1
      <3>1. que # <<>> /\ next[tail.ptr] = NULL
        BY <2>1, AtRest, TailFacts
      <3> QED
        BY <3>1, QueueFacts
    <2>3. Alive
      BY <2>1 DEF FifoLife
    <2> QED
      BY <1>0, <2>1, <2>2, <2>3, AloneKeeps DEF vars, Alive
  <1>3. CASE Drained
    <2>1. /\ phase = "drain" /\ next[head.ptr] = NULL /\ phase' = "close"
          /\ UNCHANGED <<vars, head, tail, ntag, data, que, seen, locals>>
      BY <1>3 DEF Drained
    <2>2. Len(que) = 1
      BY <2>1, TailFacts, QueueFacts
    <2> QED
      BY <1>0, <2>1, <2>2, AtRest, AloneKeeps DEF vars
  <1>4. CASE ClosePool
    <2>1. /\ phase = "close" /\ que = <<>>
          /\ UNCHANGED <<used, next, pc>> /\ UNCHANGED fifoVars
      BY <1>4 DEF ClosePool, BeginDestroy, DestroyStep
    <2>2. Len(que) <= 1
      BY <2>1 DEF FifoLife
    <2> QED
      BY <1>0, <2>1, <2>2, AtRest, AloneKeeps DEF fifoVars, locals
  <1>5. CASE Reopen
    <2>1. /\ phase = "close" /\ walk = NULL /\ walk' = Off
          /\ UNCHANGED <<used, next, pc>> /\ phase' = "raw" /\ head' = Nil /\ tail' = Nil
          /\ UNCHANGED <<ntag, data, que, seen, locals>>
      BY <1>5 DEF Reopen, Recreate
    <2>2. que = <<>>
      <3>1. ~Alive
        BY <2>1, OffAssumption DEF Alive, Ptr
      <3> QED
        BY <3>1, QueueFacts
    <2> QED
      BY <2>1, <2>2, NilType, AtRest, AloneKeeps DEF Alive
  <1> QED
    BY <1>1, <1>2, <1>3, <1>4, <1>5

\* initialize puts the dummy node into the queue (fifo.hpp:78-88).
LEMMA InitializeKeeps ==
    ASSUME FifoInv, IInv', Initialize
    PROVE  FifoInv'
  <1> USE DEF FifoInv
  <1> DEFINE n == pool.ptr
  <1>1. phase = "raw" /\ que = <<>>
    BY DEF Initialize, FifoLife
  <1>2. /\ FIdle /\ used = {}
        /\ \A u \in Threads : fval[u] = NoVal /\ pc[u] = "idle" /\ ~Linking(u)
    BY <1>1, AtRest, RangeEmpty
  <1>3. n \in Nodes
    BY DEF Initialize, ConstructUnsafe, IInv, TypeOK, TPtr, Ptr
  <1>4. /\ used' = {n} /\ next'[n] = NULL /\ walk' = walk /\ pc' = pc /\ Alive
    BY <1>2, <1>3 DEF Initialize, ConstructUnsafe, IInv, TypeOK
  <1>5. /\ head' = MkPtr(n, 0) /\ tail' = MkPtr(n, 0) /\ que' = <<n>> /\ phase' = "open"
        /\ ntag' = [ntag EXCEPT ![n] = 0]
        /\ UNCHANGED <<data, seen, fpc, fhead, ftail, fnext, fnode, fval>>
    BY DEF Initialize, locals
  <1> HIDE DEF n
  <1>6. /\ head'.ptr = n /\ tail'.ptr = n /\ head' \in TPtr /\ tail' \in TPtr /\ 0 \in Tag
    BY <1>3, <1>5, NilType DEF Nil, MkPtr, TPtr, Ptr
  <1>7. /\ que' \in Seq(Nodes) /\ Len(que') = 1 /\ que' # <<>> /\ que'[1] = n
        /\ Range(que') = {n}
    <2>1. que' \in Seq(Nodes) /\ Len(que') = 1 /\ que' # <<>> /\ que'[1] = n
      BY <1>3, <1>5
    <2>2. Range(que') = {que'[i] : i \in 1 .. 1}
      BY <2>1, RangeElements
    <2> QED
      BY <2>1, <2>2
  <1>8. FifoTypeOK'
    BY <1>3, <1>5, <1>6, <1>7 DEF FifoTypeOK
  <1>9. QueueLinked'
    BY <1>4, <1>6, <1>7 DEF QueueLinked, IsChain, First, Successor
  <1>10. TailPlaced'
    BY <1>4, <1>6, <1>7 DEF TailPlaced
  <1>11. /\ \A u \in Threads : fpc'[u] = "idle" /\ fval'[u] = NoVal /\ pc'[u] = "idle"
         /\ \A u \in Threads : ~Linking(u)'
    BY <1>2, <1>4, <1>5 DEF FIdle, Linking
  <1>12. NodesPlaced'
    BY <1>4, <1>7, <1>11 DEF NodesPlaced
  <1>13. FifoLife'
    BY <1>4, <1>5, <1>11 DEF FifoLife, Alive
  <1>14. \A u \in Threads :
            (/\ PoolPhase(u) /\ FollowsNodes(u) /\ TailSnapshot(u)
             /\ HeadSnapshot(u) /\ ValuePlace(u))'
    BY <1>11, Resting
  <1> QED
    BY <1>8, <1>9, <1>10, <1>12, <1>13, <1>14

\* dequeue_unsafe takes the first value, and the destructor the dummy node
\* (fifo.hpp:123-140, 252-282).
LEMMA RemoveAloneKeeps ==
    ASSUME FifoInv, IInv', DequeueUnsafe \/ CloseDummy
    PROVE  FifoInv'
  <1> USE DEF FifoInv
  <1>1. /\ FIdle /\ que # <<>>
        /\ GiveBackUnsafe(head.ptr) /\ que' = Tail(que)
        /\ data' = [data EXCEPT ![head.ptr] = NoVal]
        /\ UNCHANGED <<ntag, seen, phase, fpc, fhead, ftail, fnext, fnode, fval>>
    BY AtRest, TailFacts DEF DequeueUnsafe, CloseDummy, locals
  <1>2. /\ \A u \in Threads : fval[u] = NoVal /\ pc[u] = "idle" /\ ~Linking(u)
        /\ phase \in {"open", "drain"} => next[tail.ptr] = NULL
    BY <1>1, AtRest
  <1>3. /\ head.ptr \in Nodes /\ Len(que) \in Nat \ {0} /\ \A n \in Range(que) : n \in used
        /\ next[head.ptr] = NULL <=> Len(que) = 1
        /\ next[head.ptr] \in Ptr
        /\ Alive
    BY <1>1, QueueFacts
  <1>4. /\ Alive /\ used' = used \ {head.ptr} /\ walk' = walk /\ pc' = pc
        /\ \A n \in used \ {head.ptr} : next'[n] = next[n]
    BY <1>1, <1>3 DEF GiveBackUnsafe, PushUnsafe, IInv, TypeOK
  <1>5. /\ \A u \in Threads : fpc'[u] = "idle" /\ fval'[u] = NoVal /\ pc'[u] = "idle"
        /\ \A u \in Threads : ~Linking(u)'
    BY <1>1, <1>2, <1>4 DEF FIdle, Linking
  <1>6. /\ que' \in Seq(Nodes)
        /\ Range(que') = Range(que) \ {head.ptr}
        /\ IsChain(First(que'), next', que')
        /\ que' # <<>> => next[head.ptr] = que'[1]
        /\ Len(que') = Len(que) - 1
        /\ NodesPlaced'
    <2>1. \A u \in Threads : Linking(u)' = Linking(u)
      BY <1>1 DEF Linking
    <2> QED
      BY <1>1, <1>2, <1>4, <2>1, RemovePlaces
  <1>7. \A u \in Threads :
            (/\ PoolPhase(u) /\ FollowsNodes(u) /\ TailSnapshot(u)
             /\ HeadSnapshot(u) /\ ValuePlace(u))'
    BY <1>5, Resting
  <1>8. data' \in [Nodes -> Values \cup {NoVal}]
    BY <1>1 DEF FifoTypeOK
  <1>9. CASE DequeueUnsafe
    <2>1. /\ phase \in {"open", "drain"} /\ next[head.ptr] # NULL
          /\ head' = MkPtr(next[head.ptr], IncTag(head.tag))
      BY <1>9 DEF DequeueUnsafe
    <2>2. tail.ptr # head.ptr
      BY <1>2, <2>1
    <2>3. tail' = tail
      BY <1>9, <2>2 DEF DequeueUnsafe
    <2>4. head' \in TPtr /\ head'.ptr = next[head.ptr]
      <3>1. head.tag \in Tag
        BY DEF FifoTypeOK, TPtr
      <3> QED
        BY <1>3, <2>1, <3>1, IncTagType DEF MkPtr, TPtr
    <2>5. FifoTypeOK'
      BY <1>1, <1>6, <1>8, <2>3, <2>4 DEF FifoTypeOK
    <2>6. QueueLinked'
      BY <1>6, <2>4 DEF QueueLinked
    <2>7. TailPlaced'
      <3>1. tail.ptr \in Range(que) /\ tail.ptr \in used
        BY <2>1, TailFacts
      <3>2. tail.ptr \in Range(que') /\ que' # <<>>
        BY <1>6, <2>2, <3>1, RangeEmpty
      <3>3. next'[tail.ptr] = NULL
        BY <1>2, <1>4, <2>1, <2>2, <3>1
      <3> QED
        BY <2>3, <3>2, <3>3 DEF TailPlaced
    <2>8. FifoLife'
      BY <1>1, <1>4, <1>5, <2>1 DEF FifoLife, Alive
    <2> QED
      BY <1>6, <1>7, <2>5, <2>6, <2>7, <2>8
  <1>10. CASE CloseDummy
    <2>1. phase = "close" /\ head' = head /\ tail' = tail /\ Len(que) <= 1
      BY <1>10 DEF CloseDummy, FifoLife
    <2>2. Len(que') = 0
      <3>1. \A k \in Nat \ {0} : k <= 1 => k - 1 = 0
        OBVIOUS
      <3> QED
        BY <1>3, <1>6, <2>1, <3>1
    <2>3. que' = <<>>
      BY <1>6, <2>2, EmptySeq
    <2>4. FifoTypeOK'
      BY <1>1, <1>6, <1>8, <2>1 DEF FifoTypeOK
    <2>5. QueueLinked'
      BY <1>6, <2>3 DEF QueueLinked
    <2>6. TailPlaced'
      BY <1>1, <2>1 DEF TailPlaced
    <2>7. FifoLife'
      BY <1>1, <1>5, <2>1, <2>2 DEF FifoLife
    <2> QED
      BY <1>6, <1>7, <2>4, <2>5, <2>6, <2>7
  <1> QED
    BY <1>9, <1>10

\* enqueue_unsafe takes a node that the pool had, and so one that is nowhere
\* in the queue (fifo.hpp:188-193).
LEMMA EnqueueUnsafeKeeps ==
    ASSUME FifoInv, IInv', NEW t \in Threads, EnqueueUnsafe(t)
    PROVE  FifoInv'
  <1> USE DEF FifoInv
  <1>1. phase = "open" /\ FIdle
    BY DEF EnqueueUnsafe
  <1>2. /\ \A u \in Threads : fval[u] = NoVal /\ pc[u] = "idle" /\ ~Linking(u)
        /\ next[tail.ptr] = NULL
        /\ \A n \in used : n \in Range(que)
        /\ \A n \in used : n \in Nodes
    BY <1>1, AtRest
  <1>3. PICK n \in used' \ used, v \in Values :
            /\ fnode' = [fnode EXCEPT ![t] = n]
            /\ ntag' = [ntag EXCEPT ![n] = NewTag(n)]
            /\ data' = [data EXCEPT ![n] = v]
    BY DEF EnqueueUnsafe
  <1>4. /\ n \in Nodes /\ used' = used \cup {n} /\ next' = [next EXCEPT ![n] = NULL]
        /\ walk' = walk /\ pc' = pc /\ Alive
    <2>1. CASE ConstructUnsafe(NULL)
      <3>1. pool.ptr \in Nodes
        BY <2>1 DEF ConstructUnsafe, IInv, TypeOK, TPtr, Ptr
      <3> QED
        BY <1>3, <2>1, <3>1 DEF ConstructUnsafe
    <2>2. CASE GrowUnsafe(NULL)
      <3>1. PICK m \in os : /\ used' = used \cup {m}
                            /\ next' = [next EXCEPT ![m] = NULL]
        BY <2>2 DEF GrowUnsafe
      <3>2. m \in Nodes
        BY <3>1 DEF IInv, TypeOK
      <3> QED
        BY <1>3, <2>2, <3>1, <3>2 DEF GrowUnsafe
    <2> QED
      BY <2>1, <2>2 DEF EnqueueUnsafe
  <1>5. /\ next'[n] = NULL /\ n \notin used
        /\ \A m \in used : next'[m] = next[m]
    BY <1>2, <1>3, <1>4 DEF IInv, TypeOK
  <1>6. /\ fpc'[t] = "u_link" /\ fnode'[t] = n /\ data'[n] = v
        /\ \A u \in Threads \ {t} : fpc'[u] = "idle"
        /\ UNCHANGED <<head, tail, que, seen, phase, fhead, ftail, fnext, fval>>
    BY <1>1, <1>3, <1>4 DEF EnqueueUnsafe, FGoto, FIdle, FifoTypeOK
  <1>7. FifoTypeOK'
    <2>1. ntag' \in [Nodes -> Tag]
      BY <1>3, <1>4, IncTagType DEF NewTag, FifoTypeOK
    <2>2. fpc' \in [Threads -> FifoLabels]
      BY DEF EnqueueUnsafe, FGoto, FifoTypeOK, FifoLabels
    <2>3. fnode' \in [Threads -> Ptr] /\ data' \in [Nodes -> Values \cup {NoVal}]
      BY <1>3, <1>4 DEF FifoTypeOK, Ptr
    <2> QED
      BY <1>6, <2>1, <2>2, <2>3 DEF FifoTypeOK
  <1>8. QueueLinked'
    <2>1. \A m \in Range(que) : next'[m] = next[m]
      BY <1>5 DEF NodesPlaced
    <2>2. IsChain(First(que), next', que)
      BY <2>1, ChainFrame DEF QueueLinked, FifoTypeOK
    <2> QED
      BY <1>6, <2>2 DEF QueueLinked
  <1>9. TailPlaced'
    <2>1. que # <<>> /\ tail.ptr \in Range(que) /\ tail.ptr \in used
      BY <1>1, TailFacts
    <2> QED
      BY <1>2, <1>5, <1>6, <2>1 DEF TailPlaced
  <1>10. NodesPlaced'
    <2>1. Linking(t)' /\ \A u \in Threads \ {t} : ~Linking(u)'
      BY <1>6 DEF Linking
    <2> QED
      BY <1>2, <1>4, <1>5, <1>6, <2>1 DEF NodesPlaced
  <1>11. FifoLife'
    BY <1>1, <1>4, <1>6 DEF FifoLife, Alive
  <1>12. (/\ PoolPhase(t) /\ FollowsNodes(t) /\ TailSnapshot(t)
          /\ HeadSnapshot(t) /\ ValuePlace(t))'
    BY <1>2, <1>4, <1>6 DEF PoolPhase, FollowsNodes, TailSnapshot, HeadSnapshot, ValuePlace,
                            Dequeueing
  <1>13. \A u \in Threads \ {t} :
            (/\ PoolPhase(u) /\ FollowsNodes(u) /\ TailSnapshot(u)
             /\ HeadSnapshot(u) /\ ValuePlace(u))'
    BY <1>2, <1>4, <1>6, Resting
  <1> QED
    BY <1>7, <1>8, <1>9, <1>10, <1>11, <1>12, <1>13

\* enqueue_unsafe links its node.  It runs alone, so tail_ is at the last node
\* (fifo.hpp:194-210).
LEMMA LinkUnsafeKeeps ==
    ASSUME FifoInv, IInv', NEW t \in Threads, LinkUnsafe(t)
    PROVE  FifoInv'
  <1> USE DEF FifoInv
  <1>1. /\ fpc[t] = "u_link" /\ phase = "open" /\ Linking(t) /\ fval[t] = NoVal
        /\ \A u \in Threads \ {t} : fpc[u] = "idle"
        /\ pc[t] = "idle"
    BY DEF LinkUnsafe, FifoLife, Linking, ValuePlace, PoolPhase
  <1>2. next[tail.ptr] = NULL /\ tail.ptr \in Range(que) /\ tail.ptr \in Nodes
    BY <1>1, TailFacts DEF TailPlaced
  <1>3. /\ next' = [next EXCEPT ![tail.ptr] = fnode[t]]
        /\ ntag' = [ntag EXCEPT ![tail.ptr] = IncTag(@)]
        /\ tail' = MkPtr(fnode[t], IncTag(tail.tag))
        /\ que' = Append(que, fnode[t])
        /\ UNCHANGED <<used, walk, pc, head, data, seen, phase>>
    BY <1>2 DEF LinkUnsafe, PutWord
  <1>4. /\ fpc'[t] = "idle" /\ fval'[t] = NoVal
        /\ \A u \in Threads \ {t} : Aside(u)
    BY DEF LinkUnsafe, FReturn, FGoto, Aside, FifoTypeOK
  <1>5. ~Linking(t)'
    BY <1>4 DEF Linking
  <1>6. /\ fnode[t] \in Nodes
        /\ que' \in Seq(Nodes) /\ que' # <<>>
        /\ Range(que') = Range(que) \cup {fnode[t]}
        /\ next'[fnode[t]] = NULL
        /\ QueueLinked' /\ NodesPlaced'
    BY <1>1, <1>2, <1>3, <1>4, <1>5, AppendPlaces
  <1>7. \A u \in Threads : fpc'[u] = "idle" /\ fval'[u] = NoVal /\ pc'[u] = "idle"
    BY <1>1, <1>3, <1>4 DEF Aside, ValuePlace, PoolPhase
  <1>8. tail' \in TPtr /\ tail'.ptr = fnode[t]
    <2>1. tail.tag \in Tag
      BY DEF FifoTypeOK, TPtr
    <2> QED
      BY <1>3, <1>6, <2>1, IncTagType DEF MkPtr, TPtr, Ptr
  <1>9. FifoTypeOK'
    <2>1. ntag' \in [Nodes -> Tag]
      BY <1>2, <1>3, IncTagType DEF FifoTypeOK
    <2>2. /\ fpc' \in [Threads -> FifoLabels]
          /\ fhead' \in [Threads -> TPtr] /\ ftail' \in [Threads -> TPtr]
          /\ fnode' \in [Threads -> Ptr] /\ fval' \in [Threads -> Values \cup {NoVal}]
      BY NilType DEF LinkUnsafe, FReturn, FGoto, FifoTypeOK, FifoLabels
    <2>3. fnext' \in [Threads -> [ptr : Ptr \cup Garbage, tag : Tag]]
      BY NilType DEF LinkUnsafe, FReturn, FifoTypeOK, TPtr
    <2> QED
      BY <1>3, <1>6, <1>8, <2>1, <2>2, <2>3 DEF FifoTypeOK
  <1>10. TailPlaced'
    BY <1>6, <1>8 DEF TailPlaced
  <1>11. FifoLife'
    BY <1>1, <1>3, <1>7 DEF FifoLife, Alive
  <1>12. \A u \in Threads :
            (/\ PoolPhase(u) /\ FollowsNodes(u) /\ TailSnapshot(u)
             /\ HeadSnapshot(u) /\ ValuePlace(u))'
    BY <1>7, Resting
  <1> QED
    BY <1>6, <1>9, <1>10, <1>11, <1>12

-----------------------------------------------------------------------------
(* The theorems about safety *)

\* The destructor of the pool starts with no node in use.
LEMMA InvClosedEmpty == FifoInv => ClosedEmpty
  <1> SUFFICES ASSUME FifoInv, phase = "close"
               PROVE  Len(que) <= 1 /\ (que = <<>> => used = {})
    BY DEF ClosedEmpty
  <1>1. Len(que) <= 1
    BY DEF FifoInv, FifoLife
  <1> QED
    BY <1>1, AtRest, RangeEmpty

\* Every step of the fifo is a step of the pool or leaves the pool alone: what
\* the fifo does to its own nodes is something the users of the pool may do
\* (fifo.hpp:149-282 on top of freelist.hpp:79-195).
LEMMA FifoStepIsPoolStep ==
    FifoInv /\ [FifoNext]_allVars => [Next]_vars
  <1> SUFFICES ASSUME FifoInv, [FifoNext]_allVars PROVE [Next]_vars
    OBVIOUS
  <1> USE DEF FifoInv
  <1>1. CASE UNCHANGED allVars
    BY <1>1 DEF allVars
  <1>2. CASE FifoNext
    <2>0. TagFresh /\ NULL \in Garbage /\ \A t \in Threads : fnode[t] \in Garbage
      BY <1>2, LinkAssumption DEF FifoNext, FifoTypeOK, Ptr
    <2>1. ASSUME NEW t \in Threads, InPool(t) PROVE PoolStep
      BY <2>1 DEF InPool, PoolStep, Step
    <2>2. ASSUME NEW t \in Threads, Enqueue(t) \/ FifoReserve(t) PROVE PoolStep
      BY <2>2 DEF Enqueue, FifoReserve, PoolStep
    <2>3. ASSUME NEW t \in Threads, EnqFail(t) \/ EnqNew(t) \/ PoolReturn(t) PROVE PoolStep
      BY <2>0, <2>3 DEF EnqFail, EnqNew, PoolReturn, PoolStep, Step
    <2>4. ASSUME NEW t \in Threads, EnqLink(t) PROVE PoolStep
      <3>1. /\ fpc[t] = "e_link" /\ NextOf(ftail[t].ptr) = fnext[t]
            /\ PutWord(ftail[t].ptr, fnode[t])
        BY <2>4 DEF EnqLink
      <3>2. tail.ptr \in Nodes /\ tail.ptr \in used /\ Alive
        BY <3>1, Inside DEF FifoLife
      <3>3. tail = ftail[t]
        BY <3>1 DEF TailSnapshot, NextOf, MkPtr
      <3>4. Write(ftail[t].ptr, fnode[t])
        BY <3>1, <3>2, <3>3 DEF Write
      <3> QED
        BY <2>0, <3>2, <3>3, <3>4 DEF PoolStep
    <2>5. ASSUME NEW t \in Threads, LinkUnsafe(t) PROVE PoolStep
      <3>1. fpc[t] = "u_link"
        BY <2>5 DEF LinkUnsafe
      <3>2. tail.ptr \in Nodes /\ tail.ptr \in used /\ next[tail.ptr] = NULL /\ Alive
        BY <3>1, TailFacts DEF FifoLife, TailPlaced
      <3>3. Write(tail.ptr, fnode[t])
        BY <2>5, <3>2 DEF LinkUnsafe, Write
      <3> QED
        BY <2>0, <3>2, <3>3 DEF PoolStep
    <2>6. ASSUME NEW t \in Threads,
                 \/ EnqTail(t) \/ EnqNext(t) \/ EnqCheck(t) \/ EnqRetry(t) \/ EnqHelp(t)
                 \/ EnqDone(t) \/ Dequeue(t) \/ DeqHead(t) \/ DeqTail(t) \/ DeqNext(t)
                 \/ DeqFail(t) \/ DeqCheck(t) \/ DeqHelp(t) \/ DeqData(t) \/ DeqRetry(t)
          PROVE  UNCHANGED vars
      BY <2>6 DEF EnqTail, EnqNext, EnqCheck, EnqRetry, EnqHelp, EnqDone, Dequeue, DeqHead,
                  DeqTail, DeqNext, DeqFail, DeqCheck, DeqHelp, DeqData, DeqRetry
    <2>7. ASSUME NEW t \in Threads, DeqCAS(t) PROVE PoolStep
      <3>1. fpc[t] = "d_cas" /\ head = fhead[t] /\ GiveBack(t, head.ptr)
        BY <2>7 DEF DeqCAS
      <3>2. que # <<>> /\ Alive /\ pc[t] = "idle"
        BY <3>1, Inside DEF FifoLife, PoolPhase
      <3>3. head.ptr \in Nodes /\ head.ptr \in used
        BY <3>2, QueueFacts
      <3>4. Destruct(t, head.ptr)
        BY <3>1, <3>2, <3>3 DEF Destruct
      <3> QED
        BY <3>3, <3>4 DEF PoolStep
    <2>8. ASSUME NEW t \in Threads, EnqueueUnsafe(t) PROVE PoolStep
      BY <2>0, <2>8 DEF EnqueueUnsafe, PoolStep
    <2>9. ASSUME Initialize PROVE PoolStep
      BY <2>0, <2>9 DEF Initialize, PoolStep
    <2>10. ASSUME DequeueUnsafe \/ CloseDummy PROVE PoolStep
      <3>1. FIdle /\ que # <<>> /\ GiveBackUnsafe(head.ptr)
        BY <2>10, AtRest, TailFacts DEF DequeueUnsafe, CloseDummy
      <3>2. head.ptr \in Nodes /\ head.ptr \in used /\ Alive
        BY <3>1, QueueFacts
      <3>3. DestructUnsafe(head.ptr)
        BY <3>1, <3>2 DEF DestructUnsafe, FIdle, PoolPhase, Quiescent
      <3> QED
        BY <3>2, <3>3 DEF PoolStep
    <2>11. ASSUME FifoReserveUnsafe \/ Reopen PROVE PoolStep
      BY <2>11 DEF FifoReserveUnsafe, Reopen, PoolStep
    <2>12. ASSUME Close \/ Drained PROVE UNCHANGED vars
      BY <2>12 DEF Close, Drained
    <2>13. ASSUME ClosePool PROVE PoolStep
      <3>1. used = {}
        BY <2>13, InvClosedEmpty DEF ClosePool, ClosedEmpty
      <3>2. Quiescent
        BY <2>13, AtRest DEF ClosePool, Quiescent
      <3> QED
        BY <2>13, <3>1, <3>2 DEF ClosePool, Destroy, PoolStep
    <2> QED
      BY <1>2, <2>0, <2>1, <2>2, <2>3, <2>4, <2>5, <2>6, <2>7, <2>8, <2>9, <2>10, <2>11, <2>12,
         <2>13 DEF FifoNext, FifoStep, Next
  <1> QED
    BY <1>1, <1>2

\* Every step keeps the inductive invariant.
LEMMA NextFifoInv == FifoInv /\ [FifoNext]_allVars => FifoInv'
  <1> SUFFICES ASSUME FifoInv, [FifoNext]_allVars PROVE FifoInv'
    OBVIOUS
  <1>1. IInv'
    BY FifoStepIsPoolStep, NextIInv DEF FifoInv
  <1>2. CASE UNCHANGED allVars
    <2>1. UNCHANGED <<pool, next, os, used, free, walk, pc, old, nxt, node>>
          /\ UNCHANGED <<head, tail, ntag, data, que, seen, phase>>
          /\ UNCHANGED <<fpc, fhead, ftail, fnext, fnode, fval>>
      BY <1>2 DEF allVars, vars, fifoVars
    <2>2. FifoTypeOK'
      BY <2>1 DEF FifoInv, FifoTypeOK
    <2>3. QueueLinked' /\ TailPlaced'
      BY <2>1 DEF FifoInv, QueueLinked, TailPlaced
    <2>4. NodesPlaced' /\ FifoLife'
      BY <2>1 DEF FifoInv, NodesPlaced, Linking, FifoLife, Alive
    <2>5. ASSUME NEW t \in Threads
          PROVE  PoolPhase(t)' /\ FollowsNodes(t)' /\ ValuePlace(t)'
      BY <2>1 DEF FifoInv, PoolPhase, FollowsNodes, ValuePlace
    <2>6. ASSUME NEW t \in Threads PROVE TailSnapshot(t)' /\ HeadSnapshot(t)'
      BY <2>1 DEF FifoInv, TailSnapshot, HeadSnapshot, Dequeueing
    <2> QED
      BY <1>1, <2>2, <2>3, <2>4, <2>5, <2>6 DEF FifoInv
  <1>3. CASE FifoNext
    <2>1. FifoFresh
      BY <1>3 DEF FifoNext
    <2>2. ASSUME NEW t \in Threads, InPool(t) \/ EnqFail(t) \/ PoolReturn(t) PROVE FifoInv'
      BY <1>1, <2>1, <2>2, PoolKeeps
    <2>3. ASSUME NEW t \in Threads, Enqueue(t) \/ Dequeue(t) \/ FifoReserve(t) PROVE FifoInv'
      BY <1>1, <2>1, <2>3, CallKeeps
    <2>4. ASSUME NEW t \in Threads, EnqTail(t) \/ EnqNext(t) \/ EnqCheck(t) \/ EnqRetry(t)
          PROVE  FifoInv'
      BY <1>1, <2>1, <2>4, EnqueueLocal
    <2>5. ASSUME NEW t \in Threads,
                 \/ DeqHead(t) \/ DeqTail(t) \/ DeqNext(t) \/ DeqFail(t) \/ DeqCheck(t)
                 \/ DeqData(t) \/ DeqRetry(t)
          PROVE  FifoInv'
      BY <1>1, <2>1, <2>5, DequeueLocal
    <2>6. ASSUME NEW t \in Threads, EnqHelp(t) \/ EnqDone(t) \/ DeqHelp(t) PROVE FifoInv'
      BY <1>1, <2>1, <2>6, SwingKeeps
    <2>7. ASSUME NEW t \in Threads, EnqNew(t) \/ EnqLink(t) \/ DeqCAS(t) PROVE FifoInv'
      BY <1>1, <2>1, <2>7, EnqNewKeeps, EnqLinkKeeps, DeqCASKeeps
    <2>8. ASSUME NEW t \in Threads, EnqueueUnsafe(t) \/ LinkUnsafe(t) PROVE FifoInv'
      BY <1>1, <2>8, EnqueueUnsafeKeeps, LinkUnsafeKeeps
    <2>9. ASSUME FifoReserveUnsafe \/ Close \/ Drained \/ ClosePool \/ Reopen PROVE FifoInv'
      BY <1>1, <2>9, LifeKeeps
    <2>10. ASSUME Initialize \/ DequeueUnsafe \/ CloseDummy PROVE FifoInv'
      BY <1>1, <2>10, InitializeKeeps, RemoveAloneKeeps
    <2> QED
      BY <1>3, <2>2, <2>3, <2>4, <2>5, <2>6, <2>7, <2>8, <2>9, <2>10 DEF FifoNext, FifoStep
  <1> QED
    BY <1>2, <1>3

\* At every step of enqueue, dequeue, reserve, their unsafe forms, the
\* constructor and the destructor, in any interleaving, the queue and its pool
\* are intact and each thread's locals mean what the code takes them to mean
\* (fifo.hpp:105-282).
THEOREM FifoInvariantHolds == FifoSpec => []FifoInv
  BY InitFifoInv, NextFifoInv, PTL DEF FifoSpec

\* Every variable of the fifo keeps its type: in particular head_ and tail_
\* never take over a link that is not a pointer to a node, although enqueue
\* and dequeue read links of nodes that the pool already has
\* (fifo.hpp:156-243).
THEOREM FifoTypeCorrect == FifoSpec => []FifoTypeOK
  BY FifoInvariantHolds, PTL DEF FifoInv

\* tail_ is at the last node, or at the one before while an enqueue is about
\* to move it.
LEMMA InvIntact == FifoInv => QueueIntact
  <1> SUFFICES ASSUME FifoInv PROVE QueueIntact
    OBVIOUS
  <1> USE DEF FifoInv
  <1>1. IsChain(First(que), next, que) /\ que \in Seq(Nodes)
    BY DEF QueueLinked, FifoTypeOK
  <1>2. ASSUME phase \in {"open", "drain"}
        PROVE  /\ que # <<>>
               /\ head.ptr = que[1]
               /\ \/ tail.ptr = que[Len(que)]
                  \/ /\ Len(que) > 1 /\ tail.ptr = que[Len(que) - 1]
                     /\ \E t \in Threads : fpc[t] = "e_done"
    <2>1. que # <<>> /\ tail.ptr \in Range(que)
      BY <1>2, TailFacts
    <2>2. /\ head.ptr = que[1] /\ Len(que) \in Nat \ {0}
          /\ \A n \in Range(que) : next[n] = NULL => n = que[Len(que)]
          /\ \A n \in Range(que) : next[n] # NULL => next[n] \in Range(que)
      BY <2>1, QueueFacts
    <2>3. CASE next[tail.ptr] = NULL
      BY <2>1, <2>2, <2>3
    <2>4. CASE next[tail.ptr] # NULL
      <3>1. /\ next[next[tail.ptr]] = NULL
            /\ \E t \in Threads : fpc[t] = "e_done"
        BY <1>2, <2>4 DEF TailPlaced
      <3>2. next[tail.ptr] = que[Len(que)]
        BY <2>1, <2>2, <2>4, <3>1
      <3>3. PICK i \in 1 .. Len(que) : tail.ptr = que[i]
        BY <1>1, <2>1, RangeElements
      <3>4. i # Len(que) /\ que[i + 1] = que[Len(que)]
        BY <1>1, <2>4, <3>2, <3>3 DEF IsChain, Successor
      <3>5. i + 1 \in 1 .. Len(que) /\ Len(que) \in 1 .. Len(que)
        BY <2>2, <3>3, <3>4
      <3>6. i + 1 = Len(que)
        BY <1>1, <3>4, <3>5 DEF IsChain
      <3>7. i = Len(que) - 1 /\ Len(que) > 1
        BY <2>2, <3>3, <3>6
      <3> QED
        BY <2>1, <2>2, <3>1, <3>3, <3>7
    <2> QED
      BY <2>3, <2>4
  <1> QED
    BY <1>1, <1>2 DEF QueueIntact

\* The links from head_ on are the nodes that were enqueued and not dequeued,
\* and tail_ is never more than one node behind: it cannot fall behind head_
\* onto a node that may be reused (fifo.hpp:156-243).
THEOREM AlwaysQueueIntact == FifoSpec => []QueueIntact
  BY FifoInvariantHolds, InvIntact, PTL

\* Every node that the pool has handed out is in the queue or with one
\* enqueue.
LEMMA InvOwnsUsed == FifoInv => QueueOwnsUsed
  BY DEF FifoInv, NodesPlaced, QueueOwnsUsed, Hand

\* No node is lost and none is in two places, whatever the threads do
\* (fifo.hpp:149-282).
THEOREM AlwaysQueueOwnsUsed == FifoSpec => []QueueOwnsUsed
  BY FifoInvariantHolds, InvOwnsUsed, PTL

\* After head == head2 dequeue finds a null next_ptr only at the last node.
LEMMA InvNullNotObserved == FifoInv => NullNotObserved
  BY DEF FifoInv, HeadSnapshot, NullNotObserved, HeadSame

\* The test for a null pointer that dequeue makes after head == head2 is never
\* needed (fifo.hpp:229-235).
THEOREM AlwaysNullNotObserved == FifoSpec => []NullNotObserved
  BY FifoInvariantHolds, InvNullNotObserved, PTL

\* ~fifo leaves no value behind although empty() only compares head_ with
\* tail_ (fifo.hpp:123-140).
THEOREM AlwaysClosedEmpty == FifoSpec => []ClosedEmpty
  BY FifoInvariantHolds, InvClosedEmpty, PTL

\* The fifo uses its pool as the pool may be used, so every theorem about the
\* freelist holds for the pool inside the fifo (fifo.hpp:149-282,
\* freelist.hpp:79-195).
THEOREM FifoUsesPool == FifoSpec => LawfulUser
  <1>1. FifoInit => Init
    BY DEF FifoInit
  <1> QED
    BY <1>1, FifoInvariantHolds, FifoStepIsPoolStep, PTL DEF FifoSpec, Spec, LawfulUser

\* The pool inside a fifo is the abstract pool.  An enqueue that returns false
\* ends the allocate of that enqueue without a node, so at some moment since the
\* call the pool was empty, and one that may grow had no memory left
\* (fifo.hpp:151-154, freelist.hpp:117-127).
THEOREM FifoPoolIsPool == FifoSpec => PoolSpec
  BY FifoUsesPool, FreelistIsPool, PTL DEF LawfulUser

-----------------------------------------------------------------------------
(* The values behind the dummy node *)

\* What the nodes of the list s hold after the first one.
Behind(f, s) == [i \in 1 .. Len(s) - 1 |-> f[s[i + 1]]]

\* These values are a sequence, one shorter than the list.
LEMMA BehindType ==
    ASSUME NEW V, NEW f \in [Nodes -> V], NEW s \in Seq(Nodes), s # <<>>
    PROVE  /\ Len(s) \in Nat \ {0}
           /\ Behind(f, s) \in Seq(V) /\ Len(Behind(f, s)) = Len(s) - 1
           /\ \A i \in 1 .. Len(s) - 1 : Behind(f, s)[i] = f[s[i + 1]]
  <1>1. Len(s) \in Nat \ {0} /\ Len(s) - 1 \in Nat
    BY TailElements
  <1>2. \A i \in 1 .. Len(s) - 1 : f[s[i + 1]] \in V
    <2> SUFFICES ASSUME NEW i \in 1 .. Len(s) - 1 PROVE f[s[i + 1]] \in V
      OBVIOUS
    <2>1. i + 1 \in 1 .. Len(s)
      BY <1>1
    <2> QED
      BY <2>1, ElementOfSeq
  <1> QED
    BY <1>1, <1>2 DEF Behind

\* A list with at most one node has no values behind it.
LEMMA BehindEmpty ==
    ASSUME NEW f, NEW s \in Seq(Nodes), Len(s) \in {0, 1}
    PROVE  Behind(f, s) = <<>>
  <1>1. \A k \in {0, 1} : 1 .. k - 1 = 1 .. 0
    OBVIOUS
  <1>2. 1 .. Len(s) - 1 = 1 .. 0
    BY <1>1
  <1>3. Behind(f, s) = [i \in 1 .. 0 |-> f[s[i + 1]]]
    BY <1>2 DEF Behind
  <1>4. \A i \in 1 .. 0 : f[s[i + 1]] \in Nodes
    OBVIOUS
  <1>5. Behind(f, s) \in Seq(Nodes) /\ Len(Behind(f, s)) = 0
    BY <1>3, <1>4
  <1> QED
    BY <1>5, EmptySeq

\* BehindType in one word.
ListsBehind(V, f, s, b) ==
    /\ b \in Seq(V) /\ Len(b) = Len(s) - 1
    /\ \A i \in 1 .. Len(s) - 1 : b[i] = f[s[i + 1]]

\* The values behind the first node are such a list.
LEMMA BehindLists ==
    ASSUME NEW V, NEW f \in [Nodes -> V], NEW s \in Seq(Nodes), s # <<>>
    PROVE  ListsBehind(V, f, s, Behind(f, s))
  BY BehindType DEF ListsBehind

\* A list with a new last node has its value at the end.
LEMMA BehindAppend ==
    ASSUME NEW V, NEW f \in [Nodes -> V], NEW s \in Seq(Nodes), s # <<>>, NEW n \in Nodes
    PROVE  Behind(f, Append(s, n)) = Append(Behind(f, s), f[n])
  <1> DEFINE q == Append(s, n)
             b == Behind(f, s)
             d == Append(b, f[n])
             e == Behind(f, q)
  <1>1. /\ q \in Seq(Nodes) /\ q # <<>> /\ Len(q) = Len(s) + 1 /\ q[Len(s) + 1] = n
        /\ \A i \in 1 .. Len(s) : q[i] = s[i]
    BY AppendElements
  <1>2. /\ Len(s) \in Nat \ {0} /\ b \in Seq(V) /\ Len(b) = Len(s) - 1
        /\ \A i \in 1 .. Len(s) - 1 : b[i] = f[s[i + 1]]
    <2>1. ListsBehind(V, f, s, b)
      BY BehindLists
    <2>2. Len(s) \in Nat \ {0}
      BY EmptySeq
    <2> HIDE DEF b
    <2> QED
      BY <2>1, <2>2 DEF ListsBehind
  <1> HIDE DEF q, b
  <1>3. e \in Seq(V) /\ Len(e) = Len(s) /\ \A i \in 1 .. Len(s) : e[i] = f[q[i + 1]]
    <2>1. e \in Seq(V) /\ Len(e) = Len(q) - 1 /\ \A i \in 1 .. Len(q) - 1 : e[i] = f[q[i + 1]]
      <3>1. q \in Seq(Nodes) /\ q # <<>>
        BY <1>1
      <3>2. ListsBehind(V, f, q, e)
        BY <3>1, BehindLists
      <3> QED
        BY <3>2 DEF ListsBehind
    <2>2. Len(q) - 1 = Len(s)
      BY <1>1, <1>2
    <2> QED
      BY <2>1, <2>2
  <1>4. /\ d \in Seq(V) /\ Len(d) = Len(s) /\ d[Len(s)] = f[n]
        /\ \A i \in 1 .. Len(s) - 1 : d[i] = b[i]
    <2>1. f[n] \in V
      OBVIOUS
    <2>2. /\ d \in Seq(V) /\ Len(d) = Len(b) + 1 /\ d[Len(b) + 1] = f[n]
          /\ \A i \in 1 .. Len(b) : d[i] = b[i]
      BY <1>2, <2>1, AppendElements
    <2>3. Len(b) + 1 = Len(s)
      BY <1>2
    <2> QED
      BY <1>2, <2>2, <2>3
  <1> HIDE DEF d, e
  <1>5. ASSUME NEW i \in 1 .. Len(s) PROVE e[i] = d[i]
    <2>1. CASE i = Len(s)
      BY <1>1, <1>3, <1>4, <2>1
    <2>2. CASE i # Len(s)
      <3>1. i \in 1 .. Len(s) - 1 /\ i + 1 \in 1 .. Len(s)
        BY <1>2, <2>2
      <3> QED
        BY <1>1, <1>2, <1>3, <1>4, <3>1
    <2> QED
      BY <2>1, <2>2
  <1>6. e = d
    BY <1>3, <1>4, <1>5, SeqEqual
  <1> QED
    BY <1>6 DEF q, b, d, e

\* Without its first node a list has lost the first value behind it.
LEMMA BehindTail ==
    ASSUME NEW V, NEW f \in [Nodes -> V], NEW s \in Seq(Nodes), s # <<>>, Len(s) # 1
    PROVE  /\ Behind(f, Tail(s)) = Tail(Behind(f, s))
           /\ Behind(f, s) # <<>>
           /\ Behind(f, s)[1] = f[s[2]]
  <1> DEFINE r == Tail(s)
             b == Behind(f, s)
             d == Tail(b)
             e == Behind(f, r)
  <1>0. \A k \in Nat \ {0} : k # 1 => k > 1 /\ k - 1 \in Nat \ {0} /\ k - 2 \in Nat
    OBVIOUS
  <1>1. /\ Len(s) \in Nat \ {0} /\ r \in Seq(Nodes) /\ Len(r) = Len(s) - 1
        /\ \A i \in 1 .. Len(s) - 1 : r[i] = s[i + 1]
    BY TailElements
  <1>2. Len(s) > 1 /\ Len(s) - 1 \in Nat \ {0} /\ Len(s) - 2 \in Nat
    BY <1>0, <1>1
  <1>3. /\ b \in Seq(V) /\ Len(b) = Len(s) - 1
        /\ \A i \in 1 .. Len(s) - 1 : b[i] = f[s[i + 1]]
    <2>1. ListsBehind(V, f, s, b)
      BY BehindLists
    <2> HIDE DEF b
    <2> QED
      BY <2>1 DEF ListsBehind
  <1> HIDE DEF r, b
  <1>4. r # <<>> /\ b # <<>>
    BY <1>1, <1>2, <1>3, EmptySeq
  <1>5. /\ e \in Seq(V) /\ Len(e) = Len(s) - 2
        /\ \A i \in 1 .. Len(s) - 2 : e[i] = f[r[i + 1]]
    <2>1. /\ e \in Seq(V) /\ Len(e) = Len(r) - 1
          /\ \A i \in 1 .. Len(r) - 1 : e[i] = f[r[i + 1]]
      <3>1. r \in Seq(Nodes) /\ r # <<>>
        BY <1>1, <1>4
      <3>2. ListsBehind(V, f, r, e)
        BY <3>1, BehindLists
      <3> QED
        BY <3>2 DEF ListsBehind
    <2>2. Len(r) - 1 = Len(s) - 2
      BY <1>1, <1>2
    <2> QED
      BY <2>1, <2>2
  <1>6. /\ d \in Seq(V) /\ Len(d) = Len(s) - 2
        /\ \A i \in 1 .. Len(s) - 2 : d[i] = b[i + 1]
    <2>1. /\ d \in Seq(V) /\ Len(d) = Len(b) - 1
          /\ \A i \in 1 .. Len(b) - 1 : d[i] = b[i + 1]
      BY <1>3, <1>4, TailElements
    <2>2. Len(b) - 1 = Len(s) - 2
      BY <1>1, <1>3
    <2> QED
      BY <2>1, <2>2
  <1> HIDE DEF d, e
  <1>7. ASSUME NEW i \in 1 .. Len(s) - 2 PROVE e[i] = d[i]
    <2>1. i + 1 \in 1 .. Len(s) - 1
      BY <1>1, <1>2
    <2>2. e[i] = f[r[i + 1]] /\ d[i] = b[i + 1]
      BY <1>5, <1>6
    <2>3. b[i + 1] = f[s[(i + 1) + 1]] /\ r[i + 1] = s[(i + 1) + 1]
      BY <1>1, <1>3, <2>1
    <2> QED
      BY <2>2, <2>3
  <1>8. e = d
    BY <1>5, <1>6, <1>7, SeqEqual
  <1>9. b[1] = f[s[2]]
    <2>1. 1 \in 1 .. Len(s) - 1 /\ 1 + 1 = 2
      BY <1>1, <1>2
    <2> QED
      BY <1>3, <2>1
  <1> QED
    BY <1>4, <1>8, <1>9 DEF r, b, d, e

\* The values stay as long as the nodes of the list keep theirs.
LEMMA BehindFrame ==
    ASSUME NEW s \in Seq(Nodes), s # <<>>, NEW f, NEW g, \A n \in Range(s) : g[n] = f[n]
    PROVE  Behind(g, s) = Behind(f, s)
  <1>1. Len(s) \in Nat \ {0}
    BY TailElements
  <1>2. \A i \in 1 .. Len(s) : s[i] \in Range(s)
    BY RangeElements
  <1>3. \A i \in 1 .. Len(s) - 1 : i + 1 \in 1 .. Len(s)
    BY <1>1
  <1> QED
    BY <1>2, <1>3 DEF Behind

-----------------------------------------------------------------------------
(* The fifo implements AtomicQueue. *)

\* Where the users see an operation that is at each label.
LEMMA StatusOf ==
    /\ \A l \in {"idle", "r_pool", "u_link"} : FifoStatus(l) = "none"
    /\ \A l \in {"e_pool", "e_tail", "e_next", "e_check", "e_link", "e_help"} :
            FifoStatus(l) = "enqueue"
    /\ FifoStatus("e_done") = "enqueued"
    /\ FifoStatus("d_pool") = "dequeued"
    /\ \A l \in {"d_head", "d_tail", "d_next", "d_check", "d_help", "d_data", "d_cas"} :
            FifoStatus(l) = "dequeue"
  BY DEF FifoStatus

\* The call and the value of thread t after one of its steps.
LEMMA AbsBecomes ==
    ASSUME NEW t \in Threads, NEW l, NEW v,
           \A u \in Threads \ {t} : fpc'[u] = fpc[u] /\ fval'[u] = fval[u],
           FifoStatus(fpc'[t]) = l,
           IF Dequeueing(t)' THEN v = NoVal ELSE v = fval'[t]
    PROVE  Abs!Become(t, l, v)
  <1>1. \A u \in Threads \ {t} : AbsCall'[u] = AbsCall[u] /\ AbsArg'[u] = AbsArg[u]
    BY DEF AbsCall, AbsArg, Dequeueing
  <1>2. AbsCall'[t] = l /\ AbsArg'[t] = v
    BY DEF AbsCall, AbsArg
  <1>3. AbsCall' = [AbsCall EXCEPT ![t] = l]
    BY <1>1, <1>2 DEF AbsCall
  <1>4. AbsArg' = [AbsArg EXCEPT ![t] = v]
    BY <1>1, <1>2 DEF AbsArg
  <1> QED
    BY <1>3, <1>4 DEF Abs!Become

\* A step of thread t that the users do not see.
LEMMA AbsStutters ==
    ASSUME NEW t \in Threads,
           \A u \in Threads \ {t} : fpc'[u] = fpc[u] /\ fval'[u] = fval[u],
           FifoStatus(fpc'[t]) = FifoStatus(fpc[t]),
           Dequeueing(t)' = Dequeueing(t), Dequeueing(t) \/ fval'[t] = fval[t],
           AbsQueue' = AbsQueue, seen' = seen
    PROVE  [Abs!Next]_(Abs!vars)
  <1>1. \A u \in Threads : AbsCall'[u] = AbsCall[u] /\ AbsArg'[u] = AbsArg[u]
    BY DEF AbsCall, AbsArg, Dequeueing
  <1>2. AbsCall' = AbsCall /\ AbsArg' = AbsArg
    BY <1>1 DEF AbsCall, AbsArg
  <1> QED
    BY <1>2 DEF Abs!vars

\* The values of the queue, and when there are none.
LEMMA AbsQueueFacts ==
    ASSUME FifoInv, que # <<>>
    PROVE  /\ AbsQueue = Behind(data, que)
           /\ AbsQueue = <<>> <=> Len(que) = 1
           /\ que \in Seq(Nodes) /\ data \in [Nodes -> Values \cup {NoVal}]
           /\ Len(que) # 1 =>
                /\ Behind(data, Tail(que)) = Tail(AbsQueue)
                /\ AbsQueue # <<>>
                /\ AbsQueue[1] = data[que[2]]
  <1>1. AbsQueue = Behind(data, que)
    BY DEF AbsQueue, Behind
  <1>2. que \in Seq(Nodes) /\ data \in [Nodes -> Values \cup {NoVal}]
    BY DEF FifoInv, FifoTypeOK
  <1>3. Len(que) # 1 =>
            /\ Behind(data, Tail(que)) = Tail(AbsQueue)
            /\ AbsQueue # <<>>
            /\ AbsQueue[1] = data[que[2]]
    BY <1>1, <1>2, BehindTail
  <1>4. Len(que) = 1 => AbsQueue = <<>>
    BY <1>1, <1>2, BehindEmpty
  <1> QED
    BY <1>1, <1>2, <1>3, <1>4

\* The calls and the steps of enqueue.
LEMMA EnqueueRefines ==
    ASSUME FifoInv, NEW t \in Threads,
           \/ Enqueue(t) \/ EnqFail(t) \/ EnqNew(t) \/ EnqTail(t) \/ EnqNext(t)
           \/ EnqCheck(t) \/ EnqLink(t) \/ EnqRetry(t) \/ EnqHelp(t) \/ EnqDone(t)
    PROVE  [Abs!Next]_(Abs!vars)
  <1> USE DEF FifoInv
  <1>1. \A u \in Threads \ {t} : fpc'[u] = fpc[u] /\ fval'[u] = fval[u]
    BY DEF Enqueue, EnqFail, EnqNew, EnqTail, EnqNext, EnqCheck, EnqLink, EnqRetry, EnqHelp,
           EnqDone, Again, FReturn, FGoto, FifoTypeOK
  <1>2. AbsCall[t] = FifoStatus(fpc[t]) /\ AbsArg[t] = IF Dequeueing(t) THEN NoVal ELSE fval[t]
    BY DEF AbsCall, AbsArg
  <1>3. CASE Enqueue(t)
    <2>1. PICK v \in Values : fval' = [fval EXCEPT ![t] = v]
      BY <1>3 DEF Enqueue
    <2>2. /\ fpc[t] = "idle" /\ fpc'[t] = "e_pool" /\ fval'[t] = v
          /\ UNCHANGED <<que, data, seen>>
      BY <1>3, <2>1 DEF Enqueue, Ready, FGoto, FifoTypeOK
    <2>3. Abs!Become(t, "enqueue", v)
      BY <1>1, <2>2, AbsBecomes, StatusOf DEF Dequeueing
    <2>4. AbsCall[t] = "none" /\ AbsQueue' = AbsQueue
      BY <1>2, <2>2, StatusOf DEF AbsQueue
    <2>5. Abs!CallEnqueue(t)
      BY <2>2, <2>3, <2>4 DEF Abs!CallEnqueue
    <2> QED
      BY <2>5 DEF Abs!Next
  <1>4. CASE EnqFail(t) \/ EnqDone(t)
    <2>1. /\ fpc[t] \in {"e_pool", "e_done"} /\ fpc'[t] = "idle" /\ fval'[t] = NoVal
          /\ UNCHANGED <<que, data, seen>>
      BY <1>4 DEF EnqFail, EnqDone, FReturn, FGoto, FifoTypeOK
    <2>2. Abs!Become(t, "none", NoVal)
      BY <1>1, <2>1, AbsBecomes, StatusOf DEF Dequeueing
    <2>3. AbsCall[t] \in {"enqueue", "enqueued"} /\ AbsQueue' = AbsQueue
      BY <1>2, <2>1, StatusOf DEF AbsQueue
    <2>4. Abs!ReturnEnqueue(t)
      BY <2>1, <2>2, <2>3 DEF Abs!ReturnEnqueue
    <2> QED
      BY <2>4 DEF Abs!Next
  <1>5. CASE EnqNew(t)
    <2>1. /\ fpc[t] = "e_pool" /\ fpc'[t] = "e_tail" /\ fval' = fval
          /\ UNCHANGED <<que, seen>>
          /\ data' = [data EXCEPT ![node[t]] = fval[t]]
      BY <1>5 DEF EnqNew, FGoto, FifoTypeOK
    <2>2. node[t] \in Nodes /\ node[t] \notin used
      BY <1>5 DEF EnqNew, AllocNew, IInv, OneOwner, Carrying
    <2>3. que # <<>>
      BY <2>1, Inside
    <2>4. \A n \in Range(que) : data'[n] = data[n]
      BY <2>1, <2>2, <2>3, QueueFacts DEF FifoTypeOK
    <2>5. Behind(data', que) = Behind(data, que)
      BY <2>3, <2>4, BehindFrame DEF FifoTypeOK
    <2>6. AbsQueue' = AbsQueue
      BY <2>1, <2>5 DEF AbsQueue, Behind
    <2>7. FifoStatus(fpc'[t]) = FifoStatus(fpc[t]) /\ Dequeueing(t)' = Dequeueing(t)
      BY <2>1, StatusOf DEF Dequeueing
    <2> QED
      BY <1>1, <2>1, <2>6, <2>7, AbsStutters
  <1>6. CASE EnqTail(t) \/ EnqNext(t) \/ EnqCheck(t) \/ EnqRetry(t) \/ EnqHelp(t)
    <2>1. /\ fpc[t] \in {"e_tail", "e_next", "e_check", "e_link", "e_help"}
          /\ fpc'[t] \in {"e_tail", "e_next", "e_check", "e_link", "e_help"}
          /\ fval' = fval /\ UNCHANGED <<que, data, seen>>
      BY <1>6 DEF EnqTail, EnqNext, EnqCheck, EnqRetry, EnqHelp, Again, FGoto, FifoTypeOK
    <2>2. AbsQueue' = AbsQueue
      BY <2>1 DEF AbsQueue
    <2>3. FifoStatus(fpc'[t]) = FifoStatus(fpc[t]) /\ Dequeueing(t)' = Dequeueing(t)
      BY <2>1, StatusOf DEF Dequeueing
    <2> QED
      BY <1>1, <2>1, <2>2, <2>3, AbsStutters
  <1>7. CASE EnqLink(t)
    <2>1. /\ fpc[t] = "e_link" /\ fpc'[t] = "e_done" /\ fval'[t] = NoVal
          /\ UNCHANGED <<data, seen>> /\ que' = Append(que, fnode[t])
      BY <1>7 DEF EnqLink, FGoto, FifoTypeOK
    <2>2. que # <<>> /\ fnode[t] \in Nodes
      BY <2>1, Inside DEF NodesPlaced, Linking, IInv, TypeOK
    <2>3. Behind(data, que') = Append(Behind(data, que), data[fnode[t]])
      BY <2>1, <2>2, AbsQueueFacts, BehindAppend
    <2>4. AbsQueue' = Append(AbsQueue, data[fnode[t]])
      BY <2>1, <2>3 DEF AbsQueue, Behind
    <2>5. AbsCall[t] = "enqueue" /\ AbsArg[t] = data[fnode[t]]
      BY <1>2, <2>1, StatusOf DEF Dequeueing, ValuePlace
    <2>6. Abs!Become(t, "enqueued", NoVal)
      BY <1>1, <2>1, AbsBecomes, StatusOf DEF Dequeueing
    <2>7. Abs!Enqueue(t)
      BY <2>1, <2>4, <2>5, <2>6 DEF Abs!Enqueue
    <2> QED
      BY <2>7 DEF Abs!Next
  <1> QED
    BY <1>3, <1>4, <1>5, <1>6, <1>7

\* The calls and the steps of dequeue, and reserve.
LEMMA DequeueRefines ==
    ASSUME FifoInv, NEW t \in Threads,
           \/ Dequeue(t) \/ DeqHead(t) \/ DeqTail(t) \/ DeqNext(t) \/ DeqFail(t)
           \/ DeqCheck(t) \/ DeqHelp(t) \/ DeqData(t) \/ DeqCAS(t) \/ DeqRetry(t)
           \/ FifoReserve(t) \/ PoolReturn(t)
    PROVE  [Abs!Next]_(Abs!vars)
  <1> USE DEF FifoInv
  <1>1. \A u \in Threads \ {t} : fpc'[u] = fpc[u] /\ fval'[u] = fval[u]
    BY DEF Dequeue, DeqHead, DeqTail, DeqNext, DeqFail, DeqCheck, DeqHelp, DeqData, DeqCAS,
           DeqRetry, FifoReserve, PoolReturn, Again, FReturn, FGoto, FifoTypeOK
  <1>2. AbsCall[t] = FifoStatus(fpc[t]) /\ AbsArg[t] = IF Dequeueing(t) THEN NoVal ELSE fval[t]
    BY DEF AbsCall, AbsArg
  <1>3. CASE Dequeue(t)
    <2>1. /\ phase = "open" /\ fpc[t] = "idle" /\ fpc'[t] = "d_head"
          /\ UNCHANGED <<que, data>>
          /\ seen' = [seen EXCEPT ![t] = (Len(que) = 1)]
      BY <1>3 DEF Dequeue, Ready, FGoto, FifoTypeOK
    <2>2. AbsQueue = <<>> <=> Len(que) = 1
      BY <2>1, TailFacts, AbsQueueFacts
    <2>3. Abs!Become(t, "dequeue", NoVal)
      BY <1>1, <2>1, AbsBecomes, StatusOf DEF Dequeueing
    <2>4. AbsCall[t] = "none" /\ AbsQueue' = AbsQueue
      BY <1>2, <2>1, StatusOf DEF AbsQueue
    <2>5. seen' = [seen EXCEPT ![t] = (AbsQueue = <<>>)]
      BY <2>1, <2>2
    <2>6. Abs!CallDequeue(t)
      BY <2>3, <2>4, <2>5 DEF Abs!CallDequeue
    <2> QED
      BY <2>6 DEF Abs!Next
  <1>4. CASE \/ DeqHead(t) \/ DeqTail(t) \/ DeqNext(t) \/ DeqCheck(t) \/ DeqHelp(t)
             \/ DeqData(t) \/ DeqRetry(t)
    <2>1. /\ Dequeueing(t) /\ Dequeueing(t)' /\ UNCHANGED <<que, data, seen>>
      BY <1>4 DEF DeqHead, DeqTail, DeqNext, DeqCheck, DeqHelp, DeqData, DeqRetry, Again, FGoto,
                  FifoTypeOK, Dequeueing
    <2>2. AbsQueue' = AbsQueue
      BY <2>1 DEF AbsQueue
    <2>3. FifoStatus(fpc'[t]) = FifoStatus(fpc[t]) /\ Dequeueing(t)' = Dequeueing(t)
      BY <2>1, StatusOf DEF Dequeueing
    <2> QED
      BY <1>1, <2>1, <2>2, <2>3, AbsStutters
  <1>5. CASE DeqFail(t)
    <2>1. /\ fpc[t] = "d_check" /\ fpc'[t] = "idle" /\ fval'[t] = NoVal
          /\ head = fhead[t] /\ fnext[t].ptr = NULL
          /\ UNCHANGED <<que, data>>
          /\ seen' = [seen EXCEPT ![t] = FALSE]
      BY <1>5 DEF DeqFail, HeadSame, FReturn, FGoto, FifoTypeOK
    <2>2. seen[t]
      BY <2>1 DEF HeadSnapshot
    <2>3. Abs!Become(t, "none", NoVal)
      BY <1>1, <2>1, AbsBecomes, StatusOf DEF Dequeueing
    <2>4. AbsCall[t] = "dequeue" /\ AbsQueue' = AbsQueue
      BY <1>2, <2>1, StatusOf DEF AbsQueue
    <2>5. Abs!ReturnEmpty(t)
      BY <2>1, <2>2, <2>3, <2>4 DEF Abs!ReturnEmpty
    <2> QED
      BY <2>5 DEF Abs!Next
  <1>6. CASE DeqCAS(t)
    <2>1. /\ fpc[t] = "d_cas" /\ head = fhead[t] /\ fpc'[t] = "d_pool" /\ fval' = fval
          /\ que' = Tail(que) /\ seen' = Emptied(t)
          /\ data' = [data EXCEPT ![head.ptr] = NoVal]
      BY <1>6 DEF DeqCAS, Again, FGoto, FifoTypeOK
    <2>2. que # <<>>
      BY <2>1, Inside
    <2>3. fnext[t].ptr = next[head.ptr] /\ fnext[t].ptr # NULL /\ fval[t] = data[fnext[t].ptr]
      BY <2>1, NullAssumption DEF HeadSnapshot, FollowsNodes
    <2>4. /\ Len(que) \in Nat \ {0} /\ Len(que) # 1 /\ fnext[t].ptr = que[2]
          /\ Tail(que) \in Seq(Nodes) /\ Range(Tail(que)) = Range(que) \ {head.ptr}
          /\ \A n \in Range(que) : n \in Nodes
      BY <2>2, <2>3, QueueFacts
    <2>5. /\ Behind(data, Tail(que)) = Tail(AbsQueue)
          /\ AbsQueue # <<>> /\ AbsQueue[1] = fval[t]
      BY <2>2, <2>3, <2>4, AbsQueueFacts
    <2>6. Tail(que) # <<>> /\ (Behind(data, Tail(que)) = <<>> <=> Len(que) = 2)
      <3>1. \A k \in Nat \ {0} : k # 1 => k - 1 # 0 /\ (k - 1 = 1 <=> k = 2)
        OBVIOUS
      <3>2. que \in Seq(Nodes) /\ data \in [Nodes -> Values \cup {NoVal}]
        BY DEF FifoTypeOK
      <3>3. Len(Tail(que)) = Len(que) - 1
        BY <2>2, <3>2, TailElements
      <3>4. Tail(que) # <<>>
        BY <2>4, <3>1, <3>3
      <3>5. Len(Tail(que)) = 1 => Behind(data, Tail(que)) = <<>>
        BY <2>4, BehindEmpty
      <3>6. Len(Tail(que)) # 1 => Behind(data, Tail(que)) # <<>>
        BY <2>4, <3>2, <3>4, BehindTail
      <3> QED
        BY <2>4, <3>1, <3>3, <3>4, <3>5, <3>6
    <2>7. Behind(data', Tail(que)) = Behind(data, Tail(que))
      <3>1. \A n \in Range(Tail(que)) : data'[n] = data[n]
        BY <2>1, <2>4 DEF FifoTypeOK
      <3> QED
        BY <2>4, <2>6, <3>1, BehindFrame
    <2>8. AbsQueue' = Tail(AbsQueue) /\ (AbsQueue' = <<>> <=> Len(que) = 2)
      <3>1. AbsQueue' = Behind(data', Tail(que))
        BY <2>1 DEF AbsQueue, Behind
      <3> QED
        BY <2>5, <2>6, <2>7, <3>1
    <2>9. \A u \in Threads : Dequeueing(u) <=> AbsCall[u] = "dequeue"
      <3>1. \A u \in Threads : AbsCall[u] = FifoStatus(fpc[u]) /\ fpc[u] \in FifoLabels
        BY DEF AbsCall, FifoTypeOK
      <3> QED
        BY <3>1, StatusOf DEF Dequeueing, FifoLabels
    <2>10. seen' = [u \in Threads |->
                        u # t /\ (seen[u] \/ (AbsCall[u] = "dequeue" /\ AbsQueue' = <<>>))]
      <3>1. \A u \in Threads :
                (u # t /\ (seen[u] \/ (Len(que) = 2 /\ Dequeueing(u))))
                    <=> (u # t /\ (seen[u] \/ (AbsCall[u] = "dequeue" /\ AbsQueue' = <<>>)))
        BY <2>8, <2>9
      <3> QED
        BY <2>1, <3>1 DEF Emptied, Dequeueing
    <2>11. Abs!Become(t, "dequeued", AbsQueue[1])
      BY <1>1, <2>1, <2>5, AbsBecomes, StatusOf DEF Dequeueing
    <2>12. AbsCall[t] = "dequeue"
      BY <1>2, <2>1, StatusOf
    <2>13. Abs!Dequeue(t)
      BY <2>5, <2>8, <2>10, <2>11, <2>12 DEF Abs!Dequeue
    <2> QED
      BY <2>13 DEF Abs!Next
  <1>7. CASE FifoReserve(t)
    <2>1. /\ fpc[t] = "idle" /\ fpc'[t] = "r_pool" /\ UNCHANGED <<que, data, seen, fval>>
      BY <1>7 DEF FifoReserve, Ready, FGoto, FifoTypeOK
    <2>2. AbsQueue' = AbsQueue
      BY <2>1 DEF AbsQueue
    <2>3. FifoStatus(fpc'[t]) = FifoStatus(fpc[t]) /\ Dequeueing(t)' = Dequeueing(t)
      BY <2>1, StatusOf DEF Dequeueing
    <2> QED
      BY <1>1, <2>1, <2>2, <2>3, AbsStutters
  <1>8. CASE PoolReturn(t)
    <2>1. /\ fpc[t] \in {"d_pool", "r_pool"} /\ fpc'[t] = "idle" /\ fval'[t] = NoVal
          /\ UNCHANGED <<que, data, seen>>
      BY <1>8 DEF PoolReturn, FReturn, FGoto, FifoTypeOK
    <2>2. AbsQueue' = AbsQueue
      BY <2>1 DEF AbsQueue
    <2>3. CASE fpc[t] = "d_pool"
      <3>1. AbsCall[t] = "dequeued"
        BY <1>2, <2>3, StatusOf
      <3>2. Abs!Become(t, "none", NoVal)
        BY <1>1, <2>1, AbsBecomes, StatusOf DEF Dequeueing
      <3>3. Abs!ReturnValue(t)
        BY <2>1, <2>2, <3>1, <3>2 DEF Abs!ReturnValue
      <3> QED
        BY <3>3 DEF Abs!Next
    <2>4. CASE fpc[t] = "r_pool"
      <3>1. FifoStatus(fpc'[t]) = FifoStatus(fpc[t]) /\ Dequeueing(t)' = Dequeueing(t)
        BY <2>1, <2>4, StatusOf DEF Dequeueing
      <3>2. fval[t] = NoVal
        BY <2>4 DEF ValuePlace
      <3> QED
        BY <1>1, <2>1, <2>2, <3>1, <3>2, AbsStutters
    <2> QED
      BY <2>1, <2>3, <2>4
  <1> QED
    BY <1>3, <1>4, <1>5, <1>6, <1>7, <1>8

\* The operations that run alone, the constructor and the destructor.
LEMMA AloneRefines ==
    ASSUME FifoInv,
           \/ \E t \in Threads : EnqueueUnsafe(t) \/ LinkUnsafe(t)
           \/ DequeueUnsafe \/ FifoReserveUnsafe \/ Initialize
           \/ Close \/ Drained \/ CloseDummy \/ ClosePool \/ Reopen
    PROVE  [Abs!Next]_(Abs!vars)
  <1> USE DEF FifoInv
  <1>1. ASSUME AbsQueue' = AbsQueue, UNCHANGED <<fpc, fval, seen>>
        PROVE  [Abs!Next]_(Abs!vars)
    <2>1. AbsCall' = AbsCall /\ AbsArg' = AbsArg
      BY <1>1 DEF AbsCall, AbsArg, Dequeueing
    <2> QED
      BY <1>1, <2>1 DEF Abs!vars
  <1>2. ASSUME NEW t \in Threads, EnqueueUnsafe(t) PROVE [Abs!Next]_(Abs!vars)
    <2>1. PICK n \in used' \ used, v \in Values : data' = [data EXCEPT ![n] = v]
      BY <1>2 DEF EnqueueUnsafe
    <2>2. /\ phase = "open" /\ fpc[t] = "idle" /\ fpc'[t] = "u_link"
          /\ \A u \in Threads \ {t} : fpc'[u] = fpc[u] /\ fval'[u] = fval[u]
          /\ UNCHANGED <<que, seen, fval>>
      BY <1>2 DEF EnqueueUnsafe, FIdle, FGoto, FifoTypeOK
    <2>3. que # <<>>
      BY <2>2, TailFacts
    <2>4. \A m \in Range(que) : data'[m] = data[m]
      BY <2>1, <2>3, QueueFacts DEF FifoTypeOK
    <2>5. Behind(data', que) = Behind(data, que)
      BY <2>3, <2>4, BehindFrame DEF FifoTypeOK
    <2>6. AbsQueue' = AbsQueue
      BY <2>2, <2>5 DEF AbsQueue, Behind
    <2>7. FifoStatus(fpc'[t]) = FifoStatus(fpc[t]) /\ Dequeueing(t)' = Dequeueing(t)
      BY <2>2, StatusOf DEF Dequeueing
    <2> QED
      BY <2>2, <2>6, <2>7, AbsStutters
  <1>3. ASSUME NEW t \in Threads, LinkUnsafe(t) PROVE [Abs!Next]_(Abs!vars)
    <2>1. /\ fpc[t] = "u_link" /\ phase = "open" /\ fval[t] = NoVal
          /\ data[fnode[t]] \in Values /\ fnode[t] \in Nodes
          /\ \A u \in Threads \ {t} : fpc[u] = "idle"
      BY <1>3 DEF LinkUnsafe, FifoLife, ValuePlace, NodesPlaced, Linking, IInv, TypeOK
    <2>2. /\ fpc'[t] = "idle" /\ fval'[t] = NoVal
          /\ \A u \in Threads \ {t} : fpc'[u] = fpc[u] /\ fval'[u] = fval[u]
          /\ que' = Append(que, fnode[t]) /\ UNCHANGED <<data, seen>>
      BY <1>3 DEF LinkUnsafe, FReturn, FGoto, FifoTypeOK
    <2>3. que # <<>>
      BY <2>1, TailFacts
    <2>4. Behind(data, que') = Append(Behind(data, que), data[fnode[t]])
      BY <2>1, <2>2, <2>3, AbsQueueFacts, BehindAppend
    <2>5. AbsQueue' = Append(AbsQueue, data[fnode[t]])
      BY <2>2, <2>4 DEF AbsQueue, Behind
    <2>6. \A u \in Threads :
            /\ AbsCall[u] = "none" /\ AbsCall'[u] = "none" /\ AbsArg'[u] = AbsArg[u]
      BY <2>1, <2>2, StatusOf DEF AbsCall, AbsArg, Dequeueing
    <2>7. AbsCall' = AbsCall /\ AbsArg' = AbsArg
      BY <2>6 DEF AbsCall, AbsArg
    <2>8. Abs!EnqueueAlone
      BY <2>1, <2>2, <2>5, <2>6, <2>7 DEF Abs!EnqueueAlone
    <2> QED
      BY <2>8 DEF Abs!Next
  <1>4. CASE DequeueUnsafe
    <2>1. /\ phase \in {"open", "drain"} /\ next[head.ptr] # NULL /\ que' = Tail(que)
          /\ data' = [data EXCEPT ![head.ptr] = NoVal]
          /\ UNCHANGED <<seen, fpc, fval>> /\ FIdle
      BY <1>4 DEF DequeueUnsafe, locals
    <2>2. que # <<>>
      BY <2>1, TailFacts
    <2>3. /\ Len(que) \in Nat \ {0} /\ Len(que) # 1
          /\ Tail(que) \in Seq(Nodes) /\ Range(Tail(que)) = Range(que) \ {head.ptr}
          /\ \A n \in Range(que) : n \in Nodes
      BY <2>1, <2>2, QueueFacts
    <2>4. Behind(data, Tail(que)) = Tail(AbsQueue) /\ AbsQueue # <<>>
      BY <2>2, <2>3, AbsQueueFacts
    <2>5. Tail(que) # <<>>
      <3>1. \A k \in Nat \ {0} : k # 1 => k - 1 # 0
        OBVIOUS
      <3>2. Len(Tail(que)) = Len(que) - 1
        BY <2>2, TailElements DEF FifoTypeOK
      <3> QED
        BY <2>3, <3>1, <3>2
    <2>6. Behind(data', Tail(que)) = Behind(data, Tail(que))
      <3>1. \A n \in Range(Tail(que)) : data'[n] = data[n]
        BY <2>1, <2>3 DEF FifoTypeOK
      <3> QED
        BY <2>3, <2>5, <3>1, BehindFrame
    <2>7. AbsQueue' = Tail(AbsQueue)
      <3>1. AbsQueue' = Behind(data', Tail(que))
        BY <2>1 DEF AbsQueue, Behind
      <3> QED
        BY <2>4, <2>6, <3>1
    <2>8. \A u \in Threads : AbsCall[u] = "none"
      BY <2>1, StatusOf DEF AbsCall, FIdle
    <2>9. AbsCall' = AbsCall /\ AbsArg' = AbsArg
      BY <2>1 DEF AbsCall, AbsArg, Dequeueing
    <2>10. Abs!DequeueAlone
      BY <2>1, <2>4, <2>7, <2>8, <2>9 DEF Abs!DequeueAlone
    <2> QED
      BY <2>10 DEF Abs!Next
  <1>5. CASE FifoReserveUnsafe \/ Close \/ Drained \/ ClosePool \/ Reopen
    <2>1. UNCHANGED <<que, data, seen, fpc, fval>>
      BY <1>5 DEF FifoReserveUnsafe, Close, Drained, ClosePool, Reopen, fifoVars, locals
    <2>2. AbsQueue' = AbsQueue
      BY <2>1 DEF AbsQueue
    <2> QED
      BY <1>1, <2>1, <2>2
  <1>6. CASE Initialize
    <2>1. /\ que = <<>> /\ que' = <<pool.ptr>> /\ pool.ptr \in Nodes
          /\ UNCHANGED <<seen, fpc, fval>>
      BY <1>6 DEF Initialize, ConstructUnsafe, FifoLife, locals, IInv, TypeOK, TPtr, Ptr
    <2>2. /\ que \in Seq(Nodes) /\ Len(que) \in {0, 1}
          /\ que' \in Seq(Nodes) /\ Len(que') \in {0, 1}
      BY <2>1
    <2>3. Behind(data, que) = <<>> /\ Behind(data', que') = <<>>
      BY <2>2, BehindEmpty
    <2>4. AbsQueue' = AbsQueue
      BY <2>3 DEF AbsQueue, Behind
    <2> QED
      BY <1>1, <2>1, <2>4
  <1>7. CASE CloseDummy
    <2>1. /\ phase = "close" /\ que # <<>> /\ que' = Tail(que) /\ Len(que) <= 1
          /\ UNCHANGED <<seen, fpc, fval>>
      BY <1>7 DEF CloseDummy, locals, FifoLife
    <2>2. /\ que \in Seq(Nodes) /\ Len(que) \in {0, 1}
          /\ que' \in Seq(Nodes) /\ Len(que') \in {0, 1}
      <3>1. /\ que \in Seq(Nodes) /\ Len(que) \in Nat \ {0}
            /\ que' \in Seq(Nodes) /\ Len(que') = Len(que) - 1
        BY <2>1, TailElements DEF FifoTypeOK
      <3>2. \A k \in Nat \ {0} : k <= 1 => k = 1 /\ k - 1 = 0
        OBVIOUS
      <3> QED
        BY <2>1, <3>1, <3>2
    <2>3. Behind(data, que) = <<>> /\ Behind(data', que') = <<>>
      BY <2>2, BehindEmpty
    <2>4. AbsQueue' = AbsQueue
      BY <2>3 DEF AbsQueue, Behind
    <2> QED
      BY <1>1, <2>1, <2>4
  <1> QED
    BY <1>2, <1>3, <1>4, <1>5, <1>6, <1>7

\* Every step of the fifo is a step of AtomicQueue or changes nothing in it.
LEMMA FifoStepRefines ==
    FifoInv /\ [FifoNext]_allVars => [Abs!Next]_(Abs!vars)
  <1> SUFFICES ASSUME FifoInv, [FifoNext]_allVars PROVE [Abs!Next]_(Abs!vars)
    OBVIOUS
  <1>1. ASSUME UNCHANGED fifoVars PROVE [Abs!Next]_(Abs!vars)
    BY <1>1 DEF fifoVars, AbsQueue, AbsCall, AbsArg, Dequeueing, Abs!vars
  <1>2. ASSUME NEW t \in Threads, InPool(t) PROVE UNCHANGED fifoVars
    BY <1>2 DEF InPool
  <1> QED
    BY <1>1, <1>2, EnqueueRefines, DequeueRefines, AloneRefines DEF FifoNext, FifoStep, allVars

\* The fifo is linearisable: every enqueue and dequeue takes effect at one
\* instant between its call and its return, in first-in first-out order, and
\* a dequeue that returns false met an empty queue, for any number of threads
\* and nodes and any width of the tag (fifo.hpp:149-282).
THEOREM FifoIsLinearisable == FifoSpec => FifoLinearisable
  <1>1. FifoInit => Abs!Init
    <2> SUFFICES ASSUME FifoInit PROVE Abs!Init
      OBVIOUS
    <2>1. AbsQueue = <<>>
      <3>1. que \in Seq(Nodes) /\ Len(que) \in {0, 1}
        BY DEF FifoInit
      <3> QED
        BY <3>1, BehindEmpty DEF AbsQueue, Behind
    <2>2. AbsCall = [t \in Threads |-> "none"] /\ AbsArg = [t \in Threads |-> NoVal]
      BY StatusOf DEF FifoInit, AbsCall, AbsArg, Dequeueing
    <2> QED
      BY <2>1, <2>2 DEF FifoInit, Abs!Init
  <1> QED
    BY <1>1, FifoInvariantHolds, FifoStepRefines, PTL DEF FifoSpec, FifoLinearisable, Abs!Spec
=============================================================================
