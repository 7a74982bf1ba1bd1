--------------------------- MODULE FifoPtrProofs ---------------------------
(***************************************************************************)
(* fifo<T*> hands every object over to one owner, for any number of        *)
(* threads, nodes and objects, as long as dequeue is not called with a     *)
(* scoped_ptr.                                                             *)
(***************************************************************************)
EXTENDS FifoPtr, FifoProofs, FiniteSetTheorems

-----------------------------------------------------------------------------
(* fifo<T*> is a fifo *)

\* Every step of fifo<T*> is a step of the fifo or leaves the fifo alone.
LEMMA PtrStepIsFifoStep == [PtrNext]_everyVar => [FifoNext]_allVars
  <1> SUFFICES ASSUME [PtrNext]_everyVar PROVE [FifoNext]_allVars
    OBVIOUS
  <1>1. CASE UNCHANGED everyVar
    BY <1>1 DEF everyVar
  <1>2. CASE PtrNext
    <2>1. TagFresh /\ FifoFresh
      BY <1>2 DEF PtrNext
    <2>2. ASSUME NEW t \in Threads, PtrStep(t) PROVE FifoStep(t)
      BY <2>2 DEF PtrStep, FifoStep, EnqFailObj, DeqDataTo, DeqFailTo, DequeuedTo
    <2>3. ASSUME NEW t \in Threads, EnqueueObj(t) \/ DequeueTo(t)
          PROVE  Enqueue(t) \/ Dequeue(t)
      BY <2>3 DEF EnqueueObj, DequeueTo
    <2>4. ASSUME NEW t \in Threads, Drop(t) PROVE UNCHANGED allVars
      BY <2>4 DEF Drop
    <2> QED
      BY <1>2, <2>1, <2>2, <2>3, <2>4 DEF PtrNext, FifoNext
  <1> QED
    BY <1>1, <1>2

\* fifo<T*> is a fifo of pointers: its overloads of dequeue do with the queue
\* what the fifo does, so every theorem about the fifo holds for it
\* (fifo.hpp:321-421).
THEOREM PtrIsFifo == PtrSpec => FifoSpec
  <1>1. PtrInit => FifoInit
    BY DEF PtrInit
  <1> QED
    BY <1>1, PtrStepIsFifoStep, PTL DEF PtrSpec, FifoSpec

-----------------------------------------------------------------------------
(* The places of an object *)

\* fifo<T*> starts in the inductive invariant.
LEMMA InitPtrInv == PtrInit => PtrInv
  <1> SUFFICES ASSUME PtrInit PROVE PtrInv
    OBVIOUS
  <1> USE DEF PtrInit
  <1>1. FifoInv
    BY InitFifoInv
  <1>2. /\ \A t \in Threads : fpc[t] = "idle" /\ result[t] = NoVal /\ own[t] = NoVal
        /\ \A t \in Threads : kind[t] = "raw"
        /\ Len(que) = 0
    BY DEF FifoInit
  <1>3. PtrTypeOK
    BY <1>2 DEF PtrTypeOK
  <1>4. ObjectsInside /\ ResultRead
    BY <1>2 DEF ObjectsInside, ResultRead, Offering
  <1>5. ASSUME NEW v \in Values PROVE Places(v) = {}
    BY <1>2, NoValAssumption DEF Places, Offering
  <1> QED
    BY <1>1, <1>3, <1>4, <1>5 DEF PtrInv, OnePlace

\* When object v is in a place, by kind of place.
LEMMA PlaceKinds ==
    ASSUME NEW v
    PROVE  /\ \A t \in Threads : <<"enqueue", t>> \in Places(v) <=> Offering(t) /\ fval[t] = v
           /\ \A i : <<"queue", i>> \in Places(v) <=> i \in 2 .. Len(que) /\ data[que[i]] = v
           /\ \A t \in Threads : <<"result", t>> \in Places(v) <=> fpc[t] = "d_pool" /\ result[t] = v
           /\ \A t \in Threads : <<"owner", t>> \in Places(v) <=> own[t] = v
           /\ \A p \in Places(v) :
                \/ \E t \in Threads : p = <<"enqueue", t>>
                \/ \E i \in 2 .. Len(que) : p = <<"queue", i>>
                \/ \E t \in Threads : p = <<"result", t>> \/ p = <<"owner", t>>
  BY DEF Places

\* An object stays where it is as long as nobody else gets it and nobody
\* gives it away.
LEMMA PlacesFrame ==
    ASSUME NEW v,
           \A u \in Threads : Offering(u)' /\ fval'[u] = v <=> Offering(u) /\ fval[u] = v,
           \A i : i \in 2 .. Len(que') /\ data'[que'[i]] = v
                    <=> i \in 2 .. Len(que) /\ data[que[i]] = v,
           \A u \in Threads : fpc'[u] = "d_pool" /\ result'[u] = v
                    <=> fpc[u] = "d_pool" /\ result[u] = v,
           \A u \in Threads : own'[u] = v <=> own[u] = v
    PROVE  Places(v)' = Places(v)
  BY DEF Places

\* An object that has a place has no other one.
LEMMA OnlyPlace ==
    ASSUME PtrInv, NEW v \in Values, NEW p \in Places(v)
    PROVE  v \in heap /\ Places(v) = {p}
  BY DEF PtrInv, OnePlace

\* What it means that an enqueue holds object v: nobody else does.
LEMMA OnlyOffered ==
    ASSUME PtrInv, NEW v \in Values, NEW t \in Threads, Offering(t), fval[t] = v
    PROVE  /\ v \in heap
           /\ \A u \in Threads \ {t} : ~(Offering(u) /\ fval[u] = v)
           /\ \A i \in 2 .. Len(que) : data[que[i]] # v
           /\ \A u \in Threads : ~(fpc[u] = "d_pool" /\ result[u] = v)
           /\ \A u \in Threads : own[u] # v
  <1> DEFINE p == <<"enqueue", t>>
  <1>1. p \in Places(v)
    BY PlaceKinds
  <1>2. v \in heap /\ Places(v) = {p}
    BY <1>1, OnlyPlace
  <1>3. ASSUME NEW u \in Threads \ {t} PROVE ~(Offering(u) /\ fval[u] = v)
    <2>1. <<"enqueue", u>> # p
      OBVIOUS
    <2>2. <<"enqueue", u>> \notin Places(v)
      BY <1>2, <2>1
    <2> QED
      BY <2>2, PlaceKinds
  <1>4. ASSUME NEW i \in 2 .. Len(que) PROVE data[que[i]] # v
    <2>1. <<"queue", i>> # p
      OBVIOUS
    <2>2. <<"queue", i>> \notin Places(v)
      BY <1>2, <2>1
    <2> QED
      BY <2>2, PlaceKinds
  <1>5. ASSUME NEW u \in Threads PROVE ~(fpc[u] = "d_pool" /\ result[u] = v)
    <2>1. <<"result", u>> # p
      OBVIOUS
    <2>2. <<"result", u>> \notin Places(v)
      BY <1>2, <2>1
    <2> QED
      BY <2>2, PlaceKinds
  <1>6. ASSUME NEW u \in Threads PROVE own[u] # v
    <2>1. <<"owner", u>> # p
      OBVIOUS
    <2>2. <<"owner", u>> \notin Places(v)
      BY <1>2, <2>1
    <2> QED
      BY <2>2, PlaceKinds
  <1> QED
    BY <1>2, <1>3, <1>4, <1>5, <1>6

\* What it means that a node of the queue holds object v: nobody else does.
LEMMA OnlyQueued ==
    ASSUME PtrInv, NEW v \in Values, NEW j \in 2 .. Len(que), data[que[j]] = v
    PROVE  /\ v \in heap
           /\ \A u \in Threads : ~(Offering(u) /\ fval[u] = v)
           /\ \A i \in 2 .. Len(que) : i # j => data[que[i]] # v
           /\ \A u \in Threads : ~(fpc[u] = "d_pool" /\ result[u] = v)
           /\ \A u \in Threads : own[u] # v
  <1> DEFINE p == <<"queue", j>>
  <1>1. p \in Places(v)
    BY PlaceKinds
  <1>2. v \in heap /\ Places(v) = {p}
    BY <1>1, OnlyPlace
  <1>3. ASSUME NEW u \in Threads PROVE ~(Offering(u) /\ fval[u] = v)
    <2>1. <<"enqueue", u>> # p
      OBVIOUS
    <2>2. <<"enqueue", u>> \notin Places(v)
      BY <1>2, <2>1
    <2> QED
      BY <2>2, PlaceKinds
  <1>4. ASSUME NEW i \in 2 .. Len(que), i # j PROVE data[que[i]] # v
    <2>1. <<"queue", i>> # p
      BY <1>4
    <2>2. <<"queue", i>> \notin Places(v)
      BY <1>2, <2>1
    <2> QED
      BY <2>2, PlaceKinds
  <1>5. ASSUME NEW u \in Threads PROVE ~(fpc[u] = "d_pool" /\ result[u] = v)
    <2>1. <<"result", u>> # p
      OBVIOUS
    <2>2. <<"result", u>> \notin Places(v)
      BY <1>2, <2>1
    <2> QED
      BY <2>2, PlaceKinds
  <1>6. ASSUME NEW u \in Threads PROVE own[u] # v
    <2>1. <<"owner", u>> # p
      OBVIOUS
    <2>2. <<"owner", u>> \notin Places(v)
      BY <1>2, <2>1
    <2> QED
      BY <2>2, PlaceKinds
  <1> QED
    BY <1>2, <1>3, <1>4, <1>5, <1>6

\* What it means that the result of a dequeue holds object v: nobody else does.
LEMMA OnlyResult ==
    ASSUME PtrInv, NEW v \in Values, NEW t \in Threads, fpc[t] = "d_pool", result[t] = v
    PROVE  /\ v \in heap
           /\ \A u \in Threads : ~(Offering(u) /\ fval[u] = v)
           /\ \A i \in 2 .. Len(que) : data[que[i]] # v
           /\ \A u \in Threads \ {t} : ~(fpc[u] = "d_pool" /\ result[u] = v)
           /\ \A u \in Threads : own[u] # v
  <1> DEFINE p == <<"result", t>>
  <1>1. p \in Places(v)
    BY PlaceKinds
  <1>2. v \in heap /\ Places(v) = {p}
    BY <1>1, OnlyPlace
  <1>3. ASSUME NEW u \in Threads PROVE ~(Offering(u) /\ fval[u] = v)
    <2>1. <<"enqueue", u>> # p
      OBVIOUS
    <2>2. <<"enqueue", u>> \notin Places(v)
      BY <1>2, <2>1
    <2> QED
      BY <2>2, PlaceKinds
  <1>4. ASSUME NEW i \in 2 .. Len(que) PROVE data[que[i]] # v
    <2>1. <<"queue", i>> # p
      OBVIOUS
    <2>2. <<"queue", i>> \notin Places(v)
      BY <1>2, <2>1
    <2> QED
      BY <2>2, PlaceKinds
  <1>5. ASSUME NEW u \in Threads \ {t} PROVE ~(fpc[u] = "d_pool" /\ result[u] = v)
    <2>1. <<"result", u>> # p
      OBVIOUS
    <2>2. <<"result", u>> \notin Places(v)
      BY <1>2, <2>1
    <2> QED
      BY <2>2, PlaceKinds
  <1>6. ASSUME NEW u \in Threads PROVE own[u] # v
    <2>1. <<"owner", u>> # p
      OBVIOUS
    <2>2. <<"owner", u>> \notin Places(v)
      BY <1>2, <2>1
    <2> QED
      BY <2>2, PlaceKinds
  <1> QED
    BY <1>2, <1>3, <1>4, <1>5, <1>6

\* What it means that a smart pointer holds object v: nobody else does.
LEMMA OnlyOwned ==
    ASSUME PtrInv, NEW v \in Values, NEW t \in Threads, own[t] = v
    PROVE  /\ v \in heap
           /\ \A u \in Threads : ~(Offering(u) /\ fval[u] = v)
           /\ \A i \in 2 .. Len(que) : data[que[i]] # v
           /\ \A u \in Threads : ~(fpc[u] = "d_pool" /\ result[u] = v)
           /\ \A u \in Threads \ {t} : own[u] # v
  <1> DEFINE p == <<"owner", t>>
  <1>1. p \in Places(v)
    BY PlaceKinds
  <1>2. v \in heap /\ Places(v) = {p}
    BY <1>1, OnlyPlace
  <1>3. ASSUME NEW u \in Threads PROVE ~(Offering(u) /\ fval[u] = v)
    <2>1. <<"enqueue", u>> # p
      OBVIOUS
    <2>2. <<"enqueue", u>> \notin Places(v)
      BY <1>2, <2>1
    <2> QED
      BY <2>2, PlaceKinds
  <1>4. ASSUME NEW i \in 2 .. Len(que) PROVE data[que[i]] # v
    <2>1. <<"queue", i>> # p
      OBVIOUS
    <2>2. <<"queue", i>> \notin Places(v)
      BY <1>2, <2>1
    <2> QED
      BY <2>2, PlaceKinds
  <1>5. ASSUME NEW u \in Threads PROVE ~(fpc[u] = "d_pool" /\ result[u] = v)
    <2>1. <<"result", u>> # p
      OBVIOUS
    <2>2. <<"result", u>> \notin Places(v)
      BY <1>2, <2>1
    <2> QED
      BY <2>2, PlaceKinds
  <1>6. ASSUME NEW u \in Threads \ {t} PROVE own[u] # v
    <2>1. <<"owner", u>> # p
      OBVIOUS
    <2>2. <<"owner", u>> \notin Places(v)
      BY <1>2, <2>1
    <2> QED
      BY <2>2, PlaceKinds
  <1> QED
    BY <1>2, <1>3, <1>4, <1>5, <1>6

\* The nodes of the queue at their positions.
LEMMA QueuePositions ==
    ASSUME FifoInv
    PROVE  /\ que \in Seq(Nodes) /\ Len(que) \in Nat
           /\ \A i \in 1 .. Len(que) : que[i] \in Range(que) /\ que[i] \in used /\ que[i] \in Nodes
           /\ \A i \in 2 .. Len(que) : i \in 1 .. Len(que)
  <1>1. que \in Seq(Nodes) /\ Len(que) \in Nat
    BY LenProperties DEF FifoInv, FifoTypeOK
  <1>2. \A i \in 1 .. Len(que) : que[i] \in Range(que)
    BY <1>1, RangeElements
  <1>3. \A n \in Range(que) : n \in used /\ n \in Nodes
    BY DEF FifoInv, NodesPlaced, IInv, TypeOK
  <1>4. \A i \in 2 .. Len(que) : i \in 1 .. Len(que)
    BY <1>1
  <1> QED
    BY <1>1, <1>2, <1>3, <1>4

\* A step that moves no object keeps the invariant.
LEMMA QuietKeeps ==
    ASSUME PtrInv, FifoInv', UNCHANGED <<heap, own, que>>,
           \A n \in used : data'[n] = data[n],
           \A u \in Threads : Offering(u)' = Offering(u),
           \A u \in Threads : Offering(u) => fval'[u] = fval[u],
           \A u \in Threads : (fpc'[u] = "d_pool") = (fpc[u] = "d_pool"),
           \A u \in Threads : fpc[u] = "d_pool" => result'[u] = result[u],
           PtrTypeOK', ResultRead'
    PROVE  PtrInv'
  <1> USE DEF PtrInv
  <1>1. \A i \in 2 .. Len(que) : data'[que[i]] = data[que[i]]
    BY QueuePositions
  <1>2. ObjectsInside'
    BY <1>1 DEF ObjectsInside
  <1>3. ASSUME NEW v \in Values PROVE Places(v)' = Places(v)
    BY <1>1, PlacesFrame
  <1>4. OnePlace'
    BY <1>3 DEF OnePlace
  <1> QED
    BY <1>2, <1>4

\* The steps of the fifo that move no object.
LEMMA QuietSteps ==
    ASSUME PtrInv, FifoInv', NEW t \in Threads, UNCHANGED ptrVars,
           \/ InPool(t) \/ EnqNew(t) \/ EnqTail(t) \/ EnqNext(t) \/ EnqCheck(t)
           \/ EnqRetry(t) \/ EnqHelp(t) \/ EnqDone(t) \/ DeqHead(t) \/ DeqTail(t)
           \/ DeqNext(t) \/ DeqCheck(t) \/ DeqHelp(t) \/ DeqRetry(t)
    PROVE  PtrInv'
  <1> USE DEF PtrInv, ptrVars
  <1>1. fpc \in [Threads -> FifoLabels] /\ fval \in [Threads -> Values \cup {NoVal}]
    BY DEF FifoInv, FifoTypeOK
  <1>2. CASE InPool(t)
    <2>1. UNCHANGED <<que, data, fpc, fval>>
      BY <1>2 DEF InPool, fifoVars
    <2>2. PtrTypeOK' /\ ResultRead' /\ \A u \in Threads : Offering(u)' = Offering(u)
      BY <2>1 DEF PtrTypeOK, ResultRead, Offering
    <2> QED
      BY <2>1, <2>2, QuietKeeps
  <1>3. CASE ~InPool(t)
    <2>1. /\ que' = que
          /\ \A u \in Threads \ {t} : fpc'[u] = fpc[u] /\ fval'[u] = fval[u]
      BY <1>1, <1>3 DEF EnqNew, EnqTail, EnqNext, EnqCheck, EnqRetry, EnqHelp, EnqDone, DeqHead,
                        DeqTail, DeqNext, DeqCheck, DeqHelp, DeqRetry, Again, FReturn, FGoto
    <2>2. /\ Offering(t) <=> EnqNew(t) \/ EnqTail(t) \/ EnqNext(t) \/ EnqCheck(t)
                                \/ EnqRetry(t) \/ EnqHelp(t)
          /\ Offering(t)' <=> Offering(t)
          /\ Offering(t) => fval'[t] = fval[t]
          /\ fpc[t] # "d_pool" /\ fpc'[t] \notin {"d_pool", "d_cas", "r_pool", "u_link"}
      BY <1>1, <1>3 DEF EnqNew, EnqTail, EnqNext, EnqCheck, EnqRetry, EnqHelp, EnqDone, DeqHead,
                        DeqTail, DeqNext, DeqCheck, DeqHelp, DeqRetry, Again, FReturn, FGoto, Offering
    <2>3. \A u \in Threads : Offering(u)' = Offering(u)
      BY <2>1, <2>2 DEF Offering
    <2>4. \A n \in used : data'[n] = data[n]
      <3>1. CASE EnqNew(t)
        <4>1. node[t] \notin used /\ data' = [data EXCEPT ![node[t]] = fval[t]]
          BY <3>1 DEF FifoInv, EnqNew, AllocNew, IInv, OneOwner, Carrying
        <4> QED
          BY <4>1 DEF FifoInv, FifoTypeOK, IInv, TypeOK
      <3>2. CASE ~EnqNew(t)
        BY <1>3, <3>2 DEF EnqTail, EnqNext, EnqCheck, EnqRetry, EnqHelp, EnqDone, DeqHead,
                          DeqTail, DeqNext, DeqCheck, DeqHelp, DeqRetry
      <3> QED
        BY <3>1, <3>2
    <2>5. PtrTypeOK'
      BY <2>1, <2>2 DEF PtrTypeOK
    <2>6. ResultRead'
      BY <2>1, <2>2 DEF ResultRead
    <2> QED
      BY <2>1, <2>2, <2>3, <2>4, <2>5, <2>6, QuietKeeps
  <1> QED
    BY <1>2, <1>3

\* The constructor, reserve_unsafe, the call of dequeue, the read of the data
\* and the return of false move no object either: what dequeue has read is in
\* the local result, which is used only after success (fifo.hpp:346-355).
LEMMA QuietCalls ==
    ASSUME PtrInv, FifoInv', "scoped" \notin Kinds, NEW t \in Threads,
           DequeueTo(t) \/ DeqDataTo(t) \/ DeqFailTo(t)
    PROVE  PtrInv'
  <1> USE DEF PtrInv
  <1>1. /\ fpc \in [Threads -> FifoLabels] /\ fval \in [Threads -> Values \cup {NoVal}]
        /\ kind \in [Threads -> {"raw", "reset", "scoped"}]
        /\ result \in [Threads -> Values \cup {NoVal}]
        /\ fval' \in [Threads -> Values \cup {NoVal}]
    BY DEF FifoInv, FifoTypeOK, PtrTypeOK
  <1>2. /\ UNCHANGED <<que, data, heap, own>>
        /\ \A u \in Threads \ {t} : /\ fpc'[u] = fpc[u] /\ fval'[u] = fval[u]
                                    /\ kind'[u] = kind[u] /\ result'[u] = result[u]
    <2>1. kind[t] # "scoped"
      BY DEF ResultRead
    <2> QED
      BY <1>1, <2>1 DEF DequeueTo, Dequeue, DeqDataTo, DeqData, DeqFailTo, DeqFail, PtrReturn, FReturn,
                        FGoto
  <1>3. /\ ~Offering(t) /\ ~Offering(t)' /\ fpc[t] # "d_pool"
        /\ fpc'[t] \in {"idle", "d_head", "d_cas"}
    BY <1>1 DEF DequeueTo, Dequeue, Ready, DeqDataTo, DeqData, DeqFailTo, DeqFail, FReturn, FGoto,
                Offering
  <1>4. /\ kind' \in [Threads -> {"raw", "reset", "scoped"}]
        /\ result' \in [Threads -> Values \cup {NoVal}]
        /\ kind'[t] # "scoped"
        /\ fpc'[t] = "d_cas" => result'[t] = fval'[t]
    <2>1. CASE DequeueTo(t)
      <3>1. PICK k \in Kinds : kind' = [kind EXCEPT ![t] = k]
        BY <2>1 DEF DequeueTo
      <3>2. k \in {"raw", "reset"}
        BY <3>1, KindsAssumption
      <3> QED
        BY <1>1, <2>1, <3>1, <3>2 DEF DequeueTo, Dequeue, FGoto
    <2>2. CASE DeqDataTo(t)
      <3>1. /\ kind[t] # "scoped" /\ kind' = kind
            /\ result' = [result EXCEPT ![t] = data[fnext[t].ptr]]
            /\ fval' = [fval EXCEPT ![t] = data[fnext[t].ptr]]
        BY <2>2 DEF DeqDataTo, DeqData, ResultRead
      <3>2. data[fnext[t].ptr] = fval'[t]
        BY <1>1, <3>1
      <3>3. fval'[t] \in Values \cup {NoVal}
        BY <1>1
      <3> QED
        BY <1>1, <3>1, <3>2, <3>3
    <2>3. CASE DeqFailTo(t)
      BY <1>1, <2>3 DEF DeqFailTo, DeqFail, PtrReturn, FReturn, FGoto
    <2> QED
      BY <2>1, <2>2, <2>3
  <1>5. \A u \in Threads : Offering(u)' = Offering(u)
    BY <1>2, <1>3 DEF Offering
  <1>6. PtrTypeOK'
    BY <1>2, <1>3, <1>4 DEF PtrTypeOK
  <1>7. ResultRead'
    BY <1>2, <1>3, <1>4 DEF ResultRead
  <1> QED
    BY <1>2, <1>3, <1>5, <1>6, <1>7, QuietKeeps

\* The constructor puts a node without an object into the queue.
LEMMA QuietAlone ==
    ASSUME PtrInv, FifoInv', FifoReserveUnsafe \/ Initialize, UNCHANGED ptrVars
    PROVE  PtrInv'
  <1> USE DEF PtrInv, ptrVars
  <1>1. UNCHANGED <<data, fpc, fval>>
    BY DEF FifoReserveUnsafe, Initialize, fifoVars, locals
  <1>2. 2 .. Len(que') = 2 .. Len(que) /\ \A i \in 2 .. Len(que) : que'[i] = que[i]
    <2>1. CASE FifoReserveUnsafe
      BY <2>1 DEF FifoReserveUnsafe, fifoVars
    <2>2. CASE Initialize
      <3>1. Len(que) = 0 /\ Len(que') = 1
        BY <2>2 DEF Initialize, FifoInv, FifoLife
      <3> QED
        BY <3>1
    <2> QED
      BY <2>1, <2>2
  <1>3. PtrTypeOK' /\ ResultRead' /\ \A u \in Threads : Offering(u)' = Offering(u)
    BY <1>1 DEF PtrTypeOK, ResultRead, Offering
  <1>4. ObjectsInside'
    BY <1>1, <1>2, <1>3 DEF ObjectsInside
  <1>5. ASSUME NEW v \in Values PROVE Places(v)' = Places(v)
    BY <1>1, <1>2, <1>3, PlacesFrame
  <1>6. OnePlace'
    BY <1>5 DEF OnePlace
  <1> QED
    BY <1>3, <1>4, <1>6

-----------------------------------------------------------------------------
(* The steps that move an object *)

\* enqueue is called with a new object.
LEMMA EnqueueObjKeeps ==
    ASSUME PtrInv, FifoInv', NEW t \in Threads, EnqueueObj(t)
    PROVE  PtrInv'
  <1> USE DEF PtrInv
  <1>1. /\ fpc \in [Threads -> FifoLabels] /\ fval \in [Threads -> Values \cup {NoVal}]
    BY DEF FifoInv, FifoTypeOK
  <1>2. PICK w \in Values : fval'[t] = w
    BY <1>1 DEF EnqueueObj, Enqueue
  <1>3. /\ UNCHANGED <<que, data, kind, result, own>>
        /\ \A u \in Threads \ {t} : fpc'[u] = fpc[u] /\ fval'[u] = fval[u]
        /\ fpc[t] = "idle" /\ fpc'[t] = "e_pool"
        /\ w \notin heap /\ heap' = heap \cup {w}
    BY <1>1, <1>2 DEF EnqueueObj, Enqueue, Ready, FGoto
  <1>4. PtrTypeOK' /\ ResultRead'
    BY <1>3, <1>2 DEF PtrTypeOK, ResultRead
  <1>5. ~Offering(t) /\ Offering(t)' /\ \A u \in Threads \ {t} : Offering(u)' = Offering(u)
    BY <1>3 DEF Offering
  <1>6. ObjectsInside'
    <2>1. \A u \in Threads : Offering(u)' => fval'[u] \in Values
      BY <1>3, <1>2, <1>5 DEF ObjectsInside
    <2> QED
      BY <1>3, <2>1 DEF ObjectsInside
  <1>7. ASSUME NEW v \in Values, v # w PROVE Places(v)' = Places(v)
    <2>1. \A u \in Threads : Offering(u)' /\ fval'[u] = v <=> Offering(u) /\ fval[u] = v
      BY <1>3, <1>2, <1>5, <1>7
    <2>2. \A u \in Threads : fpc'[u] = "d_pool" /\ result'[u] = v
                    <=> fpc[u] = "d_pool" /\ result[u] = v
      BY <1>3
    <2> QED
      BY <1>3, <2>1, <2>2, PlacesFrame
  <1>8. Places(w)' = {<<"enqueue", t>>}
    <2>1. Places(w) = {}
      BY <1>3, <1>2 DEF OnePlace
    <2>2. /\ \A u \in Threads : ~(Offering(u) /\ fval[u] = w) /\ own[u] # w
          /\ \A u \in Threads : ~(fpc[u] = "d_pool" /\ result[u] = w)
          /\ \A i \in 2 .. Len(que) : data[que[i]] # w
      BY <2>1, PlaceKinds
    <2>3. \A u \in Threads : (Offering(u)' /\ fval'[u] = w) <=> u = t
      BY <1>3, <1>2, <1>5, <2>2
    <2>4. \A u \in Threads : ~(fpc'[u] = "d_pool" /\ result'[u] = w)
      BY <1>3, <2>2
    <2>5. {u \in Threads : Offering(u)' /\ fval'[u] = w} = {t}
      BY <2>3
    <2> QED
      BY <1>3, <2>2, <2>4, <2>5 DEF Places
  <1>9. OnePlace'
    <2> SUFFICES ASSUME NEW v \in Values
                 PROVE  IF v \in heap' THEN \E p \in Places(v)' : Places(v)' = {p}
                                       ELSE Places(v)' = {}
      BY DEF OnePlace
    <2>1. CASE v = w
      BY <1>3, <1>8, <2>1
    <2>2. CASE v # w
      BY <1>3, <1>7, <2>2 DEF OnePlace
    <2> QED
      BY <2>1, <2>2
  <1> QED
    BY <1>4, <1>6, <1>9

\* enqueue finds no node, and its caller deletes the object.
LEMMA EnqFailKeeps ==
    ASSUME PtrInv, FifoInv', NEW t \in Threads, EnqFailObj(t)
    PROVE  PtrInv'
  <1> USE DEF PtrInv
  <1>1. /\ fpc \in [Threads -> FifoLabels] /\ fval \in [Threads -> Values \cup {NoVal}]
    BY DEF FifoInv, FifoTypeOK
  <1>2. PICK w \in Values : fval[t] = w
    BY DEF ObjectsInside, Offering, EnqFailObj, EnqFail
  <1>3. /\ UNCHANGED <<que, data, kind, result, own>>
        /\ \A u \in Threads \ {t} : fpc'[u] = fpc[u] /\ fval'[u] = fval[u]
        /\ fpc[t] = "e_pool" /\ fpc'[t] = "idle"
        /\ heap' = heap \ {w}
    BY <1>1, <1>2 DEF EnqFailObj, EnqFail, FReturn, FGoto
  <1>4. Offering(t) /\ ~Offering(t)' /\ \A u \in Threads \ {t} : Offering(u)' = Offering(u)
    BY <1>3 DEF Offering
  <1>5. PtrTypeOK' /\ ResultRead'
    BY <1>3 DEF PtrTypeOK, ResultRead
  <1>6. ObjectsInside'
    BY <1>3, <1>4 DEF ObjectsInside
  <1>7. ASSUME NEW v \in Values, v # w PROVE Places(v)' = Places(v)
    <2>1. \A u \in Threads : Offering(u)' /\ fval'[u] = v <=> Offering(u) /\ fval[u] = v
      BY <1>3, <1>4, <1>2, <1>7
    <2>2. \A u \in Threads : fpc'[u] = "d_pool" /\ result'[u] = v
                    <=> fpc[u] = "d_pool" /\ result[u] = v
      BY <1>3
    <2> QED
      BY <1>3, <2>1, <2>2, PlacesFrame
  <1>8. Places(w)' = {}
    <2>1. /\ \A u \in Threads \ {t} : ~(Offering(u) /\ fval[u] = w)
          /\ \A u \in Threads : own[u] # w /\ ~(fpc[u] = "d_pool" /\ result[u] = w)
          /\ \A i \in 2 .. Len(que) : data[que[i]] # w
      BY <1>4, <1>2, OnlyOffered
    <2>2. \A u \in Threads : ~(Offering(u)' /\ fval'[u] = w)
      BY <1>3, <1>4, <2>1
    <2>3. \A u \in Threads : ~(fpc'[u] = "d_pool" /\ result'[u] = w)
      BY <1>3, <2>1
    <2> QED
      BY <1>3, <2>1, <2>2, <2>3 DEF Places
  <1>9. OnePlace'
    BY <1>3, <1>7, <1>8 DEF OnePlace
  <1> QED
    BY <1>5, <1>6, <1>9

\* The exchange of enqueue moves the object from its thread to the end of the
\* queue.
LEMMA EnqLinkMoves ==
    ASSUME PtrInv, FifoInv', NEW t \in Threads, EnqLink(t), UNCHANGED ptrVars
    PROVE  PtrInv'
  <1> USE DEF PtrInv, ptrVars
  <1> DEFINE k == Len(que) + 1
  <1>1. /\ fpc \in [Threads -> FifoLabels] /\ fval \in [Threads -> Values \cup {NoVal}]
    BY DEF FifoInv, FifoTypeOK
  <1>2. /\ data' = data /\ que' = Append(que, fnode[t])
        /\ \A u \in Threads \ {t} : fpc'[u] = fpc[u] /\ fval'[u] = fval[u]
        /\ fpc[t] = "e_link" /\ fpc'[t] = "e_done"
    BY <1>1 DEF EnqLink, FGoto
  <1>3. Offering(t) /\ ~Offering(t)' /\ \A u \in Threads \ {t} : Offering(u)' = Offering(u)
    BY <1>2 DEF Offering
  <1>4. PICK w \in Values : fval[t] = w /\ data[fnode[t]] = w
    BY <1>2, <1>3 DEF ObjectsInside, FifoInv, ValuePlace
  <1>5. /\ Len(que) \in Nat \ {0} /\ Len(que') = k /\ que'[k] = fnode[t]
        /\ \A i \in 1 .. Len(que) : que'[i] = que[i]
    <2>1. fnode[t] \in Nodes
      BY <1>2 DEF FifoInv, NodesPlaced, Linking, IInv, TypeOK
    <2>2. que # <<>> /\ que \in Seq(Nodes)
      BY <1>2, Inside DEF FifoInv, FifoTypeOK
    <2> QED
      BY <1>2, <2>1, <2>2, AppendElements, TailElements
  <1>6. 2 .. Len(que') = 2 .. Len(que) \cup {k} /\ k \notin 2 .. Len(que)
    BY <1>5
  <1> HIDE DEF k
  <1>7. \A i \in 2 .. Len(que) : data'[que'[i]] = data[que[i]]
    BY <1>2, <1>5
  <1>8. data'[que'[k]] = w
    BY <1>2, <1>4, <1>5
  <1>9. PtrTypeOK' /\ ResultRead'
    BY <1>2 DEF PtrTypeOK, ResultRead
  <1>10. ObjectsInside'
    BY <1>2, <1>3, <1>4, <1>6, <1>7, <1>8 DEF ObjectsInside
  <1>11. ASSUME NEW v \in Values, v # w PROVE Places(v)' = Places(v)
    <2>1. \A u \in Threads : Offering(u)' /\ fval'[u] = v <=> Offering(u) /\ fval[u] = v
      BY <1>2, <1>3, <1>4, <1>11
    <2>2. \A u \in Threads : fpc'[u] = "d_pool" /\ result'[u] = v
                    <=> fpc[u] = "d_pool" /\ result[u] = v
      BY <1>2
    <2>3. \A i : i \in 2 .. Len(que') /\ data'[que'[i]] = v
                    <=> i \in 2 .. Len(que) /\ data[que[i]] = v
      BY <1>6, <1>7, <1>8, <1>11
    <2> QED
      BY <2>1, <2>2, <2>3, PlacesFrame
  <1>12. Places(w)' = {<<"queue", k>>}
    <2>1. /\ \A u \in Threads \ {t} : ~(Offering(u) /\ fval[u] = w)
          /\ \A u \in Threads : own[u] # w /\ ~(fpc[u] = "d_pool" /\ result[u] = w)
          /\ \A i \in 2 .. Len(que) : data[que[i]] # w
      BY <1>3, <1>4, OnlyOffered
    <2>2. \A u \in Threads : ~(Offering(u)' /\ fval'[u] = w)
      BY <1>2, <1>3, <2>1
    <2>3. \A u \in Threads : ~(fpc'[u] = "d_pool" /\ result'[u] = w)
      BY <1>2, <2>1
    <2>4. {i \in 2 .. Len(que') : data'[que'[i]] = w} = {k}
      BY <1>6, <1>7, <1>8, <2>1
    <2> QED
      BY <2>1, <2>2, <2>3, <2>4 DEF Places
  <1>13. w \in heap
    BY <1>3, <1>4, OnlyOffered
  <1>14. OnePlace'
    <2> SUFFICES ASSUME NEW v \in Values
                 PROVE  IF v \in heap' THEN \E p \in Places(v)' : Places(v)' = {p}
                                       ELSE Places(v)' = {}
      BY DEF OnePlace
    <2>1. CASE v = w
      BY <1>12, <1>13, <2>1
    <2>2. CASE v # w
      BY <1>11, <2>2 DEF OnePlace
    <2> QED
      BY <2>1, <2>2
  <1> QED
    BY <1>9, <1>10, <1>14

\* The exchange of dequeue moves the first object of the queue to the result
\* of its thread: what the thread has read is that object (fifo.hpp:236-240).
LEMMA DeqCASMoves ==
    ASSUME PtrInv, FifoInv', NEW t \in Threads, DeqCAS(t), UNCHANGED ptrVars
    PROVE  PtrInv'
  <1> USE DEF PtrInv, ptrVars
  <1>1. /\ que' = Tail(que) /\ data' = [data EXCEPT ![head.ptr] = NoVal] /\ fval' = fval
        /\ \A u \in Threads \ {t} : fpc'[u] = fpc[u]
        /\ fpc[t] = "d_cas" /\ fpc'[t] = "d_pool" /\ head = fhead[t]
    BY DEF DeqCAS, Again, FGoto, FifoInv, FifoTypeOK
  <1>2. que # <<>> /\ que \in Seq(Nodes)
    BY <1>1, Inside DEF FifoInv, FifoTypeOK
  <1>3. fnext[t].ptr = next[head.ptr] /\ next[head.ptr] # NULL /\ fval[t] = data[fnext[t].ptr]
    BY <1>1, NullAssumption DEF FifoInv, HeadSnapshot, FollowsNodes
  <1>4. /\ Len(que) \in Nat \ {0} /\ Len(que) > 1 /\ fnext[t].ptr = que[2]
        /\ Range(Tail(que)) = Range(que) \ {head.ptr}
    BY <1>2, <1>3, QueueFacts
  <1>5. PICK w \in Values : fval[t] = w /\ data[que[2]] = w /\ result[t] = w
    <2>1. 2 \in 2 .. Len(que)
      BY <1>4
    <2> QED
      BY <1>1, <1>3, <1>4, <2>1 DEF ObjectsInside, ResultRead
  <1>6. /\ Len(que') = Len(que) - 1 /\ que' \in Seq(Nodes)
        /\ \A i \in 1 .. Len(que) - 1 : que'[i] = que[i + 1]
    BY <1>1, <1>2, TailElements
  <1>7. \A i \in 1 .. Len(que) - 1 : data'[que'[i]] = data[que[i + 1]]
    <2>1. \A i \in 1 .. Len(que) - 1 : que'[i] \in Range(que) \ {head.ptr} /\ que'[i] \in Nodes
      <3>1. Len(que') = Len(que) - 1 /\ Range(que') = Range(que) \ {head.ptr}
        BY <1>1, <1>4, <1>6
      <3>2. \A i \in 1 .. Len(que') : que'[i] \in Range(que') /\ que'[i] \in Nodes
        BY <1>6, RangeElements, ElementOfSeq
      <3> QED
        BY <3>1, <3>2
    <2> QED
      BY <1>1, <1>6, <2>1 DEF FifoInv, FifoTypeOK
  <1>8. /\ \A i \in 2 .. Len(que') : i \in 1 .. Len(que) - 1 /\ i + 1 \in 2 .. Len(que) /\ i + 1 # 2
        /\ \A i \in 2 .. Len(que) : i # 2 => i - 1 \in 2 .. Len(que') /\ (i - 1) + 1 = i
        /\ 2 \in 2 .. Len(que)
    BY <1>4, <1>6
  <1>9. \A i \in 2 .. Len(que') : data'[que'[i]] = data[que[i + 1]]
    BY <1>7, <1>8
  <1>10. ~Offering(t) /\ \A u \in Threads : Offering(u)' = Offering(u)
    BY <1>1 DEF Offering
  <1>11. PtrTypeOK'
    BY <1>1, <1>5 DEF PtrTypeOK, ResultRead
  <1>12. ResultRead'
    BY <1>1, <1>5 DEF ResultRead
  <1>13. ObjectsInside'
    BY <1>1, <1>8, <1>9, <1>10 DEF ObjectsInside
  <1>14. /\ w \in heap
         /\ \A u \in Threads : ~(Offering(u) /\ fval[u] = w)
         /\ \A u \in Threads : own[u] # w /\ ~(fpc[u] = "d_pool" /\ result[u] = w)
         /\ \A i \in 2 .. Len(que) : i # 2 => data[que[i]] # w
    BY <1>5, <1>8, OnlyQueued
  <1>15. Places(w)' = {<<"result", t>>}
    <2>1. {u \in Threads : fpc'[u] = "d_pool" /\ result'[u] = w} = {t}
      BY <1>1, <1>5, <1>14
    <2>2. \A u \in Threads : ~(Offering(u)' /\ fval'[u] = w) /\ own'[u] # w
      BY <1>1, <1>10, <1>14
    <2>3. \A i \in 2 .. Len(que') : data'[que'[i]] # w
      BY <1>8, <1>9, <1>14
    <2> QED
      BY <2>1, <2>2, <2>3 DEF Places
  <1>16. ASSUME NEW v \in Values, v # w, \A i \in 2 .. Len(que) : data[que[i]] # v
         PROVE  Places(v)' = Places(v)
    <2>1. \A u \in Threads : fpc'[u] = "d_pool" /\ result'[u] = v
                    <=> fpc[u] = "d_pool" /\ result[u] = v
      BY <1>1, <1>5, <1>16
    <2>2. \A i \in 2 .. Len(que') : data'[que'[i]] # v
      BY <1>8, <1>9, <1>16
    <2> QED
      BY <1>1, <1>10, <1>16, <2>1, <2>2, PlacesFrame
  <1>17. ASSUME NEW v \in Values, v # w, NEW j \in 2 .. Len(que), data[que[j]] = v
         PROVE  v \in heap /\ Places(v)' = {<<"queue", j - 1>>}
    <2>1. v \in heap
      BY <1>17, OnlyQueued
    <2>2. /\ \A u \in Threads : ~(Offering(u) /\ fval[u] = v)
          /\ \A u \in Threads : own[u] # v /\ ~(fpc[u] = "d_pool" /\ result[u] = v)
          /\ \A i \in 2 .. Len(que) : i # j => data[que[i]] # v
      BY <1>17, OnlyQueued
    <2>3. j # 2
      BY <1>5, <1>17
    <2>4. \A u \in Threads : ~(fpc'[u] = "d_pool" /\ result'[u] = v)
      BY <1>1, <1>5, <1>17, <2>2
    <2>5. \A u \in Threads : ~(Offering(u)' /\ fval'[u] = v) /\ own'[u] # v
      BY <1>1, <1>10, <2>2
    <2>6. j - 1 \in 2 .. Len(que') /\ data'[que'[j - 1]] = v
      BY <1>8, <1>9, <1>17, <2>3
    <2>7. ASSUME NEW i \in 2 .. Len(que'), data'[que'[i]] = v PROVE i = j - 1
      <3>1. i + 1 = j
        BY <1>8, <1>9, <2>2, <2>7
      <3> QED
        BY <3>1
    <2>8. {i \in 2 .. Len(que') : data'[que'[i]] = v} = {j - 1}
      BY <2>6, <2>7
    <2> QED
      BY <2>1, <2>4, <2>5, <2>8 DEF Places
  <1>18. OnePlace'
    <2> SUFFICES ASSUME NEW v \in Values
                 PROVE  IF v \in heap' THEN \E p \in Places(v)' : Places(v)' = {p}
                                       ELSE Places(v)' = {}
      BY DEF OnePlace
    <2>1. CASE v = w
      BY <1>14, <1>15, <2>1
    <2>2. CASE v # w /\ \A i \in 2 .. Len(que) : data[que[i]] # v
      BY <1>16, <2>2 DEF OnePlace
    <2>3. CASE v # w /\ \E i \in 2 .. Len(que) : data[que[i]] = v
      <3>1. PICK j \in 2 .. Len(que) : data[que[j]] = v
        BY <2>3
      <3>2. v \in heap' /\ Places(v)' = {<<"queue", j - 1>>}
        BY <1>17, <2>3, <3>1
      <3> QED
        BY <3>2
    <2> QED
      BY <2>1, <2>2, <2>3
  <1> QED
    BY <1>11, <1>12, <1>13, <1>18

\* A smart pointer lets its object go, and the object with it.
LEMMA DropKeeps ==
    ASSUME PtrInv, FifoInv', NEW t \in Threads, Drop(t)
    PROVE  PtrInv'
  <1> USE DEF PtrInv
  <1>1. PICK w \in Values : own[t] = w
    BY DEF Drop, PtrTypeOK
  <1>2. /\ UNCHANGED <<que, data, fpc, fval, kind, result>>
        /\ own' = [own EXCEPT ![t] = NoVal] /\ heap' = heap \ {w}
    BY <1>1 DEF Drop, allVars, fifoVars
  <1>3. own'[t] = NoVal /\ \A u \in Threads \ {t} : own'[u] = own[u]
    BY <1>2 DEF PtrTypeOK
  <1>4. ~(\E v \in Values : v = NoVal)
    BY NoValAssumption
  <1>5. PtrTypeOK'
    <2>1. fpc[t] = "idle"
      BY DEF Drop
    <2>2. own' \in [Threads -> Values \cup {NoVal}]
      BY <1>2 DEF PtrTypeOK
    <2>3. \A u \in Threads : fpc[u] = "d_pool" => kind[u] # "scoped" /\ result[u] \in Values
      BY DEF ResultRead
    <2> QED
      BY <1>2, <2>2, <2>3 DEF PtrTypeOK
  <1>6. ResultRead'
    BY <1>2 DEF ResultRead
  <1>7. \A u \in Threads : Offering(u)' = Offering(u)
    BY <1>2 DEF Offering
  <1>8. ObjectsInside'
    BY <1>2, <1>7 DEF ObjectsInside
  <1>9. ASSUME NEW v \in Values, v # w PROVE Places(v)' = Places(v)
    <2>1. \A u \in Threads : own'[u] = v <=> own[u] = v
      BY <1>1, <1>3, <1>4, <1>9
    <2> QED
      BY <1>2, <1>7, <2>1, PlacesFrame
  <1>10. Places(w)' = {}
    <2>1. /\ \A u \in Threads : ~(Offering(u) /\ fval[u] = w)
          /\ \A u \in Threads : ~(fpc[u] = "d_pool" /\ result[u] = w)
          /\ \A u \in Threads \ {t} : own[u] # w
          /\ \A i \in 2 .. Len(que) : data[que[i]] # w
      BY <1>1, OnlyOwned
    <2>2. \A u \in Threads : own'[u] # w
      BY <1>3, <1>4, <2>1
    <2> QED
      BY <1>2, <1>7, <2>1, <2>2 DEF Places
  <1>11. OnePlace'
    BY <1>2, <1>9, <1>10 DEF OnePlace
  <1> QED
    BY <1>5, <1>6, <1>8, <1>11

\* dequeue returns true.  The raw overload's caller deletes the object; the
\* smart pointer takes it and deletes the one it owned, which is another
\* object (fifo.hpp:346-355).
LEMMA DequeuedMoves ==
    ASSUME PtrInv, FifoInv', NEW t \in Threads, DequeuedTo(t)
    PROVE  PtrInv'
  <1> USE DEF PtrInv
  <1>1. fpc \in [Threads -> FifoLabels] /\ fval \in [Threads -> Values \cup {NoVal}]
    BY DEF FifoInv, FifoTypeOK
  <1>2. /\ UNCHANGED <<que, data>>
        /\ \A u \in Threads \ {t} : fpc'[u] = fpc[u] /\ fval'[u] = fval[u]
        /\ fpc[t] = "d_pool" /\ fpc'[t] = "idle"
    BY <1>1 DEF DequeuedTo, PoolReturn, FReturn, FGoto, ResultRead
  <1>3. /\ result' = [result EXCEPT ![t] = NoVal] /\ kind' = [kind EXCEPT ![t] = "raw"]
        /\ result'[t] = NoVal /\ \A u \in Threads \ {t} : result'[u] = result[u]
        /\ kind'[t] = "raw" /\ \A u \in Threads \ {t} : kind'[u] = kind[u]
    BY DEF DequeuedTo, PtrReturn, PtrTypeOK
  <1>4. PICK w \in Values : result[t] = w
    BY <1>2 DEF ResultRead
  <1>5. /\ w \in heap
        /\ \A u \in Threads : ~(Offering(u) /\ fval[u] = w)
        /\ \A i \in 2 .. Len(que) : data[que[i]] # w
        /\ \A u \in Threads \ {t} : ~(fpc[u] = "d_pool" /\ result[u] = w)
        /\ \A u \in Threads : own[u] # w
    BY <1>2, <1>4, OnlyResult
  <1>6. \/ heap' = heap \ {w} /\ own' = own
        \/ heap' = heap \ {own[t]} /\ own' = [own EXCEPT ![t] = w]
    <2>1. kind[t] \in {"raw", "reset"}
      BY DEF PtrTypeOK, ResultRead
    <2> QED
      BY <1>4, <2>1 DEF DequeuedTo, ResetTo
  <1>7. ~Offering(t) /\ \A u \in Threads : Offering(u)' = Offering(u)
    BY <1>2 DEF Offering
  <1>8. PtrTypeOK'
    <2>1. own' \in [Threads -> Values \cup {NoVal}] /\ heap' \subseteq Values
      BY <1>6 DEF PtrTypeOK
    <2>2. /\ result' \in [Threads -> Values \cup {NoVal}]
          /\ kind' \in [Threads -> {"raw", "reset", "scoped"}]
      BY <1>3 DEF PtrTypeOK
    <2>3. \A u \in Threads : fpc'[u] = "d_pool" => kind'[u] # "scoped" /\ result'[u] \in Values
      BY <1>2, <1>3 DEF ResultRead
    <2> QED
      BY <2>1, <2>2, <2>3 DEF PtrTypeOK
  <1>9. ResultRead'
    BY <1>2, <1>3 DEF ResultRead
  <1>10. ObjectsInside'
    BY <1>2, <1>7 DEF ObjectsInside
  <1>11. \A v \in Values, u \in Threads :
            Offering(u)' /\ fval'[u] = v <=> Offering(u) /\ fval[u] = v
    BY <1>2, <1>7
  <1>12. \A u \in Threads : ~(fpc'[u] = "d_pool" /\ result'[u] = w)
    BY <1>2, <1>5, <1>3
  <1>13. ASSUME NEW v \in Values, v # w, \A u \in Threads : own'[u] = v <=> own[u] = v
         PROVE  Places(v)' = Places(v)
    <2>1. \A u \in Threads : fpc'[u] = "d_pool" /\ result'[u] = v
                    <=> fpc[u] = "d_pool" /\ result[u] = v
      BY <1>2, <1>3, <1>4, <1>13
    <2> QED
      BY <1>2, <1>11, <1>13, <2>1, PlacesFrame
  <1>14. CASE heap' = heap \ {w} /\ own' = own
    <2>1. Places(w)' = {}
      BY <1>2, <1>5, <1>11, <1>12, <1>14 DEF Places
    <2>2. OnePlace'
      BY <1>13, <1>14, <2>1 DEF OnePlace
    <2> QED
      BY <1>8, <1>9, <1>10, <2>2
  <1>15. CASE heap' = heap \ {own[t]} /\ own' = [own EXCEPT ![t] = w]
    <2>1. own'[t] = w /\ \A u \in Threads \ {t} : own'[u] = own[u]
      BY <1>15 DEF PtrTypeOK
    <2>2. PICK x : x = own[t]
      OBVIOUS
    <2>3. x # w
      BY <1>5, <2>2
    <2>4. {u \in Threads : own'[u] = w} = {t}
      BY <1>5, <2>1
    <2>5. Places(w)' = {<<"owner", t>>}
      BY <1>2, <1>5, <1>11, <1>12, <2>4 DEF Places
    <2>6. ASSUME x \in Values PROVE Places(x)' = {}
      <3>1. /\ \A u \in Threads : ~(Offering(u) /\ fval[u] = x)
            /\ \A i \in 2 .. Len(que) : data[que[i]] # x
            /\ \A u \in Threads : ~(fpc[u] = "d_pool" /\ result[u] = x)
            /\ \A u \in Threads \ {t} : own[u] # x
        BY <2>2, <2>6, OnlyOwned
      <3>2. \A u \in Threads : own'[u] # x
        BY <2>1, <2>3, <3>1
      <3>3. \A u \in Threads : ~(fpc'[u] = "d_pool" /\ result'[u] = x)
        BY <1>2, <1>3, <3>1
      <3> QED
        BY <1>2, <1>11, <2>6, <3>1, <3>2, <3>3 DEF Places
    <2>7. ASSUME NEW v \in Values, v # w, v # x PROVE Places(v)' = Places(v)
      <3>1. \A u \in Threads : own'[u] = v <=> own[u] = v
        BY <2>1, <2>2, <2>7
      <3> QED
        BY <1>13, <2>7, <3>1
    <2>8. OnePlace'
      <3> SUFFICES ASSUME NEW v \in Values
                   PROVE  IF v \in heap' THEN \E p \in Places(v)' : Places(v)' = {p}
                                         ELSE Places(v)' = {}
        BY DEF OnePlace
      <3>1. CASE v = w
        BY <1>5, <1>15, <2>2, <2>3, <2>5, <3>1
      <3>2. CASE v = x
        BY <1>15, <2>2, <2>6, <3>2
      <3>3. CASE v # w /\ v # x
        BY <1>15, <2>2, <2>7, <3>3 DEF OnePlace
      <3> QED
        BY <3>1, <3>2, <3>3
    <2> QED
      BY <1>8, <1>9, <1>10, <2>8
  <1> QED
    BY <1>6, <1>14, <1>15

-----------------------------------------------------------------------------
(* The theorems about fifo<T*> *)

\* Every step of fifo<T*> keeps the inductive invariant.
LEMMA NextPtrInv ==
    ASSUME "scoped" \notin Kinds, PtrInv, [PtrNext]_everyVar
    PROVE  PtrInv'
  <1>1. FifoInv'
    BY PtrStepIsFifoStep, NextFifoInv DEF PtrInv
  <1>2. CASE UNCHANGED everyVar
    <2>1. UNCHANGED <<que, data, fpc, fval, used, heap, kind, result, own>>
      BY <1>2 DEF everyVar, allVars, ptrVars, fifoVars, vars
    <2>2. PtrTypeOK' /\ ResultRead' /\ \A u \in Threads : Offering(u)' = Offering(u)
      BY <2>1 DEF PtrInv, PtrTypeOK, ResultRead, Offering
    <2> QED
      BY <1>1, <2>1, <2>2, QuietKeeps
  <1>3. ASSUME NEW t \in Threads, PtrStep(t) PROVE PtrInv'
    BY <1>1, <1>3, QuietSteps, QuietCalls, EnqFailKeeps, EnqLinkMoves, DeqCASMoves, DequeuedMoves
       DEF PtrStep
  <1>4. ASSUME NEW t \in Threads, EnqueueObj(t) PROVE PtrInv'
    BY <1>1, <1>4, EnqueueObjKeeps
  <1>5. ASSUME NEW t \in Threads, DequeueTo(t) PROVE PtrInv'
    BY <1>1, <1>5, QuietCalls
  <1>6. ASSUME NEW t \in Threads, Drop(t) PROVE PtrInv'
    BY <1>1, <1>6, DropKeeps
  <1>7. CASE (FifoReserveUnsafe \/ Initialize) /\ UNCHANGED ptrVars
    BY <1>1, <1>7, QuietAlone
  <1> QED
    BY <1>2, <1>3, <1>4, <1>5, <1>6, <1>7 DEF PtrNext

\* PtrInv holds in every state of a fifo<T*> whose dequeue is not called with
\* a scoped_ptr (fifo.hpp:321-421).
THEOREM PtrInvariantHolds ==
    ASSUME "scoped" \notin Kinds
    PROVE  PtrSpec => []PtrInv
  <1>1. PtrInv /\ [PtrNext]_everyVar => PtrInv'
    BY NextPtrInv
  <1> QED
    BY <1>1, InitPtrInv, PTL DEF PtrSpec

\* The variables of fifo<T*> keep their types, and a dequeue that has
\* succeeded has an object to hand over (fifo.hpp:346-355).
THEOREM PtrTypeCorrect ==
    ASSUME "scoped" \notin Kinds
    PROVE  PtrSpec => []PtrTypeOK
  <1>1. PtrInv => PtrTypeOK
    BY DEF PtrInv
  <1> QED
    BY <1>1, PtrInvariantHolds, PTL

\* An object that was enqueued is never lost and never in two hands, whatever
\* the threads do, so it is deleted exactly once (fifo.hpp:236-240 and
\* 346-355).
THEOREM AlwaysObjectOwnedOnce ==
    ASSUME "scoped" \notin Kinds
    PROVE  PtrSpec => []ObjectOwnedOnce
  <1>1. PtrInv => ObjectOwnedOnce
    <2> SUFFICES ASSUME PtrInv, NEW v \in Values
                 PROVE  Cardinality(Places(v)) = IF v \in heap THEN 1 ELSE 0
      BY DEF ObjectOwnedOnce
    <2>1. IF v \in heap THEN \E p \in Places(v) : Places(v) = {p} ELSE Places(v) = {}
      BY DEF PtrInv, OnePlace
    <2>2. CASE v \in heap
      <3>1. PICK p : Places(v) = {p}
        BY <2>1, <2>2
      <3>2. Cardinality({p}) = 1
        BY FS_Singleton
      <3> QED
        BY <2>2, <3>1, <3>2
    <2>3. CASE v \notin heap
      BY <2>1, <2>3, FS_EmptySet
    <2> QED
      BY <2>2, <2>3
  <1> QED
    BY <1>1, PtrInvariantHolds, PTL

\* No two smart pointers own the same object, even inside an operation
\* (fifo.hpp:376-401).
THEOREM AlwaysNoSharedObject ==
    ASSUME "scoped" \notin Kinds
    PROVE  PtrSpec => []NoSharedObject
  <1>1. PtrInv => NoSharedObject
    <2> SUFFICES ASSUME PtrInv, NEW t \in Threads, NEW u \in Threads, t # u, own[t] # NoVal
                 PROVE  own[t] # own[u]
      BY DEF NoSharedObject
    <2>1. own[t] \in Values
      BY DEF PtrInv, PtrTypeOK
    <2> QED
      BY <2>1, OnlyOwned
  <1> QED
    BY <1>1, PtrInvariantHolds, PTL
=============================================================================
