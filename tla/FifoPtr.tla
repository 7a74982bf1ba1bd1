------------------------------ MODULE FifoPtr ------------------------------
(***************************************************************************)
(* boost::lockfree::fifo<T*>: the fifo of pointers, whose dequeue also     *)
(* takes a smart pointer.  Its users create an object, enqueue the pointer *)
(* to it and forget it; the thread that dequeues the pointer owns the      *)
(* object from then on.  All steps inside the queue are the steps of Fifo, *)
(* whose Values are here the addresses of objects.  Closing the queue and  *)
(* the operations that are not thread-safe are inherited unchanged and     *)
(* left to Fifo.                                                           *)
(***************************************************************************)
EXTENDS Fifo, FiniteSets

CONSTANT
    Kinds       \* the overloads of dequeue that are called: "raw" for T*,
                \* "reset" for auto_ptr and shared_ptr, "scoped" for scoped_ptr

ASSUME KindsAssumption == Kinds \subseteq {"raw", "reset", "scoped"}

VARIABLES
    heap,       \* the objects that have been created and not deleted
    kind,       \* kind[t]: the overload of dequeue that t has called last
    result,     \* result[t]: the local result of dequeue_smart_ptr, or the
                \* pointer variable of a caller of dequeue(T*&)
    own         \* own[t]: what the smart pointer of t owns

ptrVars == <<heap, kind, result, own>>

everyVar == <<allVars, ptrVars>>

PtrTypeOK ==
    /\ heap \subseteq Values
    /\ kind \in [Threads -> {"raw", "reset", "scoped"}]
    /\ result \in [Threads -> Values \cup {NoVal}]
    /\ own \in [Threads -> Values \cup {NoVal}]
    /\ \A t \in Threads :
        fpc[t] = "d_pool" => (IF kind[t] = "scoped" THEN own ELSE result)[t] \in Values

PtrInit ==
    /\ FifoInit
    /\ heap = {}
    /\ kind = [t \in Threads |-> "raw"]
    /\ result = [t \in Threads |-> NoVal]
    /\ own = [t \in Threads |-> NoVal]

\* enqueue(new T)
EnqueueObj(t) ==
    /\ Enqueue(t)
    /\ fval'[t] \notin heap
    /\ heap' = heap \cup {fval'[t]}
    /\ UNCHANGED <<kind, result, own>>

\* enqueue returns false: the caller deletes the object.
EnqFailObj(t) ==
    /\ EnqFail(t)
    /\ heap' = heap \ {fval[t]}
    /\ UNCHANGED <<kind, result, own>>

\* One of the overloads of dequeue is called; result is null.
DequeueTo(t) ==
    /\ Dequeue(t)
    /\ \E k \in Kinds : kind' = [kind EXCEPT ![t] = k]
    /\ UNCHANGED <<heap, result, own>>

\* A mutated form of the next definition: the data is that of the dummy node.
DeqDataToDummy(t) ==
    /\ DeqData(t)
    /\ result' = [result EXCEPT ![t] = data[fhead[t].ptr]]
    /\ UNCHANGED <<heap, kind, own>>

\* ret = next_ptr->data, before it is known whether the dequeue succeeds.
\* For a scoped_ptr the reference ret is the smart pointer itself.
DeqDataTo(t) ==
    LET ret == data[fnext[t].ptr] IN
    /\ DeqData(t)
    /\ IF kind[t] = "scoped"
       THEN own' = [own EXCEPT ![t] = ret] /\ UNCHANGED result
       ELSE result' = [result EXCEPT ![t] = ret] /\ UNCHANGED own
    /\ UNCHANGED <<heap, kind>>

\* ptr.reset(result): what the smart pointer owned is deleted.
ResetTo(t) ==
    /\ heap' = heap \ {own[t]}
    /\ own' = [own EXCEPT ![t] = result[t]]

\* The local of the call is dead, and which overload it was.
PtrReturn(t) ==
    /\ result' = [result EXCEPT ![t] = NoVal]
    /\ kind' = [kind EXCEPT ![t] = "raw"]

\* A mutated form of the next definition: the result of dequeue is not tested
\* before ptr.reset.
DeqFailResets(t) ==
    /\ DeqFail(t)
    /\ IF kind[t] = "reset" THEN ResetTo(t) ELSE UNCHANGED <<heap, own>>
    /\ PtrReturn(t)

\* dequeue returns false.
DeqFailTo(t) ==
    /\ DeqFail(t)
    /\ PtrReturn(t)
    /\ UNCHANGED <<heap, own>>

\* dequeue returns true: dequeue_smart_ptr calls reset, the caller of
\* dequeue(T*&) uses the object and deletes it.
DequeuedTo(t) ==
    /\ PoolReturn(t)
    /\ CASE kind[t] = "reset" -> ResetTo(t)
         [] kind[t] = "raw" -> heap' = heap \ {result[t]} /\ UNCHANGED own
         [] kind[t] = "scoped" -> UNCHANGED <<heap, own>>
    /\ PtrReturn(t)

\* The smart pointer of t is destroyed, and t makes a new one.
Drop(t) ==
    /\ fpc[t] = "idle" /\ own[t] # NoVal
    /\ heap' = heap \ {own[t]}
    /\ own' = [own EXCEPT ![t] = NoVal]
    /\ UNCHANGED <<allVars, kind, result>>

-----------------------------------------------------------------------------
\* One step of an operation that thread t has begun.
PtrStep(t) ==
    \/ /\ \/ InPool(t) \/ EnqNew(t) \/ EnqTail(t) \/ EnqNext(t) \/ EnqCheck(t)
          \/ EnqLink(t) \/ EnqRetry(t) \/ EnqHelp(t) \/ EnqDone(t)
          \/ DeqHead(t) \/ DeqTail(t) \/ DeqNext(t) \/ DeqCheck(t)
          \/ DeqHelp(t) \/ DeqCAS(t) \/ DeqRetry(t)
       /\ UNCHANGED ptrVars
    \/ EnqFailObj(t) \/ DeqDataTo(t) \/ DeqFailTo(t) \/ DequeuedTo(t)

PtrNext ==
    /\ \/ \E t \in Threads : PtrStep(t) \/ EnqueueObj(t) \/ DequeueTo(t) \/ Drop(t)
       \/ (FifoReserveUnsafe \/ Initialize) /\ UNCHANGED ptrVars
    /\ TagFresh
    /\ FifoFresh

PtrSpec == PtrInit /\ [][PtrNext]_everyVar

\* Some thread that is inside an operation is run.
PtrFairSpec ==
    /\ PtrSpec
    /\ WF_everyVar((\E t \in Threads : PtrStep(t)) /\ TagFresh /\ FifoFresh)

-----------------------------------------------------------------------------
(* Properties *)

\* Thread t is inside an enqueue that has not linked its value.
Offering(t) ==
    fpc[t] \in {"e_pool", "e_tail", "e_next", "e_check", "e_link", "e_help"}

\* The places from which object v can be reached: its thread has not linked
\* it yet, a node of the queue, the result of a dequeue that has succeeded, or
\* a smart pointer.
Places(v) ==
    {<<"enqueue", t>> : t \in {t \in Threads : Offering(t) /\ fval[t] = v}}
    \cup {<<"queue", i>> : i \in {i \in 2 .. Len(que) : data[que[i]] = v}}
    \cup {<<"result", t>> : t \in {t \in Threads : fpc[t] = "d_pool" /\ result[t] = v}}
    \cup {<<"owner", t>> : t \in {t \in Threads : own[t] = v}}

\* An object that was enqueued is never lost and never in two hands, so it is
\* deleted exactly once: what dequeue reads before its compare_exchange is
\* used only if that succeeds (fifo.hpp:236-240 and 346-355).
ObjectOwnedOnce ==
    \A v \in Values : Cardinality(Places(v)) = IF v \in heap THEN 1 ELSE 0

\* Each object is written to the one location that the dequeue which was
\* successful was given: between operations no two smart pointers own the same
\* object (fifo.hpp:376-401).
NoSharedObject ==
    \A t, u \in Threads :
        t # u /\ fpc[t] = "idle" /\ fpc[u] = "idle"
            => own[t] = NoVal \/ own[t] # own[u]

\* What an enqueue brings and the queue holds are objects; only the dummy node
\* has none (fifo.hpp:156-243).
ObjectsInside ==
    /\ \A t \in Threads : Offering(t) => fval[t] \in Values
    /\ \A i \in 2 .. Len(que) : data[que[i]] \in Values

\* Without the overload for scoped_ptr, what dequeue has read is in result and
\* nowhere else (fifo.hpp:346-355).
ResultRead ==
    \A t \in Threads :
        /\ kind[t] # "scoped"
        /\ fpc[t] \in {"d_cas", "d_pool"} => result[t] = fval[t]
        /\ fpc[t] = "d_pool" => result[t] \in Values
        /\ fpc[t] \notin {"r_pool", "u_link"}

\* ObjectOwnedOnce without counting.
OnePlace ==
    \A v \in Values :
        IF v \in heap THEN \E p \in Places(v) : Places(v) = {p} ELSE Places(v) = {}

\* The inductive invariant for the overloads other than the one for
\* scoped_ptr.
PtrInv == FifoInv /\ PtrTypeOK /\ ObjectsInside /\ ResultRead /\ OnePlace
=============================================================================
