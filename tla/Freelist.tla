------------------------------ MODULE Freelist ------------------------------
(***************************************************************************)
(* boost::lockfree::detail::freelist_stack: the lock-free pool from which  *)
(* stack and fifo take their nodes.  The free nodes are linked through     *)
(* their own first word (freelist_node::next) below the atomic tagged      *)
(* pointer pool_.  Every atomic access and every access to a node's link   *)
(* is a step of its own, so the steps of the threads interleave as they do *)
(* on a machine that executes the code's seq_cst compare_exchange.         *)
(*                                                                         *)
(* The freelist never reads the tag half of a node's link, so next[n] is   *)
(* only its pointer half; while a node is in use the bytes of the T built  *)
(* over it are there instead.                                              *)
(***************************************************************************)
EXTENDS Chain

CONSTANTS
    Threads,
    Garbage,        \* what the bytes of a T can look like when read as a link
    MayAllocate,    \* the template parameter allocate_may_allocate
    SpuriousFail    \* whether compare_exchange_weak may fail spuriously

ASSUME FlagAssumption == MayAllocate \in BOOLEAN /\ SpuriousFail \in BOOLEAN

\* There are bytes in a T.
ASSUME GarbageAssumption == Garbage # {}

VARIABLES
    pool,   \* pool_: the atomic head of the list
    next,   \* next[n]: freelist_node::next of the memory of node n
    os,     \* nodes that belong to the allocator Alloc
    used,   \* nodes that the users of the pool own
    free,   \* history: the free nodes, most recently freed first
    walk,   \* current_ptr of ~freelist_stack, Off while the pool is alive
    pc,     \* pc[t]: the access thread t is about to make
    old,    \* old[t]: the local old_pool
    nxt,    \* nxt[t]: the local new_pool_ptr of allocate
    node    \* node[t]: the node thread t is getting or giving back

vars == <<pool, next, os, used, free, walk, pc, old, nxt, node>>

\* The value of walk while no destructor runs.
Off == "off"

ASSUME OffAssumption == Off \notin Ptr

Labels == {"idle", "a_load", "a_read", "a_cas", "a_new",
           "d_load", "d_set", "d_cas"}

Nil == MkPtr(NULL, 0)

TypeOK ==
    /\ pool \in TPtr
    /\ next \in [Nodes -> Ptr \cup Garbage]
    /\ os \in SUBSET Nodes
    /\ used \in SUBSET Nodes
    /\ free \in Seq(Nodes)
    /\ walk \in Ptr \cup {Off}
    /\ pc \in [Threads -> Labels]
    /\ old \in [Threads -> TPtr]
    /\ nxt \in [Threads -> Ptr \cup Garbage]
    /\ node \in [Threads -> Ptr]

\* freelist_stack(0).  freelist_stack(n) is n ReserveUnsafe steps later.
Init ==
    /\ pool = Nil
    /\ next \in [Nodes -> Garbage]
    /\ os = Nodes
    /\ used = {}
    /\ free = <<>>
    /\ walk = Off
    /\ pc = [t \in Threads |-> "idle"]
    /\ old = [t \in Threads |-> Nil]
    /\ nxt = [t \in Threads |-> NULL]
    /\ node = [t \in Threads |-> NULL]

Goto(t, l) == pc' = [pc EXCEPT ![t] = l]

\* The operation of t is over: its locals are dead.
Return(t) ==
    /\ Goto(t, "idle")
    /\ old' = [old EXCEPT ![t] = Nil]
    /\ nxt' = [nxt EXCEPT ![t] = NULL]
    /\ node' = [node EXCEPT ![t] = NULL]

Alive == walk = Off

Quiescent == \A t \in Threads : pc[t] = "idle"

-----------------------------------------------------------------------------
(* allocate and construct *)

\* A thread calls construct, which calls allocate.
Construct(t) ==
    /\ Alive
    /\ pc[t] = "idle"
    /\ Goto(t, "a_load")
    /\ UNCHANGED <<pool, next, os, used, free, walk, old, nxt, node>>

\* old_pool = pool_.load(memory_order_consume)
AllocLoad(t) ==
    /\ pc[t] = "a_load"
    /\ old' = [old EXCEPT ![t] = pool]
    /\ Goto(t, "a_read")
    /\ UNCHANGED <<pool, next, os, used, free, walk, nxt, node>>

\* if (!old_pool.get_ptr()) with a fixed-size pool: return 0.  When the
\* allocator has no memory left Alloc::allocate(1) throws and the operation
\* ends in the same way, without a node.
AllocFail(t) ==
    /\ pc[t] = "a_read"
    /\ old[t].ptr = NULL
    /\ MayAllocate => os = {}
    /\ Return(t)
    /\ UNCHANGED <<pool, next, os, used, free, walk>>

\* if (!old_pool.get_ptr()) with a growing pool: return Alloc::allocate(1).
AllocGrow(t) ==
    /\ pc[t] = "a_read"
    /\ old[t].ptr = NULL
    /\ MayAllocate
    /\ \E n \in os : os' = os \ {n} /\ node' = [node EXCEPT ![t] = n]
    /\ Goto(t, "a_new")
    /\ UNCHANGED <<pool, next, used, free, walk, old, nxt>>

\* new_pool_ptr = old_pool->next.get_ptr(): the node may no longer be free.
AllocRead(t) ==
    /\ pc[t] = "a_read"
    /\ old[t].ptr # NULL
    /\ nxt' = [nxt EXCEPT ![t] = next[old[t].ptr]]
    /\ Goto(t, "a_cas")
    /\ UNCHANGED <<pool, next, os, used, free, walk, old, node>>

\* Mutated forms of the next definition: the tag is not incremented, or not
\* cut to its width.
AllocTagKept(t) == old[t].tag
AllocTagWide(t) == old[t].tag + 1

\* The tag of the pointer that allocate stores.
AllocTag(t) == IncTag(old[t].tag)

\* A mutated form of the next definition: the new head is returned instead of
\* the old one.
AllocCASReturnsNew(t) ==
    /\ pc[t] = "a_cas"
    /\ pool = old[t]
    /\ pool' = MkPtr(nxt[t], AllocTag(t))
    /\ free' = Tail(free)
    /\ node' = [node EXCEPT ![t] = nxt[t]]
    /\ Goto(t, "a_new")
    /\ UNCHANGED <<next, os, used, walk, old, nxt>>

\* pool_.compare_exchange_weak(old_pool, new_pool) succeeds
AllocCAS(t) ==
    /\ pc[t] = "a_cas"
    /\ pool = old[t]
    /\ pool' = MkPtr(nxt[t], AllocTag(t))
    /\ free' = Tail(free)
    /\ node' = [node EXCEPT ![t] = old[t].ptr]
    /\ Goto(t, "a_new")
    /\ UNCHANGED <<next, os, used, walk, old, nxt>>

\* ... or fails, and loads the current value of pool_ into old_pool
AllocRetry(t) ==
    /\ pc[t] = "a_cas"
    /\ pool # old[t] \/ SpuriousFail
    /\ old' = [old EXCEPT ![t] = pool]
    /\ nxt' = [nxt EXCEPT ![t] = NULL]
    /\ Goto(t, "a_read")
    /\ UNCHANGED <<pool, next, os, used, free, walk, node>>

\* new(node) T(arg): the T is built over the node and leaves g where its link
\* was; construct returns.
AllocNew(t, g) ==
    /\ pc[t] = "a_new"
    /\ next' = [next EXCEPT ![node[t]] = g]
    /\ used' = used \cup {node[t]}
    /\ Return(t)
    /\ UNCHANGED <<pool, os, free, walk>>

\* g is written to the word of node n that the pool uses as its link.
PutWord(n, g) ==
    /\ next' = [next EXCEPT ![n] = g]
    /\ UNCHANGED <<pool, os, used, free, walk, pc, old, nxt, node>>

\* The users may write to the nodes that they own.
Write(n, g) ==
    /\ Alive
    /\ n \in used
    /\ PutWord(n, g)

-----------------------------------------------------------------------------
(* deallocate, destruct and reserve *)

\* destruct(n): ~T is trivial, and deallocate is called.
GiveBack(t, n) ==
    /\ used' = used \ {n}
    /\ node' = [node EXCEPT ![t] = n]
    /\ Goto(t, "d_load")
    /\ UNCHANGED <<pool, next, os, free, walk, old, nxt>>

\* The users may give back the nodes that they own.
Destruct(t, n) ==
    /\ Alive
    /\ pc[t] = "idle"
    /\ n \in used
    /\ GiveBack(t, n)

\* One iteration of reserve: Alloc::allocate(1), then deallocate.
Reserve(t) ==
    /\ Alive
    /\ pc[t] = "idle"
    /\ \E n \in os : os' = os \ {n} /\ node' = [node EXCEPT ![t] = n]
    /\ Goto(t, "d_load")
    /\ UNCHANGED <<pool, next, used, free, walk, old, nxt>>

\* old_pool = pool_.load(memory_order_consume)
DeallocLoad(t) ==
    /\ pc[t] = "d_load"
    /\ old' = [old EXCEPT ![t] = pool]
    /\ Goto(t, "d_set")
    /\ UNCHANGED <<pool, next, os, used, free, walk, nxt, node>>

\* new_pool->next.set_ptr(old_pool.get_ptr())
DeallocSet(t) ==
    /\ pc[t] = "d_set"
    /\ next' = [next EXCEPT ![node[t]] = old[t].ptr]
    /\ Goto(t, "d_cas")
    /\ UNCHANGED <<pool, os, used, free, walk, old, nxt, node>>

\* pool_.compare_exchange_weak(old_pool, new_pool) succeeds; the new head
\* keeps the old tag
DeallocCAS(t) ==
    /\ pc[t] = "d_cas"
    /\ pool = old[t]
    /\ pool' = MkPtr(node[t], old[t].tag)
    /\ free' = <<node[t]>> \o free
    /\ Return(t)
    /\ UNCHANGED <<next, os, used, walk>>

\* A mutated form of the next definition: the link is not set again.
DeallocRetryKeepsLink(t) ==
    /\ pc[t] = "d_cas"
    /\ pool # old[t] \/ SpuriousFail
    /\ old' = [old EXCEPT ![t] = pool]
    /\ UNCHANGED <<pool, next, os, used, free, walk, pc, nxt, node>>

\* ... or fails: the loop sets the link again from the value it loaded.
DeallocRetry(t) ==
    /\ pc[t] = "d_cas"
    /\ pool # old[t] \/ SpuriousFail
    /\ old' = [old EXCEPT ![t] = pool]
    /\ Goto(t, "d_set")
    /\ UNCHANGED <<pool, next, os, used, free, walk, nxt, node>>

-----------------------------------------------------------------------------
(* The operations that are not thread-safe run while no other one does.    *)

\* construct_unsafe on a pool that is not empty: allocate_unsafe, new T, which
\* leaves g where the link was.
ConstructUnsafe(g) ==
    /\ Alive /\ Quiescent
    /\ pool.ptr # NULL
    /\ pool' = MkPtr(next[pool.ptr], IncTag(pool.tag))
    /\ used' = used \cup {pool.ptr}
    /\ free' = Tail(free)
    /\ next' = [next EXCEPT ![pool.ptr] = g]
    /\ UNCHANGED <<os, walk, pc, old, nxt, node>>

\* construct_unsafe on an empty pool that may grow.  (One that may not
\* returns 0 and changes nothing.)
GrowUnsafe(g) ==
    /\ Alive /\ Quiescent
    /\ pool.ptr = NULL /\ MayAllocate
    /\ \E n \in os :
        /\ os' = os \ {n}
        /\ used' = used \cup {n}
        /\ next' = [next EXCEPT ![n] = g]
    /\ UNCHANGED <<pool, free, walk, pc, old, nxt, node>>

\* deallocate_unsafe(n)
PushUnsafe(n) ==
    /\ pool' = MkPtr(n, pool.tag)
    /\ next' = [next EXCEPT ![n] = pool.ptr]
    /\ free' = <<n>> \o free
    /\ UNCHANGED <<walk, pc, old, nxt, node>>

\* destruct_unsafe(n)
GiveBackUnsafe(n) ==
    /\ PushUnsafe(n)
    /\ used' = used \ {n}
    /\ UNCHANGED os

\* The users may give back the nodes that they own while they are alone.
DestructUnsafe(n) ==
    /\ Alive /\ Quiescent
    /\ n \in used
    /\ GiveBackUnsafe(n)

\* One iteration of reserve_unsafe.
ReserveUnsafe ==
    /\ Alive /\ Quiescent
    /\ \E n \in os : PushUnsafe(n) /\ os' = os \ {n}
    /\ UNCHANGED used

\* ~freelist_stack: current = pool_.
BeginDestroy ==
    /\ Alive
    /\ walk' = pool.ptr
    /\ UNCHANGED <<pool, next, os, used, free, pc, old, nxt, node>>

\* The users may destroy the pool when they have given every node back.
Destroy ==
    /\ Quiescent
    /\ used = {}
    /\ BeginDestroy

\* A mutated form of the next definition: the last node is not deallocated.
DestroyStepLeavesLast ==
    /\ walk \in Nodes
    /\ walk' = next[walk]
    /\ os' = IF next[walk] = NULL THEN os ELSE os \cup {walk}
    /\ free' = Tail(free)
    /\ UNCHANGED <<pool, next, used, pc, old, nxt, node>>

\* while (current): current = current_ptr->next, Alloc::deallocate.
DestroyStep ==
    /\ walk \in Nodes
    /\ walk' = next[walk]
    /\ os' = os \cup {walk}
    /\ free' = Tail(free)
    /\ UNCHANGED <<pool, next, used, pc, old, nxt, node>>

\* The storage is used for a new freelist_stack(0).
Recreate ==
    /\ walk = NULL
    /\ walk' = Off
    /\ pool' = Nil
    /\ UNCHANGED <<next, os, used, free, pc, old, nxt, node>>

-----------------------------------------------------------------------------
\* One step of an operation that thread t has begun.
Step(t) ==
    \/ AllocLoad(t) \/ AllocFail(t) \/ AllocGrow(t) \/ AllocRead(t)
    \/ AllocCAS(t) \/ AllocRetry(t) \/ \E g \in Garbage : AllocNew(t, g)
    \/ DeallocLoad(t) \/ DeallocSet(t) \/ DeallocCAS(t) \/ DeallocRetry(t)

\* What the users of the pool and the pool itself can do.
PoolStep ==
    \/ \E t \in Threads :
        \/ Step(t) \/ Construct(t) \/ Reserve(t)
        \/ \E n \in Nodes : Destruct(t, n)
    \/ \E n \in Nodes, g \in Garbage : Write(n, g)
    \/ \E g \in Garbage : ConstructUnsafe(g) \/ GrowUnsafe(g)
    \/ \E n \in Nodes : DestructUnsafe(n)
    \/ ReserveUnsafe \/ Destroy \/ DestroyStep \/ Recreate

\* Thread t holds a copy of pool_ that its compare_exchange will use.
Watching(t) == pc[t] \in {"a_read", "a_cas"}

\* The environment assumption of tagged pointers: no thread is suspended
\* inside allocate while the others allocate so often that the tag comes
\* round to the value it read (2^16 or 2^64 allocations in the code).
TagFresh ==
    \A t \in Threads :
        Watching(t) /\ pool'.tag # pool.tag => pool'.tag # old[t].tag

Next == PoolStep /\ TagFresh

Spec == Init /\ [][Next]_vars

-----------------------------------------------------------------------------
(* Properties *)

\* The atomic head and the links are exactly the list of the free nodes:
\* the list never loses its tail, gains a node that is in use, or closes on
\* itself, whatever stale links allocate has read (freelist.hpp:117-171).
ListIntact == IsChain(IF Alive THEN pool.ptr ELSE walk, next, free)

\* Thread t has a node in its hands: between taking it and returning it from
\* construct, or between the call of deallocate and putting it on the list.
Carrying(t) == pc[t] \in {"a_new", "d_load", "d_set", "d_cas"}

\* Every node is in exactly one place: with the allocator, on the list, with
\* the users or in the hands of one thread.  So no two calls of allocate
\* return the same node, and none is lost (freelist.hpp:117-171).
OneOwner ==
    /\ os \cap Range(free) = {}
    /\ used \cap (os \cup Range(free)) = {}
    /\ \A t \in Threads : Carrying(t) =>
        /\ node[t] \in Nodes \ (os \cup Range(free) \cup used)
        /\ \A u \in Threads \ {t} : Carrying(u) => node[u] # node[t]
    /\ \A n \in Nodes \ (os \cup Range(free) \cup used) :
        \E t \in Threads : Carrying(t) /\ node[t] = n

\* The destructor gives each node back to the allocator once and leaves
\* none behind (freelist.hpp:185-195).
DestroyedOnce ==
    /\ walk \in Nodes => walk \notin os
    /\ walk = NULL => os = Nodes

\* A compare_exchange of allocate that is going to succeed uses the link of
\* the node it takes, although it was read earlier: the tag rules out every
\* history in which the link changed in between (freelist.hpp:129-132).
SnapshotValid ==
    \A t \in Threads :
        /\ Watching(t) /\ old[t].ptr # NULL /\ old[t].tag = pool.tag
                => old[t].ptr \in Range(free)
        /\ pc[t] = "a_cas" /\ old[t].tag = pool.tag
                => nxt[t] = next[old[t].ptr]

\* What an operation in progress knows: it never reads a link through the
\* null pointer, the link it is about to publish is the head it will compare
\* with, and no destructor runs meanwhile.
LocalsValid ==
    /\ \A t \in Threads :
        /\ pc[t] = "a_cas" => old[t].ptr # NULL
        /\ pc[t] = "d_cas" => next[node[t]] = old[t].ptr
        /\ ~Alive => pc[t] = "idle"
    /\ ~Alive => used = {}

\* The inductive invariant.
IInv == TypeOK /\ ListIntact /\ OneOwner /\ SnapshotValid /\ LocalsValid

\* How far an operation is that is at label l with old_pool = o: an allocate
\* that has seen an empty pool is committed to not taking a node from it.
Status(l, o) ==
    CASE l = "idle" -> "none"
      [] l = "a_read" -> IF o.ptr = NULL THEN "empty" ELSE "alloc"
      [] l \in {"a_load", "a_cas"} -> "alloc"
      [] l = "a_new" -> "taken"
      [] OTHER -> "free"

PoolCall == [t \in Threads |-> Status(pc[t], old[t])]

PoolArg ==
    [t \in Threads |-> IF Carrying(t) THEN node[t] ELSE NULL]

Pool == INSTANCE NodePool WITH
    avail <- Range(free), call <- PoolCall, arg <- PoolArg, dead <- ~Alive

\* The freelist is a pool: it implements NodePool, step by step.
PoolSpec == Pool!Spec
=============================================================================
