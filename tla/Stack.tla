------------------------------- MODULE Stack -------------------------------
(***************************************************************************)
(* boost::lockfree::stack: a Treiber stack with tagged pointers whose      *)
(* nodes come from a freelist_stack.  The pool is not abstracted: every    *)
(* step of pool.construct and pool.destruct is the step of Freelist, and   *)
(* the first word of a node is the link of the stack or the link of the    *)
(* pool, depending on where the node is.                                   *)
(*                                                                         *)
(* Thread t runs the code of the stack at label spc[t]; while it is inside *)
(* the pool, pc[t] of Freelist says where.                                 *)
(***************************************************************************)
EXTENDS Freelist

CONSTANTS
    Values,     \* the values of T
    NoVal       \* no value: the contents of a node without a T

ASSUME NoValAssumption == NoVal \notin Values

\* A node of the stack starts with its link, so what the pool finds in a node
\* in use includes every pointer.
ASSUME LinkAssumption == Ptr \subseteq Garbage

VARIABLES
    tos,        \* the atomic top of the stack
    val,        \* val[n]: node::v of node n
    stk,        \* history: the nodes on the stack, the top first
    closing,    \* ~stack is running
    spc,        \* spc[t]: the step of the stack's code thread t is at
    sold,       \* sold[t]: the local old_tos
    snxt,       \* snxt[t]: the local new_tos_ptr of pop
    snode,      \* snode[t]: the local newnode of push
    sval        \* sval[t]: the argument v of push, the result ret of pop

stackVars == <<tos, val, stk, closing, spc, sold, snxt, snode, sval>>

allVars == <<vars, stackVars>>

StackLabels == {"idle", "p_pool", "p_load", "p_set", "p_cas",
                "o_load", "o_read", "o_cas", "o_val", "o_pool", "r_pool"}

StackTypeOK ==
    /\ tos \in TPtr
    /\ val \in [Nodes -> Values \cup {NoVal}]
    /\ stk \in Seq(Nodes)
    /\ closing \in BOOLEAN
    /\ spc \in [Threads -> StackLabels]
    /\ sold \in [Threads -> TPtr]
    /\ snxt \in [Threads -> Ptr \cup Garbage]
    /\ snode \in [Threads -> Ptr]
    /\ sval \in [Threads -> Values \cup {NoVal}]

\* stack(): tos(tagged_node_ptr(NULL, 0)) and an empty pool.
StackInit ==
    /\ Init
    /\ tos = Nil
    /\ val = [n \in Nodes |-> NoVal]
    /\ stk = <<>>
    /\ closing = FALSE
    /\ spc = [t \in Threads |-> "idle"]
    /\ sold = [t \in Threads |-> Nil]
    /\ snxt = [t \in Threads |-> NULL]
    /\ snode = [t \in Threads |-> NULL]
    /\ sval = [t \in Threads |-> NoVal]

SGoto(t, l) == spc' = [spc EXCEPT ![t] = l]

\* The operation of t is over: its locals are dead.
SReturn(t) ==
    /\ SGoto(t, "idle")
    /\ sold' = [sold EXCEPT ![t] = Nil]
    /\ snxt' = [snxt EXCEPT ![t] = NULL]
    /\ snode' = [snode EXCEPT ![t] = NULL]
    /\ sval' = [sval EXCEPT ![t] = NoVal]

SIdle == \A t \in Threads : spc[t] = "idle"

\* A thread may call an operation.
Ready(t) == spc[t] = "idle" /\ ~closing

-----------------------------------------------------------------------------
(* push *)

\* push(v) calls pool.construct(v).
Push(t) ==
    /\ Ready(t)
    /\ Construct(t)
    /\ \E v \in Values : sval' = [sval EXCEPT ![t] = v]
    /\ SGoto(t, "p_pool")
    /\ UNCHANGED <<tos, val, stk, closing, sold, snxt, snode>>

\* The steps inside pool.construct, pool.destruct and pool.reserve.
InPool(t) ==
    /\ \/ AllocLoad(t) \/ AllocGrow(t) \/ AllocRead(t) \/ AllocCAS(t)
       \/ AllocRetry(t) \/ DeallocLoad(t) \/ DeallocSet(t) \/ DeallocRetry(t)
    /\ UNCHANGED stackVars

\* if (newnode == 0) return false
PushFail(t) ==
    /\ spc[t] = "p_pool"
    /\ AllocFail(t)
    /\ SReturn(t)
    /\ UNCHANGED <<tos, val, stk, closing>>

\* construct returns the node.  node(v) copies v and leaves next as it was.
PushNew(t) ==
    /\ spc[t] = "p_pool"
    /\ pc[t] = "a_new"
    /\ AllocNew(t, next[node[t]])
    /\ val' = [val EXCEPT ![node[t]] = sval[t]]
    /\ snode' = [snode EXCEPT ![t] = node[t]]
    /\ SGoto(t, "p_load")
    /\ UNCHANGED <<tos, stk, closing, sold, snxt, sval>>

\* old_tos = tos.load(memory_order_relaxed)
PushLoad(t) ==
    /\ spc[t] = "p_load"
    /\ sold' = [sold EXCEPT ![t] = tos]
    /\ SGoto(t, "p_set")
    /\ UNCHANGED <<vars, tos, val, stk, closing, snxt, snode, sval>>

\* newnode->next.set_ptr(old_tos.get_ptr())
PushSet(t) ==
    /\ spc[t] = "p_set"
    /\ PutWord(snode[t], sold[t].ptr)
    /\ SGoto(t, "p_cas")
    /\ UNCHANGED <<tos, val, stk, closing, sold, snxt, snode, sval>>

\* A mutated form of the next definition: the loop goes on after a success.
PushCASGoesOn(t) ==
    /\ spc[t] = "p_cas"
    /\ tos = sold[t]
    /\ tos' = MkPtr(snode[t], sold[t].tag)
    /\ stk' = <<snode[t]>> \o stk
    /\ SGoto(t, "p_set")
    /\ UNCHANGED <<vars, val, closing, sold, snxt, snode, sval>>

\* tos.compare_exchange_weak(old_tos, new_tos) succeeds: return true
PushCAS(t) ==
    /\ spc[t] = "p_cas"
    /\ tos = sold[t]
    /\ tos' = MkPtr(snode[t], sold[t].tag)
    /\ stk' = <<snode[t]>> \o stk
    /\ SReturn(t)
    /\ UNCHANGED <<vars, val, closing>>

\* A mutated form of the next definition: tos is not loaded again.
PushRetryBlind(t) ==
    /\ spc[t] = "p_cas"
    /\ tos # sold[t] \/ SpuriousFail
    /\ SGoto(t, "p_set")
    /\ UNCHANGED <<vars, tos, val, stk, closing, sold, snxt, snode, sval>>

\* ... or fails: the link is set again from the value it loaded
PushRetry(t) ==
    /\ spc[t] = "p_cas"
    /\ tos # sold[t] \/ SpuriousFail
    /\ sold' = [sold EXCEPT ![t] = tos]
    /\ SGoto(t, "p_set")
    /\ UNCHANGED <<vars, tos, val, stk, closing, snxt, snode, sval>>

-----------------------------------------------------------------------------
(* pop *)

Pop(t) ==
    /\ Ready(t)
    /\ Alive
    /\ SGoto(t, "o_load")
    /\ UNCHANGED <<vars, tos, val, stk, closing, sold, snxt, snode, sval>>

\* old_tos = tos.load(memory_order_consume)
PopLoad(t) ==
    /\ spc[t] = "o_load"
    /\ sold' = [sold EXCEPT ![t] = tos]
    /\ SGoto(t, "o_read")
    /\ UNCHANGED <<vars, tos, val, stk, closing, snxt, snode, sval>>

\* if (!old_tos.get_ptr()) return false
PopFail(t) ==
    /\ spc[t] = "o_read"
    /\ sold[t].ptr = NULL
    /\ SReturn(t)
    /\ UNCHANGED <<vars, tos, val, stk, closing>>

\* new_tos_ptr = old_tos->next.get_ptr(): the node may have left the stack
PopRead(t) ==
    /\ spc[t] = "o_read"
    /\ sold[t].ptr # NULL
    /\ snxt' = [snxt EXCEPT ![t] = next[sold[t].ptr]]
    /\ SGoto(t, "o_cas")
    /\ UNCHANGED <<vars, tos, val, stk, closing, sold, snode, sval>>

\* Mutated forms of the next definition: the tag is not incremented, or not
\* cut to its width.
PopTagKept(t) == sold[t].tag
PopTagWide(t) == sold[t].tag + 1

\* The tag of the pointer that pop stores.
PopTag(t) == IncTag(sold[t].tag)

\* tos.compare_exchange_weak(old_tos, new_tos) succeeds
PopCAS(t) ==
    /\ spc[t] = "o_cas"
    /\ tos = sold[t]
    /\ tos' = MkPtr(snxt[t], PopTag(t))
    /\ stk' = Tail(stk)
    /\ snxt' = [snxt EXCEPT ![t] = NULL]
    /\ SGoto(t, "o_val")
    /\ UNCHANGED <<vars, val, closing, sold, snode, sval>>

\* ... or fails, and loads the current value of tos
PopRetry(t) ==
    /\ spc[t] = "o_cas"
    /\ tos # sold[t] \/ SpuriousFail
    /\ sold' = [sold EXCEPT ![t] = tos]
    /\ snxt' = [snxt EXCEPT ![t] = NULL]
    /\ SGoto(t, "o_read")
    /\ UNCHANGED <<vars, tos, val, stk, closing, snode, sval>>

\* A mutated form of the next definition: the node is not given back.
PopValueLeaks(t) ==
    /\ spc[t] = "o_val"
    /\ val' = [val EXCEPT ![sold[t].ptr] = NoVal]
    /\ SReturn(t)
    /\ UNCHANGED <<vars, tos, stk, closing>>

\* ret = old_tos->v, then pool.destruct, which ends the life of the value
PopValue(t) ==
    /\ spc[t] = "o_val"
    /\ sval' = [sval EXCEPT ![t] = val[sold[t].ptr]]
    /\ val' = [val EXCEPT ![sold[t].ptr] = NoVal]
    /\ GiveBack(t, sold[t].ptr)
    /\ sold' = [sold EXCEPT ![t] = Nil]
    /\ SGoto(t, "o_pool")
    /\ UNCHANGED <<tos, stk, closing, snxt, snode>>

\* pool.reserve(1)
StackReserve(t) ==
    /\ Ready(t)
    /\ Reserve(t)
    /\ SGoto(t, "r_pool")
    /\ UNCHANGED <<tos, val, stk, closing, sold, snxt, snode, sval>>

\* destruct or reserve of the pool is over, and with it the operation.
PoolReturn(t) ==
    /\ spc[t] \in {"o_pool", "r_pool"}
    /\ DeallocCAS(t)
    /\ SReturn(t)
    /\ UNCHANGED <<tos, val, stk, closing>>

-----------------------------------------------------------------------------
(* The operations that are not thread-safe, and the destructor. *)

\* push_unsafe(v): pool.construct_unsafe, then the link and tos are stored.
\* Without a node it returns false and changes nothing.
StackPushUnsafe ==
    /\ ~closing /\ SIdle
    /\ ConstructUnsafe(tos.ptr) \/ GrowUnsafe(tos.ptr)
    /\ \E n \in used' \ used :
        /\ tos' = MkPtr(n, tos.tag)
        /\ stk' = <<n>> \o stk
        /\ \E v \in Values : val' = [val EXCEPT ![n] = v]
    /\ UNCHANGED <<closing, spc, sold, snxt, snode, sval>>

\* pop_unsafe on a stack that is not empty.
StackPopUnsafe ==
    /\ SIdle
    /\ tos.ptr # NULL
    /\ tos' = MkPtr(next[tos.ptr], IncTag(tos.tag))
    /\ stk' = Tail(stk)
    /\ val' = [val EXCEPT ![tos.ptr] = NoVal]
    /\ GiveBackUnsafe(tos.ptr)
    /\ UNCHANGED <<closing, spc, sold, snxt, snode, sval>>

\* reserve_unsafe, also called by stack(n).
StackReserveUnsafe ==
    /\ ~closing /\ SIdle
    /\ ReserveUnsafe
    /\ UNCHANGED stackVars

\* ~stack begins.  It pops until the stack is empty (StackPopUnsafe), then
\* the destructor of the pool runs.
Close ==
    /\ ~closing /\ SIdle
    /\ closing' = TRUE
    /\ UNCHANGED <<vars, tos, val, stk, spc, sold, snxt, snode, sval>>

ClosePool ==
    /\ closing
    /\ tos.ptr = NULL
    /\ BeginDestroy \/ DestroyStep
    /\ UNCHANGED stackVars

\* A new stack in the same storage.
Reopen ==
    /\ closing
    /\ Recreate
    /\ closing' = FALSE
    /\ tos' = Nil
    /\ UNCHANGED <<val, stk, spc, sold, snxt, snode, sval>>

-----------------------------------------------------------------------------
\* One step of an operation that thread t has begun.
StackStep(t) ==
    \/ InPool(t) \/ PushFail(t) \/ PushNew(t) \/ PushLoad(t) \/ PushSet(t)
    \/ PushCAS(t) \/ PushRetry(t)
    \/ PopLoad(t) \/ PopFail(t) \/ PopRead(t) \/ PopCAS(t) \/ PopRetry(t)
    \/ PopValue(t) \/ PoolReturn(t)

\* Thread t holds a copy of tos that its compare_exchange in pop will use.
SWatching(t) == spc[t] \in {"o_read", "o_cas"}

\* The tag of tos does not come round while a pop holds its old value: the
\* assumption TagFresh of the pool, for the stack's own pointer.
TosFresh ==
    \A t \in Threads :
        SWatching(t) /\ tos'.tag # tos.tag => tos'.tag # sold[t].tag

StackNext ==
    /\ \/ \E t \in Threads :
            StackStep(t) \/ Push(t) \/ Pop(t) \/ StackReserve(t)
       \/ StackPushUnsafe \/ StackPopUnsafe \/ StackReserveUnsafe
       \/ Close \/ ClosePool \/ Reopen
    /\ TagFresh
    /\ TosFresh

StackSpec == StackInit /\ [][StackNext]_allVars

\* Some thread that is inside an operation is run, whichever the scheduler
\* prefers.
StackFairSpec ==
    /\ StackSpec
    /\ WF_allVars((\E t \in Threads : StackStep(t)) /\ TagFresh /\ TosFresh)

-----------------------------------------------------------------------------
(* Properties *)

\* The stack keeps what its pool expects of its users: it writes only to nodes
\* that the pool has handed out, and gives each of these back once, although
\* neither the code of the stack nor that of the pool tests it
\* (stack.hpp:138, 192-195, 216-218).
LawfulUser == Spec

\* tos and the links are exactly the nodes that were pushed and not popped,
\* although every node's link word is shared with the pool and pop may have
\* read it at any time (stack.hpp:135-142, 181-190).
StackIntact == IsChain(tos.ptr, next, stk)

\* Thread t has a node of the stack in its hands: a new one that is not yet
\* pushed, or a popped one that is not yet given back.
Holding(t) == spc[t] \in {"p_load", "p_set", "p_cas", "o_val"}

Held(t) == IF spc[t] = "o_val" THEN sold[t].ptr ELSE snode[t]

Hand(t) == IF Holding(t) THEN {Held(t)} ELSE {}

\* The nodes that the pool has handed out are those on the stack and those
\* in the hands of one thread, so no node is on the stack twice, in two
\* hands, or lost to both the stack and the pool (stack.hpp:128-196).
StackOwnsUsed ==
    /\ used = Range(stk) \cup UNION {Hand(t) : t \in Threads}
    /\ \A t \in Threads :
        /\ Hand(t) \cap Range(stk) = {}
        /\ \A u \in Threads \ {t} : Hand(t) \cap Hand(u) = {}

\* When ~stack reaches the destructor of the pool all nodes are back in it
\* (stack.hpp:112-119).
ClosedEmpty == closing /\ tos.ptr = NULL => used = {} /\ stk = <<>>

\* Each node that the pool has handed out has one place.
PlacedOnce ==
    /\ \A n \in Range(stk) : n \in used
    /\ \A n \in used :
        n \in Range(stk) \/ \E t \in Threads : Holding(t) /\ Held(t) = n
    /\ \A t \in Threads : Holding(t) =>
        /\ Held(t) \in used
        /\ Held(t) \notin Range(stk)
        /\ \A u \in Threads \ {t} : Holding(u) => Held(u) # Held(t)

\* The tag protects pop: as long as tos has the tag that pop read, the node
\* it read is on the stack and the link it read is that node's link
\* (stack.hpp:181-190).
StackSnapshot ==
    \A t \in Threads :
        /\ SWatching(t) /\ sold[t].ptr # NULL /\ sold[t].tag = tos.tag
                => sold[t].ptr \in Range(stk)
        /\ spc[t] = "o_cas" /\ sold[t].tag = tos.tag
                => snxt[t] = next[sold[t].ptr]

\* Where the pool's code is while the stack's code waits for it.
PoolPhase ==
    \A t \in Threads :
        /\ spc[t] = "p_pool" => pc[t] \in {"a_load", "a_read", "a_cas", "a_new"}
        /\ spc[t] \in {"o_pool", "r_pool"} => pc[t] \in {"d_load", "d_set", "d_cas"}
        /\ spc[t] \notin {"p_pool", "o_pool", "r_pool"} => pc[t] = "idle"

\* What an operation in progress knows, and what ~stack knows: it runs alone,
\* and the pool dies only after the stack is empty.
StackLocals ==
    /\ \A t \in Threads :
        /\ spc[t] = "o_cas" => sold[t].ptr # NULL
        /\ spc[t] = "p_cas" => next[snode[t]] = sold[t].ptr
        /\ closing => spc[t] = "idle"
    /\ ~closing => Alive
    /\ ~Alive => tos.ptr = NULL

\* Where the value of an operation is: push has put its argument into its
\* node, and pop has no value until it has copied one out of the node.
ValuePlace ==
    \A t \in Threads :
        /\ spc[t] \in {"p_load", "p_set", "p_cas"} => val[snode[t]] = sval[t]
        /\ spc[t] \in {"idle", "r_pool", "o_load", "o_read", "o_cas", "o_val"}
                => sval[t] = NoVal

\* The inductive invariant: the pool's own one, and these.
StackInv ==
    /\ IInv
    /\ StackTypeOK
    /\ StackIntact
    /\ PlacedOnce
    /\ StackSnapshot
    /\ PoolPhase
    /\ StackLocals
    /\ ValuePlace

\* The stack that the users see.  A pop that has read a null tos is committed
\* to returning false.
StackStatus(l, o) ==
    CASE l \in {"idle", "r_pool"} -> "none"
      [] l \in {"p_pool", "p_load", "p_set", "p_cas"} -> "push"
      [] l = "o_read" -> IF o.ptr = NULL THEN "empty" ELSE "pop"
      [] l \in {"o_load", "o_cas"} -> "pop"
      [] OTHER -> "popped"

AbsStack == Contents(val, stk)

AbsCall == [t \in Threads |-> StackStatus(spc[t], sold[t])]

\* A popped value is in the node until pop copies it.
AbsArg ==
    [t \in Threads |-> IF spc[t] = "o_val" THEN val[sold[t].ptr] ELSE sval[t]]

Abs == INSTANCE AtomicStack WITH
    stack <- AbsStack, call <- AbsCall, arg <- AbsArg

\* The stack is linearisable: it implements AtomicStack (stack.hpp:128-221).
StackLinearisable == Abs!Spec

\* Lock-freedom: if operations are pending forever then operations complete
\* infinitely often.
StackLockFree ==
    \/ <>[]SIdle
    \/ []<><<\E t \in Threads : spc[t] # "idle" /\ spc'[t] = "idle">>_allVars
=============================================================================
