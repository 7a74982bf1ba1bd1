---------------------------- MODULE StackProofs ----------------------------
(***************************************************************************)
(* The stack keeps its list of nodes intact, gives every node one place    *)
(* and is linearisable, for any number of threads, nodes and values and    *)
(* any width of the tag.                                                   *)
(***************************************************************************)
EXTENDS Stack, FreelistProofs

\* The stack starts in the inductive invariant.
LEMMA InitStackInv == StackInit => StackInv
  <1> SUFFICES ASSUME StackInit PROVE StackInv
    OBVIOUS
  <1> USE DEF StackInit
  <1>1. IInv
    BY InitIInv
  <1>2. stk \in Seq(Nodes) /\ Len(stk) = 0 /\ Range(stk) = {}
    BY RangeEmpty
  <1>3. StackTypeOK
    BY <1>2, NilType DEF StackTypeOK, StackLabels, Ptr
  <1>4. StackIntact
    BY <1>2, NilType DEF StackIntact, IsChain, First
  <1>5. PlacedOnce
    BY <1>2 DEF Init, PlacedOnce, Holding
  <1>6. StackSnapshot
    BY DEF StackSnapshot, SWatching
  <1>7. PoolPhase
    BY DEF Init, PoolPhase
  <1>8. StackLocals
    BY DEF Init, StackLocals, Alive
  <1>9. ValuePlace
    BY DEF ValuePlace
  <1> QED
    BY <1>1, <1>3, <1>4, <1>5, <1>6, <1>7, <1>8, <1>9 DEF StackInv

\* While tos is not null the stack has a first node, and the pool is alive.
LEMMA StackTop ==
    ASSUME StackInv, tos.ptr # NULL
    PROVE  /\ Alive
           /\ stk # <<>>
           /\ tos.ptr \in Range(stk)
           /\ tos.ptr \in Nodes
           /\ Tail(stk) \in Seq(Nodes)
           /\ Range(Tail(stk)) = Range(stk) \ {tos.ptr}
           /\ next[tos.ptr] \in Ptr
           /\ IsChain(next[tos.ptr], next, Tail(stk))
  BY ChainPop DEF StackInv, StackLocals, StackIntact, StackTypeOK

\* When ~stack has popped every node, none is in use.
LEMMA ClosedIsEmpty ==
    ASSUME StackInv, closing, tos.ptr = NULL
    PROVE  SIdle /\ stk = <<>> /\ Range(stk) = {} /\ used = {}
  <1> USE DEF StackInv
  <1>1. SIdle
    BY DEF StackLocals, SIdle
  <1>2. stk = <<>> /\ Range(stk) = {}
    BY ChainEmpty DEF StackIntact, StackTypeOK
  <1>3. used = {}
    BY <1>1, <1>2 DEF PlacedOnce, SIdle, Holding
  <1> QED
    BY <1>1, <1>2, <1>3

\* Every step of the stack is a step of the pool or leaves the pool alone:
\* what the stack does to its own nodes is something the users of the pool
\* may do, to a node that they own (stack.hpp:128-221 on top of
\* freelist.hpp:79-195).
LEMMA StackStepIsPoolStep ==
    StackInv /\ [StackNext]_allVars => [Next]_vars
  <1> SUFFICES ASSUME StackInv, [StackNext]_allVars PROVE [Next]_vars
    OBVIOUS
  <1> USE DEF StackInv
  <1>1. CASE UNCHANGED allVars
    BY <1>1 DEF allVars
  <1>2. CASE StackNext
    <2>0. TagFresh
      BY <1>2 DEF StackNext
    <2>1. ASSUME NEW t \in Threads, InPool(t) PROVE PoolStep
      BY <2>1 DEF InPool, PoolStep, Step
    <2>2. ASSUME NEW t \in Threads, Push(t) \/ StackReserve(t) PROVE PoolStep
      BY <2>2 DEF Push, StackReserve, PoolStep
    <2>3. ASSUME NEW t \in Threads, PushFail(t) \/ PoolReturn(t) PROVE PoolStep
      BY <2>3 DEF PushFail, PoolReturn, PoolStep, Step
    <2>4. ASSUME NEW t \in Threads, PushNew(t) PROVE PoolStep
      <3>1. node[t] \in Nodes
        BY <2>4 DEF PushNew, IInv, OneOwner, Carrying
      <3>2. next[node[t]] \in Garbage
        BY <3>1, LinkAssumption DEF IInv, TypeOK
      <3> QED
        BY <2>4, <3>2 DEF PushNew, PoolStep, Step
    <2>5. ASSUME NEW t \in Threads, PushSet(t) PROVE PoolStep
      <3>1. sold[t].ptr \in Garbage
        BY LinkAssumption DEF StackTypeOK, TPtr
      <3>2. snode[t] \in Nodes
        BY <2>5 DEF PushSet, PlacedOnce, Holding, Held, IInv, TypeOK
      <3>3. Write(snode[t], sold[t].ptr)
        BY <2>5 DEF PushSet, Write, PlacedOnce, Holding, Held, StackLocals
      <3> QED
        BY <3>1, <3>2, <3>3 DEF PoolStep
    <2>6. ASSUME NEW t \in Threads,
                 \/ PushLoad(t) \/ PushCAS(t) \/ PushRetry(t) \/ Pop(t) \/ PopLoad(t)
                 \/ PopFail(t) \/ PopRead(t) \/ PopCAS(t) \/ PopRetry(t)
          PROVE  UNCHANGED vars
      BY <2>6 DEF PushLoad, PushCAS, PushRetry, Pop, PopLoad, PopFail, PopRead,
                  PopCAS, PopRetry
    <2>7. ASSUME NEW t \in Threads, PopValue(t) PROVE PoolStep
      <3>1. sold[t].ptr \in Nodes
        BY <2>7 DEF PopValue, PlacedOnce, Holding, Held, IInv, TypeOK
      <3>2. Destruct(t, sold[t].ptr)
        BY <2>7 DEF PopValue, Destruct, PlacedOnce, Holding, Held, PoolPhase, StackLocals
      <3> QED
        BY <3>1, <3>2 DEF PoolStep
    <2>8. ASSUME StackPushUnsafe PROVE PoolStep
      <3>1. tos.ptr \in Garbage
        BY LinkAssumption DEF StackTypeOK, TPtr
      <3> QED
        BY <2>8, <3>1 DEF StackPushUnsafe, PoolStep
    <2>9. ASSUME StackPopUnsafe PROVE PoolStep
      <3>1. tos.ptr \in Nodes /\ tos.ptr \in used /\ Alive
        BY <2>9, StackTop DEF StackPopUnsafe, PlacedOnce
      <3>2. DestructUnsafe(tos.ptr)
        BY <2>9, <3>1 DEF StackPopUnsafe, DestructUnsafe, SIdle, PoolPhase, Quiescent
      <3> QED
        BY <3>1, <3>2 DEF PoolStep
    <2>10. ASSUME StackReserveUnsafe \/ Reopen PROVE PoolStep
      BY <2>10 DEF StackReserveUnsafe, Reopen, PoolStep
    <2>11. CASE Close
      BY <2>11 DEF Close
    <2>12. ASSUME ClosePool PROVE PoolStep
      <3>1. SIdle /\ used = {}
        BY <2>12, ClosedIsEmpty DEF ClosePool
      <3>2. Quiescent
        BY <3>1 DEF SIdle, PoolPhase, Quiescent
      <3> QED
        BY <2>12, <3>1, <3>2 DEF ClosePool, Destroy, PoolStep
    <2> QED
      BY <1>2, <2>0, <2>1, <2>2, <2>3, <2>4, <2>5, <2>6, <2>7, <2>8, <2>9, <2>10, <2>11,
         <2>12 DEF StackNext, StackStep, Next
  <1> QED
    BY <1>1, <1>2

\* A step that leaves tos and the links of the nodes on the stack alone leaves
\* the stack alone.
LEMMA StackFrame ==
    ASSUME StackInv, UNCHANGED <<tos, stk>>, \A n \in used : next'[n] = next[n]
    PROVE  StackIntact'
  <1>1. \A n \in Range(stk) : next'[n] = next[n]
    BY DEF StackInv, PlacedOnce
  <1> QED
    BY <1>1, ChainFrame DEF StackInv, StackIntact, StackTypeOK

\* The steps inside the pool keep the stack's invariant.
LEMMA InPoolKeeps ==
    ASSUME StackInv, IInv', NEW t \in Threads, InPool(t)
    PROVE  StackInv'
  <1> USE DEF StackInv
  <1>1. /\ used' = used
        /\ walk' = walk
        /\ \A n \in used : next'[n] = next[n]
        /\ \A u \in Threads \ {t} : pc'[u] = pc[u]
    BY PoolKeepsUsed DEF InPool
  <1>2. UNCHANGED stackVars
    BY DEF InPool
  <1> USE DEF stackVars
  <1>3. StackTypeOK'
    BY <1>2 DEF StackTypeOK
  <1>4. StackIntact'
    BY <1>1, <1>2, StackFrame
  <1>5. PlacedOnce'
    BY <1>1, <1>2 DEF PlacedOnce, Holding, Held
  <1>6. StackSnapshot'
    BY <1>1, <1>2 DEF StackSnapshot, SWatching, StackLocals, PlacedOnce
  <1>7. PoolPhase'
    <2>1. pc[t] # "idle"
      BY DEF InPool, AllocLoad, AllocGrow, AllocRead, AllocCAS, AllocRetry, DeallocLoad,
             DeallocSet, DeallocRetry
    <2>2. CASE spc[t] = "p_pool"
      <3>1. pc'[t] \in {"a_load", "a_read", "a_cas", "a_new"}
        BY <2>2 DEF PoolPhase, InPool, AllocLoad, AllocGrow, AllocRead, AllocCAS, AllocRetry,
                    DeallocLoad, DeallocSet, DeallocRetry, Goto, IInv, TypeOK
      <3> QED
        BY <1>1, <1>2, <2>2, <3>1 DEF PoolPhase
    <2>3. CASE spc[t] \in {"o_pool", "r_pool"}
      <3>1. pc'[t] \in {"d_load", "d_set", "d_cas"}
        BY <2>3 DEF PoolPhase, InPool, AllocLoad, AllocGrow, AllocRead, AllocCAS, AllocRetry,
                    DeallocLoad, DeallocSet, DeallocRetry, Goto, IInv, TypeOK
      <3> QED
        BY <1>1, <1>2, <2>3, <3>1 DEF PoolPhase
    <2> QED
      BY <2>1, <2>2, <2>3 DEF PoolPhase
  <1>8. StackLocals'
    BY <1>1, <1>2 DEF StackLocals, Alive, PlacedOnce, Holding, Held
  <1>9. ValuePlace'
    BY <1>2 DEF ValuePlace
  <1> QED
    BY <1>3, <1>4, <1>5, <1>6, <1>7, <1>8, <1>9

\* The beginning of a call of push, pop or reserve keeps it.
LEMMA CallKeeps ==
    ASSUME StackInv, IInv', NEW t \in Threads, Push(t) \/ Pop(t) \/ StackReserve(t)
    PROVE  StackInv'
  <1> USE DEF StackInv
  <1>1. /\ UNCHANGED <<used, walk, next, tos, val, stk, closing, sold, snxt, snode>>
        /\ ~closing /\ Alive
        /\ \A u \in Threads \ {t} : pc'[u] = pc[u] /\ spc'[u] = spc[u] /\ sval'[u] = sval[u]
    BY DEF Push, Pop, StackReserve, Ready, Construct, Reserve, Goto, SGoto, vars,
           StackTypeOK, IInv, TypeOK
  <1>2. \/ spc'[t] = "p_pool" /\ pc'[t] = "a_load"
        \/ spc'[t] = "o_load" /\ pc'[t] = "idle" /\ sval'[t] = NoVal
        \/ spc'[t] = "r_pool" /\ pc'[t] = "d_load" /\ sval'[t] = NoVal
    BY DEF Push, Pop, StackReserve, Ready, Construct, Reserve, Goto, SGoto, vars,
           StackTypeOK, IInv, TypeOK, PoolPhase, ValuePlace
  <1>3. StackTypeOK'
    BY DEF Push, Pop, StackReserve, SGoto, StackTypeOK, StackLabels
  <1>4. StackIntact'
    BY <1>1 DEF StackIntact
  <1>5. Holding(t) = FALSE /\ Holding(t)' = FALSE
    BY <1>2 DEF Push, Pop, StackReserve, Ready, Holding
  <1>6. PlacedOnce'
    BY <1>1, <1>5 DEF PlacedOnce, Holding, Held
  <1>7. StackSnapshot'
    BY <1>1, <1>2 DEF StackSnapshot, SWatching
  <1>8. PoolPhase'
    BY <1>1, <1>2 DEF PoolPhase
  <1>9. StackLocals'
    BY <1>1, <1>2 DEF StackLocals, Alive
  <1>10. ValuePlace'
    BY <1>1, <1>2 DEF ValuePlace
  <1> QED
    BY <1>3, <1>4, <1>6, <1>7, <1>8, <1>9, <1>10

\* A call of push that finds no node, and a call whose node is back in the
\* pool, keep it.
LEMMA PoolReturnKeeps ==
    ASSUME StackInv, IInv', NEW t \in Threads, PushFail(t) \/ PoolReturn(t)
    PROVE  StackInv'
  <1> USE DEF StackInv
  <1>1. /\ used' = used
        /\ walk' = walk
        /\ \A n \in used : next'[n] = next[n]
        /\ \A u \in Threads \ {t} : pc'[u] = pc[u]
    BY PoolKeepsUsed DEF PushFail, PoolReturn
  <1>2. /\ UNCHANGED <<tos, val, stk, closing>>
        /\ SReturn(t)
        /\ pc'[t] = "idle"
    BY DEF PushFail, PoolReturn, AllocFail, DeallocCAS, Return, Goto, IInv, TypeOK
  <1>3. /\ spc'[t] = "idle" /\ sval'[t] = NoVal
        /\ \A u \in Threads \ {t} :
            spc'[u] = spc[u] /\ sold'[u] = sold[u] /\ snxt'[u] = snxt[u]
              /\ snode'[u] = snode[u] /\ sval'[u] = sval[u]
    BY <1>2 DEF SReturn, SGoto, StackTypeOK
  <1>4. StackTypeOK'
    BY <1>2, NilType DEF SReturn, SGoto, StackTypeOK, StackLabels
  <1>5. StackIntact'
    BY <1>1, <1>2, StackFrame
  <1>6. Holding(t) = FALSE /\ Holding(t)' = FALSE
    BY <1>3 DEF PushFail, PoolReturn, Holding
  <1>7. PlacedOnce'
    BY <1>1, <1>2, <1>3, <1>6 DEF PlacedOnce, Holding, Held
  <1>8. StackSnapshot'
    BY <1>1, <1>2, <1>3 DEF StackSnapshot, SWatching, StackLocals, PlacedOnce
  <1>9. PoolPhase'
    BY <1>1, <1>2, <1>3 DEF PoolPhase
  <1>10. StackLocals'
    BY <1>1, <1>2, <1>3 DEF StackLocals, Alive, PlacedOnce, Holding, Held
  <1>11. ValuePlace'
    BY <1>2, <1>3 DEF ValuePlace
  <1> QED
    BY <1>4, <1>5, <1>7, <1>8, <1>9, <1>10, <1>11

\* construct gives push a node that nobody else has (stack.hpp:130-133).
LEMMA PushNewKeeps ==
    ASSUME StackInv, IInv', NEW t \in Threads, PushNew(t)
    PROVE  StackInv'
  <1> USE DEF StackInv, PushNew
  <1>1. node[t] \in Nodes /\ node[t] \notin used
    BY DEF IInv, OneOwner, Carrying
  <1>2. /\ used' = used \cup {node[t]} /\ walk' = walk
        /\ next' = next
        /\ pc'[t] = "idle" /\ \A u \in Threads \ {t} : pc'[u] = pc[u]
    BY <1>1 DEF AllocNew, Return, Goto, IInv, TypeOK
  <1>3. /\ spc'[t] = "p_load" /\ snode'[t] = node[t] /\ val'[node[t]] = sval[t]
        /\ \A u \in Threads \ {t} : spc'[u] = spc[u] /\ snode'[u] = snode[u]
        /\ \A n \in Nodes \ {node[t]} : val'[n] = val[n]
        /\ UNCHANGED <<tos, stk, closing, sold, snxt, sval>>
    BY <1>1 DEF SGoto, StackTypeOK
  <1>4. StackTypeOK'
    BY <1>1 DEF SGoto, StackTypeOK, StackLabels, Ptr
  <1>5. StackIntact'
    BY <1>2, <1>3 DEF StackIntact
  <1>6. PlacedOnce'
    <2>1. ~Holding(t) /\ Holding(t)' /\ Held(t)' = node[t]
      BY <1>3 DEF Holding, Held
    <2>2. \A u \in Threads \ {t} : Holding(u)' = Holding(u) /\ Held(u)' = Held(u)
      BY <1>3 DEF Holding, Held
    <2> QED
      BY <1>1, <1>2, <1>3, <2>1, <2>2 DEF PlacedOnce
  <1>7. StackSnapshot'
    BY <1>2, <1>3 DEF StackSnapshot, SWatching
  <1>8. PoolPhase'
    BY <1>2, <1>3 DEF PoolPhase
  <1>9. StackLocals'
    BY <1>2, <1>3 DEF StackLocals, Alive
  <1>10. ValuePlace'
    <2> SUFFICES ASSUME NEW u \in Threads PROVE ValuePlace!(u)'
      BY DEF ValuePlace
    <2>1. CASE u = t
      BY <1>3, <2>1 DEF ValuePlace
    <2>2. CASE u # t
      <3>1. spc[u] \in {"p_load", "p_set", "p_cas"} => snode[u] \in used
        BY DEF PlacedOnce, Holding, Held
      <3> QED
        BY <1>1, <1>3, <2>2, <3>1 DEF ValuePlace, IInv, TypeOK
    <2> QED
      BY <2>1, <2>2
  <1> QED
    BY <1>4, <1>5, <1>6, <1>7, <1>8, <1>9, <1>10

\* A load of tos, first or after a failed compare_exchange, keeps it.
LEMMA LoadKeeps ==
    ASSUME StackInv, IInv', NEW t \in Threads,
           PushLoad(t) \/ PushRetry(t) \/ PopLoad(t) \/ PopRetry(t)
    PROVE  StackInv'
  <1> USE DEF StackInv, PushLoad, PushRetry, PopLoad, PopRetry
  <1>1. UNCHANGED <<used, walk, next, pc, tos, val, stk, closing, snode, sval>>
    BY DEF vars
  <1>2. /\ sold'[t] = tos
        /\ \A u \in Threads \ {t} :
            spc'[u] = spc[u] /\ sold'[u] = sold[u] /\ snxt'[u] = snxt[u]
    BY DEF SGoto, StackTypeOK
  <1>3. \/ spc[t] \in {"p_load", "p_cas"} /\ spc'[t] = "p_set"
        \/ spc[t] \in {"o_load", "o_cas"} /\ spc'[t] = "o_read"
    BY DEF SGoto, StackTypeOK
  <1>4. StackTypeOK'
    BY DEF SGoto, StackTypeOK, StackLabels, Ptr
  <1>5. StackIntact'
    BY <1>1 DEF StackIntact
  <1>6. PlacedOnce'
    BY <1>1, <1>2, <1>3 DEF PlacedOnce, Holding, Held
  <1>7. StackSnapshot'
    BY <1>1, <1>2, <1>3, StackTop DEF StackSnapshot, SWatching
  <1>8. PoolPhase'
    BY <1>1, <1>2, <1>3 DEF PoolPhase
  <1>9. StackLocals'
    BY <1>1, <1>2, <1>3 DEF StackLocals, Alive
  <1>10. ValuePlace'
    BY <1>1, <1>2, <1>3 DEF ValuePlace
  <1> QED
    BY <1>4, <1>5, <1>6, <1>7, <1>8, <1>9, <1>10

\* push writes the link of its own node only (stack.hpp:138).
LEMMA PushSetKeeps ==
    ASSUME StackInv, IInv', NEW t \in Threads, PushSet(t)
    PROVE  StackInv'
  <1> USE DEF StackInv, PushSet
  <1>1. /\ snode[t] \in used /\ snode[t] \notin Range(stk) /\ snode[t] \in Nodes
        /\ \A u \in Threads \ {t} : Holding(u) => Held(u) # snode[t]
    BY DEF PlacedOnce, Holding, Held, IInv, TypeOK
  <1>2. /\ UNCHANGED <<used, walk, pc, tos, val, stk, closing, sold, snxt, snode, sval>>
        /\ next'[snode[t]] = sold[t].ptr
        /\ \A n \in Nodes \ {snode[t]} : next'[n] = next[n]
    BY <1>1 DEF PutWord, IInv, TypeOK
  <1>3. spc'[t] = "p_cas" /\ \A u \in Threads \ {t} : spc'[u] = spc[u]
    BY DEF SGoto, StackTypeOK
  <1>4. StackTypeOK'
    BY DEF SGoto, StackTypeOK, StackLabels, Ptr
  <1>5. \A n \in Range(stk) : next'[n] = next[n]
    BY <1>1, <1>2 DEF PlacedOnce, IInv, TypeOK
  <1>6. StackIntact'
    BY <1>2, <1>5, ChainFrame DEF StackIntact, StackTypeOK
  <1>7. PlacedOnce'
    BY <1>2, <1>3 DEF PlacedOnce, Holding, Held
  <1>8. StackSnapshot'
    BY <1>2, <1>3, <1>5 DEF StackSnapshot, SWatching, StackLocals
  <1>9. PoolPhase'
    BY <1>2, <1>3 DEF PoolPhase
  <1>10. StackLocals'
    <2>1. \A u \in Threads \ {t} :
              spc[u] = "p_cas" => snode[u] \in Nodes \ {snode[t]}
      BY <1>1 DEF PlacedOnce, Holding, Held, IInv, TypeOK
    <2>2. \A u \in Threads : spc'[u] = "p_cas" => next'[snode[u]] = sold[u].ptr
      BY <1>2, <1>3, <2>1 DEF StackLocals
    <2>3. ~closing
      BY DEF StackLocals
    <2> QED
      BY <1>2, <1>3, <2>2, <2>3 DEF StackLocals, Alive
  <1>11. ValuePlace'
    BY <1>2, <1>3 DEF ValuePlace
  <1> QED
    BY <1>4, <1>6, <1>7, <1>8, <1>9, <1>10, <1>11

\* The locals of an operation that is over.
LEMMA SReturnLocals ==
    ASSUME StackTypeOK, NEW t \in Threads, SReturn(t)
    PROVE  /\ spc'[t] = "idle" /\ sval'[t] = NoVal
           /\ \A u \in Threads \ {t} :
                /\ spc'[u] = spc[u] /\ sold'[u] = sold[u] /\ snxt'[u] = snxt[u]
                /\ snode'[u] = snode[u] /\ sval'[u] = sval[u]
           /\ spc' \in [Threads -> StackLabels]
           /\ sold' \in [Threads -> TPtr]
           /\ snxt' \in [Threads -> Ptr \cup Garbage]
           /\ snode' \in [Threads -> Ptr]
           /\ sval' \in [Threads -> Values \cup {NoVal}]
  BY NilType DEF SReturn, SGoto, StackTypeOK, StackLabels

\* The compare_exchange of push links its node in front of the stack
\* (stack.hpp:140-141).
LEMMA PushCASKeeps ==
    ASSUME StackInv, IInv', NEW t \in Threads, PushCAS(t)
    PROVE  StackInv'
  <1> USE DEF StackInv, PushCAS
  <1>1. /\ snode[t] \in used /\ snode[t] \notin Range(stk) /\ snode[t] \in Nodes
        /\ \A u \in Threads \ {t} : Holding(u) => Held(u) # snode[t]
        /\ Holding(t)
        /\ Held(t) = snode[t]
        /\ next[snode[t]] = tos.ptr
        /\ ~closing
    BY DEF PlacedOnce, Holding, Held, IInv, TypeOK, StackLocals
  <1>2. /\ stk' \in Seq(Nodes)
        /\ Range(stk') = Range(stk) \cup {snode[t]}
        /\ IsChain(snode[t], next, stk')
    BY <1>1, ChainPush DEF StackIntact, StackTypeOK
  <1>3. /\ tos' \in TPtr
        /\ tos'.ptr = snode[t]
        /\ tos'.tag = tos.tag
    BY DEF MkPtr, StackTypeOK, TPtr
  <1>4. UNCHANGED <<used, walk, next, pc, val, closing>>
    BY DEF vars
  <1>5. /\ spc'[t] = "idle" /\ sval'[t] = NoVal
        /\ \A u \in Threads \ {t} :
            /\ spc'[u] = spc[u] /\ sold'[u] = sold[u] /\ snxt'[u] = snxt[u]
            /\ snode'[u] = snode[u] /\ sval'[u] = sval[u]
    BY SReturnLocals
  <1>6. StackTypeOK'
    BY <1>2, <1>3, <1>4, SReturnLocals DEF StackTypeOK
  <1>7. StackIntact'
    BY <1>2, <1>3, <1>4 DEF StackIntact
  <1>8. PlacedOnce'
    <2>1. ~Holding(t)' /\ \A u \in Threads \ {t} : Holding(u)' = Holding(u) /\ Held(u)' = Held(u)
      BY <1>5 DEF Holding, Held
    <2>2. \A n \in Range(stk') : n \in used'
      BY <1>1, <1>2, <1>4 DEF PlacedOnce
    <2>3. ASSUME NEW n \in used', n \notin Range(stk')
          PROVE  \E u \in Threads : Holding(u)' /\ Held(u)' = n
      <3>1. PICK u \in Threads : Holding(u) /\ Held(u) = n
        BY <1>2, <1>4, <2>3 DEF PlacedOnce
      <3>2. u # t
        BY <1>1, <1>2, <2>3, <3>1
      <3> QED
        BY <2>1, <3>1, <3>2
    <2>4. ASSUME NEW u \in Threads, Holding(u)'
          PROVE  /\ Held(u)' \in used'
                 /\ Held(u)' \notin Range(stk')
                 /\ \A w \in Threads \ {u} : Holding(w)' => Held(w)' # Held(u)'
      BY <1>1, <1>2, <1>4, <2>1, <2>4 DEF PlacedOnce
    <2> QED
      BY <2>2, <2>3, <2>4 DEF PlacedOnce
  <1>9. StackSnapshot'
    BY <1>2, <1>3, <1>4, <1>5 DEF StackSnapshot, SWatching
  <1>10. PoolPhase'
    BY <1>4, <1>5 DEF PoolPhase
  <1>11. StackLocals'
    BY <1>1, <1>4, <1>5 DEF StackLocals, Alive
  <1>12. ValuePlace'
    BY <1>4, <1>5 DEF ValuePlace
  <1> QED
    BY <1>6, <1>7, <1>8, <1>9, <1>10, <1>11, <1>12

\* A pop that finds the stack empty keeps it.
LEMMA PopFailKeeps ==
    ASSUME StackInv, IInv', NEW t \in Threads, PopFail(t)
    PROVE  StackInv'
  <1> USE DEF StackInv, PopFail
  <1>1. UNCHANGED <<used, walk, next, pc, tos, val, stk, closing>>
    BY DEF vars
  <1>2. /\ spc'[t] = "idle" /\ sval'[t] = NoVal
        /\ \A u \in Threads \ {t} :
            /\ spc'[u] = spc[u] /\ sold'[u] = sold[u] /\ snxt'[u] = snxt[u]
            /\ snode'[u] = snode[u] /\ sval'[u] = sval[u]
    BY SReturnLocals
  <1>3. StackTypeOK'
    BY <1>1, SReturnLocals DEF StackTypeOK
  <1>4. StackIntact'
    BY <1>1 DEF StackIntact
  <1>5. PlacedOnce'
    BY <1>1, <1>2 DEF PlacedOnce, Holding, Held
  <1>6. StackSnapshot'
    BY <1>1, <1>2 DEF StackSnapshot, SWatching
  <1>7. PoolPhase'
    BY <1>1, <1>2 DEF PoolPhase
  <1>8. StackLocals'
    BY <1>1, <1>2 DEF StackLocals, Alive
  <1>9. ValuePlace'
    BY <1>1, <1>2 DEF ValuePlace
  <1> QED
    BY <1>3, <1>4, <1>5, <1>6, <1>7, <1>8, <1>9

\* pop reads the link of the node it saw on top, wherever that node is now.
LEMMA PopReadKeeps ==
    ASSUME StackInv, IInv', NEW t \in Threads, PopRead(t)
    PROVE  StackInv'
  <1> USE DEF StackInv, PopRead
  <1>1. UNCHANGED <<used, walk, next, pc, tos, val, stk, closing, sold, snode, sval>>
    BY DEF vars
  <1>2. sold[t].ptr \in Nodes
    BY DEF StackTypeOK, TPtr, Ptr
  <1>3. /\ spc'[t] = "o_cas" /\ snxt'[t] = next[sold[t].ptr]
        /\ \A u \in Threads \ {t} : spc'[u] = spc[u] /\ snxt'[u] = snxt[u]
    BY DEF SGoto, StackTypeOK
  <1>4. StackTypeOK'
    BY <1>2 DEF SGoto, StackTypeOK, StackLabels, IInv, TypeOK
  <1>5. StackIntact'
    BY <1>1 DEF StackIntact
  <1>6. PlacedOnce'
    BY <1>1, <1>3 DEF PlacedOnce, Holding, Held
  <1>7. StackSnapshot'
    BY <1>1, <1>3 DEF StackSnapshot, SWatching
  <1>8. PoolPhase'
    BY <1>1, <1>3 DEF PoolPhase
  <1>9. StackLocals'
    BY <1>1, <1>3 DEF StackLocals, Alive
  <1>10. ValuePlace'
    BY <1>1, <1>3 DEF ValuePlace
  <1> QED
    BY <1>4, <1>5, <1>6, <1>7, <1>8, <1>9, <1>10

\* The compare_exchange of pop succeeds only with the link of the node that is
\* on top, and its new tag makes every other copy of tos stale
\* (stack.hpp:188-190).
LEMMA PopCASKeeps ==
    ASSUME StackInv, IInv', NEW t \in Threads, PopCAS(t), TosFresh
    PROVE  StackInv'
  <1> USE DEF StackInv, PopCAS
  <1>1. /\ tos.ptr # NULL
        /\ snxt[t] = next[tos.ptr]
        /\ ~closing
    BY DEF StackLocals, StackSnapshot
  <1>2. /\ tos.ptr \in Range(stk) /\ tos.ptr \in Nodes
        /\ Tail(stk) \in Seq(Nodes)
        /\ Range(Tail(stk)) = Range(stk) \ {tos.ptr}
        /\ next[tos.ptr] \in Ptr
        /\ IsChain(next[tos.ptr], next, Tail(stk))
    BY <1>1, StackTop
  <1>3. /\ tos'.ptr = next[tos.ptr]
        /\ tos' \in TPtr
        /\ tos'.tag # tos.tag
    BY <1>1, <1>2, IncTagType DEF PopTag, MkPtr, StackTypeOK, TPtr
  <1>4. UNCHANGED <<used, walk, next, pc, val, closing, sold, snode, sval>>
    BY DEF vars
  <1>5. /\ spc'[t] = "o_val"
        /\ \A u \in Threads \ {t} : spc'[u] = spc[u] /\ snxt'[u] = snxt[u]
    BY DEF SGoto, StackTypeOK
  <1>6. StackTypeOK'
    BY <1>2, <1>3, NilType DEF SGoto, StackTypeOK, StackLabels
  <1>7. StackIntact'
    BY <1>2, <1>3, <1>4 DEF StackIntact
  <1>8. PlacedOnce'
    <2>1. /\ ~Holding(t) /\ Holding(t)' /\ Held(t)' = tos.ptr
          /\ \A u \in Threads \ {t} : Holding(u)' = Holding(u) /\ Held(u)' = Held(u)
      BY <1>4, <1>5 DEF Holding, Held
    <2>2. \A n \in Range(stk') : n \in used'
      BY <1>2, <1>4 DEF PlacedOnce
    <2>3. ASSUME NEW n \in used', n \notin Range(stk')
          PROVE  \E u \in Threads : Holding(u)' /\ Held(u)' = n
      <3>1. CASE n = tos.ptr
        BY <2>1, <3>1
      <3>2. CASE n # tos.ptr
        <4>1. PICK u \in Threads : Holding(u) /\ Held(u) = n
          BY <1>2, <1>4, <2>3, <3>2 DEF PlacedOnce
        <4> QED
          BY <2>1, <4>1
      <3> QED
        BY <3>1, <3>2
    <2>4. ASSUME NEW u \in Threads, Holding(u)'
          PROVE  /\ Held(u)' \in used'
                 /\ Held(u)' \notin Range(stk')
                 /\ \A w \in Threads \ {u} : Holding(w)' => Held(w)' # Held(u)'
      BY <1>2, <1>4, <2>1, <2>4 DEF PlacedOnce
    <2> QED
      BY <2>2, <2>3, <2>4 DEF PlacedOnce
  <1>9. StackSnapshot'
    BY <1>3, <1>4, <1>5 DEF StackSnapshot, SWatching, TosFresh
  <1>10. PoolPhase'
    BY <1>4, <1>5 DEF PoolPhase
  <1>11. StackLocals'
    BY <1>1, <1>4, <1>5 DEF StackLocals, Alive
  <1>12. ValuePlace'
    BY <1>4, <1>5 DEF ValuePlace
  <1> QED
    BY <1>6, <1>7, <1>8, <1>9, <1>10, <1>11, <1>12

\* pop copies the value out of a node that only it has, and gives the node to
\* the pool (stack.hpp:191-193).
LEMMA PopValueKeeps ==
    ASSUME StackInv, IInv', NEW t \in Threads, PopValue(t)
    PROVE  StackInv'
  <1> USE DEF StackInv, PopValue
  <1> DEFINE p == sold[t].ptr
  <1>1. /\ p \in used /\ p \notin Range(stk) /\ p \in Nodes
        /\ \A u \in Threads \ {t} : Holding(u) => Held(u) # p
        /\ Holding(t) /\ Held(t) = p
    BY DEF PlacedOnce, Holding, Held, IInv, TypeOK
  <1>2. /\ used' = used \ {p}
        /\ UNCHANGED <<walk, next, tos, stk, closing, snxt, snode>>
        /\ pc'[t] = "d_load" /\ \A u \in Threads \ {t} : pc'[u] = pc[u]
    BY DEF GiveBack, Goto, IInv, TypeOK
  <1>3. /\ spc'[t] = "o_pool"
        /\ \A u \in Threads \ {t} :
            spc'[u] = spc[u] /\ sold'[u] = sold[u] /\ sval'[u] = sval[u]
        /\ \A n \in Nodes \ {p} : val'[n] = val[n]
    BY <1>1 DEF SGoto, StackTypeOK
  <1>4. StackTypeOK'
    BY <1>1, NilType DEF SGoto, StackTypeOK, StackLabels
  <1>5. StackIntact'
    BY <1>2 DEF StackIntact
  <1>6. PlacedOnce'
    <2>1. /\ ~Holding(t)'
          /\ \A u \in Threads \ {t} : Holding(u)' = Holding(u) /\ Held(u)' = Held(u)
      BY <1>2, <1>3 DEF Holding, Held
    <2> HIDE DEF p
    <2>2. \A n \in Range(stk') : n \in used'
      BY <1>1, <1>2 DEF PlacedOnce
    <2>3. ASSUME NEW n \in used', n \notin Range(stk')
          PROVE  \E u \in Threads : Holding(u)' /\ Held(u)' = n
      <3>1. PICK u \in Threads : Holding(u) /\ Held(u) = n
        BY <1>2, <2>3 DEF PlacedOnce
      <3>2. u # t
        BY <1>1, <1>2, <2>3, <3>1
      <3> QED
        BY <2>1, <3>1, <3>2
    <2>4. ASSUME NEW u \in Threads, Holding(u)'
          PROVE  /\ Held(u)' \in used'
                 /\ Held(u)' \notin Range(stk')
                 /\ \A w \in Threads \ {u} : Holding(w)' => Held(w)' # Held(u)'
      BY <1>1, <1>2, <2>1, <2>4 DEF PlacedOnce
    <2> QED
      BY <2>2, <2>3, <2>4 DEF PlacedOnce
  <1>7. StackSnapshot'
    BY <1>2, <1>3 DEF StackSnapshot, SWatching
  <1>8. PoolPhase'
    BY <1>2, <1>3 DEF PoolPhase
  <1>9. StackLocals'
    BY <1>2, <1>3 DEF StackLocals, Alive
  <1>10. ValuePlace'
    <2>1. \A u \in Threads \ {t} :
            spc[u] \in {"p_load", "p_set", "p_cas"} => snode[u] \in Nodes \ {p}
      BY <1>1 DEF PlacedOnce, Holding, Held, IInv, TypeOK
    <2> QED
      BY <1>2, <1>3, <2>1 DEF ValuePlace
  <1> QED
    BY <1>4, <1>5, <1>6, <1>7, <1>8, <1>9, <1>10

\* When no operation is in progress the stack's locals say nothing.
LEMMA IdleLocals ==
    ASSUME StackInv, SIdle, UNCHANGED <<spc, sold, snxt, snode, sval>>
    PROVE  /\ StackSnapshot'
           /\ ValuePlace'
           /\ \A t \in Threads : ~Holding(t) /\ ~Holding(t)'
           /\ \A n \in used : n \in Range(stk)
  <1>1. \A t \in Threads : ~Holding(t) /\ ~Holding(t)'
    BY DEF SIdle, Holding
  <1>2. StackSnapshot'
    BY DEF SIdle, StackSnapshot, SWatching
  <1>3. ValuePlace'
    BY DEF SIdle, ValuePlace, StackInv
  <1> QED
    BY <1>1, <1>2, <1>3 DEF StackInv, PlacedOnce

\* push_unsafe links the node it gets from the pool in front of the stack
\* (stack.hpp:145-157).
LEMMA PushUnsafeKeeps ==
    ASSUME StackInv, IInv', StackPushUnsafe
    PROVE  StackInv'
  <1> USE DEF StackInv, StackPushUnsafe
  <1>1. PICK m \in Nodes \ used :
            used' = used \cup {m} /\ next' = [next EXCEPT ![m] = tos.ptr]
    <2>1. CASE ConstructUnsafe(tos.ptr)
      <3>1. pool.ptr \in Nodes /\ pool.ptr \in Range(free)
        BY <2>1, ChainPop DEF ConstructUnsafe, IInv, ListIntact, TypeOK
      <3>2. pool.ptr \notin used
        BY <3>1 DEF IInv, OneOwner
      <3> QED
        BY <2>1, <3>1, <3>2 DEF ConstructUnsafe
    <2>2. CASE GrowUnsafe(tos.ptr)
      <3>1. PICK n \in os : used' = used \cup {n} /\ next' = [next EXCEPT ![n] = tos.ptr]
        BY <2>2 DEF GrowUnsafe
      <3>2. n \in Nodes /\ n \notin used
        BY DEF IInv, OneOwner, TypeOK
      <3> QED
        BY <3>1, <3>2
    <2> QED
      BY <2>1, <2>2
  <1>2. /\ UNCHANGED <<walk, pc, closing, spc, sold, snxt, snode, sval>>
        /\ Alive
    BY DEF ConstructUnsafe, GrowUnsafe
  <1>3. /\ tos' = MkPtr(m, tos.tag)
        /\ stk' = <<m>> \o stk
        /\ \E v \in Values : val' = [val EXCEPT ![m] = v]
    BY <1>1
  <1>4. /\ next'[m] = tos.ptr
        /\ m \notin Range(stk)
        /\ \A n \in Range(stk) : next'[n] = next[n]
    BY <1>1 DEF PlacedOnce, IInv, TypeOK
  <1>5. IsChain(tos.ptr, next', stk)
    BY <1>4, ChainFrame DEF StackIntact, StackTypeOK
  <1>6. /\ stk' \in Seq(Nodes)
        /\ Range(stk') = Range(stk) \cup {m}
        /\ IsChain(m, next', stk')
    BY <1>3, <1>4, <1>5, ChainPush DEF StackTypeOK
  <1>7. tos' \in TPtr /\ tos'.ptr = m
    BY <1>3 DEF MkPtr, StackTypeOK, TPtr, Ptr
  <1>8. StackTypeOK'
    BY <1>2, <1>3, <1>6, <1>7 DEF StackTypeOK
  <1>9. StackIntact'
    BY <1>6, <1>7 DEF StackIntact
  <1>10. PlacedOnce'
    BY <1>1, <1>6, IdleLocals DEF PlacedOnce
  <1>11. StackSnapshot' /\ ValuePlace'
    BY IdleLocals
  <1>12. PoolPhase'
    BY <1>2 DEF PoolPhase
  <1>13. StackLocals'
    BY <1>2 DEF StackLocals, Alive, SIdle
  <1> QED
    BY <1>8, <1>9, <1>10, <1>11, <1>12, <1>13

\* pop_unsafe takes the top node and gives it to the pool
\* (stack.hpp:205-221).
LEMMA PopUnsafeKeeps ==
    ASSUME StackInv, IInv', StackPopUnsafe
    PROVE  StackInv'
  <1> USE DEF StackInv, StackPopUnsafe
  <1>1. /\ Alive
        /\ tos.ptr \in Range(stk) /\ tos.ptr \in Nodes
        /\ Tail(stk) \in Seq(Nodes)
        /\ Range(Tail(stk)) = Range(stk) \ {tos.ptr}
        /\ next[tos.ptr] \in Ptr
        /\ IsChain(next[tos.ptr], next, Tail(stk))
    BY StackTop
  <1>2. /\ used' = used \ {tos.ptr}
        /\ next' = [next EXCEPT ![tos.ptr] = pool.ptr]
        /\ UNCHANGED <<walk, pc, closing, spc, sold, snxt, snode, sval>>
    BY DEF GiveBackUnsafe, PushUnsafe
  <1>3. tos'.ptr = next[tos.ptr] /\ tos' \in TPtr
    BY <1>1, IncTagType DEF MkPtr, StackTypeOK, TPtr
  <1>4. \A n \in Range(Tail(stk)) : next'[n] = next[n]
    BY <1>1, <1>2 DEF PlacedOnce, IInv, TypeOK
  <1>5. IsChain(next[tos.ptr], next', Tail(stk))
    BY <1>1, <1>4, ChainFrame
  <1>6. StackTypeOK'
    BY <1>1, <1>2, <1>3 DEF StackTypeOK
  <1>7. StackIntact'
    BY <1>3, <1>5 DEF StackIntact
  <1>8. PlacedOnce'
    BY <1>1, <1>2, IdleLocals DEF PlacedOnce
  <1>9. StackSnapshot' /\ ValuePlace'
    BY IdleLocals
  <1>10. PoolPhase'
    BY <1>2 DEF PoolPhase
  <1>11. StackLocals'
    BY <1>1, <1>2 DEF StackLocals, Alive, SIdle
  <1> QED
    BY <1>6, <1>7, <1>8, <1>9, <1>10, <1>11

\* reserve_unsafe and the beginning of ~stack run alone and leave the nodes of
\* the stack alone.
LEMMA ReserveUnsafeKeeps ==
    ASSUME StackInv, IInv', StackReserveUnsafe \/ Close
    PROVE  StackInv'
  <1> USE DEF StackInv, StackReserveUnsafe, Close
  <1>1. /\ UNCHANGED <<used, walk, pc, tos, val, stk, spc, sold, snxt, snode, sval>>
        /\ SIdle
        /\ Alive
        /\ closing' \in BOOLEAN
        /\ \A n \in used : next'[n] = next[n]
    <2>1. CASE StackReserveUnsafe
      <3>1. PICK n \in os : PushUnsafe(n)
        BY <2>1 DEF ReserveUnsafe
      <3>2. n \notin used
        BY DEF IInv, OneOwner
      <3> QED
        BY <2>1, <3>1, <3>2 DEF ReserveUnsafe, PushUnsafe, stackVars, IInv, TypeOK, StackTypeOK
    <2>2. CASE Close
      BY <2>2 DEF vars, StackLocals
    <2> QED
      BY <2>1, <2>2
  <1>2. StackTypeOK'
    BY <1>1 DEF StackTypeOK
  <1>3. StackIntact'
    BY <1>1, StackFrame
  <1>4. PlacedOnce'
    BY <1>1 DEF PlacedOnce, Holding, Held
  <1>5. StackSnapshot' /\ ValuePlace'
    BY <1>1, IdleLocals
  <1>6. PoolPhase'
    BY <1>1 DEF PoolPhase
  <1>7. StackLocals'
    BY <1>1 DEF StackLocals, Alive, SIdle
  <1> QED
    BY <1>2, <1>3, <1>4, <1>5, <1>6, <1>7

\* The destructor of the pool, and a new stack in the same storage, keep it.
LEMMA ClosePoolKeeps ==
    ASSUME StackInv, IInv', ClosePool \/ Reopen
    PROVE  StackInv'
  <1> USE DEF StackInv, ClosePool, Reopen
  <1>1. closing /\ tos.ptr = NULL
    <2>1. Recreate => ~Alive
      BY OffAssumption DEF Recreate, Alive, Ptr
    <2> QED
      BY <2>1 DEF StackLocals
  <1>2. SIdle /\ stk = <<>> /\ Range(stk) = {} /\ used = {}
    BY <1>1, ClosedIsEmpty
  <1>3. /\ UNCHANGED <<used, pc, val, stk, spc, sold, snxt, snode, sval, next>>
        /\ tos'.ptr = NULL /\ tos' \in TPtr
        /\ closing' \in BOOLEAN
        /\ closing' \/ walk' = Off
    BY <1>1, NilType DEF BeginDestroy, DestroyStep, Recreate, stackVars, StackTypeOK
  <1>4. StackTypeOK'
    BY <1>3 DEF StackTypeOK
  <1>5. StackIntact'
    BY <1>1, <1>3 DEF StackIntact
  <1>6. PlacedOnce'
    BY <1>3 DEF PlacedOnce, Holding, Held
  <1>7. StackSnapshot' /\ ValuePlace'
    BY <1>2, <1>3, IdleLocals
  <1>8. PoolPhase'
    BY <1>3 DEF PoolPhase
  <1>9. StackLocals'
    BY <1>2, <1>3 DEF StackLocals, Alive, SIdle
  <1> QED
    BY <1>4, <1>5, <1>6, <1>7, <1>8, <1>9

\* Every step keeps the inductive invariant.
LEMMA NextStackInv == StackInv /\ [StackNext]_allVars => StackInv'
  <1> SUFFICES ASSUME StackInv, [StackNext]_allVars PROVE StackInv'
    OBVIOUS
  <1>1. IInv'
    BY StackStepIsPoolStep, NextIInv DEF StackInv
  <1>2. CASE UNCHANGED allVars
    BY <1>1, <1>2 DEF allVars, vars, stackVars, StackInv, StackTypeOK, StackIntact, PlacedOnce,
                      Holding, Held, StackSnapshot, SWatching, PoolPhase, StackLocals, Alive,
                      ValuePlace
  <1>3. CASE StackNext
    BY <1>1, <1>3, InPoolKeeps, CallKeeps, PoolReturnKeeps, PushNewKeeps, LoadKeeps,
       PushSetKeeps, PushCASKeeps, PopFailKeeps, PopReadKeeps, PopCASKeeps, PopValueKeeps,
       PushUnsafeKeeps, PopUnsafeKeeps, ReserveUnsafeKeeps, ClosePoolKeeps
       DEF StackNext, StackStep
  <1> QED
    BY <1>2, <1>3

\* At every step of push, pop, reserve, their unsafe forms and the destructor,
\* in any interleaving, the stack and its pool are intact and each thread's
\* locals mean what the code takes them to mean (stack.hpp:112-221).
THEOREM StackInvariantHolds == StackSpec => []StackInv
  BY InitStackInv, NextStackInv, PTL DEF StackSpec

\* The variables keep their types: in particular tos is always the null
\* pointer or a node, although pop stores a link it may have read from the
\* bytes of a node that is in use elsewhere (stack.hpp:181-190).
THEOREM StackTypeCorrect == StackSpec => []StackTypeOK
  BY StackInvariantHolds, PTL DEF StackInv

\* The list below tos is the stack, at every moment (stack.hpp:128-221).
THEOREM AlwaysStackIntact == StackSpec => []StackIntact
  BY StackInvariantHolds, PTL DEF StackInv

\* A node in use has one place, said of sets.
LEMMA StackInvOwns == StackInv => StackOwnsUsed
  <1> SUFFICES ASSUME StackInv PROVE StackOwnsUsed
    OBVIOUS
  <1> USE DEF StackInv, PlacedOnce, Hand
  <1>1. \A n : n \in UNION {Hand(t) : t \in Threads}
                <=> \E t \in Threads : Holding(t) /\ Held(t) = n
    OBVIOUS
  <1>2. used = Range(stk) \cup UNION {Hand(t) : t \in Threads}
    BY <1>1
  <1>3. ASSUME NEW t \in Threads
        PROVE  /\ Hand(t) \cap Range(stk) = {}
               /\ \A u \in Threads \ {t} : Hand(t) \cap Hand(u) = {}
    OBVIOUS
  <1> QED
    BY <1>2, <1>3 DEF StackOwnsUsed

\* No node is on the stack twice, in two hands, or lost (stack.hpp:128-196).
THEOREM AlwaysStackOwnsUsed == StackSpec => []StackOwnsUsed
  BY StackInvariantHolds, StackInvOwns, PTL

\* ~stack gives every node back before the pool is destroyed
\* (stack.hpp:112-119).
THEOREM AlwaysClosedEmpty == StackSpec => []ClosedEmpty
  <1>1. StackInv => ClosedEmpty
    BY ClosedIsEmpty DEF ClosedEmpty
  <1> QED
    BY <1>1, StackInvariantHolds, PTL

\* The stack uses its pool as the pool may be used: push writes to no node that
\* the pool has not handed out, and pop gives no node back twice
\* (stack.hpp:138, 192-195).  So all that is proved of the freelist holds here.
THEOREM StackUsesPool == StackSpec => LawfulUser
  <1>1. StackInit => Init
    BY DEF StackInit
  <1> QED
    BY <1>1, StackInvariantHolds, StackStepIsPoolStep, PTL DEF StackSpec, Spec, LawfulUser

\* The pool inside a stack is the abstract pool.  A push that returns false ends
\* the allocate of that push without a node, so at some moment since the call
\* the pool was empty, and one that may grow had no memory left
\* (stack.hpp:130-133, freelist.hpp:117-127).
THEOREM StackPoolIsPool == StackSpec => PoolSpec
  BY StackUsesPool, FreelistIsPool, PTL DEF LawfulUser

-----------------------------------------------------------------------------
(* The stack implements AtomicStack. *)

\* A step that changes none of what the users see.
LEMMA AbsStutter ==
    ASSUME AbsStack' = AbsStack, AbsCall' = AbsCall, AbsArg' = AbsArg
    PROVE  [Abs!Next]_(Abs!vars)
  BY DEF Abs!vars

\* The steps of push.
LEMMA PushRefines ==
    ASSUME StackInv, NEW t \in Threads,
           \/ Push(t) \/ PushFail(t) \/ PushNew(t) \/ PushLoad(t) \/ PushSet(t)
           \/ PushCAS(t) \/ PushRetry(t)
    PROVE  [Abs!Next]_(Abs!vars)
  <1> USE DEF StackInv
  <1>1. CASE Push(t)
    <2>1. PICK v \in Values : sval' = [sval EXCEPT ![t] = v]
      BY <1>1 DEF Push
    <2>2. AbsCall[t] = "none" /\ AbsCall' = [AbsCall EXCEPT ![t] = "push"]
      BY <1>1 DEF Push, Ready, SGoto, AbsCall, StackStatus, StackTypeOK
    <2>3. AbsArg' = [AbsArg EXCEPT ![t] = v]
      BY <1>1, <2>1 DEF Push, Ready, SGoto, AbsArg, StackTypeOK
    <2>4. AbsStack' = AbsStack
      BY <1>1 DEF Push, AbsStack
    <2>5. Abs!CallPush(t)
      BY <2>2, <2>3, <2>4 DEF Abs!CallPush, Abs!Become
    <2> QED
      BY <2>5 DEF Abs!Next
  <1>2. CASE PushFail(t)
    <2>1. AbsCall[t] = "push" /\ AbsCall' = [AbsCall EXCEPT ![t] = "none"]
      BY <1>2 DEF PushFail, SReturn, SGoto, AbsCall, StackStatus, StackTypeOK
    <2>2. AbsArg' = [AbsArg EXCEPT ![t] = NoVal]
      BY <1>2 DEF PushFail, SReturn, SGoto, AbsArg, StackTypeOK
    <2>3. AbsStack' = AbsStack
      BY <1>2 DEF PushFail, AbsStack
    <2>4. Abs!PushFails(t)
      BY <2>1, <2>2, <2>3 DEF Abs!PushFails, Abs!Become
    <2> QED
      BY <2>4 DEF Abs!Next
  <1>3. CASE PushNew(t)
    <2>1. node[t] \in Nodes /\ node[t] \notin used
      BY <1>3 DEF PushNew, IInv, OneOwner, Carrying
    <2>2. \A n \in used : val'[n] = val[n]
      BY <1>3, <2>1 DEF PushNew, StackTypeOK, IInv, TypeOK
    <2>3. AbsCall' = AbsCall
      BY <1>3 DEF PushNew, SGoto, AbsCall, StackStatus, StackTypeOK
    <2>4. AbsStack' = AbsStack
      BY <1>3, <2>2, ContentsFrame DEF PushNew, AbsStack, PlacedOnce, StackTypeOK
    <2>5. AbsArg' = AbsArg
      <3>1. \A u \in Threads : spc[u] = "o_val" => sold[u].ptr \in used
        BY DEF PlacedOnce, Holding, Held
      <3> QED
        BY <1>3, <2>2, <3>1 DEF PushNew, SGoto, AbsArg, StackTypeOK
    <2> QED
      BY <2>3, <2>4, <2>5, AbsStutter
  <1>4. CASE PushLoad(t) \/ PushSet(t) \/ PushRetry(t)
    <2>1. AbsCall' = AbsCall
      BY <1>4 DEF PushLoad, PushSet, PushRetry, SGoto, AbsCall, StackStatus, StackTypeOK
    <2>2. AbsStack' = AbsStack
      BY <1>4 DEF PushLoad, PushSet, PushRetry, AbsStack
    <2>3. AbsArg' = AbsArg
      BY <1>4 DEF PushLoad, PushSet, PushRetry, SGoto, AbsArg, StackTypeOK
    <2> QED
      BY <2>1, <2>2, <2>3, AbsStutter
  <1>5. CASE PushCAS(t)
    <2>1. AbsCall[t] = "push" /\ AbsCall' = [AbsCall EXCEPT ![t] = "none"]
      BY <1>5 DEF PushCAS, SReturn, SGoto, AbsCall, StackStatus, StackTypeOK
    <2>2. /\ AbsArg[t] = val[snode[t]]
          /\ AbsArg' = [AbsArg EXCEPT ![t] = NoVal]
      BY <1>5 DEF PushCAS, SReturn, SGoto, AbsArg, StackTypeOK, ValuePlace
    <2>3. AbsStack' = <<val[snode[t]]>> \o AbsStack
      <3>1. snode[t] \in Nodes
        BY <1>5 DEF PushCAS, PlacedOnce, Holding, Held, IInv, TypeOK
      <3> QED
        BY <1>5, <3>1, ContentsPush DEF PushCAS, AbsStack, StackTypeOK
    <2>4. Abs!Push(t)
      BY <2>1, <2>2, <2>3 DEF Abs!Push, Abs!Become
    <2> QED
      BY <2>4 DEF Abs!Next
  <1> QED
    BY <1>1, <1>2, <1>3, <1>4, <1>5

\* The steps of pop, and of reserve.
LEMMA PopRefines ==
    ASSUME StackInv, NEW t \in Threads,
           \/ Pop(t) \/ PopLoad(t) \/ PopFail(t) \/ PopRead(t) \/ PopCAS(t) \/ PopRetry(t)
           \/ PopValue(t) \/ StackReserve(t) \/ PoolReturn(t)
    PROVE  [Abs!Next]_(Abs!vars)
  <1> USE DEF StackInv
  <1>1. CASE Pop(t)
    <2>1. AbsCall[t] = "none" /\ AbsCall' = [AbsCall EXCEPT ![t] = "pop"]
      BY <1>1 DEF Pop, Ready, SGoto, AbsCall, StackStatus, StackTypeOK
    <2>2. AbsArg' = [AbsArg EXCEPT ![t] = NoVal]
      BY <1>1 DEF Pop, Ready, SGoto, AbsArg, ValuePlace, StackTypeOK
    <2>3. AbsStack' = AbsStack
      BY <1>1 DEF Pop, AbsStack
    <2>4. Abs!CallPop(t)
      BY <2>1, <2>2, <2>3 DEF Abs!CallPop, Abs!Become
    <2> QED
      BY <2>4 DEF Abs!Next
  <1>2. CASE PopLoad(t) \/ PopRetry(t)
    <2>1. AbsStack' = AbsStack
      BY <1>2 DEF PopLoad, PopRetry, AbsStack
    <2>2. CASE tos.ptr = NULL
      <3>1. AbsCall[t] = "pop" /\ AbsCall' = [AbsCall EXCEPT ![t] = "empty"]
        BY <1>2, <2>2 DEF PopLoad, PopRetry, SGoto, AbsCall, StackStatus, StackTypeOK
      <3>2. AbsArg' = [AbsArg EXCEPT ![t] = NoVal]
        BY <1>2 DEF PopLoad, PopRetry, SGoto, AbsArg, ValuePlace, StackTypeOK
      <3>3. AbsStack = <<>>
        <4>1. stk = <<>>
          BY <2>2, ChainEmpty DEF StackIntact, StackTypeOK
        <4>2. stk \in Seq(Nodes) /\ val \in [Nodes -> Values \cup {NoVal}]
          BY DEF StackTypeOK
        <4>3. AbsStack \in Seq(Values \cup {NoVal}) /\ Len(AbsStack) = Len(stk)
          BY <4>2, ContentsType DEF AbsStack
        <4>4. Len(stk) = 0
          BY <4>1
        <4> QED
          BY <4>3, <4>4, EmptySeq
      <3>4. Abs!PopEmpty(t)
        BY <2>1, <3>1, <3>2, <3>3 DEF Abs!PopEmpty, Abs!Become
      <3> QED
        BY <3>4 DEF Abs!Next
    <2>3. CASE tos.ptr # NULL
      <3>1. AbsCall' = AbsCall
        BY <1>2, <2>3 DEF PopLoad, PopRetry, SGoto, AbsCall, StackStatus, StackTypeOK
      <3>2. AbsArg' = AbsArg
        BY <1>2 DEF PopLoad, PopRetry, SGoto, AbsArg, StackTypeOK
      <3> QED
        BY <2>1, <3>1, <3>2, AbsStutter
    <2> QED
      BY <2>2, <2>3
  <1>3. CASE PopFail(t)
    <2>1. AbsCall[t] = "empty" /\ AbsCall' = [AbsCall EXCEPT ![t] = "none"]
      BY <1>3 DEF PopFail, SReturn, SGoto, AbsCall, StackStatus, StackTypeOK
    <2>2. AbsArg' = [AbsArg EXCEPT ![t] = NoVal]
      BY <1>3 DEF PopFail, SReturn, SGoto, AbsArg, StackTypeOK
    <2>3. AbsStack' = AbsStack
      BY <1>3 DEF PopFail, AbsStack
    <2>4. Abs!ReturnPop(t)
      BY <2>1, <2>2, <2>3 DEF Abs!ReturnPop, Abs!Become
    <2> QED
      BY <2>4 DEF Abs!Next
  <1>4. CASE PopRead(t)
    <2>1. AbsCall' = AbsCall
      BY <1>4 DEF PopRead, SGoto, AbsCall, StackStatus, StackTypeOK
    <2>2. AbsStack' = AbsStack /\ AbsArg' = AbsArg
      BY <1>4 DEF PopRead, SGoto, AbsStack, AbsArg, StackTypeOK
    <2> QED
      BY <2>1, <2>2, AbsStutter
  <1>5. CASE PopCAS(t)
    <2>1. tos.ptr # NULL /\ tos = sold[t]
      BY <1>5 DEF PopCAS, StackLocals
    <2>2. stk # <<>> /\ tos.ptr = stk[1]
      BY <2>1, StackTop DEF StackIntact, IsChain, First
    <2>3. /\ AbsStack' = Tail(AbsStack)
          /\ AbsStack # <<>>
          /\ AbsStack[1] = val[tos.ptr]
      BY <1>5, <2>2, ContentsPop DEF PopCAS, AbsStack, StackTypeOK
    <2>4. AbsCall[t] = "pop" /\ AbsCall' = [AbsCall EXCEPT ![t] = "popped"]
      BY <1>5 DEF PopCAS, SGoto, AbsCall, StackStatus, StackTypeOK
    <2>5. AbsArg' = [AbsArg EXCEPT ![t] = val[tos.ptr]]
      BY <1>5 DEF PopCAS, SGoto, AbsArg, StackTypeOK
    <2>6. Abs!Pop(t)
      BY <2>3, <2>4, <2>5 DEF Abs!Pop, Abs!Become
    <2> QED
      BY <2>6 DEF Abs!Next
  <1>6. CASE PopValue(t)
    <2> DEFINE p == sold[t].ptr
    <2>1. /\ p \notin Range(stk) /\ p \in Nodes
          /\ \A u \in Threads \ {t} : Holding(u) => Held(u) # p
      BY <1>6 DEF PopValue, PlacedOnce, Holding, Held, IInv, TypeOK
    <2>2. /\ \A n \in Range(stk) : val'[n] = val[n]
          /\ \A u \in Threads \ {t} : spc[u] = "o_val" => val'[sold[u].ptr] = val[sold[u].ptr]
      <3>1. \A n \in Nodes \ {p} : val'[n] = val[n]
        BY <1>6 DEF PopValue, StackTypeOK
      <3>2. \A n \in Range(stk) : n \in Nodes
        BY DEF PlacedOnce, IInv, TypeOK
      <3>3. \A u \in Threads \ {t} : spc[u] = "o_val" => sold[u].ptr \in Nodes \ {p}
        BY <2>1 DEF PlacedOnce, Holding, Held, IInv, TypeOK
      <3> QED
        BY <2>1, <3>1, <3>2, <3>3
    <2>3. AbsStack' = AbsStack
      BY <1>6, <2>2, ContentsFrame DEF PopValue, AbsStack, StackTypeOK
    <2>4. AbsCall' = AbsCall
      BY <1>6 DEF PopValue, SGoto, AbsCall, StackStatus, StackTypeOK
    <2>5. AbsArg' = AbsArg
      BY <1>6, <2>2 DEF PopValue, SGoto, AbsArg, StackTypeOK
    <2> QED
      BY <2>3, <2>4, <2>5, AbsStutter
  <1>7. CASE StackReserve(t)
    <2>1. AbsCall' = AbsCall
      BY <1>7 DEF StackReserve, Ready, SGoto, AbsCall, StackStatus, StackTypeOK
    <2>2. AbsStack' = AbsStack /\ AbsArg' = AbsArg
      BY <1>7 DEF StackReserve, Ready, SGoto, AbsStack, AbsArg, StackTypeOK
    <2> QED
      BY <2>1, <2>2, AbsStutter
  <1>8. CASE PoolReturn(t)
    <2>1. AbsStack' = AbsStack
      BY <1>8 DEF PoolReturn, AbsStack
    <2>2. AbsArg' = [AbsArg EXCEPT ![t] = NoVal]
      BY <1>8 DEF PoolReturn, SReturn, SGoto, AbsArg, StackTypeOK
    <2>3. CASE spc[t] = "o_pool"
      <3>1. AbsCall[t] = "popped" /\ AbsCall' = [AbsCall EXCEPT ![t] = "none"]
        BY <1>8, <2>3 DEF PoolReturn, SReturn, SGoto, AbsCall, StackStatus, StackTypeOK
      <3>2. Abs!ReturnPop(t)
        BY <2>1, <2>2, <3>1 DEF Abs!ReturnPop, Abs!Become
      <3> QED
        BY <3>2 DEF Abs!Next
    <2>4. CASE spc[t] = "r_pool"
      <3>1. AbsCall' = AbsCall
        BY <1>8, <2>4 DEF PoolReturn, SReturn, SGoto, AbsCall, StackStatus, StackTypeOK
      <3>2. AbsArg' = AbsArg
        BY <1>8, <2>4 DEF PoolReturn, SReturn, SGoto, AbsArg, ValuePlace, StackTypeOK
      <3> QED
        BY <2>1, <3>1, <3>2, AbsStutter
    <2> QED
      BY <1>8, <2>3, <2>4 DEF PoolReturn
  <1> QED
    BY <1>1, <1>2, <1>3, <1>4, <1>5, <1>6, <1>7, <1>8

\* The operations that run alone, and the destructor.
LEMMA AloneRefines ==
    ASSUME StackInv,
           \/ StackPushUnsafe \/ StackPopUnsafe \/ StackReserveUnsafe
           \/ Close \/ ClosePool \/ Reopen
    PROVE  [Abs!Next]_(Abs!vars)
  <1> USE DEF StackInv
  <1>1. CASE StackPushUnsafe
    <2>1. PICK n \in used' \ used :
            /\ stk' = <<n>> \o stk
            /\ \E v \in Values : val' = [val EXCEPT ![n] = v]
      BY <1>1 DEF StackPushUnsafe
    <2>2. PICK v \in Values : val' = [val EXCEPT ![n] = v]
      BY <2>1
    <2>3. n \in Nodes
      <3>1. CASE ConstructUnsafe(tos.ptr)
        <4>1. pool.ptr \in Nodes
          BY <3>1, ChainPop DEF ConstructUnsafe, IInv, ListIntact, TypeOK
        <4> QED
          BY <3>1, <4>1 DEF ConstructUnsafe
      <3>2. CASE GrowUnsafe(tos.ptr)
        BY <3>2 DEF GrowUnsafe, IInv, TypeOK
      <3> QED
        BY <1>1, <3>1, <3>2 DEF StackPushUnsafe
    <2>4. val' \in [Nodes -> Values \cup {NoVal}] /\ val'[n] = v
      BY <2>2, <2>3 DEF StackTypeOK
    <2>5. \A m \in Range(stk) : val'[m] = val[m]
      BY <2>1, <2>2 DEF PlacedOnce, StackTypeOK, IInv, TypeOK
    <2>6. AbsStack' = <<v>> \o AbsStack
      <3>1. stk \in Seq(Nodes)
        BY DEF StackTypeOK
      <3>2. Contents(val', <<n>> \o stk) = <<val'[n]>> \o Contents(val', stk)
        BY <2>3, <2>4, <3>1, ContentsPush
      <3>3. Contents(val', stk) = Contents(val, stk)
        BY <2>5, <3>1, ContentsFrame
      <3> QED
        BY <2>1, <2>4, <3>2, <3>3 DEF AbsStack
    <2>7. /\ \A t \in Threads : AbsCall[t] = "none"
          /\ AbsCall' = AbsCall
      BY <1>1 DEF StackPushUnsafe, SIdle, AbsCall, StackStatus
    <2>8. AbsArg' = AbsArg
      BY <1>1 DEF StackPushUnsafe, SIdle, AbsArg
    <2>9. Abs!PushAlone
      BY <2>6, <2>7, <2>8 DEF Abs!PushAlone
    <2> QED
      BY <2>9 DEF Abs!Next
  <1>2. CASE StackPopUnsafe
    <2>1. tos.ptr \in Nodes /\ stk # <<>>
      BY <1>2, StackTop DEF StackPopUnsafe
    <2>2. /\ Tail(stk) \in Seq(Nodes)
          /\ \A m \in Range(Tail(stk)) : val'[m] = val[m]
      BY <1>2, StackTop DEF StackPopUnsafe, PlacedOnce, StackTypeOK, IInv, TypeOK
    <2>3. AbsStack' = Tail(AbsStack) /\ AbsStack # <<>>
      <3>1. stk' = Tail(stk)
        BY <1>2 DEF StackPopUnsafe
      <3>2. Contents(val', Tail(stk)) = Contents(val, Tail(stk))
        BY <2>2, ContentsFrame
      <3>3. Contents(val, Tail(stk)) = Tail(Contents(val, stk)) /\ Contents(val, stk) # <<>>
        BY <2>1, ContentsPop DEF StackTypeOK
      <3> QED
        BY <3>1, <3>2, <3>3 DEF AbsStack
    <2>4. /\ \A t \in Threads : AbsCall[t] = "none"
          /\ AbsCall' = AbsCall
      BY <1>2 DEF StackPopUnsafe, SIdle, AbsCall, StackStatus
    <2>5. AbsArg' = AbsArg
      BY <1>2 DEF StackPopUnsafe, SIdle, AbsArg
    <2>6. Abs!PopAlone
      BY <2>3, <2>4, <2>5 DEF Abs!PopAlone
    <2> QED
      BY <2>6 DEF Abs!Next
  <1>3. CASE StackReserveUnsafe \/ Close \/ ClosePool \/ Reopen
    <2>1. UNCHANGED <<val, stk, spc, sold, sval>>
      BY <1>3 DEF StackReserveUnsafe, Close, ClosePool, Reopen, stackVars
    <2>2. AbsStack' = AbsStack /\ AbsCall' = AbsCall /\ AbsArg' = AbsArg
      BY <2>1 DEF AbsStack, AbsCall, AbsArg
    <2> QED
      BY <2>2, AbsStutter
  <1> QED
    BY <1>1, <1>2, <1>3

\* Every step of the stack is a step of AtomicStack or changes nothing in it.
LEMMA StackStepRefines ==
    StackInv /\ [StackNext]_allVars => [Abs!Next]_(Abs!vars)
  <1> SUFFICES ASSUME StackInv, [StackNext]_allVars PROVE [Abs!Next]_(Abs!vars)
    OBVIOUS
  <1>1. ASSUME UNCHANGED stackVars PROVE [Abs!Next]_(Abs!vars)
    <2>1. AbsStack' = AbsStack /\ AbsCall' = AbsCall /\ AbsArg' = AbsArg
      BY <1>1 DEF stackVars, AbsStack, AbsCall, AbsArg
    <2> QED
      BY <2>1, AbsStutter
  <1>2. ASSUME NEW t \in Threads, InPool(t) PROVE UNCHANGED stackVars
    BY <1>2 DEF InPool
  <1> QED
    BY <1>1, <1>2, PushRefines, PopRefines, AloneRefines DEF StackNext, StackStep, allVars

\* The stack is linearisable: every push and pop takes effect at one instant
\* between its call and its return, in last-in first-out order, for any
\* number of threads and nodes and any width of the tag
\* (stack.hpp:128-221).
THEOREM StackIsLinearisable == StackSpec => StackLinearisable
  <1>1. StackInit => Abs!Init
    <2> SUFFICES ASSUME StackInit PROVE Abs!Init
      OBVIOUS
    <2>1. AbsStack = <<>>
      <3>1. AbsStack \in Seq(Values \cup {NoVal}) /\ Len(AbsStack) = 0
        <4>1. val \in [Nodes -> Values \cup {NoVal}] /\ stk \in Seq(Nodes)
          BY InitStackInv DEF StackInv, StackTypeOK
        <4>2. Len(stk) = 0
          BY DEF StackInit
        <4> QED
          BY <4>1, <4>2, ContentsType DEF AbsStack
      <3> QED
        BY <3>1, EmptySeq
    <2>2. AbsCall = [t \in Threads |-> "none"] /\ AbsArg = [t \in Threads |-> NoVal]
      BY DEF StackInit, AbsCall, StackStatus, AbsArg
    <2> QED
      BY <2>1, <2>2 DEF Abs!Init
  <1> QED
    BY <1>1, StackInvariantHolds, StackStepRefines, PTL DEF StackSpec, StackLinearisable, Abs!Spec
=============================================================================
