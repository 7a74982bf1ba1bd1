--------------------------- MODULE FreelistProofs ---------------------------
(***************************************************************************)
(* Freelist keeps its list of free nodes intact and gives every node one   *)
(* owner, for any number of threads and nodes and any width of the tag.    *)
(***************************************************************************)
EXTENDS Freelist, ChainTheorems

\* The initial state satisfies the inductive invariant.
LEMMA InitIInv == Init => IInv
  <1> SUFFICES ASSUME Init PROVE IInv
    OBVIOUS
  <1> USE DEF Init
  <1>1. free \in Seq(Nodes) /\ Len(free) = 0
    OBVIOUS
  <1>2. Range(free) = {}
    BY RangeEmpty
  <1>3. Nil \in TPtr /\ Nil.ptr = NULL
    BY TagAssumption DEF Nil, MkPtr, TPtr, Ptr, Tag
  <1>4. TypeOK
    BY <1>1, <1>3 DEF TypeOK, Ptr, Labels
  <1>5. ListIntact
    BY <1>1, <1>3 DEF ListIntact, IsChain, First, Alive
  <1>6. OneOwner
    BY <1>2 DEF OneOwner, Goto, Carrying
  <1>7. SnapshotValid
    BY DEF SnapshotValid, Watching
  <1>8. LocalsValid
    BY DEF LocalsValid, Alive
  <1> QED
    BY <1>4, <1>5, <1>6, <1>7, <1>8 DEF IInv

\* The next tag is a tag, and a different one.
LEMMA IncTagType ==
    ASSUME NEW k \in Tag
    PROVE  IncTag(k) \in Tag /\ IncTag(k) # k
  BY TagAssumption DEF Tag, IncTag

\* Every step keeps the inductive invariant.
LEMMA NextIInv == IInv /\ [Next]_vars => IInv'
  <1> SUFFICES ASSUME IInv, [Next]_vars PROVE IInv'
    OBVIOUS
  <1> USE DEF IInv
  <1>1. CASE UNCHANGED vars
    BY <1>1 DEF vars, TypeOK, ListIntact, OneOwner, Goto, Carrying, SnapshotValid, LocalsValid,
                Alive, Watching
  <1>2. ASSUME NEW t \in Threads, Construct(t) PROVE IInv'
    <2>1. TypeOK'
      BY <1>2 DEF Construct, TypeOK, Goto, Labels
    <2>2. ListIntact' /\ OneOwner'
      BY <1>2 DEF Construct, ListIntact, OneOwner, Goto, Carrying, Alive
    <2>3. SnapshotValid'
      BY <1>2 DEF Construct, SnapshotValid, Watching, Goto, TypeOK
    <2>4. LocalsValid'
      BY <1>2 DEF Construct, LocalsValid, Alive, Goto, TypeOK
    <2> QED
      BY <2>1, <2>2, <2>3, <2>4
  <1>3. ASSUME NEW t \in Threads, AllocLoad(t) PROVE IInv'
    <2>1. TypeOK'
      BY <1>3 DEF AllocLoad, TypeOK, Goto, Labels
    <2>2. ListIntact' /\ OneOwner'
      BY <1>3 DEF AllocLoad, ListIntact, OneOwner, Goto, Carrying, Alive
    <2>3. pool.ptr # NULL => pool.ptr \in Range(free)
      <3>1. Alive
        BY <1>3 DEF AllocLoad, LocalsValid
      <3> QED
        BY <3>1, ChainPop DEF ListIntact, TypeOK
    <2>4. SnapshotValid'
      BY <1>3, <2>3 DEF AllocLoad, SnapshotValid, Watching, Goto, TypeOK
    <2>5. LocalsValid'
      BY <1>3 DEF AllocLoad, LocalsValid, Alive, Goto, TypeOK
    <2> QED
      BY <2>1, <2>2, <2>4, <2>5
  <1>4. ASSUME NEW t \in Threads, AllocFail(t) PROVE IInv'
    <2>0. Nil \in TPtr /\ NULL \in Ptr
      BY TagAssumption DEF Nil, MkPtr, TPtr, Ptr, Tag
    <2>1. TypeOK'
      BY <1>4, <2>0 DEF AllocFail, Return, TypeOK, Goto, Labels
    <2>2. ListIntact' /\ OneOwner'
      BY <1>4 DEF AllocFail, Return, Goto, ListIntact, OneOwner, Carrying, Alive, TypeOK
    <2>3. SnapshotValid'
      BY <1>4 DEF AllocFail, Return, SnapshotValid, Watching, Goto, TypeOK
    <2>4. LocalsValid'
      BY <1>4 DEF AllocFail, Return, LocalsValid, Alive, Goto, TypeOK
    <2> QED
      BY <2>1, <2>2, <2>3, <2>4
  <1>5. ASSUME NEW t \in Threads, AllocGrow(t) PROVE IInv'
    <2>0. PICK n \in os : os' = os \ {n} /\ node' = [node EXCEPT ![t] = n]
      BY <1>5 DEF AllocGrow
    <2>1. TypeOK'
      BY <1>5, <2>0 DEF AllocGrow, Goto, TypeOK, Labels, Ptr
    <2>2. ListIntact'
      BY <1>5 DEF AllocGrow, ListIntact, Alive
    <2>3. OneOwner'
      BY <1>5, <2>0 DEF AllocGrow, OneOwner, Goto, Carrying, TypeOK
    <2>4. SnapshotValid'
      BY <1>5 DEF AllocGrow, Goto, SnapshotValid, Watching, TypeOK
    <2>5. LocalsValid'
      BY <1>5, <2>0 DEF AllocGrow, Goto, LocalsValid, Alive, TypeOK
    <2> QED
      BY <2>1, <2>2, <2>3, <2>4, <2>5
  <1>6. ASSUME NEW t \in Threads, AllocRead(t) PROVE IInv'
    <2>1. TypeOK'
      BY <1>6 DEF AllocRead, Goto, TPtr, Ptr, TypeOK, Labels
    <2>2. ListIntact' /\ OneOwner'
      BY <1>6 DEF AllocRead, ListIntact, OneOwner, Goto, Carrying, Alive
    <2>3. SnapshotValid'
      BY <1>6 DEF AllocRead, Goto, TPtr, Ptr, SnapshotValid, Watching, TypeOK
    <2>4. LocalsValid'
      BY <1>6 DEF AllocRead, Goto, TPtr, Ptr, LocalsValid, Alive, TypeOK
    <2> QED
      BY <2>1, <2>2, <2>3, <2>4
  <1>7. ASSUME NEW t \in Threads, AllocCAS(t), TagFresh PROVE IInv'
    <2>0. Alive
      BY <1>7 DEF AllocCAS, LocalsValid
    <2>1. /\ pool.ptr # NULL
          /\ nxt[t] = next[pool.ptr]
      BY <1>7 DEF AllocCAS, LocalsValid, SnapshotValid
    <2>2. /\ pool.ptr \in Range(free) /\ pool.ptr \in Nodes
          /\ Tail(free) \in Seq(Nodes)
          /\ Range(Tail(free)) = Range(free) \ {pool.ptr}
          /\ next[pool.ptr] \in Ptr
          /\ IsChain(next[pool.ptr], next, Tail(free))
      BY <2>0, <2>1, ChainPop DEF ListIntact, TypeOK
    <2>3. /\ pool'.ptr = next[pool.ptr]
          /\ pool' \in TPtr
          /\ pool'.tag # pool.tag
      BY <1>7, <2>1, <2>2, IncTagType DEF AllocCAS, AllocTag, MkPtr, TypeOK, TPtr
    <2>4. TypeOK'
      BY <1>7, <2>2, <2>3 DEF AllocCAS, Goto, TypeOK, Labels, Ptr
    <2>5. ListIntact'
      BY <1>7, <2>0, <2>2, <2>3 DEF AllocCAS, ListIntact, Alive
    <2>6. OneOwner'
      BY <1>7, <2>2 DEF AllocCAS, OneOwner, Goto, Carrying, TypeOK
    <2>7. SnapshotValid'
      BY <1>7, <2>3 DEF AllocCAS, Goto, TagFresh, SnapshotValid, Watching, TypeOK
    <2>8. LocalsValid'
      BY <1>7, <2>0 DEF AllocCAS, Goto, LocalsValid, Alive, TypeOK
    <2> QED
      BY <2>4, <2>5, <2>6, <2>7, <2>8
  <1>8. ASSUME NEW t \in Threads, AllocRetry(t) PROVE IInv'
    <2>1. TypeOK'
      BY <1>8 DEF AllocRetry, Goto, TypeOK, Labels, Ptr
    <2>2. ListIntact' /\ OneOwner'
      BY <1>8 DEF AllocRetry, ListIntact, OneOwner, Goto, Carrying, Alive
    <2>3. pool.ptr # NULL => pool.ptr \in Range(free)
      <3>1. Alive
        BY <1>8 DEF AllocRetry, LocalsValid
      <3> QED
        BY <3>1, ChainPop DEF ListIntact, TypeOK
    <2>4. SnapshotValid'
      BY <1>8, <2>3 DEF AllocRetry, SnapshotValid, Watching, Goto, TypeOK
    <2>5. LocalsValid'
      BY <1>8 DEF AllocRetry, LocalsValid, Alive, Goto, TypeOK
    <2> QED
      BY <2>1, <2>2, <2>4, <2>5
  <1>9. ASSUME NEW t \in Threads, NEW g \in Garbage, AllocNew(t, g) PROVE IInv'
    <2>0. /\ node[t] \in Nodes
          /\ node[t] \notin Range(free)
      BY <1>9 DEF AllocNew, LocalsValid, OneOwner, Goto, Carrying, TypeOK
    <2>1. next' = [next EXCEPT ![node[t]] = g]
      BY <1>9 DEF AllocNew
    <2>2. Nil \in TPtr /\ NULL \in Ptr
      BY TagAssumption DEF Nil, MkPtr, TPtr, Ptr, Tag
    <2>3. TypeOK'
      BY <1>9, <2>0, <2>1, <2>2 DEF AllocNew, Return, Goto, TypeOK, Labels
    <2>4. \A n \in Range(free) : next'[n] = next[n]
      BY <2>0, <2>1, ElementOfSeq, RangeElements DEF TypeOK
    <2>5. ListIntact'
      BY <1>9, <2>4, ChainFrame DEF AllocNew, ListIntact, Alive, TypeOK
    <2>6. OneOwner'
      BY <1>9 DEF AllocNew, Return, Goto, OneOwner, Carrying, TypeOK
    <2>7. SnapshotValid'
      BY <1>9, <2>4 DEF AllocNew, Return, Goto, SnapshotValid, LocalsValid, Watching, TypeOK
    <2>8. LocalsValid'
      BY <1>9, <2>0, <2>1 DEF AllocNew, Return, Goto, OneOwner, Carrying, LocalsValid, Alive, TypeOK
    <2> QED
      BY <2>3, <2>5, <2>6, <2>7, <2>8
  <1>10. ASSUME NEW t \in Threads, NEW n \in Nodes, Destruct(t, n) PROVE IInv'
    <2>1. TypeOK'
      BY <1>10 DEF Destruct, GiveBack, Goto, Ptr, TypeOK, Labels
    <2>2. ListIntact' /\ OneOwner'
      BY <1>10 DEF Destruct, GiveBack, ListIntact, OneOwner, Goto, Carrying, Alive, TypeOK
    <2>3. SnapshotValid'
      BY <1>10 DEF Destruct, GiveBack, Goto, Ptr, SnapshotValid, Watching, TypeOK
    <2>4. LocalsValid'
      BY <1>10 DEF Destruct, GiveBack, Goto, Ptr, LocalsValid, Alive, TypeOK
    <2> QED
      BY <2>1, <2>2, <2>3, <2>4
  <1>11. ASSUME NEW t \in Threads, Reserve(t) PROVE IInv'
    <2>0. PICK n \in os : os' = os \ {n} /\ node' = [node EXCEPT ![t] = n]
      BY <1>11 DEF Reserve
    <2>1. TypeOK'
      BY <1>11, <2>0 DEF Reserve, Goto, TypeOK, Labels, Ptr
    <2>2. ListIntact'
      BY <1>11 DEF Reserve, ListIntact, Alive
    <2>3. OneOwner'
      BY <1>11, <2>0 DEF Reserve, OneOwner, Goto, Carrying, TypeOK
    <2>4. SnapshotValid'
      BY <1>11 DEF Reserve, Goto, SnapshotValid, Watching, TypeOK
    <2>5. LocalsValid'
      BY <1>11, <2>0 DEF Reserve, Goto, LocalsValid, Alive, TypeOK
    <2> QED
      BY <2>1, <2>2, <2>3, <2>4, <2>5
  <1>12. ASSUME NEW t \in Threads, DeallocLoad(t) PROVE IInv'
    <2>1. TypeOK'
      BY <1>12 DEF DeallocLoad, Goto, TypeOK, Labels
    <2>2. ListIntact' /\ OneOwner'
      BY <1>12 DEF DeallocLoad, ListIntact, OneOwner, Goto, Carrying, Alive
    <2>3. SnapshotValid'
      BY <1>12 DEF DeallocLoad, Goto, SnapshotValid, Watching, TypeOK
    <2>4. LocalsValid'
      BY <1>12 DEF DeallocLoad, Goto, LocalsValid, Alive, TypeOK
    <2> QED
      BY <2>1, <2>2, <2>3, <2>4
  <1>13. ASSUME NEW t \in Threads, DeallocSet(t) PROVE IInv'
    <2>0. /\ node[t] \in Nodes
          /\ node[t] \notin Range(free)
      BY <1>13 DEF DeallocSet, LocalsValid, OneOwner, Goto, Carrying, TypeOK
    <2>1. TypeOK'
      BY <1>13, <2>0 DEF DeallocSet, Goto, TypeOK, Labels, TPtr
    <2>2. \A n \in Range(free) : next'[n] = next[n]
      BY <1>13, <2>0, ElementOfSeq, RangeElements DEF DeallocSet, TypeOK
    <2>3. ListIntact'
      <3>1. free \in Seq(Nodes) /\ UNCHANGED <<free, pool, walk>>
        BY <1>13 DEF DeallocSet, TypeOK
      <3> QED
        BY <2>2, <3>1, ChainFrame DEF ListIntact, Alive
    <2>4. OneOwner'
      BY <1>13 DEF DeallocSet, OneOwner, Goto, Carrying
    <2>5. SnapshotValid'
      BY <1>13, <2>2 DEF DeallocSet, Goto, SnapshotValid, LocalsValid, Watching, TypeOK
    <2>6. LocalsValid'
      BY <1>13, <2>0 DEF DeallocSet, Goto, OneOwner, Carrying, LocalsValid, Alive, TypeOK
    <2> QED
      BY <2>1, <2>3, <2>4, <2>5, <2>6
  <1>14. ASSUME NEW t \in Threads, DeallocCAS(t) PROVE IInv'
    <2>0. /\ Alive
          /\ node[t] \in Nodes
          /\ node[t] \notin Range(free)
          /\ next[node[t]] = pool.ptr
      BY <1>14 DEF DeallocCAS, LocalsValid, OneOwner, Goto, Carrying, TypeOK
    <2>1. /\ free' \in Seq(Nodes)
          /\ Range(free') = Range(free) \cup {node[t]}
          /\ IsChain(node[t], next, free')
      BY <1>14, <2>0, ChainPush DEF DeallocCAS, ListIntact, TypeOK
    <2>2. /\ pool' \in TPtr
          /\ pool'.ptr = node[t]
          /\ pool'.tag = pool.tag
      BY <1>14 DEF DeallocCAS, MkPtr, TypeOK, TPtr
    <2>3. Nil \in TPtr /\ NULL \in Ptr
      BY TagAssumption DEF Nil, MkPtr, TPtr, Ptr, Tag
    <2>4. TypeOK'
      BY <1>14, <2>1, <2>2, <2>3 DEF DeallocCAS, Return, Goto, TypeOK, Labels
    <2>5. ListIntact'
      BY <1>14, <2>0, <2>1, <2>2 DEF DeallocCAS, ListIntact, Alive
    <2>6. OneOwner'
      BY <1>14, <2>0, <2>1 DEF DeallocCAS, Return, Goto, OneOwner, Carrying, TypeOK
    <2>7. SnapshotValid'
      BY <1>14, <2>1, <2>2 DEF DeallocCAS, Return, Goto, SnapshotValid, Watching, TypeOK
    <2>8. LocalsValid'
      BY <1>14, <2>0 DEF DeallocCAS, Return, Goto, OneOwner, Carrying, LocalsValid, Alive, TypeOK
    <2> QED
      BY <2>4, <2>5, <2>6, <2>7, <2>8
  <1>15. ASSUME NEW t \in Threads, DeallocRetry(t) PROVE IInv'
    <2>1. TypeOK'
      BY <1>15 DEF DeallocRetry, Goto, TypeOK, Labels
    <2>2. ListIntact' /\ OneOwner'
      BY <1>15 DEF DeallocRetry, ListIntact, OneOwner, Goto, Carrying, Alive
    <2>3. SnapshotValid'
      BY <1>15 DEF DeallocRetry, Goto, SnapshotValid, Watching, TypeOK
    <2>4. LocalsValid'
      BY <1>15 DEF DeallocRetry, Goto, LocalsValid, Alive, TypeOK
    <2> QED
      BY <2>1, <2>2, <2>3, <2>4
  <1>16. ASSUME NEW g \in Garbage, ConstructUnsafe(g) PROVE IInv'
    <2>1. /\ pool.ptr \in Range(free) /\ pool.ptr \in Nodes
          /\ Tail(free) \in Seq(Nodes)
          /\ Range(Tail(free)) = Range(free) \ {pool.ptr}
          /\ next[pool.ptr] \in Ptr
          /\ IsChain(next[pool.ptr], next, Tail(free))
      BY <1>16, ChainPop DEF ConstructUnsafe, ListIntact, TypeOK
    <2>2. next' = [next EXCEPT ![pool.ptr] = g]
      BY <1>16 DEF ConstructUnsafe
    <2>3. \A n \in Range(Tail(free)) : next'[n] = next[n]
      BY <2>1, <2>2, ElementOfSeq, RangeElements DEF TypeOK
    <2>4. IsChain(next[pool.ptr], next', Tail(free))
      BY <2>1, <2>3, ChainFrame
    <2>5. pool'.ptr = next[pool.ptr] /\ pool' \in TPtr
      BY <1>16, <2>1, IncTagType DEF ConstructUnsafe, MkPtr, TypeOK, TPtr
    <2>6. TypeOK'
      BY <1>16, <2>1, <2>2, <2>5 DEF ConstructUnsafe, TypeOK
    <2>7. ListIntact'
      BY <1>16, <2>4, <2>5 DEF ConstructUnsafe, ListIntact, Alive
    <2>8. OneOwner'
      BY <1>16, <2>1 DEF ConstructUnsafe, OneOwner, Goto, Carrying, TypeOK
    <2>9. SnapshotValid' /\ LocalsValid'
      BY <1>16 DEF ConstructUnsafe, Quiescent, SnapshotValid, LocalsValid,
                   Watching, Alive, TypeOK
    <2> QED
      BY <2>6, <2>7, <2>8, <2>9
  <1>17. ASSUME NEW g \in Garbage, GrowUnsafe(g) PROVE IInv'
    <2>1. PICK n \in os :
            /\ os' = os \ {n}
            /\ used' = used \cup {n}
            /\ next' = [next EXCEPT ![n] = g]
      BY <1>17 DEF GrowUnsafe
    <2>2. \A m \in Range(free) : next'[m] = next[m]
      BY <2>1, ElementOfSeq, RangeElements DEF OneOwner, Goto, Carrying, TypeOK
    <2>3. TypeOK'
      BY <1>17, <2>1 DEF GrowUnsafe, TypeOK
    <2>4. ListIntact'
      BY <1>17, <2>2, ChainFrame DEF GrowUnsafe, ListIntact, Alive, TypeOK
    <2>5. OneOwner'
      BY <1>17, <2>1 DEF GrowUnsafe, OneOwner, Goto, Carrying, TypeOK
    <2>6. SnapshotValid' /\ LocalsValid'
      BY <1>17 DEF GrowUnsafe, Quiescent, SnapshotValid, LocalsValid,
                   Watching, Alive, TypeOK
    <2> QED
      BY <2>3, <2>4, <2>5, <2>6
  <1>18. ASSUME NEW n \in Nodes, DestructUnsafe(n) PROVE IInv'
    <2>0. n \in used /\ PushUnsafe(n) /\ used' = used \ {n}
      BY <1>18 DEF DestructUnsafe, GiveBackUnsafe
    <2>1. n \notin Range(free) /\ n \in Nodes
      BY <2>0 DEF OneOwner, Goto, Carrying, TypeOK
    <2>2. \A m \in Range(free) : next'[m] = next[m]
      BY <2>0, <2>1, ElementOfSeq, RangeElements DEF PushUnsafe, TypeOK
    <2>3. IsChain(pool.ptr, next', free)
      BY <1>18, <2>2, ChainFrame DEF DestructUnsafe, GiveBackUnsafe, ListIntact, TypeOK
    <2>4. next'[n] = pool.ptr
      BY <2>0, <2>1 DEF PushUnsafe, TypeOK
    <2>5. /\ free' \in Seq(Nodes)
          /\ Range(free') = Range(free) \cup {n}
          /\ IsChain(n, next', free')
      BY <2>0, <2>1, <2>3, <2>4, ChainPush DEF PushUnsafe, TypeOK
    <2>6. pool' \in TPtr /\ pool'.ptr = n
      BY <2>0, <2>1 DEF PushUnsafe, MkPtr, TypeOK, TPtr, Ptr
    <2>7. TypeOK'
      BY <1>18, <2>0, <2>1, <2>5, <2>6 DEF DestructUnsafe, GiveBackUnsafe, PushUnsafe, TypeOK, TPtr
    <2>8. ListIntact'
      BY <1>18, <2>0, <2>5, <2>6 DEF DestructUnsafe, GiveBackUnsafe, PushUnsafe, ListIntact, Alive
    <2>9. OneOwner'
      BY <1>18, <2>0, <2>1, <2>5 DEF DestructUnsafe, GiveBackUnsafe, PushUnsafe, OneOwner, Carrying, TypeOK
    <2>10. SnapshotValid' /\ LocalsValid'
      BY <1>18, <2>0 DEF DestructUnsafe, GiveBackUnsafe, PushUnsafe, Quiescent, SnapshotValid, LocalsValid,
                      Watching, Alive, TypeOK
    <2> QED
      BY <2>7, <2>8, <2>9, <2>10
  <1>19. ASSUME ReserveUnsafe PROVE IInv'
    <2>0. PICK n \in os : PushUnsafe(n) /\ os' = os \ {n}
      BY <1>19 DEF ReserveUnsafe
    <2>1. n \notin Range(free) /\ n \in Nodes
      BY <2>0 DEF OneOwner, Goto, Carrying, TypeOK
    <2>2. \A m \in Range(free) : next'[m] = next[m]
      BY <2>0, <2>1, ElementOfSeq, RangeElements DEF PushUnsafe, TypeOK
    <2>3. IsChain(pool.ptr, next', free)
      BY <1>19, <2>2, ChainFrame DEF ReserveUnsafe, ListIntact, TypeOK
    <2>4. next'[n] = pool.ptr
      BY <2>0, <2>1 DEF PushUnsafe, TypeOK
    <2>5. /\ free' \in Seq(Nodes)
          /\ Range(free') = Range(free) \cup {n}
          /\ IsChain(n, next', free')
      BY <2>0, <2>1, <2>3, <2>4, ChainPush DEF PushUnsafe, TypeOK
    <2>6. pool' \in TPtr /\ pool'.ptr = n
      BY <2>0, <2>1 DEF PushUnsafe, MkPtr, TypeOK, TPtr, Ptr
    <2>7. TypeOK'
      BY <1>19, <2>0, <2>1, <2>5, <2>6 DEF ReserveUnsafe, PushUnsafe, TypeOK, TPtr
    <2>8. ListIntact'
      BY <1>19, <2>0, <2>5, <2>6 DEF ReserveUnsafe, PushUnsafe, ListIntact, Alive
    <2>9. OneOwner'
      BY <1>19, <2>0, <2>1, <2>5 DEF ReserveUnsafe, PushUnsafe, OneOwner, Carrying, TypeOK
    <2>10. SnapshotValid' /\ LocalsValid'
      BY <1>19, <2>0 DEF ReserveUnsafe, PushUnsafe, Quiescent, SnapshotValid, LocalsValid,
                      Watching, Alive, TypeOK
    <2> QED
      BY <2>7, <2>8, <2>9, <2>10
  <1>20. ASSUME Destroy PROVE IInv'
    <2>1. TypeOK'
      BY <1>20 DEF Destroy, BeginDestroy, TypeOK, TPtr
    <2>2. ListIntact'
      BY <1>20, OffAssumption DEF Destroy, BeginDestroy, ListIntact, Alive, TypeOK, TPtr
    <2>3. OneOwner' /\ SnapshotValid' /\ LocalsValid'
      BY <1>20 DEF Destroy, BeginDestroy, OneOwner, Goto, Carrying, SnapshotValid, LocalsValid, Quiescent,
                   Watching, Alive
    <2> QED
      BY <2>1, <2>2, <2>3
  <1>21. ASSUME DestroyStep PROVE IInv'
    <2>0. ~Alive /\ walk # NULL
      BY <1>21, OffAssumption, NullAssumption DEF DestroyStep, Alive, Ptr
    <2>1. /\ walk \in Range(free)
          /\ Tail(free) \in Seq(Nodes)
          /\ Range(Tail(free)) = Range(free) \ {walk}
          /\ next[walk] \in Ptr
          /\ IsChain(next[walk], next, Tail(free))
      BY <2>0, ChainPop DEF ListIntact, TypeOK
    <2>2. TypeOK'
      BY <1>21, <2>1 DEF DestroyStep, TypeOK
    <2>3. ListIntact'
      BY <1>21, <2>1, OffAssumption DEF DestroyStep, ListIntact, Alive
    <2>4. OneOwner'
      BY <1>21, <2>0, <2>1 DEF DestroyStep, OneOwner, Goto, Carrying, LocalsValid, TypeOK
    <2>5. SnapshotValid' /\ LocalsValid'
      BY <1>21, <2>0 DEF DestroyStep, SnapshotValid, LocalsValid, Watching, Alive
    <2> QED
      BY <2>2, <2>3, <2>4, <2>5
  <1>22. ASSUME Recreate PROVE IInv'
    <2>0. ~Alive
      BY <1>22, OffAssumption DEF Recreate, Alive, Ptr
    <2>1. Nil \in TPtr /\ Nil.ptr = NULL
      BY TagAssumption DEF Nil, MkPtr, TPtr, Ptr, Tag
    <2>2. TypeOK'
      BY <1>22, <2>1 DEF Recreate, TypeOK
    <2>3. ListIntact'
      BY <1>22, <2>0, <2>1 DEF Recreate, ListIntact, Alive
    <2>4. OneOwner' /\ SnapshotValid' /\ LocalsValid'
      BY <1>22, <2>0 DEF Recreate, OneOwner, Goto, Carrying, SnapshotValid, LocalsValid, Watching, Alive
    <2> QED
      BY <2>2, <2>3, <2>4
  <1>23. ASSUME NEW n \in Nodes, NEW g \in Garbage, Write(n, g) PROVE IInv'
    <2>0. n \notin Range(free)
      BY <1>23 DEF Write, PutWord, OneOwner
    <2>1. next' = [next EXCEPT ![n] = g]
      BY <1>23 DEF Write, PutWord
    <2>2. TypeOK'
      BY <1>23, <2>1 DEF Write, PutWord, TypeOK
    <2>3. \A m \in Range(free) : next'[m] = next[m]
      BY <2>0, <2>1, ElementOfSeq, RangeElements DEF TypeOK
    <2>4. ListIntact'
      BY <1>23, <2>3, ChainFrame DEF Write, PutWord, ListIntact, Alive, TypeOK
    <2>5. OneOwner'
      BY <1>23 DEF Write, PutWord, OneOwner, Carrying
    <2>6. SnapshotValid'
      BY <1>23, <2>3 DEF Write, PutWord, SnapshotValid, LocalsValid, Watching, TypeOK
    <2>7. LocalsValid'
      BY <1>23, <2>1 DEF Write, PutWord, OneOwner, Carrying, LocalsValid, Alive, TypeOK
    <2> QED
      BY <2>2, <2>4, <2>5, <2>6, <2>7
  <1> QED
    BY <1>1, <1>2, <1>3, <1>4, <1>5, <1>6, <1>7, <1>8, <1>9, <1>10, <1>11, <1>12,
       <1>13, <1>14, <1>15, <1>16, <1>17, <1>18, <1>19, <1>20, <1>21, <1>22, <1>23
       DEF Next, PoolStep, Step

\* The null pointer with tag 0 is a tagged pointer, and null is a pointer.
LEMMA NilType == Nil \in TPtr /\ Nil.ptr = NULL /\ NULL \in Ptr
  BY TagAssumption DEF Nil, MkPtr, TPtr, Ptr, Tag

\* A step inside the pool changes neither the nodes that are in use nor their
\* links: the pool writes only to the node it carries.
LEMMA PoolKeepsUsed ==
    ASSUME IInv, NEW t \in Threads,
           \/ AllocLoad(t) \/ AllocGrow(t) \/ AllocRead(t) \/ AllocCAS(t)
           \/ AllocRetry(t) \/ DeallocLoad(t) \/ DeallocSet(t) \/ DeallocRetry(t)
           \/ AllocFail(t) \/ DeallocCAS(t)
    PROVE  /\ used' = used
           /\ walk' = walk
           /\ \A n \in used : next'[n] = next[n]
           /\ \A u \in Threads \ {t} : pc'[u] = pc[u]
  <1> USE DEF IInv
  <1>1. CASE DeallocSet(t)
    <2>1. node[t] \notin used
      BY <1>1 DEF DeallocSet, OneOwner, Carrying
    <2> QED
      BY <1>1, <2>1 DEF DeallocSet, Goto, TypeOK
  <1>2. CASE ~DeallocSet(t)
    BY <1>2 DEF AllocLoad, AllocGrow, AllocRead, AllocCAS, AllocRetry, DeallocLoad,
                DeallocRetry, AllocFail, DeallocCAS, Return, Goto, TypeOK
  <1> QED
    BY <1>1, <1>2

\* The inductive invariant holds in every reachable state.
THEOREM InvariantHolds == Spec => []IInv
  BY InitIInv, NextIInv, PTL DEF Spec

\* Every variable keeps its type: in particular no link that was read from
\* the bytes of a node in use ever reaches pool_ (freelist.hpp:129-132).
THEOREM TypeCorrect == Spec => []TypeOK
  BY InvariantHolds, PTL DEF IInv

\* The free nodes are linked correctly below pool_ in every reachable state
\* (freelist.hpp:117-195).
THEOREM ListAlwaysIntact == Spec => []ListIntact
  BY InvariantHolds, PTL DEF IInv

\* No node ever has two owners and none is lost (freelist.hpp:117-195).
THEOREM AlwaysOneOwner == Spec => []OneOwner
  BY InvariantHolds, PTL DEF IInv

\* The link with which the compare_exchange of allocate succeeds is the link
\* of the node it takes, although the node may have been reused since
\* (freelist.hpp:129-132).
THEOREM AllocateNeverStale == Spec => []SnapshotValid
  BY InvariantHolds, PTL DEF IInv

\* The destructor's walk visits nodes the pool still owns, and ends when it
\* owns none.
LEMMA IInvDestroyed == IInv => DestroyedOnce
  <1> SUFFICES ASSUME IInv PROVE DestroyedOnce
    OBVIOUS
  <1> USE DEF IInv
  <1>1. ASSUME walk \in Nodes PROVE walk \notin os
    <2>1. ~Alive /\ walk # NULL
      BY <1>1, OffAssumption, NullAssumption DEF Alive, Ptr
    <2>2. walk \in Range(free)
      BY <2>1, ChainPop DEF ListIntact, TypeOK
    <2> QED
      BY <2>2 DEF OneOwner, Goto, Carrying
  <1>2. ASSUME walk = NULL PROVE os = Nodes
    <2>1. ~Alive
      BY <1>2, OffAssumption DEF Alive, Ptr
    <2>2. Range(free) = {}
      BY <1>2, <2>1, ChainEmpty DEF ListIntact, TypeOK
    <2> QED
      BY <2>1, <2>2 DEF OneOwner, Goto, Carrying, LocalsValid, TypeOK
  <1> QED
    BY <1>1, <1>2 DEF DestroyedOnce

\* The destructor frees every node once (freelist.hpp:185-195).
THEOREM AlwaysDestroyedOnce == Spec => []DestroyedOnce
  BY InvariantHolds, IInvDestroyed, PTL

-----------------------------------------------------------------------------
(* Freelist implements NodePool. *)

\* A step that is not part of a call leaves the abstract state alone.
LEMMA PoolStutter ==
    ASSUME UNCHANGED <<free, os, used, walk>>, PoolCall' = PoolCall, PoolArg' = PoolArg
    PROVE  UNCHANGED Pool!vars
  BY DEF Pool!vars, Alive

\* Every step of the freelist is a step of the pool or changes nothing in it.
LEMMA StepRefines ==
    IInv /\ IInv' /\ [Next]_vars => [Pool!Next]_(Pool!vars)
  <1> SUFFICES ASSUME IInv, IInv', [Next]_vars PROVE [Pool!Next]_(Pool!vars)
    OBVIOUS
  <1> USE DEF IInv
  <1>1. CASE UNCHANGED vars
    BY <1>1 DEF vars, Pool!vars, Alive, PoolCall, PoolArg, Carrying, Goto, TypeOK
  <1>2. ASSUME NEW t \in Threads, Construct(t) PROVE [Pool!Next]_(Pool!vars)
    <2>1. Pool!CallAllocate(t)
      <3>1. /\ PoolCall[t] = "none"
            /\ PoolCall' = [PoolCall EXCEPT ![t] = "alloc"]
        BY <1>2 DEF Construct, Goto, PoolCall, Status, TypeOK
      <3>2. PoolArg' = PoolArg
        BY <1>2, <3>1 DEF Construct, PoolArg, Carrying, Goto, PoolCall
      <3> QED
        BY <1>2, <3>1, <3>2 DEF Construct, Pool!CallAllocate, Pool!Become, Alive
    <2> QED
      BY <2>1 DEF Pool!Next
  <1>3. ASSUME NEW t \in Threads, AllocLoad(t) PROVE [Pool!Next]_(Pool!vars)
    <2>1. CASE pool.ptr = NULL
      <3>1. /\ PoolCall[t] = "alloc"
            /\ PoolCall' = [PoolCall EXCEPT ![t] = "empty"]
        BY <1>3, <2>1 DEF AllocLoad, Goto, PoolCall, Status, LocalsValid, TypeOK
      <3>2. PoolArg' = PoolArg
        BY <1>3 DEF AllocLoad, PoolArg, Carrying, Goto, TypeOK
      <3>3. Range(free) = {}
        BY <1>3, <2>1, ChainEmpty DEF AllocLoad, ListIntact, LocalsValid, TypeOK
      <3>4. Pool!FindEmpty(t)
        BY <1>3, <3>1, <3>2, <3>3 DEF AllocLoad, Pool!FindEmpty, Pool!Become, Alive
      <3> QED
        BY <3>4 DEF Pool!Next
    <2>2. CASE pool.ptr # NULL
      <3>1. PoolCall' = PoolCall
        BY <1>3, <2>2 DEF AllocLoad, Goto, PoolCall, Status, LocalsValid, TypeOK
      <3>2. PoolArg' = PoolArg
        BY <1>3, <3>1 DEF AllocLoad, PoolArg, Carrying, Goto, TypeOK
      <3> QED
        BY <1>3, <3>1, <3>2, PoolStutter DEF AllocLoad
    <2> QED
      BY <2>1, <2>2
  <1>4. ASSUME NEW t \in Threads, AllocFail(t) PROVE [Pool!Next]_(Pool!vars)
    <2>1. /\ PoolCall[t] = "empty"
          /\ PoolCall' = [PoolCall EXCEPT ![t] = "none"]
      BY <1>4 DEF AllocFail, Return, Goto, PoolCall, Status, TypeOK
    <2>2. PoolArg' = PoolArg
      BY <1>4, <2>1 DEF AllocFail, Return, PoolArg, Carrying, Goto, TypeOK
    <2>3. Pool!ReturnNull(t)
      BY <1>4, <2>1, <2>2 DEF AllocFail, Pool!ReturnNull, Pool!Become, Alive
    <2> QED
      BY <2>3 DEF Pool!Next
  <1>5. ASSUME NEW t \in Threads, AllocGrow(t) PROVE [Pool!Next]_(Pool!vars)
    <2>1. PICK n \in os : os' = os \ {n} /\ node' = [node EXCEPT ![t] = n]
      BY <1>5 DEF AllocGrow
    <2>2. /\ PoolCall[t] = "empty"
          /\ PoolCall' = [PoolCall EXCEPT ![t] = "taken"]
      BY <1>5 DEF AllocGrow, Goto, PoolCall, Status, TypeOK
    <2>3. PoolArg' = [PoolArg EXCEPT ![t] = n]
      BY <1>5, <2>1, <2>2 DEF AllocGrow, PoolArg, Carrying, Goto, TypeOK
    <2>4. Pool!Grow(t)
      BY <1>5, <2>1, <2>2, <2>3 DEF AllocGrow, Pool!Grow, Pool!Become, Pool!Carry, Alive
    <2> QED
      BY <2>4 DEF Pool!Next
  <1>6. ASSUME NEW t \in Threads, AllocRead(t) PROVE [Pool!Next]_(Pool!vars)
    <2>1. PoolCall' = PoolCall
      BY <1>6 DEF AllocRead, Goto, PoolCall, Status, LocalsValid, TypeOK
    <2>2. PoolArg' = PoolArg
      BY <1>6, <2>1 DEF AllocRead, PoolArg, Carrying, Goto, TypeOK
    <2> QED
      BY <1>6, <2>1, <2>2, PoolStutter DEF AllocRead
  <1>7. ASSUME NEW t \in Threads, AllocCAS(t) PROVE [Pool!Next]_(Pool!vars)
    <2>1. /\ pool.ptr \in Range(free)
          /\ Range(Tail(free)) = Range(free) \ {pool.ptr}
      <3>1. Alive /\ pool.ptr # NULL
        BY <1>7 DEF AllocCAS, LocalsValid
      <3> QED
        BY <3>1, ChainPop DEF ListIntact, TypeOK
    <2>2. /\ PoolCall[t] = "alloc"
          /\ PoolCall' = [PoolCall EXCEPT ![t] = "taken"]
      BY <1>7 DEF AllocCAS, Goto, PoolCall, Status, TypeOK
    <2>3. PoolArg' = [PoolArg EXCEPT ![t] = pool.ptr]
      BY <1>7, <2>2 DEF AllocCAS, PoolArg, Carrying, Goto, TypeOK
    <2>4. Pool!Take(t)
      BY <1>7, <2>1, <2>2, <2>3 DEF AllocCAS, Pool!Take, Pool!Become, Pool!Carry, Alive
    <2> QED
      BY <2>4 DEF Pool!Next
  <1>8. ASSUME NEW t \in Threads, AllocRetry(t) PROVE [Pool!Next]_(Pool!vars)
    <2>1. CASE pool.ptr = NULL
      <3>1. /\ PoolCall[t] = "alloc"
            /\ PoolCall' = [PoolCall EXCEPT ![t] = "empty"]
        BY <1>8, <2>1 DEF AllocRetry, Goto, PoolCall, Status, LocalsValid, TypeOK
      <3>2. PoolArg' = PoolArg
        BY <1>8 DEF AllocRetry, PoolArg, Carrying, Goto, TypeOK
      <3>3. Range(free) = {}
        BY <1>8, <2>1, ChainEmpty DEF AllocRetry, ListIntact, LocalsValid, TypeOK
      <3>4. Pool!FindEmpty(t)
        BY <1>8, <3>1, <3>2, <3>3 DEF AllocRetry, Pool!FindEmpty, Pool!Become, Alive
      <3> QED
        BY <3>4 DEF Pool!Next
    <2>2. CASE pool.ptr # NULL
      <3>1. PoolCall' = PoolCall
        BY <1>8, <2>2 DEF AllocRetry, Goto, PoolCall, Status, LocalsValid, TypeOK
      <3>2. PoolArg' = PoolArg
        BY <1>8, <3>1 DEF AllocRetry, PoolArg, Carrying, Goto, TypeOK
      <3> QED
        BY <1>8, <3>1, <3>2, PoolStutter DEF AllocRetry
    <2> QED
      BY <2>1, <2>2
  <1>9. ASSUME NEW t \in Threads, NEW g \in Garbage, AllocNew(t, g) PROVE [Pool!Next]_(Pool!vars)
    <2>1. /\ PoolCall[t] = "taken"
          /\ PoolCall' = [PoolCall EXCEPT ![t] = "none"]
      BY <1>9 DEF AllocNew, Return, Goto, PoolCall, Status, TypeOK
    <2>2. /\ PoolArg[t] = node[t]
          /\ PoolArg' = [PoolArg EXCEPT ![t] = NULL]
      BY <1>9, <2>1 DEF AllocNew, Return, PoolArg, Carrying, Goto, TypeOK
    <2>3. Pool!ReturnNode(t)
      BY <1>9, <2>1, <2>2 DEF AllocNew, Pool!ReturnNode, Pool!Become, Pool!Carry, Alive
    <2> QED
      BY <2>3 DEF Pool!Next
  <1>10. ASSUME NEW t \in Threads, NEW n \in Nodes, Destruct(t, n) PROVE [Pool!Next]_(Pool!vars)
    <2>1. n \in used /\ used' = used \ {n} /\ node' = [node EXCEPT ![t] = n]
      BY <1>10 DEF Destruct, GiveBack
    <2>2. /\ PoolCall[t] = "none"
          /\ PoolCall' = [PoolCall EXCEPT ![t] = "free"]
      BY <1>10 DEF Destruct, GiveBack, Goto, PoolCall, Status, TypeOK
    <2>3. PoolArg' = [PoolArg EXCEPT ![t] = n]
      BY <1>10, <2>1, <2>2 DEF Destruct, GiveBack, PoolArg, Carrying, Goto, TypeOK
    <2>4. Pool!CallDeallocate(t)
      BY <1>10, <2>1, <2>2, <2>3 DEF Destruct, GiveBack, Pool!CallDeallocate, Pool!Become, Pool!Carry, Alive
    <2> QED
      BY <2>4 DEF Pool!Next
  <1>11. ASSUME NEW t \in Threads, Reserve(t) PROVE [Pool!Next]_(Pool!vars)
    <2>1. PICK n \in os : os' = os \ {n} /\ node' = [node EXCEPT ![t] = n]
      BY <1>11 DEF Reserve
    <2>2. /\ PoolCall[t] = "none"
          /\ PoolCall' = [PoolCall EXCEPT ![t] = "free"]
      BY <1>11 DEF Reserve, Goto, PoolCall, Status, TypeOK
    <2>3. PoolArg' = [PoolArg EXCEPT ![t] = n]
      BY <1>11, <2>1, <2>2 DEF Reserve, PoolArg, Carrying, Goto, TypeOK
    <2>4. Pool!CallReserve(t)
      BY <1>11, <2>1, <2>2, <2>3 DEF Reserve, Pool!CallReserve, Pool!Become, Pool!Carry, Alive
    <2> QED
      BY <2>4 DEF Pool!Next
  <1>12. ASSUME NEW t \in Threads, DeallocLoad(t) PROVE [Pool!Next]_(Pool!vars)
    <2>1. PoolCall' = PoolCall
      BY <1>12 DEF DeallocLoad, Goto, PoolCall, Status, LocalsValid, TypeOK
    <2>2. PoolArg' = PoolArg
      BY <1>12, <2>1 DEF DeallocLoad, PoolArg, Carrying, Goto, TypeOK
    <2> QED
      BY <1>12, <2>1, <2>2, PoolStutter DEF DeallocLoad
  <1>13. ASSUME NEW t \in Threads, DeallocSet(t) PROVE [Pool!Next]_(Pool!vars)
    <2>1. PoolCall' = PoolCall
      BY <1>13 DEF DeallocSet, Goto, PoolCall, Status, LocalsValid, TypeOK
    <2>2. PoolArg' = PoolArg
      BY <1>13, <2>1 DEF DeallocSet, PoolArg, Carrying, Goto, TypeOK
    <2> QED
      BY <1>13, <2>1, <2>2, PoolStutter DEF DeallocSet
  <1>14. ASSUME NEW t \in Threads, DeallocCAS(t) PROVE [Pool!Next]_(Pool!vars)
    <2>1. Range(free') = Range(free) \cup {node[t]}
      <3>1. /\ Alive
            /\ node[t] \in Nodes /\ node[t] \notin Range(free)
            /\ next[node[t]] = pool.ptr
        BY <1>14 DEF DeallocCAS, LocalsValid, OneOwner, Goto, Carrying, TypeOK
      <3> QED
        BY <1>14, <3>1, ChainPush DEF DeallocCAS, ListIntact, TypeOK
    <2>2. /\ PoolCall[t] = "free"
          /\ PoolCall' = [PoolCall EXCEPT ![t] = "none"]
      BY <1>14 DEF DeallocCAS, Return, Goto, PoolCall, Status, TypeOK
    <2>3. /\ PoolArg[t] = node[t]
          /\ PoolArg' = [PoolArg EXCEPT ![t] = NULL]
      BY <1>14, <2>2 DEF DeallocCAS, Return, PoolArg, Carrying, Goto, TypeOK
    <2>4. Pool!Give(t)
      BY <1>14, <2>1, <2>2, <2>3 DEF DeallocCAS, Pool!Give, Pool!Become, Pool!Carry, Alive
    <2> QED
      BY <2>4 DEF Pool!Next
  <1>15. ASSUME NEW t \in Threads, DeallocRetry(t) PROVE [Pool!Next]_(Pool!vars)
    <2>1. PoolCall' = PoolCall
      BY <1>15 DEF DeallocRetry, Goto, PoolCall, Status, LocalsValid, TypeOK
    <2>2. PoolArg' = PoolArg
      BY <1>15, <2>1 DEF DeallocRetry, PoolArg, Carrying, Goto, TypeOK
    <2> QED
      BY <1>15, <2>1, <2>2, PoolStutter DEF DeallocRetry
  <1>16. ASSUME NEW g \in Garbage, ConstructUnsafe(g) PROVE [Pool!Next]_(Pool!vars)
    <2>1. /\ UNCHANGED <<PoolCall, PoolArg>>
          /\ Pool!Quiescent
      BY <1>16 DEF ConstructUnsafe, PushUnsafe, Quiescent, Pool!Quiescent, PoolCall, PoolArg, Carrying, Status
    <2>2. /\ pool.ptr \in Range(free)
          /\ Range(Tail(free)) = Range(free) \ {pool.ptr}
      BY <1>16, ChainPop DEF ConstructUnsafe, ListIntact, TypeOK
    <2>3. Pool!TakeUnsafe
      BY <1>16, <2>1, <2>2 DEF ConstructUnsafe, Pool!TakeUnsafe, Pool!Carry, Alive
    <2> QED
      BY <2>3 DEF Pool!Next
  <1>17. ASSUME NEW g \in Garbage, GrowUnsafe(g) PROVE [Pool!Next]_(Pool!vars)
    <2>1. /\ UNCHANGED <<PoolCall, PoolArg>>
          /\ Pool!Quiescent
      BY <1>17 DEF GrowUnsafe, PushUnsafe, Quiescent, Pool!Quiescent, PoolCall, PoolArg, Carrying, Status
    <2>2. Range(free) = {}
      BY <1>17, ChainEmpty DEF GrowUnsafe, ListIntact, TypeOK
    <2>3. Pool!GrowUnsafe
      BY <1>17, <2>1, <2>2 DEF GrowUnsafe, Pool!GrowUnsafe, Pool!Carry, Alive
    <2> QED
      BY <2>3 DEF Pool!Next
  <1>18. ASSUME NEW n \in Nodes, DestructUnsafe(n) PROVE [Pool!Next]_(Pool!vars)
    <2>1. /\ UNCHANGED <<PoolCall, PoolArg>>
          /\ Pool!Quiescent
      BY <1>18 DEF DestructUnsafe, GiveBackUnsafe, PushUnsafe, Quiescent, Pool!Quiescent, PoolCall, PoolArg, Carrying, Status
    <2>2. n \in used /\ PushUnsafe(n) /\ used' = used \ {n}
      BY <1>18 DEF DestructUnsafe, GiveBackUnsafe
    <2>3. Range(free') = Range(free) \cup {n}
      BY <2>2, PushRange DEF PushUnsafe, TypeOK
    <2>4. Pool!GiveUnsafe
      BY <1>18, <2>1, <2>2, <2>3
         DEF DestructUnsafe, GiveBackUnsafe, PushUnsafe, Pool!GiveUnsafe, Pool!Carry, Alive
    <2> QED
      BY <2>4 DEF Pool!Next
  <1>19. ASSUME ReserveUnsafe PROVE [Pool!Next]_(Pool!vars)
    <2>1. /\ UNCHANGED <<PoolCall, PoolArg>>
          /\ Pool!Quiescent
      BY <1>19 DEF ReserveUnsafe, PushUnsafe, Quiescent, Pool!Quiescent, PoolCall, PoolArg, Carrying, Status
    <2>2. PICK n \in os : PushUnsafe(n) /\ os' = os \ {n}
      BY <1>19 DEF ReserveUnsafe
    <2>3. Range(free') = Range(free) \cup {n}
      BY <2>2, PushRange DEF PushUnsafe, TypeOK
    <2>4. Pool!ReserveUnsafe
      BY <1>19, <2>1, <2>2, <2>3
         DEF ReserveUnsafe, PushUnsafe, Pool!ReserveUnsafe, Alive
    <2> QED
      BY <2>4 DEF Pool!Next
  <1>20. ASSUME Destroy PROVE [Pool!Next]_(Pool!vars)
    <2>1. /\ UNCHANGED <<PoolCall, PoolArg>>
          /\ Pool!Quiescent
      BY <1>20 DEF Destroy, BeginDestroy, PushUnsafe, Quiescent, Pool!Quiescent, PoolCall, PoolArg, Carrying, Status
    <2>2. ~Alive'
      BY <1>20, OffAssumption DEF Destroy, BeginDestroy, Alive, TypeOK, TPtr
    <2>3. Pool!Destroy
      BY <1>20, <2>1, <2>2 DEF Destroy, BeginDestroy, Pool!Destroy, Alive
    <2> QED
      BY <2>3 DEF Pool!Next
  <1>21. ASSUME DestroyStep PROVE [Pool!Next]_(Pool!vars)
    <2>1. UNCHANGED <<PoolCall, PoolArg>>
      BY <1>21 DEF DestroyStep, PoolCall, PoolArg, Carrying, Goto, TypeOK
    <2>2. ~Alive /\ walk # NULL
      BY <1>21, OffAssumption, NullAssumption DEF DestroyStep, Alive, Ptr
    <2>3. /\ walk \in Range(free)
          /\ Range(Tail(free)) = Range(free) \ {walk}
          /\ next[walk] \in Ptr
      BY <2>2, ChainPop DEF ListIntact, TypeOK
    <2>4. ~Alive'
      BY <1>21, <2>3, OffAssumption DEF DestroyStep, Alive
    <2>5. Pool!Reclaim
      BY <1>21, <2>1, <2>2, <2>3, <2>4 DEF DestroyStep, Pool!Reclaim
    <2> QED
      BY <2>5 DEF Pool!Next
  <1>22. ASSUME Recreate PROVE [Pool!Next]_(Pool!vars)
    <2>1. UNCHANGED <<PoolCall, PoolArg>>
      BY <1>22 DEF Recreate, PoolCall, PoolArg, Carrying, Goto, TypeOK
    <2>2. ~Alive /\ Alive'
      BY <1>22, OffAssumption DEF Recreate, Alive, Ptr
    <2>3. os = Nodes
      BY <1>22, IInvDestroyed DEF Recreate, DestroyedOnce
    <2>4. Pool!Recreate
      BY <1>22, <2>1, <2>2, <2>3 DEF Recreate, Pool!Recreate
    <2> QED
      BY <2>4 DEF Pool!Next
  <1>23. ASSUME NEW n \in Nodes, NEW g \in Garbage, Write(n, g) PROVE [Pool!Next]_(Pool!vars)
    <2>1. UNCHANGED <<PoolCall, PoolArg>>
      BY <1>23 DEF Write, PutWord, PoolCall, PoolArg, Carrying
    <2> QED
      BY <1>23, <2>1, PoolStutter DEF Write, PutWord
  <1> QED
    BY <1>1, <1>2, <1>3, <1>4, <1>5, <1>6, <1>7, <1>8, <1>9, <1>10, <1>11, <1>12,
       <1>13, <1>14, <1>15, <1>16, <1>17, <1>18, <1>19, <1>20, <1>21, <1>22, <1>23
       DEF Next, PoolStep, Step

\* The freelist implements the pool that stack and fifo rely on: allocate and
\* deallocate take effect at one instant each, and allocate comes back
\* without a node of the pool only if the pool was empty during the call
\* (freelist.hpp:117-195).
THEOREM FreelistIsPool == Spec => PoolSpec
  <1>1. Init => Pool!Init
    BY RangeEmpty DEF Init, Pool!Init, PoolCall, PoolArg, Carrying, Goto, Status, Alive
  <1> QED
    BY <1>1, InvariantHolds, StepRefines, PTL DEF Spec, PoolSpec, Pool!Spec
=============================================================================
