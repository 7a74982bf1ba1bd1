------------------------------ MODULE NodePool ------------------------------
(***************************************************************************)
(* What freelist_stack promises to stack and fifo: a set of spare nodes    *)
(* from which a node is taken, and to which it is given back, at one       *)
(* instant between the call and the return of the operation.  allocate     *)
(* comes back without a spare node only if at such an instant there was    *)
(* none.                                                                   *)
(***************************************************************************)
CONSTANTS Threads, Nodes, NULL, MayAllocate

VARIABLES
    avail,  \* the spare nodes
    os,     \* the nodes that belong to the allocator
    used,   \* the nodes that the users of the pool own
    call,   \* call[t]: where thread t is in its operation
    arg,    \* arg[t]: the node thread t is getting or giving back
    dead    \* whether the pool is being destroyed

vars == <<avail, os, used, call, arg, dead>>

Init ==
    /\ avail = {}
    /\ os = Nodes
    /\ used = {}
    /\ call = [t \in Threads |-> "none"]
    /\ arg = [t \in Threads |-> NULL]
    /\ dead = FALSE

Become(t, c) == call' = [call EXCEPT ![t] = c]

Carry(t, n) == arg' = [arg EXCEPT ![t] = n]

Quiescent == \A t \in Threads : call[t] = "none"

-----------------------------------------------------------------------------
CallAllocate(t) ==
    /\ ~dead
    /\ call[t] = "none"
    /\ Become(t, "alloc")
    /\ UNCHANGED <<avail, os, used, arg, dead>>

\* allocate takes a spare node.
Take(t) ==
    /\ call[t] = "alloc"
    /\ \E n \in avail : avail' = avail \ {n} /\ Carry(t, n)
    /\ Become(t, "taken")
    /\ UNCHANGED <<os, used, dead>>

\* allocate finds that there is no spare node.
FindEmpty(t) ==
    /\ call[t] = "alloc"
    /\ avail = {}
    /\ Become(t, "empty")
    /\ UNCHANGED <<avail, os, used, arg, dead>>

\* After that a growing pool gets a node from the allocator.
Grow(t) ==
    /\ call[t] = "empty"
    /\ MayAllocate
    /\ \E n \in os : os' = os \ {n} /\ Carry(t, n)
    /\ Become(t, "taken")
    /\ UNCHANGED <<avail, used, dead>>

\* allocate returns a node.
ReturnNode(t) ==
    /\ call[t] = "taken"
    /\ used' = used \cup {arg[t]}
    /\ Carry(t, NULL)
    /\ Become(t, "none")
    /\ UNCHANGED <<avail, os, dead>>

\* allocate returns without one: the pool may not grow, or cannot.
ReturnNull(t) ==
    /\ call[t] = "empty"
    /\ MayAllocate => os = {}
    /\ Become(t, "none")
    /\ UNCHANGED <<avail, os, used, arg, dead>>

\* deallocate is called with a node that a user owned.
CallDeallocate(t) ==
    /\ ~dead
    /\ call[t] = "none"
    /\ \E n \in used : used' = used \ {n} /\ Carry(t, n)
    /\ Become(t, "free")
    /\ UNCHANGED <<avail, os, dead>>

\* reserve gets a node from the allocator and calls deallocate.
CallReserve(t) ==
    /\ ~dead
    /\ call[t] = "none"
    /\ \E n \in os : os' = os \ {n} /\ Carry(t, n)
    /\ Become(t, "free")
    /\ UNCHANGED <<avail, used, dead>>

\* deallocate makes the node a spare one.
Give(t) ==
    /\ call[t] = "free"
    /\ avail' = avail \cup {arg[t]}
    /\ Carry(t, NULL)
    /\ Become(t, "none")
    /\ UNCHANGED <<os, used, dead>>

-----------------------------------------------------------------------------
(* Operations that run alone. *)

TakeUnsafe ==
    /\ ~dead /\ Quiescent
    /\ \E n \in avail : avail' = avail \ {n} /\ used' = used \cup {n}
    /\ UNCHANGED <<os, call, arg, dead>>

GrowUnsafe ==
    /\ ~dead /\ Quiescent
    /\ MayAllocate /\ avail = {}
    /\ \E n \in os : os' = os \ {n} /\ used' = used \cup {n}
    /\ UNCHANGED <<avail, call, arg, dead>>

GiveUnsafe ==
    /\ ~dead /\ Quiescent
    /\ \E n \in used : avail' = avail \cup {n} /\ used' = used \ {n}
    /\ UNCHANGED <<os, call, arg, dead>>

ReserveUnsafe ==
    /\ ~dead /\ Quiescent
    /\ \E n \in os : avail' = avail \cup {n} /\ os' = os \ {n}
    /\ UNCHANGED <<used, call, arg, dead>>

Destroy ==
    /\ ~dead /\ Quiescent
    /\ used = {}
    /\ dead' = TRUE
    /\ UNCHANGED <<avail, os, used, call, arg>>

\* The destructor gives the spare nodes back to the allocator.
Reclaim ==
    /\ dead
    /\ \E n \in avail : avail' = avail \ {n} /\ os' = os \cup {n}
    /\ UNCHANGED <<used, call, arg, dead>>

\* A new pool is built only when the old one has given everything back.
Recreate ==
    /\ dead
    /\ os = Nodes
    /\ dead' = FALSE
    /\ UNCHANGED <<avail, os, used, call, arg>>

Next ==
    \/ \E t \in Threads :
        \/ CallAllocate(t) \/ Take(t) \/ FindEmpty(t) \/ Grow(t)
        \/ ReturnNode(t) \/ ReturnNull(t)
        \/ CallDeallocate(t) \/ CallReserve(t) \/ Give(t)
    \/ TakeUnsafe \/ GrowUnsafe \/ GiveUnsafe \/ ReserveUnsafe
    \/ Destroy \/ Reclaim \/ Recreate

Spec == Init /\ [][Next]_vars
=============================================================================
