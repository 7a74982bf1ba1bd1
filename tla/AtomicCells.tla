---------------------------- MODULE AtomicCells ----------------------------
(***************************************************************************)
(* What boost::atomic<T> promises for integral T: each object is a cell,   *)
(* and each operation on it takes effect at one instant between its call   *)
(* and its return, with the result that belongs to that instant.           *)
(***************************************************************************)

CONSTANTS
    Threads,
    Cells,
    Values,
    Ops,                \* the operations
    Apply(_, _, _, _),  \* Apply(op, i, v, c): what op with operand c makes of
                        \* v, the value of cell i
    NoReq,              \* req[t] between two operations of t
    Pending             \* res[t] before the operation of t has taken effect

VARIABLES
    cell,   \* cell[i]: the value of object i
    req,    \* req[t]: the operation of t, on the object `at', with the operand
            \* `arg' and, for compare_exchange, the value `exp' expected
    res     \* res[t]: not done yet, or whether a compare_exchange succeeded
            \* and the value that was found

vars == <<cell, req, res>>

CasOps == {"cas_weak", "cas_strong"}

Requests == [op : Ops, at : Cells, arg : Values, exp : Values]

Init ==
    /\ cell \in [Cells -> Values]
    /\ req = [t \in Threads |-> NoReq]
    /\ res = [t \in Threads |-> Pending]

Call(t) ==
    /\ req[t] = NoReq
    /\ \E r \in Requests : req' = [req EXCEPT ![t] = r]
    /\ UNCHANGED <<cell, res>>

\* The operation of t is done and has found value v (store returns none).
Done(t, ok, v) == res' = [res EXCEPT ![t] = [ok |-> ok, val |-> v]]

\* load, store, exchange and the fetch operations, or a compare_exchange that
\* finds what it expects.
Effect(t) ==
    /\ req[t] # NoReq /\ res[t] = Pending
    /\ LET r == req[t] IN
        /\ r.op \in CasOps => cell[r.at] = r.exp
        /\ cell' = [cell EXCEPT ![r.at] = Apply(r.op, r.at, @, r.arg)]
        /\ Done(t, TRUE, IF r.op = "store" THEN r.arg ELSE cell[r.at])
    /\ UNCHANGED req

\* compare_exchange_strong fails only if the value differs; the weak form may
\* fail without a reason.
Fail(t) ==
    /\ req[t] # NoReq /\ res[t] = Pending
    /\ LET r == req[t] IN
        /\ \/ r.op = "cas_weak"
           \/ r.op = "cas_strong" /\ cell[r.at] # r.exp
        /\ Done(t, FALSE, cell[r.at])
    /\ UNCHANGED <<cell, req>>

Return(t) ==
    /\ res[t] # Pending
    /\ req' = [req EXCEPT ![t] = NoReq]
    /\ res' = [res EXCEPT ![t] = Pending]
    /\ UNCHANGED cell

Next == \E t \in Threads : Call(t) \/ Effect(t) \/ Fail(t) \/ Return(t)

Spec == Init /\ [][Next]_vars
=============================================================================
