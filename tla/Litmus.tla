------------------------------- MODULE Litmus -------------------------------
(***************************************************************************)
(* The patterns in which the library and the examples of its documentation *)
(* rely on memory_order, run with the instructions of every platform       *)
(* (Platforms) on a machine that executes a thread's accesses out of order *)
(* except where something orders them: the same location, a fence, a       *)
(* dependency or the processor's own rules.                                *)
(***************************************************************************)
EXTENDS Integers, Sequences, Platforms

CONSTANT Tested     \* the platforms to run on

ASSUME TestedAssumption == Tested \subseteq Plats

VARIABLES
    plat,   \* the platform
    test,   \* the pattern
    mem,    \* mem[l]: the value at location l
    done,   \* done[t]: the operations of t that have been executed
    reg     \* reg[t]: the values that the operations of t have read

vars == <<plat, test, mem, done, reg>>

Threads == {1, 2}

-----------------------------------------------------------------------------
(* The patterns.  An operation has a kind, a memory_order, a location, the *)
(* value it stores, and the earlier operation on whose result it depends:  *)
(* it is executed only if that result is 1, and if `addr' is set the       *)
(* location is computed from it.                                           *)

Op(op, order, loc, val) ==
    [op |-> op, order |-> order, loc |-> loc, val |-> val, dep |-> 0, addr |-> FALSE]

If(i, o) == [o EXCEPT !.dep = i]

Deref(i, o) == [o EXCEPT !.dep = i, !.addr = TRUE]

\* The value that `rmw' stores over v: an exchange or a decrement.
Decrement == -1
Modified(o, v) == IF o.val = Decrement THEN v - 1 ELSE o.val

\* ringbuffer: the producer writes an element, then write_index_; the consumer
\* reads the element if write_index_ says that there is one.
Publish ==
    <<<<Op("write", "", "data", 1), Op("store", "release", "flag", 1)>>,
      <<Op("load", "acquire", "flag", 0), If(1, Op("read", "", "data", 0))>>>>

\* ringbuffer: the consumer reads an element, then writes read_index_; the
\* producer overwrites the element if read_index_ has passed it.
HandBack ==
    <<<<Op("read", "", "data", 0), Op("store", "release", "flag", 1)>>,
      <<Op("load", "acquire", "flag", 0), If(1, Op("write", "", "data", 1))>>>>

\* stack and freelist: a node is filled and then put on the list with
\* compare_exchange; another thread loads the head with memory_order_consume
\* and reads the node through it.
Consume ==
    <<<<Op("write", "", "data", 1), Op("rmw", "seq_cst", "flag", 1)>>,
      <<Op("load", "consume", "flag", 0), Deref(1, Op("read", "", "data", 0))>>>>

\* The spinlock of the documentation: the critical section writes data and
\* reads it back.  (The exchange that ends the loop is the one that counts.)
Spinlock ==
    LET Section(v) ==
        <<Op("rmw", "acquire", "lock", 1), Op("write", "", "data", v),
          Op("read", "", "data", 0), Op("store", "release", "lock", 0)>>
    IN <<Section(1), Section(2)>>

\* The reference counter of the documentation: each of two threads writes to
\* its part of the object and drops its reference; the one that drops the last
\* reference deletes the object, whose destructor reads what the other wrote.
Refcount ==
    LET Release(mine, other) ==
        <<Op("write", "", mine, 1), Op("rmw", "release", "count", Decrement),
          If(2, Op("fence", "acquire", "none", 0)), If(2, Op("read", "", other, 0))>>
    IN <<Release("x", "y"), Release("y", "x")>>

\* Two threads announce themselves with memory_order_seq_cst and look for each
\* other.
Announce ==
    <<<<Op("store", "seq_cst", "x", 1), Op("load", "seq_cst", "y", 0)>>,
      <<Op("store", "seq_cst", "y", 1), Op("load", "seq_cst", "x", 0)>>>>

Tests == {"publish", "hand_back", "consume", "spinlock", "refcount", "announce"}

Program(s) ==
    CASE s = "publish" -> Publish
      [] s = "hand_back" -> HandBack
      [] s = "consume" -> Consume
      [] s = "spinlock" -> Spinlock
      [] s = "refcount" -> Refcount
      [] s = "announce" -> Announce

Ops(t) == DOMAIN Program(test)[t]
At(t, i) == Program(test)[t][i]

-----------------------------------------------------------------------------
(* The machine *)

Code(t, i) == Compiled(plat, At(t, i).op, At(t, i).order)
Acc(t, i) == Code(t, i).acc

Writes(a) == a \in {"W", "U"}

\* The fences between operations j and i of t.
Between(t, j, i) ==
    UNION ({Code(t, j).after, Code(t, i).before} \cup
           {Code(t, k).before \cup Code(t, k).after : k \in (j + 1) .. (i - 1)})

\* What a fence does for an access a before it and an access b after it.
Separates(f, a, b) ==
    CASE f = "full" -> TRUE
      [] f = "isync" -> a \in {"R", "U"}
      [] f = "stores" -> Writes(a) /\ Writes(b)

\* On x86 only a load may overtake, and only a store before it.
StrongMachine == plat \in {"x86", "interlocked"}

\* Every machine but alpha keeps a load behind the load of its address; a
\* store is nowhere made before it is known that it is to be made.
Depends(t, j, i) ==
    /\ At(t, i).dep = j
    /\ Writes(Acc(t, i)) \/ (At(t, i).addr /\ plat # "alpha")

Ordered(t, j, i) ==
    \/ At(t, j).loc = At(t, i).loc
    \/ \E f \in Between(t, j, i) : Separates(f, Acc(t, j), Acc(t, i))
    \/ StrongMachine /\ ~(Acc(t, j) = "W" /\ ~Writes(Acc(t, i)))
    \/ Depends(t, j, i)

\* Operation i is not executed, as its condition has turned out false.
Void(t, i) ==
    LET d == At(t, i).dep IN d # 0 /\ d \in done[t] /\ reg[t][d] # 1

\* The fences are part of the operations next to them.
Finished(t) == \A i \in Ops(t) : i \in done[t] \/ Void(t, i) \/ Acc(t, i) = "none"

Init ==
    /\ plat \in Tested
    /\ test \in Tests
    /\ mem = [l \in {"data", "flag", "lock", "count", "x", "y"} |->
                IF l = "count" THEN 2 ELSE 0]
    /\ done = [t \in Threads |-> {}]
    /\ reg = [t \in Threads |-> [i \in Ops(t) |-> 0]]

\* Thread t executes its operation i.
Execute(t, i) ==
    LET o == At(t, i)
        a == Acc(t, i)
    IN
    /\ i \notin done[t] /\ ~Void(t, i) /\ a # "none"
    /\ \A j \in 1 .. i - 1 :
        Ordered(t, j, i) /\ Acc(t, j) # "none" => j \in done[t] \/ Void(t, j)
    /\ o.loc = "lock" /\ o.val = 1 => mem["lock"] = 0
    /\ done' = [done EXCEPT ![t] = @ \cup {i}]
    /\ reg' = IF a = "W" THEN reg ELSE [reg EXCEPT ![t][i] = mem[o.loc]]
    /\ mem' = IF Writes(a) THEN [mem EXCEPT ![o.loc] = Modified(o, @)] ELSE mem
    /\ UNCHANGED <<plat, test>>

Next == \E t \in Threads : \E i \in Ops(t) : Execute(t, i)

Spec == Init /\ [][Next]_vars

-----------------------------------------------------------------------------
(* Properties *)

BothFinished == \A t \in Threads : Finished(t)

\* A thread that sees the index sees the element: a release store and an
\* acquire load pair up on every platform (ringbuffer.hpp:85, 163).
Published ==
    test = "publish" /\ Finished(2) /\ reg[2][1] = 1 => reg[2][2] = 1

\* An element is not overwritten before it has been read: a release store also
\* waits for earlier reads (ringbuffer.hpp:170, 80).
HandedBack ==
    test = "hand_back" => reg[1][1] = 0

\* A thread that follows a pointer it loaded with memory_order_consume finds
\* the node as it was when it was published (freelist.hpp:119-129,
\* stack.hpp:181-187).
ConsumeOrdered ==
    test = "consume" /\ Finished(2) /\ reg[2][1] = 1 => reg[2][2] = 1

\* That holds on every platform whose processor respects the dependency.
ConsumeOrderedByDependency == plat # "alpha" => ConsumeOrdered

\* The critical sections of the spinlock do not overlap: what a thread has
\* written there it reads back.
Excluded ==
    test = "spinlock" => \A t \in Threads : 3 \in done[t] => reg[t][3] = t

\* Every use of the object has happened before it is deleted: the destructor
\* sees what the other thread wrote before it dropped its reference, as the
\* release in fetch_sub and the acquire fence after it pair up.
LastUse ==
    test = "refcount" =>
        \A t \in Threads : Finished(t) /\ reg[t][2] = 1 => reg[t][4] = 1

\* All seq_cst operations have one order: one of the two threads that announce
\* themselves sees the other.
TotalOrder ==
    test = "announce" /\ BothFinished => reg[1][2] = 1 \/ reg[2][2] = 1

\* That holds where a seq_cst store is an exchange.
TotalOrderByExchange ==
    plat \in {"x86", "interlocked", "generic_cas"} => TotalOrder
=============================================================================
