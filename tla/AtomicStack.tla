---------------------------- MODULE AtomicStack ----------------------------
(***************************************************************************)
(* What boost::lockfree::stack promises its users: a stack on which push   *)
(* and pop take effect at one instant between their call and their return. *)
(* A pop that returns false saw the stack empty at such an instant.        *)
(***************************************************************************)
EXTENDS Sequences

CONSTANTS
    Threads,
    Values,
    NoVal       \* the content of arg[t] when there is none

VARIABLES
    stack,  \* the values on the stack, the top first
    call,   \* call[t]: where thread t is in its operation
    arg     \* arg[t]: the value to push, or the value popped

vars == <<stack, call, arg>>

Init ==
    /\ stack = <<>>
    /\ call = [t \in Threads |-> "none"]
    /\ arg = [t \in Threads |-> NoVal]

Become(t, c, v) ==
    /\ call' = [call EXCEPT ![t] = c]
    /\ arg' = [arg EXCEPT ![t] = v]

CallPush(t) ==
    /\ call[t] = "none"
    /\ \E v \in Values : Become(t, "push", v)
    /\ UNCHANGED stack

\* push puts its value on the stack and returns true.
Push(t) ==
    /\ call[t] = "push"
    /\ stack' = <<arg[t]>> \o stack
    /\ Become(t, "none", NoVal)

\* There is no node for the value: push returns false.  When that may happen
\* is not for the stack to say but for its pool, see StackPoolIsPool.
PushFails(t) ==
    /\ call[t] = "push"
    /\ Become(t, "none", NoVal)
    /\ UNCHANGED stack

CallPop(t) ==
    /\ call[t] = "none"
    /\ Become(t, "pop", NoVal)
    /\ UNCHANGED stack

\* pop takes the top value.
Pop(t) ==
    /\ call[t] = "pop"
    /\ stack # <<>>
    /\ stack' = Tail(stack)
    /\ Become(t, "popped", stack[1])

\* pop sees an empty stack.
PopEmpty(t) ==
    /\ call[t] = "pop"
    /\ stack = <<>>
    /\ Become(t, "empty", NoVal)
    /\ UNCHANGED stack

\* pop returns true with its value, or false.
ReturnPop(t) ==
    /\ call[t] \in {"popped", "empty"}
    /\ Become(t, "none", NoVal)
    /\ UNCHANGED stack

\* push_unsafe and pop_unsafe run alone.
PushAlone ==
    /\ \A t \in Threads : call[t] = "none"
    /\ \E v \in Values : stack' = <<v>> \o stack
    /\ UNCHANGED <<call, arg>>

PopAlone ==
    /\ \A t \in Threads : call[t] = "none"
    /\ stack # <<>>
    /\ stack' = Tail(stack)
    /\ UNCHANGED <<call, arg>>

Next ==
    \/ \E t \in Threads :
        \/ CallPush(t) \/ Push(t) \/ PushFails(t)
        \/ CallPop(t) \/ Pop(t) \/ PopEmpty(t) \/ ReturnPop(t)
    \/ PushAlone \/ PopAlone

Spec == Init /\ [][Next]_vars
=============================================================================
