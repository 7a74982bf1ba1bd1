--------------------------- MODULE AtomicClasses ---------------------------
(***************************************************************************)
(* The classes that implement the operations of boost::atomic: the one for *)
(* objects smaller than a word (AtomicBuilder), those for an object that   *)
(* is as large as what compare_exchange works on, and fallback_atomic for  *)
(* all other types.  An object that is wider than a register is read and   *)
(* written in several moves; `word' is then that object, and its bytes are *)
(* the parts that one move copies.                                         *)
(***************************************************************************)
EXTENDS AtomicBuilder

CONSTANTS
    Calls,      \* the pairs of a class and an operation that are called
    Operands    \* the arguments of operations on a whole word

Classes == {"larger_type",  \* build_atomic_from_larger_type
            "x86",          \* atomic_x86_8 to _64 of gcc-x86, and interlocked
            "llsc",         \* atomic_ppc_32, _64, atomic_alpha_32, _64, atomic_arm_4
            "linux_arm",    \* atomic_linux_arm_4
            "generic_cas",  \* atomic_generic_cas32
            "i686_64",      \* atomic_x86_64 on a 32-bit processor
            "x86_128",      \* atomic_x86_128
            "fallback"}     \* fallback_atomic

ASSUME CallsAssumption == Calls \subseteq Classes \X Ops
ASSUME OperandsAssumption == Operands \subseteq Word
ASSUME ThreadsAssumption == {"nobody", "other"} \cap Threads = {}

VARIABLES
    class,  \* the class of the object
    part,   \* part[t]: how many parts of the object t has moved
    lock    \* the thread that holds the spinlock of the object, or another
            \* that holds it for an object with the same spinlock

classVars == <<class, part, lock>>

everyVar == <<vars, classVars>>

Labels == {"idle", "load", "cas_load", "cas", "cas_seen", "store_load",
           "store_cas", "store_seen", "read", "confirm", "wcas", "wseen",
           "rmw", "write", "f_load", "f_cas", "f_exchange", "f_store", "f_put",
           "unlock", "done"}

ClassesTypeOK ==
    /\ class \in Classes
    /\ word \in Word
    /\ req \in [Threads -> [op : Ops, at : Offsets \cup {Whole}, arg : Word, exp : Word]
                           \cup {NoReq}]
    /\ pc \in [Threads -> Labels]
    /\ exp \in [Threads -> IF class = "larger_type" THEN Byte ELSE Word]
    /\ wexp \in [Threads -> Word]
    /\ ok \in [Threads -> BOOLEAN]
    /\ part \in [Threads -> Offsets]
    /\ lock \in Threads \cup {"nobody", "other"}

ClassesInit ==
    /\ Init
    /\ class \in {c[1] : c \in Calls}
    /\ part = [t \in Threads |-> 0]
    /\ lock = "nobody"

-----------------------------------------------------------------------------
(* Moves *)

\* The classes whose objects do not fit a register.
InParts == {"i686_64", "x86_128", "fallback"}

\* The next move of t copies a part of the source, or all of it.
Moved(t, target, source) ==
    IF class \in InParts THEN insert(target, part[t], extract(source, part[t])) ELSE source

LastMove(t) == class \in InParts => part[t] = WordBytes - 1

\* After the last move t goes on at label l.
Move(t, l) ==
    IF LastMove(t)
    THEN part' = [part EXCEPT ![t] = 0] /\ Goto(t, l)
    ELSE part' = [part EXCEPT ![t] = @ + 1] /\ UNCHANGED pc

-----------------------------------------------------------------------------
(* The classes with a compare_exchange for the whole object *)

\* store is a plain store, for some classes only if the order is weak ...
StorePlain == {"x86", "x86_128", "llsc", "linux_arm"}

\* ... and an exchange otherwise.
StoreExchange == {"x86", "x86_128", "generic_cas", "i686_64"}

\* exchange is one instruction.
ExchangeNative == {"x86"}

\* fetch_add is one instruction or a loop that nobody can get between.
AddNative == {"x86", "x86_128", "llsc"}

\* load makes sure of what it has read with a compare_exchange.
LoadConfirms == {"generic_cas", "i686_64"}

\* compare_exchange_weak may fail for no reason; exchange and
\* compare_exchange_strong are loops of build_exchange.
WeakOnly == {"llsc"}

ExchangeStart == IF class \in ExchangeNative THEN "rmw" ELSE "read"

\* Where an operation starts.
Start(op) ==
    CASE op \in CasOps -> {"wcas"}
      [] op = "store" ->
            {l \in {"write", ExchangeStart} :
                class \in IF l = "write" THEN StorePlain ELSE StoreExchange}
      [] op = "exchange" -> {ExchangeStart}
      [] op \in {"fetch_add", "fetch_sub"} /\ class \in AddNative -> {"rmw"}
      [] OTHER -> {"read"}

\* The loops of the builders begin with a call of load; exchange, store and the
\* fetch_add of i686 read the object themselves.  (Where load is only a read
\* there is no difference.)
CallsLoad(t) ==
    \/ req[t].op \in {"load", "fetch_and", "fetch_or", "fetch_xor"}
    \/ req[t].op \in {"fetch_add", "fetch_sub"} /\ class # "i686_64"

\* load has its value.
Loaded(t) == IF req[t].op = "load" THEN "done" ELSE "wcas"

\* The object is read, in one move or in several.
Read(t) ==
    /\ pc[t] = "read"
    /\ exp' = [exp EXCEPT ![t] = Moved(t, @, word)]
    /\ Move(t, IF ~CallsLoad(t) THEN "wcas"
               ELSE IF class \in LoadConfirms THEN "confirm" ELSE Loaded(t))
    /\ ok' = [ok EXCEPT ![t] = (pc'[t] = "done")]
    /\ UNCHANGED <<word, req, wexp, class, lock>>

\* load: compare_exchange of what was read for itself, until it succeeds.
Confirm(t) ==
    /\ pc[t] = "confirm"
    /\ IF word = exp[t] THEN Goto(t, Loaded(t)) ELSE UNCHANGED pc
    /\ exp' = [exp EXCEPT ![t] = word]
    /\ ok' = [ok EXCEPT ![t] = (pc'[t] = "done")]
    /\ UNCHANGED <<word, req, wexp, classVars>>

\* The value that an operation which found v returns: exchange and fetch_add
\* of atomic_x86_128 return their argument.
Returned(t, v) ==
    IF class = "x86_128" /\ req[t].op \in {"exchange", "fetch_add", "fetch_sub"}
    THEN IF req[t].op = "fetch_sub" THEN Apply("fetch_sub", Whole, 0, req[t].arg)
                                    ELSE req[t].arg
    ELSE v

\* The whole object is replaced in one step.
Replace(t) ==
    LET r == req[t] IN
    /\ word' = Apply(r.op, Whole, word, r.arg)
    /\ exp' = [exp EXCEPT ![t] = Returned(t, word)]
    /\ ok' = [ok EXCEPT ![t] = TRUE]
    /\ Goto(t, "done")
    /\ UNCHANGED <<req, wexp, classVars>>

\* An instruction that reads and writes.
Rmw(t) == pc[t] = "rmw" /\ Replace(t)

\* compare_exchange succeeds.
WordCas(t) == pc[t] = "wcas" /\ word = exp[t] /\ Replace(t)

\* compare_exchange has failed and found the word: the loops go on with it,
\* but the exchange of atomic_x86_128 reads the object again.
WordFound(t) ==
    LET op == req[t].op IN
    /\ exp' = [exp EXCEPT ![t] = word]
    /\ Goto(t, IF op \in CasOps
               THEN IF op = "cas_strong" /\ class \in WeakOnly /\ TryAgain(t, word)
                    THEN "wcas" ELSE "done"
               ELSE IF class = "x86_128" /\ op \in {"store", "exchange"}
                    THEN "read" ELSE "wcas")

\* compare_exchange fails.  On linux-arm the object is then loaded.
WordCasFail(t) ==
    /\ pc[t] = "wcas"
    /\ word # exp[t]
    /\ IF class = "linux_arm" THEN Goto(t, "wseen") /\ UNCHANGED exp ELSE WordFound(t)
    /\ UNCHANGED <<word, req, wexp, ok, classVars>>

WordSeen(t) ==
    /\ pc[t] = "wseen"
    /\ WordFound(t)
    /\ UNCHANGED <<word, req, wexp, ok, classVars>>

\* The store-conditional fails although the object is as expected.
WordCasSpurious(t) ==
    /\ pc[t] = "wcas"
    /\ class \in WeakOnly
    /\ word = exp[t]
    /\ WordFound(t)
    /\ UNCHANGED <<word, req, wexp, ok, classVars>>

\* A plain store, in one move or in several.
WordStore(t) ==
    /\ pc[t] = "write"
    /\ word' = Moved(t, word, req[t].arg)
    /\ Move(t, "done")
    /\ ok' = [ok EXCEPT ![t] = LastMove(t)]
    /\ UNCHANGED <<req, exp, wexp, class, lock>>

NativeStep(t) ==
    \/ Read(t) \/ Confirm(t) \/ Rmw(t) \/ WordCas(t) \/ WordCasFail(t)
    \/ WordSeen(t) \/ WordStore(t)

-----------------------------------------------------------------------------
(* fallback_atomic: everything happens under the object's spinlock, byte by *)
(* byte.  The fetch operations are loops of load and compare_exchange.      *)

\* The function that is called first.
FallbackStart(op) ==
    CASE op \in CasOps -> "f_cas"
      [] op = "store" -> "f_store"
      [] op = "exchange" -> "f_exchange"
      [] OTHER -> "f_load"

\* A mutated form of the next definition: nobody waits for the lock.
AcquireAtOnce(t) ==
    /\ pc[t] \in {"f_load", "f_cas", "f_exchange", "f_store"}
    /\ lock # t
    /\ lock' = t
    /\ ok' = [ok EXCEPT ![t] = (pc[t] = "f_store")]
    /\ UNCHANGED <<word, req, pc, exp, wexp, class, part>>

\* scoped_lock guard(&i)
Acquire(t) ==
    /\ pc[t] \in {"f_load", "f_cas", "f_exchange", "f_store"}
    /\ lock = "nobody"
    /\ lock' = t
    /\ ok' = [ok EXCEPT ![t] = (pc[t] = "f_store")]
    /\ UNCHANGED <<word, req, pc, exp, wexp, class, part>>

\* memcpy or memcmp from the object; after the last byte it is known whether
\* there is something to write.
CopyOut(t) ==
    LET found == Moved(t, wexp[t], word)
        matches == pc[t] = "f_cas" /\ found = exp[t]
        writes == matches \/ pc[t] = "f_exchange"
    IN
    /\ pc[t] \in {"f_load", "f_cas", "f_exchange"} /\ lock = t
    /\ wexp' = [wexp EXCEPT ![t] = found]
    /\ exp' = IF LastMove(t) THEN [exp EXCEPT ![t] = found] ELSE exp
    /\ ok' = [ok EXCEPT ![t] = LastMove(t) /\ (writes \/ req[t].op = "load")]
    /\ Move(t, IF writes THEN "f_put" ELSE "unlock")
    /\ UNCHANGED <<word, req, class, lock>>

\* memcpy to the object
CopyIn(t) ==
    /\ pc[t] \in {"f_put", "f_store"} /\ lock = t
    /\ word' = Moved(t, word, Apply(req[t].op, Whole, exp[t], req[t].arg))
    /\ Move(t, "unlock")
    /\ UNCHANGED <<req, exp, wexp, ok, class, lock>>

\* The guard is destroyed; a loop goes on until its compare_exchange has
\* succeeded.
Release(t) ==
    /\ pc[t] = "unlock"
    /\ lock' = "nobody"
    /\ Goto(t, IF req[t].op \in FetchOps /\ ~ok[t] THEN "f_cas" ELSE "done")
    /\ Forget(t)
    /\ UNCHANGED <<word, req, exp, ok, class, part>>

FallbackStep(t) == Acquire(t) \/ CopyOut(t) \/ CopyIn(t) \/ Release(t)

\* An operation on another object with the same spinlock.
OtherAcquires ==
    /\ class = "fallback"
    /\ lock = "nobody"
    /\ lock' = "other"
    /\ UNCHANGED <<vars, class, part>>

OtherReleases ==
    /\ lock = "other"
    /\ lock' = "nobody"
    /\ UNCHANGED <<vars, class, part>>

-----------------------------------------------------------------------------
\* An operation on an object as large as the word is called.
WordCall(t) ==
    /\ class # "larger_type"
    /\ pc[t] = "idle"
    /\ \E op \in Ops, a, e \in Operands \cup {0} :
        /\ a \in IF op = "load" THEN {0} ELSE Operands
        /\ e \in IF op \in CasOps THEN Operands ELSE {0}
        /\ req' = [req EXCEPT ![t] = [op |-> op, at |-> Whole, arg |-> a, exp |-> e]]
        /\ exp' = [exp EXCEPT ![t] = e]
        /\ \E l \in IF class = "fallback" THEN {FallbackStart(op)} ELSE Start(op) :
            Goto(t, l)
    /\ UNCHANGED <<word, wexp, ok, classVars>>

ByteCall(t) ==
    /\ class = "larger_type"
    /\ Call(t)
    /\ UNCHANGED classVars

AnyCall(t) == (ByteCall(t) \/ WordCall(t)) /\ <<class, req'[t].op>> \in Calls

Step(t) ==
    \/ (BuilderStep(t) \/ Return(t)) /\ UNCHANGED classVars
    \/ NativeStep(t)
    \/ FallbackStep(t)

\* A store-conditional fails without a reason, on a word or on an object in it.
Spurious(t) == WordCasSpurious(t) \/ (CasSpurious(t) /\ UNCHANGED classVars)

\* The compare_exchange of the word that holds the object of t succeeds.
ObjectCas(t) == CasWord(t) /\ UNCHANGED classVars

Next ==
    \/ \E t \in Threads : AnyCall(t) \/ Step(t) \/ Spurious(t)
    \/ OtherAcquires \/ OtherReleases

Spec == ClassesInit /\ [][Next]_everyVar

\* Some thread that is inside an operation is run; a store-conditional does
\* not fail for ever without a reason; a spinlock that is free again and again
\* is not always taken by the users of another object, who give it back.  For
\* an object in a word the store-conditional has a condition of its own: each
\* loop loads the word before the exchange, so a thread runs however often the
\* exchange fails.
FairSpec ==
    /\ Spec
    /\ SF_everyVar(\E t \in Threads : Step(t))
    /\ SF_everyVar(\E t \in Threads : ObjectCas(t))
    /\ WF_everyVar(OtherReleases)

-----------------------------------------------------------------------------
(* Properties *)

\* The threads that are writing to an object whose lock they hold.
Writing == {t \in Threads : pc[t] = "f_put" \/ (pc[t] = "f_store" /\ lock = t)}

\* The value of an object, or 0 where there is none.  Nobody can see a part of
\* what is written under the lock, so it counts as written from the start.
Object(i) ==
    IF (class = "larger_type") = (i = Whole) THEN 0
    ELSE IF i # Whole THEN extract(word, i)
    ELSE IF Writing = {} THEN word
    ELSE LET t == CHOOSE t \in Writing : TRUE
         IN  Apply(req[t].op, Whole, exp[t], req[t].arg)

Pending == [ok |-> FALSE, val |-> WordMod]

\* The operation of t has taken effect.
Decided(t) ==
    \/ pc[t] = "done"
    \/ t \in Writing
    \/ pc[t] = "unlock" /\ (ok[t] \/ req[t].op \in CasOps)

Result(t) ==
    IF Decided(t)
    THEN [ok |-> ok[t], val |-> IF req[t].op = "store" THEN req[t].arg ELSE exp[t]]
    ELSE Pending

Abs == INSTANCE AtomicCells WITH
    Cells <- Offsets \cup {Whole},
    Values <- Word,
    cell <- [i \in Offsets \cup {Whole} |-> Object(i)],
    res <- [t \in Threads |-> Result(t)]

\* The calls that do not do what they promise: the 128-bit class moves values
\* in two parts and returns its arguments, and a compare_exchange_strong of
\* linux-arm may report the value that it was told to expect.
Broken ==
    ({"x86_128"} \X {"load", "store", "exchange", "fetch_add", "fetch_sub"})
    \cup {<<"linux_arm", "cas_strong">>}

\* Every operation is atomic, whichever class implements it: no operation on
\* one object of a word ever changes another or undoes what was done to it,
\* no value is put together from parts of two, compare_exchange_strong fails
\* only if its own object differs, and what is returned is the value that was
\* there (builder.hpp:33-52, 291-319, gcc-x86.hpp:414-441, fallback.hpp:25-65).
ObjectsAtomic == Abs!Spec

\* If operations are pending for ever then operations end infinitely often,
\* although a neighbour in the word can make any compare_exchange fail and
\* although the lock of an object may be held for another one.
OperationsEnd ==
    \/ <>[](\A t \in Threads : pc[t] = "idle")
    \/ []<><<\E t \in Threads : pc[t] # "idle" /\ pc'[t] = "idle">>_everyVar
=============================================================================
