--------------------------- MODULE AtomicBuilder ---------------------------
(***************************************************************************)
(* boost::detail::atomic::build_atomic_from_larger_type: the operations of *)
(* an atomic object that is smaller than a machine word, made from the     *)
(* load and the compare_exchange_weak of the word that holds it.  This is  *)
(* one of the classes of AtomicClasses, which has the specification.  Two  *)
(* builders are at work.  build_base_from_larger_type makes load, store    *)
(* and compare_exchange_weak of the object; build_exchange,                *)
(* build_fetch_add, build_arithmeticops and build_logicops make the other  *)
(* operations from these with loops.  The other objects in the word are    *)
(* atomic objects too, so their writers make the word change.              *)
(***************************************************************************)
EXTENDS Integers

CONSTANTS
    Threads,
    ByteMod,        \* 2^(8 * sizeof(integral_type))
    WordBytes,      \* sizeof(larger_integral_type) / sizeof(integral_type)
    BigEndian,
    BitAnd(_, _),   \* the operators &, | and ^ of C++
    BitOr(_, _),
    BitXor(_, _)

ASSUME BuilderAssumption ==
    /\ ByteMod \in Nat \ {0, 1} /\ WordBytes \in Nat \ {0}
    /\ BigEndian \in BOOLEAN

VARIABLES
    word,   \* the machine word
    req,    \* req[t]: the operation of t and its arguments
    pc,     \* pc[t]: the step thread t is at
    exp,    \* exp[t]: the local o, or the in-out parameter expected
    wexp,   \* wexp[t]: the local expected_ of compare_exchange_weak, and the
            \* local expected of store
    ok      \* ok[t]: the result of compare_exchange_weak

vars == <<word, req, pc, exp, wexp, ok>>

\* The weight of the k-th byte of a word: ByteMod to the power of k.
Place[k \in 0 .. WordBytes] == IF k = 0 THEN 1 ELSE ByteMod * Place[k - 1]

WordMod == Place[WordBytes]

Byte == 0 .. ByteMod - 1
Offsets == 0 .. WordBytes - 1
Word == 0 .. WordMod - 1

\* The operators on bits stay within the type of their operands.
ASSUME BitsAssumption ==
    \A m \in {ByteMod, WordMod} : \A v, c \in 0 .. m - 1 :
        {BitAnd(v, c), BitOr(v, c), BitXor(v, c)} \subseteq 0 .. m - 1

FetchOps == {"exchange", "fetch_add", "fetch_sub", "fetch_and", "fetch_or", "fetch_xor"}
CasOps == {"cas_weak", "cas_strong"}
Ops == {"load", "store"} \cup FetchOps \cup CasOps

Requests == [op : Ops, at : Offsets, arg : Byte, exp : Byte]

\* req[t] between two operations of t.
NoReq == [op |-> "none", at |-> 0, arg |-> 0, exp |-> 0]

Init ==
    /\ word \in Word
    /\ req = [t \in Threads |-> NoReq]
    /\ pc = [t \in Threads |-> "idle"]
    /\ exp = [t \in Threads |-> 0]
    /\ wexp = [t \in Threads |-> 0]
    /\ ok = [t \in Threads |-> FALSE]

-----------------------------------------------------------------------------
(* The object in the word *)

\* The weight of the object's lowest bit: 2 ^ get_shift().
Weight(i) == Place[IF BigEndian THEN WordBytes - 1 - i ELSE i]

\* The word is shifted down, and what is above the object is cut off.
extract(v, i) == (v \div Weight(i)) % ByteMod

\* A mutated form of the next definition: what is not part of the object is
\* not masked.
insert_unmasked(target, i, source) == target + source * Weight(i)

\* The word with the object replaced under the mask.
insert(target, i, source) == target + (source - extract(target, i)) * Weight(i)

\* Where an object is that is as large as the word.
Whole == WordBytes

Modulus(i) == IF i = Whole THEN WordMod ELSE ByteMod

\* What an operation with operand c makes of v, the value of the object at i.
\* fetch_sub adds -c.
Apply(op, i, v, c) ==
    CASE op = "load" -> v
      [] op \in {"store", "exchange"} \cup CasOps -> c
      [] op = "fetch_add" -> (v + c) % Modulus(i)
      [] op = "fetch_sub" -> (v + (Modulus(i) - c)) % Modulus(i)
      [] op = "fetch_and" -> BitAnd(v, c)
      [] op = "fetch_or" -> BitOr(v, c)
      [] op = "fetch_xor" -> BitXor(v, c)

-----------------------------------------------------------------------------
Goto(t, l) == pc' = [pc EXCEPT ![t] = l]

\* The local expected_ is dead.
Forget(t) == wexp' = [wexp EXCEPT ![t] = 0]

\* An operation is called; load and the loops start with a load of the
\* object, the others with a load of the word.  Unused arguments are 0.
Call(t) ==
    /\ pc[t] = "idle"
    /\ \E r \in Requests :
        /\ r.op \notin CasOps => r.exp = 0
        /\ r.op = "load" => r.arg = 0
        /\ req' = [req EXCEPT ![t] = r]
        /\ exp' = [exp EXCEPT ![t] = r.exp]
        /\ Goto(t, CASE r.op \in CasOps -> "cas_load"
                     [] r.op = "store" -> "store_load"
                     [] OTHER -> "load")
    /\ UNCHANGED <<word, wexp, ok>>

\* load(), which ends the operation load and starts the loop of the others
Load(t) ==
    /\ pc[t] = "load"
    /\ exp' = [exp EXCEPT ![t] = extract(word, req[t].at)]
    /\ \/ req[t].op = "load" /\ Goto(t, "done") /\ ok' = [ok EXCEPT ![t] = TRUE]
       \/ req[t].op # "load" /\ Goto(t, "cas_load") /\ UNCHANGED ok
    /\ UNCHANGED <<word, req, wexp>>

\* compare_exchange_weak of the object: expected_ is the word as it is, with
\* the expected object in it ...
CasLoad(t) ==
    /\ pc[t] = "cas_load"
    /\ wexp' = [wexp EXCEPT ![t] = insert(word, req[t].at, exp[t])]
    /\ Goto(t, "cas")
    /\ UNCHANGED <<word, req, exp, ok>>

\* ... then the word is compared and replaced ...
CasWord(t) ==
    LET r == req[t] IN
    /\ pc[t] = "cas"
    /\ word = wexp[t]
    /\ word' = insert(wexp[t], r.at, Apply(r.op, r.at, exp[t], r.arg))
    /\ exp' = [exp EXCEPT ![t] = extract(wexp[t], r.at)]
    /\ ok' = [ok EXCEPT ![t] = TRUE]
    /\ Forget(t)
    /\ Goto(t, "done")
    /\ UNCHANGED req

\* compare_exchange_strong tries again if the object was as expected: it was
\* another object of the word that had changed.
TryAgain(t, found) == found = req[t].exp

\* compare_exchange_weak fails: the loops go on with the value it found.
Found(t) ==
    LET found == extract(word, req[t].at) IN
    /\ exp' = [exp EXCEPT ![t] = found]
    /\ Goto(t, IF \/ req[t].op \in FetchOps
                  \/ req[t].op = "cas_strong" /\ TryAgain(t, found)
               THEN "cas_load" ELSE "done")
    /\ Forget(t)

\* ... or the comparison fails.  Most platforms say at once what was found
\* there; on linux-arm the word is loaded again for it, in a later step.
CasFail(t) ==
    /\ pc[t] = "cas"
    /\ word # wexp[t]
    /\ \/ Found(t)
       \/ Goto(t, "cas_seen") /\ Forget(t) /\ UNCHANGED exp
    /\ UNCHANGED <<word, req, ok>>

\* The store-conditional of the word fails although the word is as expected.
\* In the loop of store the same failure changes nothing: expected is loaded
\* with the word that it already is.
CasSpurious(t) ==
    /\ pc[t] = "cas"
    /\ word = wexp[t]
    /\ Found(t)
    /\ UNCHANGED <<word, req, ok>>

CasSeen(t) ==
    /\ pc[t] = "cas_seen"
    /\ Found(t)
    /\ UNCHANGED <<word, req, ok>>

\* store: load the word ...
StoreLoad(t) ==
    /\ pc[t] \in {"store_load", "store_seen"}
    /\ wexp' = [wexp EXCEPT ![t] = word]
    /\ Goto(t, "store_cas")
    /\ UNCHANGED <<word, req, exp, ok>>

\* A mutated form of the next definition: the word is stored without a
\* comparison.
StoreBlind(t) ==
    /\ pc[t] = "store_cas"
    /\ word' = insert(wexp[t], req[t].at, req[t].arg)
    /\ ok' = [ok EXCEPT ![t] = TRUE]
    /\ Forget(t)
    /\ Goto(t, "done")
    /\ UNCHANGED <<req, exp>>

\* ... replace the object in it ...
StoreCas(t) ==
    /\ pc[t] = "store_cas"
    /\ word = wexp[t]
    /\ word' = insert(wexp[t], req[t].at, req[t].arg)
    /\ ok' = [ok EXCEPT ![t] = TRUE]
    /\ Forget(t)
    /\ Goto(t, "done")
    /\ UNCHANGED <<req, exp>>

\* A mutated form of the next definition: the word is not loaded again.
StoreFailBlind(t) ==
    /\ pc[t] = "store_cas"
    /\ word # wexp[t]
    /\ UNCHANGED vars

\* ... or see that it has changed, and try again with the word as it is.
StoreFail(t) ==
    /\ pc[t] = "store_cas"
    /\ word # wexp[t]
    /\ \/ wexp' = [wexp EXCEPT ![t] = word] /\ UNCHANGED pc
       \/ Goto(t, "store_seen") /\ Forget(t)
    /\ UNCHANGED <<word, req, exp, ok>>

\* The result is returned, in this class and in any other.
Return(t) ==
    /\ pc[t] = "done"
    /\ req' = [req EXCEPT ![t] = NoReq]
    /\ exp' = [exp EXCEPT ![t] = 0]
    /\ ok' = [ok EXCEPT ![t] = FALSE]
    /\ Goto(t, "idle")
    /\ UNCHANGED <<word, wexp>>

\* One step of an operation of the builder.
BuilderStep(t) ==
    \/ Load(t) \/ CasLoad(t) \/ CasWord(t) \/ CasFail(t) \/ CasSeen(t)
    \/ StoreLoad(t) \/ StoreCas(t) \/ StoreFail(t)
=============================================================================
