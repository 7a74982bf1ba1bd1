-------------------------- MODULE MCAtomicClasses --------------------------
(* Instances of AtomicClasses for TLC. *)
EXTENDS AtomicClasses, Bitwise

CxxAnd(v, c) == v & c
CxxOr(v, c) == v | c
CxxXor(v, c) == v ^^ c

\* On a whole word, fetch_and and fetch_or run the same steps as fetch_xor, and
\* fetch_sub those of fetch_add.
Doubles == (Classes \ {"larger_type"}) \X {"fetch_and", "fetch_or", "fetch_sub"}

SoundCalls == (Classes \X Ops) \ (Broken \cup Doubles)

Calls128 == {"x86_128"} \X Ops

\* In place of Calls128 these show, one at a time, the other calls in Broken: a
\* load of 128 bits that is torn by a compare_exchange, and the strong
\* compare_exchange of linux-arm that fails on the value it reports.
TornLoad == {"x86_128"} \X {"load", "cas_strong"}
SeenAgain == {"linux_arm"} \X {"store", "cas_strong"}
=============================================================================
