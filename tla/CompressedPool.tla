--------------------------- MODULE CompressedPool ---------------------------
(***************************************************************************)
(* The freelist on x86-64, where pool_ and its local copies are words of   *)
(* PtrCompression: what the code decides by comparing words, and what it   *)
(* stores after adding 1 to a tag in an int, is what Freelist says of the  *)
(* pairs.                                                                  *)
(***************************************************************************)
EXTENDS Freelist, PtrCompression

CONSTANT
    Addr    \* Addr[p]: the address that pointer p is

ASSUME AddrAssumption ==
    /\ Addr \in [Ptr -> Address]
    /\ \A p, q \in Ptr : Addr[p] = Addr[q] => p = q
    /\ Addr[NULL] = 0

ASSUME WidthAssumption == TagValues = TagMod

\* tagged_ptr::ptr, the word of a tagged pointer.
Word(q) == pack_ptr(Addr[q.ptr], q.tag)

\* The compare_exchange of words in allocate and deallocate succeeds exactly
\* if pointer and tag are the same, the null pointer is recognised, and the
\* word with tag + 1 that is stored has the next tag, also when the tag wraps,
\* and the pointer it was given (freelist.hpp:119-137, 160-171).
PoolPacked ==
    /\ Word(pool) \in Compressed
    /\ extract_ptr(Word(pool)) = 0 <=> pool.ptr = NULL
    /\ \A t \in Threads :
        /\ Word(pool) = Word(old[t]) <=> pool = old[t]
        /\ \A p \in Ptr :
            pack_ptr(Addr[p], old[t].tag + 1) = Word(MkPtr(p, IncTag(old[t].tag)))
=============================================================================
