--------------------------- MODULE PtrCompression ---------------------------
(***************************************************************************)
(* boost::lockfree::detail::tagged_ptr on x86-64: pointer and tag in one   *)
(* machine word.  A user-space address has 48 bits; the 16 bits above them *)
(* hold the tag.  TaggedPtr has the pair that the word stands for.         *)
(***************************************************************************)
EXTENDS Naturals

CONSTANTS
    PtrMod,     \* ptr_mask + 1: 2^48 in the code
    TagValues   \* the number of values of tag_t: 2^16 in the code

ASSUME PtrModAssumption == PtrMod \in Nat \ {0}
ASSUME TagValuesAssumption == TagValues \in Nat \ {0}

Address == 0 .. PtrMod - 1

\* The values of compressed_ptr_t.
Compressed == 0 .. PtrMod * TagValues - 1

\* i & ptr_mask
extract_ptr(i) == i % PtrMod

\* cast_unit::tag[tag_index]
extract_tag(i) == i \div PtrMod

\* A mutated form of the next definition: the tag begins one bit too low.
pack_ptr_overlap(p, tag) == p + (PtrMod \div 2) * (tag % TagValues)

\* The word of the address, its upper part overwritten by the tag, which the
\* assignment cuts from int to tag_t.
pack_ptr(p, tag) == p + PtrMod * (tag % TagValues)

\* set_ptr and set_tag, which keep the other half.
set_ptr(i, p) == pack_ptr(p, extract_tag(i))
set_tag(i, tag) == pack_ptr(extract_ptr(i), tag)

-----------------------------------------------------------------------------
(* Properties *)

\* A word gives back the address and the tag that were packed into it
\* (tagged_ptr_ptrcompression.hpp:42-60).
Extracts ==
    \A p \in Address, tag \in Nat :
        /\ pack_ptr(p, tag) \in Compressed
        /\ extract_ptr(pack_ptr(p, tag)) = p
        /\ extract_tag(pack_ptr(p, tag)) = tag % TagValues

\* Words are equal exactly if address and tag are: operator== and the
\* compare_exchange of the whole word compare both halves
\* (tagged_ptr_ptrcompression.hpp:91-94).
ComparesBoth ==
    \A i, j \in Compressed :
        i = j <=> extract_ptr(i) = extract_ptr(j) /\ extract_tag(i) = extract_tag(j)

\* set_ptr leaves the tag alone and set_tag the pointer
\* (tagged_ptr_ptrcompression.hpp:109-130).
SettersIndependent ==
    \A i \in Compressed, p \in Address, tag \in Nat :
        /\ extract_tag(set_ptr(i, p)) = extract_tag(i) /\ extract_ptr(set_ptr(i, p)) = p
        /\ extract_ptr(set_tag(i, tag)) = extract_ptr(i)
        /\ extract_tag(set_tag(i, tag)) = tag % TagValues
=============================================================================
