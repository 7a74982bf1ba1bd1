----------------------------- MODULE TaggedPtr -----------------------------
(***************************************************************************)
(* boost::lockfree::detail::tagged_ptr: a pointer and a tag that are       *)
(* loaded, stored and compared as one atomic word.  The tag is an unsigned *)
(* integer of finite width (16 bits when the tag is packed into the unused *)
(* bits of a 64-bit pointer, size_t when a double-width CAS is available), *)
(* so it is modelled modulo TagMod and wraps.                              *)
(***************************************************************************)
EXTENDS Naturals

CONSTANTS
    Nodes,   \* the addresses of the nodes the allocator can hand out
    NULL,    \* the null pointer
    TagMod   \* number of values of tag_t (2^16 or 2^64 in the code)

ASSUME NullAssumption == NULL \notin Nodes

\* A tag that cannot change protects nothing: tag_t has at least two values.
ASSUME TagAssumption == TagMod \in Nat /\ TagMod > 1

\* The values of T *.
Ptr == Nodes \cup {NULL}

\* The values of tag_t.
Tag == 0 .. TagMod - 1

\* The values of tagged_ptr<T>.
TPtr == [ptr : Ptr, tag : Tag]

\* The constructor tagged_ptr(p, t).
MkPtr(p, t) == [ptr |-> p, tag |-> t]

\* get_tag() + 1 converted back to tag_t: the unsigned addition wraps.
IncTag(t) == (t + 1) % TagMod
=============================================================================
