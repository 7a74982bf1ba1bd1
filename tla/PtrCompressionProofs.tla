------------------------ MODULE PtrCompressionProofs ------------------------
(***************************************************************************)
(* The word of tagged_ptr on x86-64 is as good as the pair it stands for,  *)
(* whatever the widths of the pointer and of the tag, and the freelist     *)
(* with words behaves as it does with pairs.                               *)
(***************************************************************************)
EXTENDS CompressedPool, FreelistProofs, Integers

\* The address and a multiple of 2^48 above it can be told apart again.
LEMMA DivMod ==
    ASSUME NEW p \in Address, NEW q \in Nat
    PROVE  /\ (p + PtrMod * q) % PtrMod = p
           /\ (p + PtrMod * q) \div PtrMod = q
BY PtrModAssumption, SMTT(30) DEF Address

\* A word is made of its two halves.
LEMMA Recompose ==
    ASSUME NEW i \in Compressed
    PROVE  /\ extract_ptr(i) \in Address
           /\ extract_tag(i) \in 0 .. TagValues - 1
           /\ i = extract_ptr(i) + PtrMod * extract_tag(i)
BY PtrModAssumption, TagValuesAssumption, SMTT(30)
   DEF Address, Compressed, extract_ptr, extract_tag

\* An int that is cut to tag_t is a tag.
LEMMA TagCut ==
    ASSUME NEW tag \in Nat
    PROVE  tag % TagValues \in 0 .. TagValues - 1
BY TagValuesAssumption

\* A word that was packed gives back the address and the tag.
LEMMA PackExtract ==
    ASSUME NEW p \in Address, NEW tag \in Nat
    PROVE  /\ pack_ptr(p, tag) \in Compressed
           /\ extract_ptr(pack_ptr(p, tag)) = p
           /\ extract_tag(pack_ptr(p, tag)) = tag % TagValues
<1> DEFINE t == tag % TagValues
<1>1. t \in 0 .. TagValues - 1
    BY TagCut
<1>2. p + PtrMod * t \in Compressed
    <2>1. p \in Nat /\ p < PtrMod /\ PtrMod \in Nat /\ TagValues \in Nat
        BY PtrModAssumption, TagValuesAssumption DEF Address
    <2>2. t \in Nat /\ t <= TagValues - 1
        BY <1>1, <2>1
    <2>3. PtrMod * t <= PtrMod * (TagValues - 1) /\ PtrMod * t \in Nat
        BY <2>1, <2>2, TagValuesAssumption, SMTT(30)
    <2>4. PtrMod * (TagValues - 1) = PtrMod * TagValues - PtrMod
        BY <2>1, SMTT(30)
    <2> QED  BY <2>1, <2>3, <2>4 DEF Compressed
<1>3. /\ (p + PtrMod * t) % PtrMod = p
      /\ (p + PtrMod * t) \div PtrMod = t
    BY <1>1, DivMod, TagValuesAssumption
<1> QED  BY <1>2, <1>3 DEF pack_ptr, extract_ptr, extract_tag

\* A word gives back what was packed into it, so that a tag that overflows
\* does not touch the pointer (tagged_ptr_ptrcompression.hpp:42-60).
THEOREM PackingExtracts == Extracts
BY PackExtract DEF Extracts

\* Comparing words is comparing pointers and tags
\* (tagged_ptr_ptrcompression.hpp:91-94).
THEOREM PackingCompares == ComparesBoth
BY Recompose DEF ComparesBoth

\* Each setter keeps the other half (tagged_ptr_ptrcompression.hpp:109-130).
THEOREM PackingSetters == SettersIndependent
<1> SUFFICES ASSUME NEW i \in Compressed, NEW p \in Address, NEW tag \in Nat
    PROVE  /\ extract_tag(set_ptr(i, p)) = extract_tag(i) /\ extract_ptr(set_ptr(i, p)) = p
           /\ extract_ptr(set_tag(i, tag)) = extract_ptr(i)
           /\ extract_tag(set_tag(i, tag)) = tag % TagValues
    BY DEF SettersIndependent
<1>1. extract_ptr(i) \in Address /\ extract_tag(i) \in 0 .. TagValues - 1
    BY Recompose
<1>2. extract_tag(i) \in Nat /\ extract_tag(i) % TagValues = extract_tag(i)
    BY <1>1, TagValuesAssumption
<1>3. /\ extract_ptr(set_ptr(i, p)) = p
      /\ extract_tag(set_ptr(i, p)) = extract_tag(i)
    BY <1>2, PackExtract DEF set_ptr
<1> QED  BY <1>1, <1>3, PackExtract DEF set_tag

\* Two tagged pointers have the same word only if they are the same.
LEMMA WordInjective ==
    ASSUME NEW q \in TPtr, NEW r \in TPtr, Word(q) = Word(r)
    PROVE  q = r
<1>1. /\ Addr[q.ptr] \in Address /\ q.tag \in Nat /\ q.tag % TagValues = q.tag
      /\ Addr[r.ptr] \in Address /\ r.tag \in Nat /\ r.tag % TagValues = r.tag
    BY AddrAssumption, WidthAssumption, TagAssumption DEF TPtr, Tag
<1>2. Addr[q.ptr] = Addr[r.ptr] /\ q.tag = r.tag
    BY <1>1, PackExtract DEF Word
<1> QED  BY <1>2, AddrAssumption DEF TPtr

\* A tag that is incremented in an int and then cut is the next tag.
LEMMA IncrementCut ==
    ASSUME NEW q \in TPtr, NEW p \in Ptr
    PROVE  pack_ptr(Addr[p], q.tag + 1) = Word(MkPtr(p, IncTag(q.tag)))
<1>1. q.tag + 1 \in Nat
    BY TagAssumption DEF TPtr, Tag
<1>2. ((q.tag + 1) % TagValues) % TagValues = (q.tag + 1) % TagValues
    BY <1>1, TagValuesAssumption
<1>3. (q.tag + 1) % TagValues = IncTag(q.tag)
    BY WidthAssumption DEF IncTag
<1> QED  BY <1>2, <1>3 DEF Word, MkPtr, pack_ptr

\* The freelist on words decides and stores what it does on pairs
\* (freelist.hpp:119-137, 160-171).
THEOREM PoolAlwaysPacked == Spec => []PoolPacked
<1>1. TypeOK => PoolPacked
    <2> SUFFICES ASSUME TypeOK PROVE PoolPacked
        OBVIOUS
    <2>1. pool \in TPtr /\ \A t \in Threads : old[t] \in TPtr
        BY DEF TypeOK
    <2>2. Word(pool) \in Compressed /\ extract_ptr(Word(pool)) = Addr[pool.ptr]
        BY <2>1, PackExtract, AddrAssumption, TagAssumption DEF Word, TPtr, Tag
    <2>3. extract_ptr(Word(pool)) = 0 <=> pool.ptr = NULL
        BY <2>1, <2>2, AddrAssumption DEF TPtr, Ptr
    <2>4. \A t \in Threads : Word(pool) = Word(old[t]) <=> pool = old[t]
        BY <2>1, WordInjective
    <2>5. \A t \in Threads, p \in Ptr :
            pack_ptr(Addr[p], old[t].tag + 1) = Word(MkPtr(p, IncTag(old[t].tag)))
        BY <2>1, IncrementCut
    <2> QED  BY <2>2, <2>3, <2>4, <2>5 DEF PoolPacked
<1> QED  BY <1>1, TypeCorrect, PTL
=============================================================================
