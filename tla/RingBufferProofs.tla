-------------------------- MODULE RingBufferProofs --------------------------
(***************************************************************************)
(* The ringbuffer keeps its values in order in the array, never accesses a *)
(* slot that the other thread may be accessing, and implements a bounded   *)
(* queue, for an array of any size and blocks of any length.               *)
(***************************************************************************)
EXTENDS RingBuffer, SequenceTheorems, TLAPS

-----------------------------------------------------------------------------
(* Index arithmetic *)

\* The size of the array, without the width of size_t.
LEMMA SizePositive == max_size \in Nat /\ max_size > 0
  BY SizeAssumption

\* A distance between indices is less than the size of the array, and two
\* indices at the same distance are the same.
LEMMA DistRange ==
    ASSUME NEW a \in Slots, NEW b \in Slots
    PROVE  /\ Dist(a, b) \in Nat
           /\ Dist(a, b) < max_size
           /\ Dist(a, b) = 0 <=> a = b
           /\ \A c \in Slots : Dist(a, b) = Dist(a, c) => b = c
           /\ \A c \in Slots : Dist(a, c) = Dist(b, c) => a = b
  BY SizePositive DEF Slots, Dist

\* The distances from a to b and from b to c add up if they do not go round.
LEMMA DistAdd ==
    ASSUME NEW a \in Slots, NEW b \in Slots, NEW c \in Slots
    PROVE  /\ Dist(a, b) + Dist(b, c) < max_size => Dist(a, c) = Dist(a, b) + Dist(b, c)
           /\ Dist(a, b) <= Dist(a, c) => Dist(b, c) = Dist(a, c) - Dist(a, b)
           /\ Dist(b, c) <= Dist(a, c) => Dist(a, b) = Dist(a, c) - Dist(b, c)
           /\ Dist(a, c) < Dist(a, b)
                => Dist(b, c) = max_size - (Dist(a, b) - Dist(a, c))
  BY SizePositive DEF Slots, Dist

\* The index k steps ahead.
LEMMA NewIndexDist ==
    ASSUME NEW i \in Slots, NEW k \in Nat, k < max_size
    PROVE  /\ NewIndex(i, k) \in Slots
           /\ Dist(i, NewIndex(i, k)) = k
  BY SizePositive DEF Slots, Dist, NewIndex, TwoSections

\* Two steps ahead one after the other.
LEMMA NewIndexAdd ==
    ASSUME NEW i \in Slots, NEW k \in Nat, NEW m \in Nat, k + m < max_size
    PROVE  NewIndex(NewIndex(i, k), m) = NewIndex(i, k + m)
  BY SizePositive DEF Slots, NewIndex, TwoSections

\* Different numbers of steps lead to different slots.
LEMMA NewIndexDiffers ==
    ASSUME NEW i \in Slots, NEW k \in Nat, NEW m \in Nat,
           k < max_size, m < max_size, k # m
    PROVE  NewIndex(i, k) # NewIndex(i, m)
  BY NewIndexDist

\* The number of values between the indices (ringbuffer.hpp:58-64).
LEMMA ReadAvailable ==
    ASSUME NEW w \in Slots, NEW r \in Slots
    PROVE  read_available(w, r) = Dist(r, w)
  BY SizeAssumption DEF Slots, Dist, read_available, SizeT

\* The room between them, although its computation passes below zero
\* (ringbuffer.hpp:66-73).
LEMMA WriteAvailable ==
    ASSUME NEW w \in Slots, NEW r \in Slots
    PROVE  write_available(w, r) = max_size - 1 - Dist(r, w)
  BY SizeAssumption DEF Slots, Dist, write_available, SizeT

\* next_index is one step ahead, and meets the read index when there is no
\* room (ringbuffer.hpp:50-56).
LEMMA NextIndex ==
    ASSUME NEW i \in Slots
    PROVE  /\ next_index(i) = NewIndex(i, 1)
           /\ next_index(i) \in Slots
           /\ \A r \in Slots : next_index(i) = r <=> Dist(r, i) = max_size - 1
  BY SizePositive DEF Slots, Dist, next_index, NewIndex, TwoSections

\* Both sections of a block copy taken together run through the slots in
\* order.
LEMMA SlotIsNewIndex ==
    ASSUME NEW i \in Slots, NEW n \in Nat, NEW k \in Nat, k < n, n < max_size
    PROVE  Slot(i, n, k) = NewIndex(i, k)
  BY SizePositive DEF Slots, Slot, InSecond, NewIndex, TwoSections

-----------------------------------------------------------------------------
(* The logs of the two atomics *)

\* The entries of a log hold indices.
LEMMA LogType ==
    ASSUME NEW log \in Seq(Entry), log # <<>>
    PROVE  /\ Len(log) \in Nat \ {0}
           /\ \A j \in 1 .. Len(log) :
                log[j] \in Entry /\ log[j].idx \in Slots /\ log[j].rel \subseteq Slots
           /\ Newest(log) \in Slots
           /\ Oldest(log) \in Slots
  <1>1. Len(log) \in Nat \ {0}
    BY EmptySeq
  <1>2. ASSUME NEW j \in 1 .. Len(log)
        PROVE  log[j] \in Entry /\ log[j].idx \in Slots /\ log[j].rel \subseteq Slots
    <2>1. log[j] \in Entry
      BY ElementOfSeq
    <2> QED
      BY <2>1 DEF Entry
  <1>3. 1 \in 1 .. Len(log) /\ Len(log) \in 1 .. Len(log)
    BY <1>1
  <1> QED
    BY <1>1, <1>2, <1>3 DEF Newest, Oldest

\* What a load leaves of a log: the entry loaded and the later ones.
LEMMA FromElements ==
    ASSUME NEW log \in Seq(Entry), log # <<>>, NEW j \in 1 .. Len(log)
    PROVE  /\ From(log, j) \in Seq(Entry)
           /\ From(log, j) # <<>>
           /\ Len(From(log, j)) = Len(log) - j + 1
           /\ From(log, j)[1].idx = log[j].idx
           /\ \A k \in 2 .. Len(log) - j + 1 : From(log, j)[k] = log[k + j - 1]
           /\ Newest(From(log, j)) = Newest(log)
           /\ Oldest(From(log, j)) = log[j].idx
  <1> DEFINE e == Stored(log[j].idx, {})
             r == SubSeq(log, j + 1, Len(log))
             q == <<e>> \o r
  <1>1. Len(log) \in Nat \ {0} /\ j \in Nat \ {0} /\ j <= Len(log)
    BY LogType
  <1>2. e \in Entry
    BY LogType DEF Entry, Stored
  <1>3. /\ r \in Seq(Entry)
        /\ Len(r) = Len(log) - j
        /\ \A i \in 1 .. Len(log) - j : r[i] = log[j + i]
    <2>1. \A i \in j + 1 .. Len(log) : log[i] \in Entry
      BY <1>1, LogType
    <2>2. /\ r \in Seq(Entry)
          /\ Len(r) = IF j + 1 <= Len(log) THEN Len(log) - (j + 1) + 1 ELSE 0
          /\ \A i \in 1 .. Len(log) - (j + 1) + 1 : r[i] = log[(j + 1) + i - 1]
      BY <1>1, <2>1, SubSeqProperties
    <2> QED
      BY <1>1, <2>2
  <1>4. <<e>> \in Seq(Entry) /\ Len(<<e>>) = 1 /\ <<e>>[1] = e
    BY <1>2
  <1> HIDE DEF e, r
  <1>5. /\ q \in Seq(Entry)
        /\ Len(q) = Len(log) - j + 1
        /\ \A k \in 1 .. Len(log) - j + 1 : q[k] = IF k <= 1 THEN <<e>>[k] ELSE r[k - 1]
    BY <1>1, <1>3, <1>4, ConcatProperties
  <1> HIDE DEF q
  <1>6. q[1] = e
    BY <1>1, <1>4, <1>5
  <1>7. ASSUME NEW k \in 2 .. Len(log) - j + 1 PROVE q[k] = log[k + j - 1]
    <2>1. k - 1 \in 1 .. Len(log) - j /\ k \in 1 .. Len(log) - j + 1 /\ ~(k <= 1)
      BY <1>1
    <2>2. q[k] = log[j + (k - 1)]
      BY <1>3, <1>5, <2>1
    <2>3. j + (k - 1) = k + j - 1
      BY <1>1
    <2> QED
      BY <2>2, <2>3
  <1>8. q # <<>>
    BY <1>1, <1>5, EmptySeq
  <1>9. Newest(q) = Newest(log)
    <2>1. CASE j = Len(log)
      <3>1. Len(q) = 1
        BY <1>1, <1>5, <2>1
      <3> QED
        BY <1>6, <2>1, <3>1 DEF Newest, e, Stored
    <2>2. CASE j # Len(log)
      <3>1. Len(q) \in 2 .. Len(log) - j + 1 /\ Len(q) + j - 1 = Len(log)
        BY <1>1, <1>5, <2>2
      <3> QED
        BY <1>7, <3>1 DEF Newest
    <2> QED
      BY <2>1, <2>2
  <1>10. Oldest(q) = log[j].idx
    BY <1>6 DEF Oldest, e, Stored
  <1>11. q[1].idx = log[j].idx
    BY <1>6 DEF e, Stored
  <1> QED
    BY <1>5, <1>7, <1>8, <1>9, <1>10, <1>11 DEF From, q, r, e

\* A load keeps the order of the log and does not move away from its end.
LEMMA FromOrdered ==
    ASSUME NEW log \in Seq(Entry), log # <<>>, NEW j \in 1 .. Len(log), LogOrdered(log)
    PROVE  /\ LogOrdered(From(log, j))
           /\ Dist(log[j].idx, Newest(log)) <= Dist(Oldest(log), Newest(log))
  <1> DEFINE q == From(log, j)
  <1>1. Len(log) \in Nat \ {0} /\ j \in Nat \ {0} /\ j <= Len(log)
    BY LogType
  <1>2. /\ Len(q) = Len(log) - j + 1
        /\ q[1].idx = log[j].idx
        /\ \A k \in 2 .. Len(log) - j + 1 : q[k] = log[k + j - 1]
        /\ Newest(q) = Newest(log)
    BY FromElements
  <1> HIDE DEF q
  <1>3. \A k \in 1 .. Len(q) : k + j - 1 \in 1 .. Len(log) /\ q[k].idx = log[k + j - 1].idx
    <2> SUFFICES ASSUME NEW k \in 1 .. Len(q)
                 PROVE  k + j - 1 \in 1 .. Len(log) /\ q[k].idx = log[k + j - 1].idx
      OBVIOUS
    <2>1. k + j - 1 \in 1 .. Len(log)
      BY <1>1, <1>2
    <2>2. CASE k = 1
      BY <1>1, <1>2, <2>1, <2>2
    <2>3. CASE k # 1
      BY <1>1, <1>2, <2>1, <2>3
    <2> QED
      BY <2>1, <2>2, <2>3
  <1>4. LogOrdered(q)
    <2> SUFFICES ASSUME NEW a \in 1 .. Len(q), NEW b \in 1 .. Len(q), a <= b
                 PROVE  Dist(q[b].idx, Newest(q)) <= Dist(q[a].idx, Newest(q))
      BY DEF LogOrdered
    <2>1. a + j - 1 <= b + j - 1
      BY <1>1, <1>2
    <2> QED
      BY <1>2, <1>3, <2>1 DEF LogOrdered
  <1>5. 1 \in 1 .. Len(log) /\ 1 <= j
    BY <1>1
  <1> QED
    BY <1>4, <1>5 DEF LogOrdered, Oldest, q

\* In an ordered log each entry lies between the oldest and the newest one.
LEMMA Between ==
    ASSUME NEW log \in Seq(Entry), log # <<>>, NEW j \in 1 .. Len(log), LogOrdered(log)
    PROVE  /\ Dist(log[j].idx, Newest(log)) <= Dist(Oldest(log), Newest(log))
           /\ Dist(Oldest(log), Newest(log))
                = Dist(Oldest(log), log[j].idx) + Dist(log[j].idx, Newest(log))
           /\ Dist(Oldest(log), log[j].idx) <= Dist(Oldest(log), Newest(log))
  <1>1. /\ log[j].idx \in Slots /\ Newest(log) \in Slots /\ Oldest(log) \in Slots
    BY LogType
  <1>2. Dist(log[j].idx, Newest(log)) <= Dist(Oldest(log), Newest(log))
    BY FromOrdered
  <1>3. Dist(Oldest(log), log[j].idx)
            = Dist(Oldest(log), Newest(log)) - Dist(log[j].idx, Newest(log))
    BY <1>1, <1>2, DistAdd
  <1> QED
    BY <1>1, <1>2, <1>3, DistRange

\* An acquire load of an entry takes the accesses that happened before its
\* store off the pending ones; what is left is ahead of that entry.
LEMMA FromPending ==
    ASSUME NEW log \in Seq(Entry), log # <<>>, NEW j \in 1 .. Len(log), LogOrdered(log),
           NEW d \in SUBSET Slots, NEW n \in Nat, Pending(log, d, n)
    PROVE  Pending(From(log, j), d \ log[j].rel, n)
  <1> DEFINE q == From(log, j)
             o == Oldest(log)
             w == Newest(log)
             e == log[j].idx
  <1>1. Len(log) \in Nat \ {0} /\ j \in Nat \ {0} /\ j <= Len(log)
    BY LogType
  <1>2. /\ Len(q) = Len(log) - j + 1
        /\ q[1].idx = e
        /\ \A k \in 2 .. Len(log) - j + 1 : q[k] = log[k + j - 1]
        /\ Newest(q) = w
        /\ Oldest(q) = e
    BY FromElements
  <1>3. o \in Slots /\ w \in Slots /\ e \in Slots
    BY LogType
  <1>4. Dist(o, w) = Dist(o, e) + Dist(e, w)
    BY Between
  <1> HIDE DEF q, o, w, e
  <1> SUFFICES ASSUME NEW s \in d, s \notin log[j].rel
               PROVE  /\ Dist(e, s) < Dist(e, w) + n
                      /\ \A k \in 1 .. Len(q) :
                            Dist(e, s) < Dist(e, q[k].idx) => s \in q[k].rel
    BY <1>2 DEF Pending, q
  <1>5. s \in Slots
    OBVIOUS
  <1>6. Dist(o, s) < Dist(o, w) + n
    BY DEF Pending, o, w
  <1>7. ~(Dist(o, s) < Dist(o, e))
    BY DEF Pending, o, e
  <1>8. Dist(o, e) <= Dist(o, s)
    BY <1>3, <1>5, <1>7, DistRange
  <1>9. Dist(e, s) = Dist(o, s) - Dist(o, e)
    BY <1>3, <1>5, <1>8, DistAdd
  <1>10. Dist(e, s) < Dist(e, w) + n
    <2>1. Dist(o, w) \in Nat /\ Dist(o, e) \in Nat /\ Dist(e, w) \in Nat /\ Dist(o, s) \in Nat
      BY <1>3, <1>5, DistRange
    <2> QED
      BY <1>4, <1>6, <1>9, <2>1
  <1>11. ASSUME NEW k \in 1 .. Len(q), Dist(e, s) < Dist(e, q[k].idx)
         PROVE  s \in q[k].rel
    <2>1. k # 1
      <3> SUFFICES ASSUME k = 1 PROVE FALSE
        OBVIOUS
      <3>1. Dist(e, e) = 0 /\ Dist(e, s) \in Nat
        BY <1>3, <1>5, DistRange
      <3> QED
        BY <1>2, <1>11, <3>1
    <2>2. k \in 2 .. Len(log) - j + 1 /\ k + j - 1 \in 1 .. Len(log) /\ j <= k + j - 1
      BY <1>1, <1>2, <2>1
    <2> DEFINE f == log[k + j - 1].idx
    <2>3. q[k] = log[k + j - 1]
      BY <1>2, <2>2
    <2>4. f \in Slots
      BY <2>2, LogType
    <2>5. Dist(f, w) <= Dist(e, w)
      BY <2>2 DEF LogOrdered, w, e
    <2>6. Dist(o, w) = Dist(o, f) + Dist(f, w)
      BY <2>2, Between DEF o, w
    <2>7. Dist(o, s) < Dist(o, f)
      <3>1. Dist(e, f) = Dist(e, w) - Dist(f, w)
        BY <1>3, <2>4, <2>5, DistAdd
      <3>2. Dist(e, s) < Dist(e, f)
        BY <1>11, <2>3
      <3> HIDE DEF f
      <3>3. /\ Dist(o, s) \in Nat /\ Dist(o, f) \in Nat /\ Dist(e, f) \in Nat
            /\ Dist(e, s) \in Nat /\ Dist(o, e) \in Nat /\ Dist(o, w) \in Nat
            /\ Dist(e, w) \in Nat /\ Dist(f, w) \in Nat
        BY <1>3, <1>5, <2>4, DistRange
      <3> DEFINE ow == Dist(o, w)
                 oe == Dist(o, e)
                 ew == Dist(e, w)
                 of == Dist(o, f)
                 fw == Dist(f, w)
                 ef == Dist(e, f)
      <3>4. /\ ow \in Nat /\ oe \in Nat /\ ew \in Nat /\ of \in Nat /\ fw \in Nat /\ ef \in Nat
            /\ ow = oe + ew /\ ow = of + fw /\ ef = ew - fw
        BY <1>4, <2>6, <3>1, <3>3
      <3> HIDE DEF ow, oe, ew, of, fw, ef
      <3>5. of = oe + ef
        BY <3>4
      <3>6. Dist(o, f) = Dist(o, e) + Dist(e, f)
        BY <3>5 DEF of, oe, ef
      <3> QED
        BY <1>9, <3>2, <3>3, <3>6
    <2> QED
      BY <2>2, <2>3, <2>7 DEF Pending, o
  <1> QED
    BY <1>10, <1>11

\* A release store of an index n steps ahead: the log stays ordered, and the
\* accesses that were ahead of the old index are behind the new one.
LEMMA LogStore ==
    ASSUME NEW log \in Seq(Entry), log # <<>>, LogOrdered(log),
           NEW d \in SUBSET Slots, NEW n \in Nat,
           Dist(Oldest(log), Newest(log)) + n < max_size,
           Pending(log, d, n),
           NEW i, i = NewIndex(Newest(log), n)
    PROVE  /\ i \in Slots
           /\ Log(log, Stored(i, d)) \in Seq(Entry)
           /\ Log(log, Stored(i, d)) # <<>>
           /\ Newest(Log(log, Stored(i, d))) = i
           /\ Oldest(Log(log, Stored(i, d))) = Oldest(log)
           /\ Dist(Oldest(log), i) = Dist(Oldest(log), Newest(log)) + n
           /\ LogOrdered(Log(log, Stored(i, d)))
           /\ Pending(Log(log, Stored(i, d)), d, 0)
  <1> DEFINE e == Stored(i, d)
             q == Log(log, e)
             o == Oldest(log)
             w == Newest(log)
  <1>1. Len(log) \in Nat \ {0} /\ o \in Slots /\ w \in Slots
    BY LogType
  <1>2. n < max_size /\ Dist(o, w) \in Nat
    BY <1>1, DistRange, SizePositive
  <1>3. i \in Slots /\ Dist(w, i) = n
    BY <1>1, <1>2, NewIndexDist
  <1>4. Dist(o, i) = Dist(o, w) + n
    BY <1>1, <1>3, DistAdd
  <1>5. e \in Entry /\ e.idx = i /\ e.rel = d
    BY <1>3 DEF Stored, Entry
  <1>6. CASE i = w
    <2>1. q = log
      BY <1>5, <1>6 DEF Log
    <2>2. n = 0
      BY <1>1, <1>3, <1>6, DistRange
    <2> QED
      BY <1>3, <1>4, <1>6, <2>1, <2>2
  <1>7. CASE i # w
    <2> HIDE DEF e, o, w
    <2>1. q = Append(log, e)
      BY <1>5, <1>7 DEF Log, w
    <2>2. /\ q \in Seq(Entry) /\ q # <<>>
          /\ Len(q) = Len(log) + 1
          /\ q[Len(log) + 1] = e
          /\ \A k \in 1 .. Len(log) : q[k] = log[k]
      BY <1>5, <2>1, AppendProperties
    <2> HIDE DEF q
    <2>3. Newest(q) = i
      BY <1>5, <2>2 DEF Newest
    <2>4. Oldest(q) = o
      BY <1>1, <2>2 DEF Oldest, o
    <2>5. \A k \in 1 .. Len(q) : k = Len(log) + 1 \/ k \in 1 .. Len(log)
      BY <1>1, <2>2
    <2>6. \A k \in 1 .. Len(log) : /\ q[k].idx = log[k].idx
                                   /\ Dist(log[k].idx, w) \in Nat
                                   /\ Dist(log[k].idx, i) = Dist(log[k].idx, w) + n
                                   /\ Dist(o, log[k].idx) <= Dist(o, w)
      <3> SUFFICES ASSUME NEW k \in 1 .. Len(log)
                   PROVE  /\ q[k].idx = log[k].idx
                          /\ Dist(log[k].idx, w) \in Nat
                          /\ Dist(log[k].idx, i) = Dist(log[k].idx, w) + n
                          /\ Dist(o, log[k].idx) <= Dist(o, w)
        OBVIOUS
      <3>1. log[k].idx \in Slots
        BY LogType
      <3>2. Dist(log[k].idx, w) <= Dist(o, w) /\ Dist(o, log[k].idx) <= Dist(o, w)
        BY Between DEF o, w
      <3>3. Dist(log[k].idx, w) \in Nat
        BY <1>1, <3>1, DistRange
      <3>4. Dist(log[k].idx, w) + Dist(w, i) < max_size
        BY <1>2, <1>3, <3>2, <3>3, SizePositive DEF o, w
      <3>5. Dist(log[k].idx, i) = Dist(log[k].idx, w) + n
        BY <1>1, <1>3, <3>1, <3>4, DistAdd
      <3> QED
        BY <2>2, <3>2, <3>3, <3>5
    <2>7. LogOrdered(q)
      <3> SUFFICES ASSUME NEW a \in 1 .. Len(q), NEW b \in 1 .. Len(q), a <= b
                   PROVE  Dist(q[b].idx, i) <= Dist(q[a].idx, i)
        BY <2>3 DEF LogOrdered
      <3>1. CASE b = Len(log) + 1
        <4>1. Dist(q[b].idx, i) = 0
          BY <1>3, <1>5, <2>2, <3>1, DistRange
        <4>2. Dist(q[a].idx, i) \in Nat
          BY <1>3, <2>2, LogType, DistRange
        <4> QED
          BY <4>1, <4>2
      <3>2. CASE b # Len(log) + 1
        <4>1. a \in 1 .. Len(log) /\ b \in 1 .. Len(log)
          BY <1>1, <2>5, <3>2
        <4>2. Dist(log[b].idx, w) <= Dist(log[a].idx, w)
          BY <4>1 DEF LogOrdered, w
        <4>3. /\ q[a].idx = log[a].idx /\ q[b].idx = log[b].idx
              /\ Dist(log[a].idx, w) \in Nat /\ Dist(log[b].idx, w) \in Nat
              /\ Dist(log[a].idx, i) = Dist(log[a].idx, w) + n
              /\ Dist(log[b].idx, i) = Dist(log[b].idx, w) + n
          BY <2>6, <4>1
        <4> QED
          BY <4>2, <4>3
      <3> QED
        BY <3>1, <3>2
    <2>8. Pending(q, d, 0)
      <3> SUFFICES ASSUME NEW s \in d
                   PROVE  /\ Dist(o, s) < Dist(o, i) + 0
                          /\ \A k \in 1 .. Len(q) :
                                Dist(o, s) < Dist(o, q[k].idx) => s \in q[k].rel
        BY <2>3, <2>4 DEF Pending
      <3>1. Dist(o, s) < Dist(o, w) + n
        BY DEF Pending, o, w
      <3>2. ASSUME NEW k \in 1 .. Len(q), Dist(o, s) < Dist(o, q[k].idx)
            PROVE  s \in q[k].rel
        <4>1. CASE k = Len(log) + 1
          BY <1>5, <2>2, <4>1
        <4>2. CASE k \in 1 .. Len(log)
          BY <2>2, <3>2, <4>2 DEF Pending, o
        <4> QED
          BY <2>5, <4>1, <4>2
      <3> QED
        BY <1>2, <1>4, <3>1, <3>2
    <2> QED
      BY <1>3, <1>4, <2>2, <2>3, <2>4, <2>7, <2>8 DEF q, e, o, w
  <1> QED
    BY <1>6, <1>7

\* An access leaves the indices of a log as they are.
LEMMA AccessedElements ==
    ASSUME NEW log \in Seq(Entry), log # <<>>, NEW s
    PROVE  /\ Accessed(log, s) \in Seq(Entry) /\ Accessed(log, s) # <<>>
           /\ Len(Accessed(log, s)) = Len(log)
           /\ \A j \in 1 .. Len(log) :
                /\ Accessed(log, s)[j].idx = log[j].idx
                /\ Accessed(log, s)[j].rel = log[j].rel \ {s}
           /\ Newest(Accessed(log, s)) = Newest(log)
           /\ Oldest(Accessed(log, s)) = Oldest(log)
  <1> DEFINE q == Accessed(log, s)
             e(j) == Stored(log[j].idx, log[j].rel \ {s})
  <1>1. /\ Len(log) \in Nat \ {0}
        /\ \A j \in 1 .. Len(log) :
                log[j] \in Entry /\ log[j].idx \in Slots /\ log[j].rel \subseteq Slots
    BY LogType
  <1>2. \A j \in 1 .. Len(log) :
            e(j) \in Entry /\ e(j).idx = log[j].idx /\ e(j).rel = log[j].rel \ {s}
    BY <1>1 DEF Entry, Stored
  <1>3. q = [j \in 1 .. Len(log) |-> e(j)]
    BY DEF Accessed
  <1> HIDE DEF q, e
  <1>4. q \in Seq(Entry) /\ Len(q) = Len(log)
    BY <1>1, <1>2, <1>3
  <1>5. \A j \in 1 .. Len(log) : q[j].idx = log[j].idx /\ q[j].rel = log[j].rel \ {s}
    BY <1>2, <1>3
  <1>6. q # <<>>
    BY <1>1, <1>4
  <1>7. 1 \in 1 .. Len(log) /\ Len(log) \in 1 .. Len(log)
    BY <1>1
  <1>8. Newest(q) = Newest(log) /\ Oldest(q) = Oldest(log)
    BY <1>4, <1>5, <1>7 DEF Newest, Oldest
  <1> QED
    BY <1>4, <1>5, <1>6, <1>8 DEF q

LEMMA AccessedOrdered ==
    ASSUME NEW log \in Seq(Entry), log # <<>>, LogOrdered(log), NEW s
    PROVE  LogOrdered(Accessed(log, s))
  BY AccessedElements DEF LogOrdered

\* One more slot is accessed.
LEMMA PendingAdd ==
    ASSUME NEW log \in Seq(Entry), log # <<>>, LogOrdered(log),
           NEW d \in SUBSET Slots, NEW n \in Nat,
           Dist(Oldest(log), Newest(log)) + n < max_size,
           Pending(log, d, n),
           NEW i, i = NewIndex(Newest(log), n)
    PROVE  Pending(Accessed(log, i), d \cup {i}, n + 1)
  <1> DEFINE o == Oldest(log)
             w == Newest(log)
  <1>1. o \in Slots /\ w \in Slots
    BY LogType
  <1>2. n < max_size /\ Dist(o, w) \in Nat
    BY <1>1, DistRange, SizePositive
  <1>3. i \in Slots /\ Dist(w, i) = n
    BY <1>1, <1>2, NewIndexDist
  <1>4. Dist(o, i) = Dist(o, w) + n
    BY <1>1, <1>3, DistAdd
  <1> SUFFICES ASSUME NEW s \in d \cup {i}
               PROVE  /\ Dist(o, s) < Dist(o, w) + (n + 1)
                      /\ \A k \in 1 .. Len(log) :
                            Dist(o, s) < Dist(o, log[k].idx) => s \in log[k].rel /\ s # i
    BY AccessedElements DEF Pending
  <1>5. CASE s \in d /\ s # i
    <2>1. Dist(o, s) \in Nat
      BY <1>1, <1>5, DistRange
    <2> QED
      BY <1>2, <1>5, <2>1 DEF Pending
  <1>6. CASE s = i
    <2>1. ASSUME NEW k \in 1 .. Len(log) PROVE ~(Dist(o, i) < Dist(o, log[k].idx))
      <3>1. Dist(o, log[k].idx) <= Dist(o, w)
        BY Between
      <3>2. log[k].idx \in Slots
        BY LogType
      <3>3. Dist(o, log[k].idx) \in Nat
        BY <1>1, <3>2, DistRange
      <3> QED
        BY <1>2, <1>4, <3>1, <3>3
    <2> QED
      BY <1>2, <1>4, <1>6, <2>1
  <1> QED
    BY <1>5, <1>6

-----------------------------------------------------------------------------
(* The inductive invariant *)

\* What the invariant says of the numbers involved.
LEMMA RingFacts ==
    ASSUME RingInv
    PROVE  /\ ReadIndex \in Slots /\ WriteIndex \in Slots
           /\ Oldest(rlog) \in Slots /\ Oldest(wlog) \in Slots
           /\ Len(queue) \in Nat /\ Len(queue) < max_size
           /\ Len(input) \in Nat /\ Len(out) \in Nat /\ put \in Nat /\ got \in Nat
           /\ Dist(Oldest(rlog), ReadIndex) \in Nat
           /\ Dist(Oldest(wlog), WriteIndex) \in Nat
           /\ WriteIndex = NewIndex(ReadIndex, Len(queue))
  <1> USE DEF RingInv, RingTypeOK
  <1>1. /\ ReadIndex \in Slots /\ WriteIndex \in Slots
        /\ Oldest(rlog) \in Slots /\ Oldest(wlog) \in Slots
    BY LogType DEF ReadIndex, WriteIndex
  <1>2. Len(queue) \in Nat /\ Len(input) \in Nat /\ Len(out) \in Nat
    BY LenProperties
  <1>3. /\ Dist(Oldest(rlog), ReadIndex) \in Nat
        /\ Dist(Oldest(wlog), WriteIndex) \in Nat
        /\ Len(queue) = Dist(ReadIndex, WriteIndex)
        /\ Len(queue) < max_size
    BY <1>1, DistRange DEF QueuePlaced
  <1>4. NewIndex(ReadIndex, Len(queue)) \in Slots
            /\ Dist(ReadIndex, NewIndex(ReadIndex, Len(queue))) = Len(queue)
    BY <1>1, <1>2, <1>3, NewIndexDist
  <1>5. WriteIndex = NewIndex(ReadIndex, Len(queue))
    BY <1>1, <1>3, <1>4, DistRange
  <1> QED
    BY <1>1, <1>2, <1>3, <1>5

\* The log of an index that has just been set to 0.
LEMMA ZeroLog ==
    /\ 0 \in Slots
    /\ <<Stored(0, {})>> \in Seq(Entry)
    /\ <<Stored(0, {})>> # <<>>
    /\ Newest(<<Stored(0, {})>>) = 0
    /\ Oldest(<<Stored(0, {})>>) = 0
    /\ LogOrdered(<<Stored(0, {})>>)
    /\ \A n : Pending(<<Stored(0, {})>>, {}, n)
    /\ Dist(0, 0) = 0
  <1> DEFINE e == Stored(0, {})
             q == <<e>>
  <1>1. 0 \in Slots
    BY SizePositive DEF Slots
  <1>2. e \in Entry /\ e.idx = 0
    BY <1>1 DEF Stored, Entry
  <1> HIDE DEF e
  <1>3. q \in Seq(Entry) /\ q # <<>> /\ Len(q) = 1 /\ q[1] = e
    BY <1>2
  <1> HIDE DEF q
  <1>4. Newest(q) = 0 /\ Oldest(q) = 0
    BY <1>2, <1>3 DEF Newest, Oldest
  <1>5. Dist(0, 0) = 0
    BY <1>1, DistRange
  <1>6. LogOrdered(q)
    <2> SUFFICES ASSUME NEW i \in 1 .. Len(q), NEW j \in 1 .. Len(q)
                 PROVE  Dist(q[j].idx, Newest(q)) <= Dist(q[i].idx, Newest(q))
      BY DEF LogOrdered
    <2>1. i = 1 /\ j = 1
      BY <1>3
    <2> QED
      BY <1>2, <1>3, <1>4, <1>5, <2>1
  <1>7. \A n : Pending(q, {}, n)
    BY DEF Pending
  <1> QED
    BY <1>1, <1>3, <1>4, <1>5, <1>6, <1>7 DEF q, e

\* The empty ringbuffer satisfies the invariant.
LEMMA InitRingInv == Init => RingInv
  <1> SUFFICES ASSUME Init PROVE RingInv
    OBVIOUS
  <1> USE DEF Init
  <1>1. queue \in Seq(Values) /\ Len(queue) = 0 /\ Len(input) = 0 /\ Len(out) = 0
    OBVIOUS
  <1>2. RingTypeOK
    BY <1>1, ZeroLog, BulkAssumption DEF RingTypeOK
  <1>3. ReadIndex = 0 /\ WriteIndex = 0 /\ Oldest(rlog) = 0 /\ Oldest(wlog) = 0
    BY ZeroLog DEF ReadIndex, WriteIndex
  <1>4. RingLocals
    BY DEF RingLocals, Putting, Getting
  <1>5. QueuePlaced
    BY <1>1, <1>3, ZeroLog DEF QueuePlaced
  <1>6. RoomKept
    BY <1>1, <1>3, ZeroLog, SizePositive DEF RoomKept, Putting, Getting
  <1>7. CopiedSoFar
    BY DEF CopiedSoFar, Putting, Getting
  <1>8. LogOrdered(rlog) /\ LogOrdered(wlog) /\ Pending(rlog, fetched, got)
            /\ Pending(wlog, dirty, put)
    BY ZeroLog
  <1> QED
    BY <1>2, <1>4, <1>5, <1>6, <1>7, <1>8 DEF RingInv

\* reset() empties the ringbuffer while both threads are outside.
LEMMA ResetKeeps ==
    ASSUME RingInv, Reset PROVE RingInv'
  <1> USE DEF RingInv, Reset
  <1>1. queue' \in Seq(Values) /\ Len(queue') = 0
    OBVIOUS
  <1>2. RingTypeOK'
    BY <1>1, ZeroLog DEF RingTypeOK, producer, consumer
  <1>3. ReadIndex' = 0 /\ WriteIndex' = 0 /\ Oldest(rlog') = 0 /\ Oldest(wlog') = 0
    BY ZeroLog DEF ReadIndex, WriteIndex
  <1>4. RingLocals' /\ ~Putting' /\ ~Getting'
    BY DEF RingLocals, Putting, Getting, producer, consumer
  <1>5. QueuePlaced'
    BY <1>1, <1>3, ZeroLog DEF QueuePlaced
  <1>6. RoomKept'
    BY <1>1, <1>3, <1>4, ZeroLog, SizePositive DEF RoomKept
  <1>7. CopiedSoFar'
    BY <1>4 DEF CopiedSoFar
  <1>8. /\ LogOrdered(rlog)' /\ LogOrdered(wlog)'
        /\ Pending(rlog, fetched, got)' /\ Pending(wlog, dirty, put)'
    BY ZeroLog
  <1> QED
    BY <1>2, <1>4, <1>5, <1>6, <1>7, <1>8

\* A call of enqueue or dequeue begins.
LEMMA CallKeeps ==
    ASSUME RingInv, Enqueue \/ Dequeue PROVE RingInv'
  <1> USE DEF RingInv
  <1>1. /\ UNCHANGED <<buf, wlog, rlog, dirty, fetched, queue, put, out, got>>
        /\ ReadIndex' = ReadIndex /\ WriteIndex' = WriteIndex
    BY DEF Enqueue, Dequeue, shared, producer, consumer, ReadIndex, WriteIndex
  <1>2. /\ Putting' = Putting /\ (Putting => input' = input)
        /\ Getting' = Getting /\ (Getting => cpc' = cpc)
        /\ (~Getting' => cpc' # "copy_one")
        /\ (ppc' \in {"load_one", "copy_one"} => Len(input') = 1)
    BY DEF Enqueue, Dequeue, Putting, Getting, producer, consumer, RingLocals
  <1>3. RingTypeOK'
    <2>1. CASE Enqueue
      <3>1. input' \in Seq(Values)
        BY <2>1 DEF Enqueue, Blocks
      <3>2. put = 0
        BY <2>1 DEF Enqueue, RingLocals, Putting
      <3>3. put' \in 0 .. Len(input')
        BY <1>1, <3>1, <3>2, LenProperties
      <3> QED
        BY <2>1, <3>1, <3>3 DEF Enqueue, RingTypeOK, shared, consumer
    <2>2. CASE Dequeue
      BY <2>2, BulkAssumption DEF Dequeue, RingTypeOK, shared, producer
    <2> QED
      BY <2>1, <2>2
  <1>4. RingLocals'
    <2>1. cpc' = "copy_one" => cpc = "copy_one"
      BY <1>2 DEF Getting
    <2> QED
      BY <1>1, <1>2, <2>1 DEF RingLocals
  <1>5. QueuePlaced'
    BY <1>1 DEF QueuePlaced
  <1>6. RoomKept'
    BY <1>1, <1>2 DEF RoomKept
  <1>7. CopiedSoFar'
    BY <1>1, <1>2 DEF CopiedSoFar
  <1>8. /\ LogOrdered(rlog)' /\ LogOrdered(wlog)'
        /\ Pending(rlog, fetched, got)' /\ Pending(wlog, dirty, put)'
    BY <1>1
  <1> QED
    BY <1>3, <1>4, <1>5, <1>6, <1>7, <1>8

\* The producer loads read_index_, perhaps an old value: the room it finds is
\* there (ringbuffer.hpp:75-159).
LEMMA EnqueueLoadKeeps ==
    ASSUME RingInv, NEW j \in 1 .. Len(rlog), EnqueueOne(j) \/ EnqueueMany(j)
    PROVE  RingInv'
  <1> USE DEF RingInv
  <1> DEFINE r == rlog[j].idx
  <1>1. /\ ReadIndex \in Slots /\ WriteIndex \in Slots
        /\ Len(queue) \in Nat /\ Len(queue) < max_size
        /\ Len(input) \in Nat /\ Dist(Oldest(rlog), ReadIndex) \in Nat
    BY RingFacts
  <1>2. /\ rlog' = From(rlog, j) /\ fetched' = fetched \ rlog[j].rel
        /\ UNCHANGED <<buf, wlog, dirty, queue, cpc, want, out, got>>
        /\ ~Putting /\ put = 0
    BY DEF EnqueueOne, EnqueueMany, AcquireRead, consumer, RingLocals, Putting
  <1>3. /\ rlog' \in Seq(Entry) /\ rlog' # <<>>
        /\ ReadIndex' = ReadIndex /\ WriteIndex' = WriteIndex
        /\ Oldest(rlog') = r
    BY <1>2, FromElements DEF RingTypeOK, ReadIndex, WriteIndex
  <1>4. /\ LogOrdered(rlog')
        /\ Dist(r, ReadIndex) <= Dist(Oldest(rlog), ReadIndex)
    BY <1>2, FromOrdered DEF RingTypeOK, ReadIndex
  <1>5. r \in Slots /\ Dist(r, ReadIndex) \in Nat
    BY <1>1, LogType, DistRange DEF RingTypeOK
  <1>6. /\ Dist(r, ReadIndex) + Len(queue) < max_size
        /\ Dist(r, WriteIndex) = Dist(r, ReadIndex) + Len(queue)
    <2>1. Dist(Oldest(rlog), ReadIndex) + Len(queue) < max_size
      BY <1>1, <1>2 DEF RoomKept
    <2>2. Dist(r, ReadIndex) + Len(queue) < max_size
      BY <1>1, <1>4, <1>5, <2>1, SizePositive
    <2> QED
      BY <1>1, <1>5, <2>2, DistAdd DEF QueuePlaced
  <1>7. Pending(rlog', fetched', got')
    <2>1. Pending(From(rlog, j), fetched \ rlog[j].rel, got)
      BY RingFacts, FromPending DEF RingTypeOK
    <2> QED
      BY <1>2, <2>1
  <1> HIDE DEF r
  <1>8. /\ input' \in Seq(Values) /\ put' = 0
        /\ ppc' \in {"idle", "copy_one", "copy_many"}
        /\ ppc' = "copy_one" => Len(input') = 1
        /\ Putting' => Dist(r, ReadIndex) + Len(queue) + Len(input') < max_size
    <2>1. CASE PReturn
      BY <2>1 DEF PReturn, Putting
    <2>2. CASE ~PReturn /\ EnqueueOne(j)
      <3>1. /\ ppc' = "copy_one" /\ input' = input /\ put' = put
            /\ next_index(WriteIndex) # r
        BY <2>2 DEF EnqueueOne, r
      <3>2. Len(input) = 1
        BY <2>2 DEF EnqueueOne, RingLocals
      <3>3. Dist(r, WriteIndex) # max_size - 1
        BY <1>1, <1>5, <3>1, NextIndex
      <3>4. Dist(r, ReadIndex) + Len(queue) + 1 < max_size
        BY <1>1, <1>5, <1>6, <3>3, SizePositive
      <3> QED
        BY <1>2, <3>1, <3>2, <3>4 DEF RingTypeOK
    <2>3. CASE ~PReturn /\ EnqueueMany(j)
      <3> DEFINE a == write_available(WriteIndex, r)
      <3>1. /\ ppc' = "copy_many" /\ put' = put
            /\ input' = IF Len(input) <= a THEN input ELSE SubSeq(input, 1, a)
        BY <2>3 DEF EnqueueMany, r
      <3>2. a = max_size - 1 - Dist(r, WriteIndex)
        BY <1>1, <1>5, WriteAvailable
      <3> HIDE DEF a
      <3>3. a \in Nat /\ Dist(r, ReadIndex) + Len(queue) + a < max_size
        BY <1>1, <1>5, <1>6, <3>2, SizePositive
      <3>4. input' \in Seq(Values) /\ Len(input') <= a /\ Len(input') \in Nat
        <4>1. CASE Len(input) <= a
          BY <1>1, <3>1, <4>1 DEF RingTypeOK
        <4>2. CASE ~(Len(input) <= a)
          <5>1. \A i \in 1 .. a : input[i] \in Values
            BY <1>1, <3>3, <4>2, ElementOfSeq DEF RingTypeOK
          <5>2. /\ SubSeq(input, 1, a) \in Seq(Values)
                /\ Len(SubSeq(input, 1, a)) = IF 1 <= a THEN a - 1 + 1 ELSE 0
            BY <3>3, <5>1, SubSeqProperties
          <5> QED
            BY <3>1, <3>3, <4>2, <5>2
        <4> QED
          BY <4>1, <4>2
      <3>5. Dist(r, ReadIndex) + Len(queue) + Len(input') < max_size
        BY <1>1, <1>5, <3>3, <3>4, SizePositive
      <3> QED
        BY <1>2, <3>1, <3>4, <3>5
    <2> QED
      BY <2>1, <2>2, <2>3
  <1>9. RingTypeOK'
    <2>1. put' \in 0 .. Len(input')
      BY <1>8, LenProperties
    <2>2. fetched' \subseteq Slots
      BY <1>2 DEF RingTypeOK
    <2> QED
      BY <1>2, <1>3, <1>8, <2>1, <2>2 DEF RingTypeOK
  <1>10. RingLocals'
    BY <1>2, <1>8 DEF RingLocals, Getting
  <1>11. QueuePlaced'
    BY <1>2, <1>3 DEF QueuePlaced
  <1>12. Getting' = Getting
    BY <1>2 DEF Getting
  <1>13. RoomKept'
    <2>1. Dist(r, ReadIndex) + Len(queue) + 0 < max_size
      BY <1>1, <1>5, <1>6
    <2> QED
      BY <1>2, <1>3, <1>8, <1>12, <2>1 DEF RoomKept
  <1>14. CopiedSoFar'
    BY <1>2, <1>3, <1>8, <1>12 DEF CopiedSoFar
  <1>15. Pending(wlog, dirty, put)'
    BY <1>2, <1>8
  <1>16. LogOrdered(rlog)' /\ LogOrdered(wlog)'
    BY <1>2, <1>4
  <1> QED
    BY <1>7, <1>9, <1>10, <1>11, <1>13, <1>14, <1>15, <1>16

\* The consumer loads write_index_, perhaps an old value: the values it finds
\* are there (ringbuffer.hpp:161-236).
LEMMA DequeueLoadKeeps ==
    ASSUME RingInv, NEW j \in 1 .. Len(wlog),
           DequeueOne(j) \/ DequeueMany(j) \/ DequeueAll(j)
    PROVE  RingInv'
  <1> USE DEF RingInv
  <1> DEFINE w == wlog[j].idx
  <1>1. /\ ReadIndex \in Slots /\ WriteIndex \in Slots
        /\ Len(queue) \in Nat /\ Len(queue) < max_size
        /\ Len(out) \in Nat /\ Dist(Oldest(wlog), WriteIndex) \in Nat
    BY RingFacts
  <1>2. /\ wlog' = From(wlog, j) /\ dirty' = dirty \ wlog[j].rel
        /\ UNCHANGED <<buf, rlog, fetched, queue, ppc, input, put>>
        /\ ~Getting /\ got = 0 /\ out = <<>>
    BY DEF DequeueOne, DequeueMany, DequeueAll, AcquireWrite, producer, RingLocals, Getting
  <1>3. /\ wlog' \in Seq(Entry) /\ wlog' # <<>>
        /\ ReadIndex' = ReadIndex /\ WriteIndex' = WriteIndex
        /\ Oldest(wlog') = w
    BY <1>2, FromElements DEF RingTypeOK, ReadIndex, WriteIndex
  <1>4. /\ LogOrdered(wlog')
        /\ Dist(w, WriteIndex) <= Dist(Oldest(wlog), WriteIndex)
    BY <1>2, FromOrdered DEF RingTypeOK, WriteIndex
  <1>5. w \in Slots /\ Dist(w, WriteIndex) \in Nat /\ Dist(ReadIndex, w) \in Nat
    BY <1>1, LogType, DistRange DEF RingTypeOK
  <1>6. /\ Dist(w, WriteIndex) <= Len(queue)
        /\ Dist(ReadIndex, w) = Len(queue) - Dist(w, WriteIndex)
    <2>1. Dist(Oldest(wlog), WriteIndex) <= Len(queue)
      BY <1>1, <1>2 DEF RoomKept
    <2>2. Dist(w, WriteIndex) <= Len(queue)
      BY <1>1, <1>4, <1>5, <2>1
    <2> QED
      BY <1>1, <1>5, <2>2, DistAdd DEF QueuePlaced
  <1>7. Pending(wlog', dirty', put')
    <2>1. Pending(From(wlog, j), dirty \ wlog[j].rel, put)
      BY RingFacts, FromPending DEF RingTypeOK
    <2> QED
      BY <1>2, <2>1
  <1> HIDE DEF w
  <1>8. /\ out' \in Seq(Values \cup {NoVal}) /\ got' = 0 /\ want' \in 0 .. MaxBulk
        /\ cpc' \in {"idle", "copy_one", "copy_many", "copy_all"}
        /\ cpc' = "copy_one" => Len(out') = 1
        /\ cpc' = "idle" => out' = <<>>
        /\ Getting' => Dist(w, WriteIndex) + Len(out') <= Len(queue)
    <2>1. CASE CReturn
      BY <2>1, BulkAssumption DEF CReturn, Getting
    <2>2. CASE ~CReturn
      <3>1. PICK n \in Nat :
              /\ n <= Dist(ReadIndex, w)
              /\ \/ Expect("copy_one", n) /\ n = 1
                 \/ Expect("copy_many", n)
                 \/ Expect("copy_all", n)
        <4>1. read_available(w, ReadIndex) = Dist(ReadIndex, w)
          BY <1>1, <1>5, ReadAvailable
        <4>2. CASE DequeueOne(j)
          <5>1. w # ReadIndex /\ Expect("copy_one", 1)
            BY <2>2, <4>2 DEF DequeueOne, w
          <5>2. Dist(ReadIndex, w) # 0
            BY <1>1, <1>5, <5>1, DistRange
          <5>3. 1 <= Dist(ReadIndex, w)
            BY <1>5, <5>2
          <5> QED
            BY <5>1, <5>3
        <4>3. CASE DequeueMany(j)
          <5> DEFINE a == Dist(ReadIndex, w)
                     n == IF want <= a THEN want ELSE a
          <5>1. Expect("copy_many", n)
            BY <2>2, <4>1, <4>3 DEF DequeueMany, w
          <5>2. want \in Nat
            BY BulkAssumption DEF RingTypeOK
          <5>3. n \in Nat /\ n <= a
            BY <1>5, <5>2
          <5> QED
            BY <5>1, <5>3
        <4>4. CASE DequeueAll(j)
          <5>1. Expect("copy_all", Dist(ReadIndex, w))
            BY <2>2, <4>1, <4>4 DEF DequeueAll, w
          <5> QED
            BY <1>5, <5>1
        <4> QED
          BY <4>2, <4>3, <4>4
      <3>2. /\ out' = [k \in 1 .. n |-> NoVal]
            /\ want' = want /\ got' = got
            /\ cpc' \in {"copy_one", "copy_many", "copy_all"}
            /\ cpc' = "copy_one" => n = 1
        BY <3>1 DEF Expect
      <3>3. out' \in Seq(Values \cup {NoVal}) /\ Len(out') = n
        BY <3>2
      <3>4. Dist(w, WriteIndex) + n <= Len(queue)
        BY <1>1, <1>5, <1>6, <3>1
      <3> QED
        BY <1>2, <3>2, <3>3, <3>4 DEF RingTypeOK
    <2> QED
      BY <2>1, <2>2
  <1>9. RingTypeOK'
    <2>1. got' \in 0 .. Len(out')
      BY <1>8, LenProperties
    <2>2. dirty' \subseteq Slots
      BY <1>2 DEF RingTypeOK
    <2> QED
      BY <1>2, <1>3, <1>8, <2>1, <2>2 DEF RingTypeOK
  <1>10. Putting' = Putting
    BY <1>2 DEF Putting
  <1>11. RingLocals'
    BY <1>2, <1>8, <1>10 DEF RingLocals, Getting
  <1>12. QueuePlaced'
    BY <1>2, <1>3 DEF QueuePlaced
  <1>13. RoomKept'
    <2>1. Dist(w, WriteIndex) + 0 <= Len(queue)
      BY <1>1, <1>5, <1>6
    <2> QED
      BY <1>2, <1>3, <1>8, <1>10, <2>1 DEF RoomKept
  <1>14. CopiedSoFar'
    BY <1>2, <1>3, <1>8, <1>10 DEF CopiedSoFar
  <1>15. Pending(rlog, fetched, got)'
    BY <1>2, <1>8
  <1>16. LogOrdered(rlog)' /\ LogOrdered(wlog)'
    BY <1>2, <1>4
  <1> QED
    BY <1>7, <1>9, <1>11, <1>12, <1>13, <1>14, <1>15, <1>16

\* The blocks that are being copied fit: the next slot of either thread is its
\* index and as many steps as it has made.
LEMMA BlockFits ==
    ASSUME RingInv
    PROVE  /\ Putting => /\ Len(queue) + Len(input) < max_size
                         /\ Dist(Oldest(wlog), WriteIndex) + Len(input) < max_size
                         /\ put <= Len(input)
           /\ Putting /\ put < Len(input)
                => Slot(WriteIndex, Len(input), put) = NewIndex(WriteIndex, put)
           /\ Getting => /\ Len(out) <= Len(queue)
                         /\ Dist(Oldest(rlog), ReadIndex) + Len(out) < max_size
                         /\ got <= Len(out)
           /\ Getting /\ got < Len(out)
                => Slot(ReadIndex, Len(out), got) = NewIndex(ReadIndex, got)
  <1> USE DEF RingInv
  <1>1. /\ ReadIndex \in Slots /\ WriteIndex \in Slots
        /\ Len(queue) \in Nat /\ Len(queue) < max_size
        /\ Len(input) \in Nat /\ Len(out) \in Nat /\ put \in Nat /\ got \in Nat
        /\ Dist(Oldest(rlog), ReadIndex) \in Nat
        /\ Dist(Oldest(wlog), WriteIndex) \in Nat
    BY RingFacts
  <1>2. put <= Len(input) /\ got <= Len(out)
    BY <1>1 DEF RingTypeOK
  <1>3. Dist(Oldest(wlog), WriteIndex) <= Len(queue)
            /\ Dist(Oldest(rlog), ReadIndex) + Len(queue) < max_size
    BY <1>1, SizePositive DEF RoomKept
  <1>4. ASSUME Putting
        PROVE  /\ Len(queue) + Len(input) < max_size
               /\ Dist(Oldest(wlog), WriteIndex) + Len(input) < max_size
               /\ Len(input) < max_size
    BY <1>1, <1>3, <1>4, SizePositive DEF RoomKept
  <1>5. ASSUME Getting
        PROVE  /\ Len(out) <= Len(queue)
               /\ Dist(Oldest(rlog), ReadIndex) + Len(out) < max_size
               /\ Len(out) < max_size
    <2>1. Len(out) <= Len(queue)
      BY <1>1, <1>5 DEF RoomKept
    <2> QED
      BY <1>1, <1>3, <2>1, SizePositive
  <1>6. Putting /\ put < Len(input)
            => Slot(WriteIndex, Len(input), put) = NewIndex(WriteIndex, put)
    BY <1>1, <1>4, SlotIsNewIndex
  <1>7. Getting /\ got < Len(out)
            => Slot(ReadIndex, Len(out), got) = NewIndex(ReadIndex, got)
    BY <1>1, <1>5, SlotIsNewIndex
  <1> QED
    BY <1>2, <1>4, <1>5, <1>6, <1>7

\* The producer writes an element: into a free slot (ringbuffer.hpp:84, 110-121).
LEMMA PutKeeps ==
    ASSUME RingInv, PutElement PROVE RingInv'
  <1> USE DEF RingInv
  <1> DEFINE s == NewIndex(WriteIndex, put)
  <1>1. /\ ReadIndex \in Slots /\ WriteIndex \in Slots
        /\ Len(queue) \in Nat /\ Len(queue) < max_size
        /\ Len(input) \in Nat /\ put \in Nat
        /\ Dist(Oldest(wlog), WriteIndex) \in Nat
        /\ WriteIndex = NewIndex(ReadIndex, Len(queue))
    BY RingFacts
  <1>2. Putting /\ put < Len(input)
    BY DEF PutElement, Putting
  <1>3. /\ Len(queue) + Len(input) < max_size
        /\ Dist(Oldest(wlog), WriteIndex) + Len(input) < max_size
        /\ Slot(WriteIndex, Len(input), put) = s
    BY <1>2, BlockFits
  <1>4. /\ buf' = [buf EXCEPT ![s] = input[put + 1]]
        /\ dirty' = dirty \cup {s}
        /\ wlog' = Accessed(wlog, s)
        /\ put' = put + 1
        /\ UNCHANGED <<rlog, fetched, queue, ppc, input, cpc, want, out, got>>
        /\ ReadIndex' = ReadIndex
        /\ Putting' = Putting /\ Getting' = Getting
    BY <1>3 DEF PutElement, consumer, ReadIndex, Putting, Getting
  <1>a. /\ wlog' \in Seq(Entry) /\ wlog' # <<>> /\ LogOrdered(wlog')
        /\ Oldest(wlog') = Oldest(wlog) /\ WriteIndex' = WriteIndex
    BY <1>4, AccessedElements, AccessedOrdered DEF RingTypeOK, WriteIndex
  <1>5. put < max_size /\ Len(queue) + put < max_size
            /\ Dist(Oldest(wlog), WriteIndex) + put < max_size
    BY <1>1, <1>2, <1>3, SizePositive
  <1>6. s \in Slots
    BY <1>1, <1>5, NewIndexDist
  <1>7. s = NewIndex(ReadIndex, Len(queue) + put)
    BY <1>1, <1>5, NewIndexAdd
  <1>8. input[put + 1] \in Values
    <2>1. put + 1 \in 1 .. Len(input)
      BY <1>1, <1>2
    <2> QED
      BY <2>1, ElementOfSeq DEF RingTypeOK
  <1>9. Pending(wlog', dirty', put')
    <2>1. Pending(Accessed(wlog, s), dirty \cup {s}, put + 1)
      BY <1>1, <1>5, PendingAdd DEF RingTypeOK, WriteIndex
    <2> QED
      BY <1>4, <2>1
  <1> HIDE DEF s
  <1>10. RingTypeOK'
    <2>1. put' \in 0 .. Len(input')
      BY <1>1, <1>2, <1>4
    <2> QED
      BY <1>4, <1>a, <1>6, <1>8, <2>1 DEF RingTypeOK
  <1>11. RingLocals'
    BY <1>2, <1>4 DEF RingLocals
  <1>12. QueuePlaced'
    <2>1. ASSUME NEW k \in 1 .. Len(queue)
          PROVE  queue[k] = buf'[NewIndex(ReadIndex, k - 1)]
      <3>1. k - 1 \in Nat /\ k - 1 < max_size /\ k - 1 # Len(queue) + put
                /\ Len(queue) + put \in Nat
        BY <1>1, SizePositive
      <3>2. NewIndex(ReadIndex, k - 1) # s
        BY <1>1, <1>5, <1>7, <3>1, NewIndexDiffers
      <3>3. NewIndex(ReadIndex, k - 1) \in Slots
        BY <1>1, <3>1, NewIndexDist
      <3> QED
        BY <1>4, <3>2, <3>3 DEF QueuePlaced, RingTypeOK
    <2> QED
      BY <1>4, <1>a, <2>1 DEF QueuePlaced
  <1>13. RoomKept'
    BY <1>4, <1>a DEF RoomKept
  <1>14. CopiedSoFar'
    <2>1. ASSUME NEW k \in 1 .. put + 1
          PROVE  input[k] = buf'[NewIndex(WriteIndex, k - 1)]
      <3>1. k - 1 \in Nat /\ k - 1 < max_size
        BY <1>1, <1>5, SizePositive
      <3>2. NewIndex(WriteIndex, k - 1) \in Slots
        BY <1>1, <3>1, NewIndexDist
      <3>3. CASE k = put + 1
        <4>1. NewIndex(WriteIndex, k - 1) = s
          BY <1>1, <3>3 DEF s
        <4> QED
          BY <1>4, <1>6, <3>3, <4>1 DEF RingTypeOK
      <3>4. CASE k # put + 1
        <4>1. k \in 1 .. put /\ k - 1 # put
          BY <1>1, <3>4
        <4>2. NewIndex(WriteIndex, k - 1) # s
          BY <1>1, <1>5, <3>1, <4>1, NewIndexDiffers DEF s
        <4> QED
          BY <1>2, <1>4, <3>2, <4>1, <4>2 DEF CopiedSoFar, RingTypeOK
      <3> QED
        BY <3>3, <3>4
    <2> QED
      BY <1>4, <1>a, <2>1 DEF CopiedSoFar
  <1>15. LogOrdered(rlog)' /\ LogOrdered(wlog)' /\ Pending(rlog, fetched, got)'
    BY <1>4, <1>a
  <1> QED
    BY <1>9, <1>10, <1>11, <1>12, <1>13, <1>14, <1>15

\* The consumer copies an element out (ringbuffer.hpp:169, 195-206, 224-235).
LEMMA GetKeeps ==
    ASSUME RingInv, GetElement PROVE RingInv'
  <1> USE DEF RingInv
  <1> DEFINE s == NewIndex(ReadIndex, got)
  <1>1. /\ ReadIndex \in Slots
        /\ Len(queue) \in Nat /\ Len(queue) < max_size
        /\ Len(out) \in Nat /\ got \in Nat
        /\ Dist(Oldest(rlog), ReadIndex) \in Nat
    BY RingFacts
  <1>2. Getting /\ got < Len(out)
    BY DEF GetElement, Getting
  <1>3. /\ Len(out) <= Len(queue)
        /\ Dist(Oldest(rlog), ReadIndex) + Len(out) < max_size
        /\ Slot(ReadIndex, Len(out), got) = s
    BY <1>2, BlockFits
  <1>4. /\ out' = [out EXCEPT ![Place(got) + 1] = buf[s]]
        /\ fetched' = fetched \cup {s}
        /\ rlog' = Accessed(rlog, s)
        /\ got' = got + 1
        /\ UNCHANGED <<buf, wlog, dirty, queue, ppc, input, put, cpc, want>>
        /\ WriteIndex' = WriteIndex
        /\ Putting' = Putting /\ Getting' = Getting
    BY <1>3 DEF GetElement, producer, WriteIndex, Putting, Getting
  <1>a. /\ rlog' \in Seq(Entry) /\ rlog' # <<>> /\ LogOrdered(rlog')
        /\ Oldest(rlog') = Oldest(rlog) /\ ReadIndex' = ReadIndex
    BY <1>4, AccessedElements, AccessedOrdered DEF RingTypeOK, ReadIndex
  <1>5. got < max_size /\ Dist(Oldest(rlog), ReadIndex) + got < max_size
    BY <1>1, <1>2, <1>3, SizePositive
  <1>6. s \in Slots
    BY <1>1, <1>5, NewIndexDist
  <1>7. Pending(rlog', fetched', got')
    <2>1. Pending(Accessed(rlog, s), fetched \cup {s}, got + 1)
      BY <1>1, <1>5, PendingAdd DEF RingTypeOK, ReadIndex
    <2> QED
      BY <1>4, <2>1
  <1>8. Place(got) \in Nat /\ Place(got) <= got
    BY <1>1, SizePositive DEF Place, InSecond, TwoSections, Slots
  <1>9. Place(got) + 1 \in 1 .. Len(out)
    BY <1>1, <1>2, <1>8
  <1> HIDE DEF s
  <1>10. /\ out' \in Seq(Values \cup {NoVal}) /\ Len(out') = Len(out)
         /\ \A k \in 1 .. Len(out) : out'[k] = IF k = Place(got) + 1 THEN buf[s] ELSE out[k]
    BY <1>4, <1>6, <1>9, ExceptSeq DEF RingTypeOK
  <1>11. RingTypeOK'
    <2>1. got' \in 0 .. Len(out')
      BY <1>1, <1>2, <1>4, <1>10
    <2> QED
      BY <1>4, <1>a, <1>6, <1>10, <2>1 DEF RingTypeOK
  <1>12. RingLocals'
    BY <1>2, <1>4, <1>10 DEF RingLocals
  <1>13. QueuePlaced'
    BY <1>4, <1>a DEF QueuePlaced
  <1>14. RoomKept'
    BY <1>4, <1>a, <1>10 DEF RoomKept
  <1>15. CopiedSoFar'
    <2>1. ASSUME InsertIterator \/ cpc # "copy_all", NEW k \in 1 .. got + 1
          PROVE  out'[k] = queue[k]
      <3>1. Place(got) = got
        BY <2>1 DEF Place
      <3>2. k \in 1 .. Len(out) /\ k \in 1 .. Len(queue)
        BY <1>1, <1>2, <1>3
      <3>3. CASE k = got + 1
        <4>1. k - 1 = got
          BY <1>1, <3>3
        <4>2. queue[k] = buf[s]
          BY <3>2, <4>1 DEF QueuePlaced, s
        <4> QED
          BY <1>10, <3>1, <3>2, <3>3, <4>2
      <3>4. CASE k # got + 1
        <4>1. k \in 1 .. got
          BY <1>1, <3>4
        <4> QED
          BY <1>2, <1>10, <2>1, <3>1, <3>2, <3>4, <4>1 DEF CopiedSoFar
      <3> QED
        BY <3>3, <3>4
    <2> QED
      BY <1>4, <2>1 DEF CopiedSoFar
  <1>16. LogOrdered(rlog)' /\ LogOrdered(wlog)' /\ Pending(wlog, dirty, put)'
    BY <1>4, <1>a
  <1> QED
    BY <1>7, <1>11, <1>12, <1>13, <1>14, <1>15, <1>16

\* The producer publishes its block (ringbuffer.hpp:85, 123-130).
LEMMA StoreWriteKeeps ==
    ASSUME RingInv, StoreWrite PROVE RingInv'
  <1> USE DEF RingInv
  <1> DEFINE i == NewIndex(WriteIndex, put)
  <1>1. /\ ReadIndex \in Slots /\ WriteIndex \in Slots
        /\ Len(queue) \in Nat /\ Len(queue) < max_size
        /\ Len(input) \in Nat /\ Len(out) \in Nat /\ put \in Nat /\ got \in Nat
        /\ Dist(Oldest(rlog), ReadIndex) \in Nat
        /\ Dist(Oldest(wlog), WriteIndex) \in Nat
        /\ WriteIndex = NewIndex(ReadIndex, Len(queue))
    BY RingFacts
  <1>2. Putting /\ put = Len(input)
    BY DEF StoreWrite, Putting
  <1>3. /\ Len(queue) + put < max_size
        /\ Dist(Oldest(wlog), WriteIndex) + put < max_size
        /\ Dist(Oldest(rlog), ReadIndex) + Len(queue) + put < max_size
        /\ Getting => got <= Len(out) /\ Len(out) <= Len(queue)
    BY <1>2, BlockFits DEF RoomKept
  <1>4. /\ wlog' = Log(wlog, Stored(i, dirty))
        /\ queue' = queue \o input
        /\ ppc' = "idle" /\ input' = <<>> /\ put' = 0
        /\ UNCHANGED <<buf, rlog, dirty, fetched, cpc, want, out, got>>
        /\ ReadIndex' = ReadIndex
        /\ ~Putting' /\ Getting' = Getting
    <2>1. ppc = "copy_one" => next_index(WriteIndex) = i
      BY <1>1, <1>2, NextIndex DEF RingLocals
    <2> QED
      BY <1>2, <2>1 DEF StoreWrite, ReleaseWrite, PReturn, consumer, ReadIndex, Putting, Getting
  <1>5. /\ wlog' \in Seq(Entry) /\ wlog' # <<>>
        /\ i \in Slots
        /\ WriteIndex' = i
        /\ Oldest(wlog') = Oldest(wlog)
        /\ Dist(Oldest(wlog), i) = Dist(Oldest(wlog), WriteIndex) + put
        /\ LogOrdered(wlog')
        /\ Pending(wlog', dirty, 0)
    BY <1>1, <1>3, <1>4, LogStore DEF RingTypeOK, WriteIndex
  <1> HIDE DEF i
  <1>6. /\ queue' \in Seq(Values)
        /\ Len(queue') = Len(queue) + put
        /\ \A k \in 1 .. Len(queue) + put :
                queue'[k] = IF k <= Len(queue) THEN queue[k] ELSE input[k - Len(queue)]
    BY <1>2, <1>4, ConcatProperties DEF RingTypeOK
  <1>7. RingTypeOK'
    <2>1. input' \in Seq(Values) /\ Len(input') = 0
      BY <1>4
    <2> QED
      BY <1>4, <1>5, <1>6, <2>1 DEF RingTypeOK
  <1>8. RingLocals'
    BY <1>4 DEF RingLocals
  <1>9. QueuePlaced'
    <2>1. i = NewIndex(ReadIndex, Len(queue) + put)
      BY <1>1, <1>3, NewIndexAdd DEF i
    <2>2. Dist(ReadIndex, i) = Len(queue) + put
      BY <1>1, <1>3, <2>1, NewIndexDist
    <2>3. ASSUME NEW k \in 1 .. Len(queue) + put
          PROVE  queue'[k] = buf[NewIndex(ReadIndex, k - 1)]
      <3>1. CASE k <= Len(queue)
        <4>1. k \in 1 .. Len(queue)
          BY <1>1, <3>1
        <4> QED
          BY <1>6, <3>1, <4>1 DEF QueuePlaced
      <3>2. CASE ~(k <= Len(queue))
        <4> DEFINE m == k - Len(queue)
        <4>1. m \in 1 .. put /\ m - 1 \in Nat /\ Len(queue) + (m - 1) = k - 1
                /\ Len(queue) + (m - 1) < max_size
          BY <1>1, <1>3, <3>2, SizePositive
        <4>2. queue'[k] = input[m]
          BY <1>6, <3>2
        <4> HIDE DEF m
        <4>3. input[m] = buf[NewIndex(WriteIndex, m - 1)]
          BY <1>2, <4>1 DEF CopiedSoFar
        <4>4. NewIndex(WriteIndex, m - 1) = NewIndex(ReadIndex, k - 1)
          BY <1>1, <4>1, NewIndexAdd
        <4> QED
          BY <4>2, <4>3, <4>4
      <3> QED
        BY <3>1, <3>2
    <2> QED
      BY <1>4, <1>5, <1>6, <2>2, <2>3 DEF QueuePlaced
  <1>10. RoomKept'
    <2>1. Dist(Oldest(rlog), ReadIndex) + (Len(queue) + put) + 0 < max_size
      BY <1>1, <1>3
    <2>2. Dist(Oldest(wlog), i) + (IF Getting THEN Len(out) ELSE 0) <= Len(queue) + put
      BY <1>1, <1>5 DEF RoomKept
    <2> QED
      BY <1>4, <1>5, <1>6, <2>1, <2>2 DEF RoomKept
  <1>11. CopiedSoFar'
    <2>1. ASSUME Getting, NEW k \in 1 .. got PROVE queue'[k] = queue[k]
      <3>1. k \in 1 .. Len(queue) + put /\ k <= Len(queue)
        BY <1>1, <1>3, <2>1
      <3> QED
        BY <1>6, <3>1
    <2> QED
      BY <1>4, <2>1 DEF CopiedSoFar
  <1>12. LogOrdered(rlog)' /\ LogOrdered(wlog)' /\ Pending(rlog, fetched, got)'
             /\ Pending(wlog, dirty, put)'
    BY <1>4, <1>5
  <1> QED
    BY <1>7, <1>8, <1>9, <1>10, <1>11, <1>12

\* The consumer gives the slots of its block back (ringbuffer.hpp:170, 208-212).
LEMMA StoreReadKeeps ==
    ASSUME RingInv, StoreRead PROVE RingInv'
  <1> USE DEF RingInv
  <1> DEFINE i == NewIndex(ReadIndex, got)
             l == Len(queue) - got
  <1>1. /\ ReadIndex \in Slots /\ WriteIndex \in Slots
        /\ Len(queue) \in Nat /\ Len(queue) < max_size
        /\ Len(input) \in Nat /\ Len(out) \in Nat /\ put \in Nat /\ got \in Nat
        /\ Dist(Oldest(rlog), ReadIndex) \in Nat
        /\ Dist(Oldest(wlog), WriteIndex) \in Nat
    BY RingFacts
  <1>2. Getting /\ got = Len(out)
    BY DEF StoreRead, Getting
  <1>3. /\ got <= Len(queue)
        /\ Dist(Oldest(rlog), ReadIndex) + got < max_size
        /\ Dist(Oldest(wlog), WriteIndex) + got <= Len(queue)
    BY <1>2, BlockFits DEF RoomKept
  <1>4. /\ rlog' = Log(rlog, Stored(i, fetched))
        /\ queue' = SubSeq(queue, got + 1, Len(queue))
        /\ cpc' = "idle" /\ want' = 0 /\ out' = <<>> /\ got' = 0
        /\ UNCHANGED <<buf, wlog, dirty, fetched, ppc, input, put>>
        /\ WriteIndex' = WriteIndex
        /\ ~Getting' /\ Putting' = Putting
    <2>1. cpc = "copy_one" => next_index(ReadIndex) = i
      BY <1>1, <1>2, NextIndex DEF RingLocals
    <2> QED
      BY <1>2, <2>1 DEF StoreRead, ReleaseRead, CReturn, producer, WriteIndex, Putting, Getting
  <1>5. /\ rlog' \in Seq(Entry) /\ rlog' # <<>>
        /\ i \in Slots
        /\ ReadIndex' = i
        /\ Oldest(rlog') = Oldest(rlog)
        /\ Dist(Oldest(rlog), i) = Dist(Oldest(rlog), ReadIndex) + got
        /\ LogOrdered(rlog')
        /\ Pending(rlog', fetched, 0)
    BY <1>1, <1>3, <1>4, LogStore DEF RingTypeOK, ReadIndex
  <1>6. /\ queue' \in Seq(Values)
        /\ Len(queue') = l
        /\ \A k \in 1 .. l : queue'[k] = queue[got + k]
    <2>1. \A k \in got + 1 .. Len(queue) : queue[k] \in Values
      BY <1>1, ElementOfSeq DEF RingTypeOK
    <2>2. /\ queue' \in Seq(Values)
          /\ Len(queue') = IF got + 1 <= Len(queue) THEN Len(queue) - (got + 1) + 1 ELSE 0
          /\ \A k \in 1 .. Len(queue) - (got + 1) + 1 : queue'[k] = queue[(got + 1) + k - 1]
      BY <1>1, <1>4, <2>1, SubSeqProperties
    <2>3. Len(queue') = l
      BY <1>1, <1>3, <2>2
    <2>4. ASSUME NEW k \in 1 .. l PROVE queue'[k] = queue[got + k]
      <3>1. k \in 1 .. Len(queue) - (got + 1) + 1 /\ (got + 1) + k - 1 = got + k
        BY <1>1, <1>3
      <3> QED
        BY <2>2, <3>1
    <2> QED
      BY <2>2, <2>3, <2>4
  <1>7. RingTypeOK'
    <2>1. out' \in Seq(Values \cup {NoVal}) /\ Len(out') = 0
      BY <1>4
    <2>2. want' \in 0 .. MaxBulk /\ got' \in 0 .. Len(out')
      BY <1>4, <2>1, BulkAssumption
    <2>3. queue' \in Seq(Values) /\ rlog' \in Seq(Entry) /\ rlog' # <<>>
      BY <1>5, <1>6
    <2>4. RingTypeOK /\ cpc' = "idle" /\ UNCHANGED <<buf, wlog, dirty, fetched, ppc, input, put>>
      BY <1>4
    <2> QED
      BY <2>1, <2>2, <2>3, <2>4 DEF RingTypeOK
  <1>8. RingLocals'
    BY <1>4 DEF RingLocals
  <1>9. QueuePlaced'
    <2>1. got < max_size
      BY <1>1, <1>3, SizePositive
    <2>2. Dist(ReadIndex, i) = got
      BY <1>1, <2>1, NewIndexDist
    <2>3. Dist(i, WriteIndex) = l
      BY <1>1, <1>3, <1>5, <2>2, DistAdd DEF QueuePlaced
    <2>4. ASSUME NEW k \in 1 .. l PROVE queue'[k] = buf[NewIndex(i, k - 1)]
      <3>1. got + k \in 1 .. Len(queue) /\ k - 1 \in Nat /\ (got + k) - 1 = got + (k - 1)
                /\ got + (k - 1) < max_size
        BY <1>1, <1>3, SizePositive
      <3>2. queue'[k] = buf[NewIndex(ReadIndex, got + (k - 1))]
        BY <1>6, <3>1 DEF QueuePlaced
      <3>3. NewIndex(i, k - 1) = NewIndex(ReadIndex, got + (k - 1))
        BY <1>1, <3>1, NewIndexAdd
      <3> QED
        BY <3>2, <3>3
    <2> HIDE DEF i, l
    <2> QED
      BY <1>4, <1>5, <1>6, <2>3, <2>4 DEF QueuePlaced
  <1>10. RoomKept'
    <2>1. Dist(Oldest(rlog), i) + l + (IF Putting THEN Len(input) ELSE 0) < max_size
      BY <1>1, <1>5 DEF RoomKept
    <2>2. Dist(Oldest(wlog), WriteIndex) + 0 <= l
      BY <1>1, <1>3
    <2> HIDE DEF i, l
    <2> QED
      BY <1>4, <1>5, <1>6, <2>1, <2>2 DEF RoomKept
  <1>11. CopiedSoFar'
    BY <1>4 DEF CopiedSoFar
  <1>12. LogOrdered(rlog)' /\ LogOrdered(wlog)' /\ Pending(rlog, fetched, got)'
             /\ Pending(wlog, dirty, put)'
    BY <1>4, <1>5
  <1> QED
    BY <1>7, <1>8, <1>9, <1>10, <1>11, <1>12

\* Every step keeps the invariant.
LEMMA NextRingInv == RingInv /\ [Next]_vars => RingInv'
  <1> SUFFICES ASSUME RingInv, [Next]_vars PROVE RingInv'
    OBVIOUS
  <1>1. CASE UNCHANGED vars
    BY <1>1 DEF vars, shared, producer, consumer, RingInv, RingTypeOK, RingLocals, QueuePlaced,
                RoomKept, CopiedSoFar, Putting, Getting, ReadIndex, WriteIndex
  <1>2. CASE Next
    BY <1>2, ResetKeeps, CallKeeps, EnqueueLoadKeeps, DequeueLoadKeeps, PutKeeps, GetKeeps,
       StoreWriteKeeps, StoreReadKeeps DEF Next, ProducerStep, ConsumerStep
  <1> QED
    BY <1>1, <1>2

\* Whatever store of the other index each load returns, the values, the indices
\* and what the two threads know of each other's accesses stay consistent
\* (ringbuffer.hpp:50-236).
THEOREM RingInvariantHolds == Spec => []RingInv
  BY InitRingInv, NextRingInv, PTL DEF Spec

\* Every variable keeps its type: no index ever leaves the array, and no copy
\* runs past its block (ringbuffer.hpp:50-236).
THEOREM RingTypeCorrect == Spec => []RingTypeOK
  <1>1. RingInv => RingTypeOK
    BY DEF RingInv
  <1> QED
    BY <1>1, RingInvariantHolds, PTL

\* The slots from the read index on hold the published values in order, for
\* every size of the array and every length of the blocks
\* (ringbuffer.hpp:58-73, 90-236).
THEOREM AlwaysQueueInBuffer == Spec => []QueueInBuffer
  <1>1. ASSUME RingInv PROVE QueueInBuffer
    <2>1. /\ ReadIndex \in Slots /\ WriteIndex \in Slots
          /\ Len(queue) \in Nat /\ Len(queue) < max_size
      BY <1>1, RingFacts
    <2>2. Len(queue) = read_available(WriteIndex, ReadIndex)
      BY <1>1, <2>1, ReadAvailable DEF RingInv, QueuePlaced
    <2>3. ASSUME NEW k \in 1 .. Len(queue)
          PROVE  queue[k] = buf[Slot(ReadIndex, Len(queue), k - 1)]
      <3>1. k - 1 \in Nat /\ k - 1 < Len(queue)
        BY <2>1
      <3>2. Slot(ReadIndex, Len(queue), k - 1) = NewIndex(ReadIndex, k - 1)
        BY <2>1, <3>1, SlotIsNewIndex
      <3> QED
        BY <1>1, <3>2 DEF RingInv, QueuePlaced
    <2> QED
      BY <2>1, <2>2, <2>3 DEF QueueInBuffer
  <1> QED
    BY <1>1, RingInvariantHolds, PTL

\* The slot that the producer writes next is beyond every slot that the
\* consumer may have read since the producer's last load.
LEMMA ProducerRacesNot ==
    ASSUME RingInv, Putting, put < Len(input)
    PROVE  Slot(WriteIndex, Len(input), put) \notin fetched
  <1> USE DEF RingInv
  <1> DEFINE o == Oldest(rlog)
             s == NewIndex(WriteIndex, put)
  <1>1. /\ ReadIndex \in Slots /\ WriteIndex \in Slots /\ o \in Slots
        /\ Len(queue) \in Nat /\ Len(input) \in Nat /\ put \in Nat
        /\ Len(out) \in Nat /\ got \in Nat
        /\ Dist(o, ReadIndex) \in Nat
        /\ WriteIndex = NewIndex(ReadIndex, Len(queue))
    BY RingFacts
  <1>2. Slot(WriteIndex, Len(input), put) = s
    BY BlockFits
  <1>3. got <= Len(queue)
    <2>1. Getting => Len(out) <= Len(queue) /\ got <= Len(out)
      BY BlockFits
    <2> QED
      BY <1>1, <2>1 DEF RingLocals
  <1>4. /\ Dist(o, ReadIndex) + (Len(queue) + put) < max_size
        /\ Len(queue) + put < max_size
    BY <1>1, SizePositive DEF RoomKept
  <1>5. s = NewIndex(ReadIndex, Len(queue) + put)
    BY <1>1, <1>4, NewIndexAdd
  <1>6. s \in Slots /\ Dist(ReadIndex, s) = Len(queue) + put
    BY <1>1, <1>4, <1>5, NewIndexDist
  <1> HIDE DEF o, s
  <1>7. Dist(o, s) = Dist(o, ReadIndex) + (Len(queue) + put)
    BY <1>1, <1>4, <1>6, DistAdd
  <1>8. ASSUME s \in fetched PROVE FALSE
    <2>1. Dist(o, s) < Dist(o, ReadIndex) + got
      BY <1>8 DEF Pending, ReadIndex, o
    <2> QED
      BY <1>1, <1>3, <1>7, <2>1
  <1> QED
    BY <1>2, <1>8

\* The slot that the consumer reads next is before every slot that the
\* producer may have written since the consumer's last load.
LEMMA ConsumerRacesNot ==
    ASSUME RingInv, Getting, got < Len(out)
    PROVE  Slot(ReadIndex, Len(out), got) \notin dirty
  <1> USE DEF RingInv
  <1> DEFINE o == Oldest(wlog)
             s == NewIndex(ReadIndex, got)
  <1>1. /\ ReadIndex \in Slots /\ WriteIndex \in Slots /\ o \in Slots
        /\ Len(queue) \in Nat /\ Len(queue) < max_size
        /\ Len(input) \in Nat /\ put \in Nat
        /\ Len(out) \in Nat /\ got \in Nat
        /\ Dist(o, WriteIndex) \in Nat
    BY RingFacts
  <1>2. Slot(ReadIndex, Len(out), got) = s
    BY BlockFits
  <1>3. Len(queue) + put < max_size
    <2>1. Putting => Len(queue) + Len(input) < max_size /\ put <= Len(input)
      BY BlockFits
    <2> QED
      BY <1>1, <2>1, SizePositive DEF RingLocals
  <1>4. Dist(o, WriteIndex) + Len(out) <= Len(queue) /\ got < max_size
    BY <1>1, SizePositive DEF RoomKept
  <1>5. s \in Slots /\ Dist(ReadIndex, s) = got
    BY <1>1, <1>4, NewIndexDist
  <1> HIDE DEF o, s
  <1>6. Dist(ReadIndex, o) = Len(queue) - Dist(o, WriteIndex)
    BY <1>1, <1>4, DistAdd DEF QueuePlaced
  <1>7. Dist(ReadIndex, s) < Dist(ReadIndex, o)
    BY <1>1, <1>4, <1>5, <1>6
  <1>8. Dist(o, s) = max_size - (Dist(ReadIndex, o) - got)
    BY <1>1, <1>5, <1>7, DistAdd
  <1>9. ASSUME s \in dirty PROVE FALSE
    <2>1. Dist(o, s) < Dist(o, WriteIndex) + put
      BY <1>9 DEF Pending, WriteIndex, o
    <2> QED
      BY <1>1, <1>3, <1>6, <1>8, <2>1, SizePositive
  <1> QED
    BY <1>2, <1>9

\* The array has no data race: acquire and release of the indices order each
\* element access after the other thread's last conflicting one, however
\* stale the loads are (ringbuffer.hpp:75-236).
THEOREM AlwaysNoRace == Spec => []NoRace
  <1>1. RingInv => NoRace
    BY ProducerRacesNot, ConsumerRacesNot DEF NoRace, Putting, Getting
  <1> QED
    BY <1>1, RingInvariantHolds, PTL

-----------------------------------------------------------------------------
(* Refinement *)

\* What an operation has copied is a prefix of the queue, unless it is
\* dequeue(it) with an iterator whose copies each have their own position.
LEMMA CopiedIsPrefix ==
    ASSUME RingInv, InsertIterator \/ cpc # "copy_all" PROVE DequeuedInOrder
  <1> SUFFICES ASSUME Copied PROVE out = SubSeq(queue, 1, Len(out))
    BY DEF DequeuedInOrder
  <1> USE DEF RingInv, RingTypeOK
  <1> DEFINE q == SubSeq(queue, 1, Len(out))
  <1>1. /\ Len(queue) \in Nat /\ Len(out) \in Nat
        /\ Len(out) <= Len(queue) /\ got = Len(out)
    BY RingFacts, BlockFits DEF Copied
  <1>2. \A k \in 1 .. Len(out) : queue[k] \in Values
    BY <1>1, ElementOfSeq
  <1>3. /\ q \in Seq(Values) /\ Len(q) = Len(out)
        /\ \A k \in 1 .. Len(out) : q[k] = queue[k]
    BY <1>1, <1>2, SubSeqProperties
  <1>4. \A k \in 1 .. Len(out) : out[k] = queue[k]
    BY <1>1 DEF CopiedSoFar, Copied
  <1> HIDE DEF q
  <1>5. /\ out \in Seq(Values \cup {NoVal}) /\ q \in Seq(Values \cup {NoVal})
        /\ Len(out) = Len(q)
        /\ \A k \in 1 .. Len(out) : out[k] = q[k]
    <2>1. q \in Seq(Values \cup {NoVal})
      BY <1>3
    <2> QED
      BY <1>3, <1>4, <2>1
  <1>6. out = q
    BY <1>5, SeqEqual
  <1> QED
    BY <1>6 DEF q

\* An operation that has copied nothing has nothing to hand over.
LEMMA NoneCopied == RingInv /\ got = 0 => AbsOut = <<>>
  <1> SUFFICES ASSUME RingInv, got = 0, Copied PROVE out = <<>>
    BY DEF AbsOut
  <1> QED
    BY EmptySeq DEF Copied, RingInv, RingTypeOK

\* The same of the state after a step.
LEMMA AfterStep ==
    RingInv' => /\ got' = 0 => AbsOut' = <<>>
                /\ InsertIterator => DequeuedInOrder'
                /\ Len(queue') < max_size
  <1>1. RingInv => /\ got = 0 => AbsOut = <<>>
                   /\ InsertIterator => DequeuedInOrder
                   /\ Len(queue) < max_size
    BY NoneCopied, CopiedIsPrefix, RingFacts
  <1>2. (RingInv => /\ got = 0 => AbsOut = <<>>
                    /\ InsertIterator => DequeuedInOrder
                    /\ Len(queue) < max_size)'
    BY <1>1, PTL
  <1> QED
    BY <1>2

\* Every step of the ringbuffer is a step of BoundedQueue or changes nothing
\* in it.
LEMMA RingStepRefines ==
    ASSUME InsertIterator, RingInv, [Next]_vars PROVE [Abs!Next]_(Abs!vars)
  <1> USE DEF RingInv
  <1>1. /\ Len(queue) \in Nat /\ Len(queue) < max_size
        /\ Len(out) \in Nat /\ got \in Nat /\ Len(input) \in Nat
    BY RingFacts
  <1>2. RingInv'
    BY NextRingInv
  <1>3. /\ got' = 0 => AbsOut' = <<>>
        /\ Copied' => out' = SubSeq(queue, 1, Len(out))'
        /\ Len(queue') < max_size
    BY <1>2, AfterStep DEF DequeuedInOrder
  <1>4. ASSUME queue' = queue, AbsOut' = AbsOut PROVE [Abs!Next]_(Abs!vars)
    BY <1>4 DEF Abs!vars
  <1> USE DEF shared, producer, consumer
  <1>5. CASE UNCHANGED vars
    BY <1>4, <1>5 DEF vars, AbsOut, Copied, Getting
  <1>6. CASE Enqueue \/ PutElement \/ \E j \in 1 .. Len(rlog) : EnqueueOne(j) \/ EnqueueMany(j)
    <2>1. UNCHANGED <<queue, consumer>>
      BY <1>6 DEF Enqueue, PutElement, EnqueueOne, EnqueueMany
    <2> QED
      BY <1>4, <2>1 DEF AbsOut, Copied, Getting
  <1>7. CASE \/ Dequeue
             \/ \E j \in 1 .. Len(wlog) : DequeueOne(j) \/ DequeueMany(j) \/ DequeueAll(j)
    <2>1. ~Getting /\ got = 0
      BY <1>7 DEF Dequeue, DequeueOne, DequeueMany, DequeueAll, Getting, RingLocals
    <2>2. queue' = queue /\ got' = 0
      BY <1>7, <2>1 DEF Dequeue, DequeueOne, DequeueMany, DequeueAll, CReturn, Expect
    <2> QED
      BY <1>3, <1>4, <2>1, <2>2 DEF AbsOut, Copied
  <1>8. CASE StoreWrite
    <2>1. UNCHANGED consumer /\ queue' = queue \o input
      BY <1>8 DEF StoreWrite
    <2>2. AbsOut' = AbsOut
      BY <2>1 DEF AbsOut, Copied, Getting
    <2>3. /\ queue' \in Seq(Values) /\ Len(queue') = Len(queue) + Len(input)
          /\ \A k \in 1 .. Len(queue) : queue'[k] = queue[k] /\ queue'[k] \in Values
      <3>1. queue \in Seq(Values) /\ input \in Seq(Values)
        BY DEF RingTypeOK
      <3>2. /\ queue' \in Seq(Values) /\ Len(queue') = Len(queue) + Len(input)
            /\ \A k \in 1 .. Len(queue) + Len(input) :
                    queue'[k] = IF k <= Len(queue) THEN queue[k] ELSE input[k - Len(queue)]
        BY <2>1, <3>1, ConcatProperties
      <3>3. \A k \in 1 .. Len(queue) : queue[k] \in Values
        BY <1>1, <3>1, ElementOfSeq
      <3> QED
        BY <1>1, <3>2, <3>3
    <2>4. SubSeq(queue', 1, Len(queue)) = queue
      <3> DEFINE q == SubSeq(queue', 1, Len(queue))
      <3>1. /\ q \in Seq(Values) /\ Len(q) = Len(queue)
            /\ \A k \in 1 .. Len(queue) : q[k] = queue'[k]
        BY <1>1, <2>3, SubSeqProperties
      <3> HIDE DEF q
      <3>2. q = queue
        BY <2>3, <3>1, SeqEqual DEF RingTypeOK
      <3> QED
        BY <3>2 DEF q
    <2>5. Len(queue') \in Len(queue) .. max_size - 1
      BY <1>1, <1>3, <2>3, SizePositive
    <2>6. Abs!Publish
      BY <2>2, <2>3, <2>4, <2>5 DEF Abs!Publish
    <2> QED
      BY <2>6 DEF Abs!Next
  <1>9. CASE GetElement
    <2>1. /\ Getting /\ got < Len(out) /\ Len(out) <= Len(queue)
      BY <1>9, BlockFits DEF GetElement, Getting
    <2>2. /\ queue' = queue /\ Getting' /\ got' = got + 1
      BY <1>9 DEF GetElement, Getting
    <2>3. AbsOut = <<>>
      BY <1>1, <2>1 DEF AbsOut, Copied
    <2>4. CASE ~Copied'
      BY <1>4, <2>2, <2>3, <2>4 DEF AbsOut
    <2>5. CASE Copied'
      <3>1. AbsOut' = SubSeq(queue, 1, got + 1)
        <4>1. Len(out') = got + 1
          BY <2>2, <2>5 DEF Copied
        <4> QED
          BY <1>3, <2>2, <2>5, <4>1 DEF AbsOut
      <3>2. got + 1 \in 1 .. Len(queue)
        BY <1>1, <2>1
      <3>3. Abs!Copy
        BY <2>2, <2>3, <3>1, <3>2 DEF Abs!Copy
      <3> QED
        BY <3>3 DEF Abs!Next
    <2> QED
      BY <2>4, <2>5
  <1>10. CASE StoreRead
    <2>1. /\ Copied /\ AbsOut = out
      BY <1>10 DEF StoreRead, Copied, Getting, AbsOut
    <2>2. /\ queue' = SubSeq(queue, Len(out) + 1, Len(queue))
          /\ AbsOut' = <<>>
      BY <1>3, <1>10 DEF StoreRead, CReturn
    <2>3. CASE out = <<>>
      <3> DEFINE q == SubSeq(queue, 1, Len(queue))
      <3>1. queue' = q
        BY <2>2, <2>3
      <3>2. \A k \in 1 .. Len(queue) : queue[k] \in Values
        BY <1>1, ElementOfSeq DEF RingTypeOK
      <3>3. /\ q \in Seq(Values) /\ Len(q) = Len(queue)
            /\ \A k \in 1 .. Len(queue) : q[k] = queue[k]
        BY <1>1, <3>2, SubSeqProperties
      <3> HIDE DEF q
      <3>4. q = queue
        BY <3>3, SeqEqual DEF RingTypeOK
      <3> QED
        BY <1>4, <2>1, <2>2, <2>3, <3>1, <3>4
    <2>4. CASE out # <<>>
      <3>1. Abs!Drop
        BY <2>1, <2>2, <2>4 DEF Abs!Drop
      <3> QED
        BY <3>1 DEF Abs!Next
    <2> QED
      BY <2>3, <2>4
  <1>11. CASE Reset
    <2>1. AbsOut = <<>> /\ AbsOut' = <<>> /\ queue' = <<>>
      BY <1>11 DEF Reset, AbsOut, Copied, Getting
    <2>2. Abs!Reset
      BY <2>1 DEF Abs!Reset
    <2> QED
      BY <2>2 DEF Abs!Next
  <1> QED
    BY <1>5, <1>6, <1>7, <1>8, <1>9, <1>10, <1>11 DEF Next, ProducerStep, ConsumerStep

\* The ringbuffer implements a bounded first-in first-out queue whose values
\* leave it in the order in which they were published, as long as the
\* iterator given to dequeue(it) shares its position with its copies
\* (ringbuffer.hpp:75-236).
THEOREM RingImplementsQueue ==
    ASSUME InsertIterator PROVE Spec => RingIsQueue
  <1>1. Init => Abs!Init
    BY DEF Init, Abs!Init, AbsOut, Copied, Getting
  <1>2. RingInv /\ [Next]_vars => [Abs!Next]_(Abs!vars)
    BY RingStepRefines
  <1> QED
    BY <1>1, <1>2, RingInvariantHolds, PTL DEF Spec, RingIsQueue, Abs!Spec

\* With such an iterator every block is handed over in the order in which it
\* was enqueued, also one that wraps; dequeue(it) gives its second copy the
\* iterator that it gave the first (ringbuffer.hpp:223-224).
THEOREM AlwaysDequeuedInOrder ==
    ASSUME InsertIterator PROVE Spec => []DequeuedInOrder
  <1>1. RingInv => DequeuedInOrder
    BY CopiedIsPrefix
  <1> QED
    BY <1>1, RingInvariantHolds, PTL

-----------------------------------------------------------------------------
(* Wait-freedom *)

\* Each step of an operation brings it closer to its end: an enqueue ends
\* after at most two steps more than it has values, a dequeue after at most
\* max_size + 2, whatever the other thread does (ringbuffer.hpp:75-236).
THEOREM AlwaysStepsBounded == Spec => StepsBounded
  <1>1. ASSUME RingInv, ProducerStep PROVE ProducerWork' < ProducerWork
    <2> USE DEF RingInv
    <2>1. Len(input) \in Nat /\ put \in Nat /\ put <= Len(input)
      BY <1>1, RingFacts DEF RingTypeOK
    <2>2. ASSUME NEW j \in 1 .. Len(rlog), EnqueueOne(j) \/ EnqueueMany(j)
          PROVE  ProducerWork' < ProducerWork
      <3>1. ProducerWork = Len(input) + 2 /\ put = 0
        BY <1>1, <2>2 DEF ProducerWork, EnqueueOne, EnqueueMany, RingLocals, Putting
      <3>2. CASE PReturn
        BY <2>1, <3>1, <3>2 DEF ProducerWork, PReturn
      <3>3. CASE ~PReturn
        <4>1. ppc' \in {"copy_one", "copy_many"} /\ put' = 0
          BY <2>2, <3>1, <3>3 DEF EnqueueOne, EnqueueMany
        <4>2. Len(input') \in Nat /\ Len(input') <= Len(input)
          <5> DEFINE avail == write_available(WriteIndex, rlog[j].idx)
          <5>1. CASE input' = input
            BY <2>1, <5>1
          <5>2. CASE input' # input
            <6>1. input' = SubSeq(input, 1, avail) /\ ~(Len(input) <= avail) /\ avail # 0
              BY <2>2, <3>3, <5>2 DEF EnqueueOne, EnqueueMany
            <6>2. avail \in Nat
              <7>1. WriteIndex \in Slots /\ rlog[j].idx \in Slots
                BY <1>1, RingFacts, LogType DEF RingTypeOK
              <7>2. avail = max_size - 1 - Dist(rlog[j].idx, WriteIndex)
                BY <7>1, WriteAvailable
              <7> QED
                BY <7>1, <7>2, DistRange, SizePositive
            <6>3. \A k \in 1 .. avail : input[k] \in Values
              BY <1>1, <2>1, <6>1, <6>2, ElementOfSeq DEF RingTypeOK
            <6> HIDE DEF avail
            <6>4. Len(input') = avail
              BY <6>1, <6>2, <6>3, SubSeqProperties
            <6> QED
              BY <2>1, <6>1, <6>2, <6>4
          <5> QED
            BY <5>1, <5>2
        <4>3. ProducerWork' = Len(input') - put' + 1
          BY <4>1 DEF ProducerWork
        <4> QED
          BY <2>1, <3>1, <4>1, <4>2, <4>3
      <3> QED
        BY <3>2, <3>3
    <2>3. CASE PutElement
      BY <2>1, <2>3 DEF PutElement, ProducerWork
    <2>4. CASE StoreWrite
      <3>1. ProducerWork = Len(input) - put + 1
        BY <2>4 DEF StoreWrite, ProducerWork
      <3>2. ProducerWork' = 0
        BY <2>4 DEF StoreWrite, PReturn, ProducerWork
      <3> QED
        BY <2>1, <3>1, <3>2
    <2> QED
      BY <1>1, <2>2, <2>3, <2>4 DEF ProducerStep
  <1>2. ASSUME RingInv, ConsumerStep PROVE ConsumerWork' < ConsumerWork
    <2> USE DEF RingInv
    <2>1. Len(out) \in Nat /\ got \in Nat /\ got <= Len(out)
      BY <1>2, RingFacts DEF RingTypeOK
    <2>2. ASSUME NEW j \in 1 .. Len(wlog), DequeueOne(j) \/ DequeueMany(j) \/ DequeueAll(j)
          PROVE  ConsumerWork' < ConsumerWork
      <3>1. ConsumerWork = max_size + 2 /\ got = 0
        BY <1>2, <2>2 DEF ConsumerWork, DequeueOne, DequeueMany, DequeueAll, RingLocals, Getting
      <3>2. CASE CReturn
        BY <3>1, <3>2, SizePositive DEF ConsumerWork, CReturn
      <3>3. CASE ~CReturn
        <4> DEFINE avail == read_available(wlog[j].idx, ReadIndex)
        <4>1. avail \in Nat /\ avail < max_size
          <5>1. ReadIndex \in Slots /\ wlog[j].idx \in Slots
            BY <1>2, RingFacts, LogType DEF RingTypeOK
          <5> QED
            BY <5>1, ReadAvailable, DistRange
        <4>2. PICK n \in {1, avail, IF want <= avail THEN want ELSE avail} :
                /\ cpc' \in {"copy_one", "copy_many", "copy_all"}
                /\ out' = [k \in 1 .. n |-> NoVal]
                /\ got' = 0
          BY <2>2, <3>1, <3>3 DEF DequeueOne, DequeueMany, DequeueAll, Expect
        <4>3. n \in Nat /\ n <= max_size
          BY <1>2, <4>1, <4>2, SizePositive, BulkAssumption DEF RingTypeOK
        <4>4. Len(out') = n
          BY <4>2, <4>3
        <4>5. ConsumerWork' = Len(out') - got' + 1
          BY <4>2 DEF ConsumerWork
        <4> QED
          BY <3>1, <4>2, <4>3, <4>4, <4>5, SizePositive
      <3> QED
        BY <3>2, <3>3
    <2>3. CASE GetElement
      <3>1. Len(out') = Len(out)
        BY <2>3 DEF GetElement, RingTypeOK
      <3> QED
        BY <2>1, <2>3, <3>1 DEF GetElement, ConsumerWork
    <2>4. CASE StoreRead
      <3>1. ConsumerWork = Len(out) - got + 1
        BY <2>4 DEF StoreRead, ConsumerWork
      <3>2. ConsumerWork' = 0
        BY <2>4 DEF StoreRead, CReturn, ConsumerWork
      <3> QED
        BY <2>1, <3>1, <3>2
    <2> QED
      BY <1>2, <2>2, <2>3, <2>4 DEF ConsumerStep
  <1> QED
    BY <1>1, <1>2, RingInvariantHolds, PTL DEF StepsBounded
=============================================================================
