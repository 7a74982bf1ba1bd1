----------------------------- MODULE RingBuffer -----------------------------
(***************************************************************************)
(* boost::lockfree::detail::ringbuffer_base: the wait-free queue of one    *)
(* producer and one consumer, and the two class templates ringbuffer over  *)
(* it, which pass their array and its size on to it.                       *)
(*                                                                         *)
(* The two threads synchronise only through the release stores and acquire *)
(* loads of write_index_ and read_index_, so those are modelled as C++     *)
(* gives them: an atomic is the log of the values stored in it, a load by  *)
(* the other thread may return any value not older than the last one it    *)
(* has seen, and only the stores that it has seen happen before what it    *)
(* does next.  Every element is copied in a step of its own.               *)
(***************************************************************************)
EXTENDS Integers, Sequences

CONSTANTS
    max_size,       \* the size of the array
    SizeMod,        \* 2^w where w is the width of std::size_t
    Values,
    NoVal,          \* the contents of a slot or of an output that is unset
    MaxBulk,        \* bound: the longest block that a thread asks for
    InsertIterator  \* dequeue(it): whether the copies of `it' share their
                    \* position (std::back_inserter), or each has its own

\* With an array of size 0 next_index does not terminate; and an index plus
\* a count does not overflow, as two arrays do not fit into memory.
ASSUME SizeAssumption ==
    /\ max_size \in Nat \ {0}
    /\ SizeMod \in Nat
    /\ 2 * max_size <= SizeMod

ASSUME BulkAssumption == MaxBulk \in Nat \ {0}

ASSUME RingNoValAssumption == NoVal \notin Values

ASSUME IteratorAssumption == InsertIterator \in BOOLEAN

VARIABLES
    buf,        \* the array
    wlog,       \* write_index_: its stores, from the last the consumer has seen
    rlog,       \* read_index_: its stores, from the last the producer has seen
    dirty,      \* slots whose last write does not happen before the consumer's
                \* next step
    fetched,    \* slots whose last read does not happen before the producer's
                \* next step
    queue,      \* history: the values published and not yet removed
    ppc,        \* the step the producer is at
    input,      \* the values to enqueue, as many as fit once that is known
    put,        \* how many of them are in the array
    cpc,        \* the step the consumer is at
    want,       \* output_count of dequeue(output_buffer, output_count)
    out,        \* where the consumer copies to
    got         \* how many values it has copied

shared == <<buf, wlog, rlog, dirty, fetched, queue>>
producer == <<ppc, input, put>>
consumer == <<cpc, want, out, got>>
vars == <<shared, producer, consumer>>

Slots == 0 .. max_size - 1

\* An entry of a log: the index stored, and the slots that the storing thread
\* has accessed before it and not since.
Entry == [idx : Slots, rel : SUBSET Slots]

RingTypeOK ==
    /\ buf \in [Slots -> Values \cup {NoVal}]
    /\ wlog \in Seq(Entry) /\ wlog # <<>>
    /\ rlog \in Seq(Entry) /\ rlog # <<>>
    /\ dirty \subseteq Slots /\ fetched \subseteq Slots
    /\ queue \in Seq(Values)
    /\ ppc \in {"idle", "load_one", "load_many", "copy_one", "copy_many"}
    /\ input \in Seq(Values)
    /\ put \in 0 .. Len(input)
    /\ cpc \in {"idle", "load_one", "load_many", "load_all",
                "copy_one", "copy_many", "copy_all"}
    /\ want \in 0 .. MaxBulk
    /\ out \in Seq(Values \cup {NoVal})
    /\ got \in 0 .. Len(out)

Stored(i, rel) == [idx |-> i, rel |-> rel]

Init ==
    /\ buf = [i \in Slots |-> NoVal]
    /\ wlog = <<Stored(0, {})>>
    /\ rlog = <<Stored(0, {})>>
    /\ dirty = {} /\ fetched = {}
    /\ queue = <<>>
    /\ ppc = "idle" /\ input = <<>> /\ put = 0
    /\ cpc = "idle" /\ want = 0 /\ out = <<>> /\ got = 0

-----------------------------------------------------------------------------
(* Index arithmetic *)

\* The value of an expression of type size_t, for x at most one modulus out
\* of range.
SizeT(x) ==
    IF x < 0 THEN x + SizeMod ELSE IF x >= SizeMod THEN x - SizeMod ELSE x

\* Its loop runs at most once, as arg is an index.
next_index(arg) == IF arg + 1 >= max_size THEN arg + 1 - max_size ELSE arg + 1

read_available(w, r) ==
    IF w >= r THEN w - r ELSE SizeT(w + max_size - r)

\* A mutated form of the next definition: no slot is kept free.
write_available_all(w, r) ==
    LET ret == SizeT(r - w) IN IF w >= r THEN SizeT(ret + max_size) ELSE ret

\* The subtraction wraps around if the write index is not below the read
\* index, and the addition wraps it back.
write_available(w, r) ==
    LET ret == SizeT(r - w - 1)
    IN  IF w >= r THEN SizeT(ret + max_size) ELSE ret

\* A block of n elements from index i on is copied in two sections if it
\* passes the end of the array.
TwoSections(i, n) == i + n > max_size

\* Element number k, from 0, is in the second of them.
InSecond(i, n, k) == TwoSections(i, n) /\ k >= max_size - i

\* The slot of element number k.
Slot(i, n, k) == IF InSecond(i, n, k) THEN k - (max_size - i) ELSE i + k

\* A mutated form of the next definition: an index at the end of the array is
\* not set to 0.
NewIndexAtEnd(i, n) == IF TwoSections(i, n) THEN i + n - max_size ELSE i + n

\* The index after the block.
NewIndex(i, n) ==
    IF TwoSections(i, n) THEN i + n - max_size
    ELSE IF i + n = max_size THEN 0 ELSE i + n

-----------------------------------------------------------------------------
(* The atomics *)

\* The thread that stores to an atomic loads the value it stored last.
Newest(log) == log[Len(log)].idx

WriteIndex == Newest(wlog)
ReadIndex == Newest(rlog)

\* What is left of a log for a thread that has loaded entry j of it.
From(log, j) == <<Stored(log[j].idx, {})>> \o SubSeq(log, j + 1, Len(log))

\* A mutated form of the next definition: the order is relaxed.
RelaxedRead(j) == rlog' = From(rlog, j) /\ UNCHANGED fetched

\* read_index_.load(memory_order_acquire) of the producer returns entry j.
AcquireRead(j) ==
    /\ rlog' = From(rlog, j)
    /\ fetched' = fetched \ rlog[j].rel

\* write_index_.load(memory_order_acquire) of the consumer returns entry j.
AcquireWrite(j) ==
    /\ wlog' = From(wlog, j)
    /\ dirty' = dirty \ wlog[j].rel

\* A store.  No load can tell whether the value that is already there was
\* stored again, which a block of length 0 does.
Log(log, e) == IF e.idx = Newest(log) THEN log ELSE Append(log, e)

\* write_index_.store(i, memory_order_release)
ReleaseWrite(i) == wlog' = Log(wlog, Stored(i, dirty))

\* read_index_.store(i, memory_order_release)
ReleaseRead(i) == rlog' = Log(rlog, Stored(i, fetched))

\* What is left of a log when the storing thread accesses slot s: no store in
\* it comes after this access.
Accessed(log, s) ==
    [j \in 1 .. Len(log) |-> Stored(log[j].idx, log[j].rel \ {s})]

-----------------------------------------------------------------------------
(* The producer *)

\* The operation is over: its locals are dead.
PReturn == ppc' = "idle" /\ input' = <<>> /\ put' = 0

\* A block of at most MaxBulk values, or none.
Blocks == UNION {[1 .. n -> Values] : n \in 0 .. MaxBulk}

\* enqueue(t), or enqueue of an array or an iterator range, is called.
Enqueue ==
    /\ ppc = "idle"
    /\ input' \in Blocks
    /\ \/ ppc' = "load_one" /\ Len(input') = 1
       \/ ppc' = "load_many"
    /\ UNCHANGED <<shared, put, consumer>>

\* enqueue(t) loads both indices; it is full if the next index is the read
\* index.
EnqueueOne(j) ==
    /\ ppc = "load_one"
    /\ AcquireRead(j)
    /\ \/ next_index(WriteIndex) = rlog[j].idx /\ PReturn
       \/ /\ next_index(WriteIndex) # rlog[j].idx
          /\ ppc' = "copy_one"
          /\ UNCHANGED <<input, put>>
    /\ UNCHANGED <<buf, wlog, dirty, queue, consumer>>

\* The block enqueue takes as many values as there is room for.
EnqueueMany(j) ==
    /\ ppc = "load_many"
    /\ AcquireRead(j)
    /\ LET avail == write_available(WriteIndex, rlog[j].idx) IN
        \/ avail = 0 /\ PReturn
        \/ /\ avail # 0
           /\ input' = IF Len(input) <= avail THEN input ELSE SubSeq(input, 1, avail)
           /\ ppc' = "copy_many"
           /\ UNCHANGED put
    /\ UNCHANGED <<buf, wlog, dirty, queue, consumer>>

\* buffer[write_index] = t, or the next assignment of std::copy
PutElement ==
    /\ ppc \in {"copy_one", "copy_many"}
    /\ put < Len(input)
    /\ LET s == Slot(WriteIndex, Len(input), put) IN
        /\ buf' = [buf EXCEPT ![s] = input[put + 1]]
        /\ dirty' = dirty \cup {s}
        /\ wlog' = Accessed(wlog, s)
    /\ put' = put + 1
    /\ UNCHANGED <<rlog, fetched, queue, ppc, input, consumer>>

\* The store of write_index_ publishes the values.
StoreWrite ==
    /\ put = Len(input)
    /\ \/ ppc = "copy_one" /\ ReleaseWrite(next_index(WriteIndex))
       \/ ppc = "copy_many" /\ ReleaseWrite(NewIndex(WriteIndex, Len(input)))
    /\ queue' = queue \o input
    /\ PReturn
    /\ UNCHANGED <<buf, rlog, dirty, fetched, consumer>>

-----------------------------------------------------------------------------
(* The consumer *)

CReturn == cpc' = "idle" /\ want' = 0 /\ out' = <<>> /\ got' = 0

\* One of the three forms of dequeue is called.
Dequeue ==
    /\ cpc = "idle"
    /\ \/ cpc' \in {"load_one", "load_all"} /\ want' = 0
       \/ cpc' = "load_many" /\ want' \in 0 .. MaxBulk
    /\ UNCHANGED <<shared, producer, out, got>>

\* The outputs for n values are as yet unset.
Expect(l, n) ==
    /\ cpc' = l
    /\ out' = [k \in 1 .. n |-> NoVal]
    /\ UNCHANGED <<want, got>>

\* dequeue(ret) loads both indices; it is empty if they are equal.
DequeueOne(j) ==
    /\ cpc = "load_one"
    /\ AcquireWrite(j)
    /\ \/ wlog[j].idx = ReadIndex /\ CReturn
       \/ wlog[j].idx # ReadIndex /\ Expect("copy_one", 1)
    /\ UNCHANGED <<buf, rlog, fetched, queue, producer>>

\* A mutated form of the next definition: output_count is not limited.
DequeueManyUnlimited(j) ==
    /\ cpc = "load_many"
    /\ AcquireWrite(j)
    /\ \/ wlog[j].idx = ReadIndex /\ CReturn
       \/ wlog[j].idx # ReadIndex /\ Expect("copy_many", want)
    /\ UNCHANGED <<buf, rlog, fetched, queue, producer>>

\* dequeue(output_buffer, output_count) takes what there is, up to
\* output_count.
DequeueMany(j) ==
    /\ cpc = "load_many"
    /\ AcquireWrite(j)
    /\ LET avail == read_available(wlog[j].idx, ReadIndex) IN
        \/ avail = 0 /\ CReturn
        \/ avail # 0 /\ Expect("copy_many", IF want <= avail THEN want ELSE avail)
    /\ UNCHANGED <<buf, rlog, fetched, queue, producer>>

\* dequeue(it) takes all there is.
DequeueAll(j) ==
    /\ cpc = "load_all"
    /\ AcquireWrite(j)
    /\ LET avail == read_available(wlog[j].idx, ReadIndex) IN
        \/ avail = 0 /\ CReturn
        \/ avail # 0 /\ Expect("copy_all", avail)
    /\ UNCHANGED <<buf, rlog, fetched, queue, producer>>

\* The output that element number k goes to.  dequeue(it) gives both calls of
\* std::copy the iterator `it' itself, so the second section starts over if
\* the iterator's position is its own.
Place(k) ==
    IF cpc = "copy_all" /\ ~InsertIterator /\ InSecond(ReadIndex, Len(out), k)
    THEN k - (max_size - ReadIndex)
    ELSE k

\* A mutated form of the next definition: the copy does not advance.
GetElementStays ==
    /\ cpc \in {"copy_one", "copy_many", "copy_all"}
    /\ got < Len(out)
    /\ fetched' = fetched \cup {Slot(ReadIndex, Len(out), got)}
    /\ UNCHANGED <<buf, wlog, rlog, dirty, queue, consumer, producer>>

\* ret = buffer[read_index], or the next assignment of std::copy
GetElement ==
    /\ cpc \in {"copy_one", "copy_many", "copy_all"}
    /\ got < Len(out)
    /\ LET s == Slot(ReadIndex, Len(out), got) IN
        /\ out' = [out EXCEPT ![Place(got) + 1] = buf[s]]
        /\ fetched' = fetched \cup {s}
        /\ rlog' = Accessed(rlog, s)
    /\ got' = got + 1
    /\ UNCHANGED <<buf, wlog, dirty, queue, cpc, want, producer>>

\* The store of read_index_ gives the slots back to the producer.
StoreRead ==
    /\ got = Len(out)
    /\ \/ cpc = "copy_one" /\ ReleaseRead(next_index(ReadIndex))
       \/ cpc \in {"copy_many", "copy_all"} /\ ReleaseRead(NewIndex(ReadIndex, Len(out)))
    /\ queue' = SubSeq(queue, Len(out) + 1, Len(queue))
    /\ CReturn
    /\ UNCHANGED <<buf, wlog, dirty, fetched, producer>>

\* reset() is not thread-safe: its caller has synchronised with both threads.
Reset ==
    /\ ppc = "idle" /\ cpc = "idle"
    /\ wlog' = <<Stored(0, {})>>
    /\ rlog' = <<Stored(0, {})>>
    /\ dirty' = {} /\ fetched' = {}
    /\ queue' = <<>>
    /\ UNCHANGED <<buf, producer, consumer>>

-----------------------------------------------------------------------------
\* One step of an operation that the producer, the consumer has begun.
ProducerStep ==
    \/ \E j \in 1 .. Len(rlog) : EnqueueOne(j) \/ EnqueueMany(j)
    \/ PutElement \/ StoreWrite

ConsumerStep ==
    \/ \E j \in 1 .. Len(wlog) : DequeueOne(j) \/ DequeueMany(j) \/ DequeueAll(j)
    \/ GetElement \/ StoreRead

Next == Enqueue \/ ProducerStep \/ Dequeue \/ ConsumerStep \/ Reset

Spec == Init /\ [][Next]_vars

-----------------------------------------------------------------------------
(* Properties *)

\* The slots from the read index on hold the published values in order, and
\* their number is what the two indices say: also when a block has passed the
\* end of the array, and when an index was computed from a stale load of the
\* other one (ringbuffer.hpp:58-73 and 90-236).
QueueInBuffer ==
    /\ Len(queue) = read_available(WriteIndex, ReadIndex)
    /\ Len(queue) < max_size
    /\ \A k \in 1 .. Len(queue) : queue[k] = buf[Slot(ReadIndex, Len(queue), k - 1)]

\* Each element access happens after the last conflicting one of the other
\* thread: the orders acquire and release of the indices suffice, and there
\* is no data race on the array (ringbuffer.hpp:80-85, 163-170).
NoRace ==
    /\ ppc \in {"copy_one", "copy_many"} /\ put < Len(input)
            => Slot(WriteIndex, Len(input), put) \notin fetched
    /\ cpc \in {"copy_one", "copy_many", "copy_all"} /\ got < Len(out)
            => Slot(ReadIndex, Len(out), got) \notin dirty

\* How many steps lead from index a to index b.
Dist(a, b) == IF b >= a THEN b - a ELSE b + max_size - a

Putting == ppc \in {"copy_one", "copy_many"}
Getting == cpc \in {"copy_one", "copy_many", "copy_all"}

\* The oldest value of an atomic that the other thread may still load.
Oldest(log) == log[1].idx

\* An index never overtakes itself: of two stores that can be loaded, the
\* older one is not closer to the newest.
LogOrdered(log) ==
    \A i, j \in 1 .. Len(log) :
        i <= j => Dist(log[j].idx, Newest(log)) <= Dist(log[i].idx, Newest(log))

\* The slots in d are those that a thread, n slots ahead of the index it
\* stores, may have accessed since the other thread's last load; a load of a
\* later store than that makes every access before it visible.
Pending(log, d, n) ==
    \A s \in d :
        /\ Dist(Oldest(log), s) < Dist(Oldest(log), Newest(log)) + n
        /\ \A j \in 1 .. Len(log) :
            Dist(Oldest(log), s) < Dist(Oldest(log), log[j].idx) => s \in log[j].rel

\* The published values fill the slots from the read index to the write index.
QueuePlaced ==
    /\ Len(queue) = Dist(ReadIndex, WriteIndex)
    /\ \A k \in 1 .. Len(queue) : queue[k] = buf[NewIndex(ReadIndex, k - 1)]

\* The values that the producer has in the array do not reach what the
\* consumer had not given back at the producer's last load, and the consumer
\* reads only what was published at its own last load.
RoomKept ==
    /\ Dist(Oldest(rlog), ReadIndex) + Len(queue)
            + (IF Putting THEN Len(input) ELSE 0) < max_size
    /\ Dist(Oldest(wlog), WriteIndex) + (IF Getting THEN Len(out) ELSE 0) <= Len(queue)

\* What a block operation has copied so far.
CopiedSoFar ==
    /\ Putting => \A k \in 1 .. put : input[k] = buf[NewIndex(WriteIndex, k - 1)]
    /\ Getting /\ (InsertIterator \/ cpc # "copy_all")
            => \A k \in 1 .. got : out[k] = queue[k]

\* The locals of an operation that has not loaded the indices, and of the
\* operations on one value.
RingLocals ==
    /\ ~Putting => put = 0
    /\ ppc \in {"load_one", "copy_one"} => Len(input) = 1
    /\ ~Getting => out = <<>> /\ got = 0
    /\ cpc = "copy_one" => Len(out) = 1

\* The inductive invariant.
RingInv ==
    /\ RingTypeOK
    /\ RingLocals
    /\ QueuePlaced
    /\ LogOrdered(rlog) /\ LogOrdered(wlog)
    /\ RoomKept
    /\ CopiedSoFar
    /\ Pending(rlog, fetched, got)
    /\ Pending(wlog, dirty, put)

\* The consumer has made its last copy.
Copied == Getting /\ got = Len(out)

\* What dequeue hands over is the oldest values in the order in which they
\* were enqueued (ringbuffer.hpp:161-236).
DequeuedInOrder == Copied => out = SubSeq(queue, 1, Len(out))

\* The values copied, once all of them are.
AbsOut == IF Copied THEN out ELSE <<>>

Abs == INSTANCE BoundedQueue WITH Capacity <- max_size - 1, out <- AbsOut

\* The ringbuffer implements a bounded FIFO queue.
RingIsQueue == Abs!Spec

\* How many steps an operation of the producer, of the consumer has left at
\* most.
ProducerWork ==
    CASE ppc = "idle" -> 0
      [] ppc \in {"load_one", "load_many"} -> Len(input) + 2
      [] OTHER -> Len(input) - put + 1

ConsumerWork ==
    CASE cpc = "idle" -> 0
      [] cpc \in {"load_one", "load_many", "load_all"} -> max_size + 2
      [] OTHER -> Len(out) - got + 1

\* Each step of an operation brings it closer to its end, whatever the indices
\* are that it has loaded (ringbuffer.hpp:75-236).
StepsBounded ==
    [][/\ ProducerStep => ProducerWork' < ProducerWork
       /\ ConsumerStep => ConsumerWork' < ConsumerWork]_vars

\* Wait-freedom: whatever the other thread does, and even if it stops, a thread
\* that is inside an operation can take its next step, and each of its steps
\* brings it closer to the end, which is at most max_size + 2 steps away for
\* the consumer (ringbuffer.hpp:75-236).
WaitFree ==
    /\ [](ppc # "idle" => ENABLED ProducerStep)
    /\ [](cpc # "idle" => ENABLED ConsumerStep)
    /\ StepsBounded
=============================================================================
