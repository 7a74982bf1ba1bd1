# A verification of boost.lockfree and boost.atomic in TLA+

The repository holds two C++ header libraries: *boost.lockfree* (a node pool,
a stack, a queue and a single-producer single-consumer ring buffer) and the
prototype of *boost.atomic* on which they rest. This directory holds TLA+
modules that model them, TLC configurations that check the models on small
instances, and TLAPS proofs for every size.

    tlc -workers 2 -config MCStack.cfg MCStack      # a run of PROJECT.json
    tlapm StackProofs.tla                           # the proofs of a module

The modules with proofs are `ChainTheorems` and the `*Proofs` modules.

`PROJECT.json` lists the components, the runs, the lines of code each
definition stands for, the hazards that the properties are for, a mutant for
each property, and the theorems.

## Inventory

| part | state | operations | what is hard | what makes it correct |
|---|---|---|---|---|
| `tagged_ptr` | a pointer and a tag in one atomic word | `get_ptr`, `get_tag`, `set_ptr`, compare | the tag has finite width | two different states of a pointer differ in the pointer or the tag |
| `freelist_stack` | `pool_`, links inside the free nodes | `allocate`, `deallocate`, `reserve`, the `_unsafe` forms, destructor | reads memory that others own (ABA); the pool may grow or refuse | a node has one owner; the list stays intact |
| `stack` | `tos`, links inside its nodes, its pool | `push`, `pop`, `reserve`, `_unsafe` forms, destructor | nodes circulate between two lists that use the same link word | linearisable, lock-free, leaks nothing |
| `fifo` | `head_`, `tail_`, node links with tags, its pool | `enqueue`, `dequeue`, `reserve`, `_unsafe` forms, constructor, destructor | `tail_` lags and any thread helps; values are read before they are owned; "empty" is decided from three loads | linearisable, lock-free, leaks nothing |
| `fifo<T*>` | the objects its pointers point to | `dequeue` to a raw pointer, `auto_ptr`, `scoped_ptr`, `shared_ptr` | the data is read before it is known who gets it | an object has one owner and is deleted once |
| `ringbuffer` | an array, `write_index_`, `read_index_` | single, block and iterator `enqueue` and `dequeue`, `reset` | index wrap, unsigned arithmetic, release/acquire only | a bounded FIFO queue, race-free, wait-free |
| `builder.hpp` | a machine word with several small objects | `load`, `store`, `compare_exchange`, `exchange`, `fetch_*` | neighbours in the word; weak failures | each operation is atomic; lock-free |
| `fallback_atomic` | an object, a pool of spinlocks | the same | objects are copied byte by byte; two objects may share a lock | each operation is atomic; operations end |
| platform files | a machine word, or a wider object | the same, in assembly, and `atomic_thread_fence` | fences differ by processor and `memory_order`; objects wider than a register | each operation is atomic; release/acquire, consume and seq_cst mean what the documentation says |
| `atomic<T>`, integral casts | none | forwarding | | |

Interaction. `stack` and `fifo` call their pool inside their own operations,
and both write to the *same word* of a node: the first word of a free node is
the pool's link, that of a node in use is the container's. All of them
synchronise by compare-and-exchange on tagged pointers. The ring buffer uses
only loads and stores of its two indices. All of it stands on `atomic<T>`,
which for small types stands on `builder.hpp`.

## Modules

| module | models | state and actions |
|---|---|---|
| `TaggedPtr` | `tagged_ptr_*.hpp` | pointer/tag records; tags are numbers modulo `TagMod` |
| `PtrCompression` | `tagged_ptr_ptrcompression.hpp` | no state: pointer and tag packed into one number, the tag above the pointer |
| `CompressedPool` | `freelist.hpp` on x86-64 | EXTENDS `Freelist` and `PtrCompression`: the word of each tagged pointer |
| `Chain` | - | `IsChain(p, next, s)`: following `next` from `p` visits exactly the sequence `s` of distinct nodes and ends in `NULL` |
| `Freelist` | `detail/freelist.hpp` | `pool`, `next`, the locals `old_pool` and `new_pool_ptr` of each thread; one action for each atomic access or access to a link; the `_unsafe` operations when no other operation runs; the destructor one node at a time |
| `NodePool` | - | the abstract pool: sets of spare, used and unallocated nodes |
| `Stack` | `stack.hpp` | EXTENDS `Freelist`: a call of the pool runs the pool's own actions while the stack waits at `p_pool`, `o_pool`, `r_pool`; `next` is shared; `push`, `pop` and `~stack` use `PutWord`, `GiveBack` and `BeginDestroy`, which test nothing |
| `AtomicStack` | - | the abstract stack: an operation takes effect between call and return |
| `Fifo` | `fifo.hpp` | EXTENDS `Freelist` likewise; `ntag` is the tag half of a node's `next`, which the pool leaves alone |
| `FifoPtr` | `fifo<T*>` in `fifo.hpp` | EXTENDS `Fifo`: the objects on the heap, the local `result` and the smart pointer of each thread; the queue's own steps are those of `Fifo` |
| `AtomicQueue` | - | the abstract queue; `seen[t]` says that the queue was empty at some moment since `t` called `dequeue` |
| `RingBuffer` | `ringbuffer.hpp` | the array, one log of stores per index, and which slots one thread has accessed without the other being synchronised with it; a store publishes the accesses before it, until the slot is accessed again (`Accessed`); a copy is one step per element |
| `BoundedQueue` | - | the abstract bounded queue |
| `AtomicBuilder` | `builder.hpp`, with the two ways in which the platforms fail | the word, and the locals of each thread; the operators `&`, `\|` and `^` of C++ are constants, of which only the range is assumed |
| `AtomicClasses` | `gcc-*.hpp`, `linux-arm.hpp`, `interlocked.hpp`, `generic-cas.hpp`, `fallback.hpp` | EXTENDS `AtomicBuilder`: eight kinds of class for an atomic object, chosen in the initial state; reads and writes in one move or in parts; the spinlock of the fallback |
| `AtomicCells` | - | atomic objects: an operation takes effect between call and return |
| `Platforms` | the headers that `platform.hpp` chooses from | no state: for each header, operation and `memory_order`, the access and the fences before and after it |
| `Litmus` | the patterns that rely on the orders, in `ringbuffer.hpp`, `freelist.hpp`, `stack.hpp` and the documented examples | two threads whose accesses are executed in any order that the fences, the dependencies and the processor allow |
| `ChainTheorems` | | lemmas about `IsChain` and about sequences |
| `FreelistProofs`, `StackProofs`, `FifoProofs`, `FifoPtrProofs`, `RingBufferProofs` | | the proofs about the modules of these names |
| `PtrCompressionProofs` | | the proofs about `PtrCompression` and `CompressedPool` |
| `AtomicClassesProofs` | | the proofs about `AtomicBuilder` and `AtomicClasses` |
| `MC*` | | symmetry sets for TLC; `MCAtomicClasses` also has the operators on bits of the community modules |

`free`, `stk`, `que`, `queue` and `seen` are history variables: no guard reads
them. `os` and `used` say who owns a node. Guards read them in two places only:
the allocator gives out nodes of `os`, and the users of the freelist on its
own keep to what they own (`Write`, `Destruct`, `DestructUnsafe`, `Destroy`).
What these do to the pool is apart from when they may do it (`PutWord`,
`GiveBack`, `GiveBackUnsafe`, `BeginDestroy`), and `Stack` and `Fifo` use the
former without the latter, as the code does: `dequeue` gives back a node
because its exchange has succeeded, and tests nothing else. That they are
lawful users all the same is a property, `LawfulUser`: each behaviour of the
stack and of the fifo is one of `Freelist` and its users.

When a push or an enqueue may be refused. `AtomicStack` and `AtomicQueue` let
one fail at any time, as they know nothing of nodes. The condition comes from
the pool: the steps `PushFail` and `EnqFail` contain the pool's `AllocFail`,
and by `LawfulUser` and `FreelistIsPool` the pool inside the stack and the fifo
implements `NodePool` (theorems `StackPoolIsPool` and `FifoPoolIsPool`), where
`allocate` returns no node only if the pool was empty at some moment during the
call and, when it may grow, the allocator had nothing left.

Two levels of atomicity. In `Freelist`, `Stack`, `Fifo` and `AtomicBuilder`
each atomic operation is one step on one shared memory, that is, sequentially
consistent. Every `compare_exchange` of these components does ask for the
order `seq_cst`; the loads before it ask for `relaxed`, `consume` or
`acquire`, and that they see the newest value is an abstraction of these
models. A stale value makes the exchange that follows fail and be tried again;
where no exchange follows, in the answer "empty", the models say nothing about
a machine that is not sequentially consistent.
`RingBuffer` has no compare-and-exchange, so there the orders matter and are
modelled as C++ defines them: a load may return any store not older than the
last one seen, an acquire load of a release store makes what came before the
store visible, and an element access that is not ordered after the other
thread's last conflicting access is a data race (`NoRace`). A store of the
value that an index has already (a block of length 0) is not a new entry of
its log: nobody can tell it from the store before.

The classes of atomic objects. Which header a processor gets matters to a
caller in a few ways only, and these are the sets of `AtomicClasses`: whether
a store is a plain store, an exchange, or one or the other by its order;
whether `exchange` and `fetch_add` are one instruction or a loop of
compare_exchange; whether `load` confirms what it has read by exchanging it
for itself; whether a compare_exchange may fail for no reason; whether a
failure is reported from a second load; and whether the object is moved in
parts. The 64-bit class on a 32-bit processor is the one that the tagged
pointers of the library use there (`tagged_ptr_dcas.hpp`); the fallback is
used where a tagged pointer has 16 bytes and nothing can exchange it at once.
`compare_exchange_weak` here is the function of the class. The front end
(`base.hpp:78-100`) calls the strong form for both.

The objects of `FifoPtr`. A thread creates an object, enqueues the pointer and
forgets it; whoever dequeues it deletes it at once (raw pointer) or leaves
that to its smart pointer. An object's address may be used again once the
object is deleted. Closing the queue and the unsafe operations are inherited
unchanged and are left to `Fifo`.

The machine of `Litmus`. The processor is not part of the repository and is
marked external. A thread executes its accesses in any order, except that
accesses to one location stay in order, a fence keeps apart what it is meant
to, a write waits for the condition it depends on, a read through a pointer
waits for the load of the pointer (not on alpha), and x86 lets only a load
overtake an earlier store. `isync` holds back what follows it until the atomic
loads before it are done, which is what the branch after each of them is for.
An executed write is seen by everybody at once. Left out are forwarding from
a store buffer and writes that reach processors at different times: they would
allow more on some machines, and the patterns have only two threads.
`interlocked.hpp` is taken to run on x86. The kernel's `cmpxchg` on ARM and
the compiler's `__sync` functions are full fences, as their documentation has
it. A read-modify-write operation is one access.

The tag window. A tag of finite width protects only if a suspended thread does
not sleep through all its values. `TagFresh`, `TosFresh` and `FifoFresh` say
this: a step does not bring a tag back to the value that a thread inside a
loop holds. It is an assumption on the scheduler (2^16 or 2^64 removals in the
code), a conjunct of the next-state relations, and nothing else about tags is
assumed: in the runs they have two or three values and wrap all the time.
Neither does it hide a deadlock: the runs check that some step is always
possible.

## Runs

| run | instance | shows |
|---|---|---|
| `freelist` | 2 threads, 3 nodes, 3 tags, growing pool, spurious failures, arbitrary contents of used nodes; addresses of 2 bits | the list stays intact, one owner per node, the destructor frees each node once, the packed words behave as the pairs (`PoolPacked`), and the implementation of `NodePool` |
| `stack` | 2 threads, 3 nodes, 3 tags, 2 values, growing pool | `StackLinearisable` (implementation of `AtomicStack`), `StackIntact`, `StackOwnsUsed`, `ClosedEmpty`, `LawfulUser` (the stack keeps the obligations of a user of its pool) |
| `stack_live` | 2 threads, 2 nodes, fixed-size pool | `StackLockFree` |
| `fifo` | 2 threads, 3 nodes, 3 tags, 2 values, fixed-size pool | `FifoLinearisable` (implementation of `AtomicQueue`), `QueueIntact`, `QueueOwnsUsed`, `NullNotObserved`, `ClosedEmpty`, `LawfulUser` |
| `fifo_pointers` | 2 threads, 2 nodes, 2 tags, 2 objects, fixed-size pool | `ObjectOwnedOnce` for raw pointers, `auto_ptr` and `shared_ptr`; `FifoLockFree` |
| `fifo_scoped_ptr` | the same, `scoped_ptr`, growing pool | a violation of `NoSharedObject`, see Findings |
| `ring` | 4 slots, blocks of 0 to 3, 2 values | `RingIsQueue` (implementation of `BoundedQueue`), `QueueInBuffer`, `NoRace`, `WaitFree` |
| `ring_iterator` | 3 slots | a violation of `DequeuedInOrder`, see Findings |
| `atomics` | 2 threads, 2 one-bit objects in a word, big endian, or one object of two parts; all classes and operations but the broken ones | `ObjectsAtomic` (implementation of `AtomicCells`), `OperationsEnd` |
| `atomics_128` | the 128-bit class | a violation of `ObjectsAtomic`, see Findings |
| `fences` | all seven headers, six patterns | `Published` and `HandedBack` (release and acquire, in both directions of the ring buffer), `ConsumeOrderedByDependency`, `Excluded` (the documented spinlock), `LastUse` (the documented reference counter), `TotalOrderByExchange` |
| `fences_seq_cst` | ppc, alpha, armv6+, linux-arm | a violation of `TotalOrder`, see Findings |

Why the bounds are enough. ABA needs one node that is taken and comes back
while another stands in the list in its place: two threads and three nodes
(the victim suspended, the other running three operations); leaving out one
tag increment is found at once, see Mutants. The queue needs the dummy node, a
linked node and one to reuse. Four slots with blocks of three give every
position of a block relative to the end of the array, a full and an empty
array included, and `SizeMod` is twice `max_size`, the least that the code
needs, so that every unsigned wrap happens. One-bit objects suffice for
`builder.hpp`, whose arithmetic is the only place where the width counts;
neighbours are disturbed with one as with three. An object of two parts is
the least that can be torn, and two operands besides the initial values give
every mixture of their parts. On a whole word `fetch_and` and `fetch_or` take
the steps of `fetch_xor`, and `fetch_sub` those of `fetch_add` (`Doubles` of
`MCAtomicClasses`), so the run has one of each. Two nodes are enough for
`fifo_pointers`, as one is the dummy and the other goes round, and the two
threads meet at it. Threads, nodes and values are
interchangeable and are declared symmetric where no liveness is checked.

The patterns of `Litmus` end, so their runs do not check for deadlock. Nothing
is bounded there: each pattern is a fixed program.

Fairness. Lock-freedom is checked under a weak assumption: some thread that
is inside an operation takes a step, but the scheduler may starve any one of
them (`WF` of `\E t : Step(t)`). The property is that operations complete
infinitely often unless from some time on none is pending. No
fairness is assumed for calls: users may stop. `WaitFree` needs no fairness
at all: it says that inside an operation of the ring buffer the thread always
has a step, whatever the other has done, and that each step of it makes a
count of the work that is left smaller, so that an operation ends after a
bounded number of its own steps.
`OperationsEnd` assumes more, for the sake of the fallback (`FairSpec` of
`AtomicClasses`): whoever holds a spinlock for another object gives it back
(weak fairness of `OtherReleases`; the sections under the lock have no loops
other than copies), and a thread that spins for a lock which is free again and
again gets it some time (strong fairness of `\E t : Step(t)`). The spinlock
itself belongs to another library and promises no more than that in practice.
For the classes without a lock this is the same as weak fairness, as a thread
inside an operation can always take a step.
Weak compare-and-exchange fails without a reason in the runs `freelist`
(`SpuriousFail`) and `atomics` (`Spurious`: `WordCasSpurious` for an object that
is a word, `CasSpurious` for one inside a word; in the loop of `store` such a
failure changes nothing and is a stuttering step). There is no fairness for
that action, and it is not a step that counts as progress; but on a machine on
which nothing else happened no loop would end. For an object that is a word the
strong fairness above excludes this, since there a failure goes straight back
to the exchange. Inside a word each round also loads the word again, which is a
step, so the store-conditional has a condition of its own (strong fairness of
`ObjectCas`): without it `OperationsEnd` fails. In the other liveness runs
spurious failures do not happen. `AtomicBuilder` allows them on every
processor, also where the exchange of the word is a strong one.

Mutants. Each property has a mutated form of a mapped definition, next to it
in the module, that breaks it: an increment of a tag left out, a link not set
again after a failed exchange, a second load of `head_` left out, `tail_` not
swung, an acquire load made relaxed, and so on.

Observations. A comment at the constructor says that a ring buffer is made "for
max_size elements" (`ringbuffer.hpp:398`). `max_size` is the size of the array,
of which one slot stays free: the queue holds `max_size - 1` elements, which is
the `Capacity` in `RingIsQueue` and what the test expects
(`libs/lockfree/test/ringbuffer_test.cpp:78`).

`dequeue_unsafe` loops for as long as the link of `head_` is null and `tail_` is
at another node (`fifo.hpp:265-275`). `QueueIntact` excludes such a state; if it
did occur `~fifo` would have no step in the model (`Drained`), and the run would
report a deadlock.

`dequeue` tests for a null link and its comment says that one
"can" be observed there (`fifo.hpp:229-235`): `NullNotObserved` shows that on
a sequentially consistent machine the second load of `head_` already excludes
it. The increment of the tag in the constructor of a queue's node
(`fifo.hpp:49-52`), on the other hand, is not needed by any of the properties
at these bounds.

`platform.hpp:9-10` takes `gcc-x86.hpp` for every GNU compiler that does not
define both of two macros for C++0x, whatever the processor: the headers for
alpha, PowerPC and ARM are then not reached. They are modelled as they are
written. The 64-bit class of `gcc-ppc.hpp` names an undeclared `order` in
`compare_exchange_weak`, so its fences, `lwsync` among them, are left out. The
headers for ARM and `generic-cas.hpp` have no fence function of their own;
`integral-casts.hpp:290-298` then exchanges a local variable, and a comment
there says that this is not sequentially consistent. `LastUse` shows that it
does for the documented use, an acquire fence.

`memory_order_consume` on alpha (`gcc-alpha.hpp:59-68`) has no fence after
the load, where `memory_order.hpp:35-38` shows one; `ConsumeOrderedByDependency`
therefore leaves alpha out, and `ConsumeOrdered`, which does not, fails there.

`compare_exchange_strong` of `linux-arm.hpp:88-101` loads what it reports
after it has failed. If the object has been set back meanwhile, it fails and
reports the value that it was asked to replace. The loops of the library are
not misled by that; the call itself violates `ObjectsAtomic` and is one of the
`Broken` calls of `AtomicClasses`, so the run `atomics` leaves it out. To see the
violation, run `MCAtomicClasses_128.cfg` with `Calls <- SeenAgain`; with
`Calls <- TornLoad` it shows that the 128-bit load of `gcc-x86.hpp:471` can
return halves of two values, which the run `atomics_128` does not show on its
own, as it stops at the returned operand. The 128-bit class of `gcc-x86.hpp` is used
by no component of the library, and can be reached only by an atomic integer
of 16 bytes. A dequeue to a `scoped_ptr` that succeeds does not delete the
object that the smart pointer owned before.

## Findings

* `dequeue(OutputIterator)` (`ringbuffer.hpp:223-224`) gives both calls of
  `std::copy` the same iterator. With an iterator that is not an insert
  iterator the second section of a wrapped block overwrites the first. The
  model's `InsertIterator` distinguishes the two; `ring` shows that with
  an insert iterator all is well.
* `memory_order_seq_cst` has no total order on PowerPC, alpha and ARM
  (`gcc-ppc.hpp:118-122` and the same lines of the others): a store has no
  fence after it and a load none before it, so two threads that announce
  themselves and look for each other may both see nothing. `atomic.qbk:320-323`
  requires a total order. `gcc-x86.hpp` and `interlocked.hpp` make the store an
  exchange, and there it holds.
* `dequeue(scoped_ptr &)` (`fifo.hpp:397-401`) lets `dequeue` write to the smart
  pointer itself, also when it then fails: the smart pointer owns an object
  that another thread has got, although `fifo.hpp:390` says that it is written
  to "if dequeue operation is successful". `auto_ptr` and `shared_ptr` go
  through a local variable, and `fifo_pointers` shows that they are safe.
* The 128-bit class of `gcc-x86.hpp` (`465-523`) returns the argument from
  `exchange` and `fetch_add`, where `libs/atomic/doc/atomic.hpp:272-286`
  promises the old value; its `load` and `store` are not one access.

## Proofs

Every safety property of the library's four containers and of the classes of
atomic objects that a run checks on a small instance is proved for all
instances.

| module | theorems | what they say, for every value of the constants |
|---|---|---|
| `FreelistProofs` | `InvariantHolds`, `TypeCorrect`, `ListAlwaysIntact`, `AlwaysOneOwner`, `AlwaysDestroyedOnce`, `AllocateNeverStale`, `FreelistIsPool` | the invariants of the run `freelist`; the freelist implements `NodePool` |
| `StackProofs` | `StackInvariantHolds`, `StackTypeCorrect`, `AlwaysStackIntact`, `AlwaysStackOwnsUsed`, `AlwaysClosedEmpty`, `StackUsesPool`, `StackPoolIsPool`, `StackIsLinearisable` | those of `stack`; the stack is a lawful user of its pool, which is a `NodePool`; the stack implements `AtomicStack` |
| `FifoProofs` | `FifoInvariantHolds`, `FifoTypeCorrect`, `AlwaysQueueIntact`, `AlwaysQueueOwnsUsed`, `AlwaysNullNotObserved`, `AlwaysClosedEmpty`, `FifoUsesPool`, `FifoPoolIsPool`, `FifoIsLinearisable` | those of `fifo`; the same for the fifo, which implements `AtomicQueue` |
| `FifoPtrProofs` | `PtrIsFifo`, `PtrInvariantHolds`, `PtrTypeCorrect`, `AlwaysObjectOwnedOnce`, `AlwaysNoSharedObject` | `fifo<T*>` is a fifo; without the overload for `scoped_ptr` every object has one owner |
| `RingBufferProofs` | `RingInvariantHolds`, `RingTypeCorrect`, `AlwaysQueueInBuffer`, `AlwaysNoRace`, `RingImplementsQueue`, `AlwaysDequeuedInOrder`, `AlwaysStepsBounded` | those of `ring`, for every `max_size` and block length; the ring buffer implements `BoundedQueue`; operations take a bounded number of steps |
| `PtrCompressionProofs` | `PackingExtracts`, `PackingCompares`, `PackingSetters`, `PoolAlwaysPacked` | packed words behave as the pairs of pointer and tag |
| `AtomicClassesProofs` | `InsertReplaces`, `ClassesTyped`, `ClassesAtomic` | `insert` and `extract` of `builder.hpp` are right; those of `atomics`; every class implements `AtomicCells`, but for the `Broken` calls |

Assumptions. They are named in the modules, and TLC evaluates them in the
runs: `NULL` is not a node, `TagMod > 1`, `Garbage` is not empty and, for
stack and fifo, contains every pointer (`LinkAssumption`: what the pool finds
in the first word of a node in use may be the container's link), `NoVal` is
not a value, the flags are Boolean, an array has at least one slot and twice
its size can be counted (`SizeAssumption`), an object has at least two values
and a word at least one object (`BuilderAssumption`), the operators on bits
stay within the type of their operands (`BitsAssumption`), and the names for
other users of a spinlock are not threads (`ThreadsAssumption`). Three
hypotheses are stated in theorems: `RingImplementsQueue` and
`AlwaysDequeuedInOrder` assume `InsertIterator`, the theorems about the objects
of `FifoPtr` that `scoped_ptr` is not among the `Kinds`, and `ClassesAtomic`
that none of the `Broken` calls is made. They cannot be left out: the runs
`ring_iterator`, `fifo_scoped_ptr` and `atomics_128` show the violations (for
linux-arm see Observations). `TagFresh`,
`TosFresh` and `FifoFresh` are part of the specifications, see above.

**The freelist.** `ListIntact` is not inductive, as a successful exchange in
`allocate` publishes a link that it read some time before. The invariant
`IInv` adds `SnapshotValid`: as long as `pool_` carries the tag that a thread
loaded, the node it loaded is still free and the link it read is still that
node's. Freeing other nodes keeps this, as their links are not that node's;
only taking the node would break it, and that changes the tag (`TagFresh`
keeps it from coming back). Note that the *pointer* need not be compared:
`deallocate` may put other nodes on top without changing the tag.
`LocalsValid` adds that `deallocate` has set its node's link to the very head
it is going to compare with, which is what makes its exchange safe without
any tag, and that no operation runs during destruction. `ChainTheorems` says
what popping and pushing do to a chain (`ChainPop`, `ChainPush`), that writes
to other nodes leave it alone (`ChainFrame`), and that it is empty exactly if
it starts with `NULL` (`ChainEmpty`). For the implementation each action is
shown to be one action of `NodePool` or a stuttering step; the only one that
is not obvious is the load of `allocate`, which is `FindEmpty` if it sees an
empty pool.

**The stack.** `StackInv` stands on `IInv`: each step of the stack from a state
with `StackInv` is shown to be a step of `Freelist` and its users. The guards of
the users, which the stack's code does not have, follow from `PlacedOnce` (what
push writes to and pop gives back is held by this thread alone) and, for the
destructor, from the stack being empty. This is `StackUsesPool`; with it the
pool's invariant and `StackPoolIsPool` come for free, and for `StackInv` only
what the pool may do to the stack is left: it writes
links of free nodes, and these are not on the stack (`PlacedOnce`, the
inductive form of `StackOwnsUsed`). `StackSnapshot` is for `pop` what
`SnapshotValid` is for `allocate`. `StackLocals` says that `push` has set the
link of its node to the top it compares with, `PoolPhase` where the pool's
code is while the stack waits, and `ValuePlace` where an operation has its
value. For `StackIsLinearisable` the exchange of `push` and of `pop` are the
instants of effect, and the load that finds a null `tos` is the one of the
answer "empty"; a step of the pool is no step of the abstract stack.

**The fifo.** `FifoInv` has the same foundation. `QueueLinked` says that the
links are the queue, and `TailPlaced` that `tail_` is at the last node or,
while the enqueue that linked the last one still holds that very `tail_` for
its exchange, one before. `NodesPlaced` gives each node its place and says
that the link of a node which is not yet in the queue is null, so that the
node is the end of the queue once it is linked. The two snapshots say what an
operation knows if what it loaded has not moved. `TailSnapshot`: if the tag of
the link that enqueue read still stands, then `tail_` has not moved either,
and its link is null; so the exchange of the link, which compares nothing but
the link, hits the end of the queue. `HeadSnapshot`: if `head_` has not moved
since dequeue loaded it, the link it read is the current one unless it is
null, a null link means that `head_` and the loaded `tail_` are the same node
and the queue was empty (`seen`), and the value it has read is that of the
second node. `NullNotObserved` follows at once. For `FifoIsLinearisable` the
instants of effect are the exchange of the link and that of `head_`; "empty"
is decided by the read of a null link, but confirmed only by the load of
`head_` after it, which is why the abstract queue has `seen`.

**fifo of pointers.** `PtrInv` adds to `FifoInv` where the objects are.
`OnePlace` is `ObjectOwnedOnce` without counting: a living object has exactly
one place, a deleted one none. `ObjectsInside` says that all nodes but the
dummy hold objects, and `ResultRead` that what dequeue has read is in the local
`result` and nowhere else; together with `HeadSnapshot` of the fifo this makes
the successful exchange move the object from the second node to `result`.
Every action is then either one that moves no object (`QuietKeeps`) or one
that moves or deletes one; `ptr.reset` does both.

**The ring buffer.** Here the proof is about distances on the circle
(`Dist(a, b)`) and about what stale loads can return. `QueuePlaced` says where
the published values are. `LogOrdered` says that an index never overtakes
itself among the stores that can still be loaded, so the oldest one is the
worst case. `RoomKept` is the heart: what the producer has in the array does
not reach what the consumer had not given back at the producer's *last load*,
and the consumer reads only what was published at its own. With `Pending` it
gives `NoRace`: an access that the other thread may not know of is at a slot
between the oldest store that it can load and the newest, and a load of any
store beyond that slot makes it known. `CopiedSoFar` says what a block copy
has done and `RingLocals` what the labels imply. The copies of a block are
one step per element, and `SlotIsNewIndex` shows
that the two sections of a wrapped copy are consecutive on the circle.

**The packed words.** The lemmas are about quotient and remainder. With the
type invariant of the freelist follows `PoolAlwaysPacked`: in every reachable
state the comparisons and the new words of the compressed freelist are those
of the freelist of pairs. Its assumptions: different pointers have different
addresses that fit below the tag, and `NULL` is address 0.

**The atomic objects.** The first part is about numbers: the k-th byte of a
word is a quotient and a remainder by the weights `Place[k]`, which are a
recursive function. `InsertReplaces` says that `insert` changes one object of
a word, and `EqualObjects` that words with the same objects are the same; where
a statement is about all positions, the proof takes the least one at which it
fails (`Least`), since induction with an operator is beyond the provers.

`ClassesInv` is the inductive invariant, one part for each way in which the
classes work. `BuilderInv`: when `compare_exchange_weak` of an object is about
to compare the word, the word it expects has the expected object in it, so
that a success is one for the object, and the neighbours are those of this
moment. `NativeInv`: a `compare_exchange` expects what it was told to, and the
loops of the others may expect anything, torn values included: only a success
counts. `FallbackInv`: whoever is between the lock and the unlock holds the
lock (nobody else copies), and the bytes copied so far agree with their source
(`Agree`), so that after the last one the copies are equal; with
`EqualObjects` the comparison of the bytes is one of the objects.

For `ClassesAtomic` the instants of effect are: the load or the successful
exchange of the word for objects inside a word; the one instruction that reads
or replaces a whole word, or the exchange that confirms what was read in
parts; and for the fallback the last byte that is copied out, or for a store
the moment when it gets the lock. What a thread writes under the lock counts
as written from then on (`Object`), and every later step of the copy, the
unlock and the lock of other objects stutter. A failure is the step that finds
the other value, or for `compare_exchange_weak` any failed exchange. The cases
where this does not work are exactly `Broken`.

Two definitions of `AtomicClasses` had overlapping arms of a `CASE` (`Read`
and `WordFound`, for a load and for the 128-bit class), which TLC evaluates
from the top and the provers, by the meaning of `CASE`, do not; they are
nested `IF`s now.

Only model-checked, and why:

* all liveness (`StackLockFree`, `FifoLockFree`, `OperationsEnd`), and the
  first part of `WaitFree`, which speaks of `ENABLED`: TLAPS proves neither.
  Its second part is `AlwaysStepsBounded`;
* `Litmus`: its programs are finite and its run covers all platforms and all
  interleavings, so there is no larger instance to prove anything about.

## Plan

Done, in this order: `TaggedPtr`, `Freelist` with `NodePool`, its proofs,
`Stack`, `Fifo`, `RingBuffer`, `AtomicBuilder`, `Platforms` with `Litmus`,
`FifoPtr`, `AtomicClasses`, `PtrCompression` with its proofs; then
`StackProofs`, `RingBufferProofs`, `FifoProofs`, `FifoPtrProofs` and
`AtomicClassesProofs`.

What is left: a weaker memory for the loads of `Freelist`, `Stack` and `Fifo`,
so that their answers "empty" are checked with the orders the code asks for;
and a ring buffer of size 0.

## Not modelled

`atomic<T>`'s overloads and integral casts (no state: they forward, and copy an
object's bytes to and from an integer of its size), `prefix.hpp` and
`branch_hints.hpp` (macros), the assembly of the platform files beyond the
access and the fences it is meant to be, the fences of the compiler alone, the
spinlock of the fallback beyond mutual exclusion, exceptions other than those
of the allocator, and a ring buffer of size 0, with which `next_index` does not
terminate.
