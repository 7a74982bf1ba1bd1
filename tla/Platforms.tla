----------------------------- MODULE Platforms -----------------------------
(***************************************************************************)
(* boost/atomic/detail: the instructions that each platform's classes use  *)
(* for a load, a store, a read-modify-write operation and                  *)
(* atomic_thread_fence of a given memory_order.  An operation is one       *)
(* access, R, W or U (U both reads and writes), with the fences before and *)
(* after it.  Fences of the compiler alone are left out.                   *)
(***************************************************************************)

\* The headers that platform.hpp chooses from.
Plats == {"x86", "alpha", "ppc", "arm", "linux_arm", "interlocked", "generic_cas"}

Instr(before, acc, after) == [before |-> before, acc |-> acc, after |-> after]

\* The access of an operation that a platform has an instruction or a loop
\* of load-linked and store-conditional for.
Access(op) == CASE op = "load" -> "R" [] op = "store" -> "W" [] op = "rmw" -> "U"

\* The usual class: fence_before(order) unless it is a load, the access, and
\* fence_after(order) unless it is a store.
Typical(op, before, after) ==
    Instr(IF op = "load" THEN {} ELSE before, Access(op),
          IF op = "store" THEN {} ELSE after)

\* An access that is a full fence: a locked instruction, or a function that
\* promises it.  A load made of one exchanges the value for itself.
Locked(op) == Instr({"full"}, IF op = "load" THEN "R" ELSE "U", {"full"})

-----------------------------------------------------------------------------
(* gcc-x86.hpp *)

x86_fence_after_load(order) == IF order = "seq_cst" THEN {"full"} ELSE {}

\* A mutated form of the next definition: a seq_cst store is a store.
X86Plain(op, order) ==
    CASE op = "load" -> Instr({}, "R", x86_fence_after_load(order))
      [] op = "store" -> Instr({}, "W", {})
      [] OTHER -> Locked(op)

X86(op, order) ==
    CASE op = "load" -> Instr({}, "R", x86_fence_after_load(order))
      [] op = "store" /\ order # "seq_cst" -> Instr({}, "W", {})
      [] OTHER -> Locked(op)

x86_thread_fence(order) == IF order = "seq_cst" THEN {"full"} ELSE {}

-----------------------------------------------------------------------------
(* gcc-ppc.hpp.  isync orders what comes after it behind the atomic loads  *)
(* before it, which are followed by a branch for this purpose.             *)

\* A mutated form of the next definition: a release needs no fence.
ppc_fence_before_seq_cst(order) == IF order = "seq_cst" THEN {"full"} ELSE {}

ppc_fence_before(order) ==
    IF order \in {"release", "acq_rel", "seq_cst"} THEN {"full"} ELSE {}

\* A mutated form of the next definition: an acquire needs no fence.
ppc_fence_after_none(order) == {}

ppc_fence_after(order) ==
    IF order \in {"acquire", "acq_rel", "seq_cst"} THEN {"isync"} ELSE {}

Ppc(op, order) == Typical(op, ppc_fence_before(order), ppc_fence_after(order))

\* A mutated form of the next definition: an acquire needs no fence.
ppc_thread_fence_release(order) ==
    IF order \in {"release", "acq_rel", "seq_cst"} THEN {"full"} ELSE {}

ppc_thread_fence(order) ==
    CASE order = "acquire" -> {"isync"}
      [] order \in {"release", "acq_rel", "seq_cst"} -> {"full"}
      [] OTHER -> {}

-----------------------------------------------------------------------------
(* gcc-alpha.hpp *)

\* A mutated form of the next definition: a fence for stores only.
alpha_fence_before_wmb(order) ==
    IF order \in {"consume", "release", "acq_rel", "seq_cst"} THEN {"stores"} ELSE {}

alpha_fence_before(order) ==
    IF order \in {"consume", "release", "acq_rel", "seq_cst"} THEN {"full"} ELSE {}

alpha_fence_after(order) ==
    IF order \in {"acquire", "acq_rel", "seq_cst"} THEN {"full"} ELSE {}

Alpha(op, order) == Typical(op, alpha_fence_before(order), alpha_fence_after(order))

alpha_thread_fence(order) == IF order = "relaxed" THEN {} ELSE {"full"}

-----------------------------------------------------------------------------
(* gcc-armv6+.hpp *)

\* A mutated form of the next definition: a read-modify-write operation and a
\* store have no fence before them.
arm_fence_before_none(order) == {}

arm_fence_before(order) ==
    IF order \in {"release", "acq_rel", "seq_cst"} THEN {"full"} ELSE {}

arm_fence_after(order) ==
    IF order \in {"acquire", "acq_rel", "seq_cst"} THEN {"full"} ELSE {}

Arm(op, order) == Typical(op, arm_fence_before(order), arm_fence_after(order))

-----------------------------------------------------------------------------
(* linux-arm.hpp: compare_exchange is a function of the kernel that has the *)
(* fences it needs.                                                         *)

linux_arm_fence_before(order) ==
    IF order \in {"consume", "release", "acq_rel", "seq_cst"} THEN {"full"} ELSE {}

linux_arm_fence_after(order) ==
    IF order \in {"acquire", "acq_rel", "seq_cst"} THEN {"full"} ELSE {}

LinuxArm(op, order) ==
    IF op = "rmw" THEN Locked(op)
    ELSE Typical(op, linux_arm_fence_before(order), linux_arm_fence_after(order))

-----------------------------------------------------------------------------
(* interlocked.hpp and generic-cas.hpp *)

interlocked_fence_after_load(order) == IF order = "seq_cst" THEN {"full"} ELSE {}

Interlocked(op, order) ==
    CASE op = "load" -> Instr({}, "R", interlocked_fence_after_load(order))
      [] op = "store" /\ order # "seq_cst" -> Instr({}, "W", {})
      [] OTHER -> Locked(op)

interlocked_thread_fence(order) == IF order = "seq_cst" THEN {"full"} ELSE {}

\* Everything is made from a fenced compare_exchange.
GenericCas(op) == Locked(op)

-----------------------------------------------------------------------------
\* What platform p makes of an operation on an atomic object.
Atomic(p, op, order) ==
    CASE p = "x86" -> X86(op, order)
      [] p = "ppc" -> Ppc(op, order)
      [] p = "alpha" -> Alpha(op, order)
      [] p = "arm" -> Arm(op, order)
      [] p = "linux_arm" -> LinuxArm(op, order)
      [] p = "interlocked" -> Interlocked(op, order)
      [] p = "generic_cas" -> GenericCas(op)

\* integral-casts.hpp: where the platform has no fence of its own it is an
\* exchange of a local variable, whose fences are all that others notice.
exchange_thread_fence(p, order) ==
    LET x == Atomic(p, "rmw", order) IN x.before \cup x.after

thread_fence(p, order) ==
    CASE p = "x86" -> x86_thread_fence(order)
      [] p = "ppc" -> ppc_thread_fence(order)
      [] p = "alpha" -> alpha_thread_fence(order)
      [] p = "interlocked" -> interlocked_thread_fence(order)
      [] OTHER -> exchange_thread_fence(p, order)

\* What platform p makes of a step of a program.  "read" and "write" are
\* accesses to objects that are not atomic.
Compiled(p, op, order) ==
    CASE op = "read" -> Instr({}, "r", {})
      [] op = "write" -> Instr({}, "W", {})
      [] op = "fence" -> Instr(thread_fence(p, order), "none", {})
      [] OTHER -> Atomic(p, op, order)
=============================================================================
