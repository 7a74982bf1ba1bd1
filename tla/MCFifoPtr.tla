----------------------------- MODULE MCFifoPtr -----------------------------
(* Instances of FifoPtr for TLC. *)
EXTENDS FifoPtr, TLC
=============================================================================
