---------------------------- MODULE MCRingBuffer ----------------------------
(* Instances of RingBuffer for TLC. *)
EXTENDS RingBuffer, TLC

\* No property tells values apart.
Symmetry == Permutations(Values)
=============================================================================
