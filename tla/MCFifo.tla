------------------------------- MODULE MCFifo -------------------------------
(* Instances of Fifo for TLC. *)
EXTENDS Fifo, TLC

\* No property tells threads, nodes or values apart.
Symmetry == Permutations(Threads) \cup Permutations(Nodes) \cup Permutations(Values)
=============================================================================
