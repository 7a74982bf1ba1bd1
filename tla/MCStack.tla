------------------------------ MODULE MCStack ------------------------------
(* Instances of Stack for TLC. *)
EXTENDS Stack, TLC

\* No property tells threads, nodes or values apart.
Symmetry == Permutations(Threads) \cup Permutations(Nodes) \cup Permutations(Values)
=============================================================================
