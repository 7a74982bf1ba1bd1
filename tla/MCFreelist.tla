----------------------------- MODULE MCFreelist -----------------------------
(* Instances of Freelist and CompressedPool for TLC. *)
EXTENDS CompressedPool, TLC

\* No property tells threads, nodes or their order apart.
Symmetry == Permutations(Threads) \cup Permutations(Nodes)

\* An address for every node; which one does not matter.
Addresses ==
    CHOOSE f \in [Ptr -> Address] :
        f[NULL] = 0 /\ \A p, q \in Ptr : f[p] = f[q] => p = q
=============================================================================
