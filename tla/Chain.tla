------------------------------- MODULE Chain -------------------------------
(***************************************************************************)
(* Singly linked lists in shared memory: freelist_stack and stack both     *)
(* keep their nodes in one.                                                *)
(***************************************************************************)
EXTENDS Functions, Sequences, TaggedPtr

\* The pointer to the first node of the list s.
First(s) == IF s = <<>> THEN NULL ELSE s[1]

\* The pointer to the node after position i of the list s.
Successor(s, i) == IF i = Len(s) THEN NULL ELSE s[i + 1]

\* The list that starts at pointer p and follows the links is s, and no node
\* is on it twice.
IsChain(p, links, s) ==
    /\ p = First(s)
    /\ \A i \in 1 .. Len(s) : links[s[i]] = Successor(s, i)
    /\ \A i, j \in 1 .. Len(s) : s[i] = s[j] => i = j

\* What the nodes of the list s hold, when node n holds f[n].
Contents(f, s) == [i \in 1 .. Len(s) |-> f[s[i]]]
=============================================================================
