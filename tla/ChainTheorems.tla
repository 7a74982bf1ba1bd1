--------------------------- MODULE ChainTheorems ---------------------------
(***************************************************************************)
(* What pushing, popping and unrelated writes do to a linked list.         *)
(***************************************************************************)
EXTENDS Chain, SequenceTheorems, TLAPS

\* The nodes of a sequence are its elements at its positions.
LEMMA RangeElements ==
    ASSUME NEW S, NEW s \in Seq(S)
    PROVE  Range(s) = {s[i] : i \in 1 .. Len(s)}
  BY LenProperties DEF Range

\* The empty sequence has no elements.
LEMMA RangeEmpty == Range(<<>>) = {}
  BY DEF Range

\* The first element of a list that is not empty, and the list without it.
LEMMA TailElements ==
    ASSUME NEW S, NEW s \in Seq(S), s # <<>>
    PROVE  /\ Len(s) \in Nat \ {0}
           /\ Tail(s) \in Seq(S)
           /\ Len(Tail(s)) = Len(s) - 1
           /\ \A i \in 1 .. Len(s) - 1 : Tail(s)[i] = s[i + 1]
  <1>1. Len(s) \in Nat /\ Len(s) # 0
    BY EmptySeq, LenProperties
  <1> QED
    BY <1>1, HeadTailProperties

\* A list with a new first element.
LEMMA ConsElements ==
    ASSUME NEW S, NEW s \in Seq(S), NEW n \in S
    PROVE  /\ <<n>> \o s \in Seq(S)
           /\ Len(<<n>> \o s) = Len(s) + 1
           /\ (<<n>> \o s)[1] = n
           /\ \A i \in 1 .. Len(s) : (<<n>> \o s)[i + 1] = s[i]
           /\ <<n>> \o s # <<>>
  <1>1. <<n>> \in Seq(S) /\ Len(<<n>>) = 1 /\ <<n>>[1] = n
    OBVIOUS
  <1>2. Len(s) \in Nat
    BY LenProperties
  <1>3. /\ <<n>> \o s \in Seq(S)
        /\ Len(<<n>> \o s) = Len(s) + 1
        /\ \A i \in 1 .. Len(s) + 1 :
               (<<n>> \o s)[i] = IF i <= 1 THEN <<n>>[i] ELSE s[i - 1]
    BY <1>1, <1>2, ConcatProperties
  <1>4. (<<n>> \o s)[1] = n
    BY <1>1, <1>2, <1>3
  <1>5. \A i \in 1 .. Len(s) : (<<n>> \o s)[i + 1] = s[i]
    BY <1>2, <1>3
  <1>6. <<n>> \o s # <<>>
    BY <1>2, <1>3, EmptySeq
  <1> QED
    BY <1>3, <1>4, <1>5, <1>6

\* A pop: the link of the first node leads to the rest of the list, and the
\* first node is no longer on it.
LEMMA ChainPop ==
    ASSUME NEW s \in Seq(Nodes), NEW p, NEW links,
           IsChain(p, links, s), p # NULL
    PROVE  /\ s # <<>>
           /\ p \in Range(s)
           /\ p \in Nodes
           /\ Tail(s) \in Seq(Nodes)
           /\ Range(Tail(s)) = Range(s) \ {p}
           /\ links[p] \in Ptr
           /\ IsChain(links[p], links, Tail(s))
  <1> DEFINE r == Tail(s)
  <1>1. s # <<>> /\ p = s[1]
    BY DEF IsChain, First
  <1>2. /\ Len(s) \in Nat \ {0}
        /\ r \in Seq(Nodes)
        /\ Len(r) = Len(s) - 1
        /\ \A i \in 1 .. Len(s) - 1 : r[i] = s[i + 1]
    BY <1>1, TailElements
  <1> HIDE DEF r
  <1>3. p \in Range(s) /\ p \in Nodes
    BY <1>1, <1>2, RangeElements, ElementOfSeq
  <1>4. \A i, j \in 1 .. Len(s) : s[i] = s[j] => i = j
    BY DEF IsChain
  <1>5. Range(r) = Range(s) \ {p}
    <2>1. Range(s) = {s[i] : i \in 1 .. Len(s)}
      BY RangeElements
    <2>2. Range(r) = {s[i + 1] : i \in 1 .. Len(s) - 1}
      BY <1>2, RangeElements
    <2>3. ASSUME NEW n \in Range(r)
          PROVE  n \in Range(s) \ {p}
      <3>1. PICK i \in 1 .. Len(s) - 1 : n = s[i + 1]
        BY <2>2
      <3>2. i + 1 \in 1 .. Len(s) /\ 1 \in 1 .. Len(s) /\ i + 1 # 1
        BY <1>2
      <3> QED
        BY <3>1, <3>2, <2>1, <1>1, <1>4
    <2>4. ASSUME NEW n \in Range(s) \ {p}
          PROVE  n \in Range(r)
      <3>1. PICK i \in 1 .. Len(s) : n = s[i]
        BY <2>1
      <3>2. i # 1
        BY <3>1, <1>1
      <3>3. i - 1 \in 1 .. Len(s) - 1 /\ (i - 1) + 1 = i
        BY <3>2, <1>2
      <3> QED
        BY <3>1, <3>3, <2>2
    <2> QED
      BY <2>3, <2>4
  <1>6. links[p] = First(r)
    <2>1. links[p] = Successor(s, 1)
      BY <1>1, <1>2 DEF IsChain
    <2>2. CASE Len(s) = 1
      <3>1. r = <<>>
        BY <1>2, <2>2, EmptySeq
      <3> QED
        BY <2>1, <2>2, <3>1 DEF Successor, First
    <2>3. CASE Len(s) # 1
      <3>1. r # <<>>
        BY <1>2, <2>3, EmptySeq
      <3>2. 1 \in 1 .. Len(s) - 1
        BY <1>2, <2>3
      <3>3. r[1] = s[2]
        BY <1>2, <3>2
      <3> QED
        BY <2>1, <2>3, <3>1, <3>3 DEF Successor, First
    <2> QED
      BY <2>2, <2>3
  <1>7. \A i \in 1 .. Len(r) : links[r[i]] = Successor(r, i)
    <2> SUFFICES ASSUME NEW i \in 1 .. Len(r)
                 PROVE  links[r[i]] = Successor(r, i)
      OBVIOUS
    <2>1. i \in 1 .. Len(s) - 1 /\ i + 1 \in 1 .. Len(s)
      BY <1>2
    <2>2. links[r[i]] = Successor(s, i + 1)
      BY <1>2, <2>1 DEF IsChain
    <2>3. CASE i = Len(s) - 1
      BY <1>2, <2>1, <2>2, <2>3 DEF Successor
    <2>4. CASE i # Len(s) - 1
      <3>1. i + 1 \in 1 .. Len(s) - 1 /\ i + 1 # Len(s) /\ i # Len(r)
        BY <1>2, <2>1, <2>4
      <3>2. r[i + 1] = s[(i + 1) + 1]
        BY <1>2, <3>1
      <3> QED
        BY <2>2, <3>1, <3>2 DEF Successor
    <2> QED
      BY <2>3, <2>4
  <1>8. \A i, j \in 1 .. Len(r) : r[i] = r[j] => i = j
    <2> SUFFICES ASSUME NEW i \in 1 .. Len(r),
                        NEW j \in 1 .. Len(r), r[i] = r[j]
                 PROVE  i = j
      OBVIOUS
    <2>1. /\ i \in 1 .. Len(s) - 1 /\ j \in 1 .. Len(s) - 1
          /\ i + 1 \in 1 .. Len(s) /\ j + 1 \in 1 .. Len(s)
      BY <1>2
    <2>2. s[i + 1] = s[j + 1]
      BY <1>2, <2>1
    <2>3. i + 1 = j + 1
      BY <2>1, <2>2, <1>4
    <2> QED
      BY <2>1, <2>3
  <1>9. First(r) \in Ptr
    <2>1. CASE r = <<>>
      BY <2>1 DEF First, Ptr
    <2>2. CASE r # <<>>
      <3>1. Len(r) \in Nat \ {0}
        BY <1>2, <2>2, TailElements
      <3>2. r[1] \in Nodes
        BY <1>2, <3>1, ElementOfSeq
      <3> QED
        BY <2>2, <3>2 DEF First, Ptr
    <2> QED
      BY <2>1, <2>2
  <1> QED
    BY <1>1, <1>2, <1>3, <1>5, <1>6, <1>7, <1>8, <1>9 DEF IsChain, r

\* The nodes of a list with a new first element.
LEMMA PushRange ==
    ASSUME NEW S, NEW s \in Seq(S), NEW n \in S
    PROVE  Range(<<n>> \o s) = Range(s) \cup {n}
  <1> DEFINE q == <<n>> \o s
  <1>1. /\ q \in Seq(S)
        /\ Len(q) = Len(s) + 1
        /\ q[1] = n
        /\ \A i \in 1 .. Len(s) : q[i + 1] = s[i]
    BY ConsElements
  <1>2. Len(s) \in Nat
    BY LenProperties
  <1> HIDE DEF q
  <1>3. Range(s) = {s[i] : i \in 1 .. Len(s)} /\ Range(q) = {q[i] : i \in 1 .. Len(q)}
    BY <1>1, RangeElements
  <1>4. ASSUME NEW m \in Range(q) PROVE m \in Range(s) \cup {n}
    <2>1. PICK i \in 1 .. Len(q) : m = q[i]
      BY <1>3
    <2>2. CASE i = 1
      BY <1>1, <2>1, <2>2
    <2>3. CASE i # 1
      <3>1. i - 1 \in 1 .. Len(s) /\ (i - 1) + 1 = i
        BY <1>1, <1>2, <2>3
      <3> QED
        BY <1>1, <1>3, <2>1, <3>1
    <2> QED
      BY <2>2, <2>3
  <1>5. n \in Range(q)
    <2>1. 1 \in 1 .. Len(q)
      BY <1>1, <1>2
    <2> QED
      BY <2>1, <1>1, <1>3
  <1>6. ASSUME NEW m \in Range(s) PROVE m \in Range(q)
    <2>1. PICK i \in 1 .. Len(s) : m = s[i]
      BY <1>3
    <2>2. i + 1 \in 1 .. Len(q)
      BY <1>1, <1>2
    <2> QED
      BY <2>1, <2>2, <1>1, <1>3
  <1> QED
    BY <1>4, <1>5, <1>6 DEF q

\* A push: a node that is not on the list and whose link is the old first
\* pointer becomes the first node.
LEMMA ChainPush ==
    ASSUME NEW s \in Seq(Nodes), NEW p, NEW links, NEW n \in Nodes,
           IsChain(p, links, s), n \notin Range(s), links[n] = p
    PROVE  /\ <<n>> \o s \in Seq(Nodes)
           /\ Range(<<n>> \o s) = Range(s) \cup {n}
           /\ IsChain(n, links, <<n>> \o s)
  <1> DEFINE q == <<n>> \o s
  <1>1. /\ q \in Seq(Nodes)
        /\ Len(q) = Len(s) + 1
        /\ q[1] = n
        /\ \A i \in 1 .. Len(s) : q[i + 1] = s[i]
        /\ q # <<>>
    BY ConsElements
  <1>2. Len(s) \in Nat
    BY LenProperties
  <1> HIDE DEF q
  <1>3. Range(s) = {s[i] : i \in 1 .. Len(s)} /\ Range(q) = {q[i] : i \in 1 .. Len(q)}
    BY <1>1, RangeElements
  <1>a. \A i \in 1 .. Len(q) : i = 1 \/ (i - 1 \in 1 .. Len(s) /\ q[i] = s[i - 1])
    <2> SUFFICES ASSUME NEW i \in 1 .. Len(q), i # 1
                 PROVE  i - 1 \in 1 .. Len(s) /\ q[i] = s[i - 1]
      OBVIOUS
    <2>1. i - 1 \in 1 .. Len(s) /\ (i - 1) + 1 = i
      BY <1>1, <1>2
    <2> QED
      BY <1>1, <2>1
  <1>4. Range(q) = Range(s) \cup {n}
    BY PushRange DEF q
  <1>5. n = First(q)
    BY <1>1 DEF First
  <1>6. \A i \in 1 .. Len(q) : links[q[i]] = Successor(q, i)
    <2> SUFFICES ASSUME NEW i \in 1 .. Len(q)
                 PROVE  links[q[i]] = Successor(q, i)
      OBVIOUS
    <2>1. CASE i = 1
      <3>1. CASE s = <<>>
        <4>1. Len(q) = 1
          BY <1>1, <3>1, EmptySeq
        <4> QED
          BY <1>1, <2>1, <3>1, <4>1 DEF Successor, IsChain, First
      <3>2. CASE s # <<>>
        <4>1. Len(s) \in Nat \ {0}
          BY <3>2, TailElements
        <4>2. 1 \in 1 .. Len(s) /\ Len(q) # 1
          BY <4>1, <1>1
        <4>3. q[2] = s[1]
          BY <4>2, <1>1
        <4> QED
          BY <1>1, <2>1, <3>2, <4>2, <4>3 DEF Successor, IsChain, First
      <3> QED
        BY <3>1, <3>2
    <2>2. CASE i # 1
      <3>1. i - 1 \in 1 .. Len(s) /\ q[i] = s[i - 1]
        BY <1>a, <2>2
      <3>2. links[q[i]] = Successor(s, i - 1)
        BY <3>1 DEF IsChain
      <3>3. CASE i = Len(q)
        BY <3>1, <3>2, <3>3, <1>1, <1>2 DEF Successor
      <3>4. CASE i # Len(q)
        <4>1. i \in 1 .. Len(s) /\ i - 1 # Len(s) /\ (i - 1) + 1 = i
          BY <3>1, <3>4, <1>1, <1>2
        <4>2. q[i + 1] = s[i]
          BY <4>1, <1>1
        <4> QED
          BY <3>2, <3>4, <4>1, <4>2 DEF Successor
      <3> QED
        BY <3>3, <3>4
    <2> QED
      BY <2>1, <2>2
  <1>7. \A i, j \in 1 .. Len(q) : q[i] = q[j] => i = j
    <2> SUFFICES ASSUME NEW i \in 1 .. Len(q), NEW j \in 1 .. Len(q), q[i] = q[j]
                 PROVE  i = j
      OBVIOUS
    <2>1. \A k \in 1 .. Len(q) : k # 1 => q[k] # n
      BY <1>a, <1>3
    <2>2. CASE i = 1 \/ j = 1
      BY <2>1, <2>2, <1>1
    <2>3. CASE i # 1 /\ j # 1
      <3>1. /\ i - 1 \in 1 .. Len(s) /\ j - 1 \in 1 .. Len(s)
            /\ s[i - 1] = s[j - 1]
        BY <1>a, <2>3
      <3>2. i - 1 = j - 1
        BY <3>1 DEF IsChain
      <3> QED
        BY <3>2
    <2> QED
      BY <2>2, <2>3
  <1> QED
    BY <1>1, <1>4, <1>5, <1>6, <1>7 DEF IsChain, q

\* A write to the link of a node that is not on the list leaves it alone.
LEMMA ChainFrame ==
    ASSUME NEW s \in Seq(Nodes), NEW p, NEW links, NEW links2,
           IsChain(p, links, s),
           \A n \in Range(s) : links2[n] = links[n]
    PROVE  IsChain(p, links2, s)
  <1>1. \A i \in 1 .. Len(s) : s[i] \in Range(s)
    BY RangeElements
  <1> QED
    BY <1>1 DEF IsChain

\* An empty list has no nodes.
LEMMA ChainEmpty ==
    ASSUME NEW s \in Seq(Nodes), NEW links, IsChain(NULL, links, s)
    PROVE  s = <<>> /\ Range(s) = {}
  <1>1. s = <<>>
    <2> SUFFICES ASSUME s # <<>> PROVE FALSE
      OBVIOUS
    <2>1. Len(s) \in Nat \ {0}
      BY TailElements
    <2>2. s[1] \in Nodes /\ s[1] = NULL
      BY <2>1, ElementOfSeq DEF IsChain, First
    <2> QED
      BY <2>2, NullAssumption
  <1>2. Len(s) = 0
    BY <1>1
  <1>3. Range(s) = {s[i] : i \in 1 .. Len(s)}
    BY RangeElements
  <1>4. \A n \in Range(s) : FALSE
    BY <1>2, <1>3
  <1> QED
    BY <1>1, <1>4

\* The contents of a list are a sequence of the same length.
LEMMA ContentsType ==
    ASSUME NEW V, NEW f \in [Nodes -> V], NEW s \in Seq(Nodes)
    PROVE  /\ Contents(f, s) \in Seq(V)
           /\ Len(Contents(f, s)) = Len(s)
           /\ \A i \in 1 .. Len(s) : Contents(f, s)[i] = f[s[i]]
  <1>1. Len(s) \in Nat /\ \A i \in 1 .. Len(s) : f[s[i]] \in V
    BY ElementOfSeq, LenProperties
  <1> QED
    BY <1>1 DEF Contents

\* The contents of a list with a new first node.
LEMMA ContentsPush ==
    ASSUME NEW V, NEW f \in [Nodes -> V], NEW s \in Seq(Nodes), NEW n \in Nodes
    PROVE  Contents(f, <<n>> \o s) = <<f[n]>> \o Contents(f, s)
  <1> DEFINE q == <<n>> \o s
             c == Contents(f, s)
             d == <<f[n]>> \o c
  <1>1. /\ q \in Seq(Nodes) /\ Len(q) = Len(s) + 1 /\ q[1] = n
        /\ \A i \in 1 .. Len(s) : q[i + 1] = s[i]
    BY ConsElements
  <1>2. c \in Seq(V) /\ Len(c) = Len(s) /\ \A i \in 1 .. Len(s) : c[i] = f[s[i]]
    BY ContentsType
  <1>3. f[n] \in V
    OBVIOUS
  <1> HIDE DEF q, c
  <1>4. /\ d \in Seq(V) /\ Len(d) = Len(s) + 1 /\ d[1] = f[n]
        /\ \A i \in 1 .. Len(s) : d[i + 1] = c[i]
    BY <1>2, <1>3, ConsElements
  <1>5. /\ Contents(f, q) \in Seq(V) /\ Len(Contents(f, q)) = Len(s) + 1
        /\ \A i \in 1 .. Len(s) + 1 : Contents(f, q)[i] = f[q[i]]
    <2>1. /\ Contents(f, q) \in Seq(V) /\ Len(Contents(f, q)) = Len(q)
          /\ \A i \in 1 .. Len(q) : Contents(f, q)[i] = f[q[i]]
      <3>1. q \in Seq(Nodes)
        BY <1>1
      <3> QED
        BY <3>1, ContentsType
    <2> QED
      BY <1>1, <2>1
  <1> HIDE DEF d
  <1>6. ASSUME NEW i \in 1 .. Len(s) + 1 PROVE Contents(f, q)[i] = d[i]
    <2>1. CASE i = 1
      BY <2>1, <1>1, <1>4, <1>5
    <2>2. CASE i # 1
      <3>1. Len(s) \in Nat
        BY LenProperties
      <3>2. i - 1 \in 1 .. Len(s) /\ (i - 1) + 1 = i
        BY <2>2, <3>1
      <3>3. q[i] = s[i - 1] /\ d[i] = c[i - 1]
        BY <3>2, <1>1, <1>4
      <3> QED
        BY <3>2, <3>3, <1>2, <1>5
    <2> QED
      BY <2>1, <2>2
  <1>7. Contents(f, q) = d
    BY <1>4, <1>5, <1>6, SeqEqual
  <1> QED
    BY <1>7 DEF q, d, c

\* The contents of a list without its first node.
LEMMA ContentsPop ==
    ASSUME NEW V, NEW f \in [Nodes -> V], NEW s \in Seq(Nodes), s # <<>>
    PROVE  /\ Contents(f, Tail(s)) = Tail(Contents(f, s))
           /\ Contents(f, s) # <<>>
           /\ Contents(f, s)[1] = f[s[1]]
  <1> DEFINE r == Tail(s)
             c == Contents(f, s)
  <1>1. /\ Len(s) \in Nat \ {0} /\ r \in Seq(Nodes) /\ Len(r) = Len(s) - 1
        /\ \A i \in 1 .. Len(s) - 1 : r[i] = s[i + 1]
    BY TailElements
  <1>2. c \in Seq(V) /\ Len(c) = Len(s) /\ \A i \in 1 .. Len(s) : c[i] = f[s[i]]
    BY ContentsType
  <1> HIDE DEF r, c
  <1>3. c # <<>>
    BY <1>1, <1>2, EmptySeq
  <1>4. /\ Tail(c) \in Seq(V) /\ Len(Tail(c)) = Len(s) - 1
        /\ \A i \in 1 .. Len(s) - 1 : Tail(c)[i] = c[i + 1]
    <2>1. /\ Tail(c) \in Seq(V) /\ Len(Tail(c)) = Len(c) - 1
          /\ \A i \in 1 .. Len(c) - 1 : Tail(c)[i] = c[i + 1]
      <3>1. c \in Seq(V)
        BY <1>2
      <3> QED
        BY <1>3, <3>1, TailElements
    <2> QED
      BY <1>2, <2>1
  <1>5. /\ Contents(f, r) \in Seq(V) /\ Len(Contents(f, r)) = Len(s) - 1
        /\ \A i \in 1 .. Len(s) - 1 : Contents(f, r)[i] = f[r[i]]
    <2>1. /\ Contents(f, r) \in Seq(V) /\ Len(Contents(f, r)) = Len(r)
          /\ \A i \in 1 .. Len(r) : Contents(f, r)[i] = f[r[i]]
      <3>1. r \in Seq(Nodes)
        BY <1>1
      <3> QED
        BY <3>1, ContentsType
    <2> QED
      BY <1>1, <2>1
  <1>6. ASSUME NEW i \in 1 .. Len(s) - 1 PROVE Contents(f, r)[i] = Tail(c)[i]
    <2>1. i + 1 \in 1 .. Len(s)
      BY <1>1
    <2>2. Contents(f, r)[i] = f[r[i]] /\ Tail(c)[i] = c[i + 1]
      BY <1>4, <1>5
    <2>3. c[i + 1] = f[s[i + 1]] /\ r[i] = s[i + 1]
      BY <1>1, <1>2, <2>1
    <2> QED
      BY <2>2, <2>3
  <1>7. Contents(f, r) = Tail(c)
    BY <1>4, <1>5, <1>6, SeqEqual
  <1>8. 1 \in 1 .. Len(s)
    BY <1>1
  <1> QED
    BY <1>2, <1>3, <1>7, <1>8 DEF r, c

\* A write to a node that is not on the list leaves its contents alone.
LEMMA ContentsFrame ==
    ASSUME NEW s \in Seq(Nodes), NEW f, NEW g, \A n \in Range(s) : g[n] = f[n]
    PROVE  Contents(g, s) = Contents(f, s)
  <1>1. \A i \in 1 .. Len(s) : s[i] \in Range(s)
    BY RangeElements
  <1> QED
    BY <1>1 DEF Contents

\* A list with a new last element.
LEMMA AppendElements ==
    ASSUME NEW S, NEW s \in Seq(S), NEW n \in S
    PROVE  /\ Append(s, n) \in Seq(S)
           /\ Append(s, n) # <<>>
           /\ Len(Append(s, n)) = Len(s) + 1
           /\ Append(s, n)[Len(s) + 1] = n
           /\ \A i \in 1 .. Len(s) : Append(s, n)[i] = s[i]
           /\ Range(Append(s, n)) = Range(s) \cup {n}
  <1> DEFINE q == Append(s, n)
  <1>1. /\ q \in Seq(S)
        /\ Len(q) = Len(s) + 1
        /\ q[Len(s) + 1] = n
        /\ \A i \in 1 .. Len(s) : q[i] = s[i]
    BY AppendProperties
  <1>2. Len(s) \in Nat
    BY LenProperties
  <1> HIDE DEF q
  <1>3. q # <<>>
    BY <1>1, <1>2, EmptySeq
  <1>4. Range(s) = {s[i] : i \in 1 .. Len(s)} /\ Range(q) = {q[i] : i \in 1 .. Len(q)}
    BY <1>1, RangeElements
  <1>5. ASSUME NEW x \in Range(q) PROVE x \in Range(s) \cup {n}
    <2>1. PICK i \in 1 .. Len(q) : x = q[i]
      BY <1>4
    <2>2. i \in 1 .. Len(s) \/ i = Len(s) + 1
      BY <1>1, <1>2
    <2> QED
      BY <1>1, <1>4, <2>1, <2>2
  <1>6. ASSUME NEW x \in Range(s) \cup {n} PROVE x \in Range(q)
    <2>1. CASE x \in Range(s)
      <3>1. PICK i \in 1 .. Len(s) : x = s[i]
        BY <1>4, <2>1
      <3>2. i \in 1 .. Len(q) /\ x = q[i]
        BY <1>1, <1>2, <3>1
      <3> QED
        BY <1>4, <3>2
    <2>2. CASE x = n
      <3>1. Len(s) + 1 \in 1 .. Len(q)
        BY <1>1, <1>2
      <3> QED
        BY <1>1, <1>4, <2>2, <3>1
    <2> QED
      BY <2>1, <2>2
  <1>7. Range(q) = Range(s) \cup {n}
    BY <1>5, <1>6
  <1> QED
    BY <1>1, <1>3, <1>7 DEF q

\* The links of the nodes of a list stay in the list and lead away from its
\* first node; only that of the last node is null.
LEMMA ChainLinks ==
    ASSUME NEW s \in Seq(Nodes), NEW p, NEW links, IsChain(p, links, s), s # <<>>
    PROVE  /\ p = s[1] /\ p \in Range(s) /\ p \in Nodes
           /\ Len(s) \in Nat \ {0}
           /\ s[Len(s)] \in Range(s)
           /\ links[s[Len(s)]] = NULL
           /\ \A n \in Range(s) : n \in Nodes /\ links[n] \in Ptr
           /\ \A n \in Range(s) : links[n] = NULL => n = s[Len(s)]
           /\ \A n \in Range(s) : links[n] # NULL =>
                links[n] \in Range(s) /\ links[n] # p /\ links[n] # n
           /\ links[p] = NULL <=> Len(s) = 1
           /\ links[p] # NULL => Len(s) > 1 /\ links[p] = s[2]
  <1>1. Len(s) \in Nat \ {0}
    BY TailElements
  <1>2. /\ Range(s) = {s[i] : i \in 1 .. Len(s)}
        /\ \A i \in 1 .. Len(s) : s[i] \in Nodes /\ s[i] \in Range(s)
    BY RangeElements, ElementOfSeq
  <1>3. /\ p = s[1]
        /\ \A i \in 1 .. Len(s) : links[s[i]] = IF i = Len(s) THEN NULL ELSE s[i + 1]
        /\ \A i, j \in 1 .. Len(s) : s[i] = s[j] => i = j
    BY DEF IsChain, First, Successor
  <1>4. 1 \in 1 .. Len(s) /\ Len(s) \in 1 .. Len(s)
    BY <1>1
  <1>5. \A i \in 1 .. Len(s) : i # Len(s) => i + 1 \in 1 .. Len(s) /\ i + 1 # 1 /\ i + 1 # i
    BY <1>1
  <1>6. \A i \in 1 .. Len(s) : s[i] # NULL
    BY <1>2, NullAssumption
  <1>7. ASSUME NEW n \in Range(s)
        PROVE  /\ n \in Nodes /\ links[n] \in Ptr
               /\ links[n] = NULL => n = s[Len(s)]
               /\ links[n] # NULL => links[n] \in Range(s) /\ links[n] # p /\ links[n] # n
    <2>1. PICK i \in 1 .. Len(s) : n = s[i]
      BY <1>2
    <2>2. CASE i = Len(s)
      BY <1>2, <1>3, <2>1, <2>2 DEF Ptr
    <2>3. CASE i # Len(s)
      <3>1. links[n] = s[i + 1] /\ i + 1 \in 1 .. Len(s) /\ i + 1 # 1 /\ i + 1 # i
        BY <1>3, <1>5, <2>1, <2>3
      <3> QED
        BY <1>2, <1>3, <1>4, <1>6, <2>1, <3>1 DEF Ptr
    <2> QED
      BY <2>2, <2>3
  <1>8. /\ links[p] = NULL <=> Len(s) = 1
        /\ links[p] # NULL => Len(s) > 1 /\ links[p] = s[2]
    <2>1. CASE Len(s) = 1
      BY <1>3, <1>4, <2>1
    <2>2. CASE Len(s) # 1
      <3>1. links[s[1]] = s[1 + 1]
        BY <1>3, <1>4, <2>2
      <3>2. Len(s) > 1
        <4>1. \A k \in Nat \ {0} : k # 1 => k > 1
          OBVIOUS
        <4> QED
          BY <1>1, <2>2, <4>1
      <3>3. 1 + 1 = 2 /\ 2 \in 1 .. Len(s)
        BY <1>1, <3>2
      <3> QED
        BY <1>3, <1>6, <2>2, <3>1, <3>2, <3>3
    <2> QED
      BY <2>1, <2>2
  <1> QED
    BY <1>1, <1>2, <1>3, <1>4, <1>7, <1>8

\* The link of the last node of a list is set to a node that is not on it and
\* has no successor.
LEMMA ChainAppend ==
    ASSUME NEW s \in Seq(Nodes), NEW p, NEW links, NEW links2, NEW n \in Nodes,
           IsChain(p, links, s), s # <<>>, n \notin Range(s),
           links2[s[Len(s)]] = n, links2[n] = NULL,
           \A m \in Range(s) : m # s[Len(s)] => links2[m] = links[m]
    PROVE  IsChain(p, links2, Append(s, n))
  <1> DEFINE q == Append(s, n)
  <1>1. Len(s) \in Nat \ {0} /\ p = s[1]
    BY ChainLinks
  <1>2. /\ q \in Seq(Nodes) /\ q # <<>>
        /\ Len(q) = Len(s) + 1
        /\ q[Len(s) + 1] = n
        /\ \A i \in 1 .. Len(s) : q[i] = s[i]
    BY AppendElements
  <1> HIDE DEF q
  <1>3. \A i \in 1 .. Len(s) : s[i] \in Range(s)
    BY RangeElements
  <1>4. /\ \A i \in 1 .. Len(s) : links[s[i]] = IF i = Len(s) THEN NULL ELSE s[i + 1]
        /\ \A i, j \in 1 .. Len(s) : s[i] = s[j] => i = j
    BY DEF IsChain, Successor
  <1>5. p = First(q)
    BY <1>1, <1>2 DEF First
  <1>6. ASSUME NEW i \in 1 .. Len(q) PROVE links2[q[i]] = Successor(q, i)
    <2>1. CASE i = Len(s) + 1
      BY <1>2, <2>1 DEF Successor
    <2>2. CASE i = Len(s)
      <3>1. i \in 1 .. Len(s) /\ i # Len(q)
        BY <1>1, <1>2, <2>2
      <3> QED
        BY <1>2, <2>2, <3>1 DEF Successor
    <2>3. CASE i # Len(s) + 1 /\ i # Len(s)
      <3>1. i \in 1 .. Len(s) /\ i + 1 \in 1 .. Len(s) /\ i # Len(q) /\ Len(s) \in 1 .. Len(s)
        BY <1>1, <1>2, <2>3
      <3>2. links2[s[i]] = s[i + 1]
        BY <1>3, <1>4, <2>3, <3>1
      <3> QED
        BY <1>2, <3>1, <3>2 DEF Successor
    <2> QED
      BY <2>1, <2>2, <2>3
  <1>7. ASSUME NEW i \in 1 .. Len(q), NEW j \in 1 .. Len(q), q[i] = q[j] PROVE i = j
    <2>1. /\ i \in 1 .. Len(s) \/ i = Len(s) + 1
          /\ j \in 1 .. Len(s) \/ j = Len(s) + 1
      BY <1>1, <1>2
    <2> QED
      BY <1>2, <1>3, <1>4, <1>7, <2>1
  <1>8. IsChain(p, links2, q)
    BY <1>5, <1>6, <1>7 DEF IsChain
  <1> QED
    BY <1>8 DEF q
=============================================================================
