------------------------ MODULE AtomicClassesProofs ------------------------
(***************************************************************************)
(* The operations of boost::atomic are atomic in every class, whatever the *)
(* number of threads, the size of the word and the calls, as long as none  *)
(* of the calls is one of those known to be broken.                        *)
(***************************************************************************)
EXTENDS AtomicClasses, TLAPS, WellFoundedInduction

-----------------------------------------------------------------------------
(* The inductive invariant *)

BuilderLabels == {"idle", "load", "cas_load", "cas", "cas_seen", "store_load",
                  "store_cas", "store_seen", "done"}

NativeLabels == {"idle", "read", "confirm", "wcas", "wseen", "rmw", "write", "done"}

\* Where a function of fallback_atomic waits for the lock or has taken it.
OutLabels == {"f_load", "f_cas", "f_exchange"}

LockLabels == OutLabels \cup {"f_store", "f_put", "unlock"}

LabelsOf ==
    IF class = "larger_type" THEN BuilderLabels
    ELSE IF class = "fallback" THEN LockLabels \cup {"idle", "done"} ELSE NativeLabels

\* The operation of t is one that can be called, on an object of the class.
Serving(t) ==
    /\ pc[t] \in LabelsOf
    /\ pc[t] = "idle" <=> req[t] = NoReq
    /\ pc[t] # "idle" =>
        /\ req[t] \in [op : Ops, at : Offsets \cup {Whole}, arg : Word, exp : Word]
        /\ <<class, req[t].op>> \in Calls
        /\ IF class = "larger_type"
           THEN req[t].at \in Offsets /\ req[t].arg \in Byte /\ req[t].exp \in Byte
           ELSE req[t].at = Whole
    /\ ok[t] => pc[t] \in {"done", "f_store", "f_put", "unlock"}

\* A compare_exchange expects what it was told to expect.
Expects(t) == req[t].op \in CasOps => exp[t] = req[t].exp

\* An object in a larger word: the word that is expected has the expected
\* object in it.
BuilderInv(t) ==
    /\ pc[t] = "load" => req[t].op \notin CasOps \cup {"store"}
    /\ pc[t] \in {"cas_load", "cas", "cas_seen"} => req[t].op \in FetchOps \cup CasOps
    /\ pc[t] \in {"store_load", "store_cas", "store_seen"} => req[t].op = "store"
    /\ pc[t] \in {"cas_load", "cas"} => Expects(t)
    /\ pc[t] = "cas" => extract(wexp[t], req[t].at) = exp[t]

\* An object as large as the word.
NativeInv(t) ==
    /\ pc[t] \in {"read", "confirm", "rmw"} => req[t].op \notin CasOps
    /\ pc[t] = "write" => req[t].op = "store" /\ class \in StorePlain
    /\ pc[t] = "wcas" => Expects(t)
    /\ pc[t] = "wseen" => class = "linux_arm"

\* What a writer under the lock writes.
Target(t) == Apply(req[t].op, Whole, exp[t], req[t].arg)

\* The first k bytes of two words agree.
Agree(v, w, k) == \A i \in Offsets : i < k => extract(v, i) = extract(w, i)

\* An object under a lock: only its holder is inside, and what has been copied
\* is what is there.
FallbackInv(t) ==
    /\ pc[t] \in {"f_put", "unlock"} => lock = t
    /\ lock = t => pc[t] \in LockLabels
    /\ pc[t] = "f_load" => req[t].op \in FetchOps \cup {"load"}
    /\ pc[t] = "f_cas" => req[t].op \in FetchOps \cup CasOps /\ Expects(t)
    /\ pc[t] = "f_exchange" => req[t].op \in FetchOps
    /\ pc[t] = "f_store" => req[t].op = "store" /\ (ok[t] <=> lock = t)
    /\ pc[t] = "f_put" => ok[t] /\ req[t].op \in FetchOps \cup CasOps
    /\ pc[t] = "unlock" => ok[t] \/ req[t].op \in FetchOps \cup CasOps
    /\ part[t] # 0 => lock = t /\ pc[t] # "unlock"
    /\ lock = t /\ pc[t] \in OutLabels => Agree(wexp[t], word, part[t])
    /\ t \in Writing => Agree(word, Target(t), part[t])

ClassesInv ==
    /\ ClassesTypeOK
    /\ \A t \in Threads : Serving(t)
    /\ class = "larger_type" => \A t \in Threads : BuilderInv(t)
    /\ class \notin {"larger_type", "fallback"} => \A t \in Threads : NativeInv(t)
    /\ class = "fallback" => \A t \in Threads : FallbackInv(t)
    /\ class # "fallback" => lock = "nobody"

-----------------------------------------------------------------------------
(* Numbers *)

\* A set of numbers has a least one: the form in which induction is used here.
LEMMA Least ==
    ASSUME NEW S \in SUBSET Nat, S # {}
    PROVE  \E x \in S : \A y \in S : x <= y
  <1> DEFINE R == OpToRel(<, Nat)
  <1>1. IsWellFoundedOn(R, Nat)
    BY NatLessThanWellFounded
  <1>2. \A x, y \in Nat : <<y, x>> \in R <=> y < x
    BY DEF OpToRel
  <1> HIDE DEF R
  <1>3. PICK x \in S : \A y \in S : <<y, x>> \notin R
    BY <1>1, WFMin
  <1>4. ASSUME NEW y \in S PROVE x <= y
    <2>1. x \in Nat /\ y \in Nat
      OBVIOUS
    <2>2. ~(y < x)
      BY <1>2, <1>3, <2>1
    <2> QED
      BY <2>1, <2>2
  <1> QED
    BY <1>4

\* Quotient and remainder are the ones that fit.
LEMMA DivMod ==
    ASSUME NEW d \in Nat \ {0}, NEW q \in Nat, NEW r \in Nat, r < d
    PROVE  (r + d * q) \div d = q /\ (r + d * q) % d = r
  BY SMTT(30)

\* Every number has them.
LEMMA DivModFits ==
    ASSUME NEW d \in Nat \ {0}, NEW v \in Nat
    PROVE  /\ v \div d \in Nat /\ v % d \in Nat /\ v % d < d
           /\ v = (v % d) + d * (v \div d)
  BY SMTT(30)

\* The product of two numbers.
LEMMA Product ==
    ASSUME NEW a \in Nat, NEW b \in Nat
    PROVE  a * b \in Nat
  BY SMTT(30)

\* A larger factor makes a larger product.
LEMMA ProductMonotone ==
    ASSUME NEW a \in Nat, NEW b \in Nat, NEW c \in Nat, b <= c
    PROVE  a * b <= a * c
  BY SMTT(30)

LEMMA Associative ==
    ASSUME NEW a \in Int, NEW b \in Int, NEW c \in Int
    PROVE  a * (b * c) = (a * b) * c
  BY SMTT(30)

LEMMA Distributive ==
    ASSUME NEW a \in Int, NEW b \in Int, NEW c \in Int
    PROVE  a * (b + c) = a * b + a * c /\ a * (b - c) = a * b - a * c
  BY SMTT(30)

\* Dividing twice is dividing by the product.
LEMMA DivDiv ==
    ASSUME NEW a \in Nat \ {0}, NEW q \in Nat \ {0}, NEW v \in Nat
    PROVE  v \div (a * q) = (v \div a) \div q
  <1> DEFINE r == v % a
             x == v \div a
             s == x % q
             z == x \div q
             l == r + a * s
  <1>1. r \in Nat /\ x \in Nat /\ r < a /\ v = r + a * x
    BY DivModFits
  <1> HIDE DEF r, x
  <1>2. s \in Nat /\ z \in Nat /\ s < q /\ s <= q - 1 /\ q - 1 \in Nat /\ x = s + q * z
    BY <1>1, DivModFits
  <1> HIDE DEF s, z
  <1>3. a * s \in Nat /\ q * z \in Nat /\ a * q \in Nat \ {0} /\ (a * q) * z \in Nat
    <2>1. a * q \in Nat \ {0}
      BY SMTT(30)
    <2> QED
      BY <1>2, <2>1, Product
  <1>4. a * s <= a * (q - 1) /\ a * (q - 1) = a * q - a * 1
    BY <1>2, ProductMonotone, Distributive
  <1>5. l \in Nat /\ l < a * q
    BY <1>1, <1>3, <1>4
  <1>6. a * x = a * s + (a * q) * z
    <2>1. a * (s + q * z) = a * s + a * (q * z)
      BY <1>2, <1>3, Distributive
    <2> QED
      BY <1>2, <2>1, Associative
  <1>7. v = l + (a * q) * z
    BY <1>1, <1>3, <1>6
  <1> HIDE DEF l
  <1>8. (l + (a * q) * z) \div (a * q) = z
    BY <1>2, <1>3, <1>5, DivMod
  <1> QED
    BY <1>7, <1>8 DEF x, z

-----------------------------------------------------------------------------
(* Words *)

\* The recursion that defines Place has a solution, and Place is it.
LEMMA PlaceDef ==
    \A k \in 0 .. WordBytes : Place[k] = IF k = 0 THEN 1 ELSE ByteMod * Place[k - 1]
  <1> DEFINE Rec(g, m) == g = [k \in 0 .. m |-> IF k = 0 THEN 1 ELSE ByteMod * g[k - 1]]
             S == {m \in Nat : ~(\E g : Rec(g, m))}
  <1>1. S = {}
    <2> SUFFICES ASSUME S # {} PROVE FALSE
      OBVIOUS
    <2>1. S \in SUBSET Nat
      OBVIOUS
    <2> HIDE DEF S
    <2>2. PICK x \in S : \A y \in S : x <= y
      BY <2>1, Least
    <2>3. x \in Nat /\ ~(\E g : Rec(g, x))
      BY <2>2 DEF S
    <2>4. CASE x = 0
      <3> DEFINE h == [k \in 0 .. 0 |-> 1]
      <3>1. h = [k \in 0 .. 0 |-> IF k = 0 THEN 1 ELSE ByteMod * h[k - 1]]
        OBVIOUS
      <3> QED
        BY <2>3, <2>4, <3>1
    <2>5. CASE x # 0
      <3>1. x - 1 \in Nat /\ x - 1 \notin S
        BY <2>2, <2>3, <2>5
      <3>2. PICK g : Rec(g, x - 1)
        BY <3>1 DEF S
      <3> DEFINE h == [k \in 0 .. x |-> IF k = x THEN ByteMod * g[x - 1] ELSE g[k]]
      <3>3. ASSUME NEW k \in 0 .. x
            PROVE  h[k] = IF k = 0 THEN 1 ELSE ByteMod * h[k - 1]
        <4>1. CASE k = x
          BY <2>3, <2>5, <4>1
        <4>2. CASE k # x
          <5>1. k \in 0 .. x - 1 /\ (k # 0 => k - 1 \in 0 .. x /\ k - 1 # x)
            BY <2>3, <4>2
          <5> QED
            BY <3>2, <4>2, <5>1
        <4> QED
          BY <4>1, <4>2
      <3>4. h = [k \in 0 .. x |-> IF k = 0 THEN 1 ELSE ByteMod * h[k - 1]]
        <4>1. h = [k \in 0 .. x |-> h[k]]
          OBVIOUS
        <4> HIDE DEF h
        <4> QED
          BY <3>3, <4>1
      <3> QED
        BY <2>3, <3>4
    <2> QED
      BY <2>4, <2>5
  <1>2. \E g : Rec(g, WordBytes)
    BY <1>1, BuilderAssumption
  <1>3. Place = CHOOSE g : Rec(g, WordBytes)
    BY DEF Place
  <1> HIDE DEF Place
  <1>4. Rec(Place, WordBytes)
    BY <1>2, <1>3
  <1> QED
    BY <1>4

\* Weights are positive numbers, and each is a multiple of the one before.
LEMMA PlaceType ==
    ASSUME NEW k \in 0 .. WordBytes
    PROVE  Place[k] \in Nat \ {0}
  <1> DEFINE S == {m \in 0 .. WordBytes : Place[m] \notin Nat \ {0}}
  <1>1. S = {}
    <2> SUFFICES ASSUME S # {} PROVE FALSE
      OBVIOUS
    <2>1. S \in SUBSET Nat
      BY BuilderAssumption
    <2> HIDE DEF S
    <2>2. PICK x \in S : \A y \in S : x <= y
      BY <2>1, Least
    <2>3. x \in 0 .. WordBytes /\ Place[x] \notin Nat \ {0}
      BY <2>2 DEF S
    <2>4. x # 0
      BY <2>3, PlaceDef
    <2>5. x - 1 \in 0 .. WordBytes /\ x - 1 \notin S
      BY <2>2, <2>3, <2>4, BuilderAssumption
    <2>6. Place[x - 1] \in Nat \ {0}
      BY <2>5 DEF S
    <2>7. Place[x] = ByteMod * Place[x - 1]
      BY <2>3, <2>4, PlaceDef
    <2> QED
      BY <2>3, <2>6, <2>7, BuilderAssumption, SMTT(30)
  <1> QED
    BY <1>1

LEMMA PlaceNext ==
    ASSUME NEW k \in Offsets
    PROVE  /\ k \in 0 .. WordBytes /\ k + 1 \in 0 .. WordBytes
           /\ Place[k + 1] = Place[k] * ByteMod
           /\ Place[k] \in Nat \ {0} /\ Place[k + 1] \in Nat \ {0}
  <1>1. k \in 0 .. WordBytes /\ k + 1 \in 0 .. WordBytes /\ k + 1 # 0 /\ (k + 1) - 1 = k
    BY BuilderAssumption DEF Offsets
  <1>2. Place[k + 1] = ByteMod * Place[k]
    BY <1>1, PlaceDef
  <1>3. Place[k] \in Nat \ {0} /\ Place[k + 1] \in Nat \ {0}
    BY <1>1, PlaceType
  <1> QED
    BY <1>1, <1>2, <1>3, BuilderAssumption

\* A weight divides every later one.
LEMMA PlaceDivides ==
    ASSUME NEW k \in 0 .. WordBytes, NEW m \in 0 .. WordBytes, k <= m
    PROVE  \E q \in Nat \ {0} : Place[m] = Place[k] * q
  <1> DEFINE S == {x \in 0 .. WordBytes : k <= x /\ ~(\E q \in Nat \ {0} : Place[x] = Place[k] * q)}
  <1>1. S = {}
    <2> SUFFICES ASSUME S # {} PROVE FALSE
      OBVIOUS
    <2>1. S \in SUBSET Nat
      BY BuilderAssumption
    <2> HIDE DEF S
    <2>2. PICK x \in S : \A y \in S : x <= y
      BY <2>1, Least
    <2>3. x \in 0 .. WordBytes /\ k <= x /\ ~(\E q \in Nat \ {0} : Place[x] = Place[k] * q)
      BY <2>2 DEF S
    <2>4. Place[k] \in Nat /\ Place[k] = Place[k] * 1
      BY PlaceType
    <2>5. x # k
      BY <2>3, <2>4
    <2>6. x - 1 \in Offsets /\ k <= x - 1 /\ x - 1 \in 0 .. WordBytes /\ x - 1 < x /\ (x - 1) + 1 = x
      BY <2>3, <2>5, BuilderAssumption DEF Offsets
    <2>7. x - 1 \notin S
      BY <2>2, <2>3, <2>6
    <2>8. PICK q \in Nat \ {0} : Place[x - 1] = Place[k] * q
      BY <2>6, <2>7 DEF S
    <2>9. Place[x] = Place[x - 1] * ByteMod
      BY <2>6, PlaceNext
    <2>10. ByteMod \in Nat \ {0}
      BY BuilderAssumption
    <2>11. Place[x] = Place[k] * (q * ByteMod) /\ q * ByteMod \in Nat \ {0}
      <3>1. Place[k] * (q * ByteMod) = (Place[k] * q) * ByteMod
        BY <2>4, <2>10, Associative
      <3>2. q * ByteMod \in Nat \ {0}
        BY <2>10, SMTT(30)
      <3> QED
        BY <2>8, <2>9, <3>1, <3>2
    <2> QED
      BY <2>3, <2>11
  <1> QED
    BY <1>1

\* The byte of v that has the weight Place[k], and v with this byte replaced.
ByteOf(v, k) == (v \div Place[k]) % ByteMod
Put(v, k, s) == v + (s - ByteOf(v, k)) * Place[k]

\* A number put together from what is below a byte, the byte, and what is
\* above it.
LEMMA Joined ==
    ASSUME NEW k \in Offsets, NEW lo \in Nat, lo < Place[k], NEW b \in Byte, NEW hi \in Nat,
           NEW v, v = lo + Place[k] * (b + ByteMod * hi)
    PROVE  /\ v \in Nat
           /\ ByteOf(v, k) = b
           /\ v % Place[k] = lo
           /\ v \div Place[k + 1] = hi
           /\ v % Place[k + 1] = lo + Place[k] * b
           /\ v = (lo + Place[k] * b) + Place[k + 1] * hi
           /\ lo + Place[k] * b \in Nat /\ lo + Place[k] * b < Place[k + 1]
  <1> DEFINE p == Place[k]
             p1 == Place[k + 1]
             c == b + ByteMod * hi
  <1>1. p \in Nat \ {0} /\ p1 \in Nat \ {0} /\ p1 = p * ByteMod
    BY PlaceNext
  <1>2. ByteMod \in Nat \ {0} /\ b \in Nat /\ b < ByteMod /\ b <= ByteMod - 1 /\ ByteMod - 1 \in Nat
    BY BuilderAssumption DEF Byte
  <1>3. v = lo + p * c /\ lo < p
    OBVIOUS
  <1>4. ByteMod * hi \in Nat /\ c \in Nat
    BY <1>2, Product
  <1>5. c % ByteMod = b
    BY <1>2, DivMod
  <1>6. ByteOf(v, k) = c % ByteMod /\ v % p = lo
    <2> HIDE DEF c
    <2> QED
      BY <1>1, <1>3, <1>4, DivMod DEF ByteOf
  <1>7. p * c = p * b + p1 * hi
    <2>1. p * c = p * b + p * (ByteMod * hi)
      BY <1>1, <1>2, <1>4, Distributive
    <2>2. p * (ByteMod * hi) = p1 * hi
      BY <1>1, <1>2, Associative
    <2> QED
      BY <2>1, <2>2
  <1>8. p * b \in Nat /\ p * b <= p * (ByteMod - 1)
    BY <1>1, <1>2, Product, ProductMonotone
  <1>9. p * (ByteMod - 1) = p1 - p
    <2>1. p * (ByteMod - 1) = p * ByteMod - p * 1
      BY <1>1, <1>2, Distributive
    <2> QED
      BY <1>1, <2>1
  <1> DEFINE l == lo + p * b
  <1>10. l \in Nat /\ l < p1
    <2> HIDE DEF p, p1
    <2> QED
      BY <1>1, <1>3, <1>8, <1>9
  <1>11. v = l + p1 * hi
    <2>1. p1 * hi \in Nat
      BY <1>1, Product
    <2> HIDE DEF p, p1, c
    <2> QED
      BY <1>3, <1>7, <1>8, <2>1
  <1>12. v \div p1 = hi /\ v % p1 = l
    <2> HIDE DEF p1, l
    <2>1. (l + p1 * hi) \div p1 = hi /\ (l + p1 * hi) % p1 = l
      BY <1>1, <1>10, DivMod
    <2> QED
      BY <1>11, <2>1
  <1>13. v \in Nat
    <2>1. p * c \in Nat
      BY <1>1, <1>4, Product
    <2> HIDE DEF p, c
    <2> QED
      BY <1>3, <2>1
  <1> QED
    BY <1>5, <1>6, <1>10, <1>11, <1>12, <1>13

\* Every number is put together like that.
LEMMA Split ==
    ASSUME NEW k \in Offsets, NEW v \in Nat
    PROVE  /\ v % Place[k] \in Nat /\ v % Place[k] < Place[k]
           /\ ByteOf(v, k) \in Byte
           /\ v \div Place[k + 1] \in Nat
           /\ v = (v % Place[k]) + Place[k] * (ByteOf(v, k) + ByteMod * (v \div Place[k + 1]))
  <1> DEFINE p == Place[k]
             lo == v % p
             x == v \div p
             b == x % ByteMod
             hi == x \div ByteMod
  <1>1. p \in Nat \ {0} /\ ByteMod \in Nat \ {0}
    BY PlaceNext, BuilderAssumption
  <1>2. x \in Nat /\ lo \in Nat /\ lo < p /\ v = lo + p * x
    BY <1>1, DivModFits
  <1>3. b \in Nat /\ hi \in Nat /\ b < ByteMod /\ x = b + ByteMod * hi
    <2> HIDE DEF x
    <2> QED
      BY <1>1, <1>2, DivModFits
  <1>4. b \in Byte /\ b = ByteOf(v, k)
    BY <1>1, <1>3 DEF Byte, ByteOf
  <1> HIDE DEF lo, x, b, hi
  <1>5. v = lo + Place[k] * (b + ByteMod * hi)
    BY <1>2, <1>3
  <1>6. v \div Place[k + 1] = hi
    BY <1>2, <1>3, <1>4, <1>5, Joined
  <1> QED
    BY <1>2, <1>3, <1>4, <1>5, <1>6 DEF lo

\* A byte of a number below a weight belongs to the remainder ...
LEMMA ByteBelow ==
    ASSUME NEW j \in Offsets, NEW k \in Offsets, j < k, NEW v \in Nat
    PROVE  ByteOf(v, j) = ByteOf(v % Place[k], j)
  <1> DEFINE l == v % Place[k]
             x == v \div Place[k]
             p == Place[j]
             lo == l % p
             b == ByteOf(l, j)
             hi == l \div Place[j + 1]
  <1>1. Place[k] \in Nat \ {0} /\ p \in Nat \ {0} /\ Place[j + 1] = p * ByteMod
    BY PlaceNext
  <1>2. ByteMod \in Nat /\ j + 1 <= k /\ j + 1 \in 0 .. WordBytes /\ k \in 0 .. WordBytes
    BY BuilderAssumption DEF Offsets
  <1>3. l \in Nat /\ x \in Nat /\ v = l + Place[k] * x
    BY <1>1, DivModFits
  <1>4. PICK q \in Nat \ {0} : Place[k] = Place[j + 1] * q
    BY <1>2, PlaceDivides
  <1> HIDE DEF x
  <1>5. /\ lo \in Nat /\ lo < p /\ b \in Byte /\ b \in Nat /\ hi \in Nat
        /\ l = lo + p * (b + ByteMod * hi)
    <2> HIDE DEF l
    <2>1. b \in Byte
      BY <1>3, Split
    <2>2. b \in Nat
      BY <2>1 DEF Byte
    <2> QED
      BY <1>3, <2>1, <2>2, Split
  <1> HIDE DEF l, lo, b, hi
  <1>6. q * x \in Nat /\ hi + q * x \in Nat /\ ByteMod * hi \in Nat /\ ByteMod * (q * x) \in Nat
    BY <1>2, <1>3, <1>5, Product
  <1>7. Place[k] * x = p * (ByteMod * (q * x))
    <2>1. Place[k] * x = (p * ByteMod) * (q * x)
      BY <1>1, <1>2, <1>3, <1>4, Associative
    <2> HIDE DEF p
    <2>2. (p * ByteMod) * (q * x) = p * (ByteMod * (q * x))
      BY <1>1, <1>2, <1>6, Associative
    <2> QED
      BY <2>1, <2>2
  <1>8. v = lo + Place[j] * (b + ByteMod * (hi + q * x))
    <2>1. ByteMod * (hi + q * x) = ByteMod * hi + ByteMod * (q * x)
      BY <1>2, <1>5, <1>6, Distributive
    <2>2. p * ((b + ByteMod * hi) + ByteMod * (q * x))
            = p * (b + ByteMod * hi) + p * (ByteMod * (q * x))
      BY <1>1, <1>5, <1>6, Distributive
    <2>3. b + (ByteMod * hi + ByteMod * (q * x)) = (b + ByteMod * hi) + ByteMod * (q * x)
      BY <1>5, <1>6
    <2>4. p * (b + ByteMod * hi) \in Nat /\ p * (ByteMod * (q * x)) \in Nat
      BY <1>1, <1>5, <1>6, Product
    <2> DEFINE y == p * (b + ByteMod * hi)
               z == p * (ByteMod * (q * x))
    <2>5. v = lo + (y + z)
      <3>1. v = (lo + y) + z
        BY <1>3, <1>5, <1>7
      <3>2. y \in Nat /\ z \in Nat
        BY <2>4
      <3> HIDE DEF y, z
      <3> QED
        BY <1>5, <3>1, <3>2
    <2> QED
      BY <2>1, <2>2, <2>3, <2>5
  <1>9. ByteOf(v, j) = b
    BY <1>5, <1>6, <1>8, Joined
  <1> QED
    BY <1>9 DEF b, l

\* ... and one above it to the quotient.
LEMMA ByteAbove ==
    ASSUME NEW j \in Offsets, NEW k \in Offsets, k < j, NEW v \in Nat, NEW w \in Nat,
           v \div Place[k + 1] = w \div Place[k + 1]
    PROVE  ByteOf(v, j) = ByteOf(w, j)
  <1>1. Place[k + 1] \in Nat \ {0} /\ Place[j] \in Nat
    BY PlaceNext
  <1>2. k + 1 <= j /\ k + 1 \in 0 .. WordBytes /\ j \in 0 .. WordBytes
    BY BuilderAssumption DEF Offsets
  <1>3. PICK q \in Nat \ {0} : Place[j] = Place[k + 1] * q
    BY <1>2, PlaceDivides
  <1>4. \A u \in Nat : u \div Place[j] = (u \div Place[k + 1]) \div q
    BY <1>1, <1>3, DivDiv
  <1> QED
    BY <1>4 DEF ByteOf

\* Replacing a byte keeps what is below and above it.
LEMMA PutParts ==
    ASSUME NEW k \in Offsets, NEW v \in Nat, NEW s \in Byte
    PROVE  /\ Put(v, k, s) \in Nat
           /\ ByteOf(Put(v, k, s), k) = s
           /\ Put(v, k, s) % Place[k] = v % Place[k]
           /\ Put(v, k, s) \div Place[k + 1] = v \div Place[k + 1]
  <1> DEFINE p == Place[k]
             lo == v % Place[k]
             b == ByteOf(v, k)
             hi == v \div Place[k + 1]
  <1>1. /\ lo \in Nat /\ lo < Place[k] /\ b \in Byte /\ hi \in Nat
        /\ v = lo + p * (b + ByteMod * hi)
    BY Split
  <1> HIDE DEF lo, b, hi
  <1>2. p \in Nat /\ ByteMod \in Nat /\ b \in Nat /\ s \in Nat
    BY <1>1, PlaceNext, BuilderAssumption DEF Byte
  <1>3. ByteMod * hi \in Nat
    BY <1>1, <1>2, Product
  <1>4. Put(v, k, s) = lo + Place[k] * (s + ByteMod * hi)
    <2>1. p * (b + ByteMod * hi) = p * b + p * (ByteMod * hi)
      BY <1>2, <1>3, Distributive
    <2>2. p * (s + ByteMod * hi) = p * s + p * (ByteMod * hi)
      BY <1>2, <1>3, Distributive
    <2>3. (s - b) * p = p * s - p * b
      <3>1. p * (s - b) = p * s - p * b
        BY <1>2, Distributive
      <3>2. (s - b) * p = p * (s - b)
        BY <1>2, SMTT(30)
      <3> QED
        BY <3>1, <3>2
    <2>4. p * b \in Nat /\ p * s \in Nat /\ p * (ByteMod * hi) \in Nat
      BY <1>2, <1>3, Product
    <2>5. Put(v, k, s) = v + (p * s - p * b)
      BY <2>3 DEF Put, b
    <2> DEFINE y == p * b
               z == p * s
               w == p * (ByteMod * hi)
    <2>6. y \in Nat /\ z \in Nat /\ w \in Nat /\ v = lo + (y + w) /\ Put(v, k, s) = v + (z - y)
      BY <1>1, <2>1, <2>4, <2>5
    <2>7. p * (s + ByteMod * hi) = z + w
      BY <2>2
    <2>8. Put(v, k, s) = lo + (z + w)
      <3> HIDE DEF y, z, w
      <3> QED
        BY <1>1, <2>6
    <2> QED
      BY <2>7, <2>8
  <1> QED
    BY <1>1, <1>4, Joined DEF lo, hi

\* A word stays a word.
LEMMA PutType ==
    ASSUME NEW k \in Offsets, NEW v \in Word, NEW s \in Byte
    PROVE  Put(v, k, s) \in Word
  <1> DEFINE u == Put(v, k, s)
             p1 == Place[k + 1]
             hi == v \div p1
             l == u % p1
  <1>1. p1 \in Nat \ {0} /\ k + 1 \in 0 .. WordBytes /\ WordBytes \in 0 .. WordBytes
        /\ k + 1 <= WordBytes
    BY PlaceNext, BuilderAssumption DEF Offsets
  <1>2. PICK q \in Nat \ {0} : WordMod = p1 * q
    BY <1>1, PlaceDivides DEF WordMod
  <1>3. v \in Nat /\ v < WordMod /\ WordMod \in Nat
    BY <1>1, PlaceType DEF Word, WordMod
  <1>4. u \in Nat /\ u \div p1 = hi
    BY <1>3, PutParts
  <1>5. hi \in Nat /\ v % p1 \in Nat /\ v = (v % p1) + p1 * hi
    BY <1>1, <1>3, DivModFits
  <1>6. hi < q
    <2> SUFFICES ASSUME q <= hi PROVE FALSE
      BY <1>5
    <2>1. p1 * q <= p1 * hi /\ p1 * hi \in Nat
      BY <1>1, <1>5, Product, ProductMonotone
    <2> HIDE DEF hi, p1
    <2> QED
      BY <1>2, <1>3, <1>5, <2>1
  <1> HIDE DEF u, hi
  <1>7. l \in Nat /\ l < p1 /\ u = l + p1 * hi
    BY <1>1, <1>4, DivModFits
  <1> HIDE DEF p1, l
  <1>8. p1 * (hi + 1) <= p1 * q
    BY <1>1, <1>5, <1>6, ProductMonotone
  <1>9. p1 * (hi + 1) = p1 * hi + p1 * 1
    BY <1>1, <1>5, Distributive
  <1>10. p1 * hi \in Nat
    BY <1>1, <1>5, Product
  <1>11. u < WordMod
    BY <1>1, <1>2, <1>3, <1>7, <1>8, <1>9, <1>10
  <1> QED
    BY <1>3, <1>4, <1>11 DEF Word, u

\* The other bytes stay as they are.
LEMMA PutOthers ==
    ASSUME NEW k \in Offsets, NEW j \in Offsets, j # k, NEW v \in Nat, NEW s \in Byte
    PROVE  ByteOf(Put(v, k, s), j) = ByteOf(v, j)
  <1>1. CASE j < k
    BY <1>1, PutParts, ByteBelow
  <1>2. CASE k < j
    BY <1>2, PutParts, ByteAbove
  <1> QED
    BY <1>1, <1>2, BuilderAssumption DEF Offsets

\* A remainder is made of the one below it and one more byte.
LEMMA RemainderNext ==
    ASSUME NEW k \in Offsets, NEW v \in Nat
    PROVE  v % Place[k + 1] = (v % Place[k]) + Place[k] * ByteOf(v, k)
  <1> DEFINE lo == v % Place[k]
             b == ByteOf(v, k)
             hi == v \div Place[k + 1]
  <1>1. /\ lo \in Nat /\ lo < Place[k] /\ b \in Byte /\ hi \in Nat
        /\ v = lo + Place[k] * (b + ByteMod * hi)
    BY Split
  <1> HIDE DEF lo, b, hi
  <1>2. v % Place[k + 1] = lo + Place[k] * b
    BY <1>1, Joined
  <1> QED
    BY <1>2 DEF lo, b

\* Words with the same bytes are the same.
LEMMA EqualBytes ==
    ASSUME NEW v \in Word, NEW w \in Word, \A k \in Offsets : ByteOf(v, k) = ByteOf(w, k)
    PROVE  v = w
  <1> DEFINE S == {k \in 0 .. WordBytes : v % Place[k] # w % Place[k]}
  <1>1. WordMod \in Nat \ {0} /\ WordBytes \in 0 .. WordBytes
    BY PlaceType, BuilderAssumption DEF WordMod
  <1>2. v \in Nat /\ w \in Nat /\ v < WordMod /\ w < WordMod
    BY <1>1 DEF Word
  <1>3. S = {}
    <2> SUFFICES ASSUME S # {} PROVE FALSE
      OBVIOUS
    <2>1. S \in SUBSET Nat
      BY BuilderAssumption
    <2> HIDE DEF S
    <2>2. PICK x \in S : \A y \in S : x <= y
      BY <2>1, Least
    <2>3. x \in 0 .. WordBytes /\ v % Place[x] # w % Place[x]
      BY <2>2 DEF S
    <2>4. x # 0
      <3>1. Place[0] = 1
        BY PlaceDef, BuilderAssumption
      <3> QED
        BY <1>2, <2>3, <3>1
    <2> DEFINE k == x - 1
    <2>5. k \in Offsets /\ k \in 0 .. WordBytes /\ k + 1 = x /\ ~(x <= k)
      BY <2>3, <2>4, BuilderAssumption DEF Offsets
    <2> HIDE DEF k
    <2>6. v % Place[k] = w % Place[k]
      BY <2>2, <2>5 DEF S
    <2>7. \A u \in Nat : u % Place[k + 1] = (u % Place[k]) + Place[k] * ByteOf(u, k)
      BY <2>5, RemainderNext
    <2>8. v % Place[k + 1] = w % Place[k + 1]
      BY <1>2, <2>5, <2>6, <2>7
    <2> QED
      BY <2>3, <2>5, <2>8
  <1>4. v % WordMod = w % WordMod
    BY <1>1, <1>3 DEF WordMod
  <1> QED
    BY <1>1, <1>2, <1>4

-----------------------------------------------------------------------------
(* Objects in a word *)

\* The place of the object at i.
Pos(i) == IF BigEndian THEN WordBytes - 1 - i ELSE i

LEMMA PosFacts ==
    ASSUME NEW i \in Offsets
    PROVE  /\ Pos(i) \in Offsets /\ Pos(Pos(i)) = i
           /\ \A j \in Offsets : j # i => Pos(j) # Pos(i)
           /\ \A v : extract(v, i) = ByteOf(v, Pos(i))
           /\ \A v, s : insert(v, i, s) = Put(v, Pos(i), s)
  <1>1. Pos(i) \in Offsets /\ Pos(Pos(i)) = i /\ \A j \in Offsets : j # i => Pos(j) # Pos(i)
    BY BuilderAssumption DEF Pos, Offsets
  <1>2. Weight(i) = Place[Pos(i)]
    BY DEF Weight, Pos
  <1> QED
    BY <1>1, <1>2 DEF extract, insert, ByteOf, Put

LEMMA WordNat ==
    /\ WordMod \in Nat \ {0} /\ ByteMod \in Nat \ {0} /\ ByteMod <= WordMod
    /\ Word \subseteq Nat /\ Byte \subseteq Word /\ 0 \in Byte /\ 0 \in Word
    /\ 0 \in Offsets /\ Whole \notin Offsets /\ WordMod \notin Word
  <1>1. WordMod \in Nat \ {0} /\ ByteMod \in Nat \ {0} /\ WordBytes \in Nat \ {0}
        /\ WordBytes \in 0 .. WordBytes /\ 1 \in 0 .. WordBytes /\ 0 \in 0 .. WordBytes /\ 1 <= WordBytes
    BY PlaceType, BuilderAssumption DEF WordMod
  <1>2. Place[1] = ByteMod
    BY <1>1, PlaceDef
  <1>3. PICK q \in Nat \ {0} : WordMod = ByteMod * q
    BY <1>1, <1>2, PlaceDivides DEF WordMod
  <1>4. ByteMod <= WordMod
    <2>1. ByteMod * 1 <= ByteMod * q
      BY <1>1, ProductMonotone
    <2> QED
      BY <1>1, <1>3, <2>1
  <1> QED
    BY <1>1, <1>4 DEF Word, Byte, Offsets, Whole

\* The object is a byte.
LEMMA ExtractType ==
    ASSUME NEW i \in Offsets, NEW v \in Word
    PROVE  extract(v, i) \in Byte
  <1>1. v \in Nat /\ Pos(i) \in Offsets /\ extract(v, i) = ByteOf(v, Pos(i))
    BY WordNat, PosFacts
  <1> QED
    BY <1>1, Split

\* insert replaces the object under the mask and nothing else: extract finds
\* the object that was put in and the other objects of the word as they were,
\* for every size of the object and of the word and in both byte orders
\* (builder.hpp:301-319).
THEOREM InsertReplaces ==
    ASSUME NEW i \in Offsets, NEW v \in Word, NEW s \in Byte
    PROVE  /\ insert(v, i, s) \in Word
           /\ extract(insert(v, i, s), i) = s
           /\ \A j \in Offsets : j # i => extract(insert(v, i, s), j) = extract(v, j)
  <1>1. v \in Nat /\ Pos(i) \in Offsets /\ insert(v, i, s) = Put(v, Pos(i), s)
    BY WordNat, PosFacts
  <1>2. insert(v, i, s) \in Word
    BY <1>1, PutType
  <1>3. extract(insert(v, i, s), i) = s
    BY <1>1, PosFacts, PutParts
  <1>4. ASSUME NEW j \in Offsets, j # i
        PROVE  extract(insert(v, i, s), j) = extract(v, j)
    <2>1. Pos(j) \in Offsets /\ Pos(j) # Pos(i)
      BY <1>4, PosFacts
    <2>2. ByteOf(Put(v, Pos(i), s), Pos(j)) = ByteOf(v, Pos(j))
      BY <1>1, <2>1, PutOthers
    <2> QED
      BY <1>1, <2>2, PosFacts
  <1> QED
    BY <1>2, <1>3, <1>4

\* Words with the same objects are the same.
LEMMA EqualObjects ==
    ASSUME NEW v \in Word, NEW w \in Word, \A i \in Offsets : extract(v, i) = extract(w, i)
    PROVE  v = w
  <1>1. ASSUME NEW k \in Offsets PROVE ByteOf(v, k) = ByteOf(w, k)
    <2>1. Pos(k) \in Offsets /\ Pos(Pos(k)) = k
      BY PosFacts
    <2>2. extract(v, Pos(k)) = extract(w, Pos(k))
      BY <2>1
    <2> QED
      BY <2>1, <2>2, PosFacts
  <1> QED
    BY <1>1, EqualBytes

\* What an operation makes of a value is a value of the same type.
LEMMA ApplyType ==
    ASSUME NEW op \in Ops, NEW i \in Offsets \cup {Whole},
           NEW v \in 0 .. Modulus(i) - 1, NEW c \in 0 .. Modulus(i) - 1
    PROVE  Apply(op, i, v, c) \in 0 .. Modulus(i) - 1
  <1> DEFINE m == Modulus(i)
  <1>1. m \in {ByteMod, WordMod} /\ m \in Nat \ {0}
    BY WordNat DEF Modulus
  <1> HIDE DEF m
  <1>2. BitAnd(v, c) \in 0 .. m - 1 /\ BitOr(v, c) \in 0 .. m - 1 /\ BitXor(v, c) \in 0 .. m - 1
    BY <1>1, BitsAssumption DEF m
  <1>3. (v + c) % m \in 0 .. m - 1 /\ (v + (m - c)) % m \in 0 .. m - 1
    BY <1>1 DEF m
  <1> QED
    BY <1>2, <1>3 DEF m, Apply, Ops, FetchOps, CasOps

\* What load and store make of it.
LEMMA ApplyLoad ==
    ASSUME NEW op, op = "load", NEW i, NEW v, NEW c
    PROVE  Apply(op, i, v, c) = v
  BY DEF Apply, CasOps

LEMMA ApplyStore ==
    ASSUME NEW op, op = "store", NEW i, NEW v, NEW c
    PROVE  Apply(op, i, v, c) = c
  BY DEF Apply, CasOps

-----------------------------------------------------------------------------
(* Steps of one thread *)

\* A step of t leaves the other threads where they are.
OnlyOf(t) ==
    /\ class' = class
    /\ \A u \in Threads \ {t} :
        /\ pc'[u] = pc[u] /\ req'[u] = req[u] /\ exp'[u] = exp[u]
        /\ wexp'[u] = wexp[u] /\ ok'[u] = ok[u] /\ part'[u] = part[u]

\* What is known of a thread.
LEMMA ThreadTypes ==
    ASSUME ClassesTypeOK, NEW t \in Threads
    PROVE  /\ pc[t] \in Labels /\ exp[t] \in Word /\ wexp[t] \in Word /\ ok[t] \in BOOLEAN
           /\ part[t] \in Offsets /\ word \in Word
           /\ class = "larger_type" => exp[t] \in Byte
  <1>1. exp[t] \in Word /\ (class = "larger_type" => exp[t] \in Byte)
    BY WordNat DEF ClassesTypeOK
  <1> QED
    BY <1>1 DEF ClassesTypeOK

\* What is known of the operation of a thread on an object in a larger word.
LEMMA ByteRequest ==
    ASSUME ClassesInv, class = "larger_type", NEW t \in Threads, pc[t] # "idle"
    PROVE  /\ req[t] # NoReq
           /\ req[t] \in [op : Ops, at : Offsets \cup {Whole}, arg : Word, exp : Word]
           /\ req[t].op \in Ops /\ req[t].at \in Offsets /\ req[t].arg \in Byte
           /\ req[t].exp \in Byte
           /\ \A v \in Byte : Apply(req[t].op, req[t].at, v, req[t].arg) \in Byte
  <1>1. /\ req[t] # NoReq
        /\ req[t] \in [op : Ops, at : Offsets \cup {Whole}, arg : Word, exp : Word]
        /\ req[t].at \in Offsets /\ req[t].arg \in Byte /\ req[t].exp \in Byte
    BY DEF ClassesInv, Serving
  <1>2. req[t].op \in Ops
    BY <1>1
  <1>3. 0 .. Modulus(req[t].at) - 1 = Byte
    BY <1>1, WordNat DEF Modulus, Byte
  <1>4. \A v \in Byte : Apply(req[t].op, req[t].at, v, req[t].arg) \in Byte
    BY <1>1, <1>2, <1>3, ApplyType
  <1> QED
    BY <1>1, <1>2, <1>4

\* ... and on a whole word.
LEMMA WordRequest ==
    ASSUME ClassesInv, class # "larger_type", NEW t \in Threads, pc[t] # "idle"
    PROVE  /\ req[t] # NoReq
           /\ req[t] \in [op : Ops, at : Offsets \cup {Whole}, arg : Word, exp : Word]
           /\ req[t].op \in Ops /\ req[t].at = Whole /\ req[t].arg \in Word
           /\ req[t].exp \in Word
           /\ \A v \in Word : Apply(req[t].op, Whole, v, req[t].arg) \in Word
  <1>1. /\ req[t] # NoReq
        /\ req[t] \in [op : Ops, at : Offsets \cup {Whole}, arg : Word, exp : Word]
        /\ req[t].at = Whole
    BY DEF ClassesInv, Serving
  <1>2. req[t].op \in Ops /\ req[t].arg \in Word /\ req[t].exp \in Word
    BY <1>1
  <1>3. 0 .. Modulus(Whole) - 1 = Word
    BY DEF Modulus, Word
  <1>4. \A v \in Word : Apply(req[t].op, Whole, v, req[t].arg) \in Word
    BY <1>2, <1>3, ApplyType
  <1> QED
    BY <1>1, <1>2, <1>4

-----------------------------------------------------------------------------
(* Objects in a larger word: the invariant *)

LEMMA BuilderFrame ==
    ASSUME ClassesInv, class = "larger_type", NEW t \in Threads, OnlyOf(t),
           ClassesTypeOK', lock' = lock, Serving(t)', BuilderInv(t)'
    PROVE  ClassesInv'
  <1>1. class' = "larger_type" /\ lock' = "nobody"
    BY DEF ClassesInv, OnlyOf
  <1>2. ASSUME NEW u \in Threads, u # t PROVE Serving(u)'
    BY <1>2 DEF ClassesInv, OnlyOf, Serving, LabelsOf
  <1>3. ASSUME NEW u \in Threads, u # t PROVE BuilderInv(u)'
    BY <1>3 DEF ClassesInv, OnlyOf, BuilderInv, Expects
  <1> QED
    BY <1>1, <1>2, <1>3 DEF ClassesInv

LEMMA ByteCallInv ==
    ASSUME ClassesInv, class = "larger_type", NEW t \in Threads, ByteCall(t),
           <<class, req'[t].op>> \in Calls
    PROVE  ClassesInv'
  <1> DEFINE First(r) == CASE r.op \in CasOps -> "cas_load"
                           [] r.op = "store" -> "store_load"
                           [] OTHER -> "load"
  <1>0. \A r : /\ First(r) \in {"cas_load", "store_load", "load"}
               /\ First(r) = "cas_load" => r.op \in CasOps
               /\ First(r) = "store_load" => r.op = "store"
               /\ First(r) = "load" => r.op \notin CasOps \cup {"store"}
    OBVIOUS
  <1>1. PICK r \in Requests :
            /\ pc[t] = "idle"
            /\ req' = [req EXCEPT ![t] = r]
            /\ exp' = [exp EXCEPT ![t] = r.exp]
            /\ pc' = [pc EXCEPT ![t] = First(r)]
            /\ UNCHANGED <<word, wexp, ok, classVars>>
    BY Zenon DEF ByteCall, Call, Goto
  <1> HIDE DEF First
  <1>2. /\ r.op \in Ops /\ r.at \in Offsets /\ r.arg \in Byte /\ r.exp \in Byte
        /\ r \in [op : Ops, at : Offsets \cup {Whole}, arg : Word, exp : Word]
    BY WordNat DEF Requests
  <1>3. /\ req \in [Threads -> [op : Ops, at : Offsets \cup {Whole}, arg : Word, exp : Word]
                                \cup {NoReq}]
        /\ pc \in [Threads -> Labels] /\ exp \in [Threads -> Byte]
    BY DEF ClassesInv, ClassesTypeOK
  <1>4. req'[t] = r /\ exp'[t] = r.exp /\ pc'[t] \in {"cas_load", "store_load", "load"}
        /\ (pc'[t] = "cas_load" => r.op \in CasOps)
        /\ (pc'[t] = "store_load" => r.op = "store")
        /\ (pc'[t] = "load" => r.op \notin CasOps \cup {"store"})
    BY <1>0, <1>1, <1>3
  <1>5. ClassesTypeOK'
    <2>1. pc' \in [Threads -> Labels]
      BY <1>0, <1>1, <1>3 DEF Labels
    <2>2. exp' \in [Threads -> Byte] /\ class' = class
      BY <1>1, <1>2, <1>3 DEF classVars
    <2>3. req' \in [Threads -> [op : Ops, at : Offsets \cup {Whole}, arg : Word, exp : Word]
                                \cup {NoReq}]
      BY <1>1, <1>2, <1>3
    <2> QED
      BY <1>1, <2>1, <2>2, <2>3 DEF ClassesInv, ClassesTypeOK, classVars
  <1>6. OnlyOf(t) /\ lock' = lock
    BY <1>1, <1>3 DEF OnlyOf, classVars
  <1>7. Serving(t)'
    <2>1. r # NoReq
      BY <1>2 DEF NoReq, Ops, FetchOps, CasOps
    <2>2. ok'[t] = FALSE
      BY <1>1 DEF ClassesInv, ClassesTypeOK, Serving
    <2> QED
      BY <1>1, <1>2, <1>4, <2>1, <2>2 DEF Serving, LabelsOf, BuilderLabels, classVars
  <1>8. BuilderInv(t)'
    BY <1>4 DEF BuilderInv, Expects
  <1> QED
    BY <1>5, <1>6, <1>7, <1>8, BuilderFrame

\* A step that takes t to label l, with the locals x, y and z.
LEMMA BuilderUpdate ==
    ASSUME ClassesInv, class = "larger_type", NEW t \in Threads, pc[t] # "idle",
           NEW l \in BuilderLabels \ {"idle"}, NEW x \in Byte, NEW y \in Word, NEW z \in BOOLEAN,
           word' \in Word, UNCHANGED <<req, class, part, lock>>,
           pc' = [pc EXCEPT ![t] = l], exp' = [exp EXCEPT ![t] = x],
           wexp' = [wexp EXCEPT ![t] = y], ok' = [ok EXCEPT ![t] = z],
           z => l = "done",
           l = "load" => req[t].op \notin CasOps \cup {"store"},
           l \in {"cas_load", "cas", "cas_seen"} => req[t].op \in FetchOps \cup CasOps,
           l \in {"store_load", "store_cas", "store_seen"} => req[t].op = "store",
           l \in {"cas_load", "cas"} /\ req[t].op \in CasOps => x = req[t].exp,
           l = "cas" => extract(y, req[t].at) = x
    PROVE  ClassesInv'
  <1>1. /\ pc \in [Threads -> Labels] /\ exp \in [Threads -> Byte]
        /\ wexp \in [Threads -> Word] /\ ok \in [Threads -> BOOLEAN] /\ l \in Labels
    BY DEF ClassesInv, ClassesTypeOK, BuilderLabels, Labels
  <1>2. pc'[t] = l /\ exp'[t] = x /\ wexp'[t] = y /\ ok'[t] = z
    BY <1>1
  <1>3. ClassesTypeOK'
    <2>1. /\ pc' \in [Threads -> Labels] /\ exp' \in [Threads -> Byte]
          /\ wexp' \in [Threads -> Word] /\ ok' \in [Threads -> BOOLEAN]
      BY <1>1
    <2> QED
      BY <2>1 DEF ClassesInv, ClassesTypeOK
  <1>4. OnlyOf(t)
    BY <1>1 DEF OnlyOf
  <1>5. Serving(t)'
    BY <1>2 DEF ClassesInv, Serving, LabelsOf
  <1>6. BuilderInv(t)'
    BY <1>2 DEF BuilderInv, Expects
  <1> QED
    BY <1>3, <1>4, <1>5, <1>6, BuilderFrame

\* A local that keeps its value.
LEMMA SameLocal ==
    ASSUME NEW f, NEW V, f \in [Threads -> V], NEW t \in Threads
    PROVE  f = [f EXCEPT ![t] = f[t]]
  OBVIOUS

LEMMA BuilderStepInv ==
    ASSUME ClassesInv, class = "larger_type", NEW t \in Threads,
           BuilderStep(t) \/ CasSpurious(t), UNCHANGED classVars
    PROVE  ClassesInv'
  <1> DEFINE r == req[t]
  <1>1. pc[t] # "idle"
    BY DEF BuilderStep, Load, CasLoad, CasWord, CasFail, CasSpurious, CasSeen, StoreLoad,
           StoreCas, StoreFail
  <1>2. /\ r.op \in Ops /\ r.at \in Offsets /\ r.arg \in Byte /\ r.exp \in Byte
        /\ \A v \in Byte : Apply(r.op, r.at, v, r.arg) \in Byte
    BY <1>1, ByteRequest
  <1>3. /\ exp[t] \in Byte /\ wexp[t] \in Word /\ ok[t] \in BOOLEAN /\ word \in Word
        /\ 0 \in Word
    BY ThreadTypes, WordNat DEF ClassesInv
  <1>4. /\ exp = [exp EXCEPT ![t] = exp[t]] /\ wexp = [wexp EXCEPT ![t] = wexp[t]]
        /\ ok = [ok EXCEPT ![t] = ok[t]] /\ pc = [pc EXCEPT ![t] = pc[t]]
    BY SameLocal DEF ClassesInv, ClassesTypeOK
  <1>5. extract(word, r.at) \in Byte /\ extract(wexp[t], r.at) \in Byte
    BY <1>2, <1>3, ExtractType
  <1>6. BuilderInv(t) /\ (ok[t] => pc[t] = "done" \/ pc[t] \notin BuilderLabels) /\ pc[t] \in BuilderLabels
    BY DEF ClassesInv, Serving, LabelsOf, BuilderLabels
  <1>7. UNCHANGED <<class, part, lock>>
    BY DEF classVars
  <1>8. r.op \in CasOps \/ r.op = "store" \/ r.op = "load" \/ r.op \in FetchOps
    BY <1>2 DEF Ops
  <1>9. CASE Load(t)
    <2> DEFINE l == IF r.op = "load" THEN "done" ELSE "cas_load"
               z == IF r.op = "load" THEN TRUE ELSE ok[t]
    <2>1. /\ pc[t] = "load" /\ exp' = [exp EXCEPT ![t] = extract(word, r.at)]
          /\ pc' = [pc EXCEPT ![t] = l] /\ ok' = [ok EXCEPT ![t] = z]
          /\ word' = word /\ req' = req /\ wexp' = [wexp EXCEPT ![t] = wexp[t]]
      BY <1>4, <1>9 DEF Load, Goto
    <2>2. /\ l \in BuilderLabels \ {"idle", "load", "cas", "cas_seen", "store_load", "store_cas", "store_seen"}
          /\ z \in BOOLEAN /\ (z => l = "done")
          /\ l = "cas_load" => r.op \in FetchOps
      BY <1>3, <1>6, <1>8, <2>1 DEF BuilderInv, BuilderLabels
    <2> HIDE DEF l, z
    <2>3. r.op \in FetchOps => r.op \notin CasOps
      BY DEF FetchOps, CasOps
    <2> QED
      BY <1>1, <1>3, <1>5, <1>7, <2>1, <2>2, <2>3, BuilderUpdate DEF BuilderLabels
  <1>10. CASE CasLoad(t)
    <2> DEFINE y == insert(word, r.at, exp[t])
    <2>1. /\ pc[t] = "cas_load" /\ wexp' = [wexp EXCEPT ![t] = y] /\ pc' = [pc EXCEPT ![t] = "cas"]
          /\ word' = word /\ req' = req /\ exp' = [exp EXCEPT ![t] = exp[t]]
          /\ ok' = [ok EXCEPT ![t] = ok[t]]
      BY <1>4, <1>10 DEF CasLoad, Goto
    <2>2. y \in Word /\ extract(y, r.at) = exp[t]
      BY <1>2, <1>3, InsertReplaces
    <2>3. /\ ~ok[t] /\ r.op \in FetchOps \cup CasOps /\ (r.op \in CasOps => exp[t] = r.exp)
      BY <1>6, <2>1 DEF BuilderInv, BuilderLabels, Expects
    <2> HIDE DEF y
    <2> QED
      BY <1>1, <1>3, <1>7, <2>1, <2>2, <2>3, BuilderUpdate DEF BuilderLabels
  <1>11. CASE CasWord(t)
    <2>1. /\ word' = insert(wexp[t], r.at, Apply(r.op, r.at, exp[t], r.arg))
          /\ exp' = [exp EXCEPT ![t] = extract(wexp[t], r.at)]
          /\ ok' = [ok EXCEPT ![t] = TRUE] /\ wexp' = [wexp EXCEPT ![t] = 0]
          /\ pc' = [pc EXCEPT ![t] = "done"] /\ req' = req
      BY <1>11 DEF CasWord, Goto, Forget
    <2>2. word' \in Word
      BY <1>2, <1>3, <2>1, InsertReplaces
    <2> QED
      BY <1>1, <1>3, <1>5, <1>7, <2>1, <2>2, BuilderUpdate DEF BuilderLabels
  <1>12. ASSUME pc[t] \in {"cas", "cas_seen"}, Found(t), UNCHANGED <<word, req, ok>>
         PROVE  ClassesInv'
    <2> DEFINE f == extract(word, r.at)
               l == IF r.op \in FetchOps \/ (r.op = "cas_strong" /\ TryAgain(t, f))
                    THEN "cas_load" ELSE "done"
    <2>1. /\ exp' = [exp EXCEPT ![t] = f] /\ pc' = [pc EXCEPT ![t] = l]
          /\ wexp' = [wexp EXCEPT ![t] = 0] /\ word' = word /\ req' = req
          /\ ok' = [ok EXCEPT ![t] = ok[t]]
      BY <1>4, <1>12 DEF Found, Goto, Forget
    <2>2. ~ok[t] /\ r.op \in FetchOps \cup CasOps
      BY <1>6, <1>12 DEF BuilderInv, BuilderLabels
    <2>3. /\ l \in {"cas_load", "done"}
          /\ l = "cas_load" /\ r.op \in CasOps => f = r.exp
      BY DEF TryAgain, FetchOps, CasOps
    <2> HIDE DEF f, l
    <2>4. f \in Byte
      BY <1>5 DEF f
    <2> QED
      BY <1>1, <1>3, <1>7, <2>1, <2>2, <2>3, <2>4, BuilderUpdate DEF BuilderLabels
  <1>13. CASE CasFail(t)
    <2>1. CASE Found(t)
      BY <1>12, <1>13, <2>1 DEF CasFail
    <2>2. CASE Goto(t, "cas_seen") /\ Forget(t) /\ UNCHANGED exp
      <3>1. /\ pc[t] = "cas" /\ pc' = [pc EXCEPT ![t] = "cas_seen"]
            /\ wexp' = [wexp EXCEPT ![t] = 0] /\ word' = word /\ req' = req
            /\ ok' = [ok EXCEPT ![t] = ok[t]] /\ exp' = [exp EXCEPT ![t] = exp[t]]
        BY <1>4, <1>13, <2>2 DEF CasFail, Goto, Forget
      <3>2. ~ok[t] /\ r.op \in FetchOps \cup CasOps
        BY <1>6, <3>1 DEF BuilderInv, BuilderLabels
      <3> QED
        BY <1>1, <1>3, <1>7, <3>1, <3>2, BuilderUpdate DEF BuilderLabels
    <2> QED
      BY <1>13, <2>1, <2>2 DEF CasFail
  <1>14. CASE CasSeen(t) \/ CasSpurious(t)
    BY <1>12, <1>14 DEF CasSeen, CasSpurious
  <1>15. CASE StoreLoad(t)
    <2>1. /\ pc[t] \in {"store_load", "store_seen"} /\ wexp' = [wexp EXCEPT ![t] = word]
          /\ pc' = [pc EXCEPT ![t] = "store_cas"] /\ word' = word /\ req' = req
          /\ ok' = [ok EXCEPT ![t] = ok[t]] /\ exp' = [exp EXCEPT ![t] = exp[t]]
      BY <1>4, <1>15 DEF StoreLoad, Goto
    <2>2. ~ok[t] /\ r.op = "store"
      BY <1>6, <2>1 DEF BuilderInv, BuilderLabels
    <2> QED
      BY <1>1, <1>3, <1>7, <2>1, <2>2, BuilderUpdate DEF BuilderLabels
  <1>16. CASE StoreCas(t)
    <2>1. /\ word' = insert(wexp[t], r.at, r.arg)
          /\ ok' = [ok EXCEPT ![t] = TRUE] /\ wexp' = [wexp EXCEPT ![t] = 0]
          /\ pc' = [pc EXCEPT ![t] = "done"] /\ req' = req /\ exp' = [exp EXCEPT ![t] = exp[t]]
      BY <1>4, <1>16 DEF StoreCas, Goto, Forget
    <2>2. word' \in Word
      BY <1>2, <1>3, <2>1, InsertReplaces
    <2> QED
      BY <1>1, <1>3, <1>7, <2>1, <2>2, BuilderUpdate DEF BuilderLabels
  <1>17. CASE StoreFail(t)
    <2>1. /\ pc[t] = "store_cas" /\ word' = word /\ req' = req
          /\ ok' = [ok EXCEPT ![t] = ok[t]] /\ exp' = [exp EXCEPT ![t] = exp[t]]
      BY <1>4, <1>17 DEF StoreFail
    <2>2. ~ok[t] /\ r.op = "store"
      BY <1>6, <2>1 DEF BuilderInv, BuilderLabels
    <2>3. CASE wexp' = [wexp EXCEPT ![t] = word] /\ UNCHANGED pc
      <3>1. wexp' = [wexp EXCEPT ![t] = word] /\ pc' = [pc EXCEPT ![t] = "store_cas"]
        BY <1>4, <2>1, <2>3
      <3> QED
        BY <1>1, <1>3, <1>7, <2>1, <2>2, <3>1, BuilderUpdate DEF BuilderLabels
    <2>4. CASE Goto(t, "store_seen") /\ Forget(t)
      <3>1. wexp' = [wexp EXCEPT ![t] = 0] /\ pc' = [pc EXCEPT ![t] = "store_seen"]
        BY <2>4 DEF Goto, Forget
      <3> QED
        BY <1>1, <1>3, <1>7, <2>1, <2>2, <3>1, BuilderUpdate DEF BuilderLabels
    <2> QED
      BY <1>17, <2>3, <2>4 DEF StoreFail
  <1> QED
    BY <1>9, <1>10, <1>11, <1>13, <1>14, <1>15, <1>16, <1>17 DEF BuilderStep

-----------------------------------------------------------------------------
(* Moves *)

LEMMA MoveFacts ==
    ASSUME ClassesTypeOK, NEW t \in Threads, NEW l, Move(t, l)
    PROVE  \E k \in Offsets :
            /\ part' = [part EXCEPT ![t] = k]
            /\ LastMove(t) => k = 0 /\ pc' = [pc EXCEPT ![t] = l]
            /\ ~LastMove(t) => k = part[t] + 1 /\ pc' = pc /\ class \in InParts
  <1>1. part[t] \in Offsets /\ 0 \in Offsets
    BY ThreadTypes, WordNat
  <1>2. CASE LastMove(t)
    BY <1>1, <1>2 DEF Move, Goto
  <1>3. CASE ~LastMove(t)
    <2>1. part[t] + 1 \in Offsets /\ class \in InParts
      BY <1>1, <1>3, BuilderAssumption DEF LastMove, Offsets
    <2>2. part' = [part EXCEPT ![t] = part[t] + 1] /\ pc' = pc
      BY <1>3 DEF Move
    <2> QED
      BY <1>3, <2>1, <2>2
  <1> QED
    BY <1>2, <1>3

LEMMA MovedType ==
    ASSUME NEW t \in Threads, part[t] \in Offsets, NEW v \in Word, NEW w \in Word
    PROVE  Moved(t, v, w) \in Word
  <1>1. extract(w, part[t]) \in Byte
    BY ExtractType
  <1>2. insert(v, part[t], extract(w, part[t])) \in Word
    BY <1>1, InsertReplaces
  <1> QED
    BY <1>2 DEF Moved

-----------------------------------------------------------------------------
(* Objects as large as the word: the invariant *)

NativeClass == class \notin {"larger_type", "fallback"}

LEMMA NativeFrame ==
    ASSUME ClassesInv, NativeClass, NEW t \in Threads, OnlyOf(t),
           ClassesTypeOK', lock' = lock, Serving(t)', NativeInv(t)'
    PROVE  ClassesInv'
  <1>1. class' = class /\ lock' = "nobody"
    BY DEF ClassesInv, OnlyOf, NativeClass
  <1>2. ASSUME NEW u \in Threads, u # t PROVE Serving(u)'
    BY <1>2 DEF ClassesInv, OnlyOf, Serving, LabelsOf
  <1>3. ASSUME NEW u \in Threads, u # t PROVE NativeInv(u)'
    BY <1>3 DEF ClassesInv, OnlyOf, NativeInv, Expects, NativeClass
  <1> QED
    BY <1>1, <1>2, <1>3 DEF ClassesInv, NativeClass

\* A step that takes t to label l, with the locals x, k and z.
LEMMA NativeUpdate ==
    ASSUME ClassesInv, NativeClass, NEW t \in Threads, pc[t] # "idle",
           NEW l \in NativeLabels \ {"idle"}, NEW x \in Word, NEW k \in Offsets, NEW z \in BOOLEAN,
           word' \in Word, UNCHANGED <<req, wexp, class, lock>>,
           pc' = [pc EXCEPT ![t] = l], exp' = [exp EXCEPT ![t] = x],
           part' = [part EXCEPT ![t] = k], ok' = [ok EXCEPT ![t] = z],
           z => l = "done",
           l \in {"read", "confirm", "rmw"} => req[t].op \notin CasOps,
           l = "write" => req[t].op = "store" /\ class \in StorePlain,
           l = "wcas" /\ req[t].op \in CasOps => x = req[t].exp,
           l = "wseen" => class = "linux_arm"
    PROVE  ClassesInv'
  <1>1. /\ pc \in [Threads -> Labels] /\ exp \in [Threads -> Word]
        /\ part \in [Threads -> Offsets] /\ ok \in [Threads -> BOOLEAN] /\ l \in Labels
    BY DEF ClassesInv, ClassesTypeOK, NativeLabels, Labels, NativeClass
  <1>2. pc'[t] = l /\ exp'[t] = x /\ part'[t] = k /\ ok'[t] = z
    BY <1>1
  <1>3. ClassesTypeOK'
    <2>1. /\ pc' \in [Threads -> Labels] /\ exp' \in [Threads -> Word]
          /\ part' \in [Threads -> Offsets] /\ ok' \in [Threads -> BOOLEAN]
      BY <1>1
    <2> QED
      BY <2>1 DEF ClassesInv, ClassesTypeOK, NativeClass
  <1>4. OnlyOf(t)
    BY <1>1 DEF OnlyOf
  <1>5. Serving(t)'
    BY <1>2 DEF ClassesInv, Serving, LabelsOf, NativeClass
  <1>6. NativeInv(t)'
    BY <1>2 DEF NativeInv, Expects
  <1> QED
    BY <1>3, <1>4, <1>5, <1>6, NativeFrame

\* Where an operation can start.
LEMMA StartFacts ==
    ASSUME NEW op \in Ops, NEW l \in Start(op)
    PROVE  /\ l \in {"wcas", "write", "rmw", "read"}
           /\ l \in {"read", "rmw"} => op \notin CasOps
           /\ l = "write" => op = "store" /\ class \in StorePlain
  <1> DEFINE S == {x \in {"write", ExchangeStart} :
                    class \in IF x = "write" THEN StorePlain ELSE StoreExchange}
  <1>1. ExchangeStart \in {"rmw", "read"}
    BY DEF ExchangeStart
  <1>2. CASE op \in CasOps
    <2>1. Start(op) = {"wcas"}
      BY <1>2 DEF Start, CasOps
    <2> QED
      BY <2>1
  <1>3. CASE op = "store"
    <2>1. Start(op) = S /\ op \notin CasOps
      BY <1>3 DEF Start, CasOps
    <2>2. l \in S
      BY <2>1
    <2> QED
      BY <1>1, <1>3, <2>1, <2>2
  <1>4. CASE op \notin CasOps \cup {"store"}
    <2>1. Start(op) \in {{ExchangeStart}, {"rmw"}, {"read"}}
      BY <1>4 DEF Start
    <2> QED
      BY <1>1, <1>4, <2>1
  <1> QED
    BY <1>2, <1>3, <1>4

LEMMA FallbackStartFacts ==
    ASSUME NEW op \in Ops
    PROVE  /\ FallbackStart(op) \in OutLabels \cup {"f_store"}
           /\ FallbackStart(op) = "f_load" => op \in FetchOps \cup {"load"}
           /\ FallbackStart(op) = "f_cas" => op \in CasOps
           /\ FallbackStart(op) = "f_exchange" => op \in FetchOps
           /\ FallbackStart(op) = "f_store" => op = "store"
  <1>1. CASE op \in CasOps
    <2>1. FallbackStart(op) = "f_cas"
      BY <1>1 DEF FallbackStart, CasOps
    <2> QED
      BY <1>1, <2>1 DEF OutLabels
  <1>2. CASE op = "store"
    <2>1. FallbackStart(op) = "f_store"
      BY <1>2 DEF FallbackStart, CasOps
    <2> QED
      BY <1>2, <2>1 DEF OutLabels
  <1>3. CASE op = "exchange"
    <2>1. FallbackStart(op) = "f_exchange"
      BY <1>3 DEF FallbackStart, CasOps
    <2> QED
      BY <1>3, <2>1 DEF OutLabels, FetchOps
  <1>4. CASE op \notin CasOps \cup {"store", "exchange"}
    <2>1. FallbackStart(op) = "f_load"
      BY <1>4 DEF FallbackStart
    <2> QED
      BY <1>4, <2>1 DEF OutLabels, Ops
  <1> QED
    BY <1>1, <1>2, <1>3, <1>4

\* What Read does.
LEMMA ReadFacts ==
    ASSUME ClassesInv, NEW t \in Threads, Read(t)
    PROVE  \E l \in {"read", "wcas", "confirm", "done"}, k \in Offsets :
            /\ pc[t] = "read" /\ pc' = [pc EXCEPT ![t] = l]
            /\ exp' = [exp EXCEPT ![t] = Moved(t, exp[t], word)]
            /\ part' = [part EXCEPT ![t] = k]
            /\ ok' = [ok EXCEPT ![t] = (l = "done")]
            /\ l = "done" => LastMove(t) /\ req[t].op = "load" /\ class \notin LoadConfirms
            /\ UNCHANGED <<word, req, wexp, class, lock>>
  <1> DEFINE m == IF ~CallsLoad(t) THEN "wcas"
                  ELSE IF class \in LoadConfirms THEN "confirm" ELSE Loaded(t)
  <1>1. m \in {"wcas", "confirm", "done"} /\ (m = "done" => req[t].op = "load" /\ class \notin LoadConfirms)
    BY DEF Loaded
  <1>2. /\ pc[t] = "read" /\ exp' = [exp EXCEPT ![t] = Moved(t, exp[t], word)]
        /\ ok' = [ok EXCEPT ![t] = (pc'[t] = "done")]
        /\ UNCHANGED <<word, req, wexp, class, lock>>
        /\ Move(t, m)
    BY DEF Read
  <1>3. pc \in [Threads -> Labels] /\ pc = [pc EXCEPT ![t] = pc[t]] /\ ClassesTypeOK
    BY SameLocal DEF ClassesInv, ClassesTypeOK
  <1> HIDE DEF m
  <1>4. PICK k \in Offsets :
            /\ part' = [part EXCEPT ![t] = k]
            /\ LastMove(t) => k = 0 /\ pc' = [pc EXCEPT ![t] = m]
            /\ ~LastMove(t) => k = part[t] + 1 /\ pc' = pc /\ class \in InParts
    BY <1>2, <1>3, MoveFacts
  <1> DEFINE l == IF LastMove(t) THEN m ELSE "read"
  <1>5. pc' = [pc EXCEPT ![t] = l] /\ l \in {"read", "wcas", "confirm", "done"}
        /\ (l = "done" => LastMove(t) /\ m = "done")
    BY <1>1, <1>2, <1>3, <1>4
  <1> HIDE DEF l
  <1>6. pc'[t] = l
    BY <1>3, <1>5
  <1> QED
    BY <1>1, <1>2, <1>4, <1>5, <1>6

\* What an operation that replaces the word returns.
LEMMA ReturnedFacts ==
    ASSUME ClassesInv, class # "larger_type", NEW t \in Threads, pc[t] # "idle", NEW v \in Word
    PROVE  /\ Returned(t, v) \in Word
           /\ <<class, req[t].op>> \notin Broken => Returned(t, v) = v
  <1>1. req[t].arg \in Word /\ 0 \in Word /\ 0 .. Modulus(Whole) - 1 = Word
    BY WordRequest, WordNat DEF Modulus, Word
  <1>2. Apply("fetch_sub", Whole, 0, req[t].arg) \in Word
    BY <1>1, ApplyType DEF Ops, FetchOps
  <1> QED
    BY <1>1, <1>2 DEF Returned, Broken

\* Where WordFound goes.
FoundLabel(t) ==
    IF req[t].op \in CasOps
    THEN IF req[t].op = "cas_strong" /\ class \in WeakOnly /\ TryAgain(t, word)
         THEN "wcas" ELSE "done"
    ELSE IF class = "x86_128" /\ req[t].op \in {"store", "exchange"}
         THEN "read" ELSE "wcas"

LEMMA NativeStepInv ==
    ASSUME ClassesInv, NativeClass, NEW t \in Threads, NativeStep(t) \/ WordCasSpurious(t)
    PROVE  ClassesInv'
  <1> DEFINE r == req[t]
  <1>1. pc[t] # "idle" /\ class # "larger_type"
    BY DEF NativeStep, Read, Confirm, Rmw, WordCas, WordCasFail, WordSeen, WordStore,
           WordCasSpurious, NativeClass
  <1>2. /\ r.op \in Ops /\ r.arg \in Word /\ r.exp \in Word
        /\ \A v \in Word : Apply(r.op, Whole, v, r.arg) \in Word
    BY <1>1, WordRequest
  <1>3. /\ exp[t] \in Word /\ ok[t] \in BOOLEAN /\ word \in Word
        /\ part[t] \in Offsets
    BY ThreadTypes DEF ClassesInv
  <1>4. /\ exp = [exp EXCEPT ![t] = exp[t]] /\ part = [part EXCEPT ![t] = part[t]]
        /\ ok = [ok EXCEPT ![t] = ok[t]] /\ pc = [pc EXCEPT ![t] = pc[t]]
    BY SameLocal DEF ClassesInv, ClassesTypeOK
  <1>5. NativeInv(t) /\ (ok[t] => pc[t] = "done" \/ pc[t] \notin NativeLabels) /\ pc[t] \in NativeLabels
    BY DEF ClassesInv, Serving, LabelsOf, NativeLabels, NativeClass
  <1>6. CASE Read(t)
    <2>1. PICK l \in {"read", "wcas", "confirm", "done"}, k \in Offsets :
            /\ pc[t] = "read" /\ pc' = [pc EXCEPT ![t] = l]
            /\ exp' = [exp EXCEPT ![t] = Moved(t, exp[t], word)]
            /\ part' = [part EXCEPT ![t] = k]
            /\ ok' = [ok EXCEPT ![t] = (l = "done")]
            /\ UNCHANGED <<word, req, wexp, class, lock>>
      BY <1>6, ReadFacts
    <2>2. Moved(t, exp[t], word) \in Word
      BY <1>3, MovedType
    <2>3. r.op \notin CasOps
      BY <1>5, <2>1 DEF NativeInv
    <2> QED
      BY <1>1, <1>3, <2>1, <2>2, <2>3, NativeUpdate DEF NativeLabels
  <1>7. CASE Confirm(t)
    <2> DEFINE l == IF word = exp[t] THEN Loaded(t) ELSE "confirm"
    <2>1. /\ pc[t] = "confirm" /\ pc' = [pc EXCEPT ![t] = l] /\ exp' = [exp EXCEPT ![t] = word]
          /\ ok' = [ok EXCEPT ![t] = (pc'[t] = "done")] /\ part' = [part EXCEPT ![t] = part[t]]
          /\ UNCHANGED <<word, req, wexp, class, lock>>
      BY <1>4, <1>7 DEF Confirm, Goto, classVars
    <2>2. l \in {"confirm", "wcas", "done"}
      BY DEF Loaded
    <2> HIDE DEF l
    <2>3. ok' = [ok EXCEPT ![t] = (l = "done")]
      BY <2>1 DEF ClassesInv, ClassesTypeOK
    <2>4. r.op \notin CasOps
      BY <1>5, <2>1 DEF NativeInv
    <2> QED
      BY <1>1, <1>3, <2>1, <2>2, <2>3, <2>4, NativeUpdate DEF NativeLabels
  <1>8. ASSUME Replace(t) PROVE ClassesInv'
    <2>1. /\ word' = Apply(r.op, Whole, word, r.arg) /\ exp' = [exp EXCEPT ![t] = Returned(t, word)]
          /\ ok' = [ok EXCEPT ![t] = TRUE] /\ pc' = [pc EXCEPT ![t] = "done"]
          /\ part' = [part EXCEPT ![t] = part[t]] /\ UNCHANGED <<req, wexp, class, lock>>
      BY <1>4, <1>8 DEF Replace, Goto, classVars
    <2>2. word' \in Word /\ Returned(t, word) \in Word
      BY <1>1, <1>2, <1>3, <2>1, ReturnedFacts
    <2> QED
      BY <1>1, <1>3, <2>1, <2>2, NativeUpdate DEF NativeLabels
  <1>9. ASSUME WordFound(t), pc[t] \in {"wcas", "wseen"}, UNCHANGED <<word, req, wexp, ok, classVars>>
        PROVE  ClassesInv'
    <2> DEFINE l == FoundLabel(t)
    <2>1. /\ pc' = [pc EXCEPT ![t] = l] /\ exp' = [exp EXCEPT ![t] = word]
          /\ ok' = [ok EXCEPT ![t] = ok[t]] /\ part' = [part EXCEPT ![t] = part[t]]
          /\ UNCHANGED <<word, req, wexp, class, lock>>
      BY <1>4, <1>9 DEF WordFound, Goto, classVars, FoundLabel
    <2>2. /\ l \in {"read", "wcas", "done"} /\ (l = "read" => r.op \notin CasOps)
          /\ l = "wcas" /\ r.op \in CasOps => word = r.exp
      BY DEF FoundLabel, TryAgain
    <2>3. ~ok[t]
      BY <1>5, <1>9 DEF NativeLabels
    <2> HIDE DEF l
    <2> QED
      BY <1>1, <1>3, <2>1, <2>2, <2>3, NativeUpdate DEF NativeLabels
  <1>10. CASE WordCasFail(t)
    <2>1. CASE class = "linux_arm"
      <3>1. /\ pc' = [pc EXCEPT ![t] = "wseen"] /\ exp' = [exp EXCEPT ![t] = exp[t]]
            /\ ok' = [ok EXCEPT ![t] = ok[t]] /\ part' = [part EXCEPT ![t] = part[t]]
            /\ UNCHANGED <<word, req, wexp, class, lock>> /\ pc[t] = "wcas"
        BY <1>4, <1>10, <2>1 DEF WordCasFail, Goto, classVars
      <3>2. ~ok[t]
        BY <1>5, <3>1 DEF NativeLabels
      <3> QED
        BY <1>1, <1>3, <2>1, <3>1, <3>2, NativeUpdate DEF NativeLabels
    <2>2. CASE class # "linux_arm"
      BY <1>9, <1>10, <2>2 DEF WordCasFail
    <2> QED
      BY <2>1, <2>2
  <1>11. CASE WordStore(t)
    <2>1. PICK k \in Offsets :
            /\ part' = [part EXCEPT ![t] = k]
            /\ LastMove(t) => k = 0 /\ pc' = [pc EXCEPT ![t] = "done"]
            /\ ~LastMove(t) => k = part[t] + 1 /\ pc' = pc /\ class \in InParts
      BY <1>11, MoveFacts DEF WordStore, ClassesInv
    <2> DEFINE l == IF LastMove(t) THEN "done" ELSE "write"
               z == LastMove(t)
    <2>2. /\ pc[t] = "write" /\ word' = Moved(t, word, r.arg) /\ pc' = [pc EXCEPT ![t] = l]
          /\ ok' = [ok EXCEPT ![t] = z] /\ exp' = [exp EXCEPT ![t] = exp[t]]
          /\ UNCHANGED <<req, wexp, class, lock>>
      BY <1>4, <1>11, <2>1 DEF WordStore
    <2>3. word' \in Word
      BY <1>2, <1>3, <2>2, MovedType
    <2>4. r.op = "store" /\ class \in StorePlain
      BY <1>5, <2>2 DEF NativeInv
    <2>5. l \in {"done", "write"} /\ z \in BOOLEAN /\ (z => l = "done")
      BY DEF LastMove
    <2> HIDE DEF l, z
    <2> QED
      BY <1>1, <1>3, <2>1, <2>2, <2>3, <2>4, <2>5, NativeUpdate DEF NativeLabels
  <1> QED
    BY <1>6, <1>7, <1>8, <1>9, <1>10, <1>11
       DEF NativeStep, Rmw, WordCas, WordSeen, WordCasSpurious

-----------------------------------------------------------------------------
(* Objects under a lock: the invariant *)

\* Copying one more byte.
LEMMA AgreeNext ==
    ASSUME NEW v \in Word, NEW w \in Word, NEW k \in Offsets, Agree(v, w, k)
    PROVE  /\ insert(v, k, extract(w, k)) \in Word
           /\ Agree(insert(v, k, extract(w, k)), w, k + 1)
  <1> DEFINE n == insert(v, k, extract(w, k))
  <1>1. extract(w, k) \in Byte
    BY ExtractType
  <1>2. /\ n \in Word /\ extract(n, k) = extract(w, k)
        /\ \A j \in Offsets : j # k => extract(n, j) = extract(v, j)
    BY <1>1, InsertReplaces
  <1> HIDE DEF n
  <1>3. ASSUME NEW i \in Offsets, i < k + 1 PROVE extract(n, i) = extract(w, i)
    <2>1. CASE i = k
      BY <1>2, <2>1
    <2>2. CASE i # k
      <3>1. i < k
        BY <1>3, <2>2 DEF Offsets
      <3> QED
        BY <1>2, <2>2, <3>1 DEF Agree
    <2> QED
      BY <2>1, <2>2
  <1>4. n \in Word /\ Agree(n, w, k + 1)
    BY <1>2, <1>3 DEF Agree
  <1> QED
    BY <1>4 DEF n

LEMMA AgreeNone ==
    ASSUME NEW v, NEW w
    PROVE  Agree(v, w, 0)
  BY DEF Agree, Offsets

\* A move under the lock: the last one makes the two words equal.
LEMMA LockedMove ==
    ASSUME class = "fallback", NEW t \in Threads, part[t] \in Offsets,
           NEW v \in Word, NEW w \in Word, Agree(v, w, part[t])
    PROVE  /\ Moved(t, v, w) \in Word
           /\ LastMove(t) => Moved(t, v, w) = w
           /\ ~LastMove(t) => Agree(Moved(t, v, w), w, part[t] + 1)
  <1> DEFINE n == Moved(t, v, w)
  <1>1. n = insert(v, part[t], extract(w, part[t]))
    BY DEF Moved, InParts
  <1>2. n \in Word /\ Agree(n, w, part[t] + 1)
    BY <1>1, AgreeNext
  <1> HIDE DEF n
  <1>3. ASSUME LastMove(t) PROVE n = w
    <2>1. part[t] = WordBytes - 1
      BY <1>3 DEF LastMove, InParts
    <2>2. \A i \in Offsets : i < part[t] + 1
      BY <2>1, BuilderAssumption DEF Offsets
    <2>3. \A i \in Offsets : extract(n, i) = extract(w, i)
      BY <1>2, <2>2 DEF Agree
    <2> QED
      BY <1>2, <2>3, EqualObjects
  <1> QED
    BY <1>2, <1>3 DEF n

LEMMA FallbackFrame ==
    ASSUME ClassesInv, class = "fallback", NEW t \in Threads, OnlyOf(t), ClassesTypeOK',
           \A u \in Threads \ {t} : lock' = u <=> lock = u, word' = word \/ lock = t,
           Serving(t)', FallbackInv(t)'
    PROVE  ClassesInv'
  <1>1. class' = class
    BY DEF OnlyOf
  <1>2. ASSUME NEW u \in Threads, u # t PROVE Serving(u)'
    BY <1>2 DEF ClassesInv, OnlyOf, Serving, LabelsOf
  <1>3. ASSUME NEW u \in Threads, u # t PROVE FallbackInv(u)'
    <2>1. /\ pc'[u] = pc[u] /\ req'[u] = req[u] /\ exp'[u] = exp[u] /\ wexp'[u] = wexp[u]
          /\ ok'[u] = ok[u] /\ part'[u] = part[u] /\ (lock' = u <=> lock = u)
      BY <1>3 DEF OnlyOf
    <2>2. FallbackInv(u)
      BY DEF ClassesInv
    <2>3. lock = u => word' = word
      BY <1>3
    <2>4. Target(u)' = Target(u) /\ (u \in Writing' <=> u \in Writing)
      BY <2>1 DEF Target, Writing
    <2>5. Expects(u)' <=> Expects(u)
      BY <2>1 DEF Expects
    <2>6. u \in Writing => lock = u
      BY <2>2 DEF Writing, FallbackInv
    <2>7. lock' = u /\ pc'[u] \in OutLabels => Agree(wexp[u], word, part[u])'
      BY <2>1, <2>2, <2>3 DEF FallbackInv, Agree
    <2>8. u \in Writing' => Agree(word, Target(u), part[u])'
      BY <2>1, <2>2, <2>3, <2>4, <2>6 DEF FallbackInv, Agree
    <2> QED
      BY <2>1, <2>2, <2>5, <2>7, <2>8 DEF FallbackInv
  <1> QED
    BY <1>1, <1>2, <1>3 DEF ClassesInv

\* A step that takes t to label l, with the locals x, y, k and z.
LEMMA FallbackUpdate ==
    ASSUME ClassesInv, class = "fallback", NEW t \in Threads, pc[t] # "idle",
           NEW l \in LockLabels \cup {"done"}, NEW x \in Word, NEW y \in Word,
           NEW k \in Offsets, NEW z \in BOOLEAN,
           word' \in Word, UNCHANGED <<req, class>>,
           pc' = [pc EXCEPT ![t] = l], exp' = [exp EXCEPT ![t] = x],
           wexp' = [wexp EXCEPT ![t] = y], part' = [part EXCEPT ![t] = k],
           ok' = [ok EXCEPT ![t] = z],
           lock \in {t, "nobody"}, lock' \in {t, "nobody"}, word' = word \/ lock = t,
           z => l \in {"done", "f_store", "f_put", "unlock"},
           l \in {"f_put", "unlock"} => lock' = t,
           lock' = t => l # "done",
           l = "f_load" => req[t].op \in FetchOps \cup {"load"},
           l = "f_cas" => req[t].op \in FetchOps \cup CasOps,
           l = "f_cas" /\ req[t].op \in CasOps => x = req[t].exp,
           l = "f_exchange" => req[t].op \in FetchOps,
           l = "f_store" => req[t].op = "store" /\ (z <=> lock' = t),
           l = "f_put" => z /\ req[t].op \in FetchOps \cup CasOps,
           l = "unlock" => z \/ req[t].op \in FetchOps \cup CasOps,
           k # 0 => lock' = t /\ l # "unlock",
           lock' = t /\ l \in OutLabels => Agree(y, word', k),
           l = "f_put" \/ (l = "f_store" /\ lock' = t)
                => Agree(word', Apply(req[t].op, Whole, x, req[t].arg), k)
    PROVE  ClassesInv'
  <1>1. /\ pc \in [Threads -> Labels] /\ exp \in [Threads -> Word]
        /\ wexp \in [Threads -> Word] /\ part \in [Threads -> Offsets]
        /\ ok \in [Threads -> BOOLEAN] /\ l \in Labels
    BY DEF ClassesInv, ClassesTypeOK, LockLabels, OutLabels, Labels
  <1>2. pc'[t] = l /\ exp'[t] = x /\ wexp'[t] = y /\ part'[t] = k /\ ok'[t] = z
    BY <1>1
  <1>3. ClassesTypeOK'
    <2>1. /\ pc' \in [Threads -> Labels] /\ exp' \in [Threads -> Word]
          /\ wexp' \in [Threads -> Word] /\ part' \in [Threads -> Offsets]
          /\ ok' \in [Threads -> BOOLEAN]
      BY <1>1
    <2>2. lock' \in Threads \cup {"nobody", "other"}
      OBVIOUS
    <2> QED
      BY <2>1, <2>2 DEF ClassesInv, ClassesTypeOK
  <1>4. OnlyOf(t)
    BY <1>1 DEF OnlyOf
  <1>5. Serving(t)'
    <2>1. l # "idle" /\ l \in LabelsOf' /\ class' = class /\ req' = req
      BY DEF LabelsOf, LockLabels, OutLabels
    <2> QED
      BY <1>2, <2>1 DEF ClassesInv, Serving
  <1>6. FallbackInv(t)'
    <2>1. Target(t)' = Apply(req[t].op, Whole, x, req[t].arg)
      BY <1>2 DEF Target
    <2>2. t \in Writing' <=> l = "f_put" \/ (l = "f_store" /\ lock' = t)
      BY <1>2 DEF Writing
    <2>3. t \in Writing' => Agree(word, Target(t), part[t])'
      BY <1>2, <2>1, <2>2 DEF Agree
    <2>4. lock' = t /\ pc'[t] \in OutLabels => Agree(wexp[t], word, part[t])'
      BY <1>2 DEF Agree
    <2>5. l \in {"f_cas"} => Expects(t)'
      BY <1>2 DEF Expects
    <2>6. lock' = t => pc'[t] \in LockLabels
      BY <1>2
    <2> QED
      BY <1>2, <2>3, <2>4, <2>5, <2>6 DEF FallbackInv
  <1>7. \A u \in Threads \ {t} : lock' = u <=> lock = u
    BY ThreadsAssumption
  <1> QED
    BY <1>3, <1>4, <1>5, <1>6, <1>7, FallbackFrame

\* The function that holds the lock finds what it looks for and writes.
Writes(t) == (pc[t] = "f_cas" /\ word = exp[t]) \/ pc[t] = "f_exchange"

\* What CopyOut does: another byte, or the last one.
LEMMA CopyOutFacts ==
    ASSUME ClassesInv, class = "fallback", NEW t \in Threads, CopyOut(t)
    PROVE  /\ pc[t] \in OutLabels /\ lock = t /\ UNCHANGED <<word, req, class, lock>>
           /\ LastMove(t) =>
                /\ wexp' = [wexp EXCEPT ![t] = word] /\ exp' = [exp EXCEPT ![t] = word]
                /\ ok' = [ok EXCEPT ![t] = Writes(t) \/ req[t].op = "load"]
                /\ pc' = [pc EXCEPT ![t] = IF Writes(t) THEN "f_put" ELSE "unlock"]
                /\ part' = [part EXCEPT ![t] = 0]
           /\ ~LastMove(t) => \E y \in Word, k \in Offsets :
                /\ k = part[t] + 1 /\ Agree(y, word, k)
                /\ wexp' = [wexp EXCEPT ![t] = y] /\ exp' = exp
                /\ ok' = [ok EXCEPT ![t] = FALSE] /\ pc' = pc
                /\ part' = [part EXCEPT ![t] = k]
  <1> DEFINE found == Moved(t, wexp[t], word)
             writes == (pc[t] = "f_cas" /\ found = exp[t]) \/ pc[t] = "f_exchange"
             l == IF writes THEN "f_put" ELSE "unlock"
  <1>1. /\ pc[t] \in OutLabels /\ lock = t /\ UNCHANGED <<word, req, class, lock>>
        /\ wexp' = [wexp EXCEPT ![t] = found]
        /\ exp' = IF LastMove(t) THEN [exp EXCEPT ![t] = found] ELSE exp
        /\ ok' = [ok EXCEPT ![t] = LastMove(t) /\ (writes \/ req[t].op = "load")]
        /\ Move(t, l)
    BY DEF CopyOut, OutLabels
  <1>2. wexp[t] \in Word /\ word \in Word /\ part[t] \in Offsets
    BY ThreadTypes DEF ClassesInv
  <1>3. Agree(wexp[t], word, part[t])
    BY <1>1 DEF ClassesInv, FallbackInv
  <1>4. /\ found \in Word /\ (LastMove(t) => found = word)
        /\ ~LastMove(t) => Agree(found, word, part[t] + 1)
    BY <1>2, <1>3, LockedMove
  <1> HIDE DEF found
  <1>5. PICK k \in Offsets :
            /\ part' = [part EXCEPT ![t] = k]
            /\ LastMove(t) => k = 0 /\ pc' = [pc EXCEPT ![t] = l]
            /\ ~LastMove(t) => k = part[t] + 1 /\ pc' = pc /\ class \in InParts
    BY <1>1, MoveFacts DEF ClassesInv
  <1>6. CASE LastMove(t)
    <2>1. writes <=> Writes(t)
      BY <1>4, <1>6 DEF Writes
    <2> QED
      BY <1>1, <1>4, <1>5, <1>6, <2>1
  <1>7. CASE ~LastMove(t)
    <2>1. ok' = [ok EXCEPT ![t] = FALSE]
      BY <1>1, <1>7
    <2> QED
      BY <1>1, <1>4, <1>5, <1>7, <2>1
  <1> QED
    BY <1>6, <1>7

\* What CopyIn does.
LEMMA CopyInFacts ==
    ASSUME ClassesInv, class = "fallback", NEW t \in Threads, CopyIn(t)
    PROVE  /\ pc[t] \in {"f_put", "f_store"} /\ lock = t /\ t \in Writing
           /\ UNCHANGED <<req, exp, wexp, ok, class, lock>>
           /\ word' \in Word /\ Target(t) \in Word
           /\ LastMove(t) =>
                /\ word' = Target(t)
                /\ pc' = [pc EXCEPT ![t] = "unlock"] /\ part' = [part EXCEPT ![t] = 0]
           /\ ~LastMove(t) => \E k \in Offsets :
                /\ k = part[t] + 1 /\ Agree(word', Target(t), k)
                /\ pc' = pc /\ part' = [part EXCEPT ![t] = k]
  <1>1. /\ pc[t] \in {"f_put", "f_store"} /\ lock = t
        /\ word' = Moved(t, word, Target(t)) /\ Move(t, "unlock")
        /\ UNCHANGED <<req, exp, wexp, ok, class, lock>>
    BY DEF CopyIn, Target
  <1>2. t \in Writing /\ pc[t] # "idle"
    BY <1>1 DEF Writing
  <1>3. word \in Word /\ part[t] \in Offsets /\ exp[t] \in Word
    BY ThreadTypes DEF ClassesInv
  <1>4. Target(t) \in Word
    BY <1>2, <1>3, WordRequest DEF Target
  <1>5. Agree(word, Target(t), part[t])
    BY <1>2 DEF ClassesInv, FallbackInv
  <1>6. /\ word' \in Word /\ (LastMove(t) => word' = Target(t))
        /\ ~LastMove(t) => Agree(word', Target(t), part[t] + 1)
    BY <1>1, <1>3, <1>4, <1>5, LockedMove
  <1>7. PICK k \in Offsets :
            /\ part' = [part EXCEPT ![t] = k]
            /\ LastMove(t) => k = 0 /\ pc' = [pc EXCEPT ![t] = "unlock"]
            /\ ~LastMove(t) => k = part[t] + 1 /\ pc' = pc /\ class \in InParts
    BY <1>1, MoveFacts DEF ClassesInv
  <1> QED
    BY <1>1, <1>2, <1>4, <1>6, <1>7

LEMMA FallbackStepInv ==
    ASSUME ClassesInv, class = "fallback", NEW t \in Threads, FallbackStep(t)
    PROVE  ClassesInv'
  <1> DEFINE r == req[t]
  <1>1. pc[t] # "idle"
    BY DEF FallbackStep, Acquire, CopyOut, CopyIn, Release
  <1>2. /\ exp[t] \in Word /\ wexp[t] \in Word /\ ok[t] \in BOOLEAN /\ word \in Word
        /\ part[t] \in Offsets /\ 0 \in Word /\ 0 \in Offsets
    BY ThreadTypes, WordNat DEF ClassesInv
  <1>3. /\ exp = [exp EXCEPT ![t] = exp[t]] /\ wexp = [wexp EXCEPT ![t] = wexp[t]]
        /\ part = [part EXCEPT ![t] = part[t]]
        /\ ok = [ok EXCEPT ![t] = ok[t]] /\ pc = [pc EXCEPT ![t] = pc[t]]
    BY SameLocal DEF ClassesInv, ClassesTypeOK
  <1>4. FallbackInv(t) /\ (ok[t] => pc[t] \in {"done", "f_store", "f_put", "unlock"})
    BY DEF ClassesInv, Serving
  <1>5. "nobody" # t
    BY ThreadsAssumption
  <1>6. CASE Acquire(t)
    <2> DEFINE l == pc[t]
               z == (pc[t] = "f_store")
    <2>1. /\ l \in OutLabels \cup {"f_store"} /\ lock = "nobody" /\ lock' = t
          /\ ok' = [ok EXCEPT ![t] = z] /\ word' = word /\ UNCHANGED <<req, class>>
          /\ pc' = [pc EXCEPT ![t] = l] /\ exp' = [exp EXCEPT ![t] = exp[t]]
          /\ wexp' = [wexp EXCEPT ![t] = wexp[t]] /\ part' = [part EXCEPT ![t] = part[t]]
      BY <1>3, <1>6 DEF Acquire, OutLabels
    <2>2. part[t] = 0
      BY <1>4, <1>5, <2>1 DEF FallbackInv
    <2>3. \A v, w : Agree(v, w, part[t])
      BY <2>2, AgreeNone
    <2>4. /\ l = "f_load" => r.op \in FetchOps \cup {"load"}
          /\ l = "f_cas" => r.op \in FetchOps \cup CasOps
          /\ l = "f_cas" /\ r.op \in CasOps => exp[t] = r.exp
          /\ l = "f_exchange" => r.op \in FetchOps
          /\ l = "f_store" => r.op = "store"
      BY <1>4 DEF FallbackInv, Expects
    <2>5. l \in LockLabels \cup {"done"} /\ l \notin {"done", "f_put", "unlock"} /\ z \in BOOLEAN
          /\ (z <=> l = "f_store")
      BY <2>1 DEF LockLabels, OutLabels
    <2> HIDE DEF l, z
    <2> QED
      BY <1>1, <1>2, <2>1, <2>2, <2>3, <2>4, <2>5, FallbackUpdate
  <1>7. CASE CopyOut(t)
    <2>1. pc[t] \in OutLabels /\ lock = t /\ UNCHANGED <<word, req, class, lock>>
      BY <1>7, CopyOutFacts
    <2>2. CASE LastMove(t)
      <3> DEFINE l == IF Writes(t) THEN "f_put" ELSE "unlock"
                 z == Writes(t) \/ r.op = "load"
      <3>1. /\ wexp' = [wexp EXCEPT ![t] = word] /\ exp' = [exp EXCEPT ![t] = word]
            /\ ok' = [ok EXCEPT ![t] = z] /\ pc' = [pc EXCEPT ![t] = l]
            /\ part' = [part EXCEPT ![t] = 0]
        BY <1>7, <2>2, CopyOutFacts
      <3>2. r.op \in FetchOps \cup CasOps \cup {"load"} /\ (pc[t] # "f_load" => r.op \in FetchOps \cup CasOps)
        BY <1>4, <2>1 DEF FallbackInv, OutLabels
      <3>3. /\ l \in {"f_put", "unlock"} /\ z \in BOOLEAN
            /\ l = "f_put" => z /\ r.op \in FetchOps \cup CasOps
            /\ l = "unlock" => z \/ r.op \in FetchOps \cup CasOps
        BY <2>1, <3>2 DEF Writes, OutLabels
      <3>4. \A v, w : Agree(v, w, 0)
        BY AgreeNone
      <3>5. l \in LockLabels \cup {"done"} /\ l \notin OutLabels \cup {"f_store", "done"}
        BY <3>3 DEF LockLabels, OutLabels
      <3>6. l \notin {"f_load", "f_cas", "f_exchange"}
        BY <3>3
      <3> HIDE DEF l, z
      <3> QED
        BY <1>1, <1>2, <2>1, <3>1, <3>3, <3>4, <3>5, <3>6, FallbackUpdate
    <2>3. CASE ~LastMove(t)
      <3> DEFINE l == pc[t]
      <3>1. PICK y \in Word, k \in Offsets :
                /\ k = part[t] + 1 /\ Agree(y, word, k)
                /\ wexp' = [wexp EXCEPT ![t] = y] /\ exp' = exp
                /\ ok' = [ok EXCEPT ![t] = FALSE] /\ pc' = pc
                /\ part' = [part EXCEPT ![t] = k]
        BY <1>7, <2>3, CopyOutFacts
      <3>2. pc' = [pc EXCEPT ![t] = l] /\ exp' = [exp EXCEPT ![t] = exp[t]]
        BY <1>3, <3>1
      <3>3. /\ l = "f_load" => r.op \in FetchOps \cup {"load"}
            /\ l = "f_cas" => r.op \in FetchOps \cup CasOps
            /\ l = "f_cas" /\ r.op \in CasOps => exp[t] = r.exp
            /\ l = "f_exchange" => r.op \in FetchOps
        BY <1>4 DEF FallbackInv, Expects
      <3>4. l \in LockLabels \cup {"done"} /\ l \notin {"done", "f_put", "unlock", "f_store"}
        BY <2>1 DEF LockLabels, OutLabels
      <3>5. Agree(y, word', k)
        BY <2>1, <3>1
      <3> HIDE DEF l
      <3> QED
        BY <1>1, <1>2, <2>1, <3>1, <3>2, <3>3, <3>4, <3>5, FallbackUpdate
    <2> QED
      BY <2>2, <2>3
  <1>8. CASE CopyIn(t)
    <2>1. /\ pc[t] \in {"f_put", "f_store"} /\ lock = t /\ t \in Writing
          /\ UNCHANGED <<req, class, lock>> /\ word' \in Word
          /\ exp' = [exp EXCEPT ![t] = exp[t]] /\ wexp' = [wexp EXCEPT ![t] = wexp[t]]
          /\ ok' = [ok EXCEPT ![t] = ok[t]]
      BY <1>3, <1>8, CopyInFacts
    <2>2. ok[t]
      BY <1>4, <2>1 DEF FallbackInv
    <2>3. CASE LastMove(t)
      <3>1. pc' = [pc EXCEPT ![t] = "unlock"] /\ part' = [part EXCEPT ![t] = 0]
        BY <1>8, <2>3, CopyInFacts
      <3>2. "unlock" \in LockLabels \cup {"done"} /\ "unlock" \notin OutLabels
        BY DEF LockLabels, OutLabels
      <3> QED
        BY <1>1, <1>2, <2>1, <2>2, <3>1, <3>2, FallbackUpdate
    <2>4. CASE ~LastMove(t)
      <3> DEFINE l == pc[t]
      <3>1. PICK k \in Offsets :
                /\ Agree(word', Target(t), k)
                /\ pc' = pc /\ part' = [part EXCEPT ![t] = k]
        BY <1>8, <2>4, CopyInFacts
      <3>2. pc' = [pc EXCEPT ![t] = l]
        BY <1>3, <3>1
      <3>3. l \in LockLabels \cup {"done"} /\ l \notin OutLabels \cup {"done", "unlock"}
            /\ l \notin {"f_load", "f_cas", "f_exchange"}
        BY <2>1 DEF LockLabels, OutLabels
      <3>4. /\ l = "f_store" => r.op = "store"
            /\ l = "f_put" => r.op \in FetchOps \cup CasOps
        BY <1>4 DEF FallbackInv
      <3>5. Agree(word', Apply(r.op, Whole, exp[t], r.arg), k)
        BY <3>1 DEF Target
      <3>6. l \in {"f_put", "f_store"}
        BY <2>1
      <3> HIDE DEF l
      <3> QED
        BY <1>1, <1>2, <2>1, <2>2, <3>1, <3>2, <3>3, <3>4, <3>5, <3>6, FallbackUpdate
    <2> QED
      BY <2>3, <2>4
  <1>9. CASE Release(t)
    <2> DEFINE l == IF r.op \in FetchOps /\ ~ok[t] THEN "f_cas" ELSE "done"
    <2>1. /\ pc[t] = "unlock" /\ lock' = "nobody" /\ pc' = [pc EXCEPT ![t] = l]
          /\ wexp' = [wexp EXCEPT ![t] = 0] /\ word' = word /\ UNCHANGED <<req, class>>
          /\ exp' = [exp EXCEPT ![t] = exp[t]] /\ ok' = [ok EXCEPT ![t] = ok[t]]
          /\ part' = [part EXCEPT ![t] = part[t]]
      BY <1>3, <1>9 DEF Release, Goto, Forget
    <2>2. lock = t /\ part[t] = 0
      BY <1>4, <2>1 DEF FallbackInv
    <2>3. /\ l \in {"f_cas", "done"} /\ (ok[t] => l = "done")
          /\ l = "f_cas" => r.op \in FetchOps /\ r.op \notin CasOps
      BY DEF FetchOps, CasOps
    <2>4. l \in LockLabels \cup {"done"}
      BY <2>3 DEF LockLabels, OutLabels
    <2> HIDE DEF l
    <2> QED
      BY <1>1, <1>2, <1>5, <2>1, <2>2, <2>3, <2>4, FallbackUpdate
  <1> QED
    BY <1>6, <1>7, <1>8, <1>9 DEF FallbackStep

-----------------------------------------------------------------------------
(* Calls and returns *)

\* What WordCall does.
LEMMA WordCallFacts ==
    ASSUME NEW t \in Threads, WordCall(t)
    PROVE  \E r \in [op : Ops, at : {Whole}, arg : Word, exp : Word], l \in Labels :
            /\ class # "larger_type" /\ pc[t] = "idle"
            /\ req' = [req EXCEPT ![t] = r] /\ exp' = [exp EXCEPT ![t] = r.exp]
            /\ pc' = [pc EXCEPT ![t] = l]
            /\ IF class = "fallback" THEN l = FallbackStart(r.op) ELSE l \in Start(r.op)
            /\ UNCHANGED <<word, wexp, ok, class, part, lock>>
  <1>1. PICK op \in Ops, a \in Operands \cup {0}, e \in Operands \cup {0} :
            /\ req' = [req EXCEPT ![t] = [op |-> op, at |-> Whole, arg |-> a, exp |-> e]]
            /\ exp' = [exp EXCEPT ![t] = e]
            /\ \E l \in IF class = "fallback" THEN {FallbackStart(op)} ELSE Start(op) :
                pc' = [pc EXCEPT ![t] = l]
    BY DEF WordCall, Goto
  <1>2. PICK l \in IF class = "fallback" THEN {FallbackStart(op)} ELSE Start(op) :
            pc' = [pc EXCEPT ![t] = l]
    BY <1>1
  <1>3. a \in Word /\ e \in Word
    BY OperandsAssumption, WordNat
  <1> DEFINE r == [op |-> op, at |-> Whole, arg |-> a, exp |-> e]
  <1>4. r \in [op : Ops, at : {Whole}, arg : Word, exp : Word] /\ r.op = op /\ r.exp = e
    BY <1>3
  <1>5. class # "larger_type" /\ pc[t] = "idle" /\ UNCHANGED <<word, wexp, ok, class, part, lock>>
    BY DEF WordCall, classVars
  <1> HIDE DEF r
  <1>6. req' = [req EXCEPT ![t] = r] /\ exp' = [exp EXCEPT ![t] = r.exp]
    BY <1>1, <1>4 DEF r
  <1>7. IF class = "fallback" THEN l = FallbackStart(r.op) ELSE l \in Start(r.op)
    BY <1>2, <1>4
  <1>8. l \in Labels
    <2>1. CASE class = "fallback"
      BY <1>2, <2>1, FallbackStartFacts DEF OutLabels, Labels
    <2>2. CASE class # "fallback"
      BY <1>2, <2>2, StartFacts DEF Labels
    <2> QED
      BY <2>1, <2>2
  <1> QED
    BY <1>2, <1>4, <1>5, <1>6, <1>7, <1>8

LEMMA WordCallInv ==
    ASSUME ClassesInv, NEW t \in Threads, WordCall(t), <<class, req'[t].op>> \in Calls
    PROVE  ClassesInv'
  <1>1. PICK r \in [op : Ops, at : {Whole}, arg : Word, exp : Word], l \in Labels :
            /\ class # "larger_type" /\ pc[t] = "idle"
            /\ req' = [req EXCEPT ![t] = r] /\ exp' = [exp EXCEPT ![t] = r.exp]
            /\ pc' = [pc EXCEPT ![t] = l]
            /\ IF class = "fallback" THEN l = FallbackStart(r.op) ELSE l \in Start(r.op)
            /\ UNCHANGED <<word, wexp, ok, class, part, lock>>
    BY WordCallFacts
  <1>2. /\ r.op \in Ops /\ r.at = Whole /\ r.arg \in Word /\ r.exp \in Word
        /\ r \in [op : Ops, at : Offsets \cup {Whole}, arg : Word, exp : Word]
    OBVIOUS
  <1>3. /\ req \in [Threads -> [op : Ops, at : Offsets \cup {Whole}, arg : Word, exp : Word]
                                \cup {NoReq}]
        /\ pc \in [Threads -> Labels] /\ exp \in [Threads -> Word]
    BY <1>1 DEF ClassesInv, ClassesTypeOK
  <1>4. req'[t] = r /\ exp'[t] = r.exp /\ pc'[t] = l
    BY <1>1, <1>3
  <1>5. l \in LabelsOf /\ l # "idle"
    <2>1. CASE class = "fallback"
      <3>1. l \in OutLabels \cup {"f_store"}
        BY <1>1, <1>2, <2>1, FallbackStartFacts
      <3> QED
        BY <2>1, <3>1 DEF LabelsOf, LockLabels, OutLabels
    <2>2. CASE class # "fallback"
      <3>1. l \in {"wcas", "write", "rmw", "read"}
        BY <1>1, <1>2, <2>2, StartFacts
      <3> QED
        BY <1>1, <2>2, <3>1 DEF LabelsOf, NativeLabels
    <2> QED
      BY <2>1, <2>2
  <1>6. ClassesTypeOK'
    <2>1. /\ pc' \in [Threads -> Labels] /\ exp' \in [Threads -> Word]
          /\ req' \in [Threads -> [op : Ops, at : Offsets \cup {Whole}, arg : Word, exp : Word]
                                   \cup {NoReq}]
      BY <1>1, <1>2, <1>3, <1>5
    <2> QED
      BY <1>1, <2>1 DEF ClassesInv, ClassesTypeOK
  <1>7. OnlyOf(t)
    BY <1>1, <1>3 DEF OnlyOf
  <1>8. ~ok[t]
    BY <1>1 DEF ClassesInv, Serving
  <1>9. Serving(t)'
    <2>1. r # NoReq
      BY <1>2 DEF NoReq, Ops, FetchOps, CasOps
    <2>2. LabelsOf' = LabelsOf
      BY <1>1 DEF LabelsOf
    <2> QED
      BY <1>1, <1>2, <1>4, <1>5, <1>8, <2>1, <2>2 DEF Serving
  <1>10. CASE class = "fallback"
    <2>1. /\ l \in OutLabels \cup {"f_store"}
          /\ l = "f_load" => r.op \in FetchOps \cup {"load"}
          /\ l = "f_cas" => r.op \in CasOps
          /\ l = "f_exchange" => r.op \in FetchOps
          /\ l = "f_store" => r.op = "store"
      BY <1>1, <1>2, <1>10, FallbackStartFacts
    <2>2. lock # t /\ part[t] = 0
      BY <1>1, <1>10 DEF ClassesInv, FallbackInv, LockLabels, OutLabels
    <2>3. l \notin {"f_put", "unlock"}
      BY <2>1 DEF OutLabels
    <2>4. t \notin Writing'
      BY <1>1, <1>4, <2>2, <2>3 DEF Writing
    <2>5. FallbackInv(t)'
      BY <1>1, <1>4, <1>8, <2>1, <2>2, <2>3, <2>4 DEF FallbackInv, Expects
    <2> QED
      BY <1>1, <1>6, <1>7, <1>9, <1>10, <2>5, FallbackFrame
  <1>11. CASE class # "fallback"
    <2>1. /\ l \in {"wcas", "write", "rmw", "read"}
          /\ l \in {"read", "rmw"} => r.op \notin CasOps
          /\ l = "write" => r.op = "store" /\ class \in StorePlain
      BY <1>1, <1>2, <1>11, StartFacts
    <2>2. NativeInv(t)'
      BY <1>1, <1>4, <2>1 DEF NativeInv, Expects
    <2>3. NativeClass
      BY <1>1, <1>11 DEF NativeClass
    <2> QED
      BY <1>1, <1>6, <1>7, <1>9, <2>2, <2>3, NativeFrame
  <1> QED
    BY <1>10, <1>11

LEMMA ReturnInv ==
    ASSUME ClassesInv, NEW t \in Threads, Return(t), UNCHANGED classVars
    PROVE  ClassesInv'
  <1>1. /\ pc[t] = "done" /\ req' = [req EXCEPT ![t] = NoReq] /\ exp' = [exp EXCEPT ![t] = 0]
        /\ ok' = [ok EXCEPT ![t] = FALSE] /\ pc' = [pc EXCEPT ![t] = "idle"]
        /\ UNCHANGED <<word, wexp, class, part, lock>>
    BY DEF Return, Goto, classVars
  <1>2. /\ req \in [Threads -> [op : Ops, at : Offsets \cup {Whole}, arg : Word, exp : Word]
                                \cup {NoReq}]
        /\ pc \in [Threads -> Labels] /\ ok \in [Threads -> BOOLEAN]
        /\ exp \in [Threads -> IF class = "larger_type" THEN Byte ELSE Word]
    BY DEF ClassesInv, ClassesTypeOK
  <1>3. req'[t] = NoReq /\ exp'[t] = 0 /\ ok'[t] = FALSE /\ pc'[t] = "idle"
    BY <1>1, <1>2
  <1>4. ClassesTypeOK'
    <2>1. 0 \in IF class = "larger_type" THEN Byte ELSE Word
      BY WordNat
    <2>2. exp' \in [Threads -> IF class = "larger_type" THEN Byte ELSE Word]
      BY <1>1, <1>2, <2>1
    <2>3. /\ req' \in [Threads -> [op : Ops, at : Offsets \cup {Whole}, arg : Word, exp : Word]
                                   \cup {NoReq}]
          /\ ok' \in [Threads -> BOOLEAN]
      BY <1>1, <1>2
    <2>4. pc' \in [Threads -> Labels]
      BY <1>1, <1>2 DEF Labels
    <2> QED
      BY <1>1, <2>2, <2>3, <2>4 DEF ClassesInv, ClassesTypeOK
  <1>5. OnlyOf(t)
    BY <1>1, <1>2 DEF OnlyOf
  <1>6. Serving(t)'
    BY <1>3 DEF Serving, LabelsOf, BuilderLabels, NativeLabels
  <1>7. CASE class = "larger_type"
    <2>1. BuilderInv(t)'
      BY <1>3 DEF BuilderInv
    <2> QED
      BY <1>1, <1>4, <1>5, <1>6, <1>7, <2>1, BuilderFrame
  <1>8. CASE NativeClass
    <2>1. NativeInv(t)'
      BY <1>3 DEF NativeInv
    <2> QED
      BY <1>1, <1>4, <1>5, <1>6, <1>8, <2>1, NativeFrame
  <1>9. CASE class = "fallback"
    <2>1. lock # t /\ part[t] = 0
      BY <1>1, <1>9 DEF ClassesInv, FallbackInv, LockLabels, OutLabels
    <2>2. t \notin Writing'
      BY <1>3 DEF Writing
    <2>3. FallbackInv(t)'
      BY <1>1, <1>3, <2>1, <2>2 DEF FallbackInv, OutLabels
    <2> QED
      BY <1>1, <1>4, <1>5, <1>6, <1>9, <2>3, FallbackFrame
  <1> QED
    BY <1>7, <1>8, <1>9 DEF NativeClass

\* The lock is taken or given back by another object.
LEMMA OtherInv ==
    ASSUME ClassesInv, OtherAcquires \/ OtherReleases
    PROVE  ClassesInv'
  <1>1. /\ UNCHANGED <<word, req, pc, exp, wexp, ok, class, part>>
        /\ lock \in {"nobody", "other"} /\ lock' \in {"nobody", "other"}
        /\ class = "fallback" \/ lock = "other"
    BY DEF OtherAcquires, OtherReleases, vars
  <1>2. class = "fallback"
    BY <1>1 DEF ClassesInv
  <1>3. ClassesTypeOK'
    BY <1>1 DEF ClassesInv, ClassesTypeOK
  <1>4. ASSUME NEW u \in Threads PROVE Serving(u)' /\ FallbackInv(u)'
    <2>1. lock # u /\ lock' # u
      BY <1>1, ThreadsAssumption
    <2>2. Serving(u)'
      BY <1>1 DEF ClassesInv, Serving, LabelsOf
    <2>3. FallbackInv(u)
      BY <1>2 DEF ClassesInv
    <2>4. u \notin Writing'
      BY <1>1, <2>1, <2>3 DEF Writing, FallbackInv
    <2>5. FallbackInv(u)'
      BY <1>1, <2>1, <2>3, <2>4 DEF FallbackInv, Expects
    <2> QED
      BY <2>2, <2>5
  <1> QED
    BY <1>1, <1>2, <1>3, <1>4 DEF ClassesInv

-----------------------------------------------------------------------------
(* The invariant *)

LEMMA ClassesInvInit ==
    ASSUME ClassesInit
    PROVE  ClassesInv
  <1>1. /\ word \in Word /\ req = [t \in Threads |-> NoReq] /\ pc = [t \in Threads |-> "idle"]
        /\ exp = [t \in Threads |-> 0] /\ wexp = [t \in Threads |-> 0]
        /\ ok = [t \in Threads |-> FALSE] /\ part = [t \in Threads |-> 0] /\ lock = "nobody"
    BY DEF ClassesInit, Init
  <1>2. class \in Classes
    BY CallsAssumption DEF ClassesInit
  <1>3. ClassesTypeOK
    BY <1>1, <1>2, WordNat DEF ClassesTypeOK, Labels
  <1>4. ASSUME NEW t \in Threads
        PROVE  Serving(t) /\ BuilderInv(t) /\ NativeInv(t) /\ FallbackInv(t)
    <2>1. req[t] = NoReq /\ pc[t] = "idle" /\ ~ok[t] /\ part[t] = 0
      BY <1>1
    <2>2. lock # t
      BY <1>1, ThreadsAssumption
    <2>3. Serving(t)
      BY <2>1 DEF Serving, LabelsOf, BuilderLabels, NativeLabels
    <2>4. BuilderInv(t) /\ NativeInv(t)
      BY <2>1 DEF BuilderInv, NativeInv
    <2>5. FallbackInv(t)
      BY <2>1, <2>2 DEF FallbackInv, OutLabels, Writing
    <2> QED
      BY <2>3, <2>4, <2>5
  <1> QED
    BY <1>1, <1>3, <1>4 DEF ClassesInv

\* The steps that a class can take are its own.
LEMMA OwnSteps ==
    ASSUME ClassesInv, NEW t \in Threads, Step(t) \/ Spurious(t)
    PROVE  \/ Return(t) /\ UNCHANGED classVars
           \/ /\ class = "larger_type"
              /\ BuilderStep(t) \/ CasSpurious(t)
              /\ UNCHANGED classVars
           \/ NativeClass /\ (NativeStep(t) \/ WordCasSpurious(t))
           \/ class = "fallback" /\ FallbackStep(t)
  <1>1. pc[t] \in LabelsOf
    BY DEF ClassesInv, Serving
  <1>2. BuilderStep(t) \/ CasSpurious(t) => pc[t] \in BuilderLabels \ {"idle", "done"}
    BY DEF BuilderStep, Load, CasLoad, CasWord, CasFail, CasSpurious, CasSeen, StoreLoad,
           StoreCas, StoreFail, BuilderLabels
  <1>3. NativeStep(t) \/ WordCasSpurious(t) => pc[t] \in NativeLabels \ {"idle", "done"}
    BY DEF NativeStep, Read, Confirm, Rmw, WordCas, WordCasFail, WordSeen, WordStore,
           WordCasSpurious, NativeLabels
  <1>4. FallbackStep(t) => pc[t] \in LockLabels
    BY DEF FallbackStep, Acquire, CopyOut, CopyIn, Release, LockLabels, OutLabels
  <1>5. /\ pc[t] \in BuilderLabels \ {"idle", "done"} => class = "larger_type"
        /\ pc[t] \in NativeLabels \ {"idle", "done"} => NativeClass
        /\ pc[t] \in LockLabels => class = "fallback"
    BY <1>1 DEF LabelsOf, BuilderLabels, NativeLabels, LockLabels, OutLabels, NativeClass
  <1> QED
    BY <1>2, <1>3, <1>4, <1>5 DEF Step, Spurious

LEMMA ClassesInvStep ==
    ASSUME ClassesInv, [Next]_everyVar
    PROVE  ClassesInv'
  <1>1. CASE UNCHANGED everyVar
    <2>1. UNCHANGED <<word, req, pc, exp, wexp, ok, class, part, lock>>
      BY <1>1 DEF everyVar, vars, classVars
    <2> QED
      BY <2>1 DEF ClassesInv, ClassesTypeOK, Serving, BuilderInv, NativeInv, FallbackInv,
                  Expects, Agree, Target, Writing, LabelsOf
  <1>2. ASSUME NEW t \in Threads, AnyCall(t) PROVE ClassesInv'
    <2>1. ByteCall(t) => class = "larger_type"
      BY DEF ByteCall
    <2> QED
      BY <1>2, <2>1, ByteCallInv, WordCallInv DEF AnyCall
  <1>3. ASSUME NEW t \in Threads, Step(t) \/ Spurious(t) PROVE ClassesInv'
    BY <1>3, OwnSteps, ReturnInv, BuilderStepInv, NativeStepInv, FallbackStepInv
  <1>4. CASE OtherAcquires \/ OtherReleases
    BY <1>4, OtherInv
  <1> QED
    BY <1>1, <1>2, <1>3, <1>4 DEF Next

\* In every class the word, the copies of it and what is expected of it stay
\* words, an object smaller than a word stays a byte, and the spinlock belongs
\* to a thread or to nobody: no arithmetic of insert, extract and the fetch
\* operations leaves the type (builder.hpp:301-319).
THEOREM ClassesTyped == Spec => []ClassesTypeOK
  <1>1. ClassesInit => ClassesInv
    BY ClassesInvInit
  <1>2. ClassesInv /\ [Next]_everyVar => ClassesInv'
    BY ClassesInvStep
  <1>3. ClassesInv => ClassesTypeOK
    BY DEF ClassesInv
  <1> QED
    BY <1>1, <1>2, <1>3, PTL DEF Spec

-----------------------------------------------------------------------------
(* Steps of the abstract cells *)

Objects == Offsets \cup {Whole}

\* What the other threads have done and are writing stays as it is.
LEMMA OthersResult ==
    ASSUME NEW t \in Threads, OnlyOf(t), \A u \in Threads \ {t} : lock' = u <=> lock = u
    PROVE  \A u \in Threads \ {t} : Result(u)' = Result(u) /\ (u \in Writing' <=> u \in Writing)
  <1> SUFFICES ASSUME NEW u \in Threads \ {t}
               PROVE  Result(u)' = Result(u) /\ (u \in Writing' <=> u \in Writing)
    OBVIOUS
  <1>1. /\ pc'[u] = pc[u] /\ req'[u] = req[u] /\ exp'[u] = exp[u] /\ ok'[u] = ok[u]
        /\ lock' = u <=> lock = u
    BY DEF OnlyOf
  <1>2. u \in Writing' <=> u \in Writing
    BY <1>1 DEF Writing
  <1>3. Decided(u)' <=> Decided(u)
    BY <1>1, <1>2 DEF Decided
  <1> QED
    BY <1>1, <1>2, <1>3 DEF Result

LEMMA AbsStutter ==
    ASSUME \A i \in Objects : Object(i)' = Object(i), req' = req,
           \A u \in Threads : Result(u)' = Result(u)
    PROVE  UNCHANGED Abs!vars
  BY DEF Abs!vars, Objects

LEMMA AbsCall ==
    ASSUME NEW t \in Threads, req[t] = NoReq,
           NEW r \in [op : Ops, at : Objects, arg : Word, exp : Word],
           req' = [req EXCEPT ![t] = r],
           \A i \in Objects : Object(i)' = Object(i),
           \A u \in Threads : Result(u)' = Result(u)
    PROVE  Abs!Next
  <1>1. Abs!Call(t)
    BY DEF Abs!Call, Abs!Requests, Objects
  <1> QED
    BY <1>1 DEF Abs!Next

LEMMA AbsEffect ==
    ASSUME NEW t \in Threads, req[t] # NoReq, Result(t) = Pending, req[t].at \in Objects,
           req[t].op \in CasOps => Object(req[t].at) = req[t].exp,
           Object(req[t].at)' = Apply(req[t].op, req[t].at, Object(req[t].at), req[t].arg),
           \A i \in Objects : i # req[t].at => Object(i)' = Object(i),
           Result(t)' = [ok |-> TRUE,
                         val |-> IF req[t].op = "store" THEN req[t].arg ELSE Object(req[t].at)],
           \A u \in Threads \ {t} : Result(u)' = Result(u),
           req' = req
    PROVE  Abs!Next
  <1> DEFINE cell == [i \in Objects |-> Object(i)]
             res == [u \in Threads |-> Result(u)]
             r == req[t]
  <1>1. cell' = [cell EXCEPT ![r.at] = Apply(r.op, r.at, cell[r.at], r.arg)]
    OBVIOUS
  <1>2. res' = [res EXCEPT ![t] = [ok |-> TRUE, val |-> IF r.op = "store" THEN r.arg ELSE cell[r.at]]]
    OBVIOUS
  <1>3. r.op \in Abs!CasOps => cell[r.at] = r.exp
    BY DEF CasOps, Abs!CasOps
  <1>4. Abs!Effect(t)
    BY <1>1, <1>2, <1>3 DEF Abs!Effect, Abs!Done, Objects
  <1> QED
    BY <1>4 DEF Abs!Next

LEMMA AbsFail ==
    ASSUME NEW t \in Threads, req[t] # NoReq, Result(t) = Pending, req[t].at \in Objects,
           \/ req[t].op = "cas_weak"
           \/ req[t].op = "cas_strong" /\ Object(req[t].at) # req[t].exp,
           \A i \in Objects : Object(i)' = Object(i),
           Result(t)' = [ok |-> FALSE, val |-> Object(req[t].at)],
           \A u \in Threads \ {t} : Result(u)' = Result(u),
           req' = req
    PROVE  Abs!Next
  <1> DEFINE cell == [i \in Objects |-> Object(i)]
             res == [u \in Threads |-> Result(u)]
             r == req[t]
  <1>1. cell' = cell /\ cell[r.at] = Object(r.at)
    OBVIOUS
  <1>2. res' = [res EXCEPT ![t] = [ok |-> FALSE, val |-> cell[r.at]]] /\ res[t] = Pending
    OBVIOUS
  <1>3. Abs!Fail(t)
    BY <1>1, <1>2 DEF Abs!Fail, Abs!Done, Objects
  <1> QED
    BY <1>3 DEF Abs!Next

LEMMA AbsReturn ==
    ASSUME NEW t \in Threads, Result(t) # Pending, Result(t)' = Pending,
           req' = [req EXCEPT ![t] = NoReq],
           \A i \in Objects : Object(i)' = Object(i),
           \A u \in Threads \ {t} : Result(u)' = Result(u)
    PROVE  Abs!Next
  <1> DEFINE cell == [i \in Objects |-> Object(i)]
             res == [u \in Threads |-> Result(u)]
  <1>1. cell' = cell
    OBVIOUS
  <1>2. res' = [res EXCEPT ![t] = Pending]
    <2>1. \A u \in Threads : Result(u)' = IF u = t THEN Pending ELSE Result(u)
      OBVIOUS
    <2>2. [u \in Threads |-> Result(u)'] = [u \in Threads |-> IF u = t THEN Pending ELSE Result(u)]
      BY <2>1
    <2>3. [res EXCEPT ![t] = Pending] = [u \in Threads |-> IF u = t THEN Pending ELSE Result(u)]
      OBVIOUS
    <2> QED
      BY <2>2, <2>3
  <1>3. res[t] # Pending
    OBVIOUS
  <1>4. Abs!Return(t)
    BY <1>1, <1>2, <1>3 DEF Abs!Return, Objects
  <1> QED
    BY <1>4 DEF Abs!Next

-----------------------------------------------------------------------------
(* Objects and results *)

LEMMA ByteObjects ==
    ASSUME class = "larger_type", class' = class
    PROVE  /\ \A i \in Offsets : Object(i) = extract(word, i) /\ Object(i)' = extract(word', i)
           /\ Object(Whole) = 0 /\ Object(Whole)' = 0
  BY WordNat DEF Object

LEMMA WordObjects ==
    ASSUME class # "larger_type", class' = class
    PROVE  /\ \A i \in Offsets : Object(i) = 0 /\ Object(i)' = 0
           /\ Writing = {} => Object(Whole) = word
           /\ Writing' = {} => Object(Whole)' = word'
           /\ \A t \in Threads : Writing = {t} => Object(Whole) = Target(t)
           /\ \A t \in Threads : Writing' = {t} => Object(Whole)' = Target(t)'
  <1>1. \A i \in Offsets : Object(i) = 0 /\ Object(i)' = 0
    BY WordNat DEF Object
  <1>2. (Writing = {} => Object(Whole) = word) /\ (Writing' = {} => Object(Whole)' = word')
    BY DEF Object
  <1>3. ASSUME NEW t \in Threads, Writing = {t} PROVE Object(Whole) = Target(t)
    <2>1. (CHOOSE u \in Writing : TRUE) = t /\ Writing # {}
      BY <1>3
    <2> QED
      BY <2>1 DEF Object, Target
  <1>4. ASSUME NEW t \in Threads, Writing' = {t} PROVE Object(Whole)' = Target(t)'
    <2>1. (CHOOSE u \in Writing' : TRUE) = t /\ Writing' # {}
      BY <1>4
    <2> QED
      BY <2>1 DEF Object, Target
  <1> QED
    BY <1>1, <1>2, <1>3, <1>4

\* Where the operation of a thread may have taken effect.
EffectLabels == {"done", "f_put", "f_store", "unlock"}

LEMMA Results ==
    ASSUME NEW t \in Threads
    PROVE  /\ pc[t] \notin EffectLabels => Result(t) = Pending
           /\ pc'[t] \notin EffectLabels => Result(t)' = Pending
           /\ pc[t] = "done" =>
                Result(t) = [ok |-> ok[t], val |-> IF req[t].op = "store" THEN req[t].arg ELSE exp[t]]
           /\ pc'[t] = "done" =>
                Result(t)' = [ok |-> ok'[t],
                              val |-> IF req'[t].op = "store" THEN req'[t].arg ELSE exp'[t]]
  <1>1. /\ pc[t] \notin EffectLabels => ~Decided(t)
        /\ pc'[t] \notin EffectLabels => ~Decided(t)'
        /\ pc[t] = "done" => Decided(t)
        /\ pc'[t] = "done" => Decided(t)'
    BY DEF Decided, Writing, EffectLabels
  <1> QED
    BY <1>1 DEF Result

-----------------------------------------------------------------------------
(* Objects in a larger word: every operation is atomic *)

\* The step of t is the effect of its operation, or nothing that can be seen.
LEMMA BuilderOnly ==
    ASSUME ClassesInv, NEW t \in Threads, BuilderStep(t) \/ CasSpurious(t), UNCHANGED classVars
    PROVE  OnlyOf(t) /\ req' = req /\ UNCHANGED <<class, part, lock>>
  <1>1. /\ pc \in [Threads -> Labels] /\ wexp \in [Threads -> Word] /\ ok \in [Threads -> BOOLEAN]
        /\ exp \in [Threads -> IF class = "larger_type" THEN Byte ELSE Word]
    BY DEF ClassesInv, ClassesTypeOK
  <1>2. UNCHANGED <<class, part, lock>>
    BY DEF classVars
  <1>3. CASE Load(t)
    BY <1>1, <1>2, <1>3 DEF Load, Goto, OnlyOf
  <1>4. CASE CasLoad(t)
    BY <1>1, <1>2, <1>4 DEF CasLoad, Goto, OnlyOf
  <1>5. CASE CasWord(t)
    BY <1>1, <1>2, <1>5 DEF CasWord, Goto, Forget, OnlyOf
  <1>6. CASE CasFail(t)
    BY <1>1, <1>2, <1>6 DEF CasFail, Found, Goto, Forget, OnlyOf
  <1>7. CASE CasSeen(t) \/ CasSpurious(t)
    BY <1>1, <1>2, <1>7 DEF CasSeen, CasSpurious, Found, Goto, Forget, OnlyOf
  <1>8. CASE StoreLoad(t)
    BY <1>1, <1>2, <1>8 DEF StoreLoad, Goto, OnlyOf
  <1>9. CASE StoreCas(t)
    BY <1>1, <1>2, <1>9 DEF StoreCas, Goto, Forget, OnlyOf
  <1>10. CASE StoreFail(t)
    BY <1>1, <1>2, <1>10 DEF StoreFail, Goto, Forget, OnlyOf
  <1> QED
    BY <1>3, <1>4, <1>5, <1>6, <1>7, <1>8, <1>9, <1>10 DEF BuilderStep

LEMMA BuilderStepAtomic ==
    ASSUME ClassesInv, class = "larger_type", NEW t \in Threads,
           BuilderStep(t) \/ CasSpurious(t), UNCHANGED classVars
    PROVE  Abs!Next \/ UNCHANGED Abs!vars
  <1> DEFINE r == req[t]
  <1>1. pc[t] # "idle" /\ pc[t] \notin EffectLabels
    BY DEF BuilderStep, Load, CasLoad, CasWord, CasFail, CasSpurious, CasSeen, StoreLoad,
           StoreCas, StoreFail, EffectLabels
  <1>2. /\ req[t] # NoReq /\ r.op \in Ops /\ r.at \in Offsets /\ r.arg \in Byte
        /\ \A v \in Byte : Apply(r.op, r.at, v, r.arg) \in Byte
    BY <1>1, ByteRequest
  <1>3. /\ exp[t] \in Byte /\ wexp[t] \in Word /\ word \in Word
        /\ pc \in [Threads -> Labels] /\ exp \in [Threads -> Byte] /\ ok \in [Threads -> BOOLEAN]
    BY ThreadTypes DEF ClassesInv, ClassesTypeOK
  <1>4. OnlyOf(t) /\ req' = req /\ UNCHANGED <<class, part, lock>>
    BY BuilderOnly
  <1>5. \A u \in Threads \ {t} : Result(u)' = Result(u)
    BY <1>4, OthersResult
  <1>6. Result(t) = Pending
    BY <1>1, Results
  <1>7. /\ \A i \in Offsets : Object(i) = extract(word, i) /\ Object(i)' = extract(word', i)
        /\ Object(Whole) = 0 /\ Object(Whole)' = 0
    BY <1>4, ByteObjects
  <1>8. BuilderInv(t) /\ ~ok[t]
    BY <1>1 DEF ClassesInv, Serving, EffectLabels
  <1>9. r.at \in Objects /\ r.at # Whole
    BY <1>2, WordNat DEF Objects
  <1>10. ASSUME word' = word, pc'[t] \notin EffectLabels PROVE UNCHANGED Abs!vars
    <2>1. Result(t)' = Result(t)
      BY <1>6, <1>10, Results
    <2>2. \A i \in Objects : Object(i)' = Object(i)
      BY <1>7, <1>10 DEF Objects
    <2> QED
      BY <1>4, <1>5, <2>1, <2>2, AbsStutter
  <1>11. ASSUME NEW v \in Byte, word' = insert(word, r.at, v),
                v = Apply(r.op, r.at, extract(word, r.at), r.arg),
                r.op \in CasOps => extract(word, r.at) = r.exp,
                pc'[t] = "done", ok'[t] = TRUE,
                r.op # "store" => exp'[t] = extract(word, r.at)
         PROVE  Abs!Next
    <2>1. /\ extract(word', r.at) = v
          /\ \A i \in Offsets : i # r.at => extract(word', i) = extract(word, i)
      BY <1>2, <1>3, <1>11, InsertReplaces
    <2>2. Object(r.at)' = Apply(r.op, r.at, Object(r.at), r.arg)
      <3>1. Object(r.at) = extract(word, r.at) /\ Object(r.at)' = extract(word', r.at)
        BY <1>2, <1>4, <1>7
      <3> QED
        BY <1>11, <2>1, <3>1
    <2>3. \A i \in Objects : i # r.at => Object(i)' = Object(i)
      BY <1>7, <2>1 DEF Objects
    <2>4. Result(t)' = [ok |-> TRUE, val |-> IF r.op = "store" THEN r.arg ELSE Object(r.at)]
      BY <1>2, <1>4, <1>7, <1>11, Results
    <2>5. r.op \in CasOps => Object(r.at) = r.exp
      BY <1>2, <1>7, <1>11
    <2> QED
      BY <1>2, <1>4, <1>5, <1>6, <1>9, <2>2, <2>3, <2>4, <2>5, AbsEffect
  <1>12. CASE Load(t)
    <2>1. CASE r.op = "load"
      <3>1. /\ word' = word /\ pc'[t] = "done" /\ ok'[t] = TRUE
            /\ exp'[t] = extract(word, r.at)
        BY <1>3, <1>12, <2>1 DEF Load, Goto
      <3>2. Object(r.at)' = Apply(r.op, r.at, Object(r.at), r.arg)
        <4>1. Object(r.at)' = Object(r.at)
          BY <1>2, <1>4, <1>7, <3>1
        <4> QED
          BY <2>1, <4>1, ApplyLoad
      <3>3. \A i \in Objects : i # r.at => Object(i)' = Object(i)
        BY <1>7, <3>1 DEF Objects
      <3>4. Result(t)' = [ok |-> TRUE, val |-> IF r.op = "store" THEN r.arg ELSE Object(r.at)]
        BY <1>2, <1>4, <1>7, <3>1, Results
      <3>5. r.op \notin CasOps
        BY <2>1 DEF CasOps
      <3> QED
        BY <1>2, <1>4, <1>5, <1>6, <1>9, <3>2, <3>3, <3>4, <3>5, AbsEffect
    <2>2. CASE r.op # "load"
      <3>1. word' = word /\ pc'[t] = "cas_load"
        BY <1>3, <1>12, <2>2 DEF Load, Goto
      <3> QED
        BY <1>10, <3>1 DEF EffectLabels
    <2> QED
      BY <2>1, <2>2
  <1>13. CASE CasLoad(t)
    <2>1. word' = word /\ pc'[t] = "cas"
      BY <1>3, <1>13 DEF CasLoad, Goto
    <2> QED
      BY <1>10, <2>1 DEF EffectLabels
  <1>14. CASE CasWord(t)
    <2>1. /\ pc[t] = "cas" /\ word = wexp[t] /\ pc'[t] = "done" /\ ok'[t] = TRUE
          /\ word' = insert(wexp[t], r.at, Apply(r.op, r.at, exp[t], r.arg))
          /\ exp'[t] = extract(wexp[t], r.at)
      BY <1>3, <1>14 DEF CasWord, Goto
    <2>2. extract(word, r.at) = exp[t] /\ (r.op \in CasOps => exp[t] = r.exp)
      BY <1>8, <2>1 DEF BuilderInv, Expects
    <2> DEFINE v == Apply(r.op, r.at, exp[t], r.arg)
    <2>3. v \in Byte
      BY <1>2, <1>3
    <2>4. v = Apply(r.op, r.at, extract(word, r.at), r.arg) /\ word' = insert(word, r.at, v)
      BY <2>1, <2>2
    <2> HIDE DEF v
    <2> QED
      BY <1>11, <2>1, <2>2, <2>3, <2>4
  <1>15. ASSUME Found(t), word' = word, ok' = ok, pc[t] \in {"cas", "cas_seen"}
         PROVE  Abs!Next \/ UNCHANGED Abs!vars
    <2> DEFINE f == extract(word, r.at)
    <2>1. exp'[t] = f /\ ok'[t] = FALSE
      BY <1>3, <1>8, <1>15 DEF Found
    <2>2. pc'[t] = IF r.op \in FetchOps \/ (r.op = "cas_strong" /\ f = r.exp) THEN "cas_load" ELSE "done"
      BY <1>3, <1>15 DEF Found, Goto, TryAgain
    <2>3. CASE pc'[t] = "cas_load"
      BY <1>10, <1>15, <2>3 DEF EffectLabels
    <2>4. CASE pc'[t] = "done"
      <3>1. r.op \in FetchOps \cup CasOps
        BY <1>8, <1>15 DEF BuilderInv
      <3>2. r.op = "cas_weak" \/ (r.op = "cas_strong" /\ f # r.exp)
        BY <2>2, <2>4, <3>1 DEF CasOps
      <3>3. r.op # "store"
        BY <3>2
      <3>4. Result(t)' = [ok |-> FALSE, val |-> Object(r.at)]
        BY <1>2, <1>4, <1>7, <2>1, <2>4, <3>3, Results
      <3>5. \A i \in Objects : Object(i)' = Object(i)
        BY <1>7, <1>15 DEF Objects
      <3>6. Object(r.at) = f
        BY <1>2, <1>7
      <3> QED
        BY <1>2, <1>4, <1>5, <1>6, <1>9, <3>2, <3>4, <3>5, <3>6, AbsFail
    <2> QED
      BY <2>2, <2>3, <2>4
  <1>16. CASE CasFail(t)
    <2>1. CASE Found(t)
      BY <1>15, <1>16, <2>1 DEF CasFail
    <2>2. CASE Goto(t, "cas_seen")
      <3>1. word' = word /\ pc'[t] = "cas_seen"
        BY <1>3, <1>16, <2>2 DEF CasFail, Goto
      <3> QED
        BY <1>10, <3>1 DEF EffectLabels
    <2> QED
      BY <1>16, <2>1, <2>2 DEF CasFail
  <1>17. CASE CasSeen(t) \/ CasSpurious(t)
    BY <1>15, <1>17 DEF CasSeen, CasSpurious
  <1>18. CASE StoreLoad(t)
    <2>1. word' = word /\ pc'[t] = "store_cas"
      BY <1>3, <1>18 DEF StoreLoad, Goto
    <2> QED
      BY <1>10, <2>1 DEF EffectLabels
  <1>19. CASE StoreCas(t)
    <2>1. /\ pc[t] = "store_cas" /\ pc'[t] = "done" /\ ok'[t] = TRUE
          /\ word' = insert(word, r.at, r.arg)
      BY <1>3, <1>19 DEF StoreCas, Goto
    <2>2. r.op = "store" /\ r.op \notin CasOps
      BY <1>8, <2>1 DEF BuilderInv, CasOps
    <2>3. r.arg = Apply(r.op, r.at, extract(word, r.at), r.arg)
      BY <2>2, ApplyStore
    <2> QED
      BY <1>2, <1>11, <2>1, <2>2, <2>3
  <1>20. CASE StoreFail(t)
    <2>1. word' = word /\ pc'[t] \in {"store_cas", "store_seen"}
      BY <1>3, <1>20 DEF StoreFail, Goto
    <2> QED
      BY <1>10, <2>1 DEF EffectLabels
  <1> QED
    BY <1>12, <1>13, <1>14, <1>16, <1>17, <1>18, <1>19, <1>20 DEF BuilderStep

-----------------------------------------------------------------------------
(* Objects as large as the word: every operation is atomic *)

LEMMA NativeOnly ==
    ASSUME ClassesInv, NEW t \in Threads, NativeStep(t) \/ WordCasSpurious(t)
    PROVE  OnlyOf(t) /\ req' = req /\ UNCHANGED <<class, lock>>
  <1>1. /\ pc \in [Threads -> Labels] /\ part \in [Threads -> Offsets] /\ ok \in [Threads -> BOOLEAN]
        /\ exp \in [Threads -> IF class = "larger_type" THEN Byte ELSE Word]
    BY DEF ClassesInv, ClassesTypeOK
  <1>2. ASSUME Replace(t) PROVE OnlyOf(t) /\ req' = req /\ UNCHANGED <<class, lock>>
    BY <1>1, <1>2 DEF Replace, Goto, OnlyOf, classVars
  <1>3. ASSUME WordFound(t), UNCHANGED <<word, req, wexp, ok, classVars>>
        PROVE  OnlyOf(t) /\ req' = req /\ UNCHANGED <<class, lock>>
    BY <1>1, <1>3 DEF WordFound, Goto, OnlyOf, classVars
  <1>4. CASE Read(t)
    <2>1. PICK l \in {"read", "wcas", "confirm", "done"}, k \in Offsets :
            /\ pc' = [pc EXCEPT ![t] = l]
            /\ exp' = [exp EXCEPT ![t] = Moved(t, exp[t], word)]
            /\ part' = [part EXCEPT ![t] = k]
            /\ ok' = [ok EXCEPT ![t] = (l = "done")]
            /\ UNCHANGED <<word, req, wexp, class, lock>>
      BY <1>4, ReadFacts
    <2> QED
      BY <1>1, <2>1 DEF OnlyOf
  <1>5. CASE Confirm(t)
    <2>1. /\ exp' = [exp EXCEPT ![t] = word] /\ ok' = [ok EXCEPT ![t] = (pc'[t] = "done")]
          /\ UNCHANGED <<word, req, wexp, class, part, lock>>
          /\ \A u \in Threads \ {t} : pc'[u] = pc[u]
      BY <1>1, <1>5 DEF Confirm, Goto, classVars
    <2> QED
      BY <1>1, <2>1 DEF OnlyOf
  <1>6. CASE WordCasFail(t)
    <2>1. CASE class = "linux_arm"
      BY <1>1, <1>6, <2>1 DEF WordCasFail, Goto, OnlyOf, classVars
    <2>2. CASE class # "linux_arm"
      BY <1>3, <1>6, <2>2 DEF WordCasFail
    <2> QED
      BY <2>1, <2>2
  <1>7. CASE WordStore(t)
    <2>1. PICK k \in Offsets :
            /\ part' = [part EXCEPT ![t] = k]
            /\ LastMove(t) => k = 0 /\ pc' = [pc EXCEPT ![t] = "done"]
            /\ ~LastMove(t) => k = part[t] + 1 /\ pc' = pc /\ class \in InParts
      BY <1>7, MoveFacts DEF WordStore, ClassesInv
    <2>2. UNCHANGED <<req, exp, wexp, class, lock>> /\ ok' = [ok EXCEPT ![t] = LastMove(t)]
      BY <1>7 DEF WordStore
    <2>3. \A u \in Threads \ {t} : pc'[u] = pc[u] /\ part'[u] = part[u]
      BY <1>1, <2>1
    <2> QED
      BY <1>1, <2>2, <2>3 DEF OnlyOf
  <1> QED
    BY <1>2, <1>3, <1>4, <1>5, <1>6, <1>7
       DEF NativeStep, Rmw, WordCas, WordSeen, WordCasSpurious

LEMMA NativeStepAtomic ==
    ASSUME ClassesInv, NativeClass, Calls \cap Broken = {}, NEW t \in Threads,
           NativeStep(t) \/ WordCasSpurious(t)
    PROVE  Abs!Next \/ UNCHANGED Abs!vars
  <1> DEFINE r == req[t]
  <1>1. pc[t] # "idle" /\ class # "larger_type" /\ pc[t] \notin EffectLabels
    BY DEF NativeStep, Read, Confirm, Rmw, WordCas, WordCasFail, WordSeen, WordStore,
           WordCasSpurious, NativeClass, EffectLabels
  <1>2. req[t] # NoReq /\ r.op \in Ops /\ r.at = Whole /\ r.arg \in Word
    BY <1>1, WordRequest
  <1>3. /\ pc \in [Threads -> Labels] /\ exp \in [Threads -> Word] /\ ok \in [Threads -> BOOLEAN]
        /\ word \in Word
    BY <1>1 DEF ClassesInv, ClassesTypeOK
  <1>4. OnlyOf(t) /\ req' = req /\ UNCHANGED <<class, lock>>
    BY NativeOnly
  <1>5. \A u \in Threads \ {t} : Result(u)' = Result(u) /\ (u \in Writing' <=> u \in Writing)
    BY <1>4, OthersResult
  <1>6. Result(t) = Pending
    BY <1>1, Results
  <1>7. Writing = {}
    BY DEF ClassesInv, Serving, LabelsOf, NativeLabels, NativeClass, Writing
  <1>8. pc'[t] \notin {"f_put", "f_store"} => Writing' = {}
    <2> SUFFICES ASSUME pc'[t] \notin {"f_put", "f_store"}, NEW u \in Writing' PROVE FALSE
      OBVIOUS
    <2>1. u \in Threads
      BY DEF Writing
    <2>2. u # t
      BY DEF Writing
    <2> QED
      BY <1>5, <1>7, <2>1, <2>2
  <1>9. NativeInv(t) /\ ~ok[t] /\ <<class, r.op>> \notin Broken
    BY <1>1 DEF ClassesInv, Serving, EffectLabels, NativeClass
  <1>10. /\ \A i \in Offsets : Object(i) = 0 /\ Object(i)' = 0
         /\ Object(Whole) = word
         /\ pc'[t] \notin {"f_put", "f_store"} => Object(Whole)' = word'
    BY <1>1, <1>4, <1>7, <1>8, WordObjects
  <1>11. Whole \in Objects /\ \A i \in Objects : i # Whole => Object(i)' = Object(i)
    BY <1>10 DEF Objects
  <1>12. ASSUME word' = word, pc'[t] \notin EffectLabels PROVE UNCHANGED Abs!vars
    <2>1. Result(t)' = Result(t)
      BY <1>6, <1>12, Results
    <2>2. Object(Whole)' = Object(Whole)
      BY <1>10, <1>12 DEF EffectLabels
    <2>3. \A i \in Objects : Object(i)' = Object(i)
      BY <1>11, <2>2
    <2> QED
      BY <1>4, <1>5, <2>1, <2>3, AbsStutter
  <1>13. ASSUME word' = Apply(r.op, Whole, word, r.arg), r.op \in CasOps => word = r.exp,
                pc'[t] = "done", ok'[t] = TRUE, r.op # "store" => exp'[t] = word
         PROVE  Abs!Next
    <2>1. Object(Whole)' = Apply(r.op, Whole, word, r.arg)
      BY <1>10, <1>13
    <2>2. Object(r.at)' = Apply(r.op, r.at, Object(r.at), r.arg)
      BY <1>2, <1>4, <1>10, <2>1
    <2>3. Result(t)' = [ok |-> TRUE, val |-> IF r.op = "store" THEN r.arg ELSE word]
      BY <1>4, <1>13, Results
    <2>4. Result(t)' = [ok |-> TRUE, val |-> IF r.op = "store" THEN r.arg ELSE Object(r.at)]
      BY <1>2, <1>10, <2>3
    <2>5. r.op \in CasOps => Object(r.at) = r.exp
      BY <1>2, <1>10, <1>13
    <2> QED
      BY <1>2, <1>4, <1>5, <1>6, <1>11, <2>2, <2>4, <2>5, AbsEffect
  <1>14. ASSUME word' = word, r.op = "load", pc'[t] = "done", ok'[t] = TRUE, exp'[t] = word
         PROVE  Abs!Next
    <2>1. word' = Apply(r.op, Whole, word, r.arg) /\ r.op \notin CasOps
      BY <1>14, ApplyLoad DEF CasOps
    <2> QED
      BY <1>13, <1>14, <2>1
  <1>15. ASSUME Replace(t), r.op \in CasOps => word = r.exp PROVE Abs!Next
    <2>1. /\ word' = Apply(r.op, Whole, word, r.arg) /\ exp'[t] = Returned(t, word)
          /\ ok'[t] = TRUE /\ pc'[t] = "done"
      BY <1>3, <1>15 DEF Replace, Goto
    <2>2. Returned(t, word) = word
      BY <1>1, <1>3, <1>9, ReturnedFacts
    <2> QED
      BY <1>13, <1>15, <2>1, <2>2
  <1>16. ASSUME WordFound(t), word' = word, ok' = ok,
                r.op = "cas_strong" /\ ~(class \in WeakOnly /\ TryAgain(t, word)) => word # r.exp
         PROVE  Abs!Next \/ UNCHANGED Abs!vars
    <2>1. pc'[t] = FoundLabel(t) /\ exp'[t] = word /\ ok'[t] = FALSE
      BY <1>3, <1>9, <1>16 DEF WordFound, Goto, FoundLabel
    <2>2. CASE FoundLabel(t) # "done"
      <3>1. pc'[t] \notin EffectLabels
        BY <2>1, <2>2 DEF FoundLabel, EffectLabels
      <3> QED
        BY <1>12, <1>16, <3>1
    <2>3. CASE FoundLabel(t) = "done"
      <3>1. r.op = "cas_weak" \/ (r.op = "cas_strong" /\ word # r.exp)
        BY <1>16, <2>3 DEF FoundLabel, CasOps
      <3>2. Result(t)' = [ok |-> FALSE, val |-> word]
        BY <1>4, <2>1, <2>3, <3>1, Results
      <3>3. Object(Whole)' = word
        BY <1>10, <1>16, <2>1, <2>3
      <3>4. \A i \in Objects : Object(i)' = Object(i)
        BY <1>10, <1>11, <3>3
      <3>5. Object(r.at) = word /\ r.at \in Objects
        BY <1>2, <1>10, <1>11
      <3> QED
        BY <1>2, <1>4, <1>5, <1>6, <3>1, <3>2, <3>4, <3>5, AbsFail
    <2> QED
      BY <2>2, <2>3
  <1>17. CASE Read(t)
    <2>1. PICK l \in {"read", "wcas", "confirm", "done"}, k \in Offsets :
            /\ pc' = [pc EXCEPT ![t] = l]
            /\ exp' = [exp EXCEPT ![t] = Moved(t, exp[t], word)]
            /\ ok' = [ok EXCEPT ![t] = (l = "done")]
            /\ l = "done" => LastMove(t) /\ r.op = "load" /\ class \notin LoadConfirms
            /\ word' = word
      BY <1>17, ReadFacts
    <2>2. pc'[t] = l /\ exp'[t] = Moved(t, exp[t], word) /\ ok'[t] = (l = "done")
      BY <1>3, <2>1
    <2>3. CASE l = "done"
      <3>1. class \notin InParts
        BY <1>9, <2>1, <2>3 DEF Broken, InParts, LoadConfirms, NativeClass
      <3>2. exp'[t] = word
        BY <2>2, <3>1 DEF Moved
      <3> QED
        BY <1>14, <2>1, <2>2, <2>3, <3>2
    <2>4. CASE l # "done"
      BY <1>12, <2>1, <2>2, <2>4 DEF EffectLabels
    <2> QED
      BY <2>3, <2>4
  <1>18. CASE Confirm(t)
    <2>1. word' = word /\ exp'[t] = word /\ ok'[t] = (pc'[t] = "done")
      BY <1>3, <1>18 DEF Confirm
    <2>2. pc'[t] = IF word = exp[t] THEN Loaded(t) ELSE "confirm"
      BY <1>3, <1>18 DEF Confirm, Goto
    <2>3. CASE pc'[t] = "done"
      <3>1. r.op = "load"
        BY <2>2, <2>3 DEF Loaded
      <3> QED
        BY <1>14, <2>1, <2>3, <3>1
    <2>4. CASE pc'[t] # "done"
      <3>1. pc'[t] \notin EffectLabels
        BY <2>2, <2>4 DEF Loaded, EffectLabels
      <3> QED
        BY <1>12, <2>1, <3>1
    <2> QED
      BY <2>3, <2>4
  <1>19. CASE Rmw(t)
    BY <1>9, <1>15, <1>19 DEF Rmw, NativeInv
  <1>20. CASE WordCas(t)
    <2>1. r.op \in CasOps => word = r.exp
      BY <1>9, <1>20 DEF WordCas, NativeInv, Expects
    <2> QED
      BY <1>15, <1>20, <2>1 DEF WordCas
  <1>21. CASE WordCasFail(t)
    <2>1. /\ pc[t] = "wcas" /\ word # exp[t] /\ word' = word /\ ok' = ok
          /\ r.op \in CasOps => exp[t] = r.exp
      BY <1>9, <1>21 DEF WordCasFail, NativeInv, Expects
    <2>2. CASE class = "linux_arm"
      <3>1. pc'[t] = "wseen"
        BY <1>3, <1>21, <2>2 DEF WordCasFail, Goto
      <3> QED
        BY <1>12, <2>1, <3>1 DEF EffectLabels
    <2>3. CASE class # "linux_arm"
      <3>1. r.op = "cas_strong" => word # r.exp
        BY <2>1 DEF CasOps
      <3>2. WordFound(t)
        BY <1>21, <2>3 DEF WordCasFail
      <3> QED
        BY <1>16, <2>1, <3>1, <3>2
    <2> QED
      BY <2>2, <2>3
  <1>22. CASE WordSeen(t)
    <2>1. class = "linux_arm" /\ WordFound(t) /\ word' = word /\ ok' = ok
      BY <1>9, <1>22 DEF WordSeen, NativeInv
    <2>2. r.op # "cas_strong"
      BY <1>9, <2>1 DEF Broken
    <2> QED
      BY <1>16, <2>1, <2>2
  <1>23. CASE WordCasSpurious(t)
    <2>1. /\ pc[t] = "wcas" /\ class \in WeakOnly /\ word = exp[t] /\ WordFound(t)
          /\ word' = word /\ ok' = ok
      BY <1>23 DEF WordCasSpurious
    <2>2. r.op = "cas_strong" => TryAgain(t, word)
      BY <1>9, <2>1 DEF NativeInv, Expects, CasOps, TryAgain
    <2> QED
      BY <1>16, <2>1, <2>2
  <1>24. CASE WordStore(t)
    <2>1. pc[t] = "write" /\ word' = Moved(t, word, r.arg) /\ Move(t, "done")
          /\ ok' = [ok EXCEPT ![t] = LastMove(t)]
      BY <1>24 DEF WordStore
    <2>2. r.op = "store" /\ class \in StorePlain
      BY <1>9, <2>1 DEF NativeInv
    <2>3. class \notin InParts
      BY <1>9, <2>2 DEF Broken, StorePlain, InParts
    <2>4. word' = r.arg /\ LastMove(t)
      BY <2>1, <2>3 DEF Moved, LastMove
    <2>5. pc'[t] = "done" /\ ok'[t] = TRUE
      BY <1>3, <2>1, <2>4 DEF Move, Goto
    <2>6. word' = Apply(r.op, Whole, word, r.arg) /\ r.op \notin CasOps
      BY <2>2, <2>4, ApplyStore DEF CasOps
    <2> QED
      BY <1>13, <2>2, <2>5, <2>6
  <1> QED
    BY <1>17, <1>18, <1>19, <1>20, <1>21, <1>22, <1>23, <1>24 DEF NativeStep

-----------------------------------------------------------------------------
(* Objects under a lock: every operation is atomic *)

LEMMA FallbackOnly ==
    ASSUME ClassesInv, class = "fallback", NEW t \in Threads, FallbackStep(t)
    PROVE  /\ OnlyOf(t) /\ req' = req /\ class' = class
           /\ lock \in {t, "nobody"} /\ lock' \in {t, "nobody"}
  <1>1. /\ pc \in [Threads -> Labels] /\ part \in [Threads -> Offsets]
        /\ exp \in [Threads -> Word] /\ wexp \in [Threads -> Word]
        /\ ok \in [Threads -> BOOLEAN]
    BY DEF ClassesInv, ClassesTypeOK
  <1>2. CASE Acquire(t)
    BY <1>1, <1>2 DEF Acquire, OnlyOf
  <1>3. CASE CopyOut(t)
    <2>1. UNCHANGED <<word, req, class, lock>> /\ lock = t
      BY <1>3, CopyOutFacts
    <2>2. CASE LastMove(t)
      <3>1. PICK l, z :
              /\ wexp' = [wexp EXCEPT ![t] = word] /\ exp' = [exp EXCEPT ![t] = word]
              /\ ok' = [ok EXCEPT ![t] = z] /\ pc' = [pc EXCEPT ![t] = l]
              /\ part' = [part EXCEPT ![t] = 0]
        BY <1>3, <2>2, CopyOutFacts
      <3> QED
        BY <1>1, <2>1, <3>1 DEF OnlyOf
    <2>3. CASE ~LastMove(t)
      <3>1. PICK y \in Word, k \in Offsets :
              /\ wexp' = [wexp EXCEPT ![t] = y] /\ exp' = exp
              /\ ok' = [ok EXCEPT ![t] = FALSE] /\ pc' = pc
              /\ part' = [part EXCEPT ![t] = k]
        BY <1>3, <2>3, CopyOutFacts
      <3> QED
        BY <1>1, <2>1, <3>1 DEF OnlyOf
    <2> QED
      BY <2>2, <2>3
  <1>4. CASE CopyIn(t)
    <2>1. UNCHANGED <<req, exp, wexp, ok, class, lock>> /\ lock = t
      BY <1>4, CopyInFacts
    <2>2. \A u \in Threads \ {t} : pc'[u] = pc[u] /\ part'[u] = part[u]
      BY <1>1, <1>4, CopyInFacts
    <2> QED
      BY <2>1, <2>2 DEF OnlyOf
  <1>5. CASE Release(t)
    <2>1. lock = t
      BY <1>5 DEF Release, ClassesInv, FallbackInv
    <2> QED
      BY <1>1, <1>5, <2>1 DEF Release, Goto, Forget, OnlyOf
  <1> QED
    BY <1>2, <1>3, <1>4, <1>5 DEF FallbackStep

\* Only the holder of the lock writes.
LEMMA OnlyHolderWrites ==
    ASSUME ClassesInv, class = "fallback", NEW u \in Writing
    PROVE  u \in Threads /\ lock = u
  BY DEF ClassesInv, FallbackInv, Writing

LEMMA FallbackStepAtomic ==
    ASSUME ClassesInv, class = "fallback", NEW t \in Threads, FallbackStep(t)
    PROVE  Abs!Next \/ UNCHANGED Abs!vars
  <1> DEFINE r == req[t]
             val == IF r.op = "store" THEN r.arg ELSE exp[t]
             val1 == IF r.op = "store" THEN r.arg ELSE exp'[t]
  <1>1. pc[t] # "idle"
    BY DEF FallbackStep, Acquire, CopyOut, CopyIn, Release
  <1>2. req[t] # NoReq /\ r.op \in Ops /\ r.at = Whole /\ r.arg \in Word
    BY <1>1, WordRequest
  <1>3. /\ pc \in [Threads -> Labels] /\ exp \in [Threads -> Word] /\ ok \in [Threads -> BOOLEAN]
        /\ word \in Word
    BY DEF ClassesInv, ClassesTypeOK
  <1>4. /\ OnlyOf(t) /\ req' = req /\ class' = class
        /\ lock \in {t, "nobody"} /\ lock' \in {t, "nobody"}
    BY FallbackOnly
  <1>5. \A u \in Threads \ {t} : Result(u)' = Result(u) /\ (u \in Writing' <=> u \in Writing)
    BY <1>4, OthersResult, ThreadsAssumption
  <1>6. \A u \in Writing : u = t
    BY <1>4, OnlyHolderWrites, ThreadsAssumption
  <1>7. \A u \in Writing' : u = t
    BY <1>5, <1>6 DEF Writing
  <1>8. FallbackInv(t)
    BY DEF ClassesInv
  <1>9. /\ t \notin Writing => Object(Whole) = word
        /\ t \in Writing => Object(Whole) = Target(t)
        /\ t \notin Writing' => Object(Whole)' = word'
        /\ t \in Writing' => Object(Whole)' = Apply(r.op, Whole, exp'[t], r.arg)
    <2>1. t \notin Writing => Writing = {}
      BY <1>6
    <2>2. t \in Writing => Writing = {t}
      BY <1>6
    <2>3. t \notin Writing' => Writing' = {}
      BY <1>7
    <2>4. t \in Writing' => Writing' = {t}
      BY <1>7
    <2>5. Target(t)' = Apply(r.op, Whole, exp'[t], r.arg)
      BY <1>4 DEF Target
    <2>6. class # "larger_type"
      OBVIOUS
    <2> QED
      BY <1>4, <2>1, <2>2, <2>3, <2>4, <2>5, <2>6, WordObjects
  <1>10. Whole \in Objects /\ \A i \in Objects : i # Whole => Object(i)' = Object(i)
    BY <1>4, WordObjects DEF Objects
  <1>11. /\ Result(t) = IF Decided(t) THEN [ok |-> ok[t], val |-> val] ELSE Pending
         /\ Result(t)' = IF Decided(t)' THEN [ok |-> ok'[t], val |-> val1] ELSE Pending
    BY <1>4 DEF Result
  <1>12. ASSUME Object(Whole)' = Object(Whole), Result(t)' = Result(t) PROVE UNCHANGED Abs!vars
    BY <1>4, <1>5, <1>10, <1>12, AbsStutter
  <1>13. ASSUME ~Decided(t), Decided(t)', ok'[t] = TRUE, t \notin Writing,
                r.op \in CasOps => word = r.exp, r.op # "store" => exp'[t] = word,
                Object(Whole)' = Apply(r.op, Whole, word, r.arg)
         PROVE  Abs!Next
    <2>1. Object(r.at) = word /\ r.at \in Objects
      BY <1>2, <1>9, <1>10, <1>13
    <2>2. Object(r.at)' = Apply(r.op, r.at, Object(r.at), r.arg)
      BY <1>2, <1>4, <1>13, <2>1
    <2>3. Result(t)' = [ok |-> TRUE, val |-> IF r.op = "store" THEN r.arg ELSE Object(r.at)]
      BY <1>11, <1>13, <2>1
    <2>4. Result(t) = Pending
      BY <1>11, <1>13
    <2> QED
      BY <1>2, <1>4, <1>5, <1>10, <1>13, <2>1, <2>2, <2>3, <2>4, AbsEffect
  <1> HIDE DEF val, val1
  <1>14. CASE Acquire(t)
    <2>1. /\ pc[t] \in OutLabels \cup {"f_store"} /\ pc' = pc /\ word' = word /\ exp' = exp
          /\ lock = "nobody" /\ lock' = t /\ ok'[t] = (pc[t] = "f_store") /\ lock # t
      BY <1>3, <1>14, ThreadsAssumption DEF Acquire, OutLabels
    <2>2. t \notin Writing /\ ~Decided(t)
      BY <2>1 DEF Writing, Decided, OutLabels
    <2>3. CASE pc[t] = "f_store"
      <3>1. r.op = "store"
        BY <1>8, <2>3 DEF FallbackInv
      <3>2. t \in Writing'
        BY <2>1, <2>3 DEF Writing
      <3>3. Decided(t)'
        BY <3>2 DEF Decided
      <3>4. r.op \notin CasOps /\ Object(Whole)' = Apply(r.op, Whole, word, r.arg)
        BY <1>9, <3>1, <3>2, ApplyStore DEF CasOps
      <3> QED
        BY <1>13, <2>1, <2>2, <2>3, <3>1, <3>3, <3>4
    <2>4. CASE pc[t] # "f_store"
      <3>1. t \notin Writing'
        BY <2>1, <2>4 DEF Writing, OutLabels
      <3>2. ~Decided(t)'
        BY <2>1, <2>4, <3>1 DEF Decided, OutLabels
      <3> QED
        BY <1>9, <1>11, <1>12, <2>1, <2>2, <3>1, <3>2
    <2> QED
      BY <2>3, <2>4
  <1>15. CASE CopyOut(t)
    <2>1. pc[t] \in OutLabels /\ lock = t /\ UNCHANGED <<word, req, class, lock>>
      BY <1>15, CopyOutFacts
    <2>2. t \notin Writing /\ ~Decided(t)
      BY <2>1 DEF Writing, Decided, OutLabels
    <2>3. CASE ~LastMove(t)
      <3>1. pc' = pc
        BY <1>15, <2>3, CopyOutFacts
      <3>2. t \notin Writing'
        BY <2>1, <3>1 DEF Writing, OutLabels
      <3>3. ~Decided(t)'
        BY <2>1, <3>1, <3>2 DEF Decided, OutLabels
      <3> QED
        BY <1>9, <1>11, <1>12, <2>1, <2>2, <3>2, <3>3
    <2>4. CASE LastMove(t)
      <3>1. /\ exp'[t] = word /\ ok'[t] = (Writes(t) \/ r.op = "load")
            /\ pc'[t] = IF Writes(t) THEN "f_put" ELSE "unlock"
        BY <1>3, <1>15, <2>4, CopyOutFacts
      <3>2. CASE Writes(t)
        <4>1. pc'[t] = "f_put" /\ ok'[t] = TRUE
          BY <3>1, <3>2
        <4>2. r.op \in CasOps => word = r.exp
          BY <1>8, <3>2 DEF Writes, FallbackInv, Expects, FetchOps, CasOps
        <4>3. t \in Writing'
          BY <4>1 DEF Writing
        <4>4. Decided(t)'
          BY <4>3 DEF Decided
        <4>5. Object(Whole)' = Apply(r.op, Whole, word, r.arg)
          BY <1>9, <3>1, <4>3
        <4> QED
          BY <1>13, <2>2, <3>1, <4>1, <4>2, <4>4, <4>5
      <3>3. CASE ~Writes(t)
        <4>1. pc'[t] = "unlock" /\ ok'[t] = (r.op = "load")
          BY <3>1, <3>3
        <4>2. t \notin Writing' /\ (Decided(t)' <=> ok'[t] \/ r.op \in CasOps)
          <5>1. t \notin Writing'
            BY <4>1 DEF Writing
          <5> QED
            BY <1>4, <4>1, <5>1 DEF Decided
        <4>3. Object(Whole) = word /\ Object(Whole)' = word
          BY <1>9, <2>1, <2>2, <4>2
        <4>4. CASE r.op = "load"
          <5>1. Object(Whole)' = Apply(r.op, Whole, word, r.arg) /\ r.op \notin CasOps
            BY <4>3, <4>4, ApplyLoad DEF CasOps
          <5> QED
            BY <1>13, <2>2, <3>1, <4>1, <4>2, <4>4, <5>1
        <4>5. CASE r.op \in CasOps
          <5>1. r.op \notin FetchOps \cup {"load", "store"} /\ (r.op = "cas_weak" \/ r.op = "cas_strong")
            BY <4>5 DEF FetchOps, CasOps
          <5>2. pc[t] = "f_cas" /\ exp[t] = r.exp
            BY <1>8, <2>1, <4>5, <5>1 DEF FallbackInv, Expects, OutLabels
          <5>3. word # r.exp
            BY <3>3, <5>2 DEF Writes
          <5>4. Object(r.at) = word /\ r.at \in Objects /\ \A i \in Objects : Object(i)' = Object(i)
            BY <1>2, <1>10, <4>3
          <5>5. Result(t)' = [ok |-> FALSE, val |-> Object(r.at)] /\ Result(t) = Pending
            BY <1>11, <2>2, <3>1, <4>1, <4>2, <4>5, <5>1, <5>4 DEF val1
          <5> QED
            BY <1>2, <1>4, <1>5, <5>1, <5>3, <5>4, <5>5, AbsFail
        <4>6. CASE r.op \notin CasOps \cup {"load"}
          <5>1. ~Decided(t)'
            BY <4>1, <4>2, <4>6
          <5> QED
            BY <1>11, <1>12, <2>2, <4>3, <5>1
        <4> QED
          BY <4>4, <4>5, <4>6
      <3> QED
        BY <3>2, <3>3
    <2> QED
      BY <2>3, <2>4
  <1>16. CASE CopyIn(t)
    <2>1. /\ pc[t] \in {"f_put", "f_store"} /\ lock = t /\ t \in Writing
          /\ UNCHANGED <<req, exp, wexp, ok, class, lock>>
      BY <1>16, CopyInFacts
    <2>2. Decided(t) /\ ok[t] /\ Object(Whole) = Target(t)
      BY <1>8, <1>9, <2>1 DEF Decided, FallbackInv
    <2>3. Decided(t)' => Result(t)' = Result(t)
      BY <1>11, <2>1, <2>2 DEF val, val1
    <2>4. CASE LastMove(t)
      <3>1. word' = Target(t) /\ pc'[t] = "unlock"
        BY <1>3, <1>16, <2>4, CopyInFacts
      <3>2. t \notin Writing' /\ Decided(t)'
        BY <2>1, <2>2, <3>1 DEF Writing, Decided
      <3> QED
        BY <1>9, <1>12, <2>2, <2>3, <3>1, <3>2
    <2>5. CASE ~LastMove(t)
      <3>1. pc' = pc
        BY <1>16, <2>5, CopyInFacts
      <3>2. t \in Writing'
        BY <2>1, <3>1 DEF Writing
      <3>3. Decided(t)'
        BY <3>2 DEF Decided
      <3>4. Object(Whole)' = Target(t)
        BY <1>9, <2>1, <3>2 DEF Target
      <3> QED
        BY <1>12, <2>2, <2>3, <3>3, <3>4
    <2> QED
      BY <2>4, <2>5
  <1>17. CASE Release(t)
    <2>1. /\ pc[t] = "unlock" /\ word' = word /\ UNCHANGED <<exp, ok>>
          /\ pc'[t] = IF r.op \in FetchOps /\ ~ok[t] THEN "f_cas" ELSE "done"
      BY <1>3, <1>17 DEF Release, Goto
    <2>2. t \notin Writing /\ t \notin Writing'
      BY <2>1 DEF Writing
    <2>3. Decided(t) <=> ok[t] \/ r.op \in CasOps
      BY <2>1, <2>2 DEF Decided
    <2>4. Decided(t)' <=> pc'[t] = "done"
      BY <2>1, <2>2 DEF Decided
    <2>5. ok[t] \/ r.op \in FetchOps \cup CasOps
      BY <1>8, <2>1 DEF FallbackInv
    <2>6. Decided(t)' <=> Decided(t)
      BY <2>1, <2>3, <2>4, <2>5 DEF FetchOps, CasOps
    <2>7. Result(t)' = Result(t)
      BY <1>11, <2>1, <2>6 DEF val, val1
    <2> QED
      BY <1>9, <1>12, <2>1, <2>2, <2>7
  <1> QED
    BY <1>14, <1>15, <1>16, <1>17 DEF FallbackStep

-----------------------------------------------------------------------------
(* Every operation is atomic *)

\* The objects stay as they are if the word, the writers and what they write
\* do.
LEMMA SameObjects ==
    ASSUME word' = word, class' = class, Writing' = Writing,
           \A u \in Writing : Target(u)' = Target(u)
    PROVE  \A i \in Objects : Object(i)' = Object(i)
  <1> DEFINE w == CHOOSE u \in Writing : TRUE
  <1>1. Writing # {} => w \in Writing
    OBVIOUS
  <1>2. Writing # {} => Target(w)' = Target(w)
    BY <1>1
  <1>3. \A i \in Objects : i # Whole => Object(i)' = Object(i)
    BY DEF Object
  <1>4. CASE class = "larger_type" \/ Writing = {}
    <2>1. Object(Whole)' = Object(Whole)
      BY <1>4 DEF Object
    <2> QED
      BY <1>3, <2>1
  <1>5. CASE class # "larger_type" /\ Writing # {}
    <2>1. Object(Whole) = Target(w)
      BY <1>5 DEF Object, Target
    <2>2. (CHOOSE u \in Writing' : TRUE) = w
      OBVIOUS
    <2>3. Object(Whole)' = Target(w)'
      BY <1>5, <2>2 DEF Object, Target
    <2> QED
      BY <1>2, <1>3, <1>5, <2>1, <2>3
  <1> QED
    BY <1>4, <1>5

\* A call or a return of t touches no object.
LEMMA OutsideObjects ==
    ASSUME NEW t \in Threads, OnlyOf(t), UNCHANGED <<word, lock>>,
           t \notin Writing, t \notin Writing'
    PROVE  \A i \in Objects : Object(i)' = Object(i)
  <1>1. \A u \in Threads \ {t} : u \in Writing' <=> u \in Writing
    BY OthersResult
  <1>2. Writing' = Writing
    <2>1. \A u : u \in Writing' <=> u \in Writing
      BY <1>1 DEF Writing
    <2> QED
      BY <2>1
  <1>3. \A u \in Writing : Target(u)' = Target(u)
    <2> SUFFICES ASSUME NEW u \in Writing PROVE Target(u)' = Target(u)
      OBVIOUS
    <2>1. u \in Threads \ {t}
      BY DEF Writing
    <2>2. req'[u] = req[u] /\ exp'[u] = exp[u]
      BY <2>1 DEF OnlyOf
    <2> QED
      BY <2>2 DEF Target
  <1>4. class' = class
    BY DEF OnlyOf
  <1> QED
    BY <1>2, <1>3, <1>4, SameObjects

LEMMA CallAtomic ==
    ASSUME ClassesInv, NEW t \in Threads, AnyCall(t)
    PROVE  Abs!Next
  <1>1. /\ req \in [Threads -> [op : Ops, at : Offsets \cup {Whole}, arg : Word, exp : Word]
                                \cup {NoReq}]
        /\ pc \in [Threads -> Labels]
        /\ exp \in [Threads -> IF class = "larger_type" THEN Byte ELSE Word]
    BY DEF ClassesInv, ClassesTypeOK
  <1>2. PICK r \in [op : Ops, at : Objects, arg : Word, exp : Word],
             l \in Labels \ {"done", "f_put", "unlock"} :
            /\ pc[t] = "idle" /\ req' = [req EXCEPT ![t] = r]
            /\ exp' = [exp EXCEPT ![t] = r.exp] /\ pc' = [pc EXCEPT ![t] = l]
            /\ UNCHANGED <<word, wexp, ok, class, part, lock>>
    <2>1. CASE ByteCall(t)
      <3>1. PICK r \in Requests, l \in {"cas_load", "store_load", "load"} :
                /\ pc[t] = "idle" /\ req' = [req EXCEPT ![t] = r]
                /\ exp' = [exp EXCEPT ![t] = r.exp] /\ pc' = [pc EXCEPT ![t] = l]
                /\ UNCHANGED <<word, wexp, ok, class, part, lock>>
        BY <2>1, Zenon DEF ByteCall, Call, Goto, classVars
      <3>2. r \in [op : Ops, at : Objects, arg : Word, exp : Word]
        BY WordNat DEF Requests, Objects
      <3>3. l \in Labels \ {"done", "f_put", "unlock"}
        BY DEF Labels
      <3> QED
        BY <3>1, <3>2, <3>3
    <2>2. CASE WordCall(t)
      <3>1. PICK r \in [op : Ops, at : {Whole}, arg : Word, exp : Word], l \in Labels :
                /\ class # "larger_type" /\ pc[t] = "idle"
                /\ req' = [req EXCEPT ![t] = r] /\ exp' = [exp EXCEPT ![t] = r.exp]
                /\ pc' = [pc EXCEPT ![t] = l]
                /\ IF class = "fallback" THEN l = FallbackStart(r.op) ELSE l \in Start(r.op)
                /\ UNCHANGED <<word, wexp, ok, class, part, lock>>
        BY <2>2, WordCallFacts
      <3>2. r \in [op : Ops, at : Objects, arg : Word, exp : Word] /\ r.op \in Ops
        BY DEF Objects
      <3>3. l \in Labels \ {"done", "f_put", "unlock"}
        <4>1. CASE class = "fallback"
          BY <3>1, <3>2, <4>1, FallbackStartFacts DEF OutLabels
        <4>2. CASE class # "fallback"
          BY <3>1, <3>2, <4>2, StartFacts
        <4> QED
          BY <4>1, <4>2
      <3> QED
        BY <3>1, <3>2, <3>3
    <2> QED
      BY <2>1, <2>2 DEF AnyCall
  <1>3. OnlyOf(t)
    BY <1>1, <1>2 DEF OnlyOf
  <1>4. req[t] = NoReq
    BY <1>2 DEF ClassesInv, Serving
  <1>5. lock # t
    <2>1. CASE class = "fallback"
      BY <1>2, <2>1 DEF ClassesInv, FallbackInv, LockLabels, OutLabels
    <2>2. CASE class # "fallback"
      BY <2>2, ThreadsAssumption DEF ClassesInv
    <2> QED
      BY <2>1, <2>2
  <1>6. pc'[t] = l
    BY <1>1, <1>2
  <1>7. t \notin Writing /\ t \notin Writing'
    BY <1>2, <1>5, <1>6 DEF Writing
  <1>8. ~Decided(t) /\ ~Decided(t)'
    BY <1>2, <1>6, <1>7 DEF Decided
  <1>9. \A u \in Threads : Result(u)' = Result(u)
    <2>1. Result(t)' = Result(t)
      BY <1>8 DEF Result
    <2> QED
      BY <1>2, <1>3, <2>1, OthersResult
  <1>10. \A i \in Objects : Object(i)' = Object(i)
    BY <1>2, <1>3, <1>7, OutsideObjects
  <1> QED
    BY <1>2, <1>4, <1>9, <1>10, AbsCall

LEMMA ReturnAtomic ==
    ASSUME ClassesInv, NEW t \in Threads, Return(t), UNCHANGED classVars
    PROVE  Abs!Next
  <1>1. /\ pc[t] = "done" /\ req' = [req EXCEPT ![t] = NoReq] /\ exp' = [exp EXCEPT ![t] = 0]
        /\ ok' = [ok EXCEPT ![t] = FALSE] /\ pc' = [pc EXCEPT ![t] = "idle"]
        /\ UNCHANGED <<word, wexp, class, part, lock>>
    BY DEF Return, Goto, classVars
  <1>2. /\ req \in [Threads -> [op : Ops, at : Offsets \cup {Whole}, arg : Word, exp : Word]
                                \cup {NoReq}]
        /\ pc \in [Threads -> Labels] /\ ok \in [Threads -> BOOLEAN]
        /\ exp \in [Threads -> IF class = "larger_type" THEN Byte ELSE Word]
    BY DEF ClassesInv, ClassesTypeOK
  <1>3. OnlyOf(t)
    BY <1>1, <1>2 DEF OnlyOf
  <1>4. pc'[t] = "idle"
    BY <1>1, <1>2
  <1>5. t \notin Writing /\ t \notin Writing'
    BY <1>1, <1>4 DEF Writing
  <1>6. Result(t)' = Pending
    BY <1>4, Results DEF EffectLabels
  <1>7. Result(t) # Pending
    <2>1. exp[t] \in Word
      BY ThreadTypes DEF ClassesInv
    <2>2. req[t].arg \in Word
      <3>1. req[t] \in [op : Ops, at : Offsets \cup {Whole}, arg : Word, exp : Word]
        BY <1>1 DEF ClassesInv, Serving
      <3> QED
        BY <3>1
    <2>3. WordMod \notin Word
      BY WordNat DEF Word
    <2> DEFINE v == IF req[t].op = "store" THEN req[t].arg ELSE exp[t]
    <2>4. v \in Word
      BY <2>1, <2>2
    <2>5. Result(t) = [ok |-> ok[t], val |-> v]
      BY <1>1, Results
    <2> HIDE DEF v
    <2>6. [ok |-> ok[t], val |-> v].val = v /\ Pending.val = WordMod
      BY DEF Pending
    <2> QED
      BY <2>3, <2>4, <2>5, <2>6
  <1>8. \A u \in Threads \ {t} : Result(u)' = Result(u)
    BY <1>1, <1>3, OthersResult
  <1>9. \A i \in Objects : Object(i)' = Object(i)
    BY <1>1, <1>3, <1>5, OutsideObjects
  <1> QED
    BY <1>1, <1>6, <1>7, <1>8, <1>9, AbsReturn

\* A step that no thread of the object takes, or no step at all.
LEMMA OtherAtomic ==
    ASSUME UNCHANGED <<word, req, pc, exp, ok, class>>,
           \A u \in Threads : lock' = u <=> lock = u
    PROVE  UNCHANGED Abs!vars
  <1>1. Writing' = Writing
    BY DEF Writing
  <1>2. \A u \in Writing : Target(u)' = Target(u)
    BY DEF Target
  <1>3. \A i \in Objects : Object(i)' = Object(i)
    BY <1>1, <1>2, SameObjects
  <1>4. \A u \in Threads : Decided(u)' <=> Decided(u)
    BY <1>1 DEF Decided
  <1>5. \A u \in Threads : Result(u)' = Result(u)
    BY <1>4 DEF Result
  <1> QED
    BY <1>3, <1>5, AbsStutter

LEMMA AtomicInit ==
    ASSUME ClassesInit
    PROVE  Abs!Init
  <1>1. /\ word \in Word /\ req = [t \in Threads |-> NoReq] /\ pc = [t \in Threads |-> "idle"]
    BY DEF ClassesInit, Init
  <1>2. Writing = {}
    BY <1>1 DEF Writing
  <1>3. \A i \in Objects : Object(i) \in Word
    <2> SUFFICES ASSUME NEW i \in Objects PROVE Object(i) \in Word
      OBVIOUS
    <2>1. i # Whole => extract(word, i) \in Word
      BY <1>1, ExtractType, WordNat DEF Objects
    <2> QED
      BY <1>1, <1>2, <2>1, WordNat DEF Object
  <1>4. \A t \in Threads : Result(t) = Pending
    BY <1>1, Results DEF EffectLabels
  <1>5. [i \in Objects |-> Object(i)] \in [Objects -> Word]
    BY <1>3
  <1>6. [t \in Threads |-> Result(t)] = [t \in Threads |-> Pending]
    BY <1>4
  <1> QED
    BY <1>1, <1>5, <1>6 DEF Abs!Init, Objects

LEMMA AtomicStep ==
    ASSUME ClassesInv, [Next]_everyVar, Calls \cap Broken = {}
    PROVE  [Abs!Next]_Abs!vars
  <1>1. CASE UNCHANGED everyVar
    BY <1>1, OtherAtomic DEF everyVar, vars, classVars
  <1>2. ASSUME NEW t \in Threads, AnyCall(t) PROVE Abs!Next
    BY <1>2, CallAtomic
  <1>3. ASSUME NEW t \in Threads, Step(t) \/ Spurious(t)
        PROVE  Abs!Next \/ UNCHANGED Abs!vars
    BY <1>3, OwnSteps, ReturnAtomic, BuilderStepAtomic, NativeStepAtomic, FallbackStepAtomic
  <1>4. CASE OtherAcquires \/ OtherReleases
    <2>1. /\ UNCHANGED <<word, req, pc, exp, ok, class>>
          /\ lock \in {"nobody", "other"} /\ lock' \in {"nobody", "other"}
      BY <1>4 DEF OtherAcquires, OtherReleases, vars
    <2>2. \A u \in Threads : lock' = u <=> lock = u
      BY <2>1, ThreadsAssumption
    <2> QED
      BY <2>1, <2>2, OtherAtomic
  <1> QED
    BY <1>1, <1>2, <1>3, <1>4 DEF Next

\* Every operation of every class takes effect at one instant between its call
\* and its return and returns what belongs to that instant, whatever the number
\* of threads, the size of the object and of the word, the byte order and the
\* operators on bits: the objects that share a word never disturb each other,
\* and nobody sees a part of what fallback_atomic copies byte by byte
\* (builder.hpp:33-52, 291-319, gcc-x86.hpp, fallback.hpp:25-65).  Only the
\* calls of atomic_x86_128 and linux-arm that are known to be broken are left
\* out.
THEOREM ClassesAtomic ==
    ASSUME Calls \cap Broken = {}
    PROVE  Spec => ObjectsAtomic
  <1>1. ClassesInit => ClassesInv /\ Abs!Init
    BY ClassesInvInit, AtomicInit
  <1>2. ClassesInv /\ [Next]_everyVar => ClassesInv'
    BY ClassesInvStep
  <1>3. ClassesInv /\ [Next]_everyVar => [Abs!Next]_Abs!vars
    BY AtomicStep
  <1> QED
    BY <1>1, <1>2, <1>3, PTL DEF Spec, ObjectsAtomic, Abs!Spec
=============================================================================
