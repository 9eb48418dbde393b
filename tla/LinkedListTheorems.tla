------------------------- MODULE LinkedListTheorems -------------------------
(***************************************************************************)
(* Facts about lists linked by a next field: Reached finds the list there  *)
(* is, and what a push, a pop or an insertion makes of it.                 *)
(***************************************************************************)
EXTENDS LinkedLists, FiniteSets, SequenceTheorems, FiniteSetTheorems,
        WellFoundedInduction, TLAPS

-----------------------------------------------------------------------------
(* Induction *)

\* A set of naturals has a least element.
LEMMA LeastNatural ==
    ASSUME NEW S, S \subseteq Nat, S # {}
    PROVE  \E x \in S : \A y \in S : x <= y
<1>1. PICK R : /\ IsWellFoundedOn(R, Nat)
               /\ \A x, y \in Nat : x < y => <<x, y>> \in R
  <2> WITNESS OpToRel(<, Nat)
  <2>1. \A x, y \in Nat : x < y => <<x, y>> \in OpToRel(<, Nat)
    BY DEF OpToRel
  <2> QED
    BY <2>1, NatLessThanWellFounded
<1>2. IsWellFoundedOn(R, Nat)
  BY <1>1
<1>3. \E x \in S : \A y \in S : ~ (<<y, x>> \in R)
  BY <1>2, WFMin
<1>4. PICK x \in S : \A y \in S : ~ (<<y, x>> \in R)
  BY <1>3
<1>5. ASSUME NEW y \in S
      PROVE  x <= y
  <2>1. x \in Nat /\ y \in Nat /\ <<y, x>> \notin R
    BY <1>4
  <2>2. ~(y < x)
    BY <1>1, <2>1
  <2> QED
    BY <2>1, <2>2
<1> QED
  BY <1>5

\* Induction over the naturals, with a set for the predicate.
LEMMA SetInduction ==
    ASSUME NEW S, 0 \in S, \A n \in Nat : n \in S => n + 1 \in S
    PROVE  Nat \subseteq S
<1> DEFINE T == Nat \ S
<1> SUFFICES ASSUME T # {}
             PROVE  FALSE
  OBVIOUS
<1>1. PICK x \in T : \A y \in T : x <= y
  <2>1. T \subseteq Nat
    OBVIOUS
  <2> HIDE DEF T
  <2> QED
    BY <2>1, LeastNatural
<1>2. x # 0 /\ x - 1 \in Nat /\ x - 1 \in S
  BY <1>1
<1> QED
  BY <1>1, <1>2

-----------------------------------------------------------------------------
(* Reached *)

\* There are no more nodes in a list without repetitions than nodes.
LEMMA LenBound ==
    ASSUME NEW Nodes, IsFiniteSet(Nodes),
           NEW c \in Seq(Nodes), \A i, j \in 1 .. Len(c) : c[i] = c[j] => i = j
    PROVE  /\ Cardinality(Nodes) \in Nat
           /\ Len(c) <= Cardinality(Nodes)
<1>1. IsFiniteSet(Nodes)
  OBVIOUS
<1>2. Cardinality(Nodes) \in Nat
  BY <1>1, FS_CardinalityType
<1>3. c \in [1 .. Len(c) -> Nodes] /\ Len(c) \in Nat
  BY LenProperties
<1>4. IsFiniteSet(1 .. Len(c)) /\ Cardinality(1 .. Len(c)) = Len(c)
  <2>1. Cardinality(1 .. Len(c)) = IF 1 > Len(c) THEN 0 ELSE Len(c) - 1 + 1
    BY <1>3, FS_Interval
  <2>2. IsFiniteSet(1 .. Len(c))
    BY <1>3, FS_Interval
  <2> QED
    BY <1>3, <2>1, <2>2
<1>5. ~ (Cardinality(Nodes) < Cardinality(1 .. Len(c)))
  <2> SUFFICES ASSUME Cardinality(Nodes) < Cardinality(1 .. Len(c))
               PROVE  FALSE
    OBVIOUS
  <2> DEFINE S == 1 .. Len(c)
  <2>1. \E x, y \in S : x # y /\ c[x] = c[y]
    <3>1. IsFiniteSet(S) /\ c \in [S -> Nodes] /\ Cardinality(Nodes) < Cardinality(S)
      BY <1>3, <1>4
    <3> HIDE DEF S
    <3> QED
      BY ONLY <1>1, <3>1, FS_PigeonHole
  <2> QED
    BY <2>1
<1> QED
  BY <1>2, <1>3, <1>4, <1>5

\* What the definition of list in Reached asks of it at k.
ReachedStep(f, k, n, next, null) ==
    IF k = 0 THEN <<>>
    ELSE LET l == f[k - 1]
             m == IF l = <<>> THEN n ELSE next[l[Len(l)]]
         IN  IF m = null THEN l ELSE Append(l, m)

\* The first k nodes of the list, or all of them.
Prefix(c, k) == SubSeq(c, 1, IF k <= Len(c) THEN k ELSE Len(c))

\* A prefix has the first nodes of the list, and the next one adds one.
LEMMA PrefixProperties ==
    ASSUME NEW Nodes, NEW c \in Seq(Nodes), NEW k \in Nat
    PROVE  /\ Prefix(c, 0) = <<>>
           /\ Prefix(c, k) \in Seq(Nodes)
           /\ Len(Prefix(c, k)) = IF k <= Len(c) THEN k ELSE Len(c)
           /\ \A i \in 1 .. Len(Prefix(c, k)) : Prefix(c, k)[i] = c[i]
           /\ k < Len(c) => Prefix(c, k + 1) = Append(Prefix(c, k), c[k + 1])
           /\ k >= Len(c) => Prefix(c, k) = c
BY SMTT(30) DEF Prefix

\* Whatever list leads from n to null, Reached follows it to its end: its function
\* exists because the prefixes of the list satisfy its equation, and is unique by
\* induction on the number of links. The list may end at a node.
LEMMA ReachedUpTo ==
    ASSUME NEW Nodes, IsFiniteSet(Nodes), NEW null,
           NEW n, NEW next, NEW c \in Seq(Nodes), Chain(c, n, next, null),
           null \notin Elements(c)
    PROVE  Reached(n, next, null, Cardinality(Nodes)) = c
<1>1. Len(c) \in Nat /\ \A i \in 1 .. Len(c) : c[i] \in Nodes /\ c[i] # null
  BY ElementOfSeq, LenProperties DEF Elements
<1>2. ASSUME NEW f, NEW k \in Nat, k > 0 => f[k - 1] = Prefix(c, k - 1)
      PROVE  ReachedStep(f, k, n, next, null) = Prefix(c, k)
  <2>1. CASE k = 0
    BY <2>1, PrefixProperties DEF ReachedStep
  <2>2. CASE k > 0
    <3> DEFINE p == Prefix(c, k - 1)
    <3>1. k - 1 \in Nat /\ f[k - 1] = p
      BY <1>2, <2>2
    <3>2. /\ p \in Seq(Nodes)
          /\ Len(p) = IF k - 1 <= Len(c) THEN k - 1 ELSE Len(c)
          /\ \A i \in 1 .. Len(p) : p[i] = c[i]
          /\ k - 1 < Len(c) => Prefix(c, k) = Append(p, c[k])
          /\ k - 1 >= Len(c) => p = c
      BY <3>1, PrefixProperties
    <3>3. k >= Len(c) => Prefix(c, k) = c
      BY PrefixProperties
    <3> HIDE DEF p
    <3> DEFINE m == IF p = <<>> THEN n ELSE next[p[Len(p)]]
    <3>4. m = IF k - 1 < Len(c) THEN c[k] ELSE null
      <4>1. CASE p = <<>>
        BY <1>1, <2>2, <3>2, <4>1 DEF Chain
      <4>2. CASE p # <<>>
        <5>1. Len(p) # 0 /\ Len(p) \in 1 .. Len(c) /\ p[Len(p)] = c[Len(p)]
          BY <1>1, <3>1, <3>2, <4>2, EmptySeq
        <5> QED
          BY <1>1, <2>2, <3>1, <3>2, <4>2, <5>1 DEF Chain
      <4> QED
        BY <4>1, <4>2
    <3>5. ReachedStep(f, k, n, next, null) = IF m = null THEN p ELSE Append(p, m)
      BY <2>2, <3>1 DEF ReachedStep
    <3> HIDE DEF m
    <3>6. CASE k - 1 < Len(c)
      <4>1. m = c[k] /\ m # null
        BY <1>1, <2>2, <3>4, <3>6
      <4> QED
        BY <3>2, <3>5, <3>6, <4>1
    <3>7. CASE k - 1 >= Len(c)
      BY <1>1, <3>2, <3>3, <3>4, <3>5, <3>7
    <3> QED
      BY <1>1, <3>6, <3>7
  <2> QED
    BY <2>1, <2>2
<1> DEFINE list == CHOOSE g : g = [k \in Nat |-> ReachedStep(g, k, n, next, null)]
<1>3. \A k \in Nat : list[k] = ReachedStep(list, k, n, next, null)
  <2> DEFINE f == [k \in Nat |-> Prefix(c, k)]
  <2>1. f = [k \in Nat |-> ReachedStep(f, k, n, next, null)]
    <3>1. ASSUME NEW k \in Nat PROVE f[k] = ReachedStep(f, k, n, next, null)
      BY <1>2
    <3> QED
      BY <3>1
  <2>3. list = [k \in Nat |-> ReachedStep(list, k, n, next, null)]
    BY <2>1
  <2> QED
    BY <2>3
<1>r. Reached(n, next, null, Cardinality(Nodes)) = list[Cardinality(Nodes)]
  BY DEF Reached, ReachedStep
<1> HIDE DEF list
<1>4. \A k \in Nat : list[k] = Prefix(c, k)
  <2> DEFINE S == {k \in Nat : list[k] = Prefix(c, k)}
  <2>1. 0 \in S
    BY <1>2, <1>3
  <2>2. ASSUME NEW k \in Nat, k \in S
        PROVE  k + 1 \in S
    <3>1. ReachedStep(list, k + 1, n, next, null) = Prefix(c, k + 1)
      BY <1>2, <2>2
    <3> QED
      BY <1>3, <3>1
  <2>3. Nat \subseteq S
    <3> HIDE DEF S
    <3> QED
      BY <2>1, <2>2, SetInduction
  <2> QED
    BY <2>3
<1>5. Cardinality(Nodes) \in Nat /\ Len(c) <= Cardinality(Nodes)
  BY LenBound DEF Chain
<1>6. Prefix(c, Cardinality(Nodes)) = c
  BY <1>1, <1>5, PrefixProperties
<1> QED
  BY <1>4, <1>5, <1>6, <1>r

\* Or at a null.
LEMMA ReachedIs ==
    ASSUME NEW Nodes, IsFiniteSet(Nodes), NEW null, null \notin Nodes,
           NEW n, NEW next, NEW c \in Seq(Nodes), Chain(c, n, next, null)
    PROVE  Reached(n, next, null, Cardinality(Nodes)) = c
BY ReachedUpTo DEF Elements

-----------------------------------------------------------------------------
(* What a step makes of a list *)

\* A list whose links are left alone stays.
LEMMA ChainFrame ==
    ASSUME NEW Nodes, NEW null, NEW n, NEW next, NEW after, NEW c \in Seq(Nodes),
           Chain(c, n, next, null), \A m \in Elements(c) : after[m] = next[m]
    PROVE  Chain(c, n, after, null)
BY DEF Chain, Elements

\* The nodes of a list are linked among themselves, none to the first, and no two to
\* the same one.
LEMMA ChainShape ==
    ASSUME NEW Nodes, NEW null, null \notin Nodes, NEW n, NEW next,
           NEW c \in Seq(Nodes), Chain(c, n, next, null)
    PROVE  /\ Elements(c) \subseteq Nodes
           /\ n \in Elements(c) \cup {null}
           /\ c = <<>> <=> n = null
           /\ \A m \in Elements(c) :
                /\ next[m] \in Elements(c) \cup {null}
                /\ next[m] # n
                /\ \A l \in Elements(c) : l # m => next[l] = null \/ next[l] # next[m]
<1>1. /\ Len(c) \in Nat /\ \A i \in 1 .. Len(c) : c[i] \in Nodes /\ c[i] # null
      /\ c = <<>> <=> Len(c) = 0
  BY ElementOfSeq, LenProperties, EmptySeq
<1>2. /\ n = IF c = <<>> THEN null ELSE c[1]
      /\ \A i \in 1 .. Len(c) : next[c[i]] = IF i = Len(c) THEN null ELSE c[i + 1]
      /\ \A i, j \in 1 .. Len(c) : c[i] = c[j] => i = j
  BY DEF Chain
<1>3. \A i \in 1 .. Len(c) : i = Len(c) \/ i + 1 \in 1 .. Len(c)
  BY <1>1
<1>4. c # <<>> => 1 \in 1 .. Len(c)
  BY <1>1
<1>5. Elements(c) \subseteq Nodes /\ n \in Elements(c) \cup {null} /\ (c = <<>> <=> n = null)
  BY <1>1, <1>2, <1>4 DEF Elements
<1>6. ASSUME NEW i \in 1 .. Len(c)
      PROVE  /\ next[c[i]] \in Elements(c) \cup {null}
             /\ next[c[i]] # n
             /\ \A j \in 1 .. Len(c) : c[j] # c[i] => next[c[j]] = null \/ next[c[j]] # next[c[i]]
  <2>1. next[c[i]] \in Elements(c) \cup {null}
    BY <1>2, <1>3 DEF Elements
  <2>2. next[c[i]] # n
    <3>1. n = c[1] /\ c[1] # null /\ 1 \in 1 .. Len(c)
      BY <1>1, <1>2, <1>4
    <3>2. i # Len(c) => i + 1 # 1 /\ i + 1 \in 1 .. Len(c) /\ next[c[i]] = c[i + 1]
      BY <1>1, <1>2, <1>3
    <3>3. i = Len(c) => next[c[i]] = null
      BY <1>2
    <3> QED
      BY <1>2, <3>1, <3>2, <3>3
  <2>3. ASSUME NEW j \in 1 .. Len(c), c[j] # c[i], next[c[j]] # null
        PROVE  next[c[j]] # next[c[i]]
    <3>1. j + 1 \in 1 .. Len(c) /\ next[c[j]] = c[j + 1]
      BY <1>2, <1>3, <2>3
    <3>2. CASE i = Len(c)
      BY <1>2, <2>3, <3>2
    <3>3. CASE i # Len(c)
      <4>1. i + 1 \in 1 .. Len(c) /\ next[c[i]] = c[i + 1] /\ i + 1 # j + 1
        BY <1>2, <1>3, <2>3, <3>3
      <4> QED
        BY <1>2, <3>1, <4>1
    <3> QED
      BY <3>2, <3>3
  <2> QED
    BY <2>1, <2>2, <2>3
<1> QED
  BY <1>5, <1>6 DEF Elements

\* A new node in front.
LEMMA ChainPush ==
    ASSUME NEW Nodes, NEW null, NEW h, NEW next, NEW after, NEW c \in Seq(Nodes),
           Chain(c, h, next, null), NEW n \in Nodes \ Elements(c), after[n] = h,
           \A m \in Elements(c) : after[m] = next[m]
    PROVE  /\ <<n>> \o c \in Seq(Nodes)
           /\ Chain(<<n>> \o c, n, after, null)
           /\ Elements(<<n>> \o c) = Elements(c) \cup {n}
<1> DEFINE d == <<n>> \o c
<1>2. /\ d \in Seq(Nodes) /\ Len(d) = Len(c) + 1 /\ Len(c) \in Nat
      /\ d[1] = n /\ \A i \in 1 .. Len(c) : d[i + 1] = c[i]
      /\ c = <<>> <=> Len(c) = 0
      /\ \A i \in 1 .. Len(c) : c[i] \in Nodes
  OBVIOUS
<1>i. \A i \in 1 .. Len(d) : i = 1 \/ (i - 1 \in 1 .. Len(c) /\ d[i] = c[i - 1])
  <2> SUFFICES ASSUME NEW i \in 1 .. Len(d), i # 1
               PROVE  i - 1 \in 1 .. Len(c) /\ d[i] = c[i - 1]
    OBVIOUS
  <2>1. i - 1 \in 1 .. Len(c) /\ (i - 1) + 1 = i
    BY <1>2
  <2> QED
    BY <1>2, <2>1
<1> HIDE DEF d
<1>3. n = IF d = <<>> THEN null ELSE d[1]
  BY <1>2
<1>e. \A i \in 1 .. Len(c) : c[i] \in Elements(c) /\ c[i] # n /\ after[c[i]] = next[c[i]]
  BY DEF Elements
<1>4. ASSUME NEW i \in 1 .. Len(d)
      PROVE  after[d[i]] = IF i = Len(d) THEN null ELSE d[i + 1]
  <2>1. CASE i = 1
    <3>1. h = IF c = <<>> THEN null ELSE c[1]
      BY DEF Chain
    <3> QED
      BY <1>2, <2>1, <3>1
  <2>2. CASE i # 1
    <3>1. i - 1 \in 1 .. Len(c) /\ d[i] = c[i - 1]
      BY <1>i, <2>2
    <3>2. next[c[i - 1]] = IF i - 1 = Len(c) THEN null ELSE c[i]
      BY <3>1 DEF Chain
    <3>3. i - 1 # Len(c) => i \in 1 .. Len(c) /\ d[i + 1] = c[i]
      BY <1>2, <3>1
    <3> QED
      BY <1>2, <1>e, <3>1, <3>2, <3>3
  <2> QED
    BY <2>1, <2>2
<1>5. \A i, j \in 1 .. Len(c) : c[i] = c[j] => i = j
  BY DEF Chain
<1>6. \A i, j \in 1 .. Len(d) : d[i] = d[j] => i = j
  <2> SUFFICES ASSUME NEW i \in 1 .. Len(d), NEW j \in 1 .. Len(d), d[i] = d[j]
               PROVE  i = j
    OBVIOUS
  <2>1. CASE i # 1 /\ j # 1
    <3>1. i - 1 = j - 1
      BY <1>5, <1>i, <2>1
    <3> QED
      BY <3>1
  <2>2. \A k \in 1 .. Len(d) : k # 1 => d[k] # n
    BY <1>e, <1>i
  <2>4. CASE i = 1 \/ j = 1
    BY <1>2, <2>2, <2>4
  <2> QED
    BY <2>1, <2>4
<1>7. Elements(d) = Elements(c) \cup {n}
  <2>1. ASSUME NEW i \in 1 .. Len(d)
        PROVE  d[i] \in Elements(c) \cup {n}
    BY <1>2, <1>e, <1>i
  <2>2. n \in Elements(d)
    <3>1. 1 \in 1 .. Len(d)
      BY <1>2
    <3> QED
      BY <1>2, <3>1 DEF Elements
  <2>3. ASSUME NEW i \in 1 .. Len(c)
        PROVE  c[i] \in Elements(d)
    <3>1. i + 1 \in 1 .. Len(d)
      BY <1>2
    <3> QED
      BY <1>2, <3>1 DEF Elements
  <2> QED
    BY <2>1, <2>2, <2>3 DEF Elements
<1>8. d \in Seq(Nodes) /\ Chain(d, n, after, null)
  BY <1>2, <1>3, <1>4, <1>6 DEF Chain
<1> QED
  BY <1>7, <1>8 DEF d

\* The first node taken off.
LEMMA ChainPop ==
    ASSUME NEW Nodes, NEW null, null \notin Nodes, NEW n, n # null, NEW next,
           NEW c \in Seq(Nodes), Chain(c, n, next, null)
    PROVE  /\ c # <<>> /\ c[1] = n /\ n \in Nodes
           /\ Tail(c) \in Seq(Nodes)
           /\ Chain(Tail(c), next[n], next, null)
           /\ Elements(Tail(c)) = Elements(c) \ {n}
<1> DEFINE d == Tail(c)
<1>1. Len(c) \in Nat /\ (c = <<>> <=> Len(c) = 0) /\ \A i \in 1 .. Len(c) : c[i] \in Nodes
  OBVIOUS
<1>2. c # <<>> /\ c[1] = n
  BY DEF Chain
<1>3. /\ d \in Seq(Nodes) /\ Len(d) = Len(c) - 1
      /\ \A i \in 1 .. Len(d) : d[i] = c[i + 1]
      /\ d = <<>> <=> Len(d) = 0
  <2>1. /\ Tail(c) \in Seq(Nodes) /\ Len(Tail(c)) = Len(c) - 1
        /\ \A i \in 1 .. Len(Tail(c)) : Tail(c)[i] = c[i + 1]
    <3>1. c \in Seq(Nodes) /\ c # <<>>
      BY <1>2
    <3> QED
      BY ONLY <3>1, HeadTailProperties
  <2> HIDE DEF d
  <2>2. d \in Seq(Nodes) => (d = <<>> <=> Len(d) = 0)
    OBVIOUS
  <2> QED
    BY <2>1, <2>2 DEF d
<1>5. \A i, j \in 1 .. Len(c) : c[i] = c[j] => i = j
  BY DEF Chain
<1>i. 1 \in 1 .. Len(c) /\ \A i \in 1 .. Len(d) : i + 1 \in 1 .. Len(c)
  BY <1>1, <1>2, <1>3
<1> HIDE DEF d
<1>7. next[n] = IF d = <<>> THEN null ELSE d[1]
  <2>1. next[c[1]] = IF 1 = Len(c) THEN null ELSE c[1 + 1]
    BY <1>i DEF Chain
  <2> QED
    BY <1>1, <1>2, <1>3, <2>1
<1>8. ASSUME NEW i \in 1 .. Len(d)
      PROVE  next[d[i]] = IF i = Len(d) THEN null ELSE d[i + 1]
  <2>1. next[c[i + 1]] = IF i + 1 = Len(c) THEN null ELSE c[(i + 1) + 1]
    BY <1>i DEF Chain
  <2>2. i # Len(d) => i + 1 \in 1 .. Len(d)
    BY <1>1, <1>3
  <2> QED
    BY <1>1, <1>3, <2>1, <2>2
<1>9. ASSUME NEW i \in 1 .. Len(d), NEW j \in 1 .. Len(d), d[i] = d[j]
      PROVE  i = j
  <2>1. i + 1 = j + 1
    BY <1>3, <1>5, <1>9, <1>i
  <2> QED
    BY <2>1
<1>10. Elements(d) = Elements(c) \ {n}
  <2>2. ASSUME NEW i \in 1 .. Len(d)
        PROVE  d[i] \in Elements(c) \ {n}
    <3>1. c[i + 1] \in Elements(c)
      BY <1>i DEF Elements
    <3>2. i + 1 # 1
      BY <1>3
    <3>3. c[i + 1] # c[1]
      BY <1>5, <1>i, <3>2
    <3> QED
      BY <1>2, <1>3, <3>1, <3>3
  <2>3. ASSUME NEW m \in Elements(c), m # n
        PROVE  m \in Elements(d)
    <3>1. PICK i \in 1 .. Len(c) : m = c[i] /\ i # 1
      BY <1>2, <2>3 DEF Elements
    <3>2. i - 1 \in 1 .. Len(d) /\ (i - 1) + 1 = i
      BY <1>1, <1>3, <3>1
    <3> QED
      BY <1>3, <3>1, <3>2 DEF Elements
  <2> QED
    BY <2>2, <2>3 DEF Elements
<1>11. Chain(d, next[n], next, null)
  BY <1>3, <1>7, <1>8, <1>9 DEF Chain
<1>12. n \in Nodes
  BY <1>1, <1>2, <1>i
<1> QED
  BY <1>2, <1>3, <1>10, <1>11, <1>12 DEF d

\* The nodes of two lists together.
LEMMA ElementsAppend ==
    ASSUME NEW Nodes, NEW c \in Seq(Nodes), NEW d \in Seq(Nodes)
    PROVE  Elements(c \o d) = Elements(c) \cup Elements(d)
<1> DEFINE e == c \o d
<1>1. /\ Len(c) \in Nat /\ Len(d) \in Nat
      /\ \A i \in 1 .. Len(c) : c[i] \in Elements(c)
      /\ \A i \in 1 .. Len(d) : d[i] \in Elements(d)
  BY DEF Elements
<1>2. /\ Len(e) = Len(c) + Len(d)
      /\ \A i \in 1 .. Len(c) : e[i] = c[i]
      /\ \A i \in 1 .. Len(d) : e[Len(c) + i] = d[i]
  OBVIOUS
<1>3. \A i \in 1 .. Len(e) : \/ i \in 1 .. Len(c) /\ e[i] = c[i]
                             \/ i - Len(c) \in 1 .. Len(d) /\ e[i] = d[i - Len(c)]
  <2> SUFFICES ASSUME NEW i \in 1 .. Len(e), i \notin 1 .. Len(c)
               PROVE  i - Len(c) \in 1 .. Len(d) /\ e[i] = d[i - Len(c)]
    BY <1>2
  <2>1. i - Len(c) \in 1 .. Len(d) /\ Len(c) + (i - Len(c)) = i
    BY <1>1, <1>2
  <2> QED
    BY <1>2, <2>1
<1> HIDE DEF e
<1>7. Elements(e) = Elements(c) \cup Elements(d)
  <2>1. ASSUME NEW i \in 1 .. Len(e)
        PROVE  e[i] \in Elements(c) \cup Elements(d)
    BY <1>1, <1>3
  <2>2. ASSUME NEW i \in 1 .. Len(c)
        PROVE  c[i] \in Elements(e)
    <3>1. i \in 1 .. Len(e)
      BY <1>1, <1>2
    <3> QED
      BY <1>2, <3>1 DEF Elements
  <2>3. ASSUME NEW i \in 1 .. Len(d)
        PROVE  d[i] \in Elements(e)
    <3>1. Len(c) + i \in 1 .. Len(e)
      BY <1>1, <1>2
    <3> QED
      BY <1>2, <3>1 DEF Elements
  <2>4. Elements(e) \subseteq Elements(c) \cup Elements(d)
    BY <2>1 DEF Elements
  <2>5. Elements(c) \subseteq Elements(e) /\ Elements(d) \subseteq Elements(e)
    BY <2>2, <2>3 DEF Elements
  <2> QED
    BY <2>4, <2>5
<1> QED
  BY <1>7 DEF e

\* The last node of a list.
LastOf(c) == c[Len(c)]

\* The links of c and d are left alone, but that of the last node of c goes to m.
Joined(c, d, m, next, after) ==
    /\ after[LastOf(c)] = m
    /\ \A k \in Elements(c) \cup Elements(d) : k # LastOf(c) => after[k] = next[k]

\* The end of one list linked to the start of another.
LEMMA ChainAppend ==
    ASSUME NEW Nodes, NEW null, null \notin Nodes, NEW n, NEW m, NEW next, NEW after,
           NEW c \in Seq(Nodes), Chain(c, n, next, null), c # <<>>,
           NEW d \in Seq(Nodes), Chain(d, m, next, null),
           Elements(c) \cap Elements(d) = {},
           Joined(c, d, m, next, after)
    PROVE  /\ c \o d \in Seq(Nodes)
           /\ Chain(c \o d, n, after, null)
<1> DEFINE e == c \o d
<1> USE DEF LastOf, Joined
<1>1. /\ Len(c) \in Nat /\ Len(d) \in Nat /\ Len(c) # 0
      /\ d = <<>> <=> Len(d) = 0
      /\ \A i \in 1 .. Len(c) : c[i] \in Nodes /\ c[i] \in Elements(c)
      /\ \A i \in 1 .. Len(d) : d[i] \in Nodes /\ d[i] \in Elements(d)
  BY DEF Elements
<1>2. /\ e \in Seq(Nodes) /\ Len(e) = Len(c) + Len(d)
      /\ \A i \in 1 .. Len(c) : e[i] = c[i]
      /\ \A i \in 1 .. Len(d) : e[Len(c) + i] = d[i]
  OBVIOUS
<1>3. \A i \in 1 .. Len(e) : \/ i \in 1 .. Len(c) /\ e[i] = c[i]
                             \/ i - Len(c) \in 1 .. Len(d) /\ e[i] = d[i - Len(c)]
  <2> SUFFICES ASSUME NEW i \in 1 .. Len(e), i \notin 1 .. Len(c)
               PROVE  i - Len(c) \in 1 .. Len(d) /\ e[i] = d[i - Len(c)]
    BY <1>2
  <2>1. i - Len(c) \in 1 .. Len(d) /\ Len(c) + (i - Len(c)) = i
    BY <1>1, <1>2
  <2> QED
    BY <1>2, <2>1
<1> HIDE DEF e
<1>c. /\ n = c[1]
      /\ \A i \in 1 .. Len(c) : next[c[i]] = IF i = Len(c) THEN null ELSE c[i + 1]
      /\ \A i, j \in 1 .. Len(c) : c[i] = c[j] => i = j
  BY DEF Chain
<1>d. /\ m = IF d = <<>> THEN null ELSE d[1]
      /\ \A i \in 1 .. Len(d) : next[d[i]] = IF i = Len(d) THEN null ELSE d[i + 1]
      /\ \A i, j \in 1 .. Len(d) : d[i] = d[j] => i = j
  BY DEF Chain
<1>4. n = IF e = <<>> THEN null ELSE e[1]
  BY <1>1, <1>2, <1>c
<1>5. ASSUME NEW i \in 1 .. Len(e)
      PROVE  after[e[i]] = IF i = Len(e) THEN null ELSE e[i + 1]
  <2>1. CASE i \in 1 .. Len(c) /\ i # Len(c)
    <3>1. i + 1 \in 1 .. Len(c) /\ i # Len(e) /\ Len(c) \in 1 .. Len(c)
      BY <1>1, <1>2, <2>1
    <3>2. c[i] # c[Len(c)] /\ after[c[i]] = next[c[i]]
      BY <1>1, <1>c, <2>1, <3>1
    <3> QED
      BY <1>2, <1>c, <2>1, <3>1, <3>2
  <2>2. CASE i = Len(c)
    <3>1. after[e[i]] = m
      BY <1>1, <1>2, <2>2
    <3>2. CASE Len(d) = 0
      BY <1>1, <1>2, <1>d, <2>2, <3>1, <3>2
    <3>3. CASE Len(d) # 0
      <4>1. 1 \in 1 .. Len(d) /\ i # Len(e) /\ e[Len(c) + 1] = d[1]
        BY <1>1, <1>2, <2>2, <3>3
      <4> QED
        BY <1>1, <1>d, <2>2, <3>1, <3>3, <4>1
    <3> QED
      BY <3>2, <3>3
  <2>3. CASE i \notin 1 .. Len(c)
    <3> DEFINE k == i - Len(c)
    <3>1. k \in 1 .. Len(d) /\ e[i] = d[k] /\ i = Len(c) + k
      BY <1>1, <1>3, <2>3
    <3> HIDE DEF k
    <3>2. Len(c) \in 1 .. Len(c)
      BY <1>1
    <3>3. d[k] \notin Elements(c) /\ d[k] # c[Len(c)]
      BY <1>1, <3>1, <3>2
    <3>4. after[d[k]] = next[d[k]]
      BY <1>1, <3>1, <3>3
    <3>5. k # Len(d) => k + 1 \in 1 .. Len(d) /\ e[Len(c) + (k + 1)] = d[k + 1]
      <4>1. k # Len(d) => k + 1 \in 1 .. Len(d)
        BY <1>1, <3>1
      <4> QED
        BY <1>2, <4>1
    <3>6. Len(c) + (k + 1) = i + 1 /\ (k = Len(d) <=> i = Len(e))
      <4>1. Len(c) \in Int /\ k \in Int /\ Len(d) \in Int /\ i = Len(c) + k
        BY <1>1, <3>1
      <4>2. Len(e) = Len(c) + Len(d)
        BY <1>2
      <4> QED
        BY ONLY <4>1, <4>2
    <3> QED
      BY <1>d, <3>1, <3>4, <3>5, <3>6
  <2> QED
    BY <2>1, <2>2, <2>3
<1>6. ASSUME NEW i \in 1 .. Len(e), NEW j \in 1 .. Len(e), e[i] = e[j]
      PROVE  i = j
  <2>1. CASE i \in 1 .. Len(c) /\ j \in 1 .. Len(c)
    BY <1>2, <1>6, <1>c, <2>1
  <2>2. CASE i \notin 1 .. Len(c) /\ j \notin 1 .. Len(c)
    <3>1. /\ i - Len(c) \in 1 .. Len(d) /\ e[i] = d[i - Len(c)]
          /\ j - Len(c) \in 1 .. Len(d) /\ e[j] = d[j - Len(c)]
      BY <1>3, <2>2
    <3>2. d[i - Len(c)] = d[j - Len(c)]
      BY <1>6, <3>1
    <3>3. i - Len(c) = j - Len(c)
      BY ONLY <1>d, <3>1, <3>2
    <3> QED
      BY <1>1, <3>3
  <2>3. CASE i \in 1 .. Len(c) /\ j \notin 1 .. Len(c)
    <3>1. e[i] \in Elements(c)
      BY <1>1, <1>2, <2>3
    <3>2. e[j] \in Elements(d)
      BY <1>1, <1>3, <2>3
    <3> QED
      BY <1>6, <3>1, <3>2
  <2>4. CASE i \notin 1 .. Len(c) /\ j \in 1 .. Len(c)
    <3>1. e[j] \in Elements(c)
      BY <1>1, <1>2, <2>4
    <3>2. e[i] \in Elements(d)
      BY <1>1, <1>3, <2>4
    <3> QED
      BY <1>6, <3>1, <3>2
  <2> QED
    BY <2>1, <2>2, <2>3, <2>4
<1>8. Chain(e, n, after, null)
  BY <1>4, <1>5, <1>6 DEF Chain
<1> QED
  BY <1>2, <1>8 DEF e

-----------------------------------------------------------------------------
(* The list that starts at a node, and its nodes *)

\* A list known by its nodes is the one the links lead through.
LEMMA ListIs ==
    ASSUME NEW Nodes, IsFiniteSet(Nodes), NEW null, null \notin Nodes,
           NEW n, NEW next, NEW c \in Seq(Nodes), Chain(c, n, next, null)
    PROVE  ListOf(n, next, null, Nodes) = c /\ IsLinked(n, next, null, Nodes)
BY ReachedIs DEF ListOf, IsLinked

\* The empty list.
LEMMA ListEmpty ==
    ASSUME NEW Nodes, IsFiniteSet(Nodes), NEW null, null \notin Nodes, NEW next
    PROVE  /\ ListOf(null, next, null, Nodes) = <<>>
           /\ IsLinked(null, next, null, Nodes)
           /\ OnList(null, next, null, Nodes) = {}
<1>1. <<>> \in Seq(Nodes) /\ Chain(<<>>, null, next, null)
  BY DEF Chain
<1>2. Elements(<<>>) = {}
  BY DEF Elements
<1> QED
  BY <1>1, <1>2, ListIs DEF OnList

\* The nodes of a list are nodes; the first one is among them.
LEMMA ListNodes ==
    ASSUME NEW Nodes, NEW null, null \notin Nodes, NEW n, NEW next,
           IsLinked(n, next, null, Nodes)
    PROVE  /\ OnList(n, next, null, Nodes) \subseteq Nodes
           /\ n # null => n \in OnList(n, next, null, Nodes)
           /\ ListOf(n, next, null, Nodes) = <<>> <=> n = null
BY ChainShape DEF IsLinked, OnList

\* A list whose links are left alone stays.
LEMMA ListFrame ==
    ASSUME NEW Nodes, IsFiniteSet(Nodes), NEW null, null \notin Nodes, NEW n, NEW next,
           IsLinked(n, next, null, Nodes),
           NEW after, \A m \in OnList(n, next, null, Nodes) : after[m] = next[m]
    PROVE  /\ ListOf(n, after, null, Nodes) = ListOf(n, next, null, Nodes)
           /\ IsLinked(n, after, null, Nodes)
           /\ OnList(n, after, null, Nodes) = OnList(n, next, null, Nodes)
<1> DEFINE c == ListOf(n, next, null, Nodes)
<1>1. c \in Seq(Nodes) /\ Chain(c, n, next, null) /\ \A m \in Elements(c) : after[m] = next[m]
  BY DEF IsLinked, OnList
<1> HIDE DEF c
<1>2. Chain(c, n, after, null)
  BY <1>1, ChainFrame
<1>3. ListOf(n, after, null, Nodes) = c /\ IsLinked(n, after, null, Nodes)
  BY <1>1, <1>2, ListIs
<1> QED
  BY <1>3 DEF c, OnList

\* n is linked to h, and the links of S are left alone.
InFront(n, h, next, after, S) == after[n] = h /\ \A m \in S : after[m] = next[m]

\* A new node in front.
LEMMA ListPushIs ==
    ASSUME NEW Nodes, IsFiniteSet(Nodes), NEW null, null \notin Nodes, NEW h, NEW next,
           IsLinked(h, next, null, Nodes),
           NEW n \in Nodes, n \notin OnList(h, next, null, Nodes),
           NEW after, InFront(n, h, next, after, OnList(h, next, null, Nodes))
    PROVE  LET d == <<n>> \o ListOf(h, next, null, Nodes)
           IN  d \in Seq(Nodes) /\ Chain(d, n, after, null)
               /\ Elements(d) = OnList(h, next, null, Nodes) \cup {n}
<1> DEFINE c == ListOf(h, next, null, Nodes)
           d == <<n>> \o c
<1>1. /\ c \in Seq(Nodes) /\ Chain(c, h, next, null) /\ n \in Nodes \ Elements(c)
      /\ after[n] = h /\ \A m \in Elements(c) : after[m] = next[m]
  BY DEF IsLinked, OnList, InFront
<1> HIDE DEF c
<1>2. d \in Seq(Nodes) /\ Chain(d, n, after, null) /\ Elements(d) = Elements(c) \cup {n}
  BY <1>1, ChainPush
<1> HIDE DEF d
<1> QED
  BY <1>2 DEF c, d, OnList

\* A node put in front of a list.
LEMMA ListPush ==
    ASSUME NEW Nodes, IsFiniteSet(Nodes), NEW null, null \notin Nodes, NEW h, NEW next,
           IsLinked(h, next, null, Nodes),
           NEW n \in Nodes, n \notin OnList(h, next, null, Nodes),
           NEW after, InFront(n, h, next, after, OnList(h, next, null, Nodes))
    PROVE  /\ IsLinked(n, after, null, Nodes)
           /\ OnList(n, after, null, Nodes) = OnList(h, next, null, Nodes) \cup {n}
<1> DEFINE d == <<n>> \o ListOf(h, next, null, Nodes)
<1>1. /\ d \in Seq(Nodes) /\ Chain(d, n, after, null)
      /\ Elements(d) = OnList(h, next, null, Nodes) \cup {n}
  BY ListPushIs
<1> HIDE DEF d
<1>2. ListOf(n, after, null, Nodes) = d /\ IsLinked(n, after, null, Nodes)
  BY <1>1, ListIs
<1> QED
  BY <1>1, <1>2 DEF OnList

\* What is left of a list without its first node.
DropsFirst(n, next, null, Nodes) ==
    /\ ListOf(next[n], next, null, Nodes) = Tail(ListOf(n, next, null, Nodes))
    /\ IsLinked(next[n], next, null, Nodes)
    /\ OnList(next[n], next, null, Nodes) = OnList(n, next, null, Nodes) \ {n}

\* Walking on from the first node.
LEMMA ListDrop ==
    ASSUME NEW Nodes, IsFiniteSet(Nodes), NEW null, null \notin Nodes, NEW n, n # null,
           NEW next, IsLinked(n, next, null, Nodes)
    PROVE  DropsFirst(n, next, null, Nodes)
<1> DEFINE c == ListOf(n, next, null, Nodes)
           d == Tail(c)
<1>1. c \in Seq(Nodes) /\ Chain(c, n, next, null)
  BY DEF IsLinked
<1> HIDE DEF c
<1>2. /\ c # <<>> /\ c[1] = n /\ n \in Nodes
      /\ d \in Seq(Nodes) /\ Chain(d, next[n], next, null)
      /\ Elements(d) = Elements(c) \ {n}
  BY <1>1, ChainPop
<1> HIDE DEF d
<1>3. ListOf(next[n], next, null, Nodes) = d /\ IsLinked(next[n], next, null, Nodes)
  BY <1>2, ListIs
<1> QED
  BY <1>2, <1>3 DEF c, d, OnList, DropsFirst

\* The first node of a list.
StartsWith(n, c) == c # <<>> /\ c[1] = n

\* A list that is not empty starts where its head points.
LEMMA ListStart ==
    ASSUME NEW Nodes, IsFiniteSet(Nodes), NEW null, null \notin Nodes, NEW n, n # null,
           NEW next, IsLinked(n, next, null, Nodes)
    PROVE  StartsWith(n, ListOf(n, next, null, Nodes))
<1> DEFINE c == ListOf(n, next, null, Nodes)
<1>1. c \in Seq(Nodes) /\ Chain(c, n, next, null)
  BY DEF IsLinked
<1> HIDE DEF c
<1>2. c # <<>> /\ c[1] = n
  BY <1>1 DEF Chain
<1> QED
  BY <1>2 DEF StartsWith, c

\* The list behind its first node.
LEMMA ListPop ==
    ASSUME NEW Nodes, IsFiniteSet(Nodes), NEW null, null \notin Nodes, NEW n, n # null,
           NEW next, IsLinked(n, next, null, Nodes)
    PROVE  /\ n \in Nodes
           /\ ListOf(n, next, null, Nodes) # <<>>
           /\ ListOf(n, next, null, Nodes)[1] = n
           /\ ListOf(next[n], next, null, Nodes) = Tail(ListOf(n, next, null, Nodes))
           /\ IsLinked(next[n], next, null, Nodes)
           /\ OnList(next[n], next, null, Nodes) = OnList(n, next, null, Nodes) \ {n}
<1> DEFINE c == ListOf(n, next, null, Nodes)
           d == Tail(c)
<1>1. c \in Seq(Nodes) /\ Chain(c, n, next, null)
  BY DEF IsLinked
<1> HIDE DEF c
<1>2. /\ c # <<>> /\ c[1] = n /\ n \in Nodes
      /\ d \in Seq(Nodes) /\ Chain(d, next[n], next, null)
      /\ Elements(d) = Elements(c) \ {n}
  BY <1>1, ChainPop
<1> HIDE DEF d
<1>3. ListOf(next[n], next, null, Nodes) = d /\ IsLinked(next[n], next, null, Nodes)
  BY <1>2, ListIs
<1> QED
  BY <1>2, <1>3 DEF c, d, OnList

\* The end of one list linked to the start of another.
LEMMA ListAppend ==
    ASSUME NEW Nodes, IsFiniteSet(Nodes), NEW null, null \notin Nodes, NEW n, n # null,
           NEW next, IsLinked(n, next, null, Nodes),
           NEW m, IsLinked(m, next, null, Nodes),
           OnList(n, next, null, Nodes) \cap OnList(m, next, null, Nodes) = {},
           NEW l, l = LastOf(ListOf(n, next, null, Nodes)),
           NEW after, after[l] = m,
           \A k \in OnList(n, next, null, Nodes) \cup OnList(m, next, null, Nodes) :
                k # l => after[k] = next[k]
    PROVE  /\ IsLinked(n, after, null, Nodes)
           /\ OnList(n, after, null, Nodes)
                = OnList(n, next, null, Nodes) \cup OnList(m, next, null, Nodes)
<1> DEFINE c == ListOf(n, next, null, Nodes)
           d == ListOf(m, next, null, Nodes)
           e == c \o d
<1>1. /\ c \in Seq(Nodes) /\ Chain(c, n, next, null)
      /\ d \in Seq(Nodes) /\ Chain(d, m, next, null)
      /\ Elements(c) \cap Elements(d) = {}
      /\ Joined(c, d, m, next, after)
  BY DEF IsLinked, OnList, Joined
<1>2. c # <<>>
  BY ListNodes
<1> HIDE DEF c, d
<1>3. e \in Seq(Nodes) /\ Chain(e, n, after, null) /\ Elements(e) = Elements(c) \cup Elements(d)
  <2>1. null \notin Nodes
    OBVIOUS
  <2>2. Chain(c \o d, n, after, null)
    BY ONLY <1>1, <1>2, <2>1, ChainAppend
  <2>3. Elements(c \o d) = Elements(c) \cup Elements(d)
    <3>1. c \in Seq(Nodes) /\ d \in Seq(Nodes)
      BY <1>1
    <3> QED
      BY ONLY <3>1, ElementsAppend
  <2>4. c \o d \in Seq(Nodes)
    BY <1>1
  <2> QED
    BY <2>2, <2>3, <2>4
<1> HIDE DEF e
<1>4. ListOf(n, after, null, Nodes) = e /\ IsLinked(n, after, null, Nodes)
  BY <1>3, ListIs
<1> QED
  BY <1>3, <1>4 DEF c, d, OnList

\* The last node of a list is one of its nodes.
LEMMA LastOnList ==
    ASSUME NEW Nodes, NEW null, null \notin Nodes, NEW n, n # null, NEW next,
           IsLinked(n, next, null, Nodes)
    PROVE  LastOf(ListOf(n, next, null, Nodes)) \in OnList(n, next, null, Nodes)
<1> DEFINE c == ListOf(n, next, null, Nodes)
<1>1. c \in Seq(Nodes) /\ c # <<>>
  BY ListNodes DEF IsLinked
<1> HIDE DEF c
<1>2. Len(c) \in 1 .. Len(c)
  BY <1>1
<1> QED
  BY <1>2 DEF c, OnList, LastOf, Elements

-----------------------------------------------------------------------------
(* What is in the nodes of a list *)

\* The values of the nodes c, when f says what each node holds.
ValueOf(f, n) == f[n]
Contents(f, c) == [i \in DOMAIN c |-> f[c[i]]]

\* v are these values, one for each node.
AreContents(v, f, c, Nodes) ==
    /\ v \in Seq({ValueOf(f, n) : n \in Nodes})
    /\ Len(v) = Len(c)
    /\ \A i \in 1 .. Len(c) : v[i] = f[c[i]]

\* Contents is a sequence of values.
LEMMA ContentsType ==
    ASSUME NEW Nodes, NEW f, NEW c \in Seq(Nodes)
    PROVE  AreContents(Contents(f, c), f, c, Nodes)
BY DEF Contents, AreContents, ValueOf

\* A node in front adds its value in front.
LEMMA ContentsPush ==
    ASSUME NEW Nodes, NEW f, NEW c \in Seq(Nodes), NEW n \in Nodes
    PROVE  Contents(f, <<n>> \o c) = <<ValueOf(f, n)>> \o Contents(f, c)
<1> DEFINE V == {ValueOf(f, m) : m \in Nodes}
           d == <<n>> \o c
           v == <<f[n]>> \o Contents(f, c)
<1>1. /\ d \in Seq(Nodes) /\ Len(d) = Len(c) + 1 /\ d[1] = n
      /\ \A i \in 1 .. Len(d) : i # 1 => i - 1 \in 1 .. Len(c) /\ d[i] = c[i - 1]
  OBVIOUS
<1>2. AreContents(Contents(f, c), f, c, Nodes)
  BY ContentsType
<1>v. f[n] \in V
  BY DEF ValueOf
<1> HIDE DEF V
<1>w. /\ Contents(f, c) \in Seq(V) /\ Len(Contents(f, c)) = Len(c)
      /\ \A i \in 1 .. Len(c) : Contents(f, c)[i] = f[c[i]]
  BY <1>2 DEF AreContents, V
<1>3. /\ v \in Seq(V) /\ Len(v) = Len(c) + 1 /\ v[1] = f[n]
      /\ \A i \in 1 .. Len(v) : i # 1 => v[i] = Contents(f, c)[i - 1]
  BY <1>v, <1>w
<1> HIDE DEF d, v
<1>4. /\ Contents(f, d) \in Seq(V) /\ Len(Contents(f, d)) = Len(d)
      /\ \A i \in 1 .. Len(d) : Contents(f, d)[i] = f[d[i]]
  <2>1. AreContents(Contents(f, d), f, d, Nodes)
    BY <1>1, ContentsType
  <2> QED
    BY <2>1 DEF AreContents, V
<1>5. ASSUME NEW i \in 1 .. Len(v)
      PROVE  Contents(f, d)[i] = v[i]
  <2>1. i \in 1 .. Len(d) /\ Contents(f, d)[i] = f[d[i]]
    BY <1>1, <1>3, <1>4
  <2>2. CASE i = 1
    BY <1>1, <1>3, <2>1, <2>2
  <2>3. CASE i # 1
    <3>1. i - 1 \in 1 .. Len(c) /\ d[i] = c[i - 1]
      BY <1>1, <2>1, <2>3
    <3> QED
      BY <1>w, <1>3, <2>1, <2>3, <3>1
  <2> QED
    BY <2>2, <2>3
<1>6. Len(Contents(f, d)) = Len(v)
  BY <1>1, <1>3, <1>4
<1>7. Contents(f, d) = v
  <2>1. Contents(f, d) \in Seq(V) /\ v \in Seq(V)
    BY <1>3, <1>4
  <2>2. \A i \in 1 .. Len(Contents(f, d)) : Contents(f, d)[i] = v[i]
    BY <1>5, <1>6
  <2> QED
    BY ONLY <1>6, <2>1, <2>2, SeqEqual
<1> QED
  BY <1>7 DEF d, v, ValueOf

\* A node at the end adds its value at the end.
LEMMA ContentsAppend ==
    ASSUME NEW Nodes, NEW f, NEW c \in Seq(Nodes), NEW n \in Nodes
    PROVE  Contents(f, c \o <<n>>) = Contents(f, c) \o <<ValueOf(f, n)>>
<1> DEFINE V == {ValueOf(f, m) : m \in Nodes}
           d == c \o <<n>>
           v == Contents(f, c)
           w == v \o <<ValueOf(f, n)>>
<1>1. d \in Seq(Nodes) /\ Len(d) = Len(c) + 1 /\ Len(c) \in Nat
  OBVIOUS
<1>2. AreContents(v, f, c, Nodes) /\ AreContents(Contents(f, d), f, d, Nodes)
  BY <1>1, ContentsType
<1>3. ValueOf(f, n) \in V
  OBVIOUS
<1>4. v \in Seq(V) /\ Contents(f, d) \in Seq(V) /\ Len(v) = Len(c) /\ Len(Contents(f, d)) = Len(d)
  BY <1>2 DEF AreContents
<1>5. /\ \A i \in 1 .. Len(c) : v[i] = f[c[i]]
      /\ \A i \in 1 .. Len(d) : Contents(f, d)[i] = f[d[i]]
  BY <1>2 DEF AreContents
<1>6. /\ \A i \in 1 .. Len(c) : d[i] = c[i]
      /\ d[Len(c) + 1] = n
  OBVIOUS
<1> HIDE DEF V, v, d
<1>7. w \in Seq(V) /\ Len(w) = Len(c) + 1
  BY <1>1, <1>3, <1>4
<1>8. /\ \A i \in 1 .. Len(c) : w[i] = v[i]
      /\ w[Len(c) + 1] = f[n]
  BY <1>1, <1>3, <1>4 DEF ValueOf
<1> HIDE DEF w
<1>9. \A i \in 1 .. Len(c) + 1 : Contents(f, d)[i] = w[i]
  BY <1>1, <1>5, <1>6, <1>8
<1>10. Contents(f, d) = w
  BY <1>1, <1>4, <1>7, <1>9, <1>3
<1> QED
  BY <1>10 DEF d, w, v

\* Without its first node the list has the values without the first.
LEMMA ContentsPop ==
    ASSUME NEW Nodes, NEW f, NEW c \in Seq(Nodes), c # <<>>
    PROVE  /\ Contents(f, c) # <<>>
           /\ Head(Contents(f, c)) = ValueOf(f, c[1])
           /\ Contents(f, Tail(c)) = Tail(Contents(f, c))
<1> DEFINE V == {ValueOf(f, m) : m \in Nodes}
           v == Contents(f, c)
           d == Tail(c)
<1>1. Len(c) \in Nat /\ Len(c) # 0
  OBVIOUS
<1> HIDE DEF V
<1>2. v \in Seq(V) /\ Len(v) = Len(c) /\ \A i \in 1 .. Len(c) : v[i] = f[c[i]]
  <2>1. AreContents(Contents(f, c), f, c, Nodes)
    BY ContentsType
  <2> QED
    BY <2>1 DEF AreContents, V
<1>3. /\ Tail(c) \in Seq(Nodes) /\ Len(Tail(c)) = Len(c) - 1
      /\ \A i \in 1 .. Len(Tail(c)) : Tail(c)[i] = c[i + 1]
  BY ONLY c \in Seq(Nodes), c # <<>>, HeadTailProperties
<1> HIDE DEF v, d
<1>4. /\ Contents(f, d) \in Seq(V) /\ Len(Contents(f, d)) = Len(d)
      /\ \A i \in 1 .. Len(d) : Contents(f, d)[i] = f[d[i]]
  <2>1. d \in Seq(Nodes)
    BY <1>3 DEF d
  <2>2. AreContents(Contents(f, d), f, d, Nodes)
    BY <2>1, ContentsType
  <2> QED
    BY <2>2 DEF AreContents, V
<1>5. v # <<>> /\ Head(v) = v[1] /\ 1 \in 1 .. Len(c)
  BY <1>1, <1>2
<1>6. /\ Tail(v) \in Seq(V) /\ Len(Tail(v)) = Len(v) - 1
      /\ \A i \in 1 .. Len(Tail(v)) : Tail(v)[i] = v[i + 1]
  BY ONLY <1>2, <1>5, HeadTailProperties
<1>7. \A i \in 1 .. Len(Tail(v)) : i \in 1 .. Len(d) /\ i + 1 \in 1 .. Len(c)
  BY <1>1, <1>2, <1>3, <1>6 DEF d
<1>8. \A i \in 1 .. Len(Tail(v)) : Contents(f, d)[i] = Tail(v)[i]
  BY <1>2, <1>3, <1>4, <1>6, <1>7 DEF d
<1>9. Len(Contents(f, d)) = Len(Tail(v))
  BY <1>2, <1>3, <1>4, <1>6 DEF d
<1>10. Contents(f, d) = Tail(v)
  BY ONLY <1>4, <1>6, <1>8, <1>9, SeqEqual
<1> QED
  BY <1>2, <1>5, <1>10 DEF v, d, ValueOf

-----------------------------------------------------------------------------
(* Walks along a list *)

\* What holds of the first node, and of a node after one it holds of, holds of all.
LEMMA ListForward ==
    ASSUME NEW Nodes, NEW null, null \notin Nodes, NEW n, NEW next,
           IsLinked(n, next, null, Nodes), n # null,
           NEW S, n \in S,
           \A m \in OnList(n, next, null, Nodes) \cap S : next[m] \in S \cup {null}
    PROVE  OnList(n, next, null, Nodes) \subseteq S
<1> DEFINE c == ListOf(n, next, null, Nodes)
           len == Len(c)
<1>0. c \in Seq(Nodes) /\ Chain(c, n, next, null) /\ OnList(n, next, null, Nodes) = Elements(c)
  BY DEF IsLinked, OnList
<1> HIDE DEF c
<1>1. /\ len \in Nat /\ \A i \in 1 .. len : c[i] \in Nodes
      /\ \A i \in 1 .. len : next[c[i]] = IF i = len THEN null ELSE c[i + 1]
      /\ n = IF len = 0 THEN null ELSE c[1]
      /\ \A i \in 1 .. len : c[i] \in OnList(n, next, null, Nodes)
      /\ \A m \in OnList(n, next, null, Nodes) : \E i \in 1 .. len : m = c[i]
  <2>1. len \in Nat /\ (c = <<>> <=> len = 0) /\ \A i \in 1 .. len : c[i] \in Nodes
    BY <1>0
  <2>2. /\ \A i \in 1 .. len : next[c[i]] = IF i = len THEN null ELSE c[i + 1]
        /\ n = IF len = 0 THEN null ELSE c[1]
    BY <1>0, <2>1 DEF Chain
  <2>3. /\ \A i \in 1 .. len : c[i] \in OnList(n, next, null, Nodes)
        /\ \A m \in OnList(n, next, null, Nodes) : \E i \in 1 .. len : m = c[i]
    BY <1>0 DEF Elements
  <2> QED
    BY <2>1, <2>2, <2>3
<1> HIDE DEF len
<1> DEFINE Bad == {i \in 1 .. len : c[i] \notin S}
<1> SUFFICES ASSUME Bad # {}
             PROVE  FALSE
  BY <1>1
<1>2. PICK i \in Bad : \A j \in Bad : i <= j
  <2>1. Bad \subseteq Nat
    OBVIOUS
  <2> HIDE DEF Bad
  <2> QED
    BY <2>1, LeastNatural
<1>3. i # 1
  BY <1>1, <1>2
<1>4. i - 1 \in 1 .. len /\ i - 1 \notin Bad /\ (i - 1) + 1 = i /\ i - 1 # len
  BY <1>1, <1>2, <1>3
<1>5. c[i - 1] \in OnList(n, next, null, Nodes) \cap S /\ next[c[i - 1]] = c[i]
  BY <1>1, <1>2, <1>4
<1>6. c[i] \notin S \cup {null}
  BY <1>1, <1>2
<1> QED
  BY <1>5, <1>6

\* What holds of the last node, and of a node before one it holds of, holds of all.
LEMMA ListBackward ==
    ASSUME NEW Nodes, NEW null, null \notin Nodes, NEW n, NEW next,
           IsLinked(n, next, null, Nodes),
           NEW S,
           \A m \in OnList(n, next, null, Nodes) : next[m] \in S \cup {null} => m \in S
    PROVE  OnList(n, next, null, Nodes) \subseteq S
<1> DEFINE c == ListOf(n, next, null, Nodes)
           len == Len(c)
<1>0. c \in Seq(Nodes) /\ Chain(c, n, next, null) /\ OnList(n, next, null, Nodes) = Elements(c)
  BY DEF IsLinked, OnList
<1> HIDE DEF c
<1>1. /\ len \in Nat /\ \A i \in 1 .. len : c[i] \in Nodes
      /\ \A i \in 1 .. len : next[c[i]] = IF i = len THEN null ELSE c[i + 1]
      /\ n = IF len = 0 THEN null ELSE c[1]
      /\ \A i \in 1 .. len : c[i] \in OnList(n, next, null, Nodes)
      /\ \A m \in OnList(n, next, null, Nodes) : \E i \in 1 .. len : m = c[i]
  <2>1. len \in Nat /\ (c = <<>> <=> len = 0) /\ \A i \in 1 .. len : c[i] \in Nodes
    BY <1>0
  <2>2. /\ \A i \in 1 .. len : next[c[i]] = IF i = len THEN null ELSE c[i + 1]
        /\ n = IF len = 0 THEN null ELSE c[1]
    BY <1>0, <2>1 DEF Chain
  <2>3. /\ \A i \in 1 .. len : c[i] \in OnList(n, next, null, Nodes)
        /\ \A m \in OnList(n, next, null, Nodes) : \E i \in 1 .. len : m = c[i]
    BY <1>0 DEF Elements
  <2> QED
    BY <2>1, <2>2, <2>3
<1> HIDE DEF len
<1> DEFINE Bad == {k \in 0 .. len - 1 : c[len - k] \notin S}
<1> SUFFICES ASSUME Bad # {}
             PROVE  FALSE
  <2>1. ASSUME NEW i \in 1 .. len, c[i] \notin S
        PROVE  Bad # {}
    <3>1. len - i \in 0 .. len - 1 /\ len - (len - i) = i
      BY <1>1
    <3>2. len - i \in Bad
      BY <2>1, <3>1
    <3> QED
      BY <3>2
  <2> HIDE DEF Bad
  <2> QED
    BY <1>1, <2>1
<1>2. PICK k \in Bad : \A j \in Bad : k <= j
  <2>1. Bad \subseteq Nat
    OBVIOUS
  <2> HIDE DEF Bad
  <2> QED
    BY <2>1, LeastNatural
<1> DEFINE i == len - k
<1>3. i \in 1 .. len /\ c[i] \notin S /\ k \in 0 .. len - 1
  BY <1>1, <1>2
<1>4. i # len => c[i + 1] \in S
  <2> SUFFICES ASSUME i # len
               PROVE  c[i + 1] \in S
    OBVIOUS
  <2>0. len \in Nat /\ k \in 0 .. len - 1 /\ k # 0
    BY <1>1, <1>3
  <2>1. k - 1 \in 0 .. len - 1 /\ len - (k - 1) = i + 1 /\ ~(k <= k - 1)
    BY ONLY <2>0
  <2>2. k - 1 \notin Bad
    <3> HIDE DEF Bad
    <3> QED
      BY <1>2, <2>1
  <2>3. c[len - (k - 1)] \in S
    BY <2>1, <2>2
  <2> QED
    BY <2>1, <2>3
<1> HIDE DEF i
<1>5. next[c[i]] \in S \cup {null} /\ c[i] \in OnList(n, next, null, Nodes)
  BY <1>1, <1>3, <1>4
<1> QED
  BY <1>3, <1>5

\* A node of the list starts the rest of it.
LEMMA ListRest ==
    ASSUME NEW Nodes, IsFiniteSet(Nodes), NEW null, null \notin Nodes, NEW n, NEW next,
           IsLinked(n, next, null, Nodes),
           NEW m, m \in OnList(n, next, null, Nodes)
    PROVE  /\ IsLinked(m, next, null, Nodes)
           /\ OnList(m, next, null, Nodes) \subseteq OnList(n, next, null, Nodes)
<1> DEFINE L == OnList(n, next, null, Nodes)
           S == {k \in L : IsLinked(k, next, null, Nodes) /\ OnList(k, next, null, Nodes) \subseteq L}
<1>1. n # null /\ n \in L
  BY ListEmpty, ListNodes
<1>2. n \in S
  BY <1>1
<1>3. ASSUME NEW k \in L \cap S
      PROVE  next[k] \in S \cup {null}
  <2>1. IsLinked(k, next, null, Nodes) /\ OnList(k, next, null, Nodes) \subseteq L /\ k # null
    BY <1>3, ListNodes
  <2>2. /\ IsLinked(next[k], next, null, Nodes)
        /\ OnList(next[k], next, null, Nodes) = OnList(k, next, null, Nodes) \ {k}
    BY <2>1, ListPop
  <2>3. PICK p : p = next[k]
    OBVIOUS
  <2>4. p # null => p \in OnList(p, next, null, Nodes)
    BY <2>2, <2>3, ListNodes
  <2> QED
    BY <2>1, <2>2, <2>3, <2>4
<1> HIDE DEF S
<1>4. L \subseteq S
  BY <1>1, <1>2, <1>3, ListForward
<1> QED
  BY <1>4 DEF S

\* The node without a node after it is the last one.
LEMMA ListEnd ==
    ASSUME NEW Nodes, NEW null, null \notin Nodes, NEW n, NEW next,
           IsLinked(n, next, null, Nodes),
           NEW m \in OnList(n, next, null, Nodes), next[m] = null
    PROVE  m = LastOf(ListOf(n, next, null, Nodes))
<1> DEFINE c == ListOf(n, next, null, Nodes)
<1>1. c \in Seq(Nodes) /\ Chain(c, n, next, null) /\ m \in Elements(c)
  BY DEF IsLinked, OnList
<1> HIDE DEF c
<1>2. PICK i \in 1 .. Len(c) : m = c[i]
  BY <1>1 DEF Elements
<1>3. Len(c) \in Nat /\ \A j \in 1 .. Len(c) : c[j] \in Nodes
  BY <1>1
<1>4. next[c[i]] = IF i = Len(c) THEN null ELSE c[i + 1]
  BY <1>1 DEF Chain
<1>5. i = Len(c)
  <2> SUFFICES ASSUME i # Len(c)
               PROVE  FALSE
    OBVIOUS
  <2>1. i + 1 \in 1 .. Len(c)
    BY <1>3
  <2> QED
    BY <1>2, <1>3, <1>4, <2>1
<1> QED
  BY <1>2, <1>5 DEF LastOf, c

\* The links of a list are left alone but for that of c.
Relinked(L, c, next, after) == \A m \in L : m # c => after[m] = next[m]

\* A node put behind the last one.
AddsLast(n, m, next, after, null, Nodes) ==
    /\ IsLinked(n, after, null, Nodes)
    /\ ListOf(n, after, null, Nodes) = ListOf(n, next, null, Nodes) \o <<m>>
    /\ OnList(n, after, null, Nodes) = OnList(n, next, null, Nodes) \cup {m}

\* Linking m behind the last node puts it at the end of the list.
LEMMA ListAddLast ==
    ASSUME NEW Nodes, IsFiniteSet(Nodes), NEW null, null \notin Nodes, NEW n, n # null,
           NEW next, IsLinked(n, next, null, Nodes),
           NEW l \in OnList(n, next, null, Nodes), next[l] = null,
           NEW m \in Nodes, m \notin OnList(n, next, null, Nodes), next[m] = null,
           NEW after, after[l] = m,
           Relinked(OnList(n, next, null, Nodes) \cup {m}, l, next, after)
    PROVE  AddsLast(n, m, next, after, null, Nodes)
<1> DEFINE c == ListOf(n, next, null, Nodes)
           d == <<m>>
           e == c \o d
<1>1. c \in Seq(Nodes) /\ Chain(c, n, next, null) /\ c # <<>> /\ OnList(n, next, null, Nodes) = Elements(c)
  BY ListNodes DEF IsLinked, OnList
<1>2. d \in Seq(Nodes) /\ Len(d) = 1 /\ d[1] = m /\ d # <<>>
  OBVIOUS
<1>3. l = LastOf(c)
  BY ListEnd
<1> HIDE DEF c, d
<1>4. Chain(d, m, next, null) /\ Elements(d) = {m}
  BY <1>2 DEF Chain, Elements
<1>5. Elements(c) \cap Elements(d) = {} /\ Joined(c, d, m, next, after)
  BY <1>1, <1>3, <1>4 DEF Joined, Relinked
<1>6. e \in Seq(Nodes) /\ Chain(e, n, after, null) /\ Elements(e) = Elements(c) \cup Elements(d)
  <2>1. null \notin Nodes
    OBVIOUS
  <2>2. c \o d \in Seq(Nodes) /\ Chain(c \o d, n, after, null)
    BY ONLY <1>1, <1>2, <1>4, <1>5, <2>1, ChainAppend
  <2>3. Elements(c \o d) = Elements(c) \cup Elements(d)
    BY ONLY <1>1, <1>2, ElementsAppend
  <2> QED
    BY <2>2, <2>3
<1> HIDE DEF e
<1>7. ListOf(n, after, null, Nodes) = e /\ IsLinked(n, after, null, Nodes)
  BY <1>6, ListIs
<1> QED
  BY <1>1, <1>4, <1>6, <1>7 DEF c, d, e, OnList, AddsLast

\* A node put behind c is in the lists that c is in.
LEMMA ListInsert ==
    ASSUME NEW Nodes, IsFiniteSet(Nodes), NEW null, null \notin Nodes, NEW h, NEW next,
           IsLinked(h, next, null, Nodes),
           NEW c \in OnList(h, next, null, Nodes),
           NEW n \in Nodes, n \notin OnList(h, next, null, Nodes),
           NEW after, after[c] = n, after[n] = next[c],
           Relinked(OnList(h, next, null, Nodes), c, next, after),
           NEW m \in OnList(h, next, null, Nodes)
    PROVE  /\ IsLinked(m, after, null, Nodes)
           /\ OnList(m, after, null, Nodes) =
                IF c \in OnList(m, next, null, Nodes) THEN OnList(m, next, null, Nodes) \cup {n}
                ELSE OnList(m, next, null, Nodes)
<1> DEFINE Ok(x, f) == IsLinked(x, f, null, Nodes)
           On(x, f) == OnList(x, f, null, Nodes)
           L == On(h, next)
           S == {k \in L : /\ Ok(k, after)
                           /\ On(k, after) = IF c \in On(k, next) THEN On(k, next) \cup {n}
                                             ELSE On(k, next)}
<1>1. ASSUME NEW k \in L, next[k] \in S \cup {null}
      PROVE  k \in S
  <2>1. Ok(k, next) /\ On(k, next) \subseteq L /\ k # null /\ k \in Nodes /\ k # n
    BY <1>1, ListRest, ListNodes
  <2>p. PICK p : p = next[k]
    OBVIOUS
  <2>2. Ok(p, next) /\ On(p, next) = On(k, next) \ {k} /\ k \in On(k, next)
    BY <2>p, <2>1, ListPop, ListNodes
  <2>3. CASE k = c
    <3>1. \A i \in On(p, next) : after[i] = next[i]
      BY <2>1, <2>2, <2>3 DEF Relinked
    <3>2. Ok(p, after) /\ On(p, after) = On(p, next)
      BY <2>2, <3>1, ListFrame
    <3>3. InFront(n, p, after, after, On(p, after)) /\ n \notin On(p, after)
      BY <2>p, <2>1, <2>2, <2>3, <3>2 DEF InFront
    <3>4. Ok(n, after) /\ On(n, after) = On(p, next) \cup {n}
      BY <3>2, <3>3, ListPush
    <3>5. InFront(k, n, after, after, On(n, after)) /\ k \notin On(n, after)
      BY <2>1, <2>2, <2>3, <3>4 DEF InFront
    <3>6. Ok(k, after) /\ On(k, after) = On(n, after) \cup {k}
      BY <2>1, <3>4, <3>5, ListPush
    <3>7. On(k, after) = On(k, next) \cup {n}
      BY <2>2, <3>4, <3>6
    <3> QED
      BY <2>2, <2>3, <3>6, <3>7
  <2>4. CASE k # c
    <3>1. after[k] = p
      BY <2>p, <2>4 DEF Relinked
    <3>2. Ok(p, after) /\ On(p, after) = IF c \in On(p, next) THEN On(p, next) \cup {n}
                                         ELSE On(p, next)
      <4>1. CASE p = null
        BY <4>1, ListEmpty
      <4>2. CASE p # null
        BY <1>1, <2>p, <4>2
      <4> QED
        BY <4>1, <4>2
    <3>3. InFront(k, p, after, after, On(p, after)) /\ k \notin On(p, after)
      BY <2>1, <2>2, <3>1, <3>2 DEF InFront
    <3>4. Ok(k, after) /\ On(k, after) = On(p, after) \cup {k}
      BY <2>1, <3>2, <3>3, ListPush
    <3>5. c \in On(k, next) <=> c \in On(p, next)
      BY <2>2, <2>4
    <3>6. On(k, next) = On(p, next) \cup {k}
      BY <2>2
    <3> QED
      BY <3>2, <3>4, <3>5, <3>6
  <2> QED
    BY <2>3, <2>4
<1> HIDE DEF S
<1>2. L \subseteq S
  BY <1>1, ListBackward
<1>3. m \in S
  BY <1>2
<1> QED
  BY <1>3 DEF S

\* A node taken out from behind c leaves the lists that c is in; its own goes on.
LEMMA ListRemove ==
    ASSUME NEW Nodes, IsFiniteSet(Nodes), NEW null, null \notin Nodes, NEW h, NEW next,
           IsLinked(h, next, null, Nodes),
           NEW c \in OnList(h, next, null, Nodes),
           NEW n, n = next[c], n # null,
           NEW after, after[c] = next[n],
           Relinked(OnList(h, next, null, Nodes), c, next, after),
           NEW m \in OnList(h, next, null, Nodes)
    PROVE  /\ IsLinked(m, after, null, Nodes)
           /\ OnList(m, after, null, Nodes) =
                IF c \in OnList(m, next, null, Nodes) THEN OnList(m, next, null, Nodes) \ {n}
                ELSE OnList(m, next, null, Nodes)
<1> DEFINE Ok(x, f) == IsLinked(x, f, null, Nodes)
           On(x, f) == OnList(x, f, null, Nodes)
           L == On(h, next)
           S == {k \in L : /\ Ok(k, after)
                           /\ On(k, after) = IF c \in On(k, next) THEN On(k, next) \ {n}
                                             ELSE On(k, next)}
<1>0. n \in On(c, next)
  <2>1. Ok(c, next) /\ c # null
    BY ListRest, ListNodes
  <2>2. Ok(n, next) /\ On(n, next) = On(c, next) \ {c}
    BY <2>1, ListPop
  <2>3. n \in On(n, next)
    BY <2>2, ListNodes
  <2> QED
    BY <2>2, <2>3
<1>1. ASSUME NEW k \in L, next[k] \in S \cup {null}
      PROVE  k \in S
  <2>1. Ok(k, next) /\ On(k, next) \subseteq L /\ k # null /\ k \in Nodes
    BY <1>1, ListRest, ListNodes
  <2>p. PICK p : p = next[k]
    OBVIOUS
  <2>2. Ok(p, next) /\ On(p, next) = On(k, next) \ {k} /\ k \in On(k, next)
    BY <2>p, <2>1, ListPop, ListNodes
  <2>3. CASE k = c
    <3>p. PICK q : q = next[n]
      OBVIOUS
    <3>1. p = n /\ n \in On(n, next) /\ Ok(q, next) /\ On(q, next) = On(n, next) \ {n}
      BY <2>p, <2>2, <2>3, <3>p, ListPop, ListNodes
    <3>2. \A i \in On(q, next) : after[i] = next[i]
      BY <2>1, <2>2, <2>3, <3>1 DEF Relinked
    <3>3. Ok(q, after) /\ On(q, after) = On(q, next)
      BY <3>1, <3>2, ListFrame
    <3>4. InFront(k, q, after, after, On(q, after)) /\ k \notin On(q, after)
      BY <2>2, <2>3, <3>p, <3>1, <3>3 DEF InFront
    <3>5. Ok(k, after) /\ On(k, after) = On(q, next) \cup {k}
      BY <2>1, <3>3, <3>4, ListPush
    <3>6. On(k, after) = On(k, next) \ {n}
      BY <2>2, <3>1, <3>5
    <3> QED
      BY <2>2, <2>3, <3>5, <3>6
  <2>4. CASE k # c
    <3>1. after[k] = p
      BY <2>p, <2>4 DEF Relinked
    <3>2. Ok(p, after) /\ On(p, after) = IF c \in On(p, next) THEN On(p, next) \ {n}
                                         ELSE On(p, next)
      <4>1. CASE p = null
        BY <4>1, ListEmpty
      <4>2. CASE p # null
        BY <1>1, <2>p, <4>2
      <4> QED
        BY <4>1, <4>2
    <3>3. InFront(k, p, after, after, On(p, after)) /\ k \notin On(p, after)
      BY <2>2, <3>1, <3>2 DEF InFront
    <3>4. Ok(k, after) /\ On(k, after) = On(p, after) \cup {k}
      BY <2>1, <3>2, <3>3, ListPush
    <3>5. c \in On(k, next) <=> c \in On(p, next)
      BY <2>2, <2>4
    <3>6. On(k, next) = On(p, next) \cup {k}
      BY <2>2
    <3>7. c \in On(k, next) => k # n
      <4>1. c \in On(k, next) => On(c, next) \subseteq On(p, next)
        BY <2>2, <3>5, ListRest
      <4> QED
        BY <1>0, <2>2, <4>1
    <3> QED
      BY <3>2, <3>4, <3>5, <3>6, <3>7
  <2> QED
    BY <2>3, <2>4
<1> HIDE DEF S
<1>2. L \subseteq S
  BY <1>1, ListBackward
<1>3. m \in S
  BY <1>2
<1> QED
  BY <1>3 DEF S

-----------------------------------------------------------------------------
(* A list up to a node of it *)

\* ListOf finds it.
LEMMA UpToIs ==
    ASSUME NEW Nodes, IsFiniteSet(Nodes), NEW e, NEW n, NEW next,
           NEW c \in Seq(Nodes), Chain(c, n, next, e), e \notin Elements(c)
    PROVE  ListOf(n, next, e, Nodes) = c /\ IsLinked(n, next, e, Nodes)
BY ReachedUpTo DEF ListOf, IsLinked

\* Going on to the next node makes it longer by one.
LEMMA UpToNext ==
    ASSUME NEW Nodes, NEW e \in Nodes, NEW n, NEW next,
           NEW c \in Seq(Nodes), Chain(c, n, next, e), e \notin Elements(c),
           next[e] \notin Elements(c) \cup {e}
    PROVE  /\ c \o <<e>> \in Seq(Nodes)
           /\ Chain(c \o <<e>>, n, next, next[e])
           /\ Elements(c \o <<e>>) = Elements(c) \cup {e}
<1> DEFINE d == c \o <<e>>
<1>1. /\ d \in Seq(Nodes) /\ Len(d) = Len(c) + 1 /\ Len(c) \in Nat
      /\ \A i \in 1 .. Len(c) : d[i] = c[i] /\ c[i] \in Elements(c)
      /\ d[Len(c) + 1] = e
  BY DEF Elements
<1>2. c = <<>> <=> Len(c) = 0
  OBVIOUS
<1>3. /\ n = IF c = <<>> THEN e ELSE c[1]
      /\ \A i \in 1 .. Len(c) : next[c[i]] = IF i = Len(c) THEN e ELSE c[i + 1]
      /\ \A i, j \in 1 .. Len(c) : c[i] = c[j] => i = j
  BY DEF Chain
<1> HIDE DEF d
<1>4. d # <<>> /\ n = d[1]
  BY <1>1, <1>2, <1>3
<1>5. ASSUME NEW i \in 1 .. Len(d)
      PROVE  next[d[i]] = IF i = Len(d) THEN next[e] ELSE d[i + 1]
  <2>1. CASE i = Len(d)
    BY <1>1, <2>1
  <2>2. CASE i # Len(d)
    <3>1. i \in 1 .. Len(c) /\ d[i] = c[i]
      BY <1>1, <2>2
    <3>2. CASE i = Len(c)
      BY <1>1, <1>3, <2>2, <3>1, <3>2
    <3>3. CASE i # Len(c)
      <4>1. i + 1 \in 1 .. Len(c)
        BY <1>1, <3>1, <3>3
      <4> QED
        BY <1>1, <1>3, <2>2, <3>1, <3>3, <4>1
    <3> QED
      BY <3>2, <3>3
  <2> QED
    BY <2>1, <2>2
<1>6. ASSUME NEW i \in 1 .. Len(d), NEW j \in 1 .. Len(d), d[i] = d[j]
      PROVE  i = j
  <2>1. \A k \in 1 .. Len(d) : k \in 1 .. Len(c) \/ k = Len(c) + 1
    BY <1>1
  <2>2. \A k \in 1 .. Len(c) : d[k] # e
    BY <1>1
  <2> QED
    BY <1>1, <1>3, <1>6, <2>1, <2>2
<1>7. Elements(d) = Elements(c) \cup {e}
  <2>1. \A k \in 1 .. Len(d) : k \in 1 .. Len(c) \/ k = Len(c) + 1
    BY <1>1
  <2>2. \A x \in Elements(d) : x \in Elements(c) \cup {e}
    BY <1>1, <2>1 DEF Elements
  <2>3. \A x \in Elements(c) : x \in Elements(d)
    <3>1. \A k \in 1 .. Len(c) : k \in 1 .. Len(d) /\ d[k] = c[k]
      BY <1>1
    <3> QED
      BY <3>1 DEF Elements
  <2>4. e \in Elements(d)
    <3>1. Len(c) + 1 \in 1 .. Len(d)
      BY <1>1
    <3> QED
      BY <1>1, <3>1 DEF Elements
  <2> QED
    BY <2>2, <2>3, <2>4
<1>8. Chain(d, n, next, next[e])
  BY <1>4, <1>5, <1>6 DEF Chain
<1> QED
  BY <1>1, <1>7, <1>8 DEF d

\* Leaving its first node makes it shorter by one.
LEMMA UpToDrop ==
    ASSUME NEW Nodes, NEW e, NEW n, n # e, NEW next,
           NEW c \in Seq(Nodes), Chain(c, n, next, e), e \notin Elements(c)
    PROVE  /\ c # <<>> /\ c[1] = n /\ n \in Elements(c)
           /\ Tail(c) \in Seq(Nodes)
           /\ Chain(Tail(c), next[n], next, e)
           /\ Elements(Tail(c)) = Elements(c) \ {n}
<1>1. c \in Seq(Elements(c))
  <2>1. c \in [1 .. Len(c) -> Elements(c)] /\ Len(c) \in Nat
    BY DEF Elements
  <2> QED
    BY <2>1
<1>2. /\ c # <<>> /\ c[1] = n /\ n \in Elements(c)
      /\ Chain(Tail(c), next[n], next, e)
      /\ Elements(Tail(c)) = Elements(c) \ {n}
  BY <1>1, ChainPop
<1> QED
  BY <1>2

\* It has fewer nodes than there are.
LEMMA UpToShort ==
    ASSUME NEW Nodes, IsFiniteSet(Nodes), NEW e \in Nodes, NEW n, NEW next,
           NEW c \in Seq(Nodes), Chain(c, n, next, e), e \notin Elements(c)
    PROVE  Len(c) < Cardinality(Nodes)
<1> DEFINE S == Nodes \ {e}
<1>1. IsFiniteSet(S) /\ Cardinality(S) = Cardinality(Nodes) - 1 /\ Cardinality(Nodes) \in Nat
  BY FS_RemoveElement, FS_CardinalityType
<1>2. c \in Seq(S)
  <2>1. c \in [1 .. Len(c) -> S] /\ Len(c) \in Nat
    BY DEF Elements
  <2> QED
    BY <2>1
<1>3. \A i, j \in 1 .. Len(c) : c[i] = c[j] => i = j
  BY DEF Chain
<1> HIDE DEF S
<1>4. Len(c) <= Cardinality(S) /\ Len(c) \in Nat
  BY <1>1, <1>2, <1>3, LenBound
<1> QED
  BY <1>1, <1>4
=============================================================================
