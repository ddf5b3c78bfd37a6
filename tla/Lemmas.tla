------------------------------- MODULE Lemmas -------------------------------
(***************************************************************************)
(* Facts the proofs of several modules rest on: what operations on the     *)
(* sequences that serve as queues and caches do to the set of elements they*)
(* hold, and induction.                                                    *)
(***************************************************************************)
EXTENDS Integers, Sequences, SequencesExt, FiniteSets, FiniteSetTheorems,
        FunctionTheorems, SequenceTheorems, WellFoundedInduction, TLAPS

(***************************************************************************)
(* Queues and caches.                                                      *)
(***************************************************************************)
\* A sequence is a sequence over any set that has its elements.
LEMMA SeqOver ==
    ASSUME NEW S, NEW T, NEW s \in Seq(S), ToSet(s) \subseteq T
    PROVE  s \in Seq(T)
  <1>1. \A i \in 1 .. Len(s) : s[i] \in T
    BY DEF ToSet
  <1> QED
    BY <1>1

\* The elements of a sequence over S are in S.
LEMMA ElementsIn ==
    ASSUME NEW S, NEW s \in Seq(S)
    PROVE  ToSet(s) \subseteq S
  BY DEF ToSet

\* Popping the head takes exactly the head away.
LEMMA PopHead ==
    ASSUME NEW S, NEW s \in Seq(S), s # <<>>, IsInjective(s)
    PROVE  /\ Head(s) \in S
           /\ Head(s) \in ToSet(s)
           /\ Tail(s) \in Seq(S)
           /\ IsInjective(Tail(s))
           /\ ToSet(Tail(s)) = ToSet(s) \ {Head(s)}
  <1>1. /\ Len(s) \in Nat \ {0}
        /\ Head(s) = s[1]
        /\ DOMAIN s = 1 .. Len(s)
    OBVIOUS
  <1>2. /\ Tail(s) \in Seq(S)
        /\ DOMAIN Tail(s) = 1 .. Len(s) - 1
        /\ \A i \in 1 .. Len(s) - 1 : Tail(s)[i] = s[i + 1]
    BY <1>1, HeadTailProperties
  <1>3. IsInjective(Tail(s))
    <2> SUFFICES ASSUME NEW i \in 1 .. Len(s) - 1, NEW j \in 1 .. Len(s) - 1,
                        s[i + 1] = s[j + 1]
                 PROVE  i = j
      BY <1>2 DEF IsInjective
    <2>1. i + 1 = j + 1
      BY <1>1 DEF IsInjective
    <2> QED
      BY <2>1
  <1>4. ToSet(Tail(s)) \subseteq ToSet(s) \ {Head(s)}
    <2> SUFFICES ASSUME NEW i \in 1 .. Len(s) - 1
                 PROVE  s[i + 1] \in ToSet(s) \ {s[1]}
      BY <1>1, <1>2 DEF ToSet
    <2>1. i + 1 \in DOMAIN s /\ 1 \in DOMAIN s /\ i + 1 # 1
      BY <1>1
    <2> QED
      BY <2>1 DEF ToSet, IsInjective
  <1>5. ToSet(s) \ {Head(s)} \subseteq ToSet(Tail(s))
    <2> SUFFICES ASSUME NEW i \in 1 .. Len(s), s[i] # s[1]
                 PROVE  s[i] \in ToSet(Tail(s))
      BY <1>1 DEF ToSet
    <2>1. i - 1 \in 1 .. Len(s) - 1
      BY <1>1
    <2>2. Tail(s)[i - 1] = s[i]
      BY <1>2, <2>1
    <2> QED
      BY <1>2, <2>1, <2>2 DEF ToSet
  <1>6. Head(s) \in ToSet(s) /\ Head(s) \in S
    BY <1>1 DEF ToSet
  <1> QED
    BY <1>2, <1>3, <1>4, <1>5, <1>6

\* Appending a new element adds exactly that element.
LEMMA PushTail ==
    ASSUME NEW S, NEW s \in Seq(S), NEW x \in S
    PROVE  /\ Append(s, x) \in Seq(S)
           /\ ToSet(Append(s, x)) = ToSet(s) \cup {x}
           /\ IsInjective(s) /\ x \notin ToSet(s) => IsInjective(Append(s, x))
  <1> DEFINE t == Append(s, x)
  <1>1. /\ t \in Seq(S)
        /\ DOMAIN t = 1 .. Len(s) + 1
        /\ \A i \in 1 .. Len(s) : t[i] = s[i]
        /\ t[Len(s) + 1] = x
        /\ Len(s) \in Nat
        /\ DOMAIN s = 1 .. Len(s)
    BY AppendProperties
  <1>2. DOMAIN t = DOMAIN s \cup {Len(s) + 1}
    BY <1>1
  <1> HIDE DEF t
  <1>3. ToSet(t) = ToSet(s) \cup {x}
    BY <1>1, <1>2 DEF ToSet
  <1>4. IsInjective(s) /\ x \notin ToSet(s) => IsInjective(t)
    BY <1>1, <1>2 DEF ToSet, IsInjective
  <1> QED
    BY <1>1, <1>3, <1>4 DEF t

\* Head-insertion of a new element adds exactly that element.
LEMMA PushHead ==
    ASSUME NEW S, NEW s \in Seq(S), NEW x \in S
    PROVE  /\ <<x>> \o s \in Seq(S)
           /\ ToSet(<<x>> \o s) = ToSet(s) \cup {x}
           /\ IsInjective(s) /\ x \notin ToSet(s) => IsInjective(<<x>> \o s)
  <1> DEFINE t == <<x>> \o s
  <1>1. /\ t \in Seq(S)
        /\ DOMAIN t = 1 .. Len(s) + 1
        /\ t[1] = x
        /\ \A i \in 2 .. Len(s) + 1 : t[i] = s[i - 1]
        /\ Len(s) \in Nat
        /\ DOMAIN s = 1 .. Len(s)
    OBVIOUS
  <1> HIDE DEF t
  <1>2. ToSet(t) \subseteq ToSet(s) \cup {x}
    <2> SUFFICES ASSUME NEW i \in 1 .. Len(s) + 1
                 PROVE  t[i] \in ToSet(s) \cup {x}
      BY <1>1 DEF ToSet
    <2>1. CASE i = 1
      BY <2>1, <1>1
    <2>2. CASE i # 1
      <3>1. i - 1 \in DOMAIN s /\ t[i] = s[i - 1]
        BY <2>2, <1>1
      <3> QED
        BY <3>1 DEF ToSet
    <2> QED
      BY <2>1, <2>2
  <1>3. ToSet(s) \cup {x} \subseteq ToSet(t)
    <2>1. x \in ToSet(t)
      <3>1. 1 \in DOMAIN t
        BY <1>1
      <3> QED
        BY <3>1, <1>1 DEF ToSet
    <2>2. ASSUME NEW i \in DOMAIN s
          PROVE  s[i] \in ToSet(t)
      <3>1. i + 1 \in DOMAIN t /\ t[i + 1] = s[i]
        BY <1>1
      <3> QED
        BY <3>1 DEF ToSet
    <2> QED
      BY <2>1, <2>2 DEF ToSet
  <1>4. ASSUME IsInjective(s), x \notin ToSet(s)
        PROVE  IsInjective(t)
    <2> SUFFICES ASSUME NEW i \in 1 .. Len(s) + 1, NEW j \in 1 .. Len(s) + 1,
                        t[i] = t[j], i < j
                 PROVE  FALSE
      BY <1>1 DEF IsInjective
    <2>1. j - 1 \in DOMAIN s /\ t[j] = s[j - 1]
      BY <1>1
    <2>2. CASE i = 1
      BY <2>1, <2>2, <1>1, <1>4 DEF ToSet
    <2>3. CASE i # 1
      <3>1. i - 1 \in DOMAIN s /\ t[i] = s[i - 1]
        BY <2>3, <1>1
      <3>2. i - 1 = j - 1
        BY <3>1, <2>1, <1>4 DEF IsInjective
      <3> QED
        BY <3>2
    <2> QED
      BY <2>2, <2>3
  <1> QED
    BY <1>1, <1>2, <1>3, <1>4 DEF t

\* Rearranging a sequence by a permutation of its positions keeps its
\* elements and keeps them distinct.
LEMMA Rearranged ==
    ASSUME NEW S, NEW s \in Seq(S), NEW p \in Bijection(DOMAIN s, DOMAIN s)
    PROVE  LET t == [i \in DOMAIN s |-> s[p[i]]]
           IN  /\ t \in Seq(S)
               /\ ToSet(t) = ToSet(s)
               /\ IsInjective(s) => IsInjective(t)
  <1> DEFINE t == [i \in DOMAIN s |-> s[p[i]]]
  <1>1. /\ p \in [DOMAIN s -> DOMAIN s]
        /\ \A k \in DOMAIN s : \E i \in DOMAIN s : p[i] = k
        /\ \A i, j \in DOMAIN s : p[i] = p[j] => i = j
    BY Fun_BijectionProperties
  <1>2. DOMAIN s = 1 .. Len(s) /\ Len(s) \in Nat
    OBVIOUS
  <1>3. t \in Seq(S)
    BY <1>1, <1>2
  <1>4. ToSet(t) = ToSet(s)
    <2>1. ToSet(t) \subseteq ToSet(s)
      BY <1>1 DEF ToSet
    <2>2. ToSet(s) \subseteq ToSet(t)
      BY <1>1 DEF ToSet
    <2> QED
      BY <2>1, <2>2
  <1>5. IsInjective(s) => IsInjective(t)
    BY <1>1 DEF IsInjective
  <1> QED
    BY <1>3, <1>4, <1>5

\* A union has at most as many elements as its two sets together.
LEMMA UnionAtMost ==
    ASSUME NEW S, IsFiniteSet(S), NEW T, IsFiniteSet(T)
    PROVE  /\ IsFiniteSet(S \cup T)
           /\ Cardinality(S \cup T) <= Cardinality(S) + Cardinality(T)
  <1>1. /\ IsFiniteSet(S \cup T)
        /\ Cardinality(S \cup T) = Cardinality(S) + Cardinality(T) - Cardinality(S \cap T)
    BY FS_Union
  <1>2. IsFiniteSet(S \cap T)
    BY FS_Subset
  <1>3. Cardinality(S) \in Nat /\ Cardinality(T) \in Nat /\ Cardinality(S \cap T) \in Nat
    BY <1>2, FS_CardinalityType
  <1> QED
    BY <1>1, <1>3

\* A sequence of distinct elements holds as many elements as it is long.
LEMMA DistinctCount ==
    ASSUME NEW S, NEW s \in Seq(S), IsInjective(s)
    PROVE  IsFiniteSet(ToSet(s)) /\ Cardinality(ToSet(s)) = Len(s)
  <1>1. DOMAIN s = 1 .. Len(s) /\ Len(s) \in Nat
    OBVIOUS
  <1>2. s \in [1 .. Len(s) -> ToSet(s)]
    BY <1>1 DEF ToSet
  <1>3. s \in Bijection(1 .. Len(s), ToSet(s))
    <2>1. \A a, b \in 1 .. Len(s) : s[a] = s[b] => a = b
      BY <1>1 DEF IsInjective
    <2>2. \A y \in ToSet(s) : \E a \in 1 .. Len(s) : s[a] = y
      BY <1>1 DEF ToSet
    <2> QED
      BY <1>2, <2>1, <2>2, Fun_IsBij
  <1>4. IsFiniteSet(1 .. Len(s)) /\ Cardinality(1 .. Len(s)) = Len(s)
    BY <1>1, FS_Interval
  <1> QED
    BY <1>3, <1>4, FS_Bijection DEF ExistsBijection
-----------------------------------------------------------------------------
(***************************************************************************)
(* Induction.                                                              *)
(***************************************************************************)
\* Induction over the naturals, for the set of those that have a property.
LEMMA NatsIn ==
    ASSUME NEW T, 0 \in T, \A n \in Nat : n \in T => n + 1 \in T
    PROVE  Nat \subseteq T
  <1> SUFFICES ASSUME Nat \ T # {}
               PROVE  FALSE
    OBVIOUS
  <1> DEFINE R == {ss \in Nat \X Nat : ss[1] < ss[2]}
  <1>1. IsWellFoundedOn(R, Nat)
    BY NatLessThanWellFounded DEF OpToRel
  <1>2. PICK m \in Nat \ T : \A y \in Nat \ T : <<y, m>> \notin R
    <2> HIDE DEF R
    <2> QED  BY <1>1, WFMin, Nat \ T \subseteq Nat
  <1>3. m - 1 \in Nat /\ m = (m - 1) + 1
    BY <1>2
  <1>4. m - 1 \notin T
    BY <1>2, <1>3
  <1>5. <<m - 1, m>> \in R
    BY <1>3
  <1> QED
    BY <1>2, <1>3, <1>4, <1>5

\* A set of naturals has a least element, and a greatest if it is bounded.
LEMMA LeastNatural ==
    ASSUME NEW S, S \subseteq Nat, S # {}
    PROVE  Min(S) \in S /\ \A x \in S : Min(S) <= x
  <1> DEFINE R == {ss \in Nat \X Nat : ss[1] < ss[2]}
  <1>1. IsWellFoundedOn(R, Nat)
    BY NatLessThanWellFounded DEF OpToRel
  <1>2. PICK m \in S : \A y \in S : <<y, m>> \notin R
    <2> HIDE DEF R
    <2> QED  BY <1>1, WFMin
  <1>3. \A y \in S : m <= y
    <2> SUFFICES ASSUME NEW y \in S
                 PROVE  m <= y
      OBVIOUS
    <2>1. m \in Nat /\ y \in Nat /\ <<y, m>> \notin R
      BY <1>2
    <2> QED
      BY <2>1
  <1> QED
    BY <1>3 DEF Min

LEMMA GreatestNatural ==
    ASSUME NEW S, S \subseteq Nat, S # {}, NEW n \in Nat, \A x \in S : x <= n
    PROVE  \E m \in S : \A x \in S : x <= m
  <1> DEFINE T == {n - x : x \in S}
  <1>1. T \subseteq Nat /\ T # {}
    <2>1. \A x \in S : x \in Nat /\ n - x \in Nat
      OBVIOUS
    <2> QED
      BY <2>1
  <1>2. Min(T) \in T /\ \A y \in T : Min(T) <= y
    <2> HIDE DEF T
    <2> QED  BY <1>1, LeastNatural
  <1>3. PICK m \in S : Min(T) = n - m
    BY <1>2
  <1>4. \A x \in S : n - m <= n - x
    BY <1>2, <1>3
  <1> QED
    BY <1>4

\* A function on 1..n is a sequence.
LEMMA FunctionIsSeq ==
    ASSUME NEW n \in Nat, NEW S, NEW f \in [1 .. n -> S]
    PROVE  f \in Seq(S) /\ Len(f) = n /\ DOMAIN f = 1 .. n
  OBVIOUS

\* A sequence is any common prefix and the rest of it.
Common(t, p, h) == h \in 0 .. Len(t) /\ h <= Len(p) /\ \A i \in 1 .. h : t[i] = p[i]

Completes(t, p, h, S) ==
    LET rest == SubSeq(p, h + 1, Len(p))
    IN  rest \in Seq(S) /\ Len(rest) = Len(p) - h /\ SubSeq(t, 1, h) \o rest = p

LEMMA PrefixAndRest ==
    ASSUME NEW S, NEW t \in Seq(S), NEW p \in Seq(S), NEW h, Common(t, p, h)
    PROVE  Completes(t, p, h, S)
  <1> USE DEF Common
  <1> DEFINE a == SubSeq(t, 1, h)
             r == SubSeq(p, h + 1, Len(p))
             m == Len(p)
  <1>1. Len(t) \in Nat
    OBVIOUS
  <1>2. m \in Nat
    OBVIOUS
  <1>3. h \in Nat /\ h + 1 \in Int
    BY <1>1
  <1>4. a \in Seq(S) /\ Len(a) = h /\ \A i \in 1 .. h : a[i] = t[i]
    <2>1. \A i \in 1 .. h : t[i] \in S
      BY <1>1
    <2>2. /\ a \in Seq(S)
          /\ Len(a) = IF 1 <= h THEN h - 1 + 1 ELSE 0
          /\ \A i \in 1 .. h - 1 + 1 : a[i] = t[1 + i - 1]
      BY <1>3, <2>1, SubSeqProperties
    <2> HIDE DEF a
    <2> QED
      BY ONLY <1>3, <2>2
  <1>5. r \in Seq(S) /\ Len(r) = m - h /\ \A i \in 1 .. m - h : r[i] = p[h + i]
    <2>1. \A i \in h + 1 .. m : p[i] \in S
      BY <1>2, <1>3
    <2>2. /\ r \in Seq(S)
          /\ Len(r) = IF h + 1 <= m THEN m - (h + 1) + 1 ELSE 0
          /\ \A i \in 1 .. m - (h + 1) + 1 : r[i] = p[h + 1 + i - 1]
      <3> HIDE DEF Common
      <3> QED  BY <1>2, <1>3, <2>1, SubSeqProperties
    <2>3. h <= m
      OBVIOUS
    <2> HIDE DEF r, m, Common
    <2>4. h \in Nat
      BY <1>3
    <2>5. \A i \in 1 .. m - h : r[i] = p[h + i]
      <3>1. \A i \in 1 .. m - (h + 1) + 1 : r[i] = p[h + 1 + i - 1]
        BY ONLY <2>2
      <3> QED
        BY ONLY <1>2, <2>4, <3>1
    <2>6. Len(r) = m - h
      <3>1. Len(r) = IF h + 1 <= m THEN m - (h + 1) + 1 ELSE 0
        BY ONLY <2>2
      <3> QED
        BY ONLY <1>2, <2>3, <2>4, <3>1
    <2> QED
      BY ONLY <2>2, <2>5, <2>6
  <1> HIDE DEF a, r
  <1>6. /\ a \o r \in Seq(S)
        /\ Len(a \o r) = h + (m - h)
        /\ \A i \in 1 .. h + (m - h) : (a \o r)[i] = IF i <= h THEN a[i] ELSE r[i - h]
    <2>1. a \in Seq(S) /\ r \in Seq(S) /\ Len(a) = h /\ Len(r) = m - h
      BY <1>4, <1>5
    <2>2. /\ a \o r \in Seq(S)
          /\ Len(a \o r) = Len(a) + Len(r)
          /\ \A i \in 1 .. Len(a) + Len(r) : (a \o r)[i] = IF i <= Len(a) THEN a[i] ELSE r[i - Len(a)]
      BY ONLY <2>1, ConcatProperties
    <2> QED
      BY ONLY <2>1, <2>2
  <1>7. Len(a \o r) = m
    BY <1>2, <1>3, <1>6
  <1>8. ASSUME NEW i \in 1 .. m
        PROVE  (a \o r)[i] = p[i]
    <2>1. CASE i <= h
      <3>1. i \in 1 .. h
        BY <2>1, <1>2, <1>3
      <3>2. (a \o r)[i] = a[i]
        BY <2>1, <1>2, <1>3, <1>6
      <3> QED
        BY <3>1, <3>2, <1>4
    <2>2. CASE ~(i <= h)
      <3>1. i - h \in 1 .. m - h /\ h + (i - h) = i
        BY <2>2, <1>2, <1>3
      <3>2. (a \o r)[i] = r[i - h]
        BY <2>2, <1>2, <1>3, <1>6
      <3> QED
        BY <3>1, <3>2, <1>5
    <2> QED
      BY <2>1, <2>2
  <1>9. a \o r = p
    <2> HIDE DEF m
    <2>1. Len(p) = m
      BY DEF m
    <2> QED
      BY <1>6, <1>7, <1>8, <2>1, SeqEqual
  <1> QED
    BY <1>5, <1>9 DEF a, r, Completes

\* A sequence is its front and its last element.
LEMMA FrontAndLast ==
    ASSUME NEW S, NEW q \in Seq(S), q # <<>>
    PROVE  /\ Front(q) \in Seq(S) /\ Last(q) \in S
           /\ Len(q) \in DOMAIN q /\ Last(q) = q[Len(q)]
           /\ q = Append(Front(q), Last(q))
  <1> DEFINE n == Len(q)
  <1>1. n \in Nat /\ n # 0
    BY EmptySeq
  <1>2. n \in Nat \ {0}
    BY <1>1
  <1>3. n - 1 \in Nat
    BY <1>2
  <1>4. n \in DOMAIN q /\ q[n] \in S
    BY <1>2
  <1>5. Last(q) = q[n]
    BY DEF Last
  <1>6. \A i \in 1 .. n - 1 : q[i] \in S
    BY <1>2
  <1>7. Front(q) = SubSeq(q, 1, n - 1)
    BY DEF Front
  <1> DEFINE f == Front(q)
  <1>8. /\ f \in Seq(S)
        /\ Len(f) = IF 1 <= n - 1 THEN n - 1 - 1 + 1 ELSE 0
        /\ \A i \in 1 .. n - 1 - 1 + 1 : f[i] = q[1 + i - 1]
    <2>1. 1 \in Int /\ n - 1 \in Int
      BY <1>3
    <2> HIDE DEF n
    <2> QED
      BY <1>6, <1>7, <2>1, SubSeqProperties
  <1> HIDE DEF f
  <1>9. Len(f) = n - 1
    <2>1. Len(f) = IF 1 <= n - 1 THEN n - 1 - 1 + 1 ELSE 0
      BY <1>8
    <2> HIDE DEF n
    <2> QED
      BY ONLY <1>2, <2>1
  <1>10. \A i \in 1 .. n - 1 : f[i] = q[i]
    BY <1>2, <1>8
  <1> DEFINE g == Append(f, q[n])
  <1>11. /\ g \in Seq(S) /\ Len(g) = n
         /\ \A i \in 1 .. n - 1 : g[i] = q[i]
         /\ g[n] = q[n]
    <2>1. /\ g \in Seq(S) /\ Len(g) = Len(f) + 1
          /\ \A i \in 1 .. Len(f) : g[i] = f[i]
          /\ g[Len(f) + 1] = q[n]
      BY <1>4, <1>8, AppendProperties
    <2>2. Len(f) + 1 = n
      BY <1>2, <1>9
    <2> HIDE DEF g
    <2> QED
      BY ONLY <2>1, <2>2, <1>9, <1>10
  <1> HIDE DEF g
  <1>12. \A i \in 1 .. n : g[i] = q[i]
    BY <1>2, <1>11
  <1>13. q = g
    BY <1>11, <1>12, SeqEqual
  <1> QED
    BY <1>4, <1>5, <1>8, <1>13 DEF f, g

\* An order of a finite set is a sequence of all its elements.
LEMMA OrderOfSet ==
    ASSUME NEW S, IsFiniteSet(S), NEW q \in SetToSeqs(S)
    PROVE  q \in Seq(S) /\ \A x \in S : \E i \in DOMAIN q : q[i] = x
  <1> DEFINE n == Cardinality(S)
  <1>1. n \in Nat
    BY FS_CardinalityType
  <1>2. q \in [1 .. n -> S] /\ \A i, j \in 1 .. n : i # j => q[i] # q[j]
    BY DEF SetToSeqs
  <1>3. IsFiniteSet(1 .. n) /\ Cardinality(1 .. n) = n
    BY <1>1, FS_Interval
  <1>4. q \in Injection(1 .. n, S)
    BY <1>2 DEF Injection, IsInjective
  <1>5. q \in Surjection(1 .. n, S)
    BY <1>3, <1>4, FS_Injection
  <1> HIDE DEF n
  <1>6. q \in Seq(S)
    BY <1>1, <1>2, FunctionIsSeq, Zenon
  <1> QED
    BY <1>2, <1>5, <1>6 DEF Surjection

\* A function on 0..N may be defined from its value at a smaller argument.
Below(below, N) == below \in [1 .. N -> Nat] /\ \A n \in 1 .. N : below[n] < n

Recursive(f, N, base, below, step) ==
    f[0] = base /\ \A n \in 1 .. N : f[n] = step[n][f[below[n]]]

LEMMA Recursion ==
    ASSUME NEW N \in Nat, NEW V, NEW base \in V,
           NEW below, Below(below, N),
           NEW step \in [1 .. N -> [V -> V]]
    PROVE  \E f \in [0 .. N -> V] : Recursive(f, N, base, below, step)
  <1> USE DEF Below, Recursive
  <1> DEFINE Solves(f, n) == \A m \in 0 .. n :
                 f[m] = IF m = 0 THEN base ELSE step[m][f[below[m]]]
             T == {n \in Nat : n <= N => \E f \in [0 .. n -> V] : Solves(f, n)}
  <1>1. 0 \in T
    <2>1. [m \in 0 .. 0 |-> base] \in [0 .. 0 -> V]
      OBVIOUS
    <2>2. Solves([m \in 0 .. 0 |-> base], 0)
      OBVIOUS
    <2> QED
      BY <2>1, <2>2
  <1>2. ASSUME NEW n \in Nat, n \in T
        PROVE  n + 1 \in T
    <2> SUFFICES ASSUME n + 1 <= N
                 PROVE  \E f \in [0 .. n + 1 -> V] : Solves(f, n + 1)
      OBVIOUS
    <2>1. PICK f \in [0 .. n -> V] : Solves(f, n)
      BY <1>2
    <2>2. below[n + 1] \in 0 .. n /\ n + 1 \in 1 .. N
      OBVIOUS
    <2> DEFINE v == step[n + 1][f[below[n + 1]]]
               g == [m \in 0 .. n + 1 |-> IF m <= n THEN f[m] ELSE v]
    <2>3. v \in V
      BY <2>2
    <2>4. g \in [0 .. n + 1 -> V]
      BY <2>3
    <2>5. ASSUME NEW m \in 1 .. n + 1
          PROVE  g[m] = step[m][g[below[m]]]
      <3>1. CASE m = n + 1
        <4>1. g[below[m]] = f[below[m]]
          BY <2>2, <3>1
        <4>2. g[m] = step[m][f[below[m]]]
          BY <3>1
        <4> QED
          BY <4>1, <4>2
      <3>2. CASE m \in 1 .. n
        <4>1. below[m] \in 0 .. n /\ below[m] \in 0 .. n + 1
          BY <3>2
        <4>2. g[below[m]] = f[below[m]] /\ g[m] = f[m]
          BY <3>2, <4>1
        <4>3. f[m] = step[m][f[below[m]]]
          BY <2>1, <3>2
        <4> QED
          BY <4>2, <4>3
      <3> QED
        BY <3>1, <3>2
    <2>6. g[0] = base
      <3>1. 0 \in 0 .. n /\ 0 \in 0 .. n + 1
        OBVIOUS
      <3>2. f[0] = base
        BY ONLY <2>1, <3>1
      <3>3. g[0] = f[0]
        BY ONLY <3>1, n \in Nat
      <3> QED
        BY ONLY <3>2, <3>3
    <2>7. Solves(g, n + 1)
      <3> HIDE DEF g
      <3> QED  BY <2>5, <2>6
    <2> QED
      BY <2>4, <2>7
  <1>3. N \in T
    <2> HIDE DEF T
    <2> QED  BY <1>1, <1>2, NatsIn
  <1>4. PICK f \in [0 .. N -> V] : Solves(f, N)
    BY <1>3
  <1> QED
    <2>1. 0 \in 0 .. N /\ \A n \in 1 .. N : n \in 0 .. N /\ n # 0
      OBVIOUS
    <2>2. f[0] = base
      BY <1>4, <2>1
    <2> QED
      BY <1>4, <2>1, <2>2

\* There is one such function.
Agrees(f, g, N, below) == \A n \in 1 .. N : f[below[n]] = g[below[n]] => f[n] = g[n]

LEMMA SameRecursion ==
    ASSUME NEW N \in Nat, NEW f, NEW g, NEW below, Below(below, N),
           f[0] = g[0], Agrees(f, g, N, below)
    PROVE  \A n \in 0 .. N : f[n] = g[n]
  <1> USE DEF Below, Agrees
  <1> DEFINE T == {n \in Nat : \A m \in 0 .. n : m <= N => f[m] = g[m]}
  <1>1. 0 \in T
    OBVIOUS
  <1>2. ASSUME NEW n \in Nat, n \in T
        PROVE  n + 1 \in T
    <2> SUFFICES ASSUME n + 1 <= N
                 PROVE  f[n + 1] = g[n + 1]
      BY <1>2
    <2>1. n + 1 \in 1 .. N /\ below[n + 1] \in 0 .. n /\ below[n + 1] <= N
      OBVIOUS
    <2>2. f[below[n + 1]] = g[below[n + 1]]
      BY <1>2, <2>1
    <2> QED
      BY <2>1, <2>2
  <1>3. N \in T
    <2> HIDE DEF T
    <2> QED  BY <1>1, <1>2, NatsIn
  <1> QED
    BY <1>3
-----------------------------------------------------------------------------
(***************************************************************************)
(* Sums.                                                                   *)
(***************************************************************************)
Chosen(s) == CHOOSE x \in s : TRUE

\* What SumFunctionOnSet(w, S) computes for every subset of S.
SumStep(it, w, s) == IF s = {} THEN 0 ELSE w[Chosen(s)] + it[s \ {Chosen(s)}]
SumsOver(it, w, S) == it = [s \in SUBSET S |-> SumStep(it, w, s)]

LEMMA WithoutChosen ==
    ASSUME NEW S, IsFiniteSet(S), NEW s \in SUBSET S, s # {}
    PROVE  /\ Chosen(s) \in s
           /\ s \ {Chosen(s)} \in SUBSET S
           /\ Cardinality(s) \in Nat \ {0}
           /\ Cardinality(s \ {Chosen(s)}) = Cardinality(s) - 1
  <1>1. Chosen(s) \in s
    BY DEF Chosen
  <1>2. IsFiniteSet(s)
    BY FS_Subset
  <1>3. Cardinality(s) \in Nat
    BY <1>2, FS_CardinalityType
  <1>4. Cardinality(s) # 0
    BY <1>2, FS_EmptySet
  <1>5. Cardinality(s \ {Chosen(s)}) = Cardinality(s) - 1
    BY <1>1, <1>2, FS_RemoveElement
  <1> QED
    BY <1>1, <1>3, <1>4, <1>5

\* The recursion over the subsets of a finite set has a solution.
LEMMA SumsExist ==
    ASSUME NEW w, NEW S, IsFiniteSet(S)
    PROVE  \E it : SumsOver(it, w, S)
  <1> DEFINE Upto(g, n) == \A s \in SUBSET S : Cardinality(s) <= n => g[s] = SumStep(g, w, s)
             T == {n \in Nat : \E g : Upto(g, n)}
  <1>1. \A s \in SUBSET S : Cardinality(s) \in Nat /\ Cardinality(s) <= Cardinality(S)
    BY FS_Subset, FS_CardinalityType
  <1>2. Cardinality(S) \in Nat
    BY FS_CardinalityType
  <1>3. 0 \in T
    <2> DEFINE g == [s \in SUBSET S |-> 0]
    <2>1. ASSUME NEW s \in SUBSET S, Cardinality(s) <= 0 PROVE g[s] = SumStep(g, w, s)
      <3>1. s = {}
        BY <1>1, <2>1, FS_EmptySet, FS_Subset
      <3> QED
        BY <3>1 DEF SumStep
    <2> QED
      BY <2>1
  <1>4. ASSUME NEW n \in Nat, n \in T PROVE n + 1 \in T
    <2>1. PICK g : Upto(g, n)
      BY <1>4
    <2> DEFINE h == [s \in SUBSET S |-> SumStep(g, w, s)]
    <2>2. ASSUME NEW s \in SUBSET S, Cardinality(s) <= n + 1 PROVE h[s] = SumStep(h, w, s)
      <3>1. CASE s = {}
        BY <3>1 DEF SumStep
      <3>2. CASE s # {}
        <4> DEFINE r == s \ {Chosen(s)}
        <4>1. r \in SUBSET S /\ Cardinality(r) = Cardinality(s) - 1
          BY <3>2, WithoutChosen
        <4>2. Cardinality(r) <= n
          BY <1>1, <2>2, <4>1
        <4>3. g[r] = h[r]
          BY <2>1, <4>1, <4>2
        <4> HIDE DEF r
        <4>4. h[s] = w[Chosen(s)] + g[r] /\ SumStep(h, w, s) = w[Chosen(s)] + h[r]
          BY <3>2 DEF SumStep, r
        <4> QED
          BY <4>3, <4>4
      <3> QED
        BY <3>1, <3>2
    <2> HIDE DEF h
    <2> QED
      BY <2>2
  <1>5. Nat \subseteq T
    <2> HIDE DEF T
    <2> QED
      BY <1>3, <1>4, NatsIn
  <1>6. PICK g : Upto(g, Cardinality(S))
    BY <1>2, <1>5
  <1> DEFINE it == [s \in SUBSET S |-> g[s]]
  <1>7. \A s \in SUBSET S : g[s] = SumStep(g, w, s)
    BY <1>1, <1>6
  <1>8. \A s \in SUBSET S : SumStep(g, w, s) = SumStep(it, w, s)
    BY WithoutChosen DEF SumStep
  <1>9. it = [s \in SUBSET S |-> SumStep(it, w, s)]
    BY <1>7, <1>8
  <1> QED
    BY <1>9 DEF SumsOver

\* It has one solution, the same over a subset.
LEMMA SumsAgree ==
    ASSUME NEW w, NEW S, IsFiniteSet(S), NEW T \in SUBSET S,
           NEW it, SumsOver(it, w, S), NEW g, SumsOver(g, w, T)
    PROVE  it[T] = g[T]
  <1> DEFINE M == {n \in Nat : \A s \in SUBSET T : Cardinality(s) <= n => it[s] = g[s]}
  <1>1. IsFiniteSet(T)
    BY FS_Subset
  <1>2. \A s \in SUBSET T : Cardinality(s) \in Nat
    BY <1>1, FS_Subset, FS_CardinalityType
  <1>3. \A s \in SUBSET T : it[s] = SumStep(it, w, s) /\ g[s] = SumStep(g, w, s)
    BY DEF SumsOver
  <1>4. 0 \in M
    <2>1. ASSUME NEW s \in SUBSET T, Cardinality(s) <= 0 PROVE s = {}
      BY <1>1, <1>2, <2>1, FS_EmptySet, FS_Subset
    <2> QED
      BY <1>3, <2>1 DEF SumStep
  <1>5. ASSUME NEW n \in Nat, n \in M PROVE n + 1 \in M
    <2>1. ASSUME NEW s \in SUBSET T, Cardinality(s) <= n + 1 PROVE it[s] = g[s]
      <3>1. CASE s = {}
        BY <1>3, <3>1 DEF SumStep
      <3>2. CASE s # {}
        <4> DEFINE r == s \ {Chosen(s)}
        <4>1. r \in SUBSET T /\ Cardinality(r) = Cardinality(s) - 1
          BY <1>1, <3>2, WithoutChosen
        <4>2. Cardinality(r) <= n
          BY <1>2, <2>1, <4>1
        <4>3. it[r] = g[r]
          BY <1>5, <4>1, <4>2
        <4> HIDE DEF r
        <4>4. it[s] = w[Chosen(s)] + it[r] /\ g[s] = w[Chosen(s)] + g[r]
          BY <1>3, <3>2 DEF SumStep, r
        <4> QED
          BY <4>3, <4>4
      <3> QED
        BY <3>1, <3>2
    <2> QED
      BY <2>1
  <1>6. Nat \subseteq M
    <2> HIDE DEF M
    <2> QED
      BY <1>4, <1>5, NatsIn
  <1> QED
    BY <1>2, <1>6

\* One element less of the sum.
LEMMA SumUnfolds ==
    ASSUME NEW w, NEW S, IsFiniteSet(S)
    PROVE  SumFunctionOnSet(w, S) =
               IF S = {} THEN 0
               ELSE w[Chosen(S)] + SumFunctionOnSet(w, S \ {Chosen(S)})
  <1> DEFINE Solution(R) == CHOOSE it : SumsOver(it, w, R)
  <1>1. \A R : SumFunctionOnSet(w, R) = Solution(R)[R]
    BY DEF SumFunctionOnSet, FoldFunctionOnSet, MapThenFoldSet, SumsOver, SumStep, Chosen
  <1>2. \A R : IsFiniteSet(R) => SumsOver(Solution(R), w, R)
    BY SumsExist
  <1> HIDE DEF Solution
  <1>3. Solution(S)[S] = SumStep(Solution(S), w, S)
    BY <1>2 DEF SumsOver
  <1>4. CASE S = {}
    BY <1>1, <1>3, <1>4 DEF SumStep
  <1>5. CASE S # {}
    <2> DEFINE R == S \ {Chosen(S)}
    <2>1. R \in SUBSET S /\ IsFiniteSet(R)
      BY FS_RemoveElement
    <2> HIDE DEF R
    <2>2. Solution(S)[R] = Solution(R)[R]
      BY <1>2, <2>1, SumsAgree
    <2>3. Solution(S)[S] = w[Chosen(S)] + Solution(S)[R]
      BY <1>3, <1>5 DEF SumStep, R
    <2> QED
      BY <1>1, <1>5, <2>2, <2>3 DEF R
  <1> QED
    BY <1>4, <1>5

\* A sum of naturals is a natural.
LEMMA SumNat ==
    ASSUME NEW w, NEW S, IsFiniteSet(S), \A x \in S : w[x] \in Nat
    PROVE  SumFunctionOnSet(w, S) \in Nat
  <1> DEFINE Total(s) == SumFunctionOnSet(w, s)
             M == {n \in Nat : \A s \in SUBSET S : Cardinality(s) <= n => Total(s) \in Nat}
  <1>1. \A s \in SUBSET S : IsFiniteSet(s) /\ Cardinality(s) \in Nat
    BY FS_Subset, FS_CardinalityType
  <1>2. \A s \in SUBSET S : s # {} => Total(s) = w[Chosen(s)] + Total(s \ {Chosen(s)})
    BY <1>1, SumUnfolds
  <1>6. Total({}) = 0
    BY FS_EmptySet, SumUnfolds
  <1> HIDE DEF Total
  <1>3. 0 \in M
    <2>1. ASSUME NEW s \in SUBSET S, Cardinality(s) <= 0 PROVE s = {}
      BY <1>1, <2>1, FS_EmptySet
    <2> QED
      BY <1>6, <2>1
  <1>4. ASSUME NEW n \in Nat, n \in M PROVE n + 1 \in M
    <2>1. ASSUME NEW s \in SUBSET S, Cardinality(s) <= n + 1, s # {} PROVE Total(s) \in Nat
      <3> DEFINE r == s \ {Chosen(s)}
      <3>1. Chosen(s) \in S /\ r \in SUBSET S /\ Cardinality(r) = Cardinality(s) - 1
        BY <2>1, WithoutChosen
      <3>2. Total(r) \in Nat
        BY <1>1, <1>4, <2>1, <3>1
      <3>3. Total(s) = w[Chosen(s)] + Total(r)
        BY <1>2, <2>1
      <3> QED
        BY <3>1, <3>2, <3>3
    <2>2. Total({}) \in Nat
      BY <1>6
    <2> QED
      BY <2>1, <2>2
  <1>5. Nat \subseteq M
    <2> HIDE DEF M
    <2> QED
      BY <1>3, <1>4, NatsIn
  <1> QED
    BY <1>1, <1>5 DEF Total

\* Any element may be taken off the sum first.
LEMMA SumRemove ==
    ASSUME NEW w, NEW S, IsFiniteSet(S), \A x \in S : w[x] \in Nat, NEW e \in S
    PROVE  SumFunctionOnSet(w, S) = w[e] + SumFunctionOnSet(w, S \ {e})
  <1> DEFINE Total(s) == SumFunctionOnSet(w, s)
             M == {n \in Nat : \A s \in SUBSET S : Cardinality(s) <= n =>
                        \A x \in s : Total(s) = w[x] + Total(s \ {x})}
  <1>1. \A s \in SUBSET S : IsFiniteSet(s) /\ Cardinality(s) \in Nat
    BY FS_Subset, FS_CardinalityType
  <1>2. \A s \in SUBSET S : s # {} => Total(s) = w[Chosen(s)] + Total(s \ {Chosen(s)})
    BY <1>1, SumUnfolds
  <1>3. \A s \in SUBSET S : Total(s) \in Nat
    BY <1>1, SumNat
  <1> HIDE DEF Total
  <1>4. 0 \in M
    BY <1>1, FS_EmptySet
  <1>5. ASSUME NEW n \in Nat, n \in M PROVE n + 1 \in M
    <2>1. ASSUME NEW s \in SUBSET S, Cardinality(s) <= n + 1, NEW x \in s, x # Chosen(s)
          PROVE  Total(s) = w[x] + Total(s \ {x})
      <3> DEFINE c == Chosen(s)
                 r == s \ {c}
                 t == s \ {x}
                 u == s \ {c, x}
      <3>1. c \in s /\ r \in SUBSET S /\ Cardinality(r) = Cardinality(s) - 1
        BY WithoutChosen
      <3>2. t \in SUBSET S /\ Cardinality(t) = Cardinality(s) - 1
        BY <1>1, FS_RemoveElement
      <3>3. Cardinality(r) <= n /\ Cardinality(t) <= n
        BY <1>1, <2>1, <3>1, <3>2
      <3>4. x \in r /\ r \ {x} = u /\ c \in t /\ t \ {c} = u /\ u \in SUBSET S
        BY <2>1, <3>1
      <3>5. Total(s) = w[c] + Total(r)
        BY <1>2
      <3> HIDE DEF c, r, t, u
      <3>6. Total(r) = w[x] + Total(u) /\ Total(t) = w[c] + Total(u)
        BY <1>5, <3>1, <3>2, <3>3, <3>4
      <3>7. w[c] \in Nat /\ w[x] \in Nat /\ Total(u) \in Nat
        BY <1>3, <3>1, <3>4
      <3>8. Total(s) = w[x] + Total(t)
        BY <3>5, <3>6, <3>7
      <3> QED
        BY <3>8 DEF t
    <2> QED
      BY <1>2, <2>1
  <1>6. Nat \subseteq M
    <2> HIDE DEF M
    <2> QED
      BY <1>4, <1>5, NatsIn
  <1>7. Total(S) = w[e] + Total(S \ {e})
    BY <1>1, <1>6
  <1> QED
    BY <1>7 DEF Total

\* More elements have no smaller sum.
LEMMA SumMonotone ==
    ASSUME NEW w, NEW S, IsFiniteSet(S), \A x \in S : w[x] \in Nat, NEW T \in SUBSET S
    PROVE  SumFunctionOnSet(w, T) <= SumFunctionOnSet(w, S)
  <1> DEFINE Total(s) == SumFunctionOnSet(w, s)
             M == {n \in Nat : \A s \in SUBSET S : Cardinality(s) <= n =>
                        \A t \in SUBSET s : Total(t) <= Total(s)}
  <1>1. \A s \in SUBSET S : IsFiniteSet(s) /\ Cardinality(s) \in Nat
    BY FS_Subset, FS_CardinalityType
  <1>2. \A s \in SUBSET S : \A x \in s : Total(s) = w[x] + Total(s \ {x})
    <2> SUFFICES ASSUME NEW s \in SUBSET S, NEW x \in s
                 PROVE  SumFunctionOnSet(w, s) = w[x] + SumFunctionOnSet(w, s \ {x})
      OBVIOUS
    <2>1. IsFiniteSet(s) /\ \A y \in s : w[y] \in Nat
      BY <1>1
    <2> QED
      BY ONLY <2>1, x \in s, SumRemove
  <1>3. \A s \in SUBSET S : Total(s) \in Nat
    BY <1>1, SumNat
  <1> HIDE DEF Total
  <1>4. 0 \in M
    <2>1. ASSUME NEW s \in SUBSET S, Cardinality(s) <= 0 PROVE s = {}
      BY <1>1, <2>1, FS_EmptySet
    <2>2. Total({}) <= Total({})
      BY <1>3
    <2> QED
      BY <2>1, <2>2
  <1>5. ASSUME NEW n \in Nat, n \in M PROVE n + 1 \in M
    <2>1. ASSUME NEW s \in SUBSET S, Cardinality(s) <= n + 1, NEW t \in SUBSET s, t # s
          PROVE  Total(t) <= Total(s)
      <3>1. PICK x \in s : x \notin t
        BY <2>1
      <3> DEFINE r == s \ {x}
      <3>2. r \in SUBSET S /\ t \in SUBSET r /\ Cardinality(r) = Cardinality(s) - 1
        BY <1>1, <3>1, FS_RemoveElement
      <3>3. Cardinality(r) <= n
        BY <1>1, <2>1, <3>2
      <3>4. Total(t) <= Total(r)
        BY <1>5, <3>2, <3>3
      <3>5. Total(s) = w[x] + Total(r)
        BY <1>2
      <3>6. Total(t) \in Nat /\ Total(r) \in Nat /\ w[x] \in Nat
        BY <1>3, <3>2
      <3> QED
        BY ONLY <3>4, <3>5, <3>6
    <2>2. \A s \in SUBSET S : Total(s) <= Total(s)
      BY <1>3
    <2> QED
      BY <2>1, <2>2
  <1>6. Nat \subseteq M
    <2> HIDE DEF M
    <2> QED
      BY <1>4, <1>5, NatsIn
  <1>7. Total(T) <= Total(S)
    BY <1>1, <1>6
  <1> QED
    BY <1>7 DEF Total

\* The size of a union of n disjoint sets of size c each.
LEMMA EqualParts ==
    ASSUME NEW k \in Nat, NEW c \in Nat, NEW f,
           \A n \in 1 .. k : IsFiniteSet(f[n]) /\ Cardinality(f[n]) = c,
           \A m, n \in 1 .. k : m # n => f[m] \cap f[n] = {}
    PROVE  Cardinality(UNION {f[n] : n \in 1 .. k}) = k * c
  <1> DEFINE First(n) == UNION {f[m] : m \in 1 .. n}
             M == {n \in Nat : n <= k => IsFiniteSet(First(n)) /\ Cardinality(First(n)) = n * c}
  <1>1. 0 \in M
    <2>1. First(0) = {}
      OBVIOUS
    <2>2. 0 * c = 0
      OBVIOUS
    <2> QED
      BY <2>1, <2>2, FS_EmptySet
  <1>2. ASSUME NEW n \in Nat, n \in M PROVE n + 1 \in M
    <2> SUFFICES ASSUME n + 1 <= k
                 PROVE  IsFiniteSet(First(n + 1)) /\ Cardinality(First(n + 1)) = (n + 1) * c
      OBVIOUS
    <2>1. n + 1 \in 1 .. k /\ n <= k
      OBVIOUS
    <2>2. First(n + 1) = First(n) \cup f[n + 1]
      <3>1. \A m : m \in 1 .. n + 1 <=> m \in 1 .. n \/ m = n + 1
        OBVIOUS
      <3> QED
        BY <3>1
    <2>3. First(n) \cap f[n + 1] = {}
      <3>1. \A m \in 1 .. n : m \in 1 .. k /\ m # n + 1
        BY <2>1
      <3> QED
        BY <2>1, <3>1
    <2>4. IsFiniteSet(First(n)) /\ Cardinality(First(n)) = n * c
      BY <1>2, <2>1
    <2>5. IsFiniteSet(f[n + 1]) /\ Cardinality(f[n + 1]) = c
      BY <2>1
    <2> HIDE DEF First
    <2>6. /\ IsFiniteSet(First(n) \cup f[n + 1])
          /\ Cardinality(First(n) \cup f[n + 1]) =
                Cardinality(First(n)) + Cardinality(f[n + 1]) - Cardinality(First(n) \cap f[n + 1])
      BY <2>4, <2>5, FS_Union
    <2>7. Cardinality({}) = 0
      BY FS_EmptySet
    <2>8. (n + 1) * c = n * c + c
      BY Z3
    <2>9. n * c \in Nat
      BY Z3
    <2>10. n * c + c - 0 = n * c + c
      BY <2>9
    <2> QED
      BY <2>2, <2>3, <2>4, <2>5, <2>6, <2>7, <2>8, <2>10
  <1>3. Nat \subseteq M
    <2> HIDE DEF M
    <2> QED
      BY <1>1, <1>2, NatsIn
  <1>4. k \in M
    BY <1>3
  <1>5. Cardinality(First(k)) = k * c
    <2> HIDE DEF First
    <2>1. k <= k
      OBVIOUS
    <2> QED
      BY ONLY <1>4, <2>1
  <1> QED
    BY <1>5

\* Multiples of d: the division gives the factor, without a remainder.
LEMMA Multiple ==
    ASSUME NEW x \in Nat, NEW d \in Nat, d > 0
    PROVE  (x * d) \div d = x /\ (x * d) % d = 0
  BY Z3

\* Of the numbers up to x * d, x have a given remainder modulo d.
LEMMA Strides ==
    ASSUME NEW x \in Nat, NEW d \in Nat, d > 0, NEW r \in 1 .. d
    PROVE  Cardinality({m \in 1 .. x * d : (m - 1) % d = r - 1}) = x
  <1> DEFINE S == {m \in 1 .. x * d : (m - 1) % d = r - 1}
             f == [n \in 1 .. x |-> (n - 1) * d + r]
  <1>1. ASSUME NEW n \in 1 .. x PROVE (n - 1) * d + r \in S
    <2> DEFINE q == n - 1
               e == r - 1
    <2>1. q \in Nat /\ q + 1 <= x /\ e \in Nat /\ e < d
      OBVIOUS
    <2>2. n - 1 = q /\ r = e + 1
      OBVIOUS
    <2> HIDE DEF q, e
    <2>3. q * d \in Nat /\ (q + 1) * d <= x * d /\ (q + 1) * d = q * d + d
      BY ONLY <2>1, x \in Nat, d \in Nat, Z3
    <2>4. (q * d + e) % d = e
      BY ONLY <2>1, d \in Nat, d > 0, Z3
    <2>5. q * d + e + 1 \in 1 .. x * d
      <3> DEFINE y == q * d
                 z == x * d
                 w == (q + 1) * d
      <3>1. z \in Nat
        BY ONLY x \in Nat, d \in Nat, Z3
      <3>2. y \in Nat /\ w <= z /\ w = y + d
        BY <2>3
      <3> HIDE DEF y, z, w
      <3>3. y + e + 1 \in 1 .. z
        BY ONLY <2>1, <3>1, <3>2, d \in Nat
      <3> QED
        BY <3>3 DEF y, z
    <2>6. (q * d + e + 1) - 1 = q * d + e
      BY ONLY <2>1, <2>3
    <2>7. (n - 1) * d + r = q * d + e + 1
      BY ONLY <2>1, <2>2, <2>3
    <2> QED
      BY <2>2, <2>4, <2>5, <2>6, <2>7
  <1>2. ASSUME NEW n \in 1 .. x, NEW k \in 1 .. x, (n - 1) * d + r = (k - 1) * d + r PROVE n = k
    BY ONLY <1>2, d \in Nat, d > 0, x \in Nat, r \in 1 .. d, Z3
  <1>3. ASSUME NEW m \in S PROVE \E n \in 1 .. x : m = (n - 1) * d + r
    <2> DEFINE q == (m - 1) \div d
    <2>1. m \in 1 .. x * d /\ (m - 1) % d = r - 1
      OBVIOUS
    <2>2. x * d \in Nat
      BY ONLY x \in Nat, d \in Nat, Z3
    <2>3. m - 1 \in Nat
      BY ONLY <2>1, <2>2
    <2>4. q \in Nat /\ m - 1 = q * d + ((m - 1) % d)
      <3> DEFINE y == m - 1
      <3>1. y \in Nat
        BY <2>3
      <3> HIDE DEF y
      <3>2. y \div d \in Nat
        BY ONLY <3>1, d \in Nat, d > 0
      <3>3. y = d * (y \div d) + (y % d)
        BY ONLY <3>1, d \in Nat, d > 0
      <3>4. d * (y \div d) = (y \div d) * d
        BY ONLY <3>2, d \in Nat
      <3> QED
        BY <3>2, <3>3, <3>4 DEF y
    <2> HIDE DEF q
    <2>5. m = q * d + r
      <3>1. q * d \in Nat
        BY ONLY <2>4, d \in Nat, Z3
      <3> QED
        BY ONLY <2>1, <2>2, <2>4, <3>1, r \in 1 .. d, d \in Nat
    <2>6. q + 1 <= x
      <3>1. q * d < x * d
        <4>1. q * d \in Nat
          BY ONLY <2>4, d \in Nat, Z3
        <4> QED
          BY ONLY <2>1, <2>2, <2>5, <4>1, r \in 1 .. d, d \in Nat
      <3> QED
        BY ONLY <2>4, <3>1, x \in Nat, d \in Nat, d > 0, Z3
    <2>7. q + 1 \in 1 .. x /\ (q + 1) - 1 = q
      BY ONLY <2>4, <2>6, x \in Nat
    <2> QED
      BY <2>5, <2>7
  <1> HIDE DEF S
  <1>4. f \in [1 .. x -> S]
    BY <1>1
  <1>5. f \in Injection(1 .. x, S)
    <2>1. \A n, k \in 1 .. x : f[n] = f[k] => n = k
      BY <1>2
    <2> HIDE DEF f
    <2> QED
      BY <1>4, <2>1 DEF Injection, IsInjective
  <1>6. f \in Surjection(1 .. x, S)
    <2>1. \A m \in S : \E n \in 1 .. x : f[n] = m
      BY <1>3
    <2> HIDE DEF f
    <2> QED
      BY <1>4, <2>1 DEF Surjection
  <1> HIDE DEF f
  <1>7. ExistsBijection(1 .. x, S)
    BY <1>5, <1>6 DEF Bijection, ExistsBijection
  <1>8. IsFiniteSet(1 .. x) /\ Cardinality(1 .. x) = x
    BY FS_Interval
  <1>9. Cardinality(S) = x
    BY <1>7, <1>8, FS_Bijection
  <1> QED
    BY <1>9 DEF S

\* A sum is bounded by the number of the elements that count, if each counts
\* for c at most.
LEMMA SumAtMost ==
    ASSUME NEW w, NEW S, IsFiniteSet(S), \A x \in S : w[x] \in Nat, NEW T \in SUBSET S,
           NEW c \in Nat, \A x \in T : w[x] <= c, \A x \in S \ T : w[x] = 0
    PROVE  SumFunctionOnSet(w, S) <= Cardinality(T) * c
  <1> DEFINE Total(s) == SumFunctionOnSet(w, s)
             Counting(s) == Cardinality(s \cap T)
             Bound(s) == Counting(s) * c
             M == {n \in Nat : \A s \in SUBSET S : Cardinality(s) <= n => Total(s) <= Bound(s)}
  <1>1. \A s \in SUBSET S : /\ IsFiniteSet(s) /\ Cardinality(s) \in Nat
                            /\ IsFiniteSet(s \cap T) /\ Counting(s) \in Nat
    BY FS_Subset, FS_CardinalityType, FS_Intersection
  <1>2. \A s \in SUBSET S : \A x \in s : Total(s) = w[x] + Total(s \ {x})
    <2> SUFFICES ASSUME NEW s \in SUBSET S, NEW x \in s
                 PROVE  SumFunctionOnSet(w, s) = w[x] + SumFunctionOnSet(w, s \ {x})
      OBVIOUS
    <2>1. IsFiniteSet(s) /\ \A y \in s : w[y] \in Nat
      BY <1>1
    <2> QED
      BY ONLY <2>1, x \in s, SumRemove
  <1>3. \A s \in SUBSET S : Total(s) \in Nat
    BY <1>1, SumNat
  <1>4. Total({}) = 0
    BY FS_EmptySet, SumUnfolds
  <1>5. \A s \in SUBSET S : \A x \in s :
           Counting(s) = IF x \in T THEN Counting(s \ {x}) + 1 ELSE Counting(s \ {x})
    <2> SUFFICES ASSUME NEW s \in SUBSET S, NEW x \in s
                 PROVE  Cardinality(s \cap T) = IF x \in T THEN Cardinality((s \ {x}) \cap T) + 1
                                                          ELSE Cardinality((s \ {x}) \cap T)
      OBVIOUS
    <2>1. (s \ {x}) \cap T = (s \cap T) \ {x}
      OBVIOUS
    <2>2. IsFiniteSet(s \cap T) /\ Cardinality(s \cap T) \in Nat
      BY <1>1
    <2>3. Cardinality((s \cap T) \ {x}) = IF x \in s \cap T THEN Cardinality(s \cap T) - 1
                                                           ELSE Cardinality(s \cap T)
      BY ONLY <2>2, FS_RemoveElement
    <2> DEFINE y == Cardinality(s \cap T)
    <2> HIDE DEF y
    <2>4. y \in Nat /\ Cardinality((s \ {x}) \cap T) = IF x \in T THEN y - 1 ELSE y
      BY <2>1, <2>2, <2>3 DEF y
    <2> QED
      BY ONLY <2>4 DEF y
  <1> HIDE DEF Total, Counting, Bound
  <1>6. 0 \in M
    <2>1. ASSUME NEW s \in SUBSET S, Cardinality(s) <= 0 PROVE s = {}
      <3>1. IsFiniteSet(s) /\ Cardinality(s) \in Nat
        BY <1>1
      <3>2. Cardinality(s) = 0
        BY ONLY <2>1, <3>1
      <3> QED
        BY ONLY <3>1, <3>2, FS_EmptySet
    <2>2. Counting({}) = 0
      BY FS_EmptySet DEF Counting
    <2>3. 0 * c = 0
      BY ONLY c \in Nat
    <2>4. Bound({}) = 0
      BY <2>2, <2>3 DEF Bound
    <2> QED
      BY <1>4, <2>1, <2>4
  <1>7. ASSUME NEW n \in Nat, n \in M PROVE n + 1 \in M
    <2>1. ASSUME NEW s \in SUBSET S, Cardinality(s) <= n + 1, NEW x \in s
          PROVE  Total(s) <= Bound(s)
      <3> DEFINE r == s \ {x}
      <3>1. r \in SUBSET S /\ Cardinality(r) = Cardinality(s) - 1
        BY <1>1, FS_RemoveElement
      <3>2. Cardinality(r) <= n
        <4>1. Cardinality(s) \in Nat
          BY <1>1
        <4> QED
          BY ONLY <2>1, <3>1, <4>1, n \in Nat
      <3>3. Total(r) <= Bound(r)
        BY <1>7, <3>1, <3>2
      <3>4. Total(s) = w[x] + Total(r)
        BY <1>2
      <3>5. Counting(s) = IF x \in T THEN Counting(r) + 1 ELSE Counting(r)
        BY <1>5
      <3>6. x \in T => w[x] <= c
        OBVIOUS
      <3>7. x \notin T => w[x] = 0
        OBVIOUS
      <3>8. Total(r) \in Nat /\ w[x] \in Nat /\ Counting(r) \in Nat
        BY <1>1, <1>3, <3>1
      <3> DEFINE k == Counting(r)
                 t == Total(r)
                 v == w[x]
      <3> HIDE DEF r, k, t, v, M
      <3>9. k * c \in Nat /\ (k + 1) * c = k * c + c
        BY ONLY <3>8, c \in Nat, Z3 DEF k
      <3>10. t <= k * c /\ Total(s) = v + t /\ t \in Nat /\ v \in Nat
        BY <3>3, <3>4, <3>8 DEF k, t, v, Bound
      <3>11. CASE x \in T
        <4>1. Counting(s) * c = k * c + c /\ v <= c
          BY <3>5, <3>6, <3>9, <3>11 DEF k, v
        <4> DEFINE y == k * c
        <4> HIDE DEF y
        <4>2. Total(s) <= y + c
          BY ONLY <3>9, <3>10, <4>1, c \in Nat DEF y
        <4> QED
          BY <4>1, <4>2 DEF y, Bound
      <3>12. CASE x \notin T
        <4>1. Counting(s) * c = k * c /\ v = 0
          BY <3>5, <3>7, <3>12 DEF k, v
        <4>2. Total(s) = t
          BY ONLY <3>10, <4>1
        <4> QED
          BY <3>10, <4>1, <4>2 DEF Bound
      <3> QED
        BY <3>11, <3>12
    <2>2. Total({}) <= Bound({})
      <3>1. 0 \in Nat /\ {} \in SUBSET S /\ Cardinality({}) <= 0
        BY FS_EmptySet
      <3> QED
        BY <1>6, <3>1
    <2>3. ASSUME NEW s \in SUBSET S, Cardinality(s) <= n + 1
          PROVE  Total(s) <= Bound(s)
      BY <2>1, <2>2, <2>3
    <2> QED
      BY <2>3
  <1>8. Nat \subseteq M
    <2> HIDE DEF M
    <2> QED
      BY <1>6, <1>7, NatsIn
  <1>9. Total(S) <= Bound(S)
    BY <1>1, <1>8
  <1>10. Counting(S) = Cardinality(T)
    <2>1. S \cap T = T
      OBVIOUS
    <2> QED
      BY <2>1 DEF Counting
  <1> QED
    BY <1>9, <1>10 DEF Total, Bound

\* As many elements have fewer than b elements above them as there are, b at most.
Above(S, l, i) == {j \in S : l[j] > l[i]}

LEMMA HighestRanked ==
    ASSUME NEW S, IsFiniteSet(S), NEW l, \A i \in S : l[i] \in Int,
           \A i, j \in S : l[i] = l[j] => i = j, NEW b \in Nat, b <= Cardinality(S)
    PROVE  Cardinality({i \in S : Cardinality(Above(S, l, i)) < b}) = b
  <1> DEFINE n == Cardinality(S)
             Rank == [i \in S |-> Cardinality(Above(S, l, i))]
             First == {i \in S : Rank[i] < b}
  <1>1. n \in Nat
    BY FS_CardinalityType
  <1>2. \A i \in S : IsFiniteSet(Above(S, l, i)) /\ Cardinality(Above(S, l, i)) \in Nat
    <2>1. \A i \in S : Above(S, l, i) \in SUBSET S
      BY DEF Above
    <2> QED
      BY <2>1, FS_Subset, FS_CardinalityType
  <1>3. ASSUME NEW i \in S, NEW j \in S, l[i] < l[j]
        PROVE  Cardinality(Above(S, l, j)) < Cardinality(Above(S, l, i))
    <2>1. Above(S, l, j) \in SUBSET Above(S, l, i)
      BY <1>3 DEF Above
    <2>2. j \in Above(S, l, i) /\ j \notin Above(S, l, j)
      BY <1>3 DEF Above
    <2>3. /\ Cardinality(Above(S, l, j)) <= Cardinality(Above(S, l, i))
          /\ Cardinality(Above(S, l, j)) # Cardinality(Above(S, l, i))
      BY <1>2, <2>1, <2>2, FS_Subset
    <2> QED
      BY <1>2, <2>3
  <1>4. ASSUME NEW i \in S PROVE Cardinality(Above(S, l, i)) < n
    <2>1. Above(S, l, i) \in SUBSET S /\ i \notin Above(S, l, i)
      BY DEF Above
    <2>2. Cardinality(Above(S, l, i)) <= n /\ Cardinality(Above(S, l, i)) # n
      BY <2>1, FS_Subset
    <2> QED
      BY <1>1, <1>2, <2>2
  <1>5. Rank \in [S -> 0 .. n - 1]
    BY <1>1, <1>2, <1>4
  <1>6. \A i, j \in S : Rank[i] = Rank[j] => i = j
    <2> SUFFICES ASSUME NEW i \in S, NEW j \in S,
                        Cardinality(Above(S, l, i)) = Cardinality(Above(S, l, j)), l[i] # l[j]
                 PROVE  FALSE
      OBVIOUS
    <2>1. l[i] < l[j] \/ l[j] < l[i]
      OBVIOUS
    <2> QED
      BY <1>2, <1>3, <2>1
  <1> HIDE DEF Rank
  <1>7. Rank \in Injection(S, 0 .. n - 1)
    BY <1>5, <1>6 DEF Injection, IsInjective
  <1>8. IsFiniteSet(0 .. n - 1) /\ Cardinality(0 .. n - 1) = n
    <2> HIDE DEF n
    <2>1. 0 \in Int /\ n - 1 \in Int
      BY <1>1
    <2>2. Cardinality(0 .. n - 1) = IF 0 > n - 1 THEN 0 ELSE n - 1 - 0 + 1
      BY <2>1, FS_Interval
    <2> QED
      BY <1>1, <2>1, <2>2, FS_Interval
  <1>9. \A k \in 0 .. n - 1 : \E i \in S : Rank[i] = k
    <2>1. Rank \in Surjection(S, 0 .. n - 1)
      BY <1>7, <1>8, FS_Injection
    <2> QED
      BY <2>1 DEF Surjection
  <1>10. First \in SUBSET S /\ IsFiniteSet(First)
    BY FS_Subset
  <1> DEFINE f == [i \in First |-> Rank[i]]
  <1>11. f \in [First -> 0 .. b - 1]
    BY <1>1, <1>5
  <1>12. \A i, j \in First : f[i] = f[j] => i = j
    BY <1>6
  <1>13. \A k \in 0 .. b - 1 : \E i \in First : f[i] = k
    <2> SUFFICES ASSUME NEW k \in 0 .. b - 1
                 PROVE  \E i \in First : f[i] = k
      OBVIOUS
    <2>1. k \in 0 .. n - 1 /\ k < b
      BY <1>1
    <2>2. PICK i \in S : Rank[i] = k
      BY <1>9, <2>1
    <2> QED
      BY <2>1, <2>2
  <1> HIDE DEF f, First
  <1>14. f \in Bijection(First, 0 .. b - 1)
    BY <1>11, <1>12, <1>13, Fun_IsBij
  <1>15. Cardinality(0 .. b - 1) = Cardinality(First)
    BY <1>10, <1>14, FS_Bijection DEF ExistsBijection
  <1>16. Cardinality(0 .. b - 1) = b
    <2>1. 0 \in Int /\ b - 1 \in Int
      OBVIOUS
    <2>2. Cardinality(0 .. b - 1) = IF 0 > b - 1 THEN 0 ELSE b - 1 - 0 + 1
      BY <2>1, FS_Interval
    <2> QED
      BY <2>2
  <1>17. First = {i \in S : Cardinality(Above(S, l, i)) < b}
    BY DEF First, Rank
  <1> QED
    BY <1>15, <1>16, <1>17
=============================================================================
