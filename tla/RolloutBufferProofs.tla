------------------------- MODULE RolloutBufferProofs -------------------------
(***************************************************************************)
(* An answer has one home and a batch is answered unless the retries run   *)
(* out, whatever the sizes, the answers, and the messages lost.            *)
(***************************************************************************)
EXTENDS RolloutBuffer, Lemmas

(***************************************************************************)
(* The inductive invariant.                                                *)
(***************************************************************************)
TypeInv ==
    /\ retries \in Int
    /\ next \in Nat /\ working \subseteq 1 .. next
    /\ completed \in Seq([instance : Instances, text : Texts])
    /\ posted \in 0 .. Len(completed)
    /\ post \in [state : {"idle", "sent", "written"}, attempt : 0 .. 2]
    /\ post.state # "idle" => posted > 0 /\ post.attempt > 0
    /\ pc \in {"idle", "fetch", "answer", "raised"}
    /\ batches \in Seq(UNION {[S -> Seq(Nat)] : S \in SUBSET Instances})
    /\ discarded \subseteq 1 .. posted /\ lost \subseteq 1 .. posted
    /\ reposted \subseteq 1 .. posted

\* The items of a group were posted, and answer the group's prompt.
GroupedIn(f, all, top) ==
    \A i \in DOMAIN f : \A n \in DOMAIN f[i] :
        f[i][n] \in 1 .. top /\ all[f[i][n]].instance = i

ContentsInv ==
    /\ data \in [Instances -> Seq(Nat)] /\ GroupedIn(data, completed, posted)
    /\ answer \in [Instances -> Seq(Nat)] /\ GroupedIn(answer, completed, posted)
    /\ results \in [Instances -> Seq(Nat)] /\ GroupedIn(results, completed, posted)
    /\ \A b \in DOMAIN batches : GroupedIn(batches[b], completed, posted)

\* A group that was handed out has N answers with text: if it has N answers at
\* all, each has.
FullIn(group, all) ==
    group # <<>> =>
        /\ Len(group) >= N
        /\ Len(group) = N => \A n \in 1 .. N : all[group[n]].text = "text"

FullInv == \A i \in Instances : FullIn(answer[i], completed) /\ FullIn(results[i], completed)

EmptyInv ==
    /\ pc = "idle" => results = Empty
    /\ pc # "answer" => answer = Empty

SourceInv ==
    /\ sample_group_index \in Int /\ unanswered \in Seq(SUBSET Int)
    /\ retry_times \in Int

IInv == TypeInv /\ ContentsInv /\ FullInv /\ EmptyInv /\ SourceInv /\ ItemsHaveOneHome
-----------------------------------------------------------------------------
(***************************************************************************)
(* Groups kept by prompt.                                                  *)
(***************************************************************************)
LEMMA ElementOf ==
    ASSUME NEW S, NEW s \in Seq(S), NEW n \in 1 .. Len(s)
    PROVE  s[n] \in S
  OBVIOUS

LEMMA HeldAre ==
    ASSUME NEW f, NEW x
    PROVE  x \in Held(f) <=> \E i \in DOMAIN f : \E n \in DOMAIN f[i] : x = f[i][n]
  BY DEF Held, ToSet

LEMMA NothingHeld == Held(Empty) = {}
  <1> SUFFICES ASSUME NEW x, x \in Held(Empty) PROVE FALSE
    OBVIOUS
  <1>1. PICK i \in DOMAIN Empty : \E n \in DOMAIN Empty[i] : x = Empty[i][n]
    BY HeldAre
  <1> QED
    BY <1>1 DEF Empty

\* An item outside of r stands at one place of the groups of f.
Once(f, r) ==
    \A i, j \in DOMAIN f : \A m \in DOMAIN f[i] : \A n \in DOMAIN f[j] :
        f[i][m] = f[j][n] => (i = j /\ m = n) \/ f[i][m] \in r

LEMMA OnceEmpty ==
    ASSUME NEW r
    PROVE  Once(Empty, r)
  BY DEF Once, Empty

\* Leaving groups out.
LEMMA Thinned ==
    ASSUME NEW f, NEW g, NEW r, NEW q, Once(f, r), r \subseteq q,
           \A i \in DOMAIN g : i \in DOMAIN f /\ (g[i] = f[i] \/ g[i] = <<>>)
    PROVE  Once(g, q) /\ Held(g) \subseteq Held(f)
  <1>1. \A i \in DOMAIN g : \A n \in DOMAIN g[i] :
            i \in DOMAIN f /\ n \in DOMAIN f[i] /\ g[i][n] = f[i][n]
    OBVIOUS
  <1>2. Once(g, q)
    BY <1>1 DEF Once
  <1>3. Held(g) \subseteq Held(f)
    BY <1>1, HeldAre
  <1> QED
    BY <1>2, <1>3

\* h is s with t behind it.
Concatenation(h, s, t) == \E k \in Nat :
    /\ \A m \in DOMAIN h : \/ m \in DOMAIN s /\ h[m] = s[m]
                           \/ m - k \in DOMAIN t /\ h[m] = t[m - k] /\ m \in Nat
    /\ \A m \in DOMAIN s : m \in DOMAIN h /\ h[m] = s[m]
    /\ \A m \in DOMAIN t : m + k \in DOMAIN h /\ h[m + k] = t[m]

\* Groups that hold those of f and after them those of g.
Joined(h, f, g) ==
    /\ DOMAIN h = DOMAIN f /\ DOMAIN g = DOMAIN f
    /\ \A i \in DOMAIN f : Concatenation(h[i], f[i], g[i])

LEMMA Concatenated ==
    ASSUME NEW S, NEW D, NEW f \in [D -> Seq(S)], NEW g \in [D -> Seq(S)]
    PROVE  Joined([i \in D |-> f[i] \o g[i]], f, g)
  <1> SUFFICES ASSUME NEW i \in D
               PROVE  Concatenation(f[i] \o g[i], f[i], g[i])
    BY DEF Joined
  <1> DEFINE s == f[i]
             t == g[i]
             h == s \o t
  <1>1. s \in Seq(S) /\ t \in Seq(S)
    OBVIOUS
  <1> HIDE DEF s, t
  <1>2. Len(s) \in Nat /\ Len(t) \in Nat /\ DOMAIN s = 1 .. Len(s) /\ DOMAIN t = 1 .. Len(t)
    BY <1>1
  <1>3. /\ h \in Seq(S) /\ Len(h) = Len(s) + Len(t)
        /\ \A m \in 1 .. Len(s) + Len(t) : h[m] = IF m <= Len(s) THEN s[m] ELSE t[m - Len(s)]
    BY <1>1, ConcatProperties
  <1> HIDE DEF h
  <1>4. DOMAIN h = 1 .. Len(s) + Len(t)
    BY <1>3
  <1> DEFINE a == Len(s)
             b == Len(t)
  <1> HIDE DEF a, b
  <1>5. /\ a \in Nat /\ b \in Nat /\ DOMAIN s = 1 .. a /\ DOMAIN t = 1 .. b /\ DOMAIN h = 1 .. a + b
        /\ \A m \in 1 .. a + b : h[m] = IF m <= a THEN s[m] ELSE t[m - a]
    BY <1>2, <1>3, <1>4 DEF a, b
  <1>6. \A m \in DOMAIN h : \/ m \in DOMAIN s /\ h[m] = s[m]
                            \/ m - a \in DOMAIN t /\ h[m] = t[m - a] /\ m \in Nat
    BY ONLY <1>5
  <1>7. \A m \in DOMAIN s : m \in DOMAIN h /\ h[m] = s[m]
    BY ONLY <1>5
  <1>8. \A m \in DOMAIN t : m + a \in DOMAIN h /\ h[m + a] = t[m]
    <2> SUFFICES ASSUME NEW m \in 1 .. b
                 PROVE  m + a \in 1 .. a + b /\ h[m + a] = t[m]
      BY <1>5
    <2>1. m + a \in 1 .. a + b /\ ~(m + a <= a) /\ (m + a) - a = m
      BY <1>5
    <2>2. h[m + a] = t[(m + a) - a]
      BY ONLY <1>5, <2>1
    <2> QED
      BY <2>1, <2>2
  <1> QED
    <2>1. Concatenation(h, s, t)
      BY ONLY <1>5, <1>6, <1>7, <1>8 DEF Concatenation
    <2> QED
      BY ONLY <2>1 DEF s, t, h

LEMMA JoinedHold ==
    ASSUME NEW h, NEW f, NEW g, Joined(h, f, g)
    PROVE  Held(h) = Held(f) \cup Held(g)
  <1>1. ASSUME NEW x \in Held(h) PROVE x \in Held(f) \cup Held(g)
    <2>1. PICK i, m : i \in DOMAIN h /\ m \in DOMAIN h[i] /\ x = h[i][m]
      BY HeldAre
    <2>2. \/ m \in DOMAIN f[i] /\ x = f[i][m]
          \/ \E k \in Nat : m - k \in DOMAIN g[i] /\ x = g[i][m - k]
      BY <2>1 DEF Joined, Concatenation
    <2>3. i \in DOMAIN f /\ i \in DOMAIN g
      BY <2>1 DEF Joined, Concatenation
    <2> QED
      BY <2>2, <2>3, HeldAre
  <1>2. ASSUME NEW x \in Held(f) PROVE x \in Held(h)
    <2>1. PICK i, m : i \in DOMAIN f /\ m \in DOMAIN f[i] /\ x = f[i][m]
      BY HeldAre
    <2>2. i \in DOMAIN h /\ m \in DOMAIN h[i] /\ x = h[i][m]
      BY <2>1 DEF Joined, Concatenation
    <2> QED
      BY <2>2, HeldAre
  <1>3. ASSUME NEW x \in Held(g) PROVE x \in Held(h)
    <2>1. PICK i, m : i \in DOMAIN g /\ m \in DOMAIN g[i] /\ x = g[i][m]
      BY HeldAre
    <2>2. i \in DOMAIN h /\ \E n \in DOMAIN h[i] : x = h[i][n]
      BY <2>1 DEF Joined, Concatenation
    <2> QED
      BY <2>2, HeldAre
  <1> QED
    BY <1>1, <1>2, <1>3

LEMMA JoinedOnce ==
    ASSUME NEW h, NEW f, NEW g, Joined(h, f, g), NEW r, Once(f, r), Once(g, r),
           Held(f) \cap Held(g) \subseteq r
    PROVE  Once(h, r)
  <1> SUFFICES ASSUME NEW i \in DOMAIN f, NEW j \in DOMAIN f, NEW m \in DOMAIN h[i],
                      NEW n \in DOMAIN h[j], h[i][m] = h[j][n], h[i][m] \notin r
               PROVE  i = j /\ m = n
    BY DEF Once, Joined, Concatenation
  <1>1. PICK k \in Nat : \/ m \in DOMAIN f[i] /\ h[i][m] = f[i][m]
                         \/ m - k \in DOMAIN g[i] /\ h[i][m] = g[i][m - k] /\ m \in Nat
    BY DEF Joined, Concatenation
  <1>2. i \in DOMAIN g /\ j \in DOMAIN g
    BY DEF Joined, Concatenation
  <1>3. CASE m \in DOMAIN f[i] /\ h[i][m] = f[i][m]
    <2>1. CASE n \in DOMAIN f[j] /\ h[j][n] = f[j][n]
      <3>1. f[i][m] = f[j][n] /\ f[i][m] \notin r
        BY <1>3, <2>1
      <3> QED
        BY <1>3, <2>1, <3>1 DEF Once
    <2>2. CASE ~(n \in DOMAIN f[j] /\ h[j][n] = f[j][n])
      <3>1. \E p \in DOMAIN g[j] : h[j][n] = g[j][p]
        BY <2>2 DEF Joined, Concatenation
      <3>2. h[i][m] \in Held(f) /\ h[i][m] \in Held(g)
        BY <1>2, <1>3, <3>1, HeldAre
      <3> QED
        BY <3>2
    <2> QED
      BY <2>1, <2>2
  <1>4. CASE ~(m \in DOMAIN f[i] /\ h[i][m] = f[i][m])
    <2>1. \E p \in DOMAIN g[i] : h[i][m] = g[i][p]
      BY <1>1, <1>4
    <2>2. CASE n \in DOMAIN f[j] /\ h[j][n] = f[j][n]
      <3>1. h[i][m] \in Held(g) /\ h[i][m] \in Held(f)
        BY <1>2, <2>1, <2>2, HeldAre
      <3> QED
        BY <3>1
    <2>3. CASE ~(n \in DOMAIN f[j] /\ h[j][n] = f[j][n])
      <3>1. i = j
        <4>1. \E p \in DOMAIN g[j] : h[j][n] = g[j][p]
          BY <2>3 DEF Joined, Concatenation
        <4> QED
          BY <1>2, <2>1, <4>1 DEF Once
      <3>2. PICK d \in Nat :
                \A p \in DOMAIN h[i] : \/ p \in DOMAIN f[i] /\ h[i][p] = f[i][p]
                                       \/ p - d \in DOMAIN g[i] /\ h[i][p] = g[i][p - d] /\ p \in Nat
        BY DEF Joined, Concatenation
      <3>3. /\ m - d \in DOMAIN g[i] /\ h[i][m] = g[i][m - d] /\ m \in Nat
            /\ n - d \in DOMAIN g[i] /\ h[i][n] = g[i][n - d] /\ n \in Nat
        BY <1>4, <2>3, <3>1, <3>2
      <3>4. m - d = n - d
        BY <1>2, <3>1, <3>3 DEF Once
      <3> QED
        BY <3>1, <3>3, <3>4
    <2> QED
      BY <2>2, <2>3
  <1> QED
    BY <1>3, <1>4

\* Appending an item to one group
Gains(h, f, x) ==
    /\ Held(h) = Held(f) \cup {x}
    /\ \A r : Once(f, r) /\ (x \in Held(f) => x \in r) => Once(h, r)

LEMMA Appended ==
    ASSUME NEW S, NEW D, NEW f \in [D -> Seq(S)], NEW j \in D, NEW x \in S
    PROVE  LET h == [f EXCEPT ![j] = Append(@, x)]
           IN  h \in [D -> Seq(S)] /\ Gains(h, f, x)
  <1> DEFINE h == [f EXCEPT ![j] = Append(@, x)]
             g == [i \in D |-> IF i = j THEN <<x>> ELSE <<>>]
  <1>1. g \in [D -> Seq(S)]
    OBVIOUS
  <1>2. h = [i \in D |-> f[i] \o g[i]]
    <2>1. ASSUME NEW i \in D PROVE h[i] = f[i] \o g[i]
      <3>1. f[i] \in Seq(S)
        OBVIOUS
      <3>2. CASE i = j
        <4>1. Append(f[i], x) = f[i] \o <<x>>
          BY ONLY <3>1, x \in S, AppendIsConcat
        <4> QED
          BY <3>2, <4>1
      <3>3. CASE i # j
        <4>1. f[i] \o <<>> = f[i]
          BY ONLY <3>1, ConcatEmptySeq
        <4> QED
          BY <3>3, <4>1
      <3> QED
        BY <3>2, <3>3
    <2>2. h = [i \in D |-> h[i]]
      OBVIOUS
    <2> HIDE DEF h, g
    <2> QED
      BY <2>1, <2>2
  <1>3. h \in [D -> Seq(S)]
    OBVIOUS
  <1>4. Held(g) = {x}
    <2>1. \A y : y \in Held(g) <=> \E i \in D : \E n \in DOMAIN g[i] : y = g[i][n]
      <3>1. DOMAIN g = D
        OBVIOUS
      <3> HIDE DEF g
      <3> QED
        BY <3>1, HeldAre
    <2>2. \A i \in D : \A n \in DOMAIN g[i] : g[i][n] = x
      OBVIOUS
    <2>3. 1 \in DOMAIN g[j] /\ g[j][1] = x
      OBVIOUS
    <2> HIDE DEF g
    <2>4. \A y \in Held(g) : y = x
      BY <2>1, <2>2
    <2>5. x \in Held(g)
      BY <2>1, <2>3
    <2> QED
      BY <2>4, <2>5
  <1>5. \A r : Once(g, r)
    <2> SUFFICES ASSUME NEW i \in D, NEW k \in D, NEW m \in DOMAIN g[i], NEW n \in DOMAIN g[k]
                 PROVE  i = k /\ m = n
      BY DEF Once
    <2>1. i = j /\ k = j
      OBVIOUS
    <2>2. m = 1 /\ n = 1
      BY <2>1
    <2> QED
      BY <2>1, <2>2
  <1> HIDE DEF h, g
  <1>6. Joined(h, f, g)
    BY <1>1, <1>2, Concatenated
  <1>7. Held(h) = Held(f) \cup {x}
    BY <1>4, <1>6, JoinedHold
  <1>8. ASSUME NEW r, Once(f, r), x \in Held(f) => x \in r PROVE Once(h, r)
    BY <1>4, <1>5, <1>6, <1>8, JoinedOnce
  <1> QED
    BY <1>3, <1>7, <1>8 DEF h, Gains
-----------------------------------------------------------------------------
(***************************************************************************)
(* Homes, and how items move between them.                                 *)
(***************************************************************************)
Cover(homes, items) == \A x \in items : \E h \in DOMAIN homes : x \in homes[h]
Apart(homes, r) == \A g, h \in DOMAIN homes : g # h => homes[g] \cap homes[h] \subseteq r

\* Items come to a home from nowhere, or were there before and may be.
Arrive(X, H, K, q, h) ==
    /\ DOMAIN K = DOMAIN H /\ h \in DOMAIN H
    /\ \A l \in DOMAIN H : X \cap H[l] \subseteq q
    /\ K[h] = H[h] \cup X
    /\ \A l \in DOMAIN H : l # h => K[l] = H[l]

LEMMA Arrived ==
    ASSUME NEW H, NEW K, NEW I, NEW R, NEW Q, NEW h, NEW X, Cover(H, I), Apart(H, R),
           R \subseteq Q, Arrive(X, H, K, Q, h)
    PROVE  Cover(K, I \cup X) /\ Apart(K, Q)
  <1> USE DEF Arrive
  <1>1. Cover(K, I \cup X)
    <2> SUFFICES ASSUME NEW x \in I \cup X
                 PROVE  \E l \in DOMAIN H : x \in K[l]
      BY DEF Cover
    <2>1. CASE x \in X
      BY <2>1
    <2>2. CASE x \in I
      <3>1. PICK l \in DOMAIN H : x \in H[l]
        BY <2>2 DEF Cover
      <3>2. x \in K[l]
        BY <3>1
      <3> QED
        BY <3>2
    <2> QED
      BY <2>1, <2>2
  <1>2. Apart(K, Q)
    <2> SUFFICES ASSUME NEW g \in DOMAIN H, NEW l \in DOMAIN H, g # l, NEW x, x \in K[g], x \in K[l]
                 PROVE  x \in Q
      BY DEF Apart
    <2>1. CASE x \in H[g] /\ x \in H[l]
      BY <2>1 DEF Apart
    <2>2. CASE x \in X /\ (x \in H[g] \/ x \in H[l])
      BY <2>2
    <2>3. \A k \in DOMAIN H : x \in K[k] => x \in H[k] \/ (x \in X /\ k = h)
      OBVIOUS
    <2> QED
      BY <2>1, <2>2, <2>3
  <1> QED
    BY <1>1, <1>2

\* Items go from one home to another.
Move(X, H, K, r, g, h) ==
    /\ DOMAIN K = DOMAIN H /\ g \in DOMAIN H /\ h \in DOMAIN H /\ g # h
    /\ X \subseteq H[g] /\ K[g] \subseteq H[g]
    /\ K[g] \cap X \subseteq r /\ H[g] \subseteq K[g] \cup X
    /\ K[h] = H[h] \cup X
    /\ \A l \in DOMAIN H : l # g /\ l # h => K[l] = H[l]

LEMMA Moved ==
    ASSUME NEW H, NEW K, NEW I, NEW R, NEW g, NEW h, NEW X, Cover(H, I), Apart(H, R),
           Move(X, H, K, R, g, h)
    PROVE  Cover(K, I) /\ Apart(K, R)
  <1> USE DEF Move
  <1>1. Cover(K, I)
    <2> SUFFICES ASSUME NEW x \in I
                 PROVE  \E l \in DOMAIN H : x \in K[l]
      BY DEF Cover
    <2>1. PICK l \in DOMAIN H : x \in H[l]
      BY DEF Cover
    <2>2. CASE l = g
      <3>1. x \in K[g] \/ x \in K[h]
        BY <2>1, <2>2
      <3> QED
        BY <3>1
    <2>3. CASE l # g
      <3>1. x \in K[l]
        BY <2>1, <2>3
      <3> QED
        BY <3>1
    <2> QED
      BY <2>2, <2>3
  <1>2. Apart(K, R)
    <2> SUFFICES ASSUME NEW k \in DOMAIN H, NEW l \in DOMAIN H, k # l, NEW x, x \in K[k], x \in K[l]
                 PROVE  x \in R
      BY DEF Apart
    <2>1. \A m \in DOMAIN H : x \in K[m] => x \in H[m] \/ (m = h /\ x \in X)
      OBVIOUS
    <2>2. CASE x \in H[k] /\ x \in H[l]
      BY <2>2 DEF Apart
    <2>3. ASSUME x \in X, NEW m \in DOMAIN H, m # h, x \in K[m] PROVE x \in R
      <3>1. CASE m = g
        BY <2>3, <3>1
      <3>2. CASE m # g
        <4>1. x \in H[m] /\ x \in H[g]
          BY <2>3, <3>2
        <4> QED
          BY <3>2, <4>1 DEF Apart
      <3> QED
        BY <3>1, <3>2
    <2> QED
      BY <2>1, <2>2, <2>3
  <1> QED
    BY <1>1, <1>2

Queued == (posted + 1) .. Len(completed)
Sending == IF post.state = "sent" THEN {posted} ELSE {}
Batched == UNION {Held(batches[b]) : b \in DOMAIN batches}

LEMMA HomesAre ==
    /\ DOMAIN Homes = 1 .. 8
    /\ Homes[1] = Queued /\ Homes[2] = Sending /\ Homes[3] = Held(data) /\ Homes[4] = Held(answer)
    /\ Homes[5] = Held(results) /\ Homes[6] = Batched /\ Homes[7] = discarded /\ Homes[8] = lost
  BY DEF Homes, Queued, Sending, Batched

LEMMA HomesAreNext ==
    /\ DOMAIN Homes' = 1 .. 8
    /\ Homes'[1] = Queued' /\ Homes'[2] = Sending' /\ Homes'[3] = Held(data') /\ Homes'[4] = Held(answer')
    /\ Homes'[5] = Held(results') /\ Homes'[6] = Batched' /\ Homes'[7] = discarded' /\ Homes'[8] = lost'
  BY DEF Homes, Queued, Sending, Batched, Held

BatchesApart(bs, r) ==
    /\ \A b \in DOMAIN bs : Once(bs[b], r)
    /\ \A b, c \in DOMAIN bs : b # c => Held(bs[b]) \cap Held(bs[c]) \subseteq r

LEMMA OneHomeIs ==
    ItemsHaveOneHome <=>
        /\ Cover(Homes, Items) /\ Apart(Homes, reposted)
        /\ Once(data, reposted) /\ Once(answer, reposted) /\ Once(results, reposted)
        /\ BatchesApart(batches, reposted)
  BY DEF ItemsHaveOneHome, AtMostOnce, Cover, Apart, Once, BatchesApart

LEMMA OneHomeIsNext ==
    ItemsHaveOneHome' <=>
        /\ Cover(Homes', Items') /\ Apart(Homes', reposted')
        /\ Once(data', reposted') /\ Once(answer', reposted') /\ Once(results', reposted')
        /\ BatchesApart(batches', reposted')
  BY DEF ItemsHaveOneHome, AtMostOnce, Cover, Apart, Once, BatchesApart, Held

\* Items' homes are no others than before.
LEMMA HomesStay ==
    ASSUME ItemsHaveOneHome, Sending' = Sending,
           UNCHANGED <<completed, posted, data, answer, results, batches, discarded, lost, reposted>>
    PROVE  ItemsHaveOneHome'
  <1>1. Items' = Items /\ Queued' = Queued /\ Batched' = Batched
    BY DEF Items, Queued, Batched, Held
  <1>2. Homes' = Homes
    BY <1>1 DEF Homes, Queued, Batched, Sending, Held
  <1>3. /\ Cover(Homes, Items) /\ Apart(Homes, reposted)
        /\ Once(data, reposted) /\ Once(answer, reposted) /\ Once(results, reposted)
        /\ BatchesApart(batches, reposted)
    BY OneHomeIs
  <1>4. /\ Cover(Homes', Items') /\ Apart(Homes', reposted')
        /\ Once(data', reposted') /\ Once(answer', reposted') /\ Once(results', reposted')
        /\ BatchesApart(batches', reposted')
    BY <1>1, <1>2, <1>3
  <1> QED
    BY <1>4, OneHomeIsNext

\* The other places' items are as good as before.
GroupsStay(g, h) == \A l \in 1 .. 8 : l # g /\ l # h => Homes'[l] = Homes[l]

LEMMA ItemsMove ==
    ASSUME ItemsHaveOneHome, Items' = Items, reposted' = reposted,
           NEW g \in 1 .. 8, NEW h \in 1 .. 8, g # h, NEW X, GroupsStay(g, h), X \subseteq Homes[g],
           Homes'[g] \subseteq Homes[g], Homes'[g] \cap X \subseteq reposted,
           Homes[g] \subseteq Homes'[g] \cup X, Homes'[h] = Homes[h] \cup X,
           Once(data', reposted), Once(answer', reposted), Once(results', reposted),
           BatchesApart(batches', reposted)
    PROVE  ItemsHaveOneHome'
  <1>1. Cover(Homes, Items) /\ Apart(Homes, reposted)
    BY OneHomeIs
  <1>2. DOMAIN Homes = 1 .. 8 /\ DOMAIN Homes' = 1 .. 8
    BY HomesAre, HomesAreNext
  <1>3. \A l \in DOMAIN Homes : l # g /\ l # h => Homes'[l] = Homes[l]
    BY <1>2 DEF GroupsStay
  <1>4. Cover(Homes', Items) /\ Apart(Homes', reposted)
    <2>1. Move(X, Homes, Homes', reposted, g, h)
      BY <1>2, <1>3 DEF Move
    <2> QED
      BY <1>1, <2>1, Moved
  <1>5. Cover(Homes', Items') /\ Apart(Homes', reposted')
    BY <1>4
  <1> QED
    BY <1>5, OneHomeIsNext

LEMMA ItemsArrive ==
    ASSUME ItemsHaveOneHome, NEW h \in 1 .. 8, NEW X, GroupsStay(h, h), Items' = Items \cup X,
           reposted \subseteq reposted', \A l \in 1 .. 8 : X \cap Homes[l] \subseteq reposted',
           Homes'[h] = Homes[h] \cup X,
           UNCHANGED <<data, answer, results, batches>>
    PROVE  ItemsHaveOneHome'
  <1>1. Cover(Homes, Items) /\ Apart(Homes, reposted)
    BY OneHomeIs
  <1>2. DOMAIN Homes = 1 .. 8 /\ DOMAIN Homes' = 1 .. 8
    BY HomesAre, HomesAreNext
  <1>3. \A l \in DOMAIN Homes : l # h => Homes'[l] = Homes[l]
    BY <1>2 DEF GroupsStay
  <1>4. Cover(Homes', Items \cup X) /\ Apart(Homes', reposted')
    <2>1. Arrive(X, Homes, Homes', reposted', h)
      BY <1>2, <1>3 DEF Arrive
    <2> QED
      BY <1>1, <2>1, Arrived
  <1>5. Once(data', reposted') /\ Once(answer', reposted') /\ Once(results', reposted')
    <2>1. Once(data, reposted) /\ Once(answer, reposted) /\ Once(results, reposted)
      BY OneHomeIs
    <2> QED
      BY <2>1 DEF Once
  <1>6. BatchesApart(batches', reposted')
    <2>1. BatchesApart(batches, reposted)
      BY OneHomeIs
    <2>2. \A b \in DOMAIN batches : Once(batches[b], reposted')
      BY <2>1 DEF BatchesApart, Once
    <2>3. \A b, c \in DOMAIN batches :
              b # c => Held(batches[b]) \cap Held(batches[c]) \subseteq reposted'
      BY <2>1 DEF BatchesApart
    <2> QED
      BY <2>2, <2>3 DEF BatchesApart
  <1> QED
    BY <1>4, <1>5, <1>6, OneHomeIsNext
-----------------------------------------------------------------------------
(***************************************************************************)
(* What the invariant says of the items in a home.                         *)
(***************************************************************************)
LEMMA GroupedHeld ==
    ASSUME NEW f, NEW all, NEW top, GroupedIn(f, all, top)
    PROVE  Held(f) \subseteq 1 .. top
  BY HeldAre DEF GroupedIn

LEMMA HomesInItems ==
    ASSUME TypeInv, ContentsInv
    PROVE  \A l \in 1 .. 8 : Homes[l] \subseteq Items
  <1>1. Len(completed) \in Nat /\ posted \in 0 .. Len(completed)
    BY DEF TypeInv
  <1>2. \A x \in 1 .. posted : x \in Items
    BY <1>1 DEF Items
  <1>3. Queued \subseteq Items
    BY <1>1 DEF Queued, Items
  <1>4. Sending \subseteq Items
    BY <1>1 DEF Sending, Items, TypeInv
  <1>5. Held(data) \subseteq Items /\ Held(answer) \subseteq Items /\ Held(results) \subseteq Items
    BY <1>2, GroupedHeld DEF ContentsInv
  <1>6. Batched \subseteq Items
    <2>1. \A b \in DOMAIN batches : Held(batches[b]) \subseteq Items
      BY <1>2, GroupedHeld DEF ContentsInv
    <2> QED
      BY <2>1 DEF Batched
  <1>7. discarded \subseteq Items /\ lost \subseteq Items
    BY <1>2 DEF TypeInv
  <1> QED
    BY <1>3, <1>4, <1>5, <1>6, <1>7, HomesAre

\* What is sent is nowhere else, unless it was sent before.
LEMMA SentIsApart ==
    ASSUME ItemsHaveOneHome, post.state = "sent", NEW l \in 1 .. 8, l # 2, posted \in Homes[l]
    PROVE  posted \in reposted
  <1>1. Apart(Homes, reposted)
    BY OneHomeIs
  <1>2. posted \in Homes[2] /\ DOMAIN Homes = 1 .. 8
    BY HomesAre DEF Sending
  <1> QED
    BY <1>1, <1>2 DEF Apart
-----------------------------------------------------------------------------
(***************************************************************************)
(* An answer has one home: the steps.                                      *)
(***************************************************************************)
groups == <<data, answer, results, batches>>

LEMMA HomesOfGroups ==
    ASSUME UNCHANGED groups
    PROVE  \A l \in 3 .. 6 : Homes'[l] = Homes[l]
  <1>1. Batched' = Batched
    BY DEF groups, Batched, Held
  <1>2. Held(data') = Held(data) /\ Held(answer') = Held(answer) /\ Held(results') = Held(results)
    BY DEF groups
  <1> QED
    BY <1>1, <1>2, HomesAre, HomesAreNext

LEMMA GroupsOnce ==
    ASSUME ItemsHaveOneHome, UNCHANGED groups
    PROVE  /\ Once(data', reposted) /\ Once(answer', reposted) /\ Once(results', reposted)
           /\ BatchesApart(batches', reposted)
  <1>1. /\ Once(data, reposted) /\ Once(answer, reposted) /\ Once(results, reposted)
        /\ BatchesApart(batches, reposted)
    BY OneHomeIs
  <1> QED
    BY <1>1 DEF groups

LEMMA OneHomeEndTask ==
    ASSUME TypeInv, ContentsInv, ItemsHaveOneHome, NEW task, NEW text, EndTask(task, text)
    PROVE  ItemsHaveOneHome'
  <1> DEFINE new == Len(completed) + 1
             X == {new}
  <1>1. UNCHANGED <<posted, post, discarded, lost, reposted>> /\ UNCHANGED groups
    BY DEF EndTask, client, history, source, groups
  <1>2. Len(completed) \in Nat /\ posted \in 0 .. Len(completed) /\ Len(completed') = new
    BY DEF EndTask, TypeInv
  <1>3. Items' = Items \cup X /\ Queued' = Queued \cup X
    BY <1>1, <1>2 DEF Items, Queued
  <1>4. Sending' = Sending
    BY <1>1 DEF Sending
  <1>5. Homes'[1] = Homes[1] \cup X
    BY <1>3, HomesAre, HomesAreNext
  <1>6. GroupsStay(1, 1)
    <2>1. Homes'[2] = Homes[2] /\ Homes'[7] = Homes[7] /\ Homes'[8] = Homes[8]
      BY <1>1, <1>4, HomesAre, HomesAreNext
    <2>2. \A l \in 3 .. 6 : Homes'[l] = Homes[l]
      BY <1>1, HomesOfGroups
    <2> QED
      BY <2>1, <2>2 DEF GroupsStay
  <1>7. \A l \in 1 .. 8 : X \cap Homes[l] = {}
    <2>1. new \notin Items
      BY <1>2 DEF Items
    <2> QED
      BY <2>1, HomesInItems
  <1> HIDE DEF X
  <1> QED
    BY <1>1, <1>3, <1>5, <1>6, <1>7, ItemsArrive DEF groups

LEMMA OneHomePost ==
    ASSUME TypeInv, ItemsHaveOneHome, Post
    PROVE  ItemsHaveOneHome'
  <1> DEFINE X == {posted + 1}
  <1>1. UNCHANGED <<completed, discarded, lost, reposted>> /\ UNCHANGED groups
    BY DEF Post, client, history, source, groups
  <1>2. Len(completed) \in Nat /\ posted \in Nat /\ posted < Len(completed) /\ posted' = posted + 1
    BY DEF Post, TypeInv
  <1>3. Queued = Queued' \cup X /\ Queued' \cap X = {}
    BY <1>1, <1>2 DEF Queued
  <1>4. Sending = {} /\ Sending' = X
    BY DEF Post, Sending
  <1>5. Homes[1] = Homes'[1] \cup X /\ Homes'[1] \cap X = {} /\ Homes'[2] = Homes[2] \cup X
    BY <1>3, <1>4, HomesAre, HomesAreNext
  <1>6. GroupsStay(1, 2)
    <2>1. Homes'[7] = Homes[7] /\ Homes'[8] = Homes[8]
      BY <1>1, HomesAre, HomesAreNext
    <2>2. \A l \in 3 .. 6 : Homes'[l] = Homes[l]
      BY <1>1, HomesOfGroups
    <2> QED
      BY <2>1, <2>2 DEF GroupsStay
  <1>7. Items' = Items
    BY <1>1 DEF Items
  <1> HIDE DEF X
  <1>8. /\ X \subseteq Homes[1] /\ Homes'[1] \subseteq Homes[1] /\ Homes'[1] \cap X \subseteq reposted
        /\ Homes[1] \subseteq Homes'[1] \cup X
    BY <1>5
  <1> QED
    BY <1>1, <1>5, <1>6, <1>7, <1>8, GroupsOnce, ItemsMove

LEMMA OneHomePostFails ==
    ASSUME TypeInv, ItemsHaveOneHome, PostFails
    PROVE  ItemsHaveOneHome'
  <1>1. /\ post.state = "sent" /\ post' = Again
        /\ lost' = IF post.attempt < 2 THEN lost ELSE lost \cup {posted}
        /\ UNCHANGED <<completed, posted, discarded, reposted>> /\ UNCHANGED groups
    BY DEF PostFails, client, groups, source
  <1>2. Items' = Items /\ Queued' = Queued
    BY <1>1 DEF Items, Queued
  <1>3. CASE post.attempt < 2
    <2>1. Sending' = Sending
      BY <1>1, <1>3 DEF Again, Sending
    <2> QED
      BY <1>1, <1>3, <2>1, HomesStay DEF groups
  <1>4. CASE ~(post.attempt < 2)
    <2> DEFINE X == {posted}
    <2>1. Sending = X /\ Sending' = {}
      BY <1>1, <1>4 DEF Again, Sending
    <2>2. Homes[2] = X /\ Homes'[2] = {} /\ Homes'[8] = Homes[8] \cup X
      BY <1>1, <1>4, <2>1, HomesAre, HomesAreNext
    <2>3. GroupsStay(2, 8)
      <3>1. Homes'[1] = Homes[1] /\ Homes'[7] = Homes[7]
        BY <1>1, <1>2, HomesAre, HomesAreNext
      <3>2. \A l \in 3 .. 6 : Homes'[l] = Homes[l]
        BY <1>1, HomesOfGroups
      <3> QED
        BY <3>1, <3>2 DEF GroupsStay
    <2> HIDE DEF X
    <2>4. /\ X \subseteq Homes[2] /\ Homes'[2] \subseteq Homes[2] /\ Homes'[2] \cap X \subseteq reposted
          /\ Homes[2] \subseteq Homes'[2] \cup X
      BY <2>2
    <2> QED
      BY <1>1, <1>2, <2>2, <2>3, <2>4, GroupsOnce, ItemsMove
  <1> QED
    BY <1>3, <1>4

LEMMA OneHomeWrite ==
    ASSUME TypeInv, ContentsInv, ItemsHaveOneHome, Write
    PROVE  ItemsHaveOneHome'
  <1> DEFINE X == {posted}
  <1>1. /\ post.state = "sent" /\ post' = [post EXCEPT !.state = "written"]
        /\ data' = [data EXCEPT ![completed[posted].instance] = Append(@, posted)]
        /\ UNCHANGED <<completed, posted, answer, results, batches, discarded, lost, reposted>>
    BY DEF Write, client, history, source
  <1>2. Items' = Items /\ Queued' = Queued /\ Batched' = Batched
    BY <1>1 DEF Items, Queued, Batched, Held
  <1>3. Sending = X /\ Sending' = {}
    <2>1. post'.state = "written"
      BY <1>1 DEF TypeInv
    <2> QED
      BY <1>1, <2>1 DEF Sending
  <1>4. posted \in 1 .. Len(completed) /\ completed[posted].instance \in Instances
    <2>1. /\ posted \in 0 .. Len(completed) /\ posted > 0
          /\ completed \in Seq([instance : Instances, text : Texts])
      BY <1>1 DEF TypeInv
    <2>2. posted \in 1 .. Len(completed)
      BY <2>1
    <2> DEFINE T == [instance : Instances, text : Texts]
    <2>3. completed[posted] \in T
      <3> HIDE DEF T
      <3> QED
        BY ONLY <2>1, <2>2, ElementOf DEF T
    <2> QED
      BY <2>2, <2>3
  <1>5. /\ Held(data') = Held(data) \cup X
        /\ \A r : Once(data, r) /\ (posted \in Held(data) => posted \in r) => Once(data', r)
    <2>1. data \in [Instances -> Seq(Nat)] /\ posted \in Nat
      BY <1>4 DEF ContentsInv
    <2> DEFINE j == completed[posted].instance
    <2>2. data' = [data EXCEPT ![j] = Append(@, posted)] /\ j \in Instances
      BY <1>1, <1>4
    <2> HIDE DEF j
    <2>3. Gains([data EXCEPT ![j] = Append(@, posted)], data, posted)
      BY ONLY <2>1, <2>2, Appended
    <2>4. Gains(data', data, posted)
      BY ONLY <2>2, <2>3
    <2> QED
      BY <2>4 DEF Gains
  <1>6. Once(data', reposted)
    <2>1. Once(data, reposted)
      BY OneHomeIs
    <2>2. posted \in Held(data) => posted \in reposted
      BY <1>1, HomesAre, SentIsApart
    <2> QED
      BY <1>5, <2>1, <2>2
  <1>7. Once(answer', reposted) /\ Once(results', reposted) /\ BatchesApart(batches', reposted)
    <2>1. Once(answer, reposted) /\ Once(results, reposted) /\ BatchesApart(batches, reposted)
      BY OneHomeIs
    <2> QED
      BY <1>1, <2>1
  <1>8. Homes[2] = X /\ Homes'[2] = {} /\ Homes'[3] = Homes[3] \cup X
    BY <1>3, <1>5, HomesAre, HomesAreNext
  <1>9. GroupsStay(2, 3)
    <2>1. /\ Homes'[1] = Homes[1] /\ Homes'[4] = Homes[4] /\ Homes'[5] = Homes[5]
          /\ Homes'[6] = Homes[6] /\ Homes'[7] = Homes[7] /\ Homes'[8] = Homes[8]
      BY <1>1, <1>2, HomesAre, HomesAreNext
    <2> QED
      BY <2>1 DEF GroupsStay
  <1> HIDE DEF X
  <1>10. /\ X \subseteq Homes[2] /\ Homes'[2] \subseteq Homes[2] /\ Homes'[2] \cap X \subseteq reposted
         /\ Homes[2] \subseteq Homes'[2] \cup X
    BY <1>8
  <1>11. reposted' = reposted
    BY <1>1
  <1> QED
    BY <1>2, <1>6, <1>7, <1>8, <1>9, <1>10, <1>11, ItemsMove

LEMMA OneHomeAcknowledgeFails ==
    ASSUME TypeInv, ContentsInv, ItemsHaveOneHome, AcknowledgeFails
    PROVE  ItemsHaveOneHome'
  <1> DEFINE X == {posted}
  <1>1. /\ post.state = "written" /\ post' = Again
        /\ reposted' = IF post.attempt < 2 THEN reposted \cup X ELSE reposted
        /\ UNCHANGED <<completed, posted, discarded, lost>> /\ UNCHANGED groups
    BY DEF AcknowledgeFails, client, groups, source
  <1>2. Items' = Items /\ Queued' = Queued
    BY <1>1 DEF Items, Queued
  <1>3. CASE ~(post.attempt < 2)
    <2>1. Sending' = Sending
      BY <1>1, <1>3 DEF Again, Sending
    <2> QED
      BY <1>1, <1>3, <2>1, HomesStay DEF groups
  <1>4. CASE post.attempt < 2
    <2>1. Sending = {} /\ Sending' = X
      BY <1>1, <1>4 DEF Again, Sending
    <2>2. Homes'[2] = Homes[2] \cup X
      BY <2>1, HomesAre, HomesAreNext
    <2>3. GroupsStay(2, 2)
      <3>1. Homes'[1] = Homes[1] /\ Homes'[7] = Homes[7] /\ Homes'[8] = Homes[8]
        BY <1>1, <1>2, HomesAre, HomesAreNext
      <3>2. \A l \in 3 .. 6 : Homes'[l] = Homes[l]
        BY <1>1, HomesOfGroups
      <3> QED
        BY <3>1, <3>2 DEF GroupsStay
    <2>4. Items' = Items \cup X
      <3>1. posted \in Items
        BY <1>1 DEF TypeInv, Items
      <3> QED
        BY <1>2, <3>1
    <2>5. reposted \subseteq reposted' /\ X \subseteq reposted'
      BY <1>1, <1>4
    <2> HIDE DEF X
    <2>6. \A l \in 1 .. 8 : X \cap Homes[l] \subseteq reposted'
      BY <2>5
    <2> QED
      BY <1>1, <2>2, <2>3, <2>4, <2>5, <2>6, ItemsArrive DEF groups
  <1> QED
    BY <1>3, <1>4

LEMMA OneHomeServeFetch ==
    ASSUME ContentsInv, EmptyInv, ItemsHaveOneHome, ServeFetch
    PROVE  ItemsHaveOneHome'
  <1>1. /\ pc = "fetch" /\ data' = Handed
        /\ answer' = [i \in Instances |-> IF i \in ValidInstances THEN data[i] ELSE <<>>]
        /\ UNCHANGED <<completed, posted, post, results, batches, discarded, lost, reposted>>
    BY DEF ServeFetch, Fetching, generator, history, source
  <1>2. Items' = Items /\ Queued' = Queued /\ Sending' = Sending /\ Batched' = Batched
    BY <1>1 DEF Items, Queued, Sending, Batched, Held
  <1>3. DOMAIN data = Instances
    BY DEF ContentsInv
  <1>4. /\ DOMAIN data' = Instances
        /\ \A i \in Instances : data'[i] = IF i \in ValidInstances THEN <<>> ELSE data[i]
    BY <1>1 DEF Handed
  <1>5. /\ DOMAIN answer' = Instances
        /\ \A i \in Instances : answer'[i] = IF i \in ValidInstances THEN data[i] ELSE <<>>
    BY <1>1
  <1>6. Once(data, reposted) /\ Once(results, reposted) /\ BatchesApart(batches, reposted)
    BY OneHomeIs
  <1>7. Once(data', reposted) /\ Held(data') \subseteq Held(data)
    <2>1. \A i \in DOMAIN data' : i \in DOMAIN data /\ (data'[i] = data[i] \/ data'[i] = <<>>)
      BY <1>3, <1>4
    <2> QED
      BY ONLY <1>6, <2>1, Thinned
  <1>8. Once(answer', reposted) /\ Held(answer') \subseteq Held(data)
    <2>1. \A i \in DOMAIN answer' : i \in DOMAIN data /\ (answer'[i] = data[i] \/ answer'[i] = <<>>)
      BY <1>3, <1>5
    <2> QED
      BY ONLY <1>6, <2>1, Thinned
  <1>9. Held(data) \subseteq Held(data') \cup Held(answer')
    <2> SUFFICES ASSUME NEW x \in Held(data) PROVE x \in Held(data') \/ x \in Held(answer')
      OBVIOUS
    <2>1. PICK i \in Instances : \E n \in DOMAIN data[i] : x = data[i][n]
      BY <1>3, HeldAre
    <2>2. CASE i \in ValidInstances
      <3>1. answer'[i] = data[i] /\ i \in DOMAIN answer'
        BY <1>5, <2>2
      <3>2. \E n \in DOMAIN answer'[i] : x = answer'[i][n]
        BY <2>1, <3>1
      <3> QED
        BY <3>1, <3>2, HeldAre
    <2>3. CASE i \notin ValidInstances
      <3>1. data'[i] = data[i] /\ i \in DOMAIN data'
        BY <1>4, <2>3
      <3>2. \E n \in DOMAIN data'[i] : x = data'[i][n]
        BY <2>1, <3>1
      <3> QED
        BY <3>1, <3>2, HeldAre
    <2> QED
      BY <2>2, <2>3
  <1>10. Held(data') \cap Held(answer') \subseteq reposted
    <2> SUFFICES ASSUME NEW x, x \in Held(data'), x \in Held(answer') PROVE x \in reposted
      OBVIOUS
    <2>1. PICK i, m : i \in Instances /\ m \in DOMAIN data'[i] /\ x = data'[i][m]
      BY <1>4, HeldAre
    <2>2. PICK j, n : j \in Instances /\ n \in DOMAIN answer'[j] /\ x = answer'[j][n]
      BY <1>5, HeldAre
    <2>3. i \notin ValidInstances /\ m \in DOMAIN data[i] /\ x = data[i][m]
      BY <1>4, <2>1
    <2>4. j \in ValidInstances /\ n \in DOMAIN data[j] /\ x = data[j][n]
      BY <1>5, <2>2
    <2>5. i \in DOMAIN data /\ j \in DOMAIN data /\ i # j
      BY <1>3, <2>1, <2>2, <2>3, <2>4
    <2>6. data[i][m] = data[j][n]
      BY <2>3, <2>4
    <2> QED
      BY <1>6, <2>3, <2>4, <2>5, <2>6 DEF Once
  <1>11. Homes[4] = {}
    BY <1>1, NothingHeld, HomesAre DEF EmptyInv
  <1>12. GroupsStay(3, 4)
    <2>1. /\ Homes'[1] = Homes[1] /\ Homes'[2] = Homes[2] /\ Homes'[5] = Homes[5]
          /\ Homes'[6] = Homes[6] /\ Homes'[7] = Homes[7] /\ Homes'[8] = Homes[8]
      BY <1>1, <1>2, HomesAre, HomesAreNext
    <2> QED
      BY <2>1 DEF GroupsStay
  <1> DEFINE X == Held(answer')
  <1>13. /\ X \subseteq Homes[3] /\ Homes'[3] \subseteq Homes[3] /\ Homes'[3] \cap X \subseteq reposted
         /\ Homes[3] \subseteq Homes'[3] \cup X /\ Homes'[4] = Homes[4] \cup X
    BY <1>7, <1>8, <1>9, <1>10, <1>11, HomesAre, HomesAreNext
  <1>14. /\ Once(results', reposted) /\ BatchesApart(batches', reposted) /\ reposted' = reposted
    BY <1>1, <1>6
  <1> HIDE DEF X
  <1> QED
    BY <1>2, <1>7, <1>8, <1>12, <1>13, <1>14, ItemsMove

LEMMA OneHomeReceive ==
    ASSUME ContentsInv, ItemsHaveOneHome, Receive
    PROVE  ItemsHaveOneHome'
  <1>1. /\ results' = [i \in Instances |-> results[i] \o answer[i]] /\ answer' = Empty
        /\ UNCHANGED <<completed, posted, post, data, batches, discarded, lost, reposted>>
    BY DEF Receive, generator, history, source
  <1>2. Items' = Items /\ Queued' = Queued /\ Sending' = Sending /\ Batched' = Batched
    BY <1>1 DEF Items, Queued, Sending, Batched, Held
  <1>3. /\ Once(data, reposted) /\ Once(answer, reposted) /\ Once(results, reposted)
        /\ BatchesApart(batches, reposted) /\ Apart(Homes, reposted)
    BY OneHomeIs
  <1>4. Joined(results', results, answer)
    <2>1. results \in [Instances -> Seq(Nat)] /\ answer \in [Instances -> Seq(Nat)]
      BY DEF ContentsInv
    <2>2. Joined([i \in Instances |-> results[i] \o answer[i]], results, answer)
      BY ONLY <2>1, Concatenated
    <2> QED
      BY ONLY <1>1, <2>2
  <1>5. Held(results) \cap Held(answer) \subseteq reposted
    <2>1. Homes[5] \cap Homes[4] \subseteq reposted
      BY <1>3, HomesAre DEF Apart
    <2> QED
      BY <2>1, HomesAre
  <1>6. Held(results') = Held(results) \cup Held(answer)
    BY ONLY <1>4, JoinedHold
  <1>7. Once(results', reposted)
    BY ONLY <1>3, <1>4, <1>5, JoinedOnce
  <1>8. Once(answer', reposted) /\ Held(answer') = {}
    BY <1>1, OnceEmpty, NothingHeld
  <1>9. GroupsStay(4, 5)
    <2>1. /\ Homes'[1] = Homes[1] /\ Homes'[2] = Homes[2] /\ Homes'[3] = Homes[3]
          /\ Homes'[6] = Homes[6] /\ Homes'[7] = Homes[7] /\ Homes'[8] = Homes[8]
      BY <1>1, <1>2, HomesAre, HomesAreNext
    <2> QED
      BY <2>1 DEF GroupsStay
  <1> DEFINE X == Held(answer)
  <1>10. /\ X \subseteq Homes[4] /\ Homes'[4] \subseteq Homes[4] /\ Homes'[4] \cap X \subseteq reposted
         /\ Homes[4] \subseteq Homes'[4] \cup X /\ Homes'[5] = Homes[5] \cup X
    BY <1>6, <1>8, HomesAre, HomesAreNext
  <1>11. Once(data', reposted) /\ BatchesApart(batches', reposted) /\ reposted' = reposted
    BY <1>1, <1>3
  <1> HIDE DEF X
  <1> QED
    BY <1>2, <1>7, <1>8, <1>9, <1>10, <1>11, ItemsMove

LEMMA OneHomeAnswerLost ==
    ASSUME ItemsHaveOneHome, AnswerLost
    PROVE  ItemsHaveOneHome'
  <1>1. /\ answer' = Empty /\ lost' = lost \cup Held(answer)
        /\ UNCHANGED <<completed, posted, post, data, results, batches, discarded, reposted>>
    BY DEF AnswerLost, generator, source
  <1>2. Items' = Items /\ Queued' = Queued /\ Sending' = Sending /\ Batched' = Batched
    BY <1>1 DEF Items, Queued, Sending, Batched, Held
  <1>3. Once(data, reposted) /\ Once(results, reposted) /\ BatchesApart(batches, reposted)
    BY OneHomeIs
  <1>4. Once(answer', reposted) /\ Held(answer') = {}
    BY <1>1, OnceEmpty, NothingHeld
  <1>5. GroupsStay(4, 8)
    <2>1. /\ Homes'[1] = Homes[1] /\ Homes'[2] = Homes[2] /\ Homes'[3] = Homes[3]
          /\ Homes'[5] = Homes[5] /\ Homes'[6] = Homes[6] /\ Homes'[7] = Homes[7]
      BY <1>1, <1>2, HomesAre, HomesAreNext
    <2> QED
      BY <2>1 DEF GroupsStay
  <1> DEFINE X == Held(answer)
  <1>6. /\ X \subseteq Homes[4] /\ Homes'[4] \subseteq Homes[4] /\ Homes'[4] \cap X \subseteq reposted
        /\ Homes[4] \subseteq Homes'[4] \cup X /\ Homes'[8] = Homes[8] \cup X
    BY <1>1, <1>4, HomesAre, HomesAreNext
  <1>7. /\ Once(data', reposted) /\ Once(results', reposted) /\ BatchesApart(batches', reposted)
        /\ reposted' = reposted
    BY <1>1, <1>3
  <1> HIDE DEF X
  <1> QED
    BY <1>2, <1>4, <1>5, <1>6, <1>7, ItemsMove

\* A batch is added.
HeldBy(bs) == UNION {Held(bs[b]) : b \in DOMAIN bs}

LEMMA BatchAdded ==
    ASSUME NEW S, NEW bs \in Seq(S), NEW f \in S, NEW bs2, bs2 = Append(bs, f), NEW r
    PROVE  /\ HeldBy(bs2) = HeldBy(bs) \cup Held(f)
           /\ BatchesApart(bs, r) /\ Once(f, r) /\ HeldBy(bs) \cap Held(f) \subseteq r =>
                  BatchesApart(bs2, r)
  <1> DEFINE n == Len(bs) + 1
  <1>1. /\ DOMAIN bs2 = DOMAIN bs \cup {n} /\ n \notin DOMAIN bs
        /\ bs2[n] = f /\ \A b \in DOMAIN bs : bs2[b] = bs[b]
    <2>1. /\ DOMAIN bs = 1 .. Len(bs) /\ Len(bs) \in Nat
          /\ DOMAIN bs2 = 1 .. Len(bs) + 1
          /\ bs2[Len(bs) + 1] = f
          /\ \A b \in 1 .. Len(bs) : bs2[b] = bs[b]
      BY AppendProperties
    <2> QED
      BY <2>1
  <1> HIDE DEF n
  <1>2. HeldBy(bs2) = HeldBy(bs) \cup Held(f)
    BY ONLY <1>1 DEF HeldBy
  <1>3. ASSUME BatchesApart(bs, r), Once(f, r), HeldBy(bs) \cap Held(f) \subseteq r
        PROVE  BatchesApart(bs2, r)
    <2>1. \A b \in DOMAIN bs2 : Once(bs2[b], r)
      BY <1>1, <1>3 DEF BatchesApart
    <2>2. \A b \in DOMAIN bs : Held(bs[b]) \cap Held(f) \subseteq r
      BY <1>3 DEF HeldBy
    <2>3. \A b, c \in DOMAIN bs2 : b # c => Held(bs2[b]) \cap Held(bs2[c]) \subseteq r
      BY <1>1, <1>3, <2>2 DEF BatchesApart
    <2> QED
      BY <2>1, <2>3 DEF BatchesApart
  <1> QED
    BY <1>2, <1>3

LEMMA OneHomeReturnBatch ==
    ASSUME TypeInv, ContentsInv, ItemsHaveOneHome, ReturnBatch
    PROVE  ItemsHaveOneHome'
  <1> DEFINE sel == Restrict(results, Selected)
             rest == Restrict(results, Found \ Selected)
  <1>1. /\ batches' = Append(batches, sel) /\ discarded' = discarded \cup Held(rest)
        /\ results' = Empty
        /\ UNCHANGED <<completed, posted, post, data, answer, lost, reposted>>
    BY DEF ReturnBatch, generator
  <1>2. Items' = Items /\ Queued' = Queued /\ Sending' = Sending
    BY <1>1 DEF Items, Queued, Sending
  <1>3. /\ Once(data, reposted) /\ Once(answer, reposted) /\ Once(results, reposted)
        /\ BatchesApart(batches, reposted) /\ Cover(Homes, Items) /\ Apart(Homes, reposted)
    BY OneHomeIs
  <1>4. /\ results \in [Instances -> Seq(Nat)] /\ Selected \subseteq Found /\ Found \subseteq Instances
        /\ \A i \in Instances \ Found : results[i] = <<>>
    BY DEF ContentsInv, Selected, Found
  <1>5. /\ DOMAIN sel = Selected /\ \A i \in Selected : sel[i] = results[i]
        /\ DOMAIN rest = Found \ Selected /\ \A i \in Found \ Selected : rest[i] = results[i]
    BY DEF Restrict
  <1>6. sel \in UNION {[S -> Seq(Nat)] : S \in SUBSET Instances}
    <2>1. sel \in [Selected -> Seq(Nat)] /\ Selected \in SUBSET Instances
      BY <1>4 DEF Restrict
    <2> HIDE DEF sel
    <2> QED
      BY <2>1
  <1> HIDE DEF sel, rest
  <1>7. Once(sel, reposted) /\ Held(sel) \subseteq Held(results)
    <2>1. \A i \in DOMAIN sel : i \in DOMAIN results /\ (sel[i] = results[i] \/ sel[i] = <<>>)
      BY <1>4, <1>5
    <2> QED
      BY ONLY <1>3, <2>1, Thinned
  <1>8. Held(rest) \subseteq Held(results)
    <2>1. \A i \in DOMAIN rest : i \in DOMAIN results /\ (rest[i] = results[i] \/ rest[i] = <<>>)
      BY <1>4, <1>5
    <2> QED
      BY ONLY <1>3, <2>1, Thinned
  <1>9. Held(results) \subseteq Held(sel) \cup Held(rest)
    <2> SUFFICES ASSUME NEW x \in Held(results) PROVE x \in Held(sel) \/ x \in Held(rest)
      OBVIOUS
    <2>1. PICK i \in Instances : \E n \in DOMAIN results[i] : x = results[i][n]
      BY <1>4, HeldAre
    <2>2. i \in Found
      BY <1>4, <2>1
    <2>3. CASE i \in Selected
      BY <1>5, <2>1, <2>3, HeldAre
    <2>4. CASE i \notin Selected
      <3>1. i \in DOMAIN rest /\ \E n \in DOMAIN rest[i] : x = rest[i][n]
        BY <1>5, <2>1, <2>2, <2>4
      <3> QED
        BY <3>1, HeldAre
    <2> QED
      BY <2>3, <2>4
  <1>10. Held(sel) \cap Held(rest) \subseteq reposted
    <2> SUFFICES ASSUME NEW x, x \in Held(sel), x \in Held(rest) PROVE x \in reposted
      OBVIOUS
    <2>1. PICK i, m : i \in Selected /\ m \in DOMAIN results[i] /\ x = results[i][m]
      BY <1>5, HeldAre
    <2>2. PICK j, n : j \in Found \ Selected /\ n \in DOMAIN results[j] /\ x = results[j][n]
      BY <1>5, HeldAre
    <2>3. i \in DOMAIN results /\ j \in DOMAIN results /\ i # j
      BY <1>4, <2>1, <2>2
    <2>4. m \in DOMAIN results[i] /\ n \in DOMAIN results[j] /\ results[i][m] = results[j][n]
      BY <2>1, <2>2
    <2>5. Once(results, reposted) /\ x = results[i][m]
      BY <1>3, <2>1
    <2> HIDE DEF sel, rest
    <2> QED
      BY ONLY <2>3, <2>4, <2>5 DEF Once
  <1> DEFINE X == Held(rest)
             Y == Held(sel)
             D == discarded
             K == [l \in 1 .. 8 |-> IF l = 5 THEN Y ELSE IF l = 7 THEN D \cup X ELSE Homes[l]]
  <1>11. Batched = HeldBy(batches) /\ Batched' = HeldBy(batches')
    BY DEF Batched, HeldBy, Held
  <1>12. /\ HeldBy(batches') = HeldBy(batches) \cup Y
         /\ HeldBy(batches) \cap Y \subseteq reposted => BatchesApart(batches', reposted)
    <2> DEFINE S == UNION {[T -> Seq(Nat)] : T \in SUBSET Instances}
    <2>1. batches \in Seq(S) /\ sel \in S
      BY <1>6 DEF TypeInv
    <2> HIDE DEF S
    <2>2. /\ HeldBy(batches') = HeldBy(batches) \cup Held(sel)
          /\ BatchesApart(batches, reposted) /\ Once(sel, reposted)
                  /\ HeldBy(batches) \cap Held(sel) \subseteq reposted => BatchesApart(batches', reposted)
      BY ONLY <1>1, <2>1, BatchAdded
    <2> QED
      BY <1>3, <1>7, <2>2
  <1> HIDE DEF X, Y, D
  <1>13. /\ X \subseteq Held(results) /\ Y \subseteq Held(results) /\ Held(results) \subseteq X \cup Y
         /\ X \cap Y \subseteq reposted /\ discarded' = D \cup X /\ Homes[7] = D /\ Homes[5] = Held(results)
    BY <1>1, <1>7, <1>8, <1>9, <1>10, HomesAre DEF X, Y, D
  <1>14. DOMAIN Homes = 1 .. 8 /\ DOMAIN Homes' = 1 .. 8
    BY HomesAre, HomesAreNext
  <1>15. Move(X, Homes, K, reposted, 5, 7)
    BY <1>13, <1>14 DEF Move
  <1>16. Cover(K, Items) /\ Apart(K, reposted)
    BY ONLY <1>3, <1>15, Moved
  <1>17. Homes'[5] = {} /\ Homes'[6] = Homes[6] \cup Y /\ Homes'[7] = D \cup X
    BY <1>1, <1>11, <1>12, <1>13, NothingHeld, HomesAre, HomesAreNext
  <1>18. /\ Homes'[1] = Homes[1] /\ Homes'[2] = Homes[2] /\ Homes'[3] = Homes[3]
         /\ Homes'[4] = Homes[4] /\ Homes'[8] = Homes[8]
    BY <1>1, <1>2, HomesAre, HomesAreNext
  <1>19. Move(Y, K, Homes', reposted, 5, 6)
    BY <1>14, <1>17, <1>18 DEF Move
  <1> HIDE DEF K
  <1>20. Cover(Homes', Items) /\ Apart(Homes', reposted)
    BY ONLY <1>16, <1>19, Moved
  <1>21. BatchesApart(batches', reposted)
    <2>1. Homes[6] \cap Homes[5] \subseteq reposted
      BY <1>3, <1>14 DEF Apart
    <2>2. HeldBy(batches) \cap Y \subseteq reposted
      BY <1>11, <1>13, <2>1, HomesAre
    <2> QED
      BY <1>12, <2>2
  <1>22. Once(results', reposted) /\ Once(data', reposted) /\ Once(answer', reposted)
    BY <1>1, <1>3, OnceEmpty
  <1>23. Items' = Items /\ reposted' = reposted
    BY <1>1, <1>2
  <1> QED
    BY <1>20, <1>21, <1>22, <1>23, OneHomeIsNext

\* The other steps leave every item where it is.
LEMMA OneHomeNext ==
    ASSUME TypeInv, ContentsInv, EmptyInv, ItemsHaveOneHome, [Next]_vars
    PROVE  ItemsHaveOneHome'
  <1>1. ASSUME UNCHANGED <<completed, posted, post, data, answer, results, batches, discarded,
                           lost, reposted>>
        PROVE  ItemsHaveOneHome'
    <2>1. Sending' = Sending
      BY <1>1 DEF Sending
    <2> QED
      BY <1>1, <2>1, HomesStay
  <1>2. CASE BeginTask
    BY <1>1, <1>2 DEF BeginTask, client, history, source
  <1>3. CASE \E task \in working, text \in Texts : EndTask(task, text)
    BY <1>3, OneHomeEndTask
  <1>4. CASE Post
    BY <1>4, OneHomePost
  <1>5. CASE PostFails
    BY <1>5, OneHomePostFails
  <1>6. CASE Write
    BY <1>6, OneHomeWrite
  <1>7. CASE Acknowledge
    <2>1. /\ post.state = "written" /\ post'.state = "idle"
          /\ UNCHANGED <<completed, posted, data, answer, results, batches, discarded, lost, reposted>>
      BY <1>7 DEF Acknowledge, client, history, source
    <2>2. Sending' = Sending
      BY <2>1 DEF Sending
    <2> QED
      BY <2>1, <2>2, HomesStay
  <1>8. CASE AcknowledgeFails
    BY <1>8, OneHomeAcknowledgeFails
  <1>9. CASE StartCall
    <2>1. results' = Empty /\ results = Empty
      BY <1>9 DEF StartCall, EmptyInv
    <2> QED
      BY <1>1, <1>9, <2>1 DEF StartCall, generator, history, source
  <1>10. CASE ServeFetch
    BY <1>10, OneHomeServeFetch
  <1>11. CASE Receive
    BY <1>11, OneHomeReceive
  <1>12. CASE FetchFails
    BY <1>1, <1>12 DEF FetchFails, generator, history, source
  <1>13. CASE AnswerLost
    BY <1>13, OneHomeAnswerLost
  <1>14. CASE ReturnBatch
    BY <1>14, OneHomeReturnBatch
  <1>15. CASE Raise
    BY <1>1, <1>15 DEF Raise, generator, history, source
  <1>16. CASE UNCHANGED vars
    BY <1>1, <1>16 DEF vars, generator, client, history, source
  <1> QED
    BY <1>2, <1>3, <1>4, <1>5, <1>6, <1>7, <1>8, <1>9, <1>10, <1>11, <1>12, <1>13, <1>14, <1>15,
       <1>16 DEF Next, GeneratorStep, ClientStep, Done
-----------------------------------------------------------------------------
(***************************************************************************)
(* The types.                                                              *)
(***************************************************************************)
LEMMA InstanceOfTask ==
    ASSUME NEW task \in Nat, task > 0
    PROVE  InstanceOf(task) \in Instances
  <1> DEFINE d == (task - 1) \div N
  <1>1. NumInstances \in Nat \ {0} /\ N \in Nat \ {0}
    BY SizesAssumption
  <1>2. d \in Int
    BY <1>1
  <1> HIDE DEF d
  <1>3. (d % NumInstances) + 1 \in 1 .. NumInstances
    BY ONLY <1>1, <1>2
  <1> QED
    BY <1>3 DEF InstanceOf, Instances, d

LEMMA SelectedBatch ==
    ASSUME ContentsInv
    PROVE  Restrict(results, Selected) \in UNION {[S -> Seq(Nat)] : S \in SUBSET Instances}
  <1> DEFINE sel == Restrict(results, Selected)
  <1>1. results \in [Instances -> Seq(Nat)] /\ Selected \subseteq Instances
    BY DEF ContentsInv, Selected, Found
  <1>2. sel \in [Selected -> Seq(Nat)] /\ Selected \in SUBSET Instances
    BY <1>1 DEF Restrict
  <1> HIDE DEF sel
  <1>3. sel \in UNION {[S -> Seq(Nat)] : S \in SUBSET Instances}
    BY <1>2
  <1> QED
    BY <1>3 DEF sel

LEMMA TypeNext ==
    ASSUME TypeInv, ContentsInv, [Next]_vars
    PROVE  TypeInv'
  <1> DEFINE T == [instance : Instances, text : Texts]
             B == UNION {[S -> Seq(Nat)] : S \in SUBSET Instances}
             P == [state : {"idle", "sent", "written"}, attempt : 0 .. 2]
  <1>1. /\ retries \in Int /\ next \in Nat /\ working \subseteq 1 .. next /\ completed \in Seq(T)
        /\ posted \in 0 .. Len(completed) /\ post \in P
        /\ post.state # "idle" => posted > 0 /\ post.attempt > 0
        /\ pc \in {"idle", "fetch", "answer", "raised"} /\ batches \in Seq(B)
        /\ discarded \subseteq 1 .. posted /\ lost \subseteq 1 .. posted /\ reposted \subseteq 1 .. posted
    BY DEF TypeInv
  <1>2. ASSUME retries' = retries, next' \in Nat, working' \subseteq 1 .. next',
               completed' \in Seq(T), posted' \in 0 .. Len(completed'), post' \in P,
               post'.state # "idle" => posted' > 0 /\ post'.attempt > 0,
               pc' \in {"idle", "fetch", "answer", "raised"}, batches' \in Seq(B),
               discarded' \subseteq 1 .. posted', lost' \subseteq 1 .. posted', reposted' \subseteq 1 .. posted'
        PROVE  TypeInv'
    BY <1>1, <1>2 DEF TypeInv, Instances
  <1> HIDE DEF T, B
  <1>3. Len(completed) \in Nat /\ posted \in Nat
    BY <1>1
  <1>4. CASE BeginTask
    <2>1. /\ next' = next + 1 /\ working' = working \cup {next'}
          /\ UNCHANGED <<retries, completed, posted, post, pc, batches, discarded, lost, reposted>>
      BY <1>4 DEF BeginTask, client, history, source
    <2>2. next' \in Nat /\ working' \subseteq 1 .. next'
      BY <1>1, <2>1
    <2> QED
      BY <1>1, <1>2, <2>1, <2>2
  <1>5. ASSUME NEW task \in working, NEW text \in Texts, EndTask(task, text) PROVE TypeInv'
    <2> DEFINE item == [instance |-> InstanceOf(task), text |-> text]
    <2>1. /\ working' = working \ {task} /\ completed' = Append(completed, item)
          /\ UNCHANGED <<retries, next, posted, post, pc, batches, discarded, lost, reposted>>
      BY <1>5 DEF EndTask, client, history, source
    <2>2. item \in T
      <3>1. task \in Nat /\ task > 0
        BY <1>1
      <3> QED
        BY <3>1, InstanceOfTask DEF T
    <2> HIDE DEF item
    <2>3. completed' \in Seq(T) /\ Len(completed') = Len(completed) + 1
      BY <1>1, <2>1, <2>2
    <2>4. posted' \in 0 .. Len(completed')
      BY <1>1, <1>3, <2>1, <2>3
    <2> QED
      BY <1>1, <1>2, <2>1, <2>3, <2>4
  <1>6. CASE Post
    <2>1. /\ posted < Len(completed) /\ posted' = posted + 1 /\ post' = [state |-> "sent", attempt |-> 1]
          /\ UNCHANGED <<retries, next, working, completed, pc, batches, discarded, lost, reposted>>
      BY <1>6 DEF Post, client, history, source
    <2>2. posted' \in 0 .. Len(completed') /\ posted' > 0 /\ 1 .. posted \subseteq 1 .. posted'
      BY <1>3, <2>1
    <2>3. post' \in P /\ post'.attempt > 0
      BY <2>1
    <2> QED
      BY <1>1, <1>2, <2>1, <2>2, <2>3
  <1>7. Again \in P /\ (Again.state # "idle" => Again.attempt > 0)
    BY DEF Again
  <1>8. CASE PostFails
    <2>1. /\ post.state = "sent" /\ post' = Again
          /\ lost' \subseteq lost \cup {posted}
          /\ UNCHANGED <<retries, next, working, completed, posted, pc, batches, discarded, reposted>>
      BY <1>8 DEF PostFails, client, source
    <2>2. posted > 0 /\ lost' \subseteq 1 .. posted'
      BY <1>1, <2>1
    <2> QED
      BY <1>1, <1>2, <1>7, <2>1, <2>2
  <1>9. CASE Write
    <2>1. /\ post.state = "sent" /\ post' = [post EXCEPT !.state = "written"]
          /\ UNCHANGED <<retries, next, working, completed, posted, pc, batches, discarded, lost, reposted>>
      BY <1>9 DEF Write, client, history, source
    <2>2. post' \in P /\ posted > 0 /\ post'.attempt > 0
      BY <1>1, <2>1
    <2> QED
      BY <1>1, <1>2, <2>1, <2>2
  <1>10. CASE Acknowledge
    <2>1. /\ post' = [state |-> "idle", attempt |-> 0]
          /\ UNCHANGED <<retries, next, working, completed, posted, pc, batches, discarded, lost, reposted>>
      BY <1>10 DEF Acknowledge, client, history, source
    <2>2. post' \in P /\ post'.state = "idle"
      BY <2>1
    <2> QED
      BY <1>1, <1>2, <2>1, <2>2
  <1>11. CASE AcknowledgeFails
    <2>1. /\ post.state = "written" /\ post' = Again
          /\ reposted' \subseteq reposted \cup {posted}
          /\ UNCHANGED <<retries, next, working, completed, posted, pc, batches, discarded, lost>>
      BY <1>11 DEF AcknowledgeFails, client, source
    <2>2. posted > 0 /\ reposted' \subseteq 1 .. posted'
      BY <1>1, <2>1
    <2> QED
      BY <1>1, <1>2, <1>7, <2>1, <2>2
  <1>12. CASE UNCHANGED <<retries, generator, history>> /\ pc' \in {"idle", "fetch", "answer", "raised"}
    BY <1>1, <1>2, <1>12 DEF generator, history, source
  <1>13. CASE StartCall \/ ServeFetch \/ Receive \/ FetchFails \/ Raise
    BY <1>1, <1>12, <1>13 DEF StartCall, ServeFetch, Receive, FetchFails, Raise
  <1>14. Held(answer) \subseteq 1 .. posted /\ Held(results) \subseteq 1 .. posted
    BY GroupedHeld DEF ContentsInv
  <1>15. CASE AnswerLost
    <2>1. /\ pc' = "fetch" /\ lost' = lost \cup Held(answer)
          /\ UNCHANGED <<retries, generator, batches, discarded, reposted>>
      BY <1>15 DEF AnswerLost, source
    <2>2. lost' \subseteq 1 .. posted
      BY <1>1, <1>14, <2>1
    <2> QED
      BY <1>1, <1>2, <2>1, <2>2 DEF generator
  <1>16. CASE ReturnBatch
    <2> DEFINE sel == Restrict(results, Selected)
               rest == Restrict(results, Found \ Selected)
    <2>1. /\ pc' = "idle" /\ batches' = Append(batches, sel) /\ discarded' = discarded \cup Held(rest)
          /\ UNCHANGED <<retries, generator, lost, reposted>>
      BY <1>16 DEF ReturnBatch
    <2>2. Held(rest) \subseteq Held(results)
      <3>1. results \in [Instances -> Seq(Nat)] /\ Found \subseteq Instances
        BY DEF ContentsInv, Found
      <3>2. DOMAIN rest = Found \ Selected /\ \A i \in DOMAIN rest : rest[i] = results[i] /\ i \in DOMAIN results
        BY <3>1 DEF Restrict
      <3> HIDE DEF rest
      <3>3. ASSUME NEW x \in Held(rest) PROVE x \in Held(results)
        <4>1. PICK i \in DOMAIN rest : \E n \in DOMAIN rest[i] : x = rest[i][n]
          BY HeldAre
        <4>2. i \in DOMAIN results /\ \E n \in DOMAIN results[i] : x = results[i][n]
          BY <3>2, <4>1
        <4> QED
          BY <4>2, HeldAre
      <3> QED
        BY <3>3
    <2>3. sel \in B
      BY SelectedBatch DEF B
    <2> HIDE DEF sel, rest
    <2>4. batches' \in Seq(B)
      BY <1>1, <2>1, <2>3
    <2>5. discarded' \subseteq 1 .. posted
      BY <1>1, <1>14, <2>1, <2>2
    <2> QED
      BY <1>1, <1>2, <2>1, <2>4, <2>5 DEF generator
  <1>17. CASE UNCHANGED vars
    BY <1>1, <1>12, <1>17 DEF vars, client
  <1> QED
    BY <1>4, <1>5, <1>6, <1>8, <1>9, <1>10, <1>11, <1>13, <1>15, <1>16, <1>17
       DEF Next, GeneratorStep, ClientStep, Done
-----------------------------------------------------------------------------
(***************************************************************************)
(* The contents of groups.                                                 *)
(***************************************************************************)
\* Items and what is known of them stay when others come.
Grows(all, all2, top, top2) == 1 .. top \subseteq 1 .. top2 /\ \A x \in 1 .. top : all2[x] = all[x]

LEMMA GroupedGrow ==
    ASSUME NEW all, NEW all2, NEW top, NEW top2, Grows(all, all2, top, top2)
    PROVE  \A f : GroupedIn(f, all, top) => GroupedIn(f, all2, top2)
  BY DEF Grows, GroupedIn

LEMMA GroupedThinned ==
    ASSUME NEW f, NEW g, NEW all, NEW top, GroupedIn(f, all, top),
           \A i \in DOMAIN g : i \in DOMAIN f /\ (g[i] = f[i] \/ g[i] = <<>>)
    PROVE  GroupedIn(g, all, top)
  <1>1. \A i \in DOMAIN g : \A n \in DOMAIN g[i] :
            i \in DOMAIN f /\ n \in DOMAIN f[i] /\ g[i][n] = f[i][n]
    OBVIOUS
  <1> QED
    BY <1>1 DEF GroupedIn

LEMMA GroupedJoined ==
    ASSUME NEW f, NEW g, NEW h, NEW all, NEW top, Joined(h, f, g), GroupedIn(f, all, top),
           GroupedIn(g, all, top)
    PROVE  GroupedIn(h, all, top)
  <1>1. ASSUME NEW i \in DOMAIN h, NEW m \in DOMAIN h[i]
        PROVE  h[i][m] \in 1 .. top /\ all[h[i][m]].instance = i
    <2>1. i \in DOMAIN f /\ i \in DOMAIN g
      BY DEF Joined, Concatenation
    <2>2. \/ m \in DOMAIN f[i] /\ h[i][m] = f[i][m]
          \/ \E k \in Nat : m - k \in DOMAIN g[i] /\ h[i][m] = g[i][m - k]
      BY <2>1 DEF Joined, Concatenation
    <2> QED
      BY <2>1, <2>2 DEF GroupedIn
  <1> QED
    BY <1>1 DEF GroupedIn

LEMMA GroupedAppended ==
    ASSUME NEW S, NEW D, NEW f \in [D -> Seq(S)], NEW j \in D, NEW x \in S, NEW all, NEW top,
           GroupedIn(f, all, top), x \in 1 .. top, all[x].instance = j
    PROVE  GroupedIn([f EXCEPT ![j] = Append(@, x)], all, top)
  <1> DEFINE h == [f EXCEPT ![j] = Append(@, x)]
  <1>1. ASSUME NEW i \in D, NEW m \in DOMAIN h[i]
        PROVE  h[i][m] \in 1 .. top /\ all[h[i][m]].instance = i
    <2>1. CASE i # j
      <3>1. h[i] = f[i]
        BY <2>1
      <3> HIDE DEF h
      <3> QED
        BY <3>1 DEF GroupedIn
    <2>2. CASE i = j
      <3> DEFINE s == f[i]
      <3>1. s \in Seq(S) /\ h[i] = Append(s, x)
        BY <2>2
      <3>2. \A n \in DOMAIN s : s[n] \in 1 .. top /\ all[s[n]].instance = i
        BY DEF GroupedIn
      <3> HIDE DEF s, h
      <3>3. /\ Len(s) \in Nat /\ DOMAIN s = 1 .. Len(s) /\ DOMAIN Append(s, x) = 1 .. Len(s) + 1
            /\ \A n \in 1 .. Len(s) : Append(s, x)[n] = s[n]
            /\ Append(s, x)[Len(s) + 1] = x
        BY <3>1, AppendProperties
      <3>4. m \in DOMAIN s \/ m = Len(s) + 1
        BY <3>1, <3>3
      <3>5. CASE m \in DOMAIN s
        <4>1. h[i][m] = s[m]
          BY <3>1, <3>3, <3>5
        <4> QED
          BY <3>2, <3>5, <4>1
      <3>6. CASE m = Len(s) + 1
        <4>1. h[i][m] = x
          BY <3>1, <3>3, <3>6
        <4> QED
          BY <2>2, <4>1
      <3> QED
        BY <3>4, <3>5, <3>6
    <2> QED
      BY <2>1, <2>2
  <1>2. DOMAIN h = D
    OBVIOUS
  <1> HIDE DEF h
  <1>3. GroupedIn(h, all, top)
    BY <1>1, <1>2 DEF GroupedIn
  <1> QED
    BY <1>3 DEF h

LEMMA GroupedEmpty ==
    ASSUME NEW all, NEW top
    PROVE  Empty \in [Instances -> Seq(Nat)] /\ GroupedIn(Empty, all, top)
  <1>1. <<>> \in Seq(Nat)
    OBVIOUS
  <1> QED
    BY <1>1 DEF Empty, GroupedIn

LEMMA ItemsGrow ==
    ASSUME TypeInv, [Next]_vars
    PROVE  Grows(completed, completed', posted, posted')
  <1>1. posted \in 0 .. Len(completed) /\ Len(completed) \in Nat
    BY DEF TypeInv
  <1>2. CASE UNCHANGED <<completed, posted>>
    BY <1>2 DEF Grows
  <1>3. CASE Post
    <2>1. completed' = completed /\ posted' = posted + 1
      BY <1>3 DEF Post
    <2> QED
      BY <1>1, <2>1 DEF Grows
  <1>4. ASSUME NEW task \in working, NEW text \in Texts, EndTask(task, text)
        PROVE  Grows(completed, completed', posted, posted')
    <2> DEFINE T == [instance : Instances, text : Texts]
               item == [instance |-> InstanceOf(task), text |-> text]
    <2>1. completed' = Append(completed, item) /\ posted' = posted /\ completed \in Seq(T)
      BY <1>4 DEF EndTask, TypeInv
    <2> HIDE DEF T, item
    <2>2. \A x \in 1 .. Len(completed) : completed'[x] = completed[x]
      BY ONLY <2>1, AppendProperties
    <2> QED
      BY <1>1, <2>1, <2>2 DEF Grows
  <1>5. CASE BeginTask \/ PostFails \/ Write \/ Acknowledge \/ AcknowledgeFails
    BY <1>2, <1>5 DEF BeginTask, PostFails, Write, Acknowledge, AcknowledgeFails
  <1>6. CASE ClientStep
    BY <1>2, <1>6 DEF ClientStep, StartCall, ServeFetch, Receive, FetchFails, AnswerLost, ReturnBatch,
                      Raise, generator
  <1>7. CASE UNCHANGED vars
    BY <1>2, <1>7 DEF vars, generator
  <1> QED
    BY <1>3, <1>4, <1>5, <1>6, <1>7 DEF Next, GeneratorStep, Done

LEMMA ContentsNext ==
    ASSUME TypeInv, ContentsInv, [Next]_vars
    PROVE  ContentsInv'
  <1> DEFINE F == [Instances -> Seq(Nat)]
             Good(f) == GroupedIn(f, completed, posted)
             Good2(f) == GroupedIn(f, completed', posted')
  <1>1. /\ data \in F /\ Good(data) /\ answer \in F /\ Good(answer) /\ results \in F /\ Good(results)
        /\ \A b \in DOMAIN batches : Good(batches[b])
    BY DEF ContentsInv
  <1>2. ASSUME data' \in F, Good2(data'), answer' \in F, Good2(answer'), results' \in F, Good2(results'),
               \A b \in DOMAIN batches' : Good2(batches'[b])
        PROVE  ContentsInv'
    BY <1>2 DEF ContentsInv, GroupedIn, Instances
  <1>3. \A f : Good(f) => Good2(f)
    BY ItemsGrow, GroupedGrow
  <1>4. Empty \in F /\ Good2(Empty)
    BY GroupedEmpty
  <1> HIDE DEF Good, Good2
  <1>5. CASE UNCHANGED groups
    BY <1>1, <1>2, <1>3, <1>5 DEF groups
  <1>6. CASE BeginTask \/ Post \/ PostFails \/ Acknowledge \/ AcknowledgeFails
    BY <1>5, <1>6 DEF BeginTask, Post, PostFails, Acknowledge, AcknowledgeFails, client, history, source, groups
  <1>7. ASSUME NEW task, NEW text, EndTask(task, text) PROVE ContentsInv'
    BY <1>5, <1>7 DEF EndTask, client, history, source, groups
  <1>8. CASE Write
    <2> DEFINE j == completed[posted].instance
    <2>1. /\ post.state = "sent" /\ data' = [data EXCEPT ![j] = Append(@, posted)]
          /\ UNCHANGED <<completed, posted, answer, results, batches>>
      BY <1>8 DEF Write, client, history, source
    <2>2. posted \in 1 .. posted /\ posted \in 1 .. Len(completed) /\ posted \in Nat
      BY <2>1 DEF TypeInv
    <2>3. j \in Instances
      <3> DEFINE T == [instance : Instances, text : Texts]
      <3>1. completed \in Seq(T)
        BY DEF TypeInv
      <3>2. completed[posted] \in T
        <4> HIDE DEF T
        <4> QED
          BY ONLY <2>2, <3>1, ElementOf
      <3> QED
        BY <3>2
    <2>4. [data EXCEPT ![j] = Append(@, posted)] \in F
      <3> DEFINE i == j
      <3>1. i \in Instances /\ posted \in Nat
        BY <2>2, <2>3
      <3> HIDE DEF i
      <3>2. Append(data[i], posted) \in Seq(Nat)
        BY <1>1, <3>1
      <3>3. [data EXCEPT ![i] = Append(@, posted)] \in F
        BY <1>1, <3>1, <3>2
      <3> QED
        BY <3>3 DEF i
    <2>5. Good([data EXCEPT ![j] = Append(@, posted)])
      <3>1. completed[posted].instance = j
        OBVIOUS
      <3> HIDE DEF j
      <3>2. data \in [Instances -> Seq(Nat)] /\ GroupedIn(data, completed, posted)
        BY <1>1 DEF Good
      <3>3. GroupedIn([data EXCEPT ![j] = Append(@, posted)], completed, posted)
        BY ONLY <2>2, <2>3, <3>1, <3>2, GroupedAppended
      <3> QED
        BY <3>3 DEF Good
    <2> HIDE DEF j, F
    <2> QED
      BY <1>1, <1>2, <1>3, <2>1, <2>4, <2>5
  <1>9. CASE StartCall
    BY <1>1, <1>2, <1>3, <1>4, <1>9 DEF StartCall, history, source
  <1>10. CASE ServeFetch
    <2>1. /\ data' = [i \in Instances |-> IF i \in ValidInstances THEN <<>> ELSE data[i]]
          /\ answer' = [i \in Instances |-> IF i \in ValidInstances THEN data[i] ELSE <<>>]
          /\ UNCHANGED <<completed, posted, results, batches>>
      BY <1>10 DEF ServeFetch, Handed, generator, history, source
    <2>2. data' \in F /\ answer' \in F
      BY <1>1, <2>1
    <2>3. Good(data')
      <3>1. \A i \in DOMAIN data' : i \in DOMAIN data /\ (data'[i] = data[i] \/ data'[i] = <<>>)
        BY <1>1, <2>1
      <3> QED
        BY <1>1, <3>1, GroupedThinned DEF Good
    <2>4. Good(answer')
      <3>1. \A i \in DOMAIN answer' : i \in DOMAIN data /\ (answer'[i] = data[i] \/ answer'[i] = <<>>)
        BY <1>1, <2>1
      <3> QED
        BY <1>1, <3>1, GroupedThinned DEF Good
    <2> QED
      BY <1>1, <1>2, <1>3, <2>1, <2>2, <2>3, <2>4
  <1>11. CASE Receive
    <2>1. /\ results' = [i \in Instances |-> results[i] \o answer[i]] /\ answer' = Empty
          /\ UNCHANGED <<completed, posted, data, batches>>
      BY <1>11 DEF Receive, generator, history, source
    <2>2. results' \in F
      BY <1>1, <2>1
    <2>3. Joined(results', results, answer)
      <3>1. Joined([i \in Instances |-> results[i] \o answer[i]], results, answer)
        BY ONLY <1>1, Concatenated
      <3> QED
        BY ONLY <2>1, <3>1
    <2>4. Good(results')
      BY <1>1, <2>3, GroupedJoined DEF Good
    <2> QED
      BY <1>1, <1>2, <1>3, <1>4, <2>1, <2>2, <2>4
  <1>12. CASE FetchFails \/ Raise
    BY <1>5, <1>12 DEF FetchFails, Raise, history, source, groups
  <1>13. CASE AnswerLost
    BY <1>1, <1>2, <1>3, <1>4, <1>13 DEF AnswerLost, source
  <1>14. CASE ReturnBatch
    <2> DEFINE sel == Restrict(results, Selected)
               B == UNION {[S -> Seq(Nat)] : S \in SUBSET Instances}
    <2>1. batches' = Append(batches, sel) /\ results' = Empty /\ UNCHANGED <<data, answer>>
      BY <1>14 DEF ReturnBatch
    <2>2. Good(sel)
      <3>1. \A i \in DOMAIN sel : i \in DOMAIN results /\ (sel[i] = results[i] \/ sel[i] = <<>>)
        BY <1>1 DEF Restrict, Selected, Found
      <3> HIDE DEF sel
      <3> QED
        BY <1>1, <3>1, GroupedThinned DEF Good
    <2>3. batches \in Seq(B) /\ sel \in B
      BY SelectedBatch DEF TypeInv
    <2> HIDE DEF sel, B
    <2>4. \A b \in DOMAIN batches' :
            (b \in DOMAIN batches /\ batches'[b] = batches[b]) \/ batches'[b] = sel
      BY ONLY <2>1, <2>3, AppendProperties
    <2>5. \A b \in DOMAIN batches' : Good2(batches'[b])
      BY <1>1, <1>3, <2>2, <2>4
    <2> QED
      BY <1>1, <1>2, <1>3, <1>4, <2>1, <2>5
  <1>15. CASE UNCHANGED vars
    BY <1>5, <1>15 DEF vars, client, history, source, groups
  <1> QED
    BY <1>6, <1>7, <1>8, <1>9, <1>10, <1>11, <1>12, <1>13, <1>14, <1>15
       DEF Next, GeneratorStep, ClientStep, Done

LEMMA EmptyNext ==
    ASSUME EmptyInv, [Next]_vars
    PROVE  EmptyInv'
  <1> USE DEF EmptyInv
  <1>1. Empty' = Empty
    BY DEF Empty, Instances
  <1>2. CASE UNCHANGED <<pc, results, answer>>
    BY <1>1, <1>2
  <1>3. CASE BeginTask \/ Post \/ PostFails \/ Write \/ Acknowledge \/ AcknowledgeFails
    BY <1>2, <1>3 DEF BeginTask, Post, PostFails, Write, Acknowledge, AcknowledgeFails, client
  <1>4. ASSUME NEW task, NEW text, EndTask(task, text) PROVE EmptyInv'
    BY <1>2, <1>4 DEF EndTask, client
  <1>5. CASE StartCall
    BY <1>1, <1>5 DEF StartCall
  <1>6. CASE ServeFetch
    BY <1>1, <1>6 DEF ServeFetch
  <1>7. CASE Receive
    BY <1>1, <1>7 DEF Receive
  <1>8. CASE FetchFails
    BY <1>2, <1>8 DEF FetchFails
  <1>9. CASE AnswerLost
    BY <1>1, <1>9 DEF AnswerLost
  <1>10. CASE ReturnBatch
    BY <1>1, <1>10 DEF ReturnBatch, Fetched
  <1>11. CASE Raise
    BY <1>1, <1>11 DEF Raise, Fetched
  <1>12. CASE UNCHANGED vars
    BY <1>2, <1>12 DEF vars, client
  <1> QED
    BY <1>3, <1>4, <1>5, <1>6, <1>7, <1>8, <1>9, <1>10, <1>11, <1>12
       DEF Next, GeneratorStep, ClientStep, Done
-----------------------------------------------------------------------------
(***************************************************************************)
(* A batch is answered.                                                    *)
(***************************************************************************)
\* What is_valid_group accepts: as many answers with text as are asked for.
LEMMA ValidIsFull ==
    ASSUME NEW S, NEW group \in Seq(S), Valid(group)
    PROVE  FullIn(group, completed)
  <1> DEFINE T == {n \in DOMAIN group : TextOf(group[n]) = "text"}
             D == 1 .. Len(group)
  <1>1. Len(group) \in Nat /\ DOMAIN group = D
    OBVIOUS
  <1>2. IsFiniteSet(D) /\ Cardinality(D) = Len(group)
    <2>1. \A n \in Nat : IsFiniteSet(1 .. n) /\ Cardinality(1 .. n) = n
      BY ONLY FS_Interval
    <2> QED
      BY ONLY <1>1, <2>1
  <1>3. T \in SUBSET D /\ Cardinality(T) >= N
    BY <1>1 DEF Valid
  <1> DEFINE t == Cardinality(T)
             k == Len(group)
  <1>4. t \in Nat /\ t <= k /\ (t = k => T = D)
    <2> HIDE DEF T, D
    <2>1. IsFiniteSet(T) /\ Cardinality(T) <= Cardinality(D) /\ (Cardinality(D) = Cardinality(T) => D = T)
      BY ONLY <1>2, <1>3, FS_Subset
    <2> QED
      BY ONLY <1>2, <2>1, FS_CardinalityType
  <1>5. k >= N /\ (k = N => t = k)
    <2>1. t >= N
      BY <1>3
    <2>2. N \in Nat
      BY SizesAssumption
    <2>3. k \in Nat
      BY <1>1
    <2> HIDE DEF t, k
    <2> QED
      BY ONLY <1>4, <2>1, <2>2, <2>3
  <1>6. T = D => \A n \in D : completed[group[n]].text = "text"
    BY DEF TextOf
  <1>7. Len(group) >= N /\ (Len(group) = N => \A n \in 1 .. N : completed[group[n]].text = "text")
    <2> HIDE DEF T, t
    <2>1. Len(group) = N => T = D
      BY ONLY <1>4, <1>5 DEF k
    <2> QED
      BY <1>5, <1>6, <2>1
  <1> QED
    BY ONLY <1>7 DEF FullIn

\* Two full groups together are larger than a group may be.
LEMMA FullJoined ==
    ASSUME NEW S, NEW s \in Seq(S), NEW t \in Seq(S), NEW all, FullIn(s, all), FullIn(t, all)
    PROVE  FullIn(s \o t, all)
  <1>1. N \in Nat \ {0}
    BY SizesAssumption
  <1>2. CASE s = <<>>
    <2>1. s \o t = t
      BY <1>2
    <2> QED
      BY <2>1
  <1>3. CASE t = <<>>
    <2>1. s \o t = s
      BY <1>3
    <2> QED
      BY <2>1
  <1>4. CASE s # <<>> /\ t # <<>>
    <2>1. Len(s) >= N /\ Len(t) >= N
      BY <1>4 DEF FullIn
    <2>2. Len(s) \in Nat /\ Len(t) \in Nat /\ Len(s \o t) = Len(s) + Len(t)
      BY ConcatProperties
    <2>3. Len(s \o t) > N
      BY ONLY <1>1, <2>1, <2>2
    <2>4. Len(s \o t) >= N /\ Len(s \o t) # N
      BY ONLY <1>1, <2>2, <2>3
    <2> QED
      BY ONLY <2>4 DEF FullIn
  <1> QED
    BY <1>2, <1>3, <1>4

LEMMA FullGrows ==
    ASSUME NEW f \in [Instances -> Seq(Nat)], NEW all, NEW all2, NEW top, NEW top2,
           Grows(all, all2, top, top2), GroupedIn(f, all, top), NEW i \in Instances,
           FullIn(f[i], all)
    PROVE  FullIn(f[i], all2)
  <1> DEFINE group == f[i]
  <1>1. group \in Seq(Nat) /\ \A n \in DOMAIN group : group[n] \in 1 .. top
    BY DEF GroupedIn
  <1> HIDE DEF group
  <1>2. \A n \in DOMAIN group : all2[group[n]] = all[group[n]]
    BY <1>1 DEF Grows
  <1>3. FullIn(group, all)
    BY DEF group
  <1>4. Len(group) = N => \A n \in 1 .. N : n \in DOMAIN group
    BY <1>1
  <1>5. FullIn(group, all2)
    BY ONLY <1>2, <1>3, <1>4 DEF FullIn
  <1> QED
    BY <1>5 DEF group

LEMMA FullNext ==
    ASSUME TypeInv, ContentsInv, FullInv, [Next]_vars
    PROVE  FullInv'
  <1> DEFINE Good(f) == \A i \in Instances : FullIn(f[i], completed)
             Good2(f) == \A i \in Instances : FullIn(f[i], completed')
  <1>1. /\ answer \in [Instances -> Seq(Nat)] /\ GroupedIn(answer, completed, posted) /\ Good(answer)
        /\ results \in [Instances -> Seq(Nat)] /\ GroupedIn(results, completed, posted) /\ Good(results)
    BY DEF ContentsInv, FullInv
  <1>2. ASSUME Good2(answer'), Good2(results') PROVE FullInv'
    BY <1>2 DEF FullInv, Instances, FullIn
  <1>3. Good2(answer) /\ Good2(results)
    BY <1>1, ItemsGrow, FullGrows
  <1>4. Good2(Empty)
    BY DEF Empty, FullIn
  <1>5. CASE UNCHANGED <<results, answer>>
    BY <1>2, <1>3, <1>5
  <1>6. CASE BeginTask \/ Post \/ PostFails \/ Write \/ Acknowledge \/ AcknowledgeFails
    BY <1>5, <1>6 DEF BeginTask, Post, PostFails, Write, Acknowledge, AcknowledgeFails, client
  <1>7. ASSUME NEW task, NEW text, EndTask(task, text) PROVE FullInv'
    BY <1>5, <1>7 DEF EndTask, client
  <1>8. CASE StartCall
    <2>1. results' = Empty /\ answer' = answer
      BY <1>8 DEF StartCall
    <2> HIDE DEF Good, Good2
    <2> QED
      BY <1>2, <1>3, <1>4, <2>1
  <1>9. CASE ServeFetch
    <2>1. /\ answer' = [i \in Instances |-> IF i \in ValidInstances THEN data[i] ELSE <<>>]
          /\ results' = results /\ completed' = completed
      BY <1>9 DEF ServeFetch, generator
    <2>2. \A i \in ValidInstances : FullIn(data[i], completed)
      BY ValidIsFull DEF ValidInstances, ContentsInv
    <2>3. FullIn(<<>>, completed)
      BY DEF FullIn
    <2>4. Good2(answer')
      BY <2>1, <2>2, <2>3
    <2> HIDE DEF Good, Good2
    <2> QED
      BY <1>2, <1>3, <2>1, <2>4
  <1>10. CASE Receive
    <2>1. /\ results' = [i \in Instances |-> results[i] \o answer[i]] /\ answer' = Empty
          /\ completed' = completed
      BY <1>10 DEF Receive, generator
    <2>2. \A i \in Instances : FullIn(results[i] \o answer[i], completed)
      BY <1>1, FullJoined
    <2>3. Good2(results')
      BY <2>1, <2>2
    <2> HIDE DEF Good, Good2
    <2> QED
      BY <1>2, <1>4, <2>1, <2>3
  <1>11. CASE FetchFails \/ Raise
    BY <1>5, <1>11 DEF FetchFails, Raise
  <1>12. CASE AnswerLost
    <2>1. answer' = Empty /\ results' = results
      BY <1>12 DEF AnswerLost
    <2> HIDE DEF Good, Good2
    <2> QED
      BY <1>2, <1>3, <1>4, <2>1
  <1>13. CASE ReturnBatch
    <2>1. results' = Empty /\ answer' = answer
      BY <1>13 DEF ReturnBatch
    <2> HIDE DEF Good, Good2
    <2> QED
      BY <1>2, <1>3, <1>4, <2>1
  <1>14. CASE UNCHANGED vars
    BY <1>5, <1>14 DEF vars, client
  <1> QED
    BY <1>6, <1>7, <1>8, <1>9, <1>10, <1>11, <1>12, <1>13, <1>14
       DEF Next, GeneratorStep, ClientStep, Done

\* The latest item of a prompt's group answers that prompt.
LEMMA LatestOf ==
    ASSUME TypeInv, ContentsInv, NEW i \in Found
    PROVE  Latest(i) \in Nat /\ completed[Latest(i)].instance = i
  <1> DEFINE s == results[i]
             S == ToSet(s)
  <1>1. s \in Seq(Nat) /\ s # <<>> /\ i \in Instances
    BY DEF ContentsInv, Found
  <1>2. \A n \in DOMAIN s : s[n] \in 1 .. posted /\ completed[s[n]].instance = i
    BY <1>1 DEF ContentsInv, GroupedIn
  <1>3. posted \in Nat
    BY DEF TypeInv
  <1> HIDE DEF s
  <1>4. \A x \in S : x \in Nat /\ x <= posted /\ completed[x].instance = i
    BY <1>2, <1>3 DEF ToSet
  <1>5. S \subseteq Nat /\ S # {}
    <2>1. 1 \in DOMAIN s
      BY <1>1
    <2> QED
      BY <1>4, <2>1 DEF ToSet
  <1> HIDE DEF S
  <1>6. \E m \in S : \A x \in S : x <= m
    BY ONLY <1>3, <1>4, <1>5, GreatestNatural
  <1>7. \E m \in S : \A x \in S : m >= x
    BY <1>4, <1>6
  <1>8. Max(S) \in S
    BY ONLY <1>7 DEF Max
  <1>9. Latest(i) = Max(S)
    BY DEF Latest, S, s
  <1> QED
    BY <1>4, <1>8, <1>9

\* As many groups are selected as are wanted; where fewer were found, all are.
LEMMA SelectedCount ==
    ASSUME TypeInv, ContentsInv
    PROVE  /\ IsFiniteSet(Selected) /\ Cardinality(Selected) \in Nat
           /\ Cardinality(Found) < BatchSize => Selected = Found
           /\ ~(Cardinality(Found) < BatchSize) => Cardinality(Selected) = BatchSize
  <1> DEFINE F == Cardinality(Found)
             B == BatchSize
             l == [j \in Found |-> Latest(j)]
  <1>1. B \in Nat \ {0} /\ NumInstances \in Nat
    BY SizesAssumption
  <1>2. IsFiniteSet(Instances)
    BY <1>1, FS_Interval DEF Instances
  <1>3. Found \in SUBSET Instances /\ IsFiniteSet(Found) /\ F \in Nat
    BY <1>2, FS_Subset, FS_CardinalityType DEF Found
  <1>4. Selected \in SUBSET Found
    BY DEF Selected
  <1>5. IsFiniteSet(Selected) /\ Cardinality(Selected) \in Nat
    BY <1>3, <1>4, FS_Subset, FS_CardinalityType
  <1>6. CASE F < B
    <2>1. \A i \in Found : LET S == {j \in Found : Latest(j) > Latest(i)}
                           IN  Cardinality(S) \in Nat /\ Cardinality(S) <= F
      BY <1>3, FS_Subset, FS_CardinalityType
    <2>2. \A i \in Found : Cardinality({j \in Found : Latest(j) > Latest(i)}) < B
      BY <1>1, <1>3, <1>6, <2>1
    <2>3. Selected = Found
      BY <2>2 DEF Selected
    <2> QED
      BY <1>5, <1>6, <2>3
  <1>7. CASE ~(F < B)
    <2>1. \A i \in Found : /\ Above(Found, l, i) = {j \in Found : Latest(j) > Latest(i)}
                           /\ Above(Found, l, i) \in SUBSET Found
      BY DEF Above
    <2>2. /\ \A i \in Found : l[i] \in Int
          /\ \A i, j \in Found : l[i] = l[j] => i = j
      BY LatestOf
    <2>3. Selected = {i \in Found : Cardinality(Above(Found, l, i)) < B}
      BY <2>1 DEF Selected
    <2> HIDE DEF l
    <2>4. B \in Nat /\ B <= Cardinality(Found)
      BY <1>1, <1>3, <1>7
    <2> HIDE DEF B
    <2>5. Cardinality({i \in Found : Cardinality(Above(Found, l, i)) < B}) = B
      BY ONLY <1>3, <2>2, <2>4, HighestRanked
    <2> QED
      BY <1>5, <1>7, <2>3, <2>5 DEF B
  <1> QED
    BY <1>6, <1>7

\* A call that ends with all the answers it wants has all the groups.
LEMMA EnoughSelected ==
    ASSUME TypeInv, ContentsInv, Accepted, ~(NumResults < Wanted)
    PROVE  Cardinality(Selected) = BatchSize
  <1> DEFINE L == [i \in Instances |-> Len(results[i])]
             F == Cardinality(Found)
             B == BatchSize
  <1>1. N \in Nat \ {0} /\ B \in Nat \ {0} /\ NumInstances \in Nat
    BY SizesAssumption
  <1>2. IsFiniteSet(Instances)
    BY <1>1, FS_Interval DEF Instances
  <1>3. Found \in SUBSET Instances /\ IsFiniteSet(Found) /\ F \in Nat
    BY <1>2, FS_Subset, FS_CardinalityType DEF Found
  <1>4. \A i \in Instances : L[i] \in Nat /\ (i \notin Found => L[i] = 0)
    BY DEF ContentsInv, Found
  <1>5. NumResults = SumFunctionOnSet(L, Instances)
    BY DEF NumResults
  <1>6. NumResults \in Nat
    <2> HIDE DEF L
    <2> QED
      BY ONLY <1>2, <1>4, <1>5, SumNat
  <1>7. NumResults >= Wanted /\ Wanted \in Nat /\ Wanted > 0
    <2>1. Wanted \in Nat /\ Wanted > 0
      BY ONLY <1>1, Z3 DEF Wanted
    <2> QED
      BY <1>6, <2>1
  <1>8. ASSUME NEW c \in Nat, \A i \in Found : L[i] <= c
        PROVE  NumResults <= F * c
    <2> HIDE DEF L
    <2>1. /\ \A i \in Instances : L[i] \in Nat
          /\ \A i \in Instances \ Found : L[i] = 0
      BY <1>4
    <2>2. SumFunctionOnSet(L, Instances) <= Cardinality(Found) * c
      BY ONLY <1>2, <1>3, <1>8, <2>1, SumAtMost
    <2> QED
      BY <1>5, <2>2
  <1>9. Found # {}
    <2> SUFFICES ASSUME Found = {} PROVE FALSE
      OBVIOUS
    <2>1. F = 0
      BY FS_EmptySet
    <2>2. NumResults <= F * 0
      BY <1>8
    <2>3. F * 0 = 0
      BY ONLY <2>1
    <2> QED
      BY ONLY <1>6, <1>7, <2>2, <2>3
  <1>10. CASE F < B
    <2>1. \A i \in Found : L[i] <= N
      BY <1>1, <1>3, <1>9, <1>10, SelectedCount DEF Accepted
    <2>2. NumResults <= F * N
      BY <1>1, <1>8, <2>1
    <2> DEFINE x == F * N
               y == B * N
    <2>3. x < y /\ x \in Nat /\ y \in Nat
      <3> HIDE DEF F, B
      <3> QED
        BY ONLY <1>1, <1>3, <1>10, Z3
    <2>4. NumResults >= y /\ NumResults <= x
      BY <1>7, <2>2 DEF Wanted
    <2> HIDE DEF x, y
    <2> QED
      BY ONLY <1>6, <2>3, <2>4
  <1> QED
    BY <1>10, SelectedCount

LEMMA SourceNext ==
    ASSUME TypeInv, ContentsInv, SourceInv, [Next]_vars
    PROVE  SourceInv'
  <1> USE DEF SourceInv
  <1>1. CASE ReturnBatch
    <2> DEFINE missing == sample_group_index .. sample_group_index' - 1
    <2>1. /\ sample_group_index' = sample_group_index + BatchSize - Cardinality(Selected)
          /\ unanswered' = Append(unanswered, missing)
      BY <1>1 DEF ReturnBatch
    <2>2. sample_group_index' \in Int
      BY <2>1, SelectedCount, SizesAssumption
    <2>3. missing \in SUBSET Int
      BY <2>2
    <2>4. retry_times' = retry_times
      BY <1>1 DEF ReturnBatch
    <2> HIDE DEF missing
    <2> QED
      BY <2>1, <2>2, <2>3, <2>4
  <1>2. CASE ~ReturnBatch
    <2>1. retry_times' \in {retry_times, 0, retry_times + 1}
      BY <1>2 DEF Next, GeneratorStep, ClientStep, Done, BeginTask, EndTask, Post, PostFails, Write,
             Acknowledge, AcknowledgeFails, StartCall, ServeFetch, Receive, FetchFails, AnswerLost, Raise,
             vars, client, Failed
    <2>2. UNCHANGED source
      BY <1>2 DEF Next, GeneratorStep, ClientStep, Done, BeginTask, EndTask, Post, PostFails, Write,
             Acknowledge, AcknowledgeFails, StartCall, ServeFetch, Receive, FetchFails, AnswerLost, Raise,
             vars, history
    <2> QED
      BY <2>1, <2>2 DEF source
  <1> QED
    BY <1>1, <1>2

\* What a group holds that is_valid_group accepted and that has N answers.
LEMMA SelectedGroup ==
    ASSUME TypeInv, ContentsInv, FullInv, ItemsHaveOneHome, Accepted, NEW i \in Selected
    PROVE  /\ IsInjective(results[i]) \/ ToSet(results[i]) \cap reposted # {}
           /\ \A item \in ToSet(results[i]) : completed[item] = [instance |-> i, text |-> "text"]
  <1> DEFINE s == results[i]
  <1>1. Len(s) = N
    BY DEF Accepted, Selected
  <1>2. s \in Seq(Nat) /\ i \in DOMAIN results /\ i \in Instances /\ s # <<>>
    BY DEF ContentsInv, Selected, Found
  <1>3. \A n \in DOMAIN s : s[n] \in 1 .. posted /\ completed[s[n]].instance = i
    BY <1>2 DEF ContentsInv, GroupedIn
  <1>4. FullIn(s, completed)
    BY <1>2 DEF FullInv
  <1>5. \A m, n \in DOMAIN s : s[m] = s[n] => m = n \/ s[m] \in reposted
    <2>1. Once(results, reposted)
      BY OneHomeIs
    <2> QED
      BY <1>2, <2>1 DEF Once
  <1> HIDE DEF s
  <1>6. IsInjective(s) \/ ToSet(s) \cap reposted # {}
    BY <1>5 DEF IsInjective, ToSet
  <1>7. ASSUME NEW n \in DOMAIN s PROVE completed[s[n]] = [instance |-> i, text |-> "text"]
    <2> DEFINE T == [instance : Instances, text : Texts]
               c == completed[s[n]]
    <2>1. n \in 1 .. N
      BY <1>1, <1>2
    <2>2. c \in T
      <3>1. completed \in Seq(T) /\ posted \in 0 .. Len(completed) /\ Len(completed) \in Nat
        BY DEF TypeInv
      <3>2. s[n] \in 1 .. Len(completed)
        BY <1>3, <3>1
      <3> HIDE DEF T
      <3> QED
        BY ONLY <3>1, <3>2, ElementOf DEF c
    <2>3. c.instance = i
      BY <1>3
    <2>4. c.text = "text"
      BY <1>1, <1>2, <1>4, <2>1 DEF FullIn
    <2> HIDE DEF c
    <2>5. c = [instance |-> i, text |-> "text"]
      BY ONLY <2>2, <2>3, <2>4
    <2> QED
      BY <2>5 DEF c
  <1>8. \A item \in ToSet(s) : completed[item] = [instance |-> i, text |-> "text"]
    BY <1>7 DEF ToSet
  <1> QED
    BY <1>6, <1>8 DEF s

LEMMA AnsweredNext ==
    ASSUME IInv, [Next]_vars
    PROVE  BatchAnswered
  <1> USE DEF IInv
  <1>1. CASE ReturnBatch
    <2> DEFINE sel == Restrict(results, Selected)
               missing == sample_group_index .. sample_group_index' - 1
               B == UNION {[S -> Seq(Nat)] : S \in SUBSET Instances}
               c == Cardinality(Selected)
    <2>1. /\ Fetched /\ Accepted
          /\ batches' = Append(batches, sel) /\ unanswered' = Append(unanswered, missing)
          /\ sample_group_index' = sample_group_index + BatchSize - c
          /\ discarded' = discarded \cup Held(Restrict(results, Found \ Selected))
      BY <1>1 DEF ReturnBatch
    <2>2. DOMAIN sel = Selected /\ \A i \in Selected : sel[i] = results[i]
      BY DEF Restrict
    <2>3. batches \in Seq(B) /\ sel \in B
      BY SelectedBatch DEF TypeInv
    <2>4. /\ sample_group_index \in Int /\ sample_group_index' \in Int
          /\ unanswered \in Seq(SUBSET Int) /\ missing \in SUBSET Int
      BY <2>1, SelectedCount, SizesAssumption DEF SourceInv
    <2>5. c \in Nat /\ c <= BatchSize /\ BatchSize \in Nat
      <3>1. c \in Nat /\ BatchSize \in Nat
        BY SelectedCount, SizesAssumption
      <3>2. Cardinality(Found) < BatchSize => c < BatchSize
        BY SelectedCount
      <3> QED
        BY <3>1, <3>2, SelectedCount
    <2>6. Cardinality(missing) = BatchSize - c
      <3>1. /\ sample_group_index' - 1 = sample_group_index + (BatchSize - c) - 1
            /\ BatchSize - c \in Nat
        BY <2>1, <2>4, <2>5
      <3> DEFINE a == sample_group_index
                 b == sample_group_index' - 1
                 k == BatchSize - c
      <3>2. a \in Int /\ b \in Int /\ k \in Nat /\ b = a + k - 1
        BY <2>4, <3>1
      <3>3. missing = a .. b
        OBVIOUS
      <3> HIDE DEF a, b, k, missing
      <3>4. Cardinality(a .. b) = IF a > b THEN 0 ELSE b - a + 1
        BY ONLY <3>2, FS_Interval
      <3>5. Cardinality(a .. b) = k
        BY ONLY <3>2, <3>4
      <3> QED
        BY <3>3, <3>5 DEF k
    <2>7. missing # {} => /\ retries # -1 /\ retry_times >= retries
                         /\ discarded' = discarded
      <3> SUFFICES ASSUME missing # {}
                   PROVE  retries # -1 /\ retry_times >= retries /\ discarded' = discarded
        OBVIOUS
      <3>1. c # BatchSize
        <4> SUFFICES ASSUME c = BatchSize PROVE FALSE
          OBVIOUS
        <4>1. sample_group_index' = sample_group_index
          BY <2>1, <2>4, <2>5
        <4> QED
          BY <2>4, <4>1
      <3>2. NumResults < Wanted
        BY <2>1, <3>1, EnoughSelected
      <3>3. retries # -1 /\ ~(retry_times < retries)
        BY <2>1, <3>2 DEF Fetched, Fetching
      <3>4. Found \ Selected = {}
        BY <3>1, SelectedCount
      <3>5. Held(Restrict(results, Found \ Selected)) = {}
        BY <3>4 DEF Held, Restrict
      <3> QED
        <4>1. retry_times >= retries
          <5>1. retry_times \in Int /\ retries \in Int
            BY DEF SourceInv, TypeInv
          <5> QED
            BY ONLY <3>3, <5>1
        <4>2. discarded' = discarded
          BY <2>1, <3>5
        <4> QED
          BY <3>3, <4>1, <4>2
    <2> HIDE DEF sel, missing, B
    <2>8. Last(batches') = sel /\ Last(unanswered') = missing
      BY ONLY <2>1, <2>3, <2>4, AppendProperties DEF Last
    <2>9. \A i \in DOMAIN sel :
            /\ IsInjective(sel[i]) \/ ToSet(sel[i]) \cap reposted # {}
            /\ \A item \in ToSet(sel[i]) : completed[item] = [instance |-> i, text |-> "text"]
      BY <2>1, <2>2, SelectedGroup
    <2> QED
      BY <2>2, <2>5, <2>6, <2>7, <2>8, <2>9 DEF BatchAnswered
  <1>2. CASE ~ReturnBatch
    <2>1. UNCHANGED batches
      BY <1>2 DEF Next, GeneratorStep, ClientStep, Done, BeginTask, EndTask, Post, PostFails, Write,
             Acknowledge, AcknowledgeFails, StartCall, ServeFetch, Receive, FetchFails, AnswerLost, Raise,
             vars, history, source
    <2> QED
      BY <2>1 DEF BatchAnswered
  <1> QED
    BY <1>1, <1>2
-----------------------------------------------------------------------------
(***************************************************************************)
(* The theorems.                                                           *)
(***************************************************************************)
LEMMA InvInit == Init => IInv
  <1> SUFFICES ASSUME Init PROVE IInv
    OBVIOUS
  <1>1. /\ retries \in Retries /\ next = 0 /\ working = {} /\ completed = <<>> /\ posted = 0
        /\ post = [state |-> "idle", attempt |-> 0] /\ data = Empty /\ pc = "idle" /\ results = Empty
        /\ answer = Empty /\ batches = <<>> /\ discarded = {} /\ lost = {} /\ reposted = {}
        /\ sample_group_index = 0 /\ unanswered = <<>> /\ retry_times = 0
    BY DEF Init
  <1>2. TypeInv
    <2>1. retries \in Int
      BY <1>1, SizesAssumption
    <2>2. Len(completed) = 0
      BY <1>1
    <2>3. /\ completed \in Seq([instance : Instances, text : Texts])
          /\ batches \in Seq(UNION {[S -> Seq(Nat)] : S \in SUBSET Instances})
      BY <1>1
    <2>4. post \in [state : {"idle", "sent", "written"}, attempt : 0 .. 2] /\ post.state = "idle"
      BY <1>1
    <2> QED
      BY <1>1, <2>1, <2>2, <2>3, <2>4 DEF TypeInv
  <1>3. ContentsInv
    BY <1>1, GroupedEmpty DEF ContentsInv
  <1>4. FullInv
    BY <1>1 DEF FullInv, FullIn, Empty
  <1>5. EmptyInv
    BY <1>1 DEF EmptyInv
  <1>6. ItemsHaveOneHome
    <2>1. Items = {} /\ Queued = {} /\ Sending = {} /\ Batched = {}
      BY <1>1 DEF Items, Queued, Sending, Batched
    <2>2. \A l \in 1 .. 8 : Homes[l] = {}
      BY <1>1, <2>1, NothingHeld, HomesAre
    <2>3. Cover(Homes, Items) /\ Apart(Homes, reposted)
      BY <2>1, <2>2, HomesAre DEF Cover, Apart
    <2>4. Once(data, reposted) /\ Once(answer, reposted) /\ Once(results, reposted)
      BY <1>1, OnceEmpty
    <2>5. BatchesApart(batches, reposted)
      BY <1>1 DEF BatchesApart
    <2> QED
      BY <2>3, <2>4, <2>5, OneHomeIs
  <1>7. SourceInv
    BY <1>1 DEF SourceInv
  <1> QED
    BY <1>2, <1>3, <1>4, <1>5, <1>6, <1>7 DEF IInv

LEMMA InvNext == IInv /\ [Next]_vars => IInv'
  BY TypeNext, ContentsNext, FullNext, EmptyNext, SourceNext, OneHomeNext DEF IInv

LEMMA Invariant == Spec => []IInv
  BY InvInit, InvNext, PTL DEF Spec

\* What is generated, posted, handed out, selected or lost is in one of these
\* places, and in no second one unless its acknowledgement was lost.
THEOREM OneHome == Spec => []ItemsHaveOneHome
  <1>1. IInv => ItemsHaveOneHome
    BY DEF IInv
  <1> QED
    BY <1>1, Invariant, PTL

\* What a call returns is as many groups as were asked for: those it fetched,
\* of answers with text, and unanswered prompts only when the retries are used
\* up before there are answers enough.
THEOREM AnsweredBatches == Spec => BatchIsAnswered
  <1>1. IInv /\ [Next]_vars => [BatchAnswered]_vars
    BY AnsweredNext
  <1> QED
    BY <1>1, Invariant, PTL DEF BatchIsAnswered, Spec
=============================================================================
