-------------------------- MODULE SyncRolloutProofs --------------------------
(***************************************************************************)
(* Theorems about SyncRollout, for every batch size, over-sampling, group  *)
(* size, capacity, data set, mode and bound.                               *)
(*                                                                         *)
(* The inductive invariant has four parts: where the groups are            *)
(* (Conserved), how many of them there are (Counted), how far the data set *)
(* was read (InOrder), and what a sample looks like at each point of its   *)
(* group's task (Progress).                                                *)
(***************************************************************************)
EXTENDS SyncRollout, Lemmas

HandedOut == 0 .. source.index - 1

\* Every group is in one place at most, and only groups that were handed out are.
Conserved ==
    /\ IsInjective(buffer) /\ IsInjective(collected)
    /\ pendings \cup data \cup ToSet(collected) \cup ToSet(buffer) \cup delivered \cup lost
          \subseteq HandedOut
    /\ pendings \cap (data \cup ToSet(collected) \cup ToSet(buffer) \cup delivered \cup lost) = {}
    /\ data \cap (ToSet(collected) \cup ToSet(buffer) \cup delivered \cup lost) = {}
    /\ ToSet(collected) \cap (ToSet(buffer) \cup delivered \cup lost) = {}
    /\ ToSet(buffer) \cap (delivered \cup lost) = {}
    /\ delivered \cap lost = {}

\* remaining_batch_size counts the groups that run or are in the batch.
Counted ==
    /\ Cardinality(data) <= RolloutBatchSize
    /\ pc \in {"fill", "wait"} =>
          /\ remaining_batch_size = Cardinality(pendings) + Cardinality(data)
          /\ Cardinality(data) < RolloutBatchSize
    /\ pc = "wait" => remaining_batch_size >= RolloutBatchSize
    /\ pc \in {"abort", "aborting", "drain"} => Cardinality(data) = RolloutBatchSize
    /\ pc = "idle" => pendings = {} /\ data = {} /\ remaining_batch_size = 0
    /\ pc # "drain" => collected = <<>>
    /\ aborted <=> pc \in {"abort", "aborting", "drain"}

-----------------------------------------------------------------------------
(***************************************************************************)
(* What the buffer's operations do to its groups.                          *)
(***************************************************************************)
Front1(s, p) == {s[k] : k \in 1 .. p}

\* Dropping the first p elements.
LEMMA DropFirst ==
    ASSUME NEW S, NEW s \in Seq(S), IsInjective(s), NEW p \in 0 .. Len(s)
    PROVE  LET t == SubSeq(s, p + 1, Len(s))
           IN  /\ t \in Seq(S) /\ IsInjective(t)
               /\ ToSet(t) = ToSet(s) \ Front1(s, p)
               /\ Front1(s, p) \subseteq ToSet(s)
               /\ IsFiniteSet(Front1(s, p)) /\ Cardinality(Front1(s, p)) = p
  <1> DEFINE t == SubSeq(s, p + 1, Len(s))
  <1>1. DOMAIN s = 1 .. Len(s) /\ Len(s) \in Nat
    OBVIOUS
  <1>2. \A i \in p + 1 .. Len(s) : s[i] \in S
    BY <1>1
  <1>3. /\ t \in Seq(S) /\ Len(t) = Len(s) - p
        /\ \A i \in 1 .. Len(s) - p : t[i] = s[p + i]
    <2>1. p + 1 \in Int /\ Len(s) \in Int
      BY <1>1
    <2>2. /\ t \in Seq(S)
          /\ Len(t) = IF p + 1 <= Len(s) THEN Len(s) - (p + 1) + 1 ELSE 0
          /\ \A i \in 1 .. Len(s) - (p + 1) + 1 : t[i] = s[(p + 1) + i - 1]
      <3> DEFINE m == p + 1
                 n == Len(s)
      <3>1. m \in Int /\ n \in Int /\ \A i \in m .. n : s[i] \in S
        BY <1>2, <2>1
      <3> HIDE DEF m, n
      <3>2. /\ SubSeq(s, m, n) \in Seq(S)
            /\ Len(SubSeq(s, m, n)) = IF m <= n THEN n - m + 1 ELSE 0
            /\ \A i \in 1 .. n - m + 1 : SubSeq(s, m, n)[i] = s[m + i - 1]
        BY ONLY <3>1, SubSeqProperties
      <3> QED
        BY <3>2 DEF m, n
    <2> HIDE DEF t
    <2>3. \A i \in 1 .. Len(s) - p : /\ i \in 1 .. Len(s) - (p + 1) + 1
                                    /\ (p + 1) + i - 1 = p + i
      BY <1>1
    <2>4. Len(t) = Len(s) - p
      <3> DEFINE L == Len(s)
      <3>1. L \in Nat /\ p \in 0 .. L
        BY <1>1
      <3>2. Len(t) = IF p + 1 <= L THEN L - (p + 1) + 1 ELSE 0
        BY <2>2
      <3> HIDE DEF L
      <3>3. Len(t) = L - p
        BY ONLY <3>1, <3>2
      <3> QED
        BY <3>3 DEF L
    <2>5. ASSUME NEW i \in 1 .. Len(s) - p PROVE t[i] = s[p + i]
      BY <2>2, <2>3
    <2> QED
      BY <2>2, <2>4, <2>5
  <1> HIDE DEF t
  <1>4. DOMAIN t = 1 .. Len(s) - p
    BY <1>3
  <1>5. IsInjective(t)
    <2> SUFFICES ASSUME NEW i \in 1 .. Len(s) - p, NEW j \in 1 .. Len(s) - p, s[p + i] = s[p + j]
                 PROVE  i = j
      BY <1>3, <1>4 DEF IsInjective
    <2>1. p + i \in DOMAIN s /\ p + j \in DOMAIN s
      BY <1>1
    <2>2. p + i = p + j
      BY <2>1 DEF IsInjective
    <2> QED
      BY <2>2
  <1>6. ToSet(t) = ToSet(s) \ Front1(s, p)
    <2>1. ASSUME NEW i \in 1 .. Len(s) - p
          PROVE  s[p + i] \in ToSet(s) \ Front1(s, p)
      <3>1. p + i \in DOMAIN s /\ \A k \in 1 .. p : k \in DOMAIN s /\ k # p + i
        BY <1>1
      <3> QED
        BY <3>1 DEF ToSet, Front1, IsInjective
    <2>2. ASSUME NEW i \in 1 .. Len(s), s[i] \notin Front1(s, p)
          PROVE  s[i] \in ToSet(t)
      <3>1. i - p \in 1 .. Len(s) - p /\ s[p + (i - p)] = s[i]
        BY <1>1, <2>2 DEF Front1
      <3> QED
        BY <1>3, <1>4, <3>1 DEF ToSet
    <2>3. ASSUME NEW x \in ToSet(t)
          PROVE  x \in ToSet(s) \ Front1(s, p)
      <3>1. PICK i \in 1 .. Len(s) - p : x = t[i]
        BY <1>4 DEF ToSet
      <3> QED
        BY <1>3, <2>1, <3>1
    <2>4. ASSUME NEW x \in ToSet(s) \ Front1(s, p)
          PROVE  x \in ToSet(t)
      <3>1. PICK i \in 1 .. Len(s) : x = s[i]
        BY <1>1 DEF ToSet
      <3> QED
        BY <2>2, <3>1
    <2> QED
      BY <2>3, <2>4
  <1>7. Front1(s, p) \subseteq ToSet(s)
    BY <1>1 DEF Front1, ToSet
  <1>8. IsFiniteSet(Front1(s, p)) /\ Cardinality(Front1(s, p)) = p
    <2> DEFINE f == [k \in 1 .. p |-> s[k]]
    <2>1. f \in Bijection(1 .. p, Front1(s, p))
      <3>1. f \in [1 .. p -> Front1(s, p)]
        BY DEF Front1
      <3>2. \A a, b \in 1 .. p : f[a] = f[b] => a = b
        BY <1>1 DEF IsInjective
      <3>3. \A y \in Front1(s, p) : \E a \in 1 .. p : f[a] = y
        BY DEF Front1
      <3> HIDE DEF f
      <3> QED
        BY <3>1, <3>2, <3>3, Fun_IsBij
    <2>2. IsFiniteSet(1 .. p) /\ Cardinality(1 .. p) = p
      BY <1>1, FS_Interval
    <2> QED
      BY <2>1, <2>2, FS_Bijection DEF ExistsBijection
  <1> QED
    BY <1>3, <1>5, <1>6, <1>7, <1>8 DEF t

\* Putting one sequence behind another.
LEMMA Joined ==
    ASSUME NEW S, NEW s \in Seq(S), NEW t \in Seq(S)
    PROVE  /\ s \o t \in Seq(S)
           /\ ToSet(s \o t) = ToSet(s) \cup ToSet(t)
           /\ IsInjective(s) /\ IsInjective(t) /\ ToSet(s) \cap ToSet(t) = {}
                 => IsInjective(s \o t)
  <1> DEFINE u == s \o t
  <1>1. /\ u \in Seq(S) /\ Len(u) = Len(s) + Len(t)
        /\ \A i \in 1 .. Len(s) + Len(t) : u[i] = IF i <= Len(s) THEN s[i] ELSE t[i - Len(s)]
    BY ConcatProperties
  <1>2. /\ DOMAIN s = 1 .. Len(s) /\ DOMAIN t = 1 .. Len(t) /\ DOMAIN u = 1 .. Len(s) + Len(t)
        /\ Len(s) \in Nat /\ Len(t) \in Nat
    BY <1>1
  <1> HIDE DEF u
  <1>3. ToSet(u) \subseteq ToSet(s) \cup ToSet(t)
    <2> SUFFICES ASSUME NEW i \in 1 .. Len(s) + Len(t)
                 PROVE  u[i] \in ToSet(s) \cup ToSet(t)
      BY <1>2 DEF ToSet
    <2>1. CASE i <= Len(s)
      BY <1>1, <1>2, <2>1 DEF ToSet
    <2>2. CASE ~(i <= Len(s))
      <3>1. i - Len(s) \in DOMAIN t /\ u[i] = t[i - Len(s)]
        BY <1>1, <1>2, <2>2
      <3> QED
        BY <3>1 DEF ToSet
    <2> QED
      BY <2>1, <2>2
  <1>4. ToSet(s) \cup ToSet(t) \subseteq ToSet(u)
    <2>1. ASSUME NEW i \in 1 .. Len(s) PROVE s[i] \in ToSet(u)
      <3>1. i \in 1 .. Len(s) + Len(t) /\ u[i] = s[i]
        BY <1>1, <1>2
      <3> QED
        BY <1>2, <3>1 DEF ToSet
    <2>2. ASSUME NEW i \in 1 .. Len(t) PROVE t[i] \in ToSet(u)
      <3>1. /\ Len(s) + i \in 1 .. Len(s) + Len(t) /\ ~(Len(s) + i <= Len(s))
            /\ (Len(s) + i) - Len(s) = i
        BY <1>2
      <3>2. u[Len(s) + i] = t[i]
        BY <1>1, <3>1
      <3> QED
        BY <1>2, <3>1, <3>2 DEF ToSet
    <2> QED
      BY <1>2, <2>1, <2>2 DEF ToSet
  <1>5. ASSUME IsInjective(s), IsInjective(t), ToSet(s) \cap ToSet(t) = {}
        PROVE  IsInjective(u)
    <2> SUFFICES ASSUME NEW i \in 1 .. Len(s) + Len(t), NEW j \in 1 .. Len(s) + Len(t), u[i] = u[j]
                 PROVE  i = j
      BY <1>2 DEF IsInjective
    <2>1. CASE i <= Len(s) /\ j <= Len(s)
      BY <1>1, <1>2, <1>5, <2>1 DEF IsInjective
    <2>2. CASE ~(i <= Len(s)) /\ ~(j <= Len(s))
      <3>1. i - Len(s) \in DOMAIN t /\ j - Len(s) \in DOMAIN t
        BY <1>2, <2>2
      <3>2. i - Len(s) = j - Len(s)
        BY <1>1, <1>5, <2>2, <3>1 DEF IsInjective
      <3> QED
        BY <1>2, <3>2
    <2>3. CASE i <= Len(s) /\ ~(j <= Len(s))
      <3>1. i \in DOMAIN s /\ j - Len(s) \in DOMAIN t
        BY <1>2, <2>3
      <3> QED
        BY <1>1, <1>5, <2>3, <3>1 DEF ToSet
    <2>4. CASE ~(i <= Len(s)) /\ j <= Len(s)
      <3>1. j \in DOMAIN s /\ i - Len(s) \in DOMAIN t
        BY <1>2, <2>4
      <3> QED
        BY <1>1, <1>5, <2>4, <3>1 DEF ToSet
    <2> QED
      BY <2>1, <2>2, <2>3, <2>4
  <1> QED
    BY <1>1, <1>3, <1>4, <1>5 DEF u

-----------------------------------------------------------------------------
(***************************************************************************)
(* The data source.                                                        *)
(***************************************************************************)
Cursor == Least(source.offset, dataset_size)

\* What is handed out next is the data set from the cursor on, then its
\* beginning, up to the end of the epoch that follows.
LEMMA PromptsFromCursor ==
    ASSUME TypeOK, NEW n \in Nat \ {0}
    PROVE  /\ Prompts(n) \in Seq(Nat \X Nat)
           /\ Len(Prompts(n)) = Least(n, 2 * dataset_size - Cursor)
           /\ \A k \in 1 .. Len(Prompts(n)) :
                 Prompts(n)[k] = IF Cursor + k - 1 < dataset_size
                                   THEN <<source.epoch, Cursor + k - 1>>
                                   ELSE <<source.epoch + 1, Cursor + k - 1 - dataset_size>>
  <1> DEFINE D == dataset_size
             rest == D - Cursor
             old == [k \in 1 .. Least(n, rest) |-> <<source.epoch, source.offset + k - 1>>]
             new == [k \in 1 .. Least(n - rest, D) |-> <<source.epoch + 1, k - 1>>]
  <1>1. /\ D \in Nat \ {0} /\ source.offset \in Nat /\ source.epoch \in Nat
        /\ Cursor \in 0 .. D /\ rest \in 0 .. D
    BY SizesAssumption DEF TypeOK, Cursor, Least
  <1>2. Prompts(n) = IF source.offset + n <= D THEN old ELSE old \o new
    BY DEF Prompts, Cursor
  <1>3. /\ Least(n, rest) \in Nat
        /\ old \in Seq(Nat \X Nat) /\ Len(old) = Least(n, rest)
        /\ \A k \in 1 .. Least(n, rest) : old[k] = <<source.epoch, source.offset + k - 1>>
    <2>1. Least(n, rest) \in Nat
      BY <1>1 DEF Least
    <2>2. \A k \in 1 .. Least(n, rest) : <<source.epoch, source.offset + k - 1>> \in Nat \X Nat
      BY <1>1, <2>1
    <2> QED
      BY <2>1, <2>2
  <1>4. CASE source.offset + n <= D
    <2>1. Cursor = source.offset /\ Least(n, rest) = n
      BY <1>1, <1>4 DEF Cursor, Least
    <2>2. n = Least(n, 2 * D - Cursor)
      BY <1>1, <1>4, <2>1 DEF Least
    <2>3. \A k \in 1 .. n : Cursor + k - 1 < D
      BY <1>1, <1>4, <2>1
    <2> HIDE DEF old
    <2> QED
      BY <1>1, <1>2, <1>3, <1>4, <2>1, <2>2, <2>3
  <1>5. CASE ~(source.offset + n <= D)
    <2>1. Least(n, rest) = rest /\ n - rest \in Nat \ {0}
      BY <1>1, <1>5 DEF Cursor, Least
    <2>2. Least(n - rest, D) \in Nat
      BY <1>1, <2>1 DEF Least
    <2>3. \A k \in 1 .. Least(n - rest, D) : <<source.epoch + 1, k - 1>> \in Nat \X Nat
      BY <1>1, <2>2
    <2>4. new \in Seq(Nat \X Nat) /\ Len(new) = Least(n - rest, D)
      BY <2>2, <2>3
    <2>5. \A k \in 1 .. Least(n - rest, D) : new[k] = <<source.epoch + 1, k - 1>>
      OBVIOUS
    <2>6. rest > 0 => Cursor = source.offset
      BY <1>1 DEF Cursor, Least
    <2>7. rest + Least(n - rest, D) = Least(n, 2 * D - Cursor)
      BY <1>1, <2>1 DEF Least
    <2> HIDE DEF old, new
    <2>8. /\ old \o new \in Seq(Nat \X Nat)
          /\ Len(old \o new) = rest + Least(n - rest, D)
          /\ \A k \in 1 .. rest + Least(n - rest, D) :
                (old \o new)[k] = IF k <= rest THEN old[k] ELSE new[k - rest]
      <3> DEFINE T == Nat \X Nat
      <3>1. old \in Seq(T) /\ new \in Seq(T)
        BY <1>3, <2>4
      <3> HIDE DEF T
      <3>2. /\ old \o new \in Seq(T)
            /\ Len(old \o new) = Len(old) + Len(new)
            /\ \A k \in 1 .. Len(old) + Len(new) :
                  (old \o new)[k] = IF k <= Len(old) THEN old[k] ELSE new[k - Len(old)]
        BY ONLY <3>1, ConcatProperties
      <3>3. Len(old) = rest /\ Len(new) = Least(n - rest, D)
        BY ONLY <1>3, <2>1, <2>4
      <3> HIDE DEF rest
      <3> QED
        BY ONLY <3>2, <3>3 DEF T
    <2>9. ASSUME NEW k \in 1 .. rest + Least(n - rest, D)
          PROVE  (old \o new)[k] = IF Cursor + k - 1 < D
                                     THEN <<source.epoch, Cursor + k - 1>>
                                     ELSE <<source.epoch + 1, Cursor + k - 1 - D>>
      <3>1. CASE k <= rest
        <4>0. k \in 1 .. rest /\ rest > 0
          BY <1>1, <2>2, <3>1
        <4>1. old[k] = <<source.epoch, source.offset + k - 1>> /\ Cursor = source.offset
          BY ONLY <1>3, <2>1, <2>6, <4>0
        <4>2. Cursor + k - 1 < D
          BY <1>1, <3>1
        <4> QED
          BY <2>8, <3>1, <4>1, <4>2
      <3>2. CASE ~(k <= rest)
        <4>1. k - rest \in 1 .. Least(n - rest, D)
          BY <1>1, <2>2, <3>2
        <4>2. new[k - rest] = <<source.epoch + 1, k - rest - 1>>
          BY <2>5, <4>1
        <4>3. ~(Cursor + k - 1 < D) /\ k - rest - 1 = Cursor + k - 1 - D
          BY <1>1, <3>2
        <4> QED
          BY <2>8, <3>2, <4>2, <4>3
      <3> QED
        BY <3>1, <3>2
    <2> QED
      BY <1>2, <1>5, <2>7, <2>8, <2>9
  <1> QED
    BY <1>4, <1>5
-----------------------------------------------------------------------------
(***************************************************************************)
(* Filling up: what is submitted.                                          *)
(***************************************************************************)
Popped == Least(Len(buffer), OverSamplingBatchSize)
Short == OverSamplingBatchSize - Popped
Fresh == IF Short = 0 THEN <<>> ELSE Prompts(Short)
Fetched == source.index .. source.index + Len(Fresh) - 1
Refill == Front1(buffer, Popped) \cup Fetched

LEMMA FillUnfolded ==
    ASSUME Fill
    PROVE  /\ pc = "fill" /\ remaining_batch_size < RolloutBatchSize
           /\ source.index + Len(Fresh) <= MaxGroups
           /\ buffer' = SubSeq(buffer, Popped + 1, Len(buffer))
           /\ handed' = handed \o Fresh
           /\ source' = IF Short = 0 THEN source ELSE
                 [offset |-> NewOffset(Short),
                  epoch |-> IF source.offset + Short <= dataset_size
                              THEN source.epoch ELSE source.epoch + 1,
                  index |-> source.index + Len(Fresh)]
           /\ pendings' = pendings \cup Refill
           /\ remaining_batch_size' = remaining_batch_size + Popped + Len(Fresh)
           /\ task' = [g \in Groups |-> IF g \in Refill THEN "new" ELSE task[g]]
           /\ UNCHANGED <<mode, dataset_size, pc, rollout_id, aborted, data, collected, call, sample,
                          delivered, lost, faults>>
  BY Zenon DEF Fill, Popped, Short, Fresh, Fetched, Refill, Front1, NewIndex, args, history

LEMMA FreshTyped ==
    ASSUME TypeOK
    PROVE  /\ Popped \in 0 .. Len(buffer) /\ Short \in Nat
           /\ Fresh \in Seq(Nat \X Nat) /\ Len(Fresh) \in Nat
           /\ Popped + Short = OverSamplingBatchSize
  <1>1. Len(buffer) \in Nat /\ OverSamplingBatchSize \in Nat \ {0}
    BY SizesAssumption DEF TypeOK
  <1>2. Popped \in 0 .. Len(buffer) /\ Short \in Nat /\ Popped + Short = OverSamplingBatchSize
    BY <1>1 DEF Popped, Short, Least
  <1>3. Fresh \in Seq(Nat \X Nat)
    <2>1. CASE Short = 0
      BY <2>1 DEF Fresh
    <2>2. CASE Short # 0
      <3>1. Short \in Nat \ {0}
        BY <1>2, <2>2
      <3> QED
        BY <2>2, <3>1, PromptsFromCursor DEF Fresh
    <2> QED
      BY <2>1, <2>2
  <1> QED
    BY <1>2, <1>3

LEMMA SourceTyped ==
    ASSUME TypeOK, Fill
    PROVE  /\ source' \in [offset : Nat, epoch : Nat, index : 0 .. MaxGroups]
           /\ source'.index = source.index + Len(Fresh)
           /\ handed' \in Seq(Nat \X Nat) /\ Len(handed') = source'.index
  <1>1. /\ source.offset \in Nat /\ source.epoch \in Nat /\ source.index \in 0 .. MaxGroups
        /\ source = [offset |-> source.offset, epoch |-> source.epoch, index |-> source.index]
        /\ handed \in Seq(Nat \X Nat) /\ Len(handed) = source.index
        /\ dataset_size \in Nat \ {0} /\ MaxGroups \in Nat
    BY SizesAssumption DEF TypeOK
  <1>2. source.index + Len(Fresh) <= MaxGroups /\ handed' = handed \o Fresh
    BY FillUnfolded
  <1>3. /\ handed' \in Seq(Nat \X Nat) /\ Len(handed') = source.index + Len(Fresh)
    <2> DEFINE T == Nat \X Nat
    <2>1. handed \in Seq(T) /\ Fresh \in Seq(T)
      BY <1>1, FreshTyped
    <2> HIDE DEF T
    <2>2. handed \o Fresh \in Seq(T) /\ Len(handed \o Fresh) = Len(handed) + Len(Fresh)
      BY ONLY <2>1, ConcatProperties
    <2> QED
      BY <1>1, <1>2, <2>2 DEF T
  <1>4. CASE Short = 0
    <2>1. source' = source
      BY <1>4, FillUnfolded
    <2>2. Len(Fresh) = 0
      BY <1>4 DEF Fresh
    <2> QED
      BY <1>1, <1>3, <2>1, <2>2
  <1>5. CASE Short # 0
    <2>1. source' = [offset |-> NewOffset(Short),
                     epoch |-> IF source.offset + Short <= dataset_size
                                 THEN source.epoch ELSE source.epoch + 1,
                     index |-> source.index + Len(Fresh)]
      BY <1>5, FillUnfolded
    <2>2. Short \in Nat \ {0}
      BY <1>5, FreshTyped
    <2>3. NewOffset(Short) \in Nat
      BY <1>1, <2>2 DEF NewOffset, Least
    <2>4. source.index + Len(Fresh) \in 0 .. MaxGroups
      BY <1>1, <1>2, FreshTyped
    <2> QED
      BY <1>1, <1>3, <2>1, <2>3, <2>4
  <1> QED
    BY <1>4, <1>5

\* What is submitted is new to the pipeline.
LEMMA RefillIsNew ==
    ASSUME TypeOK, Conserved, Fill
    PROVE  /\ IsFiniteSet(Refill) /\ Cardinality(Refill) = Popped + Len(Fresh)
           /\ Refill \cap (pendings \cup data \cup ToSet(collected) \cup delivered \cup lost) = {}
           /\ Refill \subseteq HandedOut' /\ HandedOut \subseteq HandedOut'
           /\ HandedOut' \subseteq Groups
           /\ buffer' \in Seq(Groups) /\ IsInjective(buffer')
           /\ ToSet(buffer') = ToSet(buffer) \ Refill
           /\ Front1(buffer, Popped) \subseteq ToSet(buffer)
  <1>1. /\ buffer \in Seq(Groups) /\ IsInjective(buffer) /\ ToSet(buffer) \subseteq HandedOut
        /\ Popped \in 0 .. Len(buffer) /\ Len(Fresh) \in Nat
        /\ source.index \in 0 .. MaxGroups /\ MaxGroups \in Nat
    BY FreshTyped, SizesAssumption DEF TypeOK, Conserved
  <1>2. /\ SubSeq(buffer, Popped + 1, Len(buffer)) \in Seq(Groups)
        /\ IsInjective(SubSeq(buffer, Popped + 1, Len(buffer)))
        /\ ToSet(SubSeq(buffer, Popped + 1, Len(buffer))) = ToSet(buffer) \ Front1(buffer, Popped)
        /\ Front1(buffer, Popped) \subseteq ToSet(buffer)
        /\ IsFiniteSet(Front1(buffer, Popped)) /\ Cardinality(Front1(buffer, Popped)) = Popped
    BY <1>1, DropFirst
  <1>3. Fetched \cap HandedOut = {}
    BY <1>1 DEF Fetched, HandedOut
  <1>4. IsFiniteSet(Fetched) /\ Cardinality(Fetched) = Len(Fresh)
    <2> DEFINE a == source.index
               b == source.index + Len(Fresh) - 1
    <2>1. a \in Int /\ b \in Int /\ Len(Fresh) = IF a > b THEN 0 ELSE b - a + 1
      BY <1>1
    <2> HIDE DEF a, b
    <2>2. IsFiniteSet(a .. b) /\ Cardinality(a .. b) = IF a > b THEN 0 ELSE b - a + 1
      BY ONLY <2>1, FS_Interval
    <2> QED
      BY <2>1, <2>2 DEF Fetched, a, b
  <1>5. IsFiniteSet(Refill) /\ Cardinality(Refill) = Popped + Len(Fresh)
    <2>1. Front1(buffer, Popped) \cap Fetched = {}
      BY <1>1, <1>2, <1>3
    <2>2. Cardinality(Front1(buffer, Popped) \cap Fetched) = 0
      BY <2>1, FS_EmptySet
    <2>3. /\ IsFiniteSet(Refill)
          /\ Cardinality(Refill) = Cardinality(Front1(buffer, Popped)) + Cardinality(Fetched)
                                      - Cardinality(Front1(buffer, Popped) \cap Fetched)
      BY <1>2, <1>4, FS_Union DEF Refill
    <2> QED
      BY <1>1, <1>2, <1>4, <2>2, <2>3
  <1>6. source'.index = source.index + Len(Fresh) /\ source.index + Len(Fresh) <= MaxGroups
    BY SourceTyped, FillUnfolded
  <1>7. /\ HandedOut \subseteq HandedOut' /\ Fetched \subseteq HandedOut' /\ HandedOut' \subseteq Groups
    BY <1>1, <1>6 DEF HandedOut, Fetched, Groups
  <1>8. buffer' = SubSeq(buffer, Popped + 1, Len(buffer))
    BY FillUnfolded
  <1> QED
    BY <1>1, <1>2, <1>3, <1>5, <1>7, <1>8 DEF Conserved, Refill
-----------------------------------------------------------------------------
(***************************************************************************)
(* Type correctness                                                        *)
(***************************************************************************)
LEMMA GroupsFinite ==
    /\ IsFiniteSet(Groups)
    /\ \A S \in SUBSET Groups : IsFiniteSet(S) /\ Cardinality(S) \in Nat
  <1>1. IsFiniteSet(Groups)
    BY SizesAssumption, FS_Interval DEF Groups
  <1> QED
    BY <1>1, FS_Subset, FS_CardinalityType

LEMMA InitTypeOK == Init => TypeOK
  <1> SUFFICES ASSUME Init PROVE TypeOK
    OBVIOUS
  <1>1. NewSample \in SampleType
    BY DEF NewSample, SampleType, Statuses
  <1>2. sample \in [Groups -> [Members -> SampleType]]
    BY <1>1 DEF Init
  <1>3. collected \in Seq(Groups) /\ buffer \in Seq(Groups) /\ handed \in Seq(Nat \X Nat)
    BY DEF Init
  <1>4. source \in [offset : Nat, epoch : Nat, index : 0 .. MaxGroups] /\ Len(handed) = source.index
    BY SizesAssumption DEF Init
  <1> QED
    BY <1>2, <1>3, <1>4 DEF Init, TypeOK

\* Those the filter drops are counted as running.
LEMMA DropsAreCounted ==
    ASSUME TypeOK, Counted, pc = "wait", NEW kept \in SUBSET Finished
    PROVE  /\ remaining_batch_size - NoLongerCounted(kept) \in Nat
           /\ remaining_batch_size - NoLongerCounted(kept)
                = Cardinality(pendings \ Finished) + Cardinality(kept) + Cardinality(data)
           /\ Cardinality(Finished \ kept) \in Nat /\ Cardinality(kept) \in Nat
           /\ Cardinality(pendings \ Finished) \in Nat
  <1>1. /\ pendings \subseteq Groups /\ data \subseteq Groups
        /\ Finished \subseteq pendings /\ kept \subseteq Finished
    BY DEF TypeOK, Finished
  <1>2. /\ IsFiniteSet(pendings) /\ IsFiniteSet(Finished) /\ IsFiniteSet(kept)
        /\ IsFiniteSet(pendings \ Finished) /\ IsFiniteSet(Finished \ kept)
        /\ Cardinality(data) \in Nat
    BY <1>1, GroupsFinite
  <1>3. /\ Cardinality(pendings) \in Nat /\ Cardinality(Finished) \in Nat /\ Cardinality(kept) \in Nat
        /\ Cardinality(pendings \ Finished) \in Nat /\ Cardinality(Finished \ kept) \in Nat
    BY <1>2, FS_CardinalityType
  <1>4. Cardinality(Finished \ kept) = Cardinality(Finished) - Cardinality(Finished \cap kept)
    BY <1>2, FS_Difference
  <1>5. Cardinality(pendings \ Finished) = Cardinality(pendings) - Cardinality(pendings \cap Finished)
    BY <1>2, FS_Difference
  <1>6. Finished \cap kept = kept /\ pendings \cap Finished = Finished
    BY <1>1
  <1>7. remaining_batch_size = Cardinality(pendings) + Cardinality(data)
    BY DEF Counted
  <1>8. Cardinality(Finished \ kept) = Cardinality(Finished) - Cardinality(kept)
    BY <1>4, <1>6
  <1>9. Cardinality(pendings \ Finished) = Cardinality(pendings) - Cardinality(Finished)
    BY <1>5, <1>6
  <1>10. NoLongerCounted(kept) = Cardinality(Finished \ kept)
    BY DEF NoLongerCounted
  <1> QED
    BY <1>2, <1>3, <1>7, <1>8, <1>9, <1>10

\* What a step does to the tasks and their calls.
LEMMA TasksTyped ==
    ASSUME TypeOK, NEW g \in Groups
    PROVE  /\ \A t \in {"none", "new", "run", "reward", "done"} :
                 [task EXCEPT ![g] = t] \in [Groups -> {"none", "new", "run", "reward", "done"}]
           /\ \A i \in Members, c \in {"none", "queue", "sent", "served", "reward", "back"} :
                 [call EXCEPT ![g][i] = c]
                   \in [Groups -> [Members -> {"none", "queue", "sent", "served", "reward", "back"}]]
           /\ \A i \in Members, s \in SampleType :
                 [sample EXCEPT ![g][i] = s] \in [Groups -> [Members -> SampleType]]
           /\ \A m \in [Members -> SampleType] :
                 [sample EXCEPT ![g] = m] \in [Groups -> [Members -> SampleType]]
           /\ \A i \in Members : sample[g][i] \in SampleType
  BY DEF TypeOK

LEMMA ForgetTyped ==
    ASSUME TypeOK, NEW S, Forget(S)
    PROVE  /\ task' \in [Groups -> {"none", "new", "run", "reward", "done"}]
           /\ call' \in [Groups -> [Members -> {"none", "queue", "sent", "served", "reward", "back"}]]
  BY DEF TypeOK, Forget

LEMMA SamplesTyped ==
    /\ NewSample \in SampleType
    /\ \A s \in SampleType : Stamp(s) \in SampleType \/ rollout_id \notin Nat
    /\ \A s \in SampleType : Mask(s) \in SampleType
    /\ \A s \in SampleType, st \in Statuses : [s EXCEPT !.status = st] \in SampleType
    /\ \A s \in SampleType : [s EXCEPT !.reward = TRUE] \in SampleType
    /\ \A s \in SampleType, st \in Statuses :
          rollout_id \in Nat =>
             [s EXCEPT !.status = st, !.response = Append(@, Segment)] \in SampleType
  <1>1. NewSample \in SampleType
    BY DEF NewSample, SampleType, Statuses
  <1>2. \A s \in SampleType : Stamp(s) \in SampleType \/ rollout_id \notin Nat
    BY DEF Stamp, SampleType
  <1>3. \A s \in SampleType : Mask(s) \in SampleType
    <2> SUFFICES ASSUME NEW s \in SampleType PROVE Mask(s) \in SampleType
      OBVIOUS
    <2> DEFINE r == s.response
               m == [k \in 1 .. Len(r) |-> [r[k] EXCEPT !.mask = 0]]
    <2>1. r \in Seq([by : Nat, mask : {0, 1}])
      BY DEF SampleType
    <2>2. m \in Seq([by : Nat, mask : {0, 1}])
      <3>1. \A x \in [by : Nat, mask : {0, 1}] : [x EXCEPT !.mask = 0] \in [by : Nat, mask : {0, 1}]
        OBVIOUS
      <3> HIDE DEF r
      <3>2. Len(r) \in Nat /\ \A k \in 1 .. Len(r) : r[k] \in [by : Nat, mask : {0, 1}]
        BY ONLY <2>1, ElementOfSeq, LenProperties
      <3>3. \A k \in 1 .. Len(r) : [r[k] EXCEPT !.mask = 0] \in [by : Nat, mask : {0, 1}]
        BY <3>1, <3>2
      <3>4. m \in [1 .. Len(r) -> [by : Nat, mask : {0, 1}]]
        BY <3>3
      <3>5. Len(r) \in Nat
        BY <3>2
      <3> HIDE DEF m
      <3> QED
        BY ONLY <3>4, <3>5, SeqDef
    <2>3. Mask(s) = [s EXCEPT !.response = m]
      BY DEF Mask
    <2> HIDE DEF m, r
    <2> QED
      BY <2>2, <2>3 DEF SampleType
  <1>4. \A s \in SampleType, st \in Statuses : [s EXCEPT !.status = st] \in SampleType
    BY DEF SampleType
  <1>5. \A s \in SampleType : [s EXCEPT !.reward = TRUE] \in SampleType
    BY DEF SampleType
  <1>6. \A s \in SampleType, st \in Statuses :
          rollout_id \in Nat =>
             [s EXCEPT !.status = st, !.response = Append(@, Segment)] \in SampleType
    <2> SUFFICES ASSUME NEW s \in SampleType, NEW st \in Statuses, rollout_id \in Nat
                 PROVE  [s EXCEPT !.status = st, !.response = Append(@, Segment)] \in SampleType
      OBVIOUS
    <2>1. Segment \in [by : Nat, mask : {0, 1}]
      BY DEF Segment
    <2>2. Append(s.response, Segment) \in Seq([by : Nat, mask : {0, 1}])
      <3>1. s.response \in Seq([by : Nat, mask : {0, 1}])
        BY DEF SampleType
      <3> QED
        BY <2>1, <3>1, AppendProperties
    <2> QED
      BY <2>2 DEF SampleType
  <1> QED
    BY <1>1, <1>2, <1>3, <1>4, <1>5, <1>6

\* What a step of a call makes of its sample.
LEMMA CallSteps ==
    ASSUME TypeOK, NEW g \in Groups, NEW i \in Members
    PROVE  /\ Acquire(g, i) => \/ UNCHANGED sample
                               \/ sample' = [sample EXCEPT ![g][i] = [sample[g][i] EXCEPT !.status = "ABORTED"]]
           /\ Arrive(g, i) => UNCHANGED sample
           /\ Answer(g, i) => sample' = [sample EXCEPT ![g][i] =
                 [sample[g][i] EXCEPT !.status = "COMPLETED", !.response = Append(@, Segment)]]
           /\ Reward(g, i) => sample' = [sample EXCEPT ![g][i] = [sample[g][i] EXCEPT !.reward = TRUE]]
  <1>1. /\ sample \in [Groups -> [Members -> SampleType]] /\ sample[g][i] \in SampleType
    BY DEF TypeOK
  <1>2. /\ [sample EXCEPT ![g][i].status = "ABORTED"]
              = [sample EXCEPT ![g][i] = [sample[g][i] EXCEPT !.status = "ABORTED"]]
        /\ [sample EXCEPT ![g][i].reward = TRUE]
              = [sample EXCEPT ![g][i] = [sample[g][i] EXCEPT !.reward = TRUE]]
        /\ [sample EXCEPT ![g][i].status = "COMPLETED", ![g][i].response = Append(@, Segment)]
              = [sample EXCEPT ![g][i] =
                   [sample[g][i] EXCEPT !.status = "COMPLETED", !.response = Append(@, Segment)]]
    BY <1>1 DEF SampleType
  <1> QED
    BY <1>2 DEF Acquire, Arrive, Answer, Reward

\* Every step keeps the types.
LEMMA NextTypeOK == TypeOK /\ Conserved /\ Counted /\ [Next]_vars => TypeOK'
  <1> SUFFICES ASSUME TypeOK, Conserved, Counted, [Next]_vars PROVE TypeOK'
    OBVIOUS
  <1> USE DEF args, store, tasks, history
  <1>1. CASE StartRollout
    BY <1>1 DEF StartRollout, TypeOK
  <1>2. CASE Fill
    <2>1. /\ pendings' = pendings \cup Refill
          /\ remaining_batch_size' = remaining_batch_size + Popped + Len(Fresh)
          /\ task' = [g \in Groups |-> IF g \in Refill THEN "new" ELSE task[g]]
          /\ UNCHANGED <<mode, dataset_size, pc, rollout_id, aborted, data, collected, call, sample,
                         delivered, lost, faults>>
      BY <1>2, FillUnfolded
    <2>2. pendings' \subseteq Groups /\ buffer' \in Seq(Groups)
      BY <1>2, <2>1, RefillIsNew DEF TypeOK
    <2>3. remaining_batch_size' \in Nat
      <3>1. remaining_batch_size \in Nat /\ Popped \in Nat /\ Len(Fresh) \in Nat
        <4>1. Len(buffer) \in Nat /\ Popped \in 0 .. Len(buffer)
          BY FreshTyped DEF TypeOK
        <4> QED
          BY <4>1, FreshTyped DEF TypeOK
      <3> HIDE DEF Popped, Fresh
      <3> QED
        BY <2>1, <3>1
    <2>4. task' \in [Groups -> {"none", "new", "run", "reward", "done"}]
      BY <2>1 DEF TypeOK
    <2>5. /\ source' \in [offset : Nat, epoch : Nat, index : 0 .. MaxGroups]
          /\ handed' \in Seq(Nat \X Nat) /\ Len(handed') = source'.index
      BY <1>2, SourceTyped
    <2> QED
      BY <2>1, <2>2, <2>3, <2>4, <2>5 DEF TypeOK
  <1>3. CASE Filled
    BY <1>3 DEF Filled, TypeOK
  <1>4. CASE Collect
    <2> PICK kept \in SUBSET Finished, taken \in SUBSET Finished :
          /\ taken \subseteq kept
          /\ faults' = [faults EXCEPT !.drops = @ + Cardinality(Finished \ kept)]
          /\ data' = data \cup taken
          /\ pendings' = pendings \ Finished
          /\ remaining_batch_size' = remaining_batch_size - NoLongerCounted(kept)
          /\ lost' = lost \cup (Finished \ taken)
          /\ Forget(Finished)
          /\ sample' = [g \in Groups |-> IF g \in Finished \ taken
                                           THEN [i \in Members |-> NewSample] ELSE sample[g]]
          /\ pc' \in {"abort", "fill", "wait"} /\ aborted' \in {TRUE, aborted}
      BY <1>4 DEF Collect
    <2>1. pc = "wait" /\ UNCHANGED <<args, rollout_id, collected, store, delivered>>
      BY <1>4 DEF Collect
    <2>2. remaining_batch_size' \in Nat /\ Cardinality(Finished \ kept) \in Nat
      BY <2>1, DropsAreCounted
    <2>3. faults' \in [drops : Nat, lost : Nat]
      <3>1. faults \in [drops : Nat, lost : Nat] /\ faults.drops + Cardinality(Finished \ kept) \in Nat
        BY <2>2 DEF TypeOK
      <3>2. faults' = [faults EXCEPT !.drops = faults.drops + Cardinality(Finished \ kept)]
        OBVIOUS
      <3> QED
        BY ONLY <3>1, <3>2
    <2>4. Finished \subseteq Groups
      BY DEF Finished, TypeOK
    <2>5. sample' \in [Groups -> [Members -> SampleType]]
      BY SamplesTyped DEF TypeOK
    <2> QED
      BY <2>1, <2>2, <2>3, <2>4, <2>5, ForgetTyped DEF TypeOK
  <1>5. CASE AbortRequests
    <2> PICK some \in SUBSET Served :
          sample' = [g \in Groups |-> [i \in Members |->
            IF <<g, i>> \notin Served THEN sample[g][i]
            ELSE [sample[g][i] EXCEPT !.status = "ABORTED",
                    !.response = IF <<g, i>> \in some THEN Append(@, Segment) ELSE @]]]
      BY <1>5 DEF AbortRequests
    <2>1. sample' \in [Groups -> [Members -> SampleType]]
      <3> SUFFICES ASSUME NEW g \in Groups, NEW i \in Members
                   PROVE  [sample[g][i] EXCEPT !.status = "ABORTED",
                             !.response = IF <<g, i>> \in some THEN Append(@, Segment) ELSE @]
                            \in SampleType
        <4>1. ASSUME NEW g \in Groups, NEW i \in Members
              PROVE  sample[g][i] \in SampleType
          BY TasksTyped
        <4> QED
          BY <4>1
      <3>0. sample[g][i] \in SampleType
        BY TasksTyped
      <3>1. sample[g][i] \in SampleType /\ rollout_id \in Nat /\ "ABORTED" \in Statuses
        BY <3>0 DEF TypeOK, Statuses
      <3>2. CASE <<g, i>> \in some
        BY <3>1, <3>2, SamplesTyped
      <3>3. CASE <<g, i>> \notin some
        BY <3>1, <3>3, SamplesTyped DEF SampleType
      <3> QED
        BY <3>2, <3>3
    <2>2. call' \in [Groups -> [Members -> {"none", "queue", "sent", "served", "reward", "back"}]]
      <3>1. call' = [g \in Groups |-> [i \in Members |->
                        IF <<g, i>> \in Served THEN "back" ELSE call[g][i]]]
        BY <1>5 DEF AbortRequests
      <3>2. call \in [Groups -> [Members -> {"none", "queue", "sent", "served", "reward", "back"}]]
        BY DEF TypeOK
      <3> QED
        BY <3>1, <3>2
    <2>3. pc' = "aborting" /\ UNCHANGED <<args, rollout_id, aborted, pendings, remaining_batch_size,
                                          data, collected, store, task, history, faults>>
      BY <1>5 DEF AbortRequests
    <2> QED
      BY ONLY TypeOK, <2>1, <2>2, <2>3 DEF TypeOK, args, store, history
  <1>6. CASE ServersIdle
    BY <1>6 DEF ServersIdle, TypeOK
  <1>7. ASSUME NEW g \in Groups, Drain(g)
        PROVE  TypeOK'
    <2>1. /\ Forget({g}) /\ pendings' = pendings \ {g}
          /\ UNCHANGED <<args, pc, rollout_id, aborted, remaining_batch_size, data, store,
                         delivered, faults>>
      BY <1>7 DEF Drain
    <2>2. CASE mode.partial
      <3>1. /\ collected' = Append(collected, g) /\ UNCHANGED lost
            /\ sample' = [sample EXCEPT ![g] = [i \in Members |-> Stamp(sample[g][i])]]
        BY <1>7, <2>2 DEF Drain
      <3>2. collected' \in Seq(Groups)
        BY <3>1, AppendProperties DEF TypeOK
      <3>3. \A i \in Members : Stamp(sample[g][i]) \in SampleType
        <4>1. \A i \in Members : sample[g][i] \in SampleType
          BY TasksTyped
        <4>2. rollout_id \in Nat
          BY DEF TypeOK
        <4> QED
          BY ONLY <4>1, <4>2, SamplesTyped
      <3>4. sample' \in [Groups -> [Members -> SampleType]]
        BY <3>1, <3>3, TasksTyped
      <3> QED
        BY <2>1, <3>1, <3>2, <3>4, ForgetTyped DEF TypeOK
    <2>3. CASE ~mode.partial
      <3>1. /\ UNCHANGED collected /\ lost' = lost \cup {g}
            /\ sample' = [sample EXCEPT ![g] = [i \in Members |-> NewSample]]
        BY <1>7, <2>3 DEF Drain
      <3>2. sample' \in [Groups -> [Members -> SampleType]]
        BY <3>1, SamplesTyped, TasksTyped
      <3> QED
        BY <2>1, <3>1, <3>2, ForgetTyped DEF TypeOK
    <2> QED
      BY <2>2, <2>3
  <1>8. CASE Return
    <2>1. buffer' \in Seq(Groups) /\ collected' \in Seq(Groups)
      BY <1>8, Joined DEF Return, TypeOK
    <2>2. sample' \in [Groups -> [Members -> SampleType]]
      BY <1>8, SamplesTyped DEF Return, TypeOK
    <2>3. /\ pc' = "idle" /\ rollout_id' = rollout_id + 1 /\ delivered' = delivered \cup data
          /\ data' = {} /\ remaining_batch_size' = 0 /\ aborted' = FALSE
          /\ UNCHANGED <<mode, dataset_size, pendings, source, handed, task, call, lost, faults>>
      BY <1>8 DEF Return, Reset
    <2>4. /\ rollout_id' \in Nat /\ data' \subseteq Groups /\ delivered' \subseteq Groups
          /\ remaining_batch_size' \in Nat
      BY <2>3 DEF TypeOK
    <2> QED
      BY ONLY TypeOK, <2>1, <2>2, <2>3, <2>4 DEF TypeOK
  <1>9. CASE AbortFails \/ LoadUnknown
    <2>1. /\ pc' \in {"aborting", "drain"} /\ faults' = [faults EXCEPT !.lost = @ + 1]
          /\ UNCHANGED <<args, rollout_id, aborted, pendings, remaining_batch_size, data, collected,
                         store, tasks, history>>
      BY <1>9 DEF AbortFails, LoadUnknown
    <2>2. faults' \in [drops : Nat, lost : Nat]
      <3>1. faults \in [drops : Nat, lost : Nat]
        BY DEF TypeOK
      <3> QED
        BY <2>1, <3>1
    <2> QED
      BY ONLY TypeOK, <2>1, <2>2 DEF TypeOK, args, store, tasks, history
  <1>10. ASSUME NEW g \in Groups, StartTask(g)
         PROVE  TypeOK'
    <2>1. UNCHANGED <<args, driver, store, history, faults>>
      BY <1>10 DEF StartTask
    <2>2. task' \in [Groups -> {"none", "new", "run", "reward", "done"}]
      <3>1. task' = [task EXCEPT ![g] = "done"] \/ task' = [task EXCEPT ![g] = "run"]
        BY <1>10 DEF StartTask
      <3> QED
        BY <3>1, TasksTyped
    <2>3. call' \in [Groups -> [Members -> {"none", "queue", "sent", "served", "reward", "back"}]]
      <3> DEFINE c == [i \in Members |->
                          IF sample[g][i].status = "COMPLETED" THEN "back" ELSE "queue"]
      <3>1. call' = call \/ call' = [call EXCEPT ![g] = c]
        BY <1>10 DEF StartTask
      <3>2. c \in [Members -> {"none", "queue", "sent", "served", "reward", "back"}]
        OBVIOUS
      <3> HIDE DEF c
      <3>3. call \in [Groups -> [Members -> {"none", "queue", "sent", "served", "reward", "back"}]]
        BY DEF TypeOK
      <3> QED
        BY ONLY <3>1, <3>2, <3>3
    <2>4. sample' \in [Groups -> [Members -> SampleType]]
      <3> DEFINE m == [i \in Members |-> Mask(sample[g][i])]
      <3>1. sample' = sample \/ sample' = [sample EXCEPT ![g] = m]
        BY <1>10 DEF StartTask
      <3>2. \A i \in Members : sample[g][i] \in SampleType
        BY TasksTyped
      <3>3. m \in [Members -> SampleType]
        BY ONLY <3>2, SamplesTyped
      <3> HIDE DEF m
      <3>4. sample \in [Groups -> [Members -> SampleType]]
        BY DEF TypeOK
      <3> QED
        BY ONLY <3>1, <3>3, <3>4
    <2> QED
      BY <2>1, <2>2, <2>3, <2>4 DEF TypeOK, driver
  <1>11. ASSUME NEW g \in Groups, EndTask(g)
         PROVE  TypeOK'
    <2>1. /\ UNCHANGED <<args, driver, store, call, sample, history, faults>>
          /\ task' = [task EXCEPT ![g] = "reward"] \/ task' = [task EXCEPT ![g] = "done"]
      BY <1>11 DEF EndTask
    <2>2. task' \in [Groups -> {"none", "new", "run", "reward", "done"}]
      BY <2>1, TasksTyped
    <2> QED
      BY <2>1, <2>2 DEF TypeOK, driver
  <1>12. ASSUME NEW g \in Groups, RewardGroup(g)
         PROVE  TypeOK'
    <2> DEFINE m == [i \in Members |-> [sample[g][i] EXCEPT !.reward = TRUE]]
    <2>1. /\ UNCHANGED <<args, driver, store, call, history, faults>>
          /\ task' = [task EXCEPT ![g] = "done"]
          /\ sample' = [sample EXCEPT ![g] = m]
      BY <1>12 DEF RewardGroup
    <2>2. m \in [Members -> SampleType]
      <3>1. \A i \in Members : sample[g][i] \in SampleType
        BY TasksTyped
      <3> QED
        BY ONLY <3>1, SamplesTyped
    <2> HIDE DEF m
    <2>3. /\ task' \in [Groups -> {"none", "new", "run", "reward", "done"}]
          /\ sample' \in [Groups -> [Members -> SampleType]]
      BY <2>1, <2>2, TasksTyped
    <2> QED
      BY <2>1, <2>3 DEF TypeOK, driver
  <1>13. ASSUME NEW g \in Groups, NEW i \in Members,
                Acquire(g, i) \/ Arrive(g, i) \/ Answer(g, i) \/ Reward(g, i)
         PROVE  TypeOK'
    <2>1. UNCHANGED <<args, driver, store, task, history, faults>>
      BY <1>13 DEF Acquire, Arrive, Answer, Reward
    <2>2. call' \in [Groups -> [Members -> {"none", "queue", "sent", "served", "reward", "back"}]]
      <3>1. PICK c \in {"sent", "served", "reward", "back"} : call' = [call EXCEPT ![g][i] = c]
        BY <1>13 DEF Acquire, Arrive, Answer, Reward
      <3>2. c \in {"none", "queue", "sent", "served", "reward", "back"}
        OBVIOUS
      <3> QED
        BY ONLY TypeOK, <3>1, <3>2, TasksTyped
    <2>3. /\ sample[g][i] \in SampleType /\ "ABORTED" \in Statuses /\ "COMPLETED" \in Statuses
          /\ rollout_id \in Nat
      BY TasksTyped DEF TypeOK, Statuses
    <2>4. \/ sample' = sample
          \/ sample' = [sample EXCEPT ![g][i] = [sample[g][i] EXCEPT !.status = "ABORTED"]]
          \/ sample' = [sample EXCEPT ![g][i] = [sample[g][i] EXCEPT !.reward = TRUE]]
          \/ sample' = [sample EXCEPT ![g][i] =
               [sample[g][i] EXCEPT !.status = "COMPLETED", !.response = Append(@, Segment)]]
      BY CallSteps, <1>13
    <2>5. sample' \in [Groups -> [Members -> SampleType]]
      <3>1. \/ sample' = sample
            \/ \E s \in SampleType : sample' = [sample EXCEPT ![g][i] = s]
        BY ONLY <2>3, <2>4, SamplesTyped
      <3>2. sample \in [Groups -> [Members -> SampleType]]
        BY DEF TypeOK
      <3> QED
        BY ONLY <3>1, <3>2
    <2> QED
      BY <2>1, <2>2, <2>5 DEF TypeOK, driver
  <1>14. CASE UNCHANGED vars
    BY <1>14 DEF TypeOK, vars, driver
  <1> QED
    BY <1>1, <1>2, <1>3, <1>4, <1>5, <1>6, <1>7, <1>8, <1>9, <1>10, <1>11, <1>12, <1>13, <1>14
    DEF Next, Main, TaskStep, CallStep, Done
-----------------------------------------------------------------------------
(***************************************************************************)
(* Conservation, and the count the loop keeps                              *)
(***************************************************************************)
\* What runs in a task moves no group.
LEMMA TasksMoveNothing ==
    ASSUME \E g \in Groups : TaskStep(g) \/ \E i \in Members : CallStep(g, i)
    PROVE  UNCHANGED <<args, driver, store, history, faults>>
  <1>1. \A g \in Groups : TaskStep(g) => UNCHANGED <<args, driver, store, history, faults>>
    <2> TAKE g \in Groups
    <2>1. StartTask(g) => UNCHANGED <<args, driver, store, history, faults>>
      BY DEF StartTask
    <2>2. EndTask(g) => UNCHANGED <<args, driver, store, history, faults>>
      BY DEF EndTask
    <2>3. RewardGroup(g) => UNCHANGED <<args, driver, store, history, faults>>
      BY DEF RewardGroup
    <2> QED
      BY <2>1, <2>2, <2>3 DEF TaskStep
  <1>2. \A g \in Groups, i \in Members :
           CallStep(g, i) => UNCHANGED <<args, driver, store, history, faults>>
    <2> TAKE g \in Groups, i \in Members
    <2>1. Acquire(g, i) \/ Arrive(g, i) => UNCHANGED <<args, driver, store, history, faults>>
      BY DEF Acquire, Arrive
    <2>2. Answer(g, i) \/ Reward(g, i) => UNCHANGED <<args, driver, store, history, faults>>
      BY DEF Answer, Reward
    <2> QED
      BY <2>1, <2>2 DEF CallStep
  <1> QED
    BY <1>1, <1>2

\* The steps that move a group: submitting, collecting, draining and returning.
LEMMA NextConserved == TypeOK /\ Conserved /\ Counted /\ [Next]_vars => Conserved'
  <1> SUFFICES ASSUME TypeOK, Conserved, Counted, [Next]_vars PROVE Conserved'
    OBVIOUS
  <1> DEFINE places == <<pendings, data, collected, buffer, delivered, lost, source>>
  <1>1. CASE UNCHANGED places
    BY <1>1 DEF Conserved, HandedOut
  <1>2. CASE Fill
    <2>1. /\ pendings' = pendings \cup Refill
          /\ UNCHANGED <<data, collected, delivered, lost>>
      BY <1>2, FillUnfolded
    <2>2. /\ Refill \cap (pendings \cup data \cup ToSet(collected) \cup delivered \cup lost) = {}
          /\ Refill \subseteq HandedOut' /\ HandedOut \subseteq HandedOut'
          /\ IsInjective(buffer') /\ ToSet(buffer') = ToSet(buffer) \ Refill
      BY <1>2, RefillIsNew
    <2> QED
      BY <2>1, <2>2 DEF Conserved
  <1>3. CASE Collect
    <2> PICK kept \in SUBSET Finished, taken \in SUBSET Finished :
          /\ data' = data \cup taken
          /\ pendings' = pendings \ Finished
          /\ lost' = lost \cup (Finished \ taken)
      BY <1>3 DEF Collect
    <2>1. UNCHANGED <<collected, buffer, source, delivered>>
      BY <1>3 DEF Collect, store
    <2>2. Finished \subseteq pendings
      BY DEF Finished
    <2> QED
      BY <2>1, <2>2 DEF Conserved, HandedOut
  <1>4. ASSUME NEW g \in Groups, Drain(g)
        PROVE  Conserved'
    <2>1. /\ g \in pendings /\ pendings' = pendings \ {g}
          /\ UNCHANGED <<data, buffer, source, delivered>>
      BY <1>4 DEF Drain, Finished, store
    <2>2. CASE mode.partial
      <3>1. collected' = Append(collected, g) /\ UNCHANGED lost
        BY <1>4, <2>2 DEF Drain
      <3>2. IsInjective(collected') /\ ToSet(collected') = ToSet(collected) \cup {g}
        <4>1. collected \in Seq(Groups) /\ IsInjective(collected) /\ g \notin ToSet(collected)
          BY <2>1 DEF Conserved, TypeOK
        <4> QED
          BY <3>1, <4>1, PushTail
      <3> QED
        BY <2>1, <3>1, <3>2 DEF Conserved, HandedOut
    <2>3. CASE ~mode.partial
      <3>1. UNCHANGED collected /\ lost' = lost \cup {g}
        BY <1>4, <2>3 DEF Drain
      <3> QED
        BY <2>1, <3>1 DEF Conserved, HandedOut
    <2> QED
      BY <2>2, <2>3
  <1>5. CASE Return
    <2>1. /\ delivered' = delivered \cup data /\ data' = {} /\ collected' = <<>>
          /\ buffer' = buffer \o collected
          /\ UNCHANGED <<pendings, source, lost>>
      BY <1>5 DEF Return
    <2>2. IsInjective(buffer') /\ ToSet(buffer') = ToSet(buffer) \cup ToSet(collected)
      <3>1. /\ buffer \in Seq(Groups) /\ collected \in Seq(Groups)
            /\ IsInjective(buffer) /\ IsInjective(collected)
            /\ ToSet(buffer) \cap ToSet(collected) = {}
        BY DEF Conserved, TypeOK
      <3> QED
        BY <2>1, <3>1, Joined
    <2>3. IsInjective(collected') /\ ToSet(collected') = {}
      BY <2>1 DEF IsInjective, ToSet
    <2> QED
      BY <2>1, <2>2, <2>3 DEF Conserved, HandedOut
  <1>6. CASE \/ StartRollout \/ Filled \/ AbortRequests \/ ServersIdle \/ AbortFails \/ LoadUnknown
             \/ \E g \in Groups : TaskStep(g) \/ \E i \in Members : CallStep(g, i)
             \/ UNCHANGED vars
    <2>1. UNCHANGED places
      BY <1>6, TasksMoveNothing
      DEF StartRollout, Filled, AbortRequests, ServersIdle, AbortFails, LoadUnknown,
          vars, args, driver, store, history
    <2> QED
      BY <1>1, <2>1
  <1> QED
    BY <1>2, <1>3, <1>4, <1>5, <1>6 DEF Next, Main, Done

LEMMA InitConserved == Init => Conserved /\ Counted
  <1> SUFFICES ASSUME Init PROVE Conserved /\ Counted
    OBVIOUS
  <1>1. IsInjective(<<>>) /\ ToSet(<<>>) = {}
    BY DEF IsInjective, ToSet
  <1>2. Cardinality({}) = 0
    BY FS_EmptySet
  <1> QED
    BY <1>1, <1>2, SizesAssumption DEF Init, Conserved, Counted

LEMMA NextCounted == TypeOK /\ Conserved /\ Counted /\ [Next]_vars => Counted'
  <1> SUFFICES ASSUME TypeOK, Conserved, Counted, [Next]_vars PROVE Counted'
    OBVIOUS
  <1>0. /\ RolloutBatchSize \in Nat \ {0} /\ Cardinality({}) = 0
        /\ pc \in {"idle", "fill", "wait", "abort", "aborting", "drain"}
        /\ remaining_batch_size \in Nat
        /\ Cardinality(pendings) \in Nat /\ Cardinality(data) \in Nat
    BY GroupsFinite, SizesAssumption, FS_EmptySet DEF TypeOK
  <1>1. CASE StartRollout
    <2>1. /\ pc = "idle" /\ pc' = "fill"
          /\ UNCHANGED <<aborted, pendings, remaining_batch_size, data, collected>>
      BY <1>1 DEF StartRollout
    <2>2. /\ pendings' = {} /\ data' = {} /\ remaining_batch_size' = 0
          /\ collected' = <<>> /\ ~aborted'
      BY <2>1 DEF Counted
    <2>3. Cardinality(pendings') = 0 /\ Cardinality(data') = 0
      BY ONLY <1>0, <2>2
    <2> QED
      BY ONLY <1>0, <2>1, <2>2, <2>3 DEF Counted
  <1>2. CASE Fill
    <2>1. /\ pc = "fill" /\ pendings' = pendings \cup Refill
          /\ remaining_batch_size' = remaining_batch_size + Popped + Len(Fresh)
          /\ UNCHANGED <<pc, data, collected, aborted>>
      BY <1>2, FillUnfolded
    <2>2. Cardinality(pendings') = Cardinality(pendings) + Popped + Len(Fresh)
      <3>1. /\ IsFiniteSet(Refill) /\ Cardinality(Refill) = Popped + Len(Fresh)
            /\ Refill \cap pendings = {}
        BY <1>2, RefillIsNew
      <3>2. IsFiniteSet(pendings) /\ Cardinality(pendings) \in Nat
        BY GroupsFinite DEF TypeOK
      <3>3. Cardinality(pendings \cup Refill)
              = Cardinality(pendings) + Cardinality(Refill) - Cardinality(pendings \cap Refill)
        BY <3>1, <3>2, FS_Union
      <3>4. Cardinality(pendings \cap Refill) = 0
        BY <1>0, <3>1
      <3>5. Popped \in Nat /\ Len(Fresh) \in Nat
        BY FreshTyped
      <3> QED
        BY <2>1, <3>1, <3>2, <3>3, <3>4, <3>5
    <2>3. Popped \in Nat /\ Len(Fresh) \in Nat
      BY FreshTyped
    <2> QED
      BY <1>0, <2>1, <2>2, <2>3 DEF Counted
  <1>3. CASE Filled
    BY <1>0, <1>3 DEF Filled, Counted
  <1>4. CASE Collect
    <2> PICK kept \in SUBSET Finished, taken \in SUBSET Finished :
          /\ taken \subseteq kept
          /\ Cardinality(taken) = Wanted(kept)
          /\ data' = data \cup taken
          /\ pendings' = pendings \ Finished
          /\ remaining_batch_size' = remaining_batch_size - NoLongerCounted(kept)
          /\ IF Cardinality(data') >= RolloutBatchSize
               THEN pc' = "abort" /\ aborted' = TRUE
               ELSE /\ pc' = IF remaining_batch_size' < RolloutBatchSize THEN "fill" ELSE "wait"
                    /\ UNCHANGED aborted
      BY <1>4 DEF Collect
    <2>1. pc = "wait" /\ UNCHANGED collected
      BY <1>4 DEF Collect
    <2>2. /\ remaining_batch_size' = Cardinality(pendings') + Cardinality(kept) + Cardinality(data)
          /\ Cardinality(kept) \in Nat /\ Cardinality(pendings') \in Nat
      BY <2>1, DropsAreCounted
    <2>3. Cardinality(data') = Cardinality(data) + Cardinality(taken) /\ Cardinality(taken) \in Nat
      <3>1. Finished \subseteq pendings /\ pendings \subseteq Groups /\ data \subseteq Groups
        BY DEF Finished, TypeOK
      <3>2. data \cap taken = {}
        BY <3>1 DEF Conserved
      <3>3. IsFiniteSet(data) /\ IsFiniteSet(taken) /\ Cardinality(taken) \in Nat
        BY <3>1, GroupsFinite
      <3>4. Cardinality(data \cup taken)
              = Cardinality(data) + Cardinality(taken) - Cardinality(data \cap taken)
        BY <3>3, FS_Union
      <3>5. Cardinality(data \cap taken) = 0
        BY <1>0, <3>2
      <3> QED
        BY <1>0, <3>3, <3>4, <3>5
    <2>4. Cardinality(data) < RolloutBatchSize
      BY <2>1 DEF Counted
    <2>5. \/ Cardinality(taken) = Cardinality(kept) /\ Cardinality(kept) <= RolloutBatchSize - Cardinality(data)
          \/ Cardinality(taken) = RolloutBatchSize - Cardinality(data)
      BY <1>0, <2>2, <2>4 DEF Wanted, Least
    <2>6. Cardinality(data') <= RolloutBatchSize
      BY <1>0, <2>2, <2>3, <2>4, <2>5
    <2>7. aborted = FALSE /\ collected' = <<>>
      BY <2>1, <1>0 DEF Counted, TypeOK
    <2>8. CASE Cardinality(data') >= RolloutBatchSize
      BY <1>0, <2>3, <2>6, <2>7, <2>8 DEF Counted
    <2>9. CASE ~(Cardinality(data') >= RolloutBatchSize)
      <3>1. Cardinality(data') < RolloutBatchSize
        BY <1>0, <2>3, <2>9
      <3>2. Cardinality(taken) = Cardinality(kept)
        BY <1>0, <2>2, <2>3, <2>5, <3>1
      <3>3. remaining_batch_size' = Cardinality(pendings') + Cardinality(data')
        BY <1>0, <2>2, <2>3, <3>2
      <3>4. /\ pc' = IF remaining_batch_size' < RolloutBatchSize THEN "fill" ELSE "wait"
            /\ aborted' = FALSE
        BY <2>7, <2>9
      <3>5. remaining_batch_size' \in Nat
        BY <1>0, <2>2, <2>3, <3>3
      <3> QED
        BY <1>0, <2>6, <2>7, <3>1, <3>3, <3>4, <3>5 DEF Counted
    <2> QED
      BY <2>8, <2>9
  <1>5. CASE AbortRequests \/ ServersIdle \/ AbortFails \/ LoadUnknown
    <2>1. /\ pc \in {"abort", "aborting"} /\ pc' \in {"aborting", "drain"}
          /\ UNCHANGED <<aborted, data, pendings, collected, remaining_batch_size>>
      BY <1>5 DEF AbortRequests, ServersIdle, AbortFails, LoadUnknown
    <2> QED
      BY <2>1 DEF Counted
  <1>6. ASSUME NEW g \in Groups, Drain(g)
        PROVE  Counted'
    <2>1. pc = "drain" /\ UNCHANGED <<pc, aborted, data>>
      BY <1>6 DEF Drain
    <2> QED
      BY <2>1 DEF Counted
  <1>7. CASE Return
    <2>1. /\ pc' = "idle" /\ data' = {} /\ collected' = <<>> /\ pendings' = {}
          /\ remaining_batch_size' = 0 /\ aborted' = FALSE
      BY <1>7 DEF Return, Reset
    <2> QED
      BY <1>0, <2>1 DEF Counted
  <1>8. CASE \/ \E g \in Groups : TaskStep(g) \/ \E i \in Members : CallStep(g, i)
             \/ UNCHANGED vars
    <2>1. UNCHANGED <<pc, aborted, pendings, remaining_batch_size, data, collected>>
      BY <1>8, TasksMoveNothing DEF vars, driver
    <2> QED
      BY <2>1 DEF Counted
  <1> QED
    BY <1>1, <1>2, <1>3, <1>4, <1>5, <1>6, <1>7, <1>8 DEF Next, Main, Done

THEOREM Inductive == Spec => [](TypeOK /\ Conserved /\ Counted)
  <1>1. Init => TypeOK /\ Conserved /\ Counted
    BY InitTypeOK, InitConserved
  <1>2. (TypeOK /\ Conserved /\ Counted) /\ [Next]_vars => (TypeOK /\ Conserved /\ Counted)'
    BY NextTypeOK, NextConserved, NextCounted
  <1> QED
    BY <1>1, <1>2, PTL DEF Spec

\* Every variable keeps its type, in every configuration.
THEOREM TypeCorrect == Spec => []TypeOK
  BY Inductive, PTL

\* The loop waits only while a group runs: the count it keeps is the number of
\* running groups plus the size of the batch, and it waits only with a count of
\* at least a batch that is not full.
THEOREM NoEmptyWait == Spec => []NeverWaitsForNothing
  <1>1. TypeOK /\ Conserved /\ Counted => NeverWaitsForNothing
    <2> SUFFICES ASSUME TypeOK, Counted, pc = "wait", pendings = {} PROVE FALSE
      BY DEF NeverWaitsForNothing
    <2>1. Cardinality(pendings) = 0 /\ Cardinality(data) \in Nat /\ RolloutBatchSize \in Nat
      BY GroupsFinite, FS_EmptySet, SizesAssumption DEF TypeOK
    <2> QED
      BY <2>1 DEF Counted
  <1> QED
    BY <1>1, Inductive, PTL
-----------------------------------------------------------------------------
(***************************************************************************)
(* The order of the data set                                               *)
(***************************************************************************)
LEMMA DivMod ==
    ASSUME NEW d \in Nat \ {0}, NEW e \in Nat, NEW r \in 0 .. d - 1
    PROVE  (e * d + r) \div d = e /\ (e * d + r) % d = r
  OBVIOUS

\* Where a prompt stands, from its position among all prompts handed out.
LEMMA Positions ==
    ASSUME NEW D \in Nat \ {0}, NEW e \in Nat, NEW c \in 0 .. D, NEW k \in 1 .. 2 * D - c
    PROVE  /\ c + k - 1 < D => /\ (e * D + c + k - 1) \div D = e
                               /\ (e * D + c + k - 1) % D = c + k - 1
           /\ ~(c + k - 1 < D) => /\ (e * D + c + k - 1) \div D = e + 1
                                  /\ (e * D + c + k - 1) % D = c + k - 1 - D
  <1> DEFINE x == e * D + c + k - 1
             r == c + k - 1
  <1>1. r \in 0 .. 2 * D - 1 /\ x = e * D + r /\ e * D \in Nat
    OBVIOUS
  <1>2. ASSUME r < D PROVE x \div D = e /\ x % D = r
    <2>1. r \in 0 .. D - 1
      BY <1>1, <1>2
    <2> HIDE DEF x, r
    <2> QED
      BY <1>1, <2>1, DivMod
  <1>3. ASSUME ~(r < D) PROVE x \div D = e + 1 /\ x % D = r - D
    <2>1. r - D \in 0 .. D - 1 /\ e + 1 \in Nat /\ x = (e + 1) * D + (r - D)
      BY <1>1, <1>3
    <2> HIDE DEF x, r
    <2>2. ((e + 1) * D + (r - D)) \div D = e + 1 /\ ((e + 1) * D + (r - D)) % D = r - D
      BY <2>1, DivMod
    <2> QED
      BY <2>1, <2>2
  <1> QED
    BY <1>2, <1>3

\* The number of prompts handed out is the position the cursor stands for: the
\* full epochs and what was read of the current one.
InOrder ==
    /\ EpochsInOrder
    /\ source.index = source.epoch * dataset_size + Cursor

LEMMA NextInOrder == TypeOK /\ InOrder /\ [Next]_vars => InOrder'
  <1> SUFFICES ASSUME TypeOK, InOrder, [Next]_vars PROVE InOrder'
    OBVIOUS
  <1>1. CASE UNCHANGED <<dataset_size, source, handed>>
    BY <1>1 DEF InOrder, EpochsInOrder, Cursor, Least
  <1>2. CASE Fill /\ Short = 0
    <2>1. /\ source' = source /\ dataset_size' = dataset_size
          /\ handed' = handed \o <<>>
      BY <1>2, FillUnfolded DEF Fresh
    <2>2. handed' = handed
      BY <2>1 DEF TypeOK
    <2> QED
      BY <1>1, <2>1, <2>2
  <1>3. CASE Fill /\ Short # 0
    <2> DEFINE D == dataset_size
               e == source.epoch
               c == Cursor
               L == Len(Fresh)
               n == Short
    <2>1. /\ D \in Nat \ {0} /\ e \in Nat /\ source.offset \in Nat /\ source.index \in Nat
          /\ n \in Nat \ {0} /\ c \in 0 .. D
          /\ c = Least(source.offset, D)
      BY <1>3, FreshTyped, SizesAssumption DEF TypeOK, Cursor, Least
    <2>2. /\ Fresh \in Seq(Nat \X Nat) /\ L = Least(n, 2 * D - c)
          /\ \A k \in 1 .. L :
                Fresh[k] = IF c + k - 1 < D THEN <<e, c + k - 1>> ELSE <<e + 1, c + k - 1 - D>>
      <3>1. Fresh = Prompts(n) /\ n \in Nat \ {0}
        BY <1>3, <2>1 DEF Fresh
      <3> QED
        BY <3>1, PromptsFromCursor
    <2>3. /\ dataset_size' = D
          /\ source'.offset = NewOffset(n)
          /\ source'.epoch = IF source.offset + n <= D THEN e ELSE e + 1
          /\ source'.index = source.index + L
          /\ handed' = handed \o Fresh
      BY <1>3, FillUnfolded
    <2>4. source.index = e * D + c /\ Len(handed) = source.index
      BY DEF InOrder, TypeOK
    <2>5. L \in Nat /\ L <= 2 * D - c
      BY <2>1, <2>2 DEF Least
    <2>6. source'.index = source'.epoch * dataset_size' + Cursor'
      <3> DEFINE o == source.offset
      <3>1. /\ Cursor' = Least(source'.offset, D)
            /\ source'.offset = IF o + n <= D THEN o + n ELSE n - (D - c)
        BY <2>1, <2>3 DEF Cursor, NewOffset
      <3>2. source'.index = e * D + c + Least(n, 2 * D - c)
        BY <2>2, <2>3, <2>4
      <3>3. /\ o + n <= D => e * D + c + Least(n, 2 * D - c) = e * D + Least(o + n, D)
            /\ ~(o + n <= D) =>
                  e * D + c + Least(n, 2 * D - c) = (e + 1) * D + Least(n - (D - c), D)
        <4>1. D \in Nat \ {0} /\ e \in Nat /\ o \in Nat /\ n \in Nat \ {0} /\ c = Least(o, D)
          BY ONLY <2>1
        <4> HIDE DEF D, e, c, n, o
        <4> DEFINE p == e * D
                   q == (e + 1) * D
        <4>2. p \in Nat /\ q = p + D
          BY ONLY <4>1
        <4> HIDE DEF p, q
        <4>3. /\ o + n <= D => p + c + Least(n, 2 * D - c) = p + Least(o + n, D)
              /\ ~(o + n <= D) => p + c + Least(n, 2 * D - c) = q + Least(n - (D - c), D)
          BY ONLY <4>1, <4>2 DEF Least
        <4> QED
          BY ONLY <4>3 DEF p, q
      <3>4. /\ source'.epoch = IF o + n <= D THEN e ELSE e + 1
            /\ dataset_size' = D
        BY <2>3
      <3> HIDE DEF D, e, c, L, n, o
      <3> QED
        BY ONLY <3>1, <3>2, <3>3, <3>4
    <2>7. /\ Len(handed') = Len(handed) + L
          /\ \A k \in 1 .. Len(handed) + L :
                handed'[k] = IF k <= Len(handed) THEN handed[k] ELSE Fresh[k - Len(handed)]
      <3> DEFINE T == Nat \X Nat
      <3>1. handed \in Seq(T) /\ Fresh \in Seq(T)
        BY <2>2 DEF TypeOK
      <3> HIDE DEF T
      <3> QED
        BY ONLY <2>3, <3>1, ConcatProperties
    <2>8. ASSUME NEW k \in 1 .. L
          PROVE  Fresh[k] = <<(source.index + k - 1) \div D, (source.index + k - 1) % D>>
      <3> DEFINE x == e * D + c + k - 1
      <3>1. k \in 1 .. 2 * D - c
        BY <2>1, <2>5
      <3>2. /\ c + k - 1 < D => x \div D = e /\ x % D = c + k - 1
            /\ ~(c + k - 1 < D) => x \div D = e + 1 /\ x % D = c + k - 1 - D
        <4>1. D \in Nat \ {0} /\ e \in Nat /\ c \in 0 .. D
          BY ONLY <2>1
        <4> HIDE DEF D, e, c
        <4> QED
          BY ONLY <3>1, <4>1, Positions
      <3>3. Fresh[k] = IF c + k - 1 < D THEN <<e, c + k - 1>> ELSE <<e + 1, c + k - 1 - D>>
        BY <2>2, <2>8
      <3>4. source.index + k - 1 = x
        BY <2>4
      <3> HIDE DEF D, e, c, L, n, x
      <3> QED
        BY ONLY <3>2, <3>3, <3>4
    <2>9. ASSUME NEW k \in 1 .. Len(handed')
          PROVE  handed'[k] = <<(k - 1) \div D, (k - 1) % D>>
      <3> DEFINE m == Len(handed)
      <3>0. m = source.index /\ m \in Nat /\ L \in Nat /\ k \in 1 .. m + L
        BY <2>1, <2>4, <2>5, <2>7
      <3>1. CASE k <= m
        <4>1. k \in 1 .. m
          BY <3>0, <3>1
        <4>2. handed[k] = <<(k - 1) \div D, (k - 1) % D>>
          BY <4>1 DEF InOrder, EpochsInOrder
        <4>3. handed'[k] = handed[k]
          BY <2>7, <3>0, <3>1
        <4> QED
          BY <4>2, <4>3
      <3>2. CASE ~(k <= m)
        <4> DEFINE j == k - m
        <4>1. j \in 1 .. L /\ source.index + j - 1 = k - 1
          BY ONLY <3>0, <3>2
        <4>2. Fresh[j] = <<(source.index + j - 1) \div D, (source.index + j - 1) % D>>
          BY <2>8, <4>1
        <4>3. handed'[k] = Fresh[j]
          BY <2>7, <3>0, <3>2
        <4> HIDE DEF j
        <4> QED
          BY <4>1, <4>2, <4>3
      <3> QED
        BY <3>1, <3>2
    <2> QED
      BY <2>3, <2>6, <2>9 DEF InOrder, EpochsInOrder
  <1>4. Fill \/ UNCHANGED <<dataset_size, source, handed>>
    BY TasksMoveNothing
    DEF Next, Main, Done, StartRollout, Filled, Collect, AbortRequests, ServersIdle, Drain, Return,
        AbortFails, LoadUnknown, vars, args, driver, store, history
  <1> QED
    BY <1>1, <1>2, <1>3, <1>4

\* Prompts are handed out in the order of the data set, epoch after epoch, for
\* every size of the data set and every size of the requests.
THEOREM DatasetOrder == Spec => []EpochsInOrder
  <1>1. Init => InOrder
    <2> SUFFICES ASSUME Init PROVE InOrder
      OBVIOUS
    <2>1. /\ source.index = 0 /\ source.epoch = 0 /\ source.offset = 0
          /\ Len(handed) = 0 /\ dataset_size \in Nat \ {0}
      BY SizesAssumption DEF Init
    <2> QED
      BY <2>1 DEF InOrder, EpochsInOrder, Cursor, Least
  <1>2. TypeOK /\ InOrder /\ [Next]_vars => InOrder'
    BY NextInOrder
  <1>3. InOrder => EpochsInOrder
    BY DEF InOrder
  <1> QED
    BY <1>1, <1>2, <1>3, TypeCorrect, PTL DEF Spec
-----------------------------------------------------------------------------
(***************************************************************************)
(* Refinement: the synchronous rollout implements GroupDelivery            *)
(***************************************************************************)
LEMMA NextDelivers ==
    TypeOK /\ Conserved /\ Counted /\ [Next]_vars => [Delivery!Next]_(Delivery!vars)
  <1> SUFFICES ASSUME TypeOK, Conserved, Counted, [Next]_vars
               PROVE  Delivery!Next \/ UNCHANGED Delivery!vars
    OBVIOUS
  <1>1. CASE UNCHANGED <<source, delivered, rollout_id, lost>>
    BY <1>1 DEF Delivery!vars
  <1>2. CASE Fill
    <2>0. /\ source'.index = source.index + Len(Fresh) /\ source.index + Len(Fresh) <= MaxGroups
          /\ UNCHANGED <<delivered, rollout_id, lost>>
      BY <1>2, FillUnfolded, SourceTyped
    <2>1. /\ source'.index = source.index + Len(Fresh) /\ source.index + Len(Fresh) <= MaxGroups
          /\ UNCHANGED <<delivered, rollout_id, lost>>
          /\ source.index \in Nat /\ Len(Fresh) \in Nat /\ MaxGroups \in Nat
      BY <2>0, FreshTyped, SizesAssumption DEF TypeOK
    <2>2. CASE Len(Fresh) = 0
      BY <2>1, <2>2 DEF Delivery!vars
    <2>3. CASE Len(Fresh) # 0
      <3>1. source'.index \in source.index + 1 .. MaxGroups
        BY <2>1, <2>3
      <3> QED
        BY <2>1, <3>1 DEF Delivery!Next, Delivery!Fetch
    <2> QED
      BY <2>2, <2>3
  <1>3. CASE Collect
    <2> PICK taken \in SUBSET Finished : lost' = lost \cup (Finished \ taken)
      BY <1>3 DEF Collect
    <2>1. UNCHANGED <<source, delivered, rollout_id>>
      BY <1>3 DEF Collect, store
    <2>2. Finished \ taken \subseteq Delivery!Live
      BY DEF Finished, Conserved, HandedOut, Delivery!Live
    <2> QED
      BY <2>1, <2>2 DEF Delivery!Next, Delivery!Lose
  <1>4. ASSUME NEW g \in Groups, Drain(g)
        PROVE  Delivery!Next \/ UNCHANGED Delivery!vars
    <2>1. /\ g \in pendings /\ UNCHANGED <<source, delivered, rollout_id>>
          /\ UNCHANGED lost \/ lost' = lost \cup {g}
      BY <1>4 DEF Drain, Finished, store
    <2>2. {g} \subseteq Delivery!Live
      BY <2>1 DEF Conserved, HandedOut, Delivery!Live
    <2> QED
      BY <2>1, <2>2 DEF Delivery!Next, Delivery!Lose, Delivery!vars
  <1>5. CASE Return
    <2>1. /\ pc = "drain" /\ delivered' = delivered \cup data /\ rollout_id' = rollout_id + 1
          /\ UNCHANGED <<source, lost>>
      BY <1>5 DEF Return
    <2>2. data \in SUBSET Delivery!Live /\ Cardinality(data) = RolloutBatchSize
      BY <2>1 DEF Conserved, Counted, HandedOut, Delivery!Live
    <2>3. source'.index = source.index /\ lost' = lost
      BY <2>1
    <2>4. Delivery!Deliver
      BY ONLY <2>1, <2>2, <2>3 DEF Delivery!Deliver, Cardinality, Delivery!Cardinality
    <2> QED
      BY ONLY <2>4 DEF Delivery!Next
  <1>6. CASE \/ StartRollout \/ Filled \/ AbortRequests \/ ServersIdle \/ AbortFails \/ LoadUnknown
             \/ \E g \in Groups : TaskStep(g) \/ \E i \in Members : CallStep(g, i)
             \/ UNCHANGED vars
    <2>1. UNCHANGED <<source, delivered, rollout_id, lost>>
      BY <1>6, TasksMoveNothing
      DEF StartRollout, Filled, AbortRequests, ServersIdle, AbortFails, LoadUnknown,
          vars, args, driver, store, history
    <2> QED
      BY <1>1, <2>1
  <1> QED
    BY <1>2, <1>3, <1>4, <1>5, <1>6 DEF Next, Main, Done

\* What the asynchronous rollout promises, the synchronous one does: every call
\* returns a full batch of groups that were handed out and never returned before.
THEOREM Refinement == Spec => ImplementsDelivery
  <1>1. Init => Delivery!Init
    BY DEF Init, Delivery!Init
  <1> QED
    BY <1>1, Inductive, NextDelivers, PTL DEF Spec, ImplementsDelivery, Delivery!Spec
-----------------------------------------------------------------------------
(***************************************************************************)
(* What a sample looks like at each point of its group's task.  In these   *)
(* operators m is the mode, r the rollout, a the abort flag, s a sample.   *)
(***************************************************************************)
\* A sample that has tokens knows the rollout of its first ones.
Settled(s) == s.start = IF s.response = <<>> THEN -1 ELSE s.response[1].by

\* A complete sample has its reward, unless the whole group is rewarded at once.
Rewarded(m, s) == s.status = "COMPLETED" /\ ~m.groupRm => s.reward

\* Only tokens of this rollout are trained, if the mode asks for it.
OnPolicy(m, r, s) ==
    m.partial /\ m.mask =>
        \A k \in 1 .. Len(s.response) : s.response[k].mask = 1 => s.response[k].by = r

\* While its group runs, a sample without a stamp has no tokens of an earlier rollout.
Dated(r, s) ==
    /\ s.start = -1 => \A k \in 1 .. Len(s.response) : s.response[k].by = r
    /\ s.start # -1 => s.response # <<>> /\ s.start = s.response[1].by

Ready(m, r, s) == s.status = "COMPLETED" /\ s.reward /\ OnPolicy(m, r, s)

\* A sample of a running group whose task is at t and whose call is at c.
Fine(m, r, a, t, c, s) ==
    \/ t = "new" /\ c = "none" /\ Settled(s) /\ Rewarded(m, s)
    \/ t = "run" /\ c \in {"queue", "sent", "served"} /\ Dated(r, s) /\ OnPolicy(m, r, s)
    \/ /\ t = "run" /\ c = "reward" /\ Dated(r, s) /\ OnPolicy(m, r, s)
       /\ s.status = "COMPLETED" /\ ~m.groupRm
    \/ /\ t = "run" /\ c = "back" /\ Dated(r, s) /\ OnPolicy(m, r, s)
       /\ Rewarded(m, s) /\ (a \/ s.status = "COMPLETED")
    \/ /\ t = "reward" /\ c = "back" /\ Dated(r, s) /\ OnPolicy(m, r, s)
       /\ s.status = "COMPLETED" /\ m.groupRm
    \/ /\ t = "done" /\ c \in {"none", "back"} /\ Dated(r, s)
       /\ Rewarded(m, s) /\ (a \/ Ready(m, r, s))

InProgress(g, i) ==
    /\ g \in pendings => Fine(mode, rollout_id, aborted, task[g], call[g][i], sample[g][i])
    /\ g \notin pendings => task[g] = "none" /\ call[g][i] = "none"
    /\ g \in data => Ready(mode, rollout_id, sample[g][i])
    /\ g \in ToSet(buffer) \cup ToSet(collected) =>
          Settled(sample[g][i]) /\ Rewarded(mode, sample[g][i])
    /\ g >= source.index => sample[g][i] = NewSample

Progress == \A g \in Groups, i \in Members : InProgress(g, i)

\* What a response is made of.
LEMMA Segments ==
    ASSUME NEW s \in SampleType
    PROVE  /\ Len(s.response) \in Nat
           /\ s.response = <<>> <=> Len(s.response) = 0
           /\ \A k \in 1 .. Len(s.response) : s.response[k].by \in Nat
           /\ s.start \in Nat \cup {-1}
  <1> DEFINE T == [by : Nat, mask : {0, 1}]
  <1>1. s.response \in Seq(T) /\ s.start \in Nat \cup {-1}
    BY DEF SampleType
  <1>2. \A x \in T : x.by \in Nat
    OBVIOUS
  <1> HIDE DEF T
  <1>3. /\ Len(s.response) \in Nat
        /\ s.response = <<>> <=> Len(s.response) = 0
        /\ \A k \in 1 .. Len(s.response) : s.response[k] \in T
    BY ONLY <1>1, LenProperties, ElementOfSeq, EmptySeq
  <1> QED
    BY <1>1, <1>2, <1>3

\* A recycled sample can run again.
LEMMA SettledIsDated ==
    ASSUME NEW r, NEW s \in SampleType, Settled(s)
    PROVE  Dated(r, s)
  <1>1. CASE s.response = <<>>
    <2>1. s.start = -1 /\ Len(s.response) = 0
      BY <1>1, Segments DEF Settled
    <2> QED
      BY <2>1 DEF Dated
  <1>2. CASE s.response # <<>>
    <2>1. 1 \in 1 .. Len(s.response)
      BY <1>2, Segments
    <2>2. s.start = s.response[1].by /\ s.response[1].by \in Nat
      BY <1>2, <2>1, Segments DEF Settled
    <2> QED
      BY <1>2, <2>2 DEF Dated
  <1> QED
    BY <1>1, <1>2

\* The stamp makes a sample that ran one that can be recycled.
LEMMA StampSettles ==
    ASSUME NEW s \in SampleType, Dated(rollout_id, s), rollout_id \in Nat, NEW m
    PROVE  /\ Settled(Stamp(s))
           /\ Rewarded(m, s) => Rewarded(m, Stamp(s))
  <1>1. /\ Stamp(s).status = s.status /\ Stamp(s).reward = s.reward
        /\ Stamp(s).response = s.response
        /\ Stamp(s).start = IF s.response # <<>> /\ s.start = -1 THEN rollout_id ELSE s.start
    BY DEF Stamp, SampleType
  <1>2. Settled(Stamp(s))
    <2>1. CASE s.response = <<>>
      BY <1>1, <2>1 DEF Settled, Dated
    <2>2. CASE s.response # <<>>
      <3>1. 1 \in 1 .. Len(s.response)
        BY <2>2, Segments
      <3> QED
        BY <1>1, <2>2, <3>1 DEF Settled, Dated
    <2> QED
      BY <2>1, <2>2
  <1> QED
    BY <1>1, <1>2 DEF Rewarded

\* Masking leaves nothing of an earlier rollout to train on.
LEMMA MaskKeeps ==
    ASSUME NEW m, NEW r, NEW s \in SampleType
    PROVE  /\ Settled(s) => Settled(Mask(s))
           /\ Rewarded(m, s) => Rewarded(m, Mask(s))
           /\ OnPolicy(m, r, Mask(s))
           /\ Mask(s).status = s.status
  <1> DEFINE q == [k \in 1 .. Len(s.response) |-> [s.response[k] EXCEPT !.mask = 0]]
  <1>1. /\ Mask(s).status = s.status /\ Mask(s).reward = s.reward /\ Mask(s).start = s.start
        /\ Mask(s).response = q
    BY DEF Mask, SampleType
  <1>2. Mask(s) \in SampleType
    BY SamplesTyped
  <1>3. Len(s.response) \in Nat
    BY Segments
  <1>4. /\ Len(q) = Len(s.response)
        /\ \A k \in 1 .. Len(s.response) : q[k].mask = 0 /\ q[k].by = s.response[k].by
    <2>1. \A k \in 1 .. Len(s.response) : s.response[k] \in [by : Nat, mask : {0, 1}]
      <3> DEFINE T == [by : Nat, mask : {0, 1}]
      <3>1. s.response \in Seq(T)
        BY DEF SampleType
      <3> HIDE DEF T
      <3>2. \A k \in 1 .. Len(s.response) : s.response[k] \in T
        BY ONLY <3>1, ElementOfSeq
      <3> QED
        BY <3>2 DEF T
    <2>2. Len(q) = Len(s.response)
      BY <1>3
    <2>3. \A x \in [by : Nat, mask : {0, 1}] :
              [x EXCEPT !.mask = 0].mask = 0 /\ [x EXCEPT !.mask = 0].by = x.by
      OBVIOUS
    <2> QED
      BY <2>1, <2>2, <2>3
  <1> HIDE DEF q
  <1>5. s.response = <<>> <=> Mask(s).response = <<>>
    BY <1>1, <1>2, <1>4, Segments
  <1>6. s.response # <<>> => 1 \in 1 .. Len(s.response)
    BY Segments
  <1>7. Settled(s) => Settled(Mask(s))
    BY <1>1, <1>4, <1>5, <1>6 DEF Settled
  <1>8. OnPolicy(m, r, Mask(s))
    BY <1>1, <1>4 DEF OnPolicy
  <1> QED
    BY <1>1, <1>7, <1>8 DEF Rewarded

\* Tokens of this rollout are added behind the others.
LEMMA GrowKeeps ==
    ASSUME NEW m, NEW s \in SampleType, rollout_id \in Nat,
           Dated(rollout_id, s), OnPolicy(m, rollout_id, s),
           NEW t, t.start = s.start, t.response = Append(s.response, Segment)
    PROVE  Dated(rollout_id, t) /\ OnPolicy(m, rollout_id, t)
  <1> DEFINE L == Len(s.response)
  <1>1. t.start = s.start /\ t.response = Append(s.response, Segment)
    OBVIOUS
  <1>2. /\ L \in Nat /\ Len(t.response) = L + 1
        /\ \A k \in 1 .. L : t.response[k] = s.response[k]
        /\ t.response[L + 1] = Segment
    <2> DEFINE T == [by : Nat, mask : {0, 1}]
    <2>1. s.response \in Seq(T) /\ Segment \in T
      BY DEF SampleType, Segment
    <2> HIDE DEF T
    <2>2. /\ L \in Nat /\ Len(Append(s.response, Segment)) = L + 1
          /\ \A k \in 1 .. L : Append(s.response, Segment)[k] = s.response[k]
          /\ Append(s.response, Segment)[L + 1] = Segment
      BY ONLY <2>1, AppendProperties, LenProperties
    <2> QED
      BY ONLY <1>1, <2>2
  <1>3. Segment.by = rollout_id
    BY DEF Segment
  <1>4. s.response # <<>> => 1 \in 1 .. L
    BY Segments
  <1>5. t.response # <<>>
    <2>1. Len(t.response) # 0
      BY <1>2
    <2>2. Len(<<>>) = 0
      OBVIOUS
    <2> QED
      BY <2>1, <2>2
  <1> HIDE DEF L
  <1>6. \A k \in 1 .. Len(t.response) : k \in 1 .. L \/ k = L + 1
    BY <1>2
  <1>7. Dated(rollout_id, t)
    BY <1>1, <1>2, <1>3, <1>4, <1>5, <1>6 DEF Dated, L
  <1>8. OnPolicy(m, rollout_id, t)
    BY <1>1, <1>2, <1>3, <1>6 DEF OnPolicy, L
  <1> QED
    BY <1>7, <1>8

LEMMA FieldKeeps ==
    ASSUME NEW m, NEW r, NEW s, NEW t, t.start = s.start, t.response = s.response
    PROVE  /\ Dated(r, s) => Dated(r, t)
           /\ OnPolicy(m, r, s) => OnPolicy(m, r, t)
  BY DEF Dated, OnPolicy

\* An abort asks less of a sample that is done.
LEMMA AbortAsksLess ==
    ASSUME NEW m, NEW r, NEW t, NEW c, NEW s, Fine(m, r, FALSE, t, c, s)
    PROVE  Fine(m, r, TRUE, t, c, s)
  BY DEF Fine

\* A new sample can be submitted.
LEMMA NewIsSettled == \A m : Settled(NewSample) /\ Rewarded(m, NewSample)
  BY DEF NewSample, Settled, Rewarded

\* Which groups are where, for one group.
LEMMA OnePlace ==
    ASSUME TypeOK, Conserved, NEW h \in Groups
    PROVE  /\ h \in pendings => h \notin data \cup ToSet(collected) \cup ToSet(buffer)
           /\ h \in data => h \notin ToSet(collected) \cup ToSet(buffer)
           /\ h \in pendings \cup data \cup ToSet(collected) \cup ToSet(buffer) =>
                 ~(h >= source.index)
  <1>1. source.index \in Nat /\ h \in Nat
    BY SizesAssumption DEF TypeOK, Groups
  <1>2. h \in HandedOut => ~(h >= source.index)
    BY <1>1 DEF HandedOut
  <1> QED
    BY <1>2 DEF Conserved

\* The loop hands groups on: submitting, collecting, draining and returning.
LEMMA LoopProgress ==
    ASSUME TypeOK, Conserved, Counted, Progress, Fill \/ Collect \/ Return,
           NEW h \in Groups, NEW j \in Members
    PROVE  InProgress(h, j)'
  <1>0. /\ InProgress(h, j) /\ sample[h][j] \in SampleType
        /\ source.index \in Nat /\ h \in Nat
    <2>1. InProgress(h, j)
      BY DEF Progress
    <2>2. sample[h][j] \in SampleType
      BY TasksTyped
    <2>3. source.index \in Nat /\ h \in Nat
      BY SizesAssumption DEF TypeOK, Groups
    <2> QED
      BY <2>1, <2>2, <2>3
  <1>1. CASE Fill
    <2>1. /\ pendings' = pendings \cup Refill
          /\ task' = [g \in Groups |-> IF g \in Refill THEN "new" ELSE task[g]]
          /\ UNCHANGED <<mode, rollout_id, aborted, data, collected, call, sample>>
      BY <1>1, FillUnfolded
    <2>2. /\ Refill \cap (pendings \cup data \cup ToSet(collected)) = {}
          /\ Refill \subseteq HandedOut' /\ HandedOut \subseteq HandedOut'
          /\ ToSet(buffer') = ToSet(buffer) \ Refill
          /\ Front1(buffer, Popped) \subseteq ToSet(buffer)
      BY <1>1, RefillIsNew
    <2>3. source'.index \in Nat /\ source'.index >= source.index
      BY <1>0, <1>1, SourceTyped, FreshTyped
    <2>4. CASE h \in Refill
      <3>1. Settled(sample[h][j]) /\ Rewarded(mode, sample[h][j])
        <4>1. CASE h \in Front1(buffer, Popped)
          BY <1>0, <2>2, <4>1 DEF InProgress
        <4>2. CASE h \in Fetched
          <5>1. h >= source.index
            BY <1>0, <4>2, FreshTyped DEF Fetched
          <5> QED
            BY <1>0, <5>1, NewIsSettled DEF InProgress
        <4> QED
          BY <2>4, <4>1, <4>2 DEF Refill
      <3>2. h \notin pendings /\ call[h][j] = "none"
        BY <1>0, <2>2, <2>4 DEF InProgress
      <3>3. task'[h] = "new"
        BY <2>1, <2>4
      <3>4. Fine(mode, rollout_id, aborted, "new", "none", sample[h][j])
        BY <3>1 DEF Fine
      <3>5. ~(h >= source'.index)
        BY <1>0, <2>2, <2>3, <2>4 DEF HandedOut
      <3> QED
        BY <2>1, <2>2, <2>4, <3>2, <3>3, <3>4, <3>5 DEF InProgress
    <2>5. CASE h \notin Refill
      <3>1. task'[h] = task[h] /\ (h >= source'.index => h >= source.index)
        BY <1>0, <2>1, <2>3, <2>5
      <3> QED
        BY <1>0, <2>1, <2>2, <2>5, <3>1 DEF InProgress
    <2> QED
      BY <2>4, <2>5
  <1>2. CASE Collect
    <2> PICK kept \in SUBSET Finished, taken \in SUBSET Finished :
          /\ data' = data \cup taken
          /\ pendings' = pendings \ Finished
          /\ Forget(Finished)
          /\ sample' = [g \in Groups |-> IF g \in Finished \ taken
                                           THEN [i \in Members |-> NewSample] ELSE sample[g]]
          /\ aborted' = TRUE \/ UNCHANGED aborted
      BY <1>2 DEF Collect
    <2>1. pc = "wait" /\ UNCHANGED <<mode, rollout_id, collected, buffer, source>>
      BY <1>2 DEF Collect, store, args
    <2>2. aborted = FALSE
      BY <2>1 DEF Counted, TypeOK
    <2>3. CASE h \in Finished
      <3>1. h \in pendings /\ task[h] = "done"
        BY <2>3 DEF Finished
      <3>2. Ready(mode, rollout_id, sample[h][j])
        BY <1>0, <2>2, <3>1 DEF InProgress, Fine
      <3>3. task'[h] = "none" /\ call'[h][j] = "none"
        BY <2>3 DEF Forget
      <3>4. h \in taken => sample'[h][j] = sample[h][j]
        OBVIOUS
      <3>5. /\ h \notin data /\ h \notin ToSet(buffer) \cup ToSet(collected)
            /\ ~(h >= source.index)
        BY <3>1, OnePlace
      <3> QED
        BY <2>1, <2>3, <3>2, <3>3, <3>4, <3>5 DEF InProgress
    <2>4. CASE h \notin Finished
      <3>1. task'[h] = task[h] /\ call'[h][j] = call[h][j] /\ sample'[h][j] = sample[h][j]
        BY <2>4 DEF Forget
      <3>2. Fine(mode, rollout_id, aborted, task[h], call[h][j], sample[h][j])
              => Fine(mode, rollout_id, aborted', task[h], call[h][j], sample[h][j])
        BY <2>2, AbortAsksLess
      <3> QED
        BY <1>0, <2>1, <2>4, <3>1, <3>2 DEF InProgress
    <2> QED
      BY <2>3, <2>4
  <1>3. CASE Return
    <2>1. /\ pendings = {} /\ pendings' = {} /\ data' = {} /\ collected' = <<>>
          /\ sample' = [g \in Groups |-> IF g \in data THEN [i \in Members |-> NewSample] ELSE sample[g]]
          /\ buffer' = buffer \o collected
          /\ UNCHANGED <<mode, source, task, call>>
      BY <1>3 DEF Return, args
    <2>2. ToSet(collected') = {} /\ ToSet(buffer') = ToSet(buffer) \cup ToSet(collected)
      <3>1. ToSet(collected') = {}
        BY <2>1 DEF ToSet
      <3>2. buffer \in Seq(Groups) /\ collected \in Seq(Groups)
        BY DEF TypeOK
      <3> QED
        BY <2>1, <3>1, <3>2, Joined
    <2>3. CASE h \in data
      <3>1. h \notin ToSet(buffer) \cup ToSet(collected)
        BY <2>3, OnePlace
      <3>2. sample'[h][j] = NewSample
        BY <2>1, <2>3
      <3> QED
        BY <1>0, <2>1, <2>2, <3>1, <3>2 DEF InProgress
    <2>4. CASE h \notin data
      <3>1. sample'[h][j] = sample[h][j]
        BY <2>1, <2>4
      <3> QED
        BY <1>0, <2>1, <2>2, <3>1 DEF InProgress
    <2> QED
      BY <2>3, <2>4
  <1> QED
    BY <1>1, <1>2, <1>3

LEMMA AbortProgress ==
    ASSUME TypeOK, Conserved, Counted, Progress,
           AbortRequests \/ \E g \in Groups : Drain(g),
           NEW h \in Groups, NEW j \in Members
    PROVE  InProgress(h, j)'
  <1>0. /\ InProgress(h, j) /\ sample[h][j] \in SampleType /\ rollout_id \in Nat
        /\ "ABORTED" \in Statuses
    BY TasksTyped DEF Progress, TypeOK, Statuses
  <1>1. CASE AbortRequests
    <2>0. PICK some \in SUBSET Served :
          sample' = [g \in Groups |-> [i \in Members |->
            IF <<g, i>> \notin Served THEN sample[g][i]
            ELSE [sample[g][i] EXCEPT !.status = "ABORTED",
                    !.response = IF <<g, i>> \in some THEN Append(@, Segment) ELSE @]]]
      BY <1>1 DEF AbortRequests
    <2>1. /\ pc \in {"abort", "aborting"}
          /\ call' = [g \in Groups |-> [i \in Members |->
                         IF <<g, i>> \in Served THEN "back" ELSE call[g][i]]]
          /\ UNCHANGED <<mode, rollout_id, aborted, pendings, data, collected, buffer, source, task>>
      BY <1>1 DEF AbortRequests, args, store
    <2>2. aborted = TRUE
      BY <2>1 DEF Counted, TypeOK
    <2>3. CASE <<h, j>> \in Served
      <3>1. h \in pendings /\ call[h][j] = "served"
        BY <2>3 DEF Served
      <3>2. /\ task[h] = "run" /\ Dated(rollout_id, sample[h][j])
            /\ OnPolicy(mode, rollout_id, sample[h][j])
        BY <1>0, <3>1 DEF InProgress, Fine
      <3> DEFINE s == sample[h][j]
      <3>3. /\ Dated(rollout_id, sample'[h][j]) /\ OnPolicy(mode, rollout_id, sample'[h][j])
            /\ sample'[h][j].status = "ABORTED"
        <4>0. s \in SampleType /\ Dated(rollout_id, s) /\ OnPolicy(mode, rollout_id, s)
          BY <1>0, <3>2
        <4>1. /\ sample'[h][j].status = "ABORTED" /\ sample'[h][j].start = s.start
              /\ sample'[h][j].response = IF <<h, j>> \in some THEN Append(s.response, Segment)
                                                             ELSE s.response
          <5>1. sample'[h][j] = [s EXCEPT !.status = "ABORTED",
                                   !.response = IF <<h, j>> \in some THEN Append(@, Segment) ELSE @]
            BY <2>0, <2>3
          <5> QED
            BY <4>0, <5>1 DEF SampleType
        <4> DEFINE t == sample'[h][j]
        <4> HIDE DEF s, t
        <4>2. /\ t.start = s.start
              /\ t.response = Append(s.response, Segment) \/ t.response = s.response
          BY ONLY <4>1 DEF t
        <4>3. Dated(rollout_id, t) /\ OnPolicy(mode, rollout_id, t)
          BY ONLY <1>0, <4>0, <4>2, GrowKeeps, FieldKeeps
        <4> QED
          BY <4>1, <4>3 DEF t
      <3>4. call'[h][j] = "back"
        BY <2>1, <2>3
      <3>5. Rewarded(mode, sample'[h][j])
        BY <3>3 DEF Rewarded
      <3>6. Fine(mode, rollout_id, TRUE, "run", "back", sample'[h][j])
        BY <3>3, <3>5 DEF Fine
      <3>7. h \notin data \cup ToSet(collected) \cup ToSet(buffer) /\ ~(h >= source.index)
        BY <3>1, OnePlace
      <3> QED
        BY <2>1, <2>2, <3>1, <3>2, <3>4, <3>6, <3>7 DEF InProgress
    <2>4. CASE <<h, j>> \notin Served
      <3>1. sample'[h][j] = sample[h][j] /\ call'[h][j] = call[h][j]
        BY <2>0, <2>1, <2>4
      <3> QED
        BY <1>0, <2>1, <3>1 DEF InProgress
    <2> QED
      BY <2>3, <2>4
  <1>2. ASSUME NEW g \in Groups, Drain(g)
        PROVE  InProgress(h, j)'
    <2>1. /\ g \in pendings /\ task[g] = "done" /\ pendings' = pendings \ {g} /\ Forget({g})
          /\ UNCHANGED <<mode, rollout_id, aborted, data, buffer, source>>
      BY <1>2 DEF Drain, Finished, store, args
    <2>2. /\ g \notin data \cup ToSet(collected) \cup ToSet(buffer)
          /\ ~(g >= source.index)
      BY <2>1, OnePlace
    <2>3. CASE mode.partial
      <3>1. /\ collected' = Append(collected, g)
            /\ sample' = [sample EXCEPT ![g] = [i \in Members |-> Stamp(sample[g][i])]]
        BY <1>2, <2>3 DEF Drain
      <3>2. ToSet(collected') = ToSet(collected) \cup {g}
        BY <3>1, PushTail DEF TypeOK
      <3>3. CASE h = g
        <4>1. task'[h] = "none" /\ call'[h][j] = "none"
          BY <2>1, <3>3 DEF Forget
        <4>2. sample'[h][j] = Stamp(sample[h][j])
          BY <3>1, <3>3 DEF TypeOK
        <4>3. Dated(rollout_id, sample[h][j]) /\ Rewarded(mode, sample[h][j])
          BY <1>0, <2>1, <3>3 DEF InProgress, Fine
        <4>4. Settled(sample'[h][j]) /\ Rewarded(mode, sample'[h][j])
          BY <1>0, <4>2, <4>3, StampSettles
        <4> QED
          BY <2>1, <2>2, <3>3, <4>1, <4>4 DEF InProgress
      <3>4. CASE h # g
        <4>1. task'[h] = task[h] /\ call'[h][j] = call[h][j]
          BY <2>1, <3>4 DEF Forget
        <4>2. sample'[h][j] = sample[h][j]
          BY <3>1, <3>4 DEF TypeOK
        <4> QED
          BY <1>0, <2>1, <3>2, <3>4, <4>1, <4>2 DEF InProgress
      <3> QED
        BY <3>3, <3>4
    <2>4. CASE ~mode.partial
      <3>1. /\ UNCHANGED collected
            /\ sample' = [sample EXCEPT ![g] = [i \in Members |-> NewSample]]
        BY <1>2, <2>4 DEF Drain
      <3>2. CASE h = g
        <4>1. task'[h] = "none" /\ call'[h][j] = "none"
          BY <2>1, <3>2 DEF Forget
        <4> QED
          BY <2>1, <2>2, <3>1, <3>2, <4>1 DEF InProgress
      <3>3. CASE h # g
        <4>1. task'[h] = task[h] /\ call'[h][j] = call[h][j]
          BY <2>1, <3>3 DEF Forget
        <4>2. sample'[h][j] = sample[h][j]
          BY <3>1, <3>3 DEF TypeOK
        <4> QED
          BY <1>0, <2>1, <3>1, <3>3, <4>1, <4>2 DEF InProgress
      <3> QED
        BY <3>2, <3>3
    <2> QED
      BY <2>3, <2>4
  <1> QED
    BY <1>1, <1>2

\* The steps of a task and of its calls.
LEMMA TaskProgress ==
    ASSUME TypeOK, Conserved, Progress, NEW g \in Groups, TaskStep(g),
           NEW h \in Groups, NEW j \in Members
    PROVE  InProgress(h, j)'
  <1> DEFINE s == sample[g][j]
  <1>0. /\ InProgress(h, j) /\ InProgress(g, j) /\ s \in SampleType /\ rollout_id \in Nat
    BY TasksTyped DEF Progress, TypeOK
  <1>1. UNCHANGED <<mode, rollout_id, aborted, pendings, data, collected, buffer, source>>
    BY DEF TaskStep, StartTask, EndTask, RewardGroup, args, driver, store
  <1>2. /\ task \in [Groups -> {"none", "new", "run", "reward", "done"}]
        /\ call \in [Groups -> [Members -> {"none", "queue", "sent", "served", "reward", "back"}]]
        /\ sample \in [Groups -> [Members -> SampleType]]
    BY DEF TypeOK
  <1>3. CASE h # g
    <2>1. task'[h] = task[h] /\ call'[h][j] = call[h][j] /\ sample'[h][j] = sample[h][j]
      BY <1>2, <1>3 DEF TaskStep, StartTask, EndTask, RewardGroup
    <2> QED
      BY <1>0, <1>1, <2>1 DEF InProgress
  <1>4. CASE h = g
    <2>1. task[g] \in {"new", "run", "reward"}
      BY DEF TaskStep, StartTask, EndTask, RewardGroup
    <2>2. g \in pendings /\ Fine(mode, rollout_id, aborted, task[g], call[g][j], s)
      BY <1>0, <2>1 DEF InProgress
    <2>3. g \notin data \cup ToSet(collected) \cup ToSet(buffer) /\ ~(g >= source.index)
      BY <2>2, OnePlace
    <2>4. SUFFICES Fine(mode, rollout_id, aborted, task'[g], call'[g][j], sample'[g][j])
      BY <1>1, <1>4, <2>2, <2>3 DEF InProgress
    <2>5. CASE StartTask(g)
      <3>1. call[g][j] = "none" /\ Settled(s) /\ Rewarded(mode, s)
        BY <2>2, <2>5 DEF StartTask, Fine
      <3>2. Dated(rollout_id, s)
        BY <1>0, <3>1, SettledIsDated
      <3>3. CASE aborted
        <4>1. task'[g] = "done" /\ call'[g][j] = "none" /\ sample'[g][j] = s
          BY <1>2, <2>5, <3>1, <3>3 DEF StartTask
        <4> HIDE DEF s
        <4> QED
          BY <3>1, <3>2, <3>3, <4>1 DEF Fine
      <3>4. CASE ~aborted
        <4>1. /\ task'[g] = "run"
              /\ call'[g][j] = IF s.status = "COMPLETED" THEN "back" ELSE "queue"
              /\ sample'[g][j] = IF mode.partial /\ mode.mask THEN Mask(s) ELSE s
          BY <1>2, <2>5, <3>4 DEF StartTask
        <4> DEFINE t == sample'[g][j]
        <4> HIDE DEF s, t
        <4>2. /\ Settled(t) /\ Rewarded(mode, t) /\ OnPolicy(mode, rollout_id, t)
              /\ t \in SampleType /\ t.status = s.status
          <5>1. CASE mode.partial /\ mode.mask
            <6>1. t = Mask(s) /\ s \in SampleType
              BY <1>0, <4>1, <5>1 DEF s, t
            <6>2. /\ Settled(Mask(s)) /\ Rewarded(mode, Mask(s)) /\ OnPolicy(mode, rollout_id, Mask(s))
                  /\ Mask(s).status = s.status
              BY <3>1, <6>1, MaskKeeps DEF s
            <6>3. Mask(s) \in SampleType
              BY <6>1, SamplesTyped
            <6> QED
              BY ONLY <6>1, <6>2, <6>3
          <5>2. CASE ~(mode.partial /\ mode.mask)
            BY <1>0, <3>1, <4>1, <5>2 DEF t, OnPolicy
          <5> QED
            BY <5>1, <5>2
        <4>3. Dated(rollout_id, t)
          BY <4>2, SettledIsDated
        <4>4. Fine(mode, rollout_id, aborted, "run",
                   IF s.status = "COMPLETED" THEN "back" ELSE "queue", t)
          BY <4>2, <4>3 DEF Fine
        <4> QED
          BY <4>1, <4>4 DEF t
      <3> QED
        BY <3>3, <3>4
    <2>6. CASE EndTask(g)
      <3>1. /\ task[g] = "run" /\ call[g][j] = "back"
            /\ task'[g] = IF mode.groupRm /\ ~aborted THEN "reward" ELSE "done"
            /\ call'[g][j] = "back" /\ sample'[g][j] = s
        BY <1>2, <2>6 DEF EndTask, AllBack
      <3> HIDE DEF s
      <3>2. /\ Dated(rollout_id, s) /\ OnPolicy(mode, rollout_id, s) /\ Rewarded(mode, s)
            /\ aborted \/ s.status = "COMPLETED"
        BY <2>2, <3>1 DEF Fine
      <3> QED
        BY <3>1, <3>2 DEF Fine, Ready, Rewarded
    <2>7. CASE RewardGroup(g)
      <3>1. /\ task[g] = "reward" /\ task'[g] = "done" /\ call'[g][j] = call[g][j]
            /\ sample'[g][j] = [s EXCEPT !.reward = TRUE]
        BY <1>2, <2>7 DEF RewardGroup
      <3> DEFINE t == sample'[g][j]
      <3>2. /\ t.status = s.status /\ t.reward /\ t.start = s.start /\ t.response = s.response
        BY <1>0, <3>1 DEF SampleType
      <3> HIDE DEF s, t
      <3>3. /\ call[g][j] = "back" /\ s.status = "COMPLETED"
            /\ Dated(rollout_id, s) /\ OnPolicy(mode, rollout_id, s)
        BY <2>2, <3>1 DEF Fine
      <3>4. Dated(rollout_id, t) /\ OnPolicy(mode, rollout_id, t)
        BY <3>2, <3>3, FieldKeeps
      <3>5. Fine(mode, rollout_id, aborted, "done", "back", t)
        BY <3>2, <3>3, <3>4 DEF Fine, Ready, Rewarded
      <3> QED
        BY <3>1, <3>3, <3>5 DEF t
    <2> QED
      BY <2>5, <2>6, <2>7 DEF TaskStep
  <1> QED
    BY <1>3, <1>4

LEMMA CallProgress ==
    ASSUME TypeOK, Conserved, Counted, Progress, NEW g \in Groups, NEW i \in Members,
           CallStep(g, i), NEW h \in Groups, NEW j \in Members
    PROVE  InProgress(h, j)'
  <1> DEFINE s == sample[g][i]
  <1>0. /\ InProgress(h, j) /\ InProgress(g, i) /\ s \in SampleType /\ rollout_id \in Nat
    BY TasksTyped DEF Progress, TypeOK
  <1>1. UNCHANGED <<mode, rollout_id, aborted, pendings, data, collected, buffer, source, task>>
    BY DEF CallStep, Acquire, Arrive, Answer, Reward, args, driver, store
  <1>2. /\ call \in [Groups -> [Members -> {"none", "queue", "sent", "served", "reward", "back"}]]
        /\ sample \in [Groups -> [Members -> SampleType]]
    BY DEF TypeOK
  <1>3. CASE <<h, j>> # <<g, i>>
    <2>1. call'[h][j] = call[h][j] /\ sample'[h][j] = sample[h][j]
      BY <1>2, <1>3 DEF CallStep, Acquire, Arrive, Answer, Reward
    <2> QED
      BY <1>0, <1>1, <2>1 DEF InProgress
  <1>4. CASE h = g /\ j = i
    <2>1. call[g][i] \in {"queue", "sent", "served", "reward"}
      BY DEF CallStep, Acquire, Arrive, Answer, Reward
    <2>2. g \in pendings /\ Fine(mode, rollout_id, aborted, task[g], call[g][i], s)
      BY <1>0, <2>1 DEF InProgress
    <2>3. g \notin data \cup ToSet(collected) \cup ToSet(buffer) /\ ~(g >= source.index)
      BY <2>2, OnePlace
    <2>4. /\ task[g] = "run" /\ Dated(rollout_id, s) /\ OnPolicy(mode, rollout_id, s)
          /\ call[g][i] = "reward" => s.status = "COMPLETED" /\ ~mode.groupRm
      BY <2>1, <2>2 DEF Fine
    <2> DEFINE t == sample'[g][i]
    <2>5. SUFFICES Fine(mode, rollout_id, aborted, "run", call'[g][i], t)
      BY <1>1, <1>4, <2>2, <2>3, <2>4 DEF InProgress
    <2>6. CASE Acquire(g, i) /\ aborted
      <3>1. /\ call'[g][i] = "back" /\ sample'[g][i] = [s EXCEPT !.status = "ABORTED"]
        BY <1>2, <2>6 DEF Acquire
      <3>2. t.status = "ABORTED" /\ t.start = s.start /\ t.response = s.response
        BY <1>0, <3>1 DEF SampleType
      <3> HIDE DEF s, t
      <3>3. Dated(rollout_id, t) /\ OnPolicy(mode, rollout_id, t)
        BY <2>4, <3>2, FieldKeeps
      <3> QED
        BY <2>6, <3>1, <3>2, <3>3 DEF Fine, Rewarded
    <2>7. CASE (Acquire(g, i) /\ ~aborted) \/ Arrive(g, i)
      <3>1. call'[g][i] \in {"sent", "served"} /\ t = s
        BY <1>2, <2>7 DEF Acquire, Arrive
      <3> HIDE DEF s, t
      <3> QED
        BY <2>4, <3>1 DEF Fine
    <2>8. CASE Answer(g, i)
      <3>1. /\ call'[g][i] = IF mode.groupRm THEN "back" ELSE "reward"
            /\ sample'[g][i] = [s EXCEPT !.status = "COMPLETED", !.response = Append(@, Segment)]
        <4>1. call' = [call EXCEPT ![g][i] = IF mode.groupRm THEN "back" ELSE "reward"]
          BY <2>8 DEF Answer
        <4>2. sample' = [sample EXCEPT ![g][i] =
                 [sample[g][i] EXCEPT !.status = "COMPLETED", !.response = Append(@, Segment)]]
          BY <2>8, CallSteps
        <4> QED
          BY <1>2, <4>1, <4>2
      <3>2. /\ t.status = "COMPLETED" /\ t.start = s.start
            /\ t.response = Append(s.response, Segment)
        BY <1>0, <3>1 DEF SampleType
      <3> HIDE DEF s, t
      <3>3. Dated(rollout_id, t) /\ OnPolicy(mode, rollout_id, t)
        BY <1>0, <2>4, <3>2, GrowKeeps
      <3> QED
        BY <3>1, <3>2, <3>3 DEF Fine, Rewarded
    <2>9. CASE Reward(g, i)
      <3>1. /\ call[g][i] = "reward" /\ call'[g][i] = "back"
            /\ sample'[g][i] = [s EXCEPT !.reward = TRUE]
        BY <1>2, <2>9, CallSteps DEF Reward
      <3>2. /\ t.status = s.status /\ t.reward /\ t.start = s.start /\ t.response = s.response
        BY <1>0, <3>1 DEF SampleType
      <3> HIDE DEF s, t
      <3>3. Dated(rollout_id, t) /\ OnPolicy(mode, rollout_id, t)
        BY <2>4, <3>2, FieldKeeps
      <3> QED
        BY <2>4, <3>1, <3>2, <3>3 DEF Fine, Rewarded
    <2> QED
      BY <2>6, <2>7, <2>8, <2>9 DEF CallStep
  <1> QED
    BY <1>3, <1>4

LEMMA NextProgress == TypeOK /\ Conserved /\ Counted /\ Progress /\ [Next]_vars => Progress'
  <1> SUFFICES ASSUME TypeOK, Conserved, Counted, Progress, [Next]_vars,
                      NEW h \in Groups, NEW j \in Members
               PROVE  InProgress(h, j)'
    BY DEF Progress, Groups, Members
  <1>1. CASE StartRollout \/ Filled \/ ServersIdle \/ AbortFails \/ LoadUnknown \/ UNCHANGED vars
    <2>1. UNCHANGED <<mode, rollout_id, aborted, pendings, data, collected, buffer, source,
                      task, call, sample>>
      BY <1>1 DEF StartRollout, Filled, ServersIdle, AbortFails, LoadUnknown,
                  vars, args, driver, store, tasks
    <2>2. InProgress(h, j)
      BY DEF Progress
    <2> QED
      BY <2>1, <2>2 DEF InProgress
  <1>2. CASE Fill \/ Collect \/ Return
    BY <1>2, LoopProgress
  <1>3. CASE AbortRequests \/ \E g \in Groups : Drain(g)
    BY <1>3, AbortProgress
  <1>4. CASE \E g \in Groups : TaskStep(g)
    BY <1>4, TaskProgress
  <1>5. CASE \E g \in Groups, i \in Members : CallStep(g, i)
    BY <1>5, CallProgress
  <1> QED
    BY <1>1, <1>2, <1>3, <1>4, <1>5 DEF Next, Main, Done

\* Where a sample is and what it looks like, in every reachable state.
THEOREM EveryGroupInProgress == Spec => []Progress
  <1>1. Init => Progress
    <2> SUFFICES ASSUME Init, NEW g \in Groups, NEW i \in Members PROVE InProgress(g, i)
      BY DEF Progress
    <2>1. ToSet(buffer) = {} /\ ToSet(collected) = {}
      BY DEF Init, ToSet
    <2> QED
      BY <2>1 DEF Init, InProgress
  <1> QED
    BY <1>1, NextProgress, Inductive, PTL DEF Spec

\* The batch holds whole groups, complete, rewarded and on policy where the
\* mode asks for it, whatever was aborted in this rollout or an earlier one.
THEOREM WholeBatches == Spec => []BatchIsWhole
  <1>1. TypeOK /\ Progress => BatchIsWhole
    <2> SUFFICES ASSUME TypeOK, Progress, NEW g \in data, NEW i \in Members
                 PROVE  Ready(mode, rollout_id, sample[g][i])
      BY DEF BatchIsWhole, Ready, OnPolicy
    <2> QED
      BY DEF Progress, InProgress, TypeOK
  <1> QED
    BY <1>1, EveryGroupInProgress, TypeCorrect, PTL

\* What is put into the buffer can be continued in a later rollout.
THEOREM Recyclable == Spec => []RecycledAreConsistent
  <1>1. TypeOK /\ Progress => RecycledAreConsistent
    <2> SUFFICES ASSUME TypeOK, Progress, NEW n \in 1 .. Len(buffer), NEW i \in Members
                 PROVE  /\ Settled(sample[buffer[n]][i])
                        /\ Rewarded(mode, sample[buffer[n]][i])
      BY DEF RecycledAreConsistent, Settled, Rewarded
    <2>1. buffer[n] \in Groups /\ buffer[n] \in ToSet(buffer)
      BY DEF TypeOK, ToSet
    <2> QED
      BY <2>1 DEF Progress, InProgress
  <1> QED
    BY <1>1, EveryGroupInProgress, TypeCorrect, PTL
=============================================================================
