--------------------------- MODULE DpScheduleProofs ---------------------------
(***************************************************************************)
(* Theorems about DpSchedule, for every batch, every layout of the ranks   *)
(* and every cost of a sample.                                             *)
(***************************************************************************)
EXTENDS DpSchedule, Lemmas

\* The samples of every step, and those of the one being scheduled
Steps == [s \in Nat |-> StepSamples(s)]
Current == Steps[step]

Balancing(equal) == pc = "karmarkar" /\ kk.equal = equal

\* The phases that work on the micro-batches of the current step
Binned == pc \in {"pack", "align", "split", "place"} \/ Balancing(TRUE)

\* Variables outside the phase that uses them
PhaseInv ==
    /\ pc \notin {"karmarkar", "unbalanced"} => kk = NoKk
    /\ pc # "split" => cut = NoCut
    /\ pc # "place" => \A r \in Ranks : share[r] = {}
    /\ pc # "pack" => todo = {}
    /\ pc # "train" => offset = 0 /\ trained = <<>>

\* num_microbatches has an entry for each step dealt to the ranks.
Dealt == pc = "place" \/ Balancing(TRUE)

CountsInv ==
    /\ pc # "train" /\ ~Dealt => Len(counts) = step - 1
    /\ Dealt => Len(counts) = step /\ counts[step] * conf.dp = Len(bins)
    /\ pc = "train" => step <= Len(counts) + 1 /\ Len(trained) = step - 1
    /\ conf.vpp > 1 => \A s \in 1 .. Len(counts) : counts[s] % conf.mbGroup = 0
    /\ pc # "unbalanced"

Capped(S) ==
    conf.dynamic /\ ~conf.byFlops =>
        SumFunctionOnSet(batch.lengths, S) <= conf.cap \/ Cardinality(S) = 1

\* The elements of b are disjoint sets, not empty, that make up S.
Partition(b, S) ==
    /\ \A j \in 1 .. Len(b) : b[j] # {} /\ b[j] \subseteq S
    /\ \A j, l \in 1 .. Len(b) : j # l => b[j] \cap b[l] = {}
    /\ \A i \in S : \E j \in 1 .. Len(b) : i \in b[j]

\* The micro-batches and what is not packed yet partition the step's samples.
BinsInv ==
    Binned =>
        /\ todo \subseteq Current
        /\ Partition(bins, Current \ todo)
        /\ \A j \in 1 .. Len(bins) : Capped(bins[j])

SumsInv ==
    pc = "pack" =>
        /\ Len(sums) = Len(bins)
        /\ \A j \in 1 .. Len(bins) : sums[j] = SumFunctionOnSet(batch.lengths, bins[j])

\* The bin being divided: the left half is filled first, and both before the
\* rest is empty.
CutInv ==
    pc = "split" =>
        /\ cut.at \in 1 .. Len(bins)
        /\ Cardinality(bins[cut.at]) > 1
        /\ bins[cut.at] = cut.rest \cup cut.left \cup cut.right
        /\ cut.left \cap cut.right = {} /\ cut.rest \cap (cut.left \cup cut.right) = {}
        /\ cut.right = {} => cut.left = {} \/ \E i \in cut.left : cut.left = {i}
        /\ cut.left = {} => cut.right = {}

\* A state of karmarkar_karp: k disjoint sets, those that are not empty first
IsState(f, k, items) ==
    /\ f \in [1 .. k -> SUBSET items]
    /\ \A m, n \in 1 .. k : m # n => f[m] \cap f[n] = {}

Full(f) == \A n \in DOMAIN f : f[n] # {}
FilledFirst(f) == \A m, n \in DOMAIN f : m <= n /\ f[n] # {} => f[m] # {}
AtMostOne(S) == \A x, y \in S : x = y
Sparse(f) == \A n \in DOMAIN f : AtMostOne(f[n])
SameSize(f) == \A m, n \in DOMAIN f : Cardinality(f[m]) = Cardinality(f[n])

\* The states and the items not in a state yet partition the items.
States(rest, states, k, items) ==
    /\ rest \subseteq items
    /\ \A f \in states : IsState(f, k, items)
    /\ \A f, g \in states : f # g => \A m, n \in 1 .. k : f[m] \cap g[n] = {}
    /\ \A f \in states : \A n \in 1 .. k : f[n] \cap rest = {}
    /\ \A x \in items \ rest : \E f \in states : \E n \in 1 .. k : x \in f[n]

KarmarkarInv ==
    /\ Balancing(TRUE) =>
        /\ kk.k = conf.dp
        /\ States(kk.rest, kk.states, kk.k, 1 .. Len(bins))
        /\ \A f \in kk.states : Full(f) /\ SameSize(f)
    /\ Balancing(FALSE) =>
        /\ conf.byFlops /\ kk.k < Cardinality(Current)
        /\ States(kk.rest, kk.states, kk.k, Current)
        /\ \A f \in kk.states : FilledFirst(f) /\ (Full(f) \/ Sparse(f))

\* Where the micro-batches of each step start in the lists of the ranks
IsOffset(off) ==
    /\ off \in [0 .. Len(counts) -> Nat]
    /\ off[0] = 0
    /\ \A s \in 1 .. Len(counts) : off[s] = off[s - 1] + counts[s]

Segment(off, s) == off[s - 1] + 1 .. off[s]

\* How far the lists of the ranks reach
LengthsOf(off) ==
    \A r \in Ranks :
        Len(parts[r]) = IF Balancing(TRUE) THEN off[step - 1]
                        ELSE off[Len(counts)] - Cardinality(share[r])

\* The lists hold, step by step, the step's samples: those of the current step
\* as far as they are placed.
LayoutOf(off) ==
    /\ \A r \in Ranks : \A p \in 1 .. Len(parts[r]) : parts[r][p] # {} /\ Capped(parts[r][p])
    /\ \A s \in 1 .. Len(counts) : \A r \in Ranks : \A p \in Segment(off, s) :
        p <= Len(parts[r]) => parts[r][p] \subseteq Steps[s]
    /\ \A s \in 1 .. Len(counts) : \A r, q \in Ranks : \A p, n \in Segment(off, s) :
        /\ p <= Len(parts[r]) /\ n <= Len(parts[q])
        /\ parts[r][p] \cap parts[q][n] # {}
        => r = q /\ p = n
    /\ \A s \in 1 .. Len(counts) : ~(Dealt /\ s = step) => \A i \in Steps[s] :
        \E r \in Ranks : \E p \in Segment(off, s) : p <= Len(parts[r]) /\ i \in parts[r][p]

\* The micro-batches of the current step: each with one rank, or placed.
PlacingOf(off) ==
    pc = "place" =>
        /\ \A r \in Ranks : off[step - 1] <= Len(parts[r])
        /\ \A r, q \in Ranks : r # q => share[r] \cap share[q] = {}
        /\ \A r, q \in Ranks : \A p \in Segment(off, step) : \A m \in share[q] :
            p <= Len(parts[r]) => parts[r][p] \cap bins[m] = {}
        /\ \A i \in Current :
            \/ \E r \in Ranks : \E p \in Segment(off, step) : p <= Len(parts[r]) /\ i \in parts[r][p]
            \/ \E r \in Ranks : \E m \in share[r] : i \in bins[m]

TrainedOf(off) ==
    pc = "train" =>
        /\ offset = off[step - 1]
        /\ \A s \in 1 .. Len(trained) : \A r \in Ranks :
            trained[s][r] = SubSeq(parts[r], off[s - 1] + 1, off[s])

LayoutInv == \E off :
    IsOffset(off) /\ LengthsOf(off) /\ LayoutOf(off) /\ PlacingOf(off) /\ TrainedOf(off)

IInv ==
    /\ TypeOK
    /\ PhaseInv
    /\ CountsInv
    /\ BinsInv
    /\ SumsInv
    /\ CutInv
    /\ KarmarkarInv
    /\ LayoutInv
-----------------------------------------------------------------------------
(***************************************************************************)
(* The input                                                               *)
(***************************************************************************)
LEMMA ConfFacts ==
    ASSUME conf \in Configs
    PROVE  /\ conf.dp \in Nat \ {0} /\ conf.mbGroup \in Nat \ {0}
           /\ conf.gbs \in Nat \ {0} /\ conf.cap \in Nat \ {0}
           /\ conf.dynamic \in BOOLEAN /\ conf.byFlops \in BOOLEAN
  BY ConfigsAssumption

LEMMA BatchFacts ==
    ASSUME batch \in Batches
    PROVE  /\ Len(batch.lengths) \in Nat
           /\ \A i \in Samples : batch.lengths[i] \in Nat \ {0} /\ Flops[i] \in Nat
           /\ IsFiniteSet(Samples)
  <1>1. batch.lengths \in Seq(Nat \ {0})
    BY BatchesAssumption
  <1>2. Len(batch.lengths) \in Nat
    BY <1>1
  <1>3. \A i \in Samples : batch.lengths[i] \in Nat \ {0}
    BY <1>1 DEF Samples
  <1>4. \A i \in Samples : Work[batch.lengths[i]] \in Nat
    BY WorkAssumption DEF Samples
  <1>5. IsFiniteSet(Samples)
    BY <1>2, FS_Interval DEF Samples
  <1> QED
    BY <1>2, <1>3, <1>4, <1>5 DEF Flops, Length

LEMMA SubsetFacts ==
    ASSUME batch \in Batches, NEW S \in SUBSET Samples
    PROVE  /\ IsFiniteSet(S) /\ Cardinality(S) \in Nat
           /\ SumFunctionOnSet(batch.lengths, S) \in Nat
           /\ SumFunctionOnSet(Flops, S) \in Nat
  <1>1. IsFiniteSet(S)
    BY BatchFacts, FS_Subset
  <1>2. Cardinality(S) \in Nat
    BY <1>1, FS_CardinalityType
  <1>3. \A i \in S : batch.lengths[i] \in Nat /\ Flops[i] \in Nat
    BY BatchFacts
  <1>4. SumFunctionOnSet(batch.lengths, S) \in Nat
    BY <1>1, <1>3, SumNat
  <1>5. SumFunctionOnSet(Flops, S) \in Nat
    BY <1>1, <1>3, SumNat
  <1> QED
    BY <1>1, <1>2, <1>4, <1>5

LEMMA StepsFacts == \A s \in Nat : Steps[s] = StepSamples(s) /\ Steps[s] \in SUBSET Samples
  BY DEF Steps, StepSamples

\* The input of build_dp_schedule never changes.
LEMMA InputFixed ==
    ASSUME [Next]_vars
    PROVE  batch' = batch /\ conf' = conf
  BY DEF Next, vars, TooFewRollouts, TooFewSamples, StartStep, FirstFit, StaticChunk, Packed,
         StaticMisaligned, CannotSplit, StartSplit, SplitOne, SplitDone, AddState, MergeStates,
         Balanced, Deal, Place, EndStep, TrainOneStep, Finished

LEMMA InputSame ==
    ASSUME batch' = batch, conf' = conf
    PROVE  Ranks' = Ranks /\ Samples' = Samples /\ Steps' = Steps /\ NumSteps' = NumSteps
  <1>1. Ranks' = Ranks /\ Samples' = Samples
    BY DEF Ranks, Samples
  <1>2. Steps' = Steps
    BY <1>1 DEF Steps, StepSamples, StepOf, Position, RolloutIds, FirstSample, Samples
  <1>3. NumSteps' = NumSteps
    BY <1>1 DEF NumSteps, RolloutIds, Samples
  <1> QED
    BY <1>1, <1>2, <1>3
-----------------------------------------------------------------------------
(***************************************************************************)
(* Types, and the variables outside their phase                            *)
(***************************************************************************)
LEMMA InitPhaseInv == Init => PhaseInv
  BY DEF Init, PhaseInv, Ranks

LEMMA NextPhaseInv ==
    ASSUME TypeOK, PhaseInv, [Next]_vars
    PROVE  PhaseInv'
  <1>1. Ranks' = Ranks
    BY InputFixed, InputSame
  <1>2. CASE TooFewRollouts \/ TooFewSamples \/ StartStep
    BY <1>1, <1>2 DEF TooFewRollouts, TooFewSamples, StartStep, PhaseInv, packVars, outVars, trainVars
  <1>3. CASE (\E i \in todo : FirstFit(i)) \/ StaticChunk \/ Packed
    BY <1>1, <1>3 DEF FirstFit, StaticChunk, Packed, OpenBin, PhaseInv, packVars, outVars, trainVars
  <1>4. CASE StaticMisaligned \/ CannotSplit \/ StartSplit
    BY <1>1, <1>4 DEF StaticMisaligned, CannotSplit, StartSplit, Misaligned, PhaseInv, packVars, outVars, trainVars
  <1>5. CASE SplitOne \/ SplitDone
    BY <1>1, <1>5 DEF SplitOne, SplitDone, PhaseInv, packVars, outVars, trainVars
  <1>6. CASE AddState \/ MergeStates
    BY <1>1, <1>6 DEF AddState, MergeStates, PhaseInv, packVars, outVars, trainVars
  <1>7. CASE Balanced
    BY <1>1, <1>7 DEF Balanced, PhaseInv, packVars, outVars, trainVars
  <1>8. CASE Deal
    BY <1>1, <1>8 DEF Deal, PhaseInv, packVars, outVars, trainVars
  <1>9. CASE \E r \in Ranks : Place(r)
    BY <1>1, <1>9 DEF Place, PhaseInv, packVars, outVars, trainVars
  <1>10. CASE EndStep
    BY <1>1, <1>10 DEF EndStep, PhaseInv, packVars, outVars, trainVars
  <1>11. CASE TrainOneStep
    BY <1>1, <1>11 DEF TrainOneStep, PhaseInv, packVars, outVars, trainVars
  <1>12. CASE Finished \/ UNCHANGED vars
    BY <1>1, <1>12 DEF Finished, vars, PhaseInv, packVars, outVars, trainVars
  <1> QED
    BY <1>2, <1>3, <1>4, <1>5, <1>6, <1>7, <1>8, <1>9, <1>10, <1>11, <1>12 DEF Next

LEMMA InitTypeOK == Init => TypeOK
  <1> SUFFICES ASSUME Init
               PROVE  TypeOK
    OBVIOUS
  <1>1. Ranks = 1 .. conf.dp
    BY DEF Ranks
  <1>2. kk = [k |-> 1, equal |-> FALSE, rest |-> {}, states |-> {}]
    BY DEF Init, NoKk
  <1>3. cut = [at |-> 0, rest |-> {}, left |-> {}, right |-> {}]
    BY DEF Init, NoCut
  <1>4. Len(bins) = 0
    BY DEF Init
  <1> QED
    BY <1>1, <1>2, <1>3, <1>4 DEF Init, TypeOK

\* The arguments of karmarkar_karp and the parts it is given
KkType ==
    LET items == IF kk.equal THEN 1 .. Len(bins) ELSE Samples
    IN  kk \in [k : Nat \ {0}, equal : BOOLEAN, rest : SUBSET items,
                states : SUBSET [1 .. kk.k -> SUBSET items]]

OtherTypes ==
    /\ batch \in Batches /\ conf \in Configs
    /\ pc \in {"step", "pack", "align", "split", "karmarkar", "place", "train"} \cup Stops
    /\ step \in Nat \ {0} /\ offset \in Nat
    /\ todo \subseteq Samples
    /\ bins \in Seq(SUBSET Samples) /\ sums \in Seq(Nat)
    /\ cut \in [at : 0 .. Len(bins), rest : SUBSET Samples,
                left : SUBSET Samples, right : SUBSET Samples]
    /\ parts \in [Ranks -> Seq(SUBSET Samples)]
    /\ counts \in Seq(Nat)

ShareType == share \in [Ranks -> SUBSET (1 .. Len(bins))]
TrainedType == trained \in Seq([Ranks -> Seq(SUBSET Samples)])

LEMMA TypeParts == TypeOK <=> OtherTypes /\ KkType /\ ShareType /\ TrainedType
  BY DEF TypeOK, OtherTypes, KkType, ShareType, TrainedType

LEMMA SeqExcept ==
    ASSUME NEW S, NEW s \in Seq(S), NEW j, NEW e, j \in 1 .. Len(s) => e \in S
    PROVE  [s EXCEPT ![j] = e] \in Seq(S) /\ Len([s EXCEPT ![j] = e]) = Len(s)
  <1>1. CASE j \in 1 .. Len(s)
    BY <1>1
  <1>2. CASE j \notin 1 .. Len(s)
    <2>1. j \notin DOMAIN s
      BY <1>2
    <2>2. [s EXCEPT ![j] = e] = s
      BY <2>1
    <2> QED
      BY <2>2
  <1> QED
    BY <1>1, <1>2

LEMMA NextOtherTypes ==
    ASSUME TypeOK, PhaseInv, [Next]_vars
    PROVE  OtherTypes'
  <1>1. Ranks' = Ranks /\ Samples' = Samples /\ batch' = batch /\ conf' = conf
    BY InputFixed, InputSame
  <1>a. OtherTypes
    BY TypeParts
  <1>b. ShareType
    BY TypeParts
  <1>c. Len(bins) \in Nat
    BY <1>a DEF OtherTypes
  <1>2. CASE TooFewRollouts \/ TooFewSamples
    BY <1>1, <1>a, <1>2 DEF TooFewRollouts, TooFewSamples, OtherTypes, Stops, packVars, outVars, trainVars
  <1>3. CASE StartStep
    <2>1. cut = NoCut
      BY <1>3 DEF StartStep, PhaseInv
    <2>2. todo' \subseteq Samples
      BY <1>3 DEF StartStep, StepSamples
    <2>3. pc' \in {"pack", "karmarkar"} /\ bins' = <<>> /\ sums' = <<>>
      BY <1>3 DEF StartStep
    <2>4. UNCHANGED <<step, cut, outVars, trainVars>>
      BY <1>3 DEF StartStep
    <2> QED
      BY <1>1, <1>a, <2>1, <2>2, <2>3, <2>4 DEF OtherTypes, outVars, trainVars, NoCut
  <1>4. CASE \E i \in todo : FirstFit(i)
    <2>1. PICK i \in todo : FirstFit(i)
      BY <1>4
    <2>2. i \in Samples
      BY <1>a DEF OtherTypes
    <2>3. todo' \subseteq Samples
      BY <1>a, <2>1 DEF FirstFit, OtherTypes
    <2>4. bins' \in Seq(SUBSET Samples) /\ Len(bins') >= Len(bins) /\ sums' \in Seq(Nat)
      <3>1. Length(i) \in Nat
        BY <1>a, <2>2, BatchFacts DEF Length, OtherTypes
      <3>2. TokensOf({i}) \in Nat
        BY <1>a, <2>2, SubsetFacts DEF TokensOf, OtherTypes
      <3>3. CASE OpenBin({i})
        <4>1. bins \in Seq(SUBSET Samples) /\ {i} \in SUBSET Samples
          BY <1>a, <2>2 DEF OtherTypes
        <4>2. bins' = Append(bins, {i})
          BY <3>3 DEF OpenBin
        <4>3. bins' \in Seq(SUBSET Samples) /\ Len(bins') = Len(bins) + 1
          BY <4>1, <4>2, AppendProperties
        <4>4. sums \in Seq(Nat)
          BY <1>a DEF OtherTypes
        <4>5. sums' = Append(sums, TokensOf({i}))
          BY <3>3 DEF OpenBin
        <4>6. sums' \in Seq(Nat)
          BY <3>2, <4>4, <4>5, AppendProperties
        <4> QED
          BY <1>c, <4>3, <4>6
      <3>4. ASSUME NEW j \in 1 .. Len(bins),
                   bins' = [bins EXCEPT ![j] = @ \cup {i}],
                   sums' = [sums EXCEPT ![j] = @ + Length(i)]
            PROVE  bins' \in Seq(SUBSET Samples) /\ Len(bins') >= Len(bins) /\ sums' \in Seq(Nat)
        <4>1. bins \in Seq(SUBSET Samples)
          BY <1>a DEF OtherTypes
        <4>2. sums \in Seq(Nat)
          BY <1>a DEF OtherTypes
        <4>3. bins[j] \cup {i} \in SUBSET Samples
          BY <2>2, <4>1
        <4>4. bins' \in Seq(SUBSET Samples) /\ Len(bins') = Len(bins)
          BY <3>4, <4>1, <4>3
        <4>5. j \in 1 .. Len(sums) => sums[j] + Length(i) \in Nat
          BY <3>1, <4>2
        <4>6. sums' \in Seq(Nat)
          BY <3>4, <4>2, <4>5, SeqExcept
        <4> QED
          BY <1>c, <4>4, <4>6
      <3> QED
        BY <2>1, <3>3, <3>4 DEF FirstFit
    <2>5. UNCHANGED <<pc, step, cut, outVars, trainVars>>
      BY <2>1 DEF FirstFit
    <2> QED
      BY <1>1, <1>a, <2>3, <2>4, <2>5 DEF OtherTypes, outVars, trainVars
  <1>5. CASE StaticChunk
    <2>1. PICK S \in SUBSET todo : OpenBin(S) /\ todo' = todo \ S
      BY <1>5 DEF StaticChunk
    <2>2. bins' = Append(bins, S) /\ bins \in Seq(SUBSET Samples) /\ S \in SUBSET Samples
      BY <1>a, <2>1 DEF OtherTypes, OpenBin
    <2>3. bins' \in Seq(SUBSET Samples) /\ Len(bins') = Len(bins) + 1
      BY <2>2, AppendProperties
    <2>4. TokensOf(S) \in Nat
      BY <1>a, <2>2, SubsetFacts DEF TokensOf, OtherTypes
    <2>5. sums' = Append(sums, TokensOf(S)) /\ sums \in Seq(Nat)
      BY <1>a, <2>1 DEF OtherTypes, OpenBin
    <2>6. sums' \in Seq(Nat)
      BY <2>4, <2>5, AppendProperties
    <2>7. UNCHANGED <<pc, step, cut, outVars, trainVars>> /\ todo' \subseteq Samples
      BY <1>a, <1>5, <2>1 DEF StaticChunk, OtherTypes
    <2> QED
      BY <1>1, <1>a, <1>c, <2>3, <2>6, <2>7 DEF OtherTypes, outVars, trainVars
  <1>6. CASE Packed \/ StaticMisaligned \/ CannotSplit
    BY <1>1, <1>a, <1>6
    DEF Packed, StaticMisaligned, CannotSplit, OtherTypes, Stops, packVars, outVars, trainVars
  <1>7. CASE StartSplit
    <2>1. PICK j \in 1 .. Len(bins) :
            cut' = [at |-> j, rest |-> bins[j], left |-> {}, right |-> {}]
      BY <1>7 DEF StartSplit
    <2>2. bins[j] \in SUBSET Samples
      BY <1>a DEF OtherTypes
    <2>3. cut' \in [at : 0 .. Len(bins), rest : SUBSET Samples,
                    left : SUBSET Samples, right : SUBSET Samples]
      BY <1>c, <2>1, <2>2
    <2>4. pc' = "split" /\ UNCHANGED <<step, packVars, outVars, trainVars>>
      BY <1>7 DEF StartSplit
    <2> QED
      BY <1>1, <1>a, <2>3, <2>4 DEF OtherTypes, packVars, outVars, trainVars
  <1>8. CASE SplitOne
    <2>1. cut \in [at : 0 .. Len(bins), rest : SUBSET Samples,
                   left : SUBSET Samples, right : SUBSET Samples]
      BY <1>a DEF OtherTypes
    <2>2. PICK i \in cut.rest :
            cut' = IF TokensOf(cut.left) <= TokensOf(cut.right)
                     THEN [cut EXCEPT !.rest = @ \ {i}, !.left = @ \cup {i}]
                     ELSE [cut EXCEPT !.rest = @ \ {i}, !.right = @ \cup {i}]
      BY <1>8 DEF SplitOne
    <2>3. cut' \in [at : 0 .. Len(bins), rest : SUBSET Samples,
                    left : SUBSET Samples, right : SUBSET Samples]
      BY <2>1, <2>2
    <2>4. UNCHANGED <<pc, step, packVars, outVars, trainVars>>
      BY <1>8 DEF SplitOne
    <2> QED
      BY <1>1, <1>a, <2>3, <2>4 DEF OtherTypes, packVars, outVars, trainVars
  <1>9. CASE SplitDone
    <2>1. bins \in Seq(SUBSET Samples) /\ cut.left \in SUBSET Samples /\ cut.right \in SUBSET Samples
      BY <1>a DEF OtherTypes
    <2> DEFINE b == [bins EXCEPT ![cut.at] = cut.left]
    <2>2. b \in Seq(SUBSET Samples)
      BY <2>1, SeqExcept
    <2>3. bins' = Append(b, cut.right)
      BY <1>9 DEF SplitDone, SplitInto
    <2> HIDE DEF b
    <2>4. bins' \in Seq(SUBSET Samples) /\ Len(bins') \in Nat
      BY <2>1, <2>2, <2>3, AppendProperties
    <2>5. cut' \in [at : 0 .. Len(bins'), rest : SUBSET Samples,
                    left : SUBSET Samples, right : SUBSET Samples]
      BY <1>9, <2>4 DEF SplitDone, NoCut
    <2> QED
      BY <1>1, <1>a, <1>9, <2>4, <2>5 DEF SplitDone, OtherTypes, outVars, trainVars
  <1>10. CASE AddState \/ MergeStates
    BY <1>1, <1>a, <1>10 DEF AddState, MergeStates, OtherTypes, packVars, outVars, trainVars
  <1>11. CASE Balanced
    <2>1. PICK f \in kk.states :
            /\ kk.equal => bins' = bins
            /\ ~kk.equal => bins' = bins \/ bins' = f
      BY <1>11 DEF Balanced
    <2>2. cut = NoCut
      BY <1>11 DEF Balanced, PhaseInv
    <2>3. bins' \in Seq(SUBSET Samples) /\ Len(bins') \in Nat
      <3>1. kk.k \in Nat /\ (~kk.equal => f \in [1 .. kk.k -> SUBSET Samples])
        BY TypeParts DEF KkType
      <3>2. ~kk.equal => f \in Seq(SUBSET Samples)
        BY <3>1
      <3>3. kk.equal \in BOOLEAN
        BY TypeParts DEF KkType
      <3> QED
        BY <1>a, <2>1, <3>2, <3>3 DEF OtherTypes
    <2>4. cut' \in [at : 0 .. Len(bins'), rest : SUBSET Samples,
                    left : SUBSET Samples, right : SUBSET Samples]
      BY <1>11, <2>2, <2>3 DEF Balanced, NoCut
    <2> QED
      BY <1>1, <1>a, <1>11, <2>3, <2>4 DEF Balanced, OtherTypes, Stops, outVars, trainVars
  <1>12. CASE Deal
    <2>1. Len(bins) \div conf.dp \in Nat
      <3> DEFINE l == Len(bins)
                 d == conf.dp
      <3>1. d \in Nat \ {0}
        BY <1>a, ConfFacts DEF OtherTypes
      <3>2. l \in Nat
        BY <1>c
      <3> HIDE DEF l, d
      <3>3. l \div d \in Nat
        BY ONLY <3>1, <3>2
      <3> QED
        BY <3>3 DEF l, d
    <2>2. counts \in Seq(Nat) /\ counts' = Append(counts, Len(bins) \div conf.dp)
      BY <1>a, <1>12 DEF OtherTypes, Deal
    <2>3. counts' \in Seq(Nat)
      BY <2>1, <2>2, AppendProperties
    <2> QED
      BY <1>1, <1>a, <1>12, <2>3 DEF Deal, OtherTypes, Stops, packVars, trainVars
  <1>13. CASE \E r \in Ranks : Place(r)
    <2>1. PICK r \in Ranks : Place(r)
      BY <1>13
    <2>2. PICK m \in share[r] : parts' = [parts EXCEPT ![r] = Append(@, bins[m])]
      BY <2>1 DEF Place
    <2>3. bins[m] \in SUBSET Samples
      BY <1>a, <1>b DEF OtherTypes, ShareType
    <2>4. parts \in [Ranks -> Seq(SUBSET Samples)]
      BY <1>a DEF OtherTypes
    <2>5. Append(parts[r], bins[m]) \in Seq(SUBSET Samples)
      BY <2>3, <2>4, AppendProperties
    <2>6. parts' \in [Ranks -> Seq(SUBSET Samples)]
      BY <2>2, <2>4, <2>5
    <2> QED
      BY <1>1, <1>a, <2>1, <2>6 DEF Place, OtherTypes, packVars, trainVars
  <1>14. CASE EndStep
    <2>1. cut' \in [at : 0 .. Len(bins'), rest : SUBSET Samples,
                    left : SUBSET Samples, right : SUBSET Samples]
      BY <1>14 DEF EndStep, PhaseInv, NoCut
    <2> QED
      BY <1>1, <1>a, <1>14, <2>1 DEF EndStep, OtherTypes, outVars, trainVars
  <1>15. CASE TrainOneStep
    <2>1. counts[step] \in Nat
      BY <1>a, <1>15 DEF TrainOneStep, OtherTypes
    <2>7. offset' \in Nat /\ step' \in Nat \ {0}
      <3>1. offset \in Nat /\ step \in Nat \ {0}
        BY <1>a DEF OtherTypes
      <3>2. offset' = offset + counts[step] /\ step' = step + 1
        BY <1>15 DEF TrainOneStep
      <3> QED
        BY <2>1, <3>1, <3>2
    <2> QED
      BY <1>1, <1>a, <1>15, <2>7 DEF TrainOneStep, OtherTypes, packVars, outVars
  <1>16. CASE Finished \/ UNCHANGED vars
    BY <1>1, <1>a, <1>16 DEF Finished, vars, OtherTypes, packVars, outVars, trainVars
  <1> QED
    BY <1>2, <1>3, <1>4, <1>5, <1>6, <1>7, <1>8, <1>9, <1>10, <1>11, <1>12, <1>13, <1>14, <1>15, <1>16
    DEF Next

LEMMA NextKkType ==
    ASSUME TypeOK, PhaseInv, [Next]_vars
    PROVE  KkType'
  <1>1. Ranks' = Ranks /\ Samples' = Samples /\ batch' = batch /\ conf' = conf
    BY InputFixed, InputSame
  <1>a. OtherTypes
    BY TypeParts
  <1>b. KkType
    BY TypeParts
  <1>c. kk' = NoKk => KkType'
    BY DEF KkType, NoKk
  <1>2. CASE TooFewRollouts \/ TooFewSamples
    BY <1>1, <1>b, <1>2 DEF TooFewRollouts, TooFewSamples, KkType, packVars
  <1>3. CASE StartStep
    <2>1. kk = NoKk
      BY <1>3 DEF StartStep, PhaseInv
    <2>2. CASE kk' = kk
      BY <1>c, <2>1, <2>2
    <2>3. CASE kk' # kk
      <3>1. kk' = [k |-> NumMbs(step), equal |-> FALSE, rest |-> StepSamples(step), states |-> {}]
        BY <1>3, <2>3 DEF StartStep
      <3>2. StepSamples(step) \in SUBSET Samples
        BY DEF StepSamples
      <3>3. NumMbs(step) \in Nat \ {0}
        <4> DEFINE t == TokensOf(StepSamples(step))
                   c == conf.cap
        <4>1. t \in Nat
          BY <1>a, <3>2, SubsetFacts DEF TokensOf, OtherTypes
        <4>2. c \in Nat \ {0}
          BY <1>a, ConfFacts DEF OtherTypes
        <4> HIDE DEF t, c
        <4>3. (t + c - 1) \div c \in Int
          BY ONLY <4>1, <4>2
        <4>4. NumMbs(step) = IF 1 > (t + c - 1) \div c THEN 1 ELSE (t + c - 1) \div c
          BY DEF NumMbs, MaxOf, CeilDiv, t, c
        <4> QED
          BY ONLY <4>3, <4>4
      <3> QED
        BY <1>1, <3>1, <3>2, <3>3 DEF KkType
    <2> QED
      BY <2>2, <2>3
  <1>4. CASE \/ \E i \in todo : FirstFit(i)
             \/ StaticChunk \/ Packed \/ StaticMisaligned \/ CannotSplit
             \/ StartSplit \/ SplitOne \/ SplitDone \/ EndStep \/ TrainOneStep
             \/ \E r \in Ranks : Place(r)
    <2>1. kk = NoKk /\ kk' = kk
      BY <1>4 DEF FirstFit, StaticChunk, Packed, StaticMisaligned, CannotSplit, Misaligned, StartSplit,
                  SplitOne, SplitDone, EndStep, TrainOneStep, Place, PhaseInv
    <2> QED
      BY <1>c, <2>1
  <1>5. CASE AddState
    <2>1. PICK f \in IF kk.equal THEN [1..kk.k -> {{x} : x \in kk.rest}]
                     ELSE {[n \in 1..kk.k |-> IF n = 1 THEN {x} ELSE {}] : x \in kk.rest} :
            kk' = [kk EXCEPT !.rest = @ \ UNION {f[n] : n \in 1..kk.k}, !.states = @ \cup {f}]
      BY <1>5 DEF AddState
    <2> DEFINE items == IF kk.equal THEN 1 .. Len(bins) ELSE Samples
               R == kk.rest \ UNION {f[n] : n \in 1..kk.k}
               S == kk.states \cup {f}
    <2>2. kk \in [k : Nat \ {0}, equal : BOOLEAN, rest : SUBSET items,
                  states : SUBSET [1 .. kk.k -> SUBSET items]]
      BY <1>b DEF KkType
    <2> HIDE DEF items
    <2>3. f \in [1 .. kk.k -> SUBSET items]
      <3>1. CASE kk.equal
        BY <2>1, <2>2, <3>1
      <3>2. CASE ~kk.equal
        BY <2>1, <2>2, <3>2
      <3> QED
        BY <3>1, <3>2
    <2>4. R \in SUBSET items /\ S \in SUBSET [1 .. kk.k -> SUBSET items]
      BY <2>2, <2>3
    <2>5. kk' = [k |-> kk.k, equal |-> kk.equal, rest |-> R, states |-> S]
      BY <2>1, <2>2
    <2> HIDE DEF R, S
    <2>6. items' = items
      BY <1>1, <1>5, <2>5 DEF items, AddState, packVars
    <2>7. kk' \in [k : Nat \ {0}, equal : BOOLEAN, rest : SUBSET items,
                   states : SUBSET [1 .. kk'.k -> SUBSET items]]
      BY <2>2, <2>4, <2>5
    <2> QED
      BY <2>6, <2>7 DEF KkType, items
  <1>6. CASE MergeStates
    <2>1. PICK f \in kk.states, g \in kk.states, order \in Injection(1..kk.k, 1..kk.k) :
            kk' = [kk EXCEPT !.states = (@ \ {f, g}) \cup {Merged(f, g, order)}]
      BY <1>6 DEF MergeStates
    <2> DEFINE items == IF kk.equal THEN 1 .. Len(bins) ELSE Samples
               S == (kk.states \ {f, g}) \cup {Merged(f, g, order)}
    <2>2. kk \in [k : Nat \ {0}, equal : BOOLEAN, rest : SUBSET items,
                  states : SUBSET [1 .. kk.k -> SUBSET items]]
      BY <1>b DEF KkType
    <2> HIDE DEF items
    <2>3. Merged(f, g, order) \in [1 .. kk.k -> SUBSET items]
      <3>1. order \in [1 .. kk.k -> 1 .. kk.k]
        BY DEF Injection
      <3>2. \A n \in 1 .. kk.k : kk.k + 1 - order[n] \in 1 .. kk.k
        BY <2>2, <3>1
      <3>3. f \in [1 .. kk.k -> SUBSET items] /\ g \in [1 .. kk.k -> SUBSET items]
        BY <2>2
      <3> QED
        BY <3>1, <3>2, <3>3 DEF Merged, Opposite
    <2>4. S \in SUBSET [1 .. kk.k -> SUBSET items]
      BY <2>2, <2>3
    <2>5. kk' = [k |-> kk.k, equal |-> kk.equal, rest |-> kk.rest, states |-> S]
      BY <2>1, <2>2
    <2> HIDE DEF S
    <2>6. items' = items
      BY <1>1, <1>6, <2>5 DEF items, MergeStates, packVars
    <2>7. kk' \in [k : Nat \ {0}, equal : BOOLEAN, rest : SUBSET items,
                   states : SUBSET [1 .. kk'.k -> SUBSET items]]
      BY <2>2, <2>4, <2>5
    <2> QED
      BY <2>6, <2>7 DEF KkType, items
  <1>7. CASE Balanced
    BY <1>c, <1>7 DEF Balanced
  <1>8. CASE Deal
    <2>1. CASE kk' = kk
      BY <1>1, <1>b, <1>8, <2>1 DEF Deal, KkType, packVars
    <2>2. CASE kk' # kk
      <3>1. kk' = [k |-> conf.dp, equal |-> TRUE, rest |-> 1 .. Len(bins), states |-> {}]
        BY <1>8, <2>2 DEF Deal
      <3>2. bins' = bins /\ conf.dp \in Nat \ {0}
        BY <1>a, <1>8, ConfFacts DEF Deal, packVars, OtherTypes
      <3> QED
        BY <3>1, <3>2 DEF KkType
    <2> QED
      BY <2>1, <2>2
  <1>9. CASE Finished \/ UNCHANGED vars
    BY <1>1, <1>b, <1>9 DEF Finished, vars, KkType, packVars
  <1> QED
    BY <1>2, <1>3, <1>4, <1>5, <1>6, <1>7, <1>8, <1>9 DEF Next

LEMMA NextShareType ==
    ASSUME TypeOK, PhaseInv, KarmarkarInv, [Next]_vars
    PROVE  ShareType'
  <1>1. Ranks' = Ranks
    BY InputFixed, InputSame
  <1>a. ShareType
    BY TypeParts
  <1>c. (\A r \in Ranks : share[r] = {}) /\ share' = share => ShareType'
    BY <1>1, <1>a DEF ShareType
  <1>2. CASE \/ TooFewRollouts \/ TooFewSamples \/ StartStep
             \/ \E i \in todo : FirstFit(i)
             \/ StaticChunk \/ Packed \/ StaticMisaligned \/ CannotSplit
             \/ StartSplit \/ SplitOne \/ SplitDone \/ TrainOneStep \/ AddState \/ MergeStates
    <2>1. pc # "place" /\ share' = share
      BY <1>2 DEF TooFewRollouts, TooFewSamples, StartStep, FirstFit, StaticChunk, Packed, StaticMisaligned,
                  CannotSplit, Misaligned, StartSplit, SplitOne, SplitDone, TrainOneStep, AddState, MergeStates
    <2> QED
      BY <1>c, <2>1 DEF PhaseInv
  <1>3. CASE Balanced
    <2>1. PICK f \in kk.states : share' = share \/ (share' = f /\ kk.equal /\ bins' = bins)
      BY <1>3 DEF Balanced
    <2>2. \A r \in Ranks : share[r] = {}
      BY <1>3 DEF Balanced, PhaseInv
    <2>3. CASE share' = share
      BY <1>c, <2>2, <2>3
    <2>4. CASE share' = f /\ kk.equal /\ bins' = bins
      <3>1. f \in [1 .. kk.k -> SUBSET (1 .. Len(bins))]
        BY <2>4, TypeParts DEF KkType
      <3>2. kk.equal = TRUE /\ kk.k = conf.dp
        BY <1>3, <2>4, TypeParts DEF Balanced, Balancing, KarmarkarInv, KkType
      <3> QED
        BY <1>1, <2>4, <3>1, <3>2 DEF ShareType, Ranks
    <2> QED
      BY <2>1, <2>3, <2>4
  <1>4. CASE Deal
    <2>1. bins' = bins /\ (share' = share \/ share' = [r \in Ranks |-> Strided(r)])
      BY <1>4 DEF Deal, packVars
    <2> QED
      BY <1>1, <1>a, <2>1 DEF ShareType, Strided
  <1>5. CASE \E r \in Ranks : Place(r)
    BY <1>1, <1>a, <1>5 DEF Place, ShareType, packVars
  <1>6. CASE EndStep
    BY <1>c, <1>6 DEF EndStep
  <1>7. CASE Finished \/ UNCHANGED vars
    BY <1>1, <1>a, <1>7 DEF Finished, vars, ShareType, packVars
  <1> QED
    BY <1>2, <1>3, <1>4, <1>5, <1>6, <1>7 DEF Next
-----------------------------------------------------------------------------
(***************************************************************************)
(* Packing and splitting                                                   *)
(***************************************************************************)
LEMMA SumAdd ==
    ASSUME batch \in Batches, NEW S \in SUBSET Samples, NEW i \in Samples \ S
    PROVE  SumFunctionOnSet(batch.lengths, S \cup {i}) =
               SumFunctionOnSet(batch.lengths, S) + batch.lengths[i]
  <1> DEFINE T == S \cup {i}
             w == batch.lengths
  <1>1. T \in SUBSET Samples /\ i \in T /\ T \ {i} = S
    OBVIOUS
  <1>2. IsFiniteSet(T)
    BY <1>1, SubsetFacts
  <1>3. \A x \in T : w[x] \in Nat
    BY <1>1, BatchFacts
  <1>4. SumFunctionOnSet(w, S) \in Nat
    BY SubsetFacts
  <1> HIDE DEF T, w
  <1>5. SumFunctionOnSet(w, T) = w[i] + SumFunctionOnSet(w, T \ {i})
    BY <1>1, <1>2, <1>3, SumRemove
  <1>6. w[i] \in Nat
    BY <1>1, <1>3
  <1>7. T \ {i} = S
    BY <1>1
  <1>8. SumFunctionOnSet(w, T) = w[i] + SumFunctionOnSet(w, S)
    BY ONLY <1>5, <1>7
  <1>9. SumFunctionOnSet(w, T) = SumFunctionOnSet(w, S) + w[i]
    BY ONLY <1>4, <1>6, <1>8
  <1> QED
    BY <1>9 DEF T, w

LEMMA PartitionEmpty == Partition(<<>>, {})
  BY DEF Partition

LEMMA PartitionAppend ==
    ASSUME NEW U, NEW b \in Seq(SUBSET U), NEW S \in SUBSET U, Partition(b, S),
           NEW X \in SUBSET U, X # {}, X \cap S = {}
    PROVE  Partition(Append(b, X), S \cup X)
  <1> DEFINE c == Append(b, X)
  <1>1. Len(b) \in Nat
    OBVIOUS
  <1>2. Len(c) = Len(b) + 1 /\ c[Len(b) + 1] = X
    BY AppendProperties
  <1>3. \A j \in 1 .. Len(b) : c[j] = b[j]
    BY AppendProperties
  <1> HIDE DEF c
  <1>4. \A j : j \in 1 .. Len(c) <=> j \in 1 .. Len(b) \/ j = Len(b) + 1
    BY <1>1, <1>2
  <1>5. \A j \in 1 .. Len(c) : c[j] # {} /\ c[j] \subseteq S \cup X
    BY <1>2, <1>3, <1>4 DEF Partition
  <1>6. \A j, l \in 1 .. Len(c) : j # l => c[j] \cap c[l] = {}
    BY <1>2, <1>3, <1>4 DEF Partition
  <1>7. \A i \in S \cup X : \E j \in 1 .. Len(c) : i \in c[j]
    BY <1>2, <1>3, <1>4 DEF Partition
  <1> QED
    BY <1>5, <1>6, <1>7 DEF Partition, c

LEMMA PartitionGrow ==
    ASSUME NEW U, NEW b \in Seq(SUBSET U), NEW S \in SUBSET U, Partition(b, S),
           NEW i \in U \ S, NEW j \in 1 .. Len(b)
    PROVE  Partition([b EXCEPT ![j] = @ \cup {i}], S \cup {i})
  <1> DEFINE c == [b EXCEPT ![j] = @ \cup {i}]
  <1>1. Len(c) = Len(b) /\ c[j] = b[j] \cup {i}
    OBVIOUS
  <1>2. \A l \in 1 .. Len(b) : l # j => c[l] = b[l]
    OBVIOUS
  <1> HIDE DEF c
  <1>3. \A l \in 1 .. Len(c) : c[l] # {} /\ c[l] \subseteq S \cup {i}
    BY <1>1, <1>2 DEF Partition
  <1>4. \A l, m \in 1 .. Len(c) : l # m => c[l] \cap c[m] = {}
    BY <1>1, <1>2 DEF Partition
  <1>5. \A x \in S \cup {i} : \E l \in 1 .. Len(c) : x \in c[l]
    BY <1>1, <1>2 DEF Partition
  <1> QED
    BY <1>3, <1>4, <1>5 DEF Partition, c

LEMMA PartitionSplit ==
    ASSUME NEW U, NEW b \in Seq(SUBSET U), NEW S \in SUBSET U, Partition(b, S),
           NEW j \in 1 .. Len(b), NEW L, NEW R, b[j] = L \cup R, L \cap R = {}, L # {}, R # {},
           NEW c, c = [b EXCEPT ![j] = L]
    PROVE  Partition(Append(c, R), S)
  <1>1. c \in Seq(SUBSET U) /\ Len(c) = Len(b) /\ c[j] = L
    OBVIOUS
  <1>2. \A l \in 1 .. Len(b) : l # j => c[l] = b[l]
    OBVIOUS
  <1>3. Partition(c, S \ R)
    <2>1. \A l \in 1 .. Len(c) : c[l] # {} /\ c[l] \subseteq S \ R
      BY <1>1, <1>2 DEF Partition
    <2>4. \A l \in 1 .. Len(c) : c[l] \subseteq b[l]
      BY <1>1, <1>2
    <2>5. \A l, m \in 1 .. Len(c) : l # m => b[l] \cap b[m] = {}
      BY <1>1 DEF Partition
    <2>2. \A l, m \in 1 .. Len(c) : l # m => c[l] \cap c[m] = {}
      BY ONLY <2>4, <2>5
    <2>3. \A x \in S \ R : \E l \in 1 .. Len(c) : x \in c[l]
      BY <1>1, <1>2 DEF Partition
    <2> QED
      BY <2>1, <2>2, <2>3 DEF Partition
  <1>4. R \subseteq S
    BY DEF Partition
  <1>5. Partition(Append(c, R), (S \ R) \cup R)
    BY <1>1, <1>3, <1>4, PartitionAppend, S \ R \in SUBSET U, R \in SUBSET U, R \cap (S \ R) = {}
  <1>6. (S \ R) \cup R = S
    BY <1>4
  <1> QED
    BY <1>5, <1>6

\* The samples of a bin with the sample first_fit_pack adds to it
LEMMA PackOne ==
    ASSUME TypeOK, BinsInv, SumsInv, NEW i \in todo, FirstFit(i)
    PROVE  /\ i \in Current /\ i \in Samples
           /\ Partition(bins', Current \ todo')
           /\ conf.dynamic /\ ~conf.byFlops => \A j \in 1 .. Len(bins') :
                  \/ SumFunctionOnSet(batch.lengths, bins'[j]) <= conf.cap
                  \/ Cardinality(bins'[j]) = 1
           /\ Len(sums') = Len(bins')
           /\ \A j \in 1 .. Len(bins') : sums'[j] = SumFunctionOnSet(batch.lengths, bins'[j])
  <1>1. pc = "pack" /\ todo' = todo \ {i}
    BY DEF FirstFit
  <1>2. batch \in Batches /\ conf \in Configs /\ bins \in Seq(SUBSET Samples) /\ sums \in Seq(Nat)
    BY DEF TypeOK
  <1>3. /\ todo \subseteq Current
        /\ Partition(bins, Current \ todo)
        /\ \A j \in 1 .. Len(bins) : Capped(bins[j])
    BY <1>1 DEF BinsInv, Binned
  <1>4. /\ Len(sums) = Len(bins)
        /\ \A j \in 1 .. Len(bins) : sums[j] = SumFunctionOnSet(batch.lengths, bins[j])
    BY <1>1 DEF SumsInv
  <1>5. Current \in SUBSET Samples
    BY StepsFacts DEF Current, TypeOK
  <1>6. i \in Current /\ i \in Samples
    BY <1>3, <1>5
  <1>7. Current \ todo' = (Current \ todo) \cup {i} /\ i \notin Current \ todo
    BY <1>1, <1>6
  <1>8. CASE OpenBin({i})
    <2>1. bins' = Append(bins, {i}) /\ sums' = Append(sums, SumFunctionOnSet(batch.lengths, {i}))
      BY <1>8 DEF OpenBin, TokensOf
    <2>2. SumFunctionOnSet(batch.lengths, {i}) \in Nat
      BY <1>2, <1>6, SubsetFacts
    <2>3. Len(bins') = Len(bins) + 1 /\ bins'[Len(bins) + 1] = {i}
          /\ \A j \in 1 .. Len(bins) : bins'[j] = bins[j]
      BY <1>2, <1>6, <2>1, AppendProperties
    <2>4. Len(sums') = Len(sums) + 1 /\ sums'[Len(sums) + 1] = SumFunctionOnSet(batch.lengths, {i})
          /\ \A j \in 1 .. Len(sums) : sums'[j] = sums[j]
      BY <1>2, <2>1, <2>2, AppendProperties
    <2>5. Partition(bins', (Current \ todo) \cup {i})
      <3>1. {i} \cap (Current \ todo) = {} /\ {i} # {} /\ {i} \in SUBSET Samples /\ Current \ todo \in SUBSET Samples
        BY <1>5, <1>6, <1>7
      <3> QED
        BY <1>2, <1>3, <2>1, <3>1, PartitionAppend
    <2>6. Cardinality({i}) = 1
      BY FS_Singleton
    <2>7. \A j : j \in 1 .. Len(bins') <=> j \in 1 .. Len(bins) \/ j = Len(bins) + 1
      BY <1>2, <2>3
    <2>8. conf.dynamic /\ ~conf.byFlops => \A j \in 1 .. Len(bins') :
                  \/ SumFunctionOnSet(batch.lengths, bins'[j]) <= conf.cap
                  \/ Cardinality(bins'[j]) = 1
      BY <1>3, <2>3, <2>6, <2>7 DEF Capped
    <2>9. \A j \in 1 .. Len(bins') : sums'[j] = SumFunctionOnSet(batch.lengths, bins'[j])
      BY <1>4, <2>3, <2>4, <2>7
    <2> QED
      BY <1>4, <1>6, <1>7, <2>3, <2>4, <2>5, <2>8, <2>9
  <1>9. CASE \E j \in 1 .. Len(bins) :
               /\ Fits(j, i)
               /\ bins' = [bins EXCEPT ![j] = @ \cup {i}]
               /\ sums' = [sums EXCEPT ![j] = @ + Length(i)]
    <2>1. PICK j \in 1 .. Len(bins) :
               /\ Fits(j, i)
               /\ bins' = [bins EXCEPT ![j] = @ \cup {i}]
               /\ sums' = [sums EXCEPT ![j] = @ + Length(i)]
      BY <1>9
    <2>2. Len(bins') = Len(bins) /\ bins'[j] = bins[j] \cup {i}
          /\ \A l \in 1 .. Len(bins) : l # j => bins'[l] = bins[l]
      BY <1>2, <2>1
    <2>3. Len(sums') = Len(sums) /\ sums'[j] = sums[j] + batch.lengths[i]
          /\ \A l \in 1 .. Len(sums) : l # j => sums'[l] = sums[l]
      BY <1>2, <1>4, <2>1 DEF Length
    <2>4. Partition(bins', (Current \ todo) \cup {i})
      <3>1. Current \ todo \in SUBSET Samples /\ i \in Samples \ (Current \ todo)
        BY <1>5, <1>6, <1>7
      <3> QED
        BY <1>2, <1>3, <2>1, <3>1, PartitionGrow
    <2>5. bins[j] \in SUBSET Samples /\ i \in Samples \ bins[j]
      BY <1>2, <1>3, <1>6, <1>7 DEF Partition
    <2>6. SumFunctionOnSet(batch.lengths, bins'[j]) = sums'[j]
      BY <1>2, <1>4, <2>2, <2>3, <2>5, SumAdd
    <2>7. sums'[j] <= conf.cap
      BY <2>1, <2>3 DEF Fits, Length
    <2>8. conf.dynamic /\ ~conf.byFlops => \A l \in 1 .. Len(bins') :
                  \/ SumFunctionOnSet(batch.lengths, bins'[l]) <= conf.cap
                  \/ Cardinality(bins'[l]) = 1
      BY <1>3, <2>2, <2>6, <2>7 DEF Capped
    <2>9. \A l \in 1 .. Len(bins') : sums'[l] = SumFunctionOnSet(batch.lengths, bins'[l])
      BY <1>4, <2>2, <2>3, <2>6
    <2> QED
      BY <1>4, <1>6, <1>7, <2>2, <2>3, <2>4, <2>8, <2>9
  <1> QED
    BY <1>8, <1>9 DEF FirstFit

LEMMA BinsSame ==
    ASSUME BinsInv, batch' = batch, conf' = conf, step' = step, todo' = todo, bins' = bins,
           Binned' => Binned
    PROVE  BinsInv'
  <1>1. Steps' = Steps
    BY InputSame
  <1> QED
    BY <1>1 DEF BinsInv, Current, Capped

\* The halves of the bin when everything in it is distributed
LEMMA Halves ==
    ASSUME TypeOK, CutInv, pc = "split", cut.rest = {}
    PROVE  /\ cut.at \in 1 .. Len(bins)
           /\ bins[cut.at] = cut.left \cup cut.right
           /\ cut.left \cap cut.right = {}
           /\ cut.left # {} /\ cut.right # {}
           /\ Cardinality(bins[cut.at]) > 1
  <1>1. /\ cut.at \in 1 .. Len(bins)
        /\ bins[cut.at] = cut.left \cup cut.right
        /\ cut.left \cap cut.right = {}
    BY DEF CutInv
  <1>4. Cardinality(bins[cut.at]) > 1
    BY DEF CutInv
  <1>2. ASSUME cut.left = {} PROVE FALSE
    <2>1. bins[cut.at] = {}
      BY <1>1, <1>2 DEF CutInv
    <2>2. Cardinality(bins[cut.at]) = 0
      BY ONLY <2>1, FS_EmptySet, Zenon
    <2> QED
      BY ONLY <1>4, <2>2
  <1>3. ASSUME cut.right = {} PROVE FALSE
    <2>1. PICK i : cut.left = {i}
      BY <1>2, <1>3 DEF CutInv
    <2>2. bins[cut.at] = {i}
      BY <1>1, <1>3, <2>1
    <2>3. Cardinality(bins[cut.at]) = 1
      BY ONLY <2>2, FS_Singleton, Zenon
    <2> QED
      BY ONLY <1>4, <2>3
  <1> QED
    BY <1>1, <1>2, <1>3, <1>4

\* AddState and MergeStates leave the arguments of karmarkar_karp alone.
LEMMA ItemsTaken ==
    ASSUME TypeOK, AddState \/ MergeStates
    PROVE  kk'.equal = kk.equal /\ kk'.k = kk.k
  <1>1. kk \in [k : Nat \ {0}, equal : BOOLEAN,
                rest : SUBSET (IF kk.equal THEN 1 .. Len(bins) ELSE Samples),
                states : SUBSET [1 .. kk.k -> SUBSET (IF kk.equal THEN 1 .. Len(bins) ELSE Samples)]]
    BY TypeParts DEF KkType
  <1>2. CASE AddState
    <2>1. PICK f, taken : kk' = [kk EXCEPT !.rest = @ \ taken, !.states = @ \cup {f}]
      BY <1>2, Zenon DEF AddState
    <2> QED
      BY <1>1, <2>1
  <1>3. CASE MergeStates
    <2>1. PICK f, g, h : kk' = [kk EXCEPT !.states = (@ \ {f, g}) \cup {h}]
      BY <1>3, Zenon DEF MergeStates
    <2> QED
      BY <1>1, <2>1
  <1> QED
    BY <1>2, <1>3

LEMMA NextBinsInv ==
    ASSUME TypeOK, PhaseInv, BinsInv, SumsInv, CutInv, KarmarkarInv, [Next]_vars
    PROVE  BinsInv'
  <1>1. batch' = batch /\ conf' = conf /\ Steps' = Steps /\ Samples' = Samples
    BY InputFixed, InputSame
  <1>a. batch \in Batches /\ conf \in Configs /\ bins \in Seq(SUBSET Samples) /\ step \in Nat
    BY DEF TypeOK
  <1>b. Current \in SUBSET Samples
    BY <1>a, StepsFacts DEF Current
  <1>2. CASE TooFewRollouts \/ TooFewSamples \/ EndStep \/ TrainOneStep
    <2>1. ~Binned'
      BY <1>2 DEF TooFewRollouts, TooFewSamples, EndStep, TrainOneStep, Binned, Balancing
    <2> QED
      BY <2>1 DEF BinsInv
  <1>3. CASE StartStep
    <2>1. CASE pc' = "karmarkar"
      <3>1. kk'.equal = FALSE
        BY <1>3, <2>1 DEF StartStep
      <3> QED
        BY <2>1, <3>1 DEF BinsInv, Binned, Balancing
    <2>2. CASE pc' # "karmarkar"
      <3>1. todo' = Steps[step] /\ bins' = <<>> /\ step' = step
        BY <1>3, <1>a, <2>2, StepsFacts DEF StartStep
      <3>2. Current' = Current /\ Current' \ todo' = {}
        BY <1>1, <3>1 DEF Current
      <3>3. Len(bins') = 0
        BY <3>1
      <3>4. \A j \in 1 .. Len(bins') : FALSE
        BY <3>3
      <3>5. Partition(bins', Current' \ todo')
        BY <3>1, <3>2, PartitionEmpty
      <3>6. todo' \subseteq Current'
        BY <3>1, <3>2 DEF Current
      <3> QED
        BY <3>4, <3>5, <3>6 DEF BinsInv
    <2> QED
      BY <2>1, <2>2
  <1>4. CASE \E i \in todo : FirstFit(i)
    <2>1. PICK i \in todo : FirstFit(i)
      BY <1>4
    <2>2. step' = step /\ todo' = todo \ {i} /\ pc = "pack"
      BY <2>1 DEF FirstFit
    <2>3. todo' \subseteq Current' /\ Current' = Current
      BY <1>1, <2>2 DEF BinsInv, Binned, Current
    <2> QED
      BY <1>1, <2>1, <2>3, PackOne DEF BinsInv, Capped
  <1>5. CASE StaticChunk
    <2>1. PICK S \in SUBSET todo : S # {} /\ OpenBin(S) /\ todo' = todo \ S
      BY <1>5 DEF StaticChunk
    <2>2. pc = "pack" /\ ~conf.dynamic /\ step' = step
      BY <1>5 DEF StaticChunk
    <2>3. todo \subseteq Current /\ Partition(bins, Current \ todo)
      BY <2>2 DEF BinsInv, Binned
    <2>4. bins' = Append(bins, S)
      BY <2>1 DEF OpenBin
    <2>5. S \cap (Current \ todo) = {} /\ S \in SUBSET Samples /\ Current \ todo \in SUBSET Samples
      BY <1>b, <2>3
    <2>6. Partition(bins', (Current \ todo) \cup S)
      BY <1>a, <2>1, <2>3, <2>4, <2>5, PartitionAppend
    <2>7. (Current \ todo) \cup S = Current \ todo'
      BY <2>1, <2>3
    <2>8. Current' = Current /\ todo' \subseteq Current'
      BY <1>1, <2>1, <2>2, <2>3 DEF Current
    <2>9. Partition(bins', Current' \ todo')
      BY ONLY <2>6, <2>7, <2>8
    <2> QED
      BY <1>1, <2>2, <2>8, <2>9 DEF BinsInv, Capped
  <1>6. CASE Packed \/ StaticMisaligned \/ CannotSplit \/ StartSplit \/ SplitOne
    <2>1. Binned /\ step' = step /\ todo' = todo /\ bins' = bins
      BY <1>6 DEF Packed, StaticMisaligned, CannotSplit, Misaligned, StartSplit, SplitOne, Binned, packVars
    <2> QED
      BY <1>1, <2>1, BinsSame
  <1>7. CASE SplitDone
    <2>1. pc = "split" /\ cut.rest = {} /\ step' = step /\ todo' = todo
      BY <1>7 DEF SplitDone
    <2> DEFINE j == cut.at
               b == bins[j]
               L == cut.left
               R == cut.right
    <2>2. j \in 1 .. Len(bins) /\ b = L \cup R /\ L \cap R = {} /\ L # {} /\ R # {} /\ Cardinality(b) > 1
      BY <2>1, Halves
    <2>3. Partition(bins, Current \ todo) /\ todo \subseteq Current
          /\ \A l \in 1 .. Len(bins) : Capped(bins[l])
      BY <2>1 DEF BinsInv, Binned
    <2>4. bins' = Append([bins EXCEPT ![j] = L], R)
      BY <1>7 DEF SplitDone, SplitInto
    <2>5. b \in SUBSET Samples
      BY <1>a, <2>2
    <2>6. L \in SUBSET Samples /\ R \in SUBSET Samples
      BY <2>2, <2>5
    <2> HIDE DEF j, b, L, R
    <2>7. Partition(bins', Current \ todo)
      <3>1. Current \ todo \in SUBSET Samples
        BY <1>b
      <3>2. bins[j] = L \cup R
        BY <2>2 DEF b
      <3>3. Partition(bins, Current \ todo)
        BY <2>3
      <3>4. PICK c : c = [bins EXCEPT ![j] = L]
        OBVIOUS
      <3>5. Partition(Append(c, R), Current \ todo)
        BY ONLY <1>a, <2>2, <3>1, <3>2, <3>3, <3>4, PartitionSplit
      <3> QED
        BY ONLY <2>4, <3>4, <3>5, Zenon
    <2>8. conf.dynamic /\ ~conf.byFlops => \A X \in {L, R} :
              SumFunctionOnSet(batch.lengths, X) <= conf.cap
      <3> SUFFICES ASSUME conf.dynamic, ~conf.byFlops, NEW X \in {L, R}
                   PROVE  SumFunctionOnSet(batch.lengths, X) <= conf.cap
        OBVIOUS
      <3> DEFINE sx == SumFunctionOnSet(batch.lengths, X)
                 sb == SumFunctionOnSet(batch.lengths, b)
      <3>1. X \in SUBSET b /\ X \in SUBSET Samples
        BY <2>2, <2>6
      <3>2. IsFiniteSet(b) /\ \A x \in b : batch.lengths[x] \in Nat
        BY <1>a, <2>5, SubsetFacts, BatchFacts
      <3>3. sx <= sb
        BY <3>1, <3>2, SumMonotone
      <3>8. Capped(b)
        BY <2>2, <2>3 DEF b
      <3>9. Cardinality(b) > 1
        BY <2>2
      <3>10. Cardinality(b) # 1
        BY ONLY <3>9
      <3>4. sb <= conf.cap
        BY <3>8, <3>10 DEF Capped
      <3>5. sx \in Nat /\ sb \in Nat
        BY <1>a, <2>5, <3>1, SubsetFacts
      <3>6. conf.cap \in Nat
        BY <1>a, ConfFacts
      <3> HIDE DEF sx, sb
      <3>7. sx <= conf.cap
        BY <3>3, <3>4, <3>5, <3>6
      <3> QED
        BY <3>7 DEF sx
    <2> DEFINE c == [bins EXCEPT ![j] = L]
    <2>9. c \in Seq(SUBSET Samples) /\ Len(c) = Len(bins) /\ c[j] = L
          /\ \A l \in 1 .. Len(bins) : l # j => c[l] = bins[l]
      BY <1>a, <2>2, <2>6
    <2>10. bins' = Append(c, R)
      BY <2>4
    <2> HIDE DEF c
    <2>11. Len(bins') = Len(bins) + 1 /\ bins'[Len(bins) + 1] = R
           /\ \A l \in 1 .. Len(bins) : bins'[l] = c[l]
      BY <2>6, <2>9, <2>10, AppendProperties
    <2>12. \A l : l \in 1 .. Len(bins') <=> l \in 1 .. Len(bins) \/ l = Len(bins) + 1
      BY <1>a, <2>11
    <2>13. \A l \in 1 .. Len(bins') : bins'[l] \in {L, R} \/ (l \in 1 .. Len(bins) /\ bins'[l] = bins[l])
      BY <2>9, <2>11, <2>12
    <2>14. conf.dynamic /\ ~conf.byFlops => \A l \in 1 .. Len(bins') :
              SumFunctionOnSet(batch.lengths, bins'[l]) <= conf.cap \/ Cardinality(bins'[l]) = 1
      BY <2>3, <2>8, <2>13 DEF Capped
    <2>15. Current' = Current
      BY <1>1, <2>1 DEF Current
    <2> QED
      BY <1>1, <2>1, <2>3, <2>7, <2>14, <2>15 DEF BinsInv, Capped
  <1>8. CASE AddState \/ MergeStates
    <2>2. kk'.equal = kk.equal
      BY <1>8, ItemsTaken DEF AddState, MergeStates
    <2>3. step' = step /\ todo' = todo /\ bins' = bins /\ pc' = pc
      BY <1>8 DEF AddState, MergeStates, packVars
    <2> QED
      BY <1>1, <2>2, <2>3, BinsSame DEF Binned, Balancing
  <1>9. CASE Balanced
    <2>1. PICK f \in kk.states :
            /\ kk.states = {f}
            /\ IF ~BalancedOK(f)
                 THEN pc' = "unbalanced" /\ UNCHANGED <<bins, share>>
                 ELSE IF kk.equal
                   THEN pc' = "place" /\ share' = f /\ UNCHANGED bins
                   ELSE pc' = "align" /\ bins' = f /\ UNCHANGED share
      BY <1>9 DEF Balanced
    <2>2. pc = "karmarkar" /\ kk.rest = {} /\ step' = step /\ todo' = todo /\ kk.equal \in BOOLEAN
      BY <1>9, TypeParts DEF Balanced, KkType
    <2>3. CASE ~BalancedOK(f)
      BY <2>1, <2>3 DEF BinsInv, Binned, Balancing
    <2>4. CASE BalancedOK(f) /\ kk.equal
      BY <1>1, <2>1, <2>2, <2>4, BinsSame DEF Binned, Balancing
    <2>5. CASE BalancedOK(f) /\ ~kk.equal
      <3>1. Balancing(FALSE)
        BY <2>2, <2>5 DEF Balancing
      <3>2. conf.byFlops /\ States(kk.rest, kk.states, kk.k, Current)
        BY <3>1 DEF KarmarkarInv
      <3>3. kk.k \in Nat
        BY TypeParts DEF KkType
      <3>4. f \in [1 .. kk.k -> SUBSET Current] /\ \A m, n \in 1 .. kk.k : m # n => f[m] \cap f[n] = {}
        BY <2>1, <3>2 DEF States, IsState
      <3>5. \A x \in Current : \E n \in 1 .. kk.k : x \in f[n]
        BY <2>1, <2>2, <3>2 DEF States
      <3>6. \A n \in 1 .. kk.k : f[n] # {}
        BY <2>5 DEF BalancedOK
      <3>7. Len(f) = kk.k
        BY <3>3, <3>4
      <3>8. Partition(f, Current)
        BY <3>4, <3>5, <3>6, <3>7 DEF Partition
      <3>9. todo = {}
        BY <2>2 DEF PhaseInv
      <3>10. bins' = f /\ Current' = Current
        BY <1>1, <2>1, <2>2, <2>5 DEF Current
      <3>11. Current' \ todo' = Current
        BY <2>2, <3>9, <3>10
      <3>12. Partition(bins', Current' \ todo')
        BY ONLY <3>8, <3>10, <3>11
      <3> QED
        BY <1>1, <2>2, <3>2, <3>9, <3>12 DEF BinsInv, Capped
    <2> QED
      BY <2>3, <2>4, <2>5
  <1>10. CASE Deal \/ \E r \in Ranks : Place(r)
    <2>1. Binned /\ step' = step /\ todo' = todo /\ bins' = bins
      BY <1>10 DEF Deal, Place, Binned, packVars
    <2> QED
      BY <1>1, <2>1, BinsSame
  <1>11. CASE Finished \/ UNCHANGED vars
    <2>1. step' = step /\ todo' = todo /\ bins' = bins /\ pc' = pc /\ kk' = kk
      BY <1>11 DEF Finished, vars, packVars
    <2> QED
      BY <1>1, <2>1, BinsSame DEF Binned, Balancing
  <1> QED
    BY <1>2, <1>3, <1>4, <1>5, <1>6, <1>7, <1>8, <1>9, <1>10, <1>11 DEF Next

LEMMA NextSumsInv ==
    ASSUME TypeOK, BinsInv, SumsInv, [Next]_vars
    PROVE  SumsInv'
  <1>1. batch' = batch
    BY InputFixed
  <1>2. CASE StartStep
    BY <1>2 DEF StartStep, SumsInv
  <1>3. CASE \E i \in todo : FirstFit(i)
    <2>1. PICK i \in todo : FirstFit(i)
      BY <1>3
    <2> QED
      BY <1>1, <2>1, PackOne DEF SumsInv
  <1>4. CASE StaticChunk
    <2>1. PICK S \in SUBSET todo : OpenBin(S)
      BY <1>4 DEF StaticChunk
    <2>2. bins \in Seq(SUBSET Samples) /\ sums \in Seq(Nat) /\ S \in SUBSET Samples
      BY DEF TypeOK
    <2>3. bins' = Append(bins, S) /\ sums' = Append(sums, SumFunctionOnSet(batch.lengths, S))
      BY <2>1 DEF OpenBin, TokensOf
    <2>4. SumFunctionOnSet(batch.lengths, S) \in Nat
      BY <2>2, SubsetFacts DEF TypeOK
    <2>5. Len(bins') = Len(bins) + 1 /\ bins'[Len(bins) + 1] = S
          /\ \A j \in 1 .. Len(bins) : bins'[j] = bins[j]
      BY <2>2, <2>3, AppendProperties
    <2>6. Len(sums') = Len(sums) + 1 /\ sums'[Len(sums) + 1] = SumFunctionOnSet(batch.lengths, S)
          /\ \A j \in 1 .. Len(sums) : sums'[j] = sums[j]
      BY <2>2, <2>3, <2>4, AppendProperties
    <2>7. \A j : j \in 1 .. Len(bins') <=> j \in 1 .. Len(bins) \/ j = Len(bins) + 1
      BY <2>2, <2>5
    <2>8. Len(sums) = Len(bins) /\ \A j \in 1 .. Len(bins) : sums[j] = SumFunctionOnSet(batch.lengths, bins[j])
      BY <1>4 DEF StaticChunk, SumsInv
    <2> QED
      BY <1>1, <2>5, <2>6, <2>7, <2>8 DEF SumsInv
  <1>5. CASE \/ TooFewRollouts \/ TooFewSamples \/ EndStep \/ TrainOneStep
             \/ Packed \/ StaticMisaligned \/ CannotSplit \/ StartSplit \/ SplitOne \/ SplitDone
             \/ AddState \/ MergeStates \/ Balanced \/ Deal \/ \E r \in Ranks : Place(r)
    <2>1. pc' # "pack"
      BY <1>5 DEF TooFewRollouts, TooFewSamples, EndStep, TrainOneStep, Packed, StaticMisaligned, CannotSplit,
                  StartSplit, SplitOne, SplitDone, AddState, MergeStates, Balanced, Deal, Place
    <2> QED
      BY <2>1 DEF SumsInv
  <1>6. CASE Finished \/ UNCHANGED vars
    BY <1>1, <1>6 DEF Finished, vars, SumsInv, packVars
  <1> QED
    BY <1>2, <1>3, <1>4, <1>5, <1>6 DEF Next

LEMMA NextCutInv ==
    ASSUME TypeOK, PhaseInv, CutInv, [Next]_vars
    PROVE  CutInv'
  <1>1. CASE StartSplit
    <2>1. PICK j \in 1 .. Len(bins) :
            Largest(j) /\ cut' = [at |-> j, rest |-> bins[j], left |-> {}, right |-> {}]
      BY <1>1 DEF StartSplit
    <2>2. Cardinality(bins[j]) > 1
      BY <2>1 DEF Largest, Splittable
    <2>3. bins' = bins
      BY <1>1 DEF StartSplit, packVars
    <2> QED
      BY <2>1, <2>2, <2>3 DEF CutInv
  <1>2. CASE SplitOne
    <2>1. PICK i \in cut.rest :
            cut' = IF TokensOf(cut.left) <= TokensOf(cut.right)
                     THEN [cut EXCEPT !.rest = @ \ {i}, !.left = @ \cup {i}]
                     ELSE [cut EXCEPT !.rest = @ \ {i}, !.right = @ \cup {i}]
      BY <1>2 DEF SplitOne
    <2>2. pc = "split" /\ bins' = bins
      BY <1>2 DEF SplitOne, packVars
    <2>3. cut \in [at : 0 .. Len(bins), rest : SUBSET Samples,
                   left : SUBSET Samples, right : SUBSET Samples]
      BY DEF TypeOK
    <2>4. /\ cut.at \in 1 .. Len(bins)
          /\ Cardinality(bins[cut.at]) > 1
          /\ bins[cut.at] = cut.rest \cup cut.left \cup cut.right
          /\ cut.left \cap cut.right = {} /\ cut.rest \cap (cut.left \cup cut.right) = {}
          /\ cut.right = {} => cut.left = {} \/ \E x \in cut.left : cut.left = {x}
          /\ cut.left = {} => cut.right = {}
      BY <2>2 DEF CutInv
    <2>5. cut'.at = cut.at /\ cut'.rest = cut.rest \ {i}
      BY <2>1, <2>3
    <2>6. CASE TokensOf(cut.left) <= TokensOf(cut.right)
      <3>1. cut'.left = cut.left \cup {i} /\ cut'.right = cut.right
        BY <2>1, <2>3, <2>6
      <3>2. cut.right = {} => cut.left = {}
        <4> SUFFICES ASSUME cut.right = {}, NEW x \in cut.left, cut.left = {x}
                     PROVE  FALSE
          BY <2>4
        <4> DEFINE w == batch.lengths
        <4>1. x \in Samples /\ IsFiniteSet({x}) /\ {x} \ {x} = {}
          BY <2>3, FS_Singleton
        <4>2. w[x] \in Nat \ {0}
          BY <4>1, BatchFacts DEF TypeOK
        <4>3. SumFunctionOnSet(w, {}) = 0
          BY FS_EmptySet, SumUnfolds
        <4> HIDE DEF w
        <4>4. SumFunctionOnSet(w, {x}) = w[x] + SumFunctionOnSet(w, {x} \ {x})
          BY <4>1, <4>2, SumRemove
        <4>5. SumFunctionOnSet(w, {x}) = w[x] + 0
          BY ONLY <4>1, <4>3, <4>4
        <4>6. SumFunctionOnSet(w, {x}) <= SumFunctionOnSet(w, {})
          BY <2>6 DEF TokensOf, w
        <4> QED
          BY ONLY <4>2, <4>3, <4>5, <4>6
      <3>3. cut'.at \in 1 .. Len(bins') /\ Cardinality(bins'[cut'.at]) > 1
            /\ bins'[cut'.at] = cut'.rest \cup cut'.left \cup cut'.right
        BY <2>2, <2>4, <2>5, <3>1
      <3>4. /\ cut'.left \cap cut'.right = {}
            /\ cut'.rest \cap (cut'.left \cup cut'.right) = {}
            /\ cut'.right = {} => \E x \in cut'.left : cut'.left = {x}
            /\ cut'.left # {}
        BY <2>4, <2>5, <3>1, <3>2
      <3> QED
        BY <3>3, <3>4 DEF CutInv
    <2>7. CASE ~(TokensOf(cut.left) <= TokensOf(cut.right))
      <3>1. cut'.right = cut.right \cup {i} /\ cut'.left = cut.left
        BY <2>1, <2>3, <2>7
      <3>2. cut.left # {}
        <4> SUFFICES ASSUME cut.left = {} PROVE FALSE
          OBVIOUS
        <4>1. cut.right = {}
          BY <2>4
        <4>2. TokensOf({}) \in Nat
          BY SubsetFacts DEF TokensOf, TypeOK
        <4> QED
          BY <2>7, <4>1, <4>2
      <3>3. cut'.at \in 1 .. Len(bins') /\ Cardinality(bins'[cut'.at]) > 1
            /\ bins'[cut'.at] = cut'.rest \cup cut'.left \cup cut'.right
        BY <2>2, <2>4, <2>5, <3>1
      <3>4. /\ cut'.left \cap cut'.right = {}
            /\ cut'.rest \cap (cut'.left \cup cut'.right) = {}
            /\ cut'.right # {} /\ cut'.left # {}
        BY <2>4, <2>5, <3>1, <3>2
      <3> QED
        BY <3>3, <3>4 DEF CutInv
    <2> QED
      BY <2>6, <2>7
  <1>3. CASE \/ TooFewRollouts \/ TooFewSamples \/ StartStep
             \/ \E i \in todo : FirstFit(i)
             \/ StaticChunk \/ Packed \/ StaticMisaligned \/ CannotSplit \/ SplitDone
             \/ AddState \/ MergeStates \/ Balanced \/ Deal
             \/ \E r \in Ranks : Place(r)
             \/ EndStep \/ TrainOneStep
    <2>1. pc' # "split"
      BY <1>3 DEF TooFewRollouts, TooFewSamples, StartStep, FirstFit, StaticChunk, Packed, StaticMisaligned,
                  CannotSplit, SplitDone, AddState, MergeStates, Balanced, Deal, Place, EndStep, TrainOneStep
    <2> QED
      BY <2>1 DEF CutInv
  <1>4. CASE Finished \/ UNCHANGED vars
    BY <1>4 DEF Finished, vars, CutInv, packVars
  <1> QED
    BY <1>1, <1>2, <1>3, <1>4 DEF Next
-----------------------------------------------------------------------------
(***************************************************************************)
(* karmarkar_karp                                                          *)
(***************************************************************************)
LEMMA StatesAdd ==
    ASSUME NEW rest, NEW states, NEW k, NEW items, States(rest, states, k, items),
           NEW f, IsState(f, k, items), \A n \in 1 .. k : f[n] \subseteq rest
    PROVE  States(rest \ UNION {f[n] : n \in 1 .. k}, states \cup {f}, k, items)
  <1> DEFINE taken == UNION {f[n] : n \in 1 .. k}
             S == states \cup {f}
             R == rest \ taken
  <1>1. \A x \in taken : \E n \in 1 .. k : x \in f[n]
    OBVIOUS
  <1>2. \A n \in 1 .. k : f[n] \cap R = {}
    OBVIOUS
  <1>3. R \subseteq rest /\ \A x \in rest : x \in R \/ x \in taken
    OBVIOUS
  <1> HIDE DEF taken, R
  <1>4. R \subseteq items /\ \A h \in S : IsState(h, k, items)
    BY <1>3 DEF States
  <1>5. \A h, g \in S : h # g => \A m, n \in 1 .. k : h[m] \cap g[n] = {}
    <2>1. \A g \in states : \A m, n \in 1 .. k : f[m] \cap g[n] = {}
      BY DEF States
    <2> QED
      BY <2>1 DEF States
  <1>6. \A h \in S : \A n \in 1 .. k : h[n] \cap R = {}
    BY <1>2, <1>3 DEF States
  <1>7. \A x \in items \ R : \E h \in S : \E n \in 1 .. k : x \in h[n]
    BY <1>1, <1>3 DEF States
  <1>8. States(R, S, k, items)
    BY <1>4, <1>5, <1>6, <1>7 DEF States
  <1> QED
    BY <1>8 DEF taken, R

\* The sets of f and g merged in a permuted order, g's reversed
Merging(h, f, g, k, order) ==
    /\ order \in Injection(1 .. k, 1 .. k)
    /\ h = [n \in 1 .. k |-> f[order[n]] \cup g[k + 1 - order[n]]]

LEMMA Permutation ==
    ASSUME NEW k \in Nat, NEW order \in Injection(1 .. k, 1 .. k)
    PROVE  /\ \A n \in 1 .. k : order[n] \in 1 .. k /\ k + 1 - order[n] \in 1 .. k
           /\ \A m, n \in 1 .. k : m # n =>
                 order[m] # order[n] /\ k + 1 - order[m] # k + 1 - order[n]
           /\ \A m \in 1 .. k : \E n \in 1 .. k : order[n] = m
           /\ \A m \in 1 .. k : \E n \in 1 .. k : k + 1 - order[n] = m
  <1>1. order \in [1 .. k -> 1 .. k]
    BY DEF Injection
  <1>2. \A n \in 1 .. k : order[n] \in 1 .. k /\ k + 1 - order[n] \in 1 .. k
    BY <1>1
  <1>3. \A m, n \in 1 .. k : m # n => order[m] # order[n]
    BY <1>1 DEF Injection, IsInjective
  <1>4. \A m, n \in 1 .. k : m # n => k + 1 - order[m] # k + 1 - order[n]
    BY <1>2, <1>3
  <1>5. order \in Surjection(1 .. k, 1 .. k)
    BY FS_Interval, FS_Injection
  <1>6. \A m \in 1 .. k : \E n \in 1 .. k : order[n] = m
    BY <1>5 DEF Surjection
  <1>7. \A m \in 1 .. k : \E n \in 1 .. k : k + 1 - order[n] = m
    <2> TAKE m \in 1 .. k
    <2>1. k + 1 - m \in 1 .. k
      OBVIOUS
    <2>2. PICK n \in 1 .. k : order[n] = k + 1 - m
      BY <1>6, <2>1
    <2>3. k + 1 - order[n] = m
      BY <2>2
    <2> QED
      BY <2>3
  <1> QED
    BY <1>2, <1>3, <1>4, <1>6, <1>7

LEMMA MergingParts ==
    ASSUME NEW k \in Nat, NEW items, NEW f, NEW g, NEW h, NEW order, Merging(h, f, g, k, order),
           IsState(f, k, items), IsState(g, k, items), \A m, n \in 1 .. k : f[m] \cap g[n] = {}
    PROVE  /\ IsState(h, k, items)
           /\ \A n \in 1 .. k : \E l, m \in 1 .. k : h[n] = f[l] \cup g[m]
           /\ \A l \in 1 .. k : \E n \in 1 .. k : f[l] \subseteq h[n]
           /\ \A m \in 1 .. k : \E n \in 1 .. k : g[m] \subseteq h[n]
  <1> DEFINE o(n) == order[n]
             p(n) == k + 1 - order[n]
  <1>1. \A n \in 1 .. k : o(n) \in 1 .. k /\ p(n) \in 1 .. k
    BY Permutation DEF Merging
  <1>2. \A m, n \in 1 .. k : m # n => o(m) # o(n) /\ p(m) # p(n)
    BY Permutation DEF Merging
  <1>3. \A m \in 1 .. k : \E n \in 1 .. k : o(n) = m
    BY Permutation DEF Merging
  <1>4. \A m \in 1 .. k : \E n \in 1 .. k : p(n) = m
    BY Permutation DEF Merging
  <1>5. h = [n \in 1 .. k |-> f[o(n)] \cup g[p(n)]]
    BY DEF Merging
  <1> HIDE DEF o, p
  <1>6. \A n \in 1 .. k : h[n] = f[o(n)] \cup g[p(n)]
    BY <1>5
  <1>7. h \in [1 .. k -> SUBSET items]
    BY <1>1, <1>5 DEF IsState
  <1>8. \A m, n \in 1 .. k : m # n => h[m] \cap h[n] = {}
    <2> SUFFICES ASSUME NEW m \in 1 .. k, NEW n \in 1 .. k, m # n
                 PROVE  h[m] \cap h[n] = {}
      OBVIOUS
    <2>1. f[o(m)] \cap f[o(n)] = {} /\ g[p(m)] \cap g[p(n)] = {}
      BY <1>1, <1>2 DEF IsState
    <2>2. f[o(m)] \cap g[p(n)] = {} /\ f[o(n)] \cap g[p(m)] = {}
      BY <1>1
    <2> QED
      BY <1>6, <2>1, <2>2
  <1>9. \A n \in 1 .. k : \E l, m \in 1 .. k : h[n] = f[l] \cup g[m]
    <2> SUFFICES ASSUME NEW n \in 1 .. k
                 PROVE  \E l, m \in 1 .. k : h[n] = f[l] \cup g[m]
      OBVIOUS
    <2>1. h[n] = f[o(n)] \cup g[p(n)] /\ o(n) \in 1 .. k /\ p(n) \in 1 .. k
      BY <1>1, <1>6
    <2> HIDE DEF o, p
    <2> QED
      BY ONLY <2>1
  <1>10. \A l \in 1 .. k : \E n \in 1 .. k : f[l] \subseteq h[n]
    <2> TAKE l \in 1 .. k
    <2>1. PICK n \in 1 .. k : o(n) = l
      BY <1>3
    <2> WITNESS n \in 1 .. k
    <2> QED
      BY <1>6, <2>1
  <1>11. \A m \in 1 .. k : \E n \in 1 .. k : g[m] \subseteq h[n]
    <2> TAKE m \in 1 .. k
    <2>1. PICK n \in 1 .. k : p(n) = m
      BY <1>4
    <2> WITNESS n \in 1 .. k
    <2> QED
      BY <1>6, <2>1
  <1> QED
    BY <1>7, <1>8, <1>9, <1>10, <1>11 DEF IsState

LEMMA StatesMerge ==
    ASSUME NEW rest, NEW states, NEW k \in Nat, NEW items, States(rest, states, k, items),
           NEW f \in states, NEW g \in states, f # g, NEW h, NEW order, Merging(h, f, g, k, order)
    PROVE  States(rest, (states \ {f, g}) \cup {h}, k, items)
  <1> DEFINE S == (states \ {f, g}) \cup {h}
  <1>1. IsState(f, k, items) /\ IsState(g, k, items) /\ \A m, n \in 1 .. k : f[m] \cap g[n] = {}
    BY DEF States
  <1>2. /\ IsState(h, k, items)
        /\ \A n \in 1 .. k : \E l, m \in 1 .. k : h[n] = f[l] \cup g[m]
        /\ \A l \in 1 .. k : \E n \in 1 .. k : f[l] \subseteq h[n]
        /\ \A m \in 1 .. k : \E n \in 1 .. k : g[m] \subseteq h[n]
    BY <1>1, MergingParts
  <1>3. rest \subseteq items /\ \A x \in S : IsState(x, k, items)
    BY <1>2 DEF States
  <1>4. \A y \in states \ {f, g} : \A m, n \in 1 .. k : h[m] \cap y[n] = {}
    BY <1>2 DEF States
  <1>5. \A x, y \in S : x # y => \A m, n \in 1 .. k : x[m] \cap y[n] = {}
    BY <1>4 DEF States
  <1>6. \A n \in 1 .. k : h[n] \cap rest = {}
    BY <1>2 DEF States
  <1>7. \A x \in S : \A n \in 1 .. k : x[n] \cap rest = {}
    BY <1>6 DEF States
  <1>8. ASSUME NEW x \in items \ rest PROVE \E y \in S : \E n \in 1 .. k : x \in y[n]
    <2>1. PICK y \in states : \E n \in 1 .. k : x \in y[n]
      BY DEF States
    <2>2. CASE y \in {f, g}
      <3>1. \E n \in 1 .. k : x \in h[n]
        BY <1>2, <2>1, <2>2
      <3> QED
        BY <3>1
    <2>3. CASE y \notin {f, g}
      BY <2>1, <2>3
    <2> QED
      BY <2>2, <2>3
  <1> QED
    BY <1>3, <1>5, <1>7, <1>8 DEF States

\* Two states in which no set is merged with another give a sparse state, two
\* that overlap a full one, since the sets that are not empty come first.
LEMMA MergingFills ==
    ASSUME NEW k \in Nat, NEW f, NEW g, NEW h, NEW order, Merging(h, f, g, k, order),
           DOMAIN f = 1 .. k, DOMAIN g = 1 .. k,
           FilledFirst(f), FilledFirst(g), Full(f) \/ Sparse(f), Full(g) \/ Sparse(g)
    PROVE  Full(h) \/ Sparse(h)
  <1> DEFINE o(n) == order[n]
             p(n) == k + 1 - order[n]
  <1>1. \A n \in 1 .. k : o(n) \in 1 .. k /\ p(n) \in 1 .. k
    BY Permutation DEF Merging
  <1>2. \A n \in 1 .. k : h[n] = f[o(n)] \cup g[p(n)]
    BY DEF Merging
  <1>3. DOMAIN h = 1 .. k
    BY DEF Merging
  <1>4. CASE Full(f) \/ Full(g)
    BY <1>1, <1>2, <1>3, <1>4 DEF Full
  <1>5. CASE \E m \in 1 .. k : f[m] # {} /\ g[k + 1 - m] # {}
    <2>1. PICK m \in 1 .. k : f[m] # {} /\ g[k + 1 - m] # {}
      BY <1>5
    <2>2. ASSUME NEW n \in 1 .. k PROVE h[n] # {}
      <3>1. CASE o(n) <= m
        <4>1. f[o(n)] # {}
          BY <1>1, <2>1, <3>1 DEF FilledFirst
        <4> QED
          BY <1>2, <4>1
      <3>2. CASE ~(o(n) <= m)
        <4>1. p(n) <= k + 1 - m /\ k + 1 - m \in 1 .. k
          BY <1>1, <3>2
        <4>2. g[p(n)] # {}
          BY <1>1, <2>1, <4>1 DEF FilledFirst
        <4> QED
          BY <1>2, <4>2
      <3> QED
        BY <3>1, <3>2
    <2> QED
      BY <1>3, <2>2 DEF Full
  <1>6. CASE Sparse(f) /\ Sparse(g) /\ \A m \in 1 .. k : f[m] = {} \/ g[k + 1 - m] = {}
    <2>1. ASSUME NEW n \in 1 .. k PROVE AtMostOne(h[n])
      <3>1. AtMostOne(f[o(n)]) /\ AtMostOne(g[p(n)])
        BY <1>1, <1>6 DEF Sparse
      <3>2. f[o(n)] = {} \/ g[p(n)] = {}
        BY <1>1, <1>6
      <3> QED
        BY <1>2, <3>1, <3>2 DEF AtMostOne
    <2> QED
      BY <1>3, <2>1 DEF Sparse
  <1> QED
    BY <1>4, <1>5, <1>6

LEMMA MergingSizes ==
    ASSUME NEW k \in Nat, NEW items, IsFiniteSet(items), NEW f, NEW g, NEW h, NEW order,
           Merging(h, f, g, k, order), IsState(f, k, items), IsState(g, k, items),
           \A m, n \in 1 .. k : f[m] \cap g[n] = {},
           Full(f), SameSize(f), SameSize(g)
    PROVE  Full(h) /\ SameSize(h)
  <1> DEFINE o(n) == order[n]
             p(n) == k + 1 - order[n]
  <1>1. \A n \in 1 .. k : o(n) \in 1 .. k /\ p(n) \in 1 .. k
    BY Permutation DEF Merging
  <1>2. \A n \in 1 .. k : h[n] = f[o(n)] \cup g[p(n)]
    BY DEF Merging
  <1>3. DOMAIN h = 1 .. k /\ DOMAIN f = 1 .. k /\ DOMAIN g = 1 .. k
    BY DEF Merging, IsState
  <1> HIDE DEF o, p
  <1>4. Full(h)
    BY <1>1, <1>2, <1>3 DEF Full
  <1>5. ASSUME NEW n \in 1 .. k
        PROVE  Cardinality(h[n]) = Cardinality(f[o(n)]) + Cardinality(g[p(n)]) - Cardinality({})
    <2>1. f[o(n)] \in SUBSET items /\ g[p(n)] \in SUBSET items
      BY <1>1 DEF IsState
    <2>2. IsFiniteSet(f[o(n)]) /\ IsFiniteSet(g[p(n)])
      BY <2>1, FS_Subset
    <2>3. f[o(n)] \cap g[p(n)] = {}
      BY <1>1
    <2>4. Cardinality(f[o(n)] \cup g[p(n)]) =
            Cardinality(f[o(n)]) + Cardinality(g[p(n)]) - Cardinality(f[o(n)] \cap g[p(n)])
      BY <2>2, FS_Union
    <2> QED
      BY <1>2, <2>3, <2>4
  <1>6. \A m, n \in 1 .. k : Cardinality(f[o(m)]) = Cardinality(f[o(n)])
                          /\ Cardinality(g[p(m)]) = Cardinality(g[p(n)])
    BY <1>1, <1>3 DEF SameSize
  <1>7. \A m, n \in 1 .. k : Cardinality(h[m]) = Cardinality(h[n])
    BY <1>5, <1>6
  <1> QED
    BY <1>3, <1>4, <1>7 DEF SameSize

\* In descending order the sets that are not empty come first.
LEMMA DescendingFilled ==
    ASSUME batch \in Batches, ~kk.equal, kk.k \in Nat, NEW f \in [1 .. kk.k -> SUBSET Samples],
           Descending(f)
    PROVE  FilledFirst(f)
  <1> DEFINE k == kk.k
             W(S) == SumFunctionOnSet(Flops, S)
  <1>1. \A S : WeightOf(S) = W(S)
    BY DEF WeightOf, Weight
  <1>2. \A S \in SUBSET Samples : W(S) \in Nat /\ Cardinality(S) \in Nat /\ IsFiniteSet(S)
    BY SubsetFacts
  <1>3. W({}) = 0 /\ Cardinality({}) = 0
    BY FS_EmptySet, SumUnfolds
  <1>4. \A S \in SUBSET Samples : S # {} => Cardinality(S) # 0
    BY <1>2, FS_EmptySet
  <1>5. \A i \in 1 .. k - 1 : W(f[i]) > W(f[i + 1])
            \/ (W(f[i]) = W(f[i + 1]) /\ Cardinality(f[i]) >= Cardinality(f[i + 1]))
    BY <1>1 DEF Descending, Heavier
  <1> HIDE DEF W, k
  <1>6. k \in Nat /\ f \in [1 .. k -> SUBSET Samples]
    BY DEF k
  <1>7. ASSUME NEW i \in 1 .. k - 1, f[i + 1] # {} PROVE f[i] # {}
    <2> SUFFICES ASSUME f[i] = {} PROVE FALSE
      OBVIOUS
    <2>1. i \in 1 .. k /\ i + 1 \in 1 .. k
      BY <1>6
    <2>2. f[i + 1] \in SUBSET Samples
      BY <1>6, <2>1
    <2> DEFINE w == W(f[i + 1])
               c == Cardinality(f[i + 1])
    <2>3. 0 > w \/ (0 = w /\ 0 >= c)
      BY <1>3, <1>5
    <2>4. w \in Nat /\ c \in Nat
      BY <1>2, <2>2
    <2>5. c # 0
      BY <1>4, <1>7, <2>2
    <2> HIDE DEF w, c
    <2> QED
      BY ONLY <2>3, <2>4, <2>5
  <1> DEFINE T == {d \in Nat : \A m \in 1 .. k : m + d \in 1 .. k /\ f[m + d] # {} => f[m] # {}}
  <1>8. 0 \in T
    BY <1>6
  <1>9. ASSUME NEW d \in Nat, d \in T PROVE d + 1 \in T
    <2> SUFFICES ASSUME NEW m \in 1 .. k, m + (d + 1) \in 1 .. k, f[m + (d + 1)] # {}
                 PROVE  f[m] # {}
      OBVIOUS
    <2>1. m + d \in 1 .. k - 1 /\ m + d \in 1 .. k /\ m + (d + 1) = (m + d) + 1
      BY <1>6
    <2>2. f[m + d] # {}
      BY <1>7, <2>1
    <2> QED
      BY <1>9, <2>1, <2>2
  <1>10. Nat \subseteq T
    <2> HIDE DEF T
    <2> QED
      BY <1>8, <1>9, NatsIn
  <1>11. ASSUME NEW m \in 1 .. k, NEW n \in 1 .. k, m <= n, f[n] # {} PROVE f[m] # {}
    <2>1. n - m \in Nat /\ m + (n - m) = n
      BY <1>6, <1>11
    <2>2. n - m \in T
      BY <1>10, <2>1
    <2> QED
      BY <1>11, <2>1, <2>2
  <1>12. DOMAIN f = 1 .. k
    BY <1>6
  <1> QED
    BY <1>11, <1>12 DEF FilledFirst

LEMMA KkFacts ==
    ASSUME TypeOK
    PROVE  /\ kk.k \in Nat \ {0} /\ kk.equal \in BOOLEAN
           /\ kk = [k |-> kk.k, equal |-> kk.equal, rest |-> kk.rest, states |-> kk.states]
           /\ kk.states \subseteq [1 .. kk.k -> SUBSET (IF kk.equal THEN 1 .. Len(bins) ELSE Samples)]
  BY TypeParts DEF KkType

\* The state AddState adds
LEMMA NewState ==
    ASSUME TypeOK, AddState, NEW items, States(kk.rest, kk.states, kk.k, items)
    PROVE  \E f : /\ kk'.rest = kk.rest \ UNION {f[n] : n \in 1 .. kk.k}
                  /\ kk'.states = kk.states \cup {f}
                  /\ IsState(f, kk.k, items)
                  /\ \A n \in 1 .. kk.k : f[n] \subseteq kk.rest
                  /\ kk.equal => Full(f) /\ SameSize(f)
                  /\ ~kk.equal => FilledFirst(f) /\ Sparse(f)
  <1> DEFINE taken(f) == UNION {f[n] : n \in 1 .. kk.k}
  <1>1. PICK f \in IF kk.equal THEN [1 .. kk.k -> {{x} : x \in kk.rest}]
                   ELSE {[n \in 1 .. kk.k |-> IF n = 1 THEN {x} ELSE {}] : x \in kk.rest} :
            /\ kk.equal => \A m, n \in 1 .. kk.k : m # n => f[m] # f[n]
            /\ kk' = [kk EXCEPT !.rest = @ \ taken(f), !.states = @ \cup {f}]
    BY DEF AddState
  <1> HIDE DEF taken
  <1>2. kk'.rest = kk.rest \ taken(f) /\ kk'.states = kk.states \cup {f}
    BY <1>1, KkFacts
  <1>3. kk.rest \subseteq items
    BY DEF States
  <1>4. CASE kk.equal
    <2>1. f \in [1 .. kk.k -> {{x} : x \in kk.rest}]
      BY <1>1, <1>4
    <2>2. \A n \in 1 .. kk.k : \E x \in kk.rest : f[n] = {x}
      BY <2>1
    <2>3. \A m, n \in 1 .. kk.k : m # n => f[m] \cap f[n] = {}
      <3> SUFFICES ASSUME NEW m \in 1 .. kk.k, NEW n \in 1 .. kk.k, m # n
                   PROVE  f[m] \cap f[n] = {}
        OBVIOUS
      <3>1. PICK x \in kk.rest : f[m] = {x}
        BY <2>2
      <3>2. PICK y \in kk.rest : f[n] = {y}
        BY <2>2
      <3>3. f[m] # f[n]
        BY <1>1, <1>4
      <3> QED
        BY <3>1, <3>2, <3>3
    <2>4. f \in [1 .. kk.k -> SUBSET items] /\ \A n \in 1 .. kk.k : f[n] \subseteq kk.rest /\ f[n] # {}
      BY <1>3, <2>1, <2>2
    <2>5. \A n \in 1 .. kk.k : Cardinality(f[n]) = 1
      BY <2>2, FS_Singleton
    <2>6. DOMAIN f = 1 .. kk.k
      BY <2>1
    <2> QED
      <3>1. IsState(f, kk.k, items)
        BY <2>3, <2>4 DEF IsState
      <3>2. Full(f)
        BY <2>4, <2>6 DEF Full
      <3>3. SameSize(f)
        BY <2>5, <2>6 DEF SameSize
      <3> QED
        BY <1>2, <1>4, <2>4, <3>1, <3>2, <3>3 DEF taken
  <1>5. CASE ~kk.equal
    <2>1. PICK x \in kk.rest : f = [n \in 1 .. kk.k |-> IF n = 1 THEN {x} ELSE {}]
      BY <1>1, <1>5
    <2>2. \A n \in 1 .. kk.k : f[n] = IF n = 1 THEN {x} ELSE {}
      BY <2>1
    <2>3. f \in [1 .. kk.k -> SUBSET items] /\ \A n \in 1 .. kk.k : f[n] \subseteq kk.rest
      BY <1>3, <2>1
    <2>4. DOMAIN f = 1 .. kk.k
      BY <2>1
    <2>5. \A m, n \in 1 .. kk.k : m # n => f[m] \cap f[n] = {}
      BY <2>2
    <2>6. FilledFirst(f)
      <3>1. \A m, n \in 1 .. kk.k : m <= n /\ n = 1 => m = 1
        BY KkFacts
      <3> QED
        BY <2>2, <2>4, <3>1 DEF FilledFirst
    <2>7. Sparse(f)
      BY <2>2, <2>4 DEF Sparse, AtMostOne
    <2> QED
      BY <1>2, <1>5, <2>3, <2>5, <2>6, <2>7 DEF IsState, taken
  <1> QED
    BY <1>4, <1>5

LEMMA AddKarmarkarInv ==
    ASSUME TypeOK, KarmarkarInv, AddState, [Next]_vars
    PROVE  KarmarkarInv'
  <1>1. Steps' = Steps /\ conf' = conf
    BY InputFixed, InputSame
  <1>2. pc = "karmarkar" /\ pc' = pc /\ bins' = bins /\ step' = step
    BY DEF AddState, packVars
  <1>3. kk'.equal = kk.equal /\ kk'.k = kk.k
    BY ItemsTaken
  <1>4. Current' = Current
    BY <1>1, <1>2 DEF Current
  <1>5. CASE kk.equal
    <2>1. kk.k = conf.dp /\ States(kk.rest, kk.states, kk.k, 1 .. Len(bins))
          /\ \A f \in kk.states : Full(f) /\ SameSize(f)
      BY <1>2, <1>5, KkFacts DEF KarmarkarInv, Balancing
    <2>2. PICK f : /\ kk'.rest = kk.rest \ UNION {f[n] : n \in 1 .. kk.k}
                   /\ kk'.states = kk.states \cup {f}
                   /\ IsState(f, kk.k, 1 .. Len(bins))
                   /\ \A n \in 1 .. kk.k : f[n] \subseteq kk.rest
                   /\ Full(f) /\ SameSize(f)
      BY <1>5, <2>1, NewState
    <2>3. States(kk'.rest, kk'.states, kk.k, 1 .. Len(bins))
      BY <2>1, <2>2, StatesAdd
    <2>4. \A h \in kk'.states : Full(h) /\ SameSize(h)
      BY <2>1, <2>2
    <2> QED
      BY <1>1, <1>2, <1>3, <1>5, <2>1, <2>3, <2>4 DEF KarmarkarInv, Balancing
  <1>6. CASE ~kk.equal
    <2>1. conf.byFlops /\ kk.k < Cardinality(Current) /\ States(kk.rest, kk.states, kk.k, Current)
          /\ \A f \in kk.states : FilledFirst(f) /\ (Full(f) \/ Sparse(f))
      BY <1>2, <1>6, KkFacts DEF KarmarkarInv, Balancing
    <2>2. PICK f : /\ kk'.rest = kk.rest \ UNION {f[n] : n \in 1 .. kk.k}
                   /\ kk'.states = kk.states \cup {f}
                   /\ IsState(f, kk.k, Current)
                   /\ \A n \in 1 .. kk.k : f[n] \subseteq kk.rest
                   /\ FilledFirst(f) /\ Sparse(f)
      BY <1>6, <2>1, NewState
    <2>3. States(kk'.rest, kk'.states, kk.k, Current)
      BY <2>1, <2>2, StatesAdd
    <2>4. \A h \in kk'.states : FilledFirst(h) /\ (Full(h) \/ Sparse(h))
      BY <2>1, <2>2
    <2> QED
      BY <1>1, <1>2, <1>3, <1>4, <1>6, <2>1, <2>3, <2>4 DEF KarmarkarInv, Balancing
  <1> QED
    BY <1>5, <1>6

LEMMA MergeKarmarkarInv ==
    ASSUME TypeOK, KarmarkarInv, MergeStates, [Next]_vars
    PROVE  KarmarkarInv'
  <1>1. Steps' = Steps /\ conf' = conf
    BY InputFixed, InputSame
  <1>2. pc = "karmarkar" /\ pc' = pc /\ bins' = bins /\ step' = step /\ kk.rest = {}
    BY DEF MergeStates, packVars
  <1>3. kk'.equal = kk.equal /\ kk'.k = kk.k
    BY ItemsTaken
  <1>4. Current' = Current
    BY <1>1, <1>2 DEF Current
  <1>5. PICK f \in kk.states, g \in kk.states, order \in Injection(1 .. kk.k, 1 .. kk.k) :
            /\ f # g
            /\ Descending(Merged(f, g, order))
            /\ kk' = [kk EXCEPT !.states = (@ \ {f, g}) \cup {Merged(f, g, order)}]
    BY DEF MergeStates
  <1>6. PICK h : h = Merged(f, g, order)
    OBVIOUS
  <1>7. Merging(h, f, g, kk.k, order)
    BY <1>6 DEF Merging, Merged, Opposite
  <1>8. kk'.rest = kk.rest /\ kk'.states = (kk.states \ {f, g}) \cup {h}
    BY <1>5, <1>6, KkFacts
  <1>9. kk.k \in Nat
    BY KkFacts
  <1>10. CASE kk.equal
    <2>1. kk.k = conf.dp /\ States(kk.rest, kk.states, kk.k, 1 .. Len(bins))
          /\ \A x \in kk.states : Full(x) /\ SameSize(x)
      BY <1>2, <1>10, KkFacts DEF KarmarkarInv, Balancing
    <2>2. States(kk'.rest, kk'.states, kk.k, 1 .. Len(bins))
      BY <1>5, <1>7, <1>8, <1>9, <2>1, StatesMerge
    <2>3. IsState(f, kk.k, 1 .. Len(bins)) /\ IsState(g, kk.k, 1 .. Len(bins))
          /\ \A m, n \in 1 .. kk.k : f[m] \cap g[n] = {}
      BY <1>5, <2>1 DEF States
    <2>4. IsFiniteSet(1 .. Len(bins))
      BY FS_Interval DEF TypeOK
    <2>5. Full(h) /\ SameSize(h)
      BY <1>7, <1>9, <2>1, <2>3, <2>4, MergingSizes
    <2>6. \A x \in kk'.states : Full(x) /\ SameSize(x)
      BY <1>8, <2>1, <2>5
    <2> QED
      BY <1>1, <1>2, <1>3, <1>10, <2>1, <2>2, <2>6 DEF KarmarkarInv, Balancing
  <1>11. CASE ~kk.equal
    <2>1. conf.byFlops /\ kk.k < Cardinality(Current) /\ States(kk.rest, kk.states, kk.k, Current)
          /\ \A x \in kk.states : FilledFirst(x) /\ (Full(x) \/ Sparse(x))
      BY <1>2, <1>11, KkFacts DEF KarmarkarInv, Balancing
    <2>2. States(kk'.rest, kk'.states, kk.k, Current)
      BY <1>5, <1>7, <1>8, <1>9, <2>1, StatesMerge
    <2>3. DOMAIN f = 1 .. kk.k /\ DOMAIN g = 1 .. kk.k
      BY <2>1 DEF States, IsState
    <2>4. Full(h) \/ Sparse(h)
      BY <1>7, <1>9, <2>1, <2>3, MergingFills
    <2>5. h \in [1 .. kk.k -> SUBSET Samples]
      <3>1. IsState(h, kk.k, Current)
        BY <1>8, <2>2 DEF States
      <3>2. Current \in SUBSET Samples
        BY StepsFacts DEF Current, TypeOK
      <3> QED
        BY <3>1, <3>2 DEF IsState
    <2>6. FilledFirst(h)
      BY <1>5, <1>6, <1>9, <1>11, <2>5, DescendingFilled DEF TypeOK
    <2>7. \A x \in kk'.states : FilledFirst(x) /\ (Full(x) \/ Sparse(x))
      BY <1>8, <2>1, <2>4, <2>6
    <2> QED
      BY <1>1, <1>2, <1>3, <1>4, <1>11, <2>1, <2>2, <2>7 DEF KarmarkarInv, Balancing
  <1> QED
    BY <1>10, <1>11

LEMMA NextKarmarkarInv ==
    ASSUME TypeOK, KarmarkarInv, [Next]_vars
    PROVE  KarmarkarInv'
  <1>1. Steps' = Steps /\ conf' = conf
    BY InputFixed, InputSame
  <1>2. CASE StartStep
    <2>1. CASE pc' = "karmarkar"
      <3>1. kk' = [k |-> NumMbs(step), equal |-> FALSE, rest |-> Steps[step], states |-> {}]
            /\ conf.byFlops /\ NumMbs(step) < Cardinality(Steps[step]) /\ step' = step
        BY <1>2, <2>1, StepsFacts DEF StartStep, BalancesBins, TypeOK
      <3> QED
        BY <1>1, <3>1 DEF KarmarkarInv, Balancing, States, Current
    <2>2. CASE pc' # "karmarkar"
      BY <2>2 DEF KarmarkarInv, Balancing
    <2> QED
      BY <2>1, <2>2
  <1>3. CASE AddState
    BY <1>3, AddKarmarkarInv
  <1>4. CASE MergeStates
    BY <1>4, MergeKarmarkarInv
  <1>5. CASE Deal
    <2>1. CASE pc' = "karmarkar"
      <3>1. kk' = [k |-> conf.dp, equal |-> TRUE, rest |-> 1 .. Len(bins), states |-> {}] /\ bins' = bins
        BY <1>5, <2>1 DEF Deal, packVars
      <3> QED
        BY <1>1, <3>1 DEF KarmarkarInv, Balancing, States
    <2>2. CASE pc' # "karmarkar"
      BY <2>2 DEF KarmarkarInv, Balancing
    <2> QED
      BY <2>1, <2>2
  <1>6. CASE \/ TooFewRollouts \/ TooFewSamples
             \/ \E i \in todo : FirstFit(i)
             \/ StaticChunk \/ Packed \/ StaticMisaligned \/ CannotSplit
             \/ StartSplit \/ SplitOne \/ SplitDone \/ Balanced
             \/ \E r \in Ranks : Place(r)
             \/ EndStep \/ TrainOneStep
    <2>1. pc' # "karmarkar"
      BY <1>6 DEF TooFewRollouts, TooFewSamples, FirstFit, StaticChunk, Packed, StaticMisaligned, CannotSplit,
                  StartSplit, SplitOne, SplitDone, Balanced, Place, EndStep, TrainOneStep
    <2> QED
      BY <2>1 DEF KarmarkarInv, Balancing
  <1>7. CASE Finished \/ UNCHANGED vars
    <2>1. pc' = pc /\ kk' = kk /\ bins' = bins /\ step' = step
      BY <1>7 DEF Finished, vars, packVars
    <2> QED
      BY <1>1, <2>1 DEF KarmarkarInv, Balancing, Current
  <1> QED
    BY <1>2, <1>3, <1>4, <1>5, <1>6, <1>7 DEF Next

\* The checks on the last state of karmarkar_karp succeed.
LEMMA LastState ==
    ASSUME TypeOK, KarmarkarInv, pc = "karmarkar", kk.rest = {}, NEW f, kk.states = {f}
    PROVE  BalancedOK(f)
  <1> DEFINE k == kk.k
  <1>1. k \in Nat \ {0}
    BY KkFacts
  <1>2. CASE kk.equal
    <2>1. States({}, {f}, k, 1 .. Len(bins)) /\ Full(f) /\ SameSize(f)
      BY <1>2, KkFacts DEF KarmarkarInv, Balancing
    <2> HIDE DEF k
    <2>2. IsState(f, k, 1 .. Len(bins)) /\ \A x \in 1 .. Len(bins) : \E n \in 1 .. k : x \in f[n]
      BY <2>1 DEF States
    <2>3. Len(bins) \in Nat /\ IsFiniteSet(1 .. Len(bins)) /\ Cardinality(1 .. Len(bins)) = Len(bins)
      <3>1. Len(bins) \in Nat
        BY DEF TypeOK
      <3> DEFINE l == Len(bins)
      <3> HIDE DEF l
      <3>2. l \in Nat
        BY <3>1 DEF l
      <3>3. IsFiniteSet(1 .. l) /\ Cardinality(1 .. l) = l
        BY ONLY <3>2, FS_Interval
      <3> QED
        BY <3>2, <3>3 DEF l
    <2>4. UNION {f[n] : n \in 1 .. k} = 1 .. Len(bins)
      BY <2>2 DEF IsState
    <2>5. \A n \in 1 .. k : f[n] \in SUBSET (1 .. Len(bins))
      BY <2>2 DEF IsState
    <2>6. \A n \in 1 .. k : IsFiniteSet(f[n]) /\ Cardinality(f[n]) \in Nat
      BY <2>3, <2>5, FS_Subset, FS_CardinalityType
    <2>7. DOMAIN f = 1 .. k
      BY <2>2 DEF IsState
    <2>8. ASSUME NEW n \in 1 .. k PROVE Cardinality(f[n]) * k = Len(bins)
      <3> DEFINE c == Cardinality(f[n])
      <3>1. c \in Nat
        BY <2>6
      <3>2. \A m \in 1 .. k : IsFiniteSet(f[m]) /\ Cardinality(f[m]) = c
        BY <2>1, <2>6, <2>7 DEF SameSize
      <3>3. \A m, l \in 1 .. k : m # l => f[m] \cap f[l] = {}
        BY <2>2 DEF IsState
      <3> HIDE DEF c
      <3>4. Cardinality(UNION {f[m] : m \in 1 .. k}) = k * c
        <4>1. k \in Nat
          BY <1>1
        <4> QED
          BY ONLY <4>1, <3>1, <3>2, <3>3, EqualParts
      <3>5. k * c = c * k
        BY <1>1, <3>1
      <3> QED
        BY <2>3, <2>4, <3>4, <3>5 DEF c
    <2> QED
      BY <2>1, <2>7, <2>8 DEF BalancedOK, Full, k
  <1>3. CASE ~kk.equal
    <2>1. k < Cardinality(Current) /\ States({}, {f}, k, Current) /\ (Full(f) \/ Sparse(f))
      BY <1>3, KkFacts DEF KarmarkarInv, Balancing
    <2> HIDE DEF k
    <2>2. IsState(f, k, Current) /\ \A x \in Current : \E n \in 1 .. k : x \in f[n]
      BY <2>1 DEF States
    <2>3. DOMAIN f = 1 .. k
      BY <2>2 DEF IsState
    <2>4. ASSUME Sparse(f) PROVE FALSE
      <3> DEFINE place == [x \in Current |-> CHOOSE n \in 1 .. k : x \in f[n]]
      <3>1. \A x \in Current : place[x] \in 1 .. k /\ x \in f[place[x]]
        BY <2>2
      <3>2. place \in [Current -> 1 .. k]
        BY <3>1
      <3> HIDE DEF place
      <3>3. \A x, y \in Current : place[x] = place[y] => x = y
        BY <2>3, <2>4, <3>1 DEF Sparse, AtMostOne
      <3>4. place \in Injection(Current, 1 .. k)
        BY <3>2, <3>3 DEF Injection, IsInjective
      <3>5. IsFiniteSet(1 .. k) /\ Cardinality(1 .. k) = k
        BY <1>1, FS_Interval
      <3>6. Cardinality(Current) <= k
        BY <3>4, <3>5, FS_Injection
      <3>7. Cardinality(Current) \in Nat
        BY SubsetFacts, StepsFacts DEF Current, TypeOK
      <3>8. k < Cardinality(Current)
        BY <2>1
      <3> QED
        BY ONLY <1>1, <3>6, <3>7, <3>8
    <2> QED
      BY <1>3, <2>1, <2>3, <2>4 DEF BalancedOK, Full, k
  <1> QED
    BY <1>2, <1>3
-----------------------------------------------------------------------------
(***************************************************************************)
(* num_microbatches                                                        *)
(***************************************************************************)
\* The target is a multiple of the data-parallel size, and of the group of
\* virtual pipeline stages with it.
LEMMA TargetMultiple ==
    ASSUME conf \in Configs, bins \in Seq(SUBSET Samples), Len(bins) = TargetK
    PROVE  \E x \in Nat : Len(bins) = x * conf.dp /\ (conf.vpp > 1 => x % conf.mbGroup = 0)
  <1> DEFINE d == conf.dp
             g == IF conf.vpp > 1 THEN conf.mbGroup ELSE 1
             l == Len(bins)
             a == d * g
             c == (l + a - 1) \div a
  <1>1. d \in Nat \ {0}
    BY ConfFacts
  <1>2. g \in Nat \ {0}
    BY ConfFacts
  <1>3. l \in Nat
    OBVIOUS
  <1>4. l = IF c * a > a THEN c * a ELSE a
    BY DEF TargetK, MaxOf, CeilDiv, AlignTo
  <1>5. a \in Nat \ {0}
    <2> HIDE DEF d, g
    <2> QED
      BY ONLY <1>1, <1>2, Z3 DEF a
  <1> HIDE DEF d, g, l, a
  <1>6. c \in Nat
    <2>1. l + a - 1 \in Nat
      BY ONLY <1>3, <1>5
    <2> QED
      BY ONLY <1>5, <2>1
  <1> HIDE DEF c
  <1>7. PICK y \in Nat : l = y * a
    <2>1. a = 1 * a
      BY ONLY <1>5
    <2> QED
      BY ONLY <1>4, <1>6, <2>1
  <1>8. y * (d * g) = (y * g) * d
    BY ONLY <1>1, <1>2, <1>7, Z3
  <1>9. y * g \in Nat
    BY ONLY <1>2, <1>7, Z3
  <1>10. (y * g) % g = 0
    BY <1>2, Multiple
  <1>11. l = (y * g) * d
    BY <1>7, <1>8 DEF a
  <1>12. conf.vpp > 1 => (y * g) % conf.mbGroup = 0
    BY <1>10 DEF g
  <1> QED
    BY <1>9, <1>11, <1>12 DEF l, d

\* The actions that neither deal micro-batches nor train
Schedules == \/ TooFewRollouts \/ TooFewSamples \/ StartStep
             \/ \E i \in todo : FirstFit(i)
             \/ StaticChunk \/ Packed \/ StaticMisaligned \/ CannotSplit
             \/ StartSplit \/ SplitOne \/ SplitDone

LEMMA Scheduling ==
    ASSUME Schedules
    PROVE  /\ UNCHANGED <<counts, step, parts, share, offset, trained>>
           /\ pc \notin {"place", "train"} /\ pc' \notin {"place", "train", "unbalanced"}
           /\ ~Dealt /\ ~Dealt'
  <1>1. CASE TooFewRollouts \/ TooFewSamples
    <2>1. pc = "step" /\ pc' \in {"too_few_rollouts", "too_few_samples"}
      BY <1>1 DEF TooFewRollouts, TooFewSamples
    <2>2. UNCHANGED <<step, outVars, share, trainVars>>
      BY <1>1 DEF TooFewRollouts, TooFewSamples
    <2>3. UNCHANGED <<counts, step, parts, share, offset, trained>>
      BY <2>2 DEF outVars, trainVars
    <2> QED
      BY <2>1, <2>3 DEF Dealt, Balancing
  <1>2. CASE StartStep
    <2>1. pc = "step" /\ (pc' = "pack" \/ (pc' = "karmarkar" /\ kk'.equal = FALSE))
      <3>1. CASE BalancesBins(step)
        <4>1. kk' = [k |-> NumMbs(step), equal |-> FALSE, rest |-> StepSamples(step), states |-> {}]
          BY <1>2, <3>1 DEF StartStep
        <4>2. pc = "step" /\ pc' = "karmarkar"
          BY <1>2, <3>1 DEF StartStep
        <4> QED
          BY <4>1, <4>2
      <3>2. CASE ~BalancesBins(step)
        BY <1>2, <3>2 DEF StartStep
      <3> QED
        BY <3>1, <3>2
    <2>2. UNCHANGED <<counts, step, parts, share, offset, trained>>
      BY <1>2 DEF StartStep, outVars, trainVars
    <2> QED
      BY <2>1, <2>2 DEF Dealt, Balancing
  <1>3. CASE (\E i \in todo : FirstFit(i)) \/ StaticChunk
    <2>1. pc = "pack" /\ pc' = "pack"
          /\ UNCHANGED <<counts, step, parts, share, offset, trained>>
      BY <1>3 DEF FirstFit, StaticChunk, outVars, trainVars
    <2> QED
      BY <2>1 DEF Dealt, Balancing
  <1>4. CASE Packed \/ StaticMisaligned \/ CannotSplit \/ StartSplit
    <2>1. pc \in {"pack", "align"} /\ pc' \in {"align", "static_misaligned", "cannot_split", "split"}
          /\ UNCHANGED <<counts, step, parts, share, offset, trained>>
      BY <1>4 DEF Packed, StaticMisaligned, CannotSplit, StartSplit, Misaligned, outVars, trainVars
    <2> QED
      BY <2>1 DEF Dealt, Balancing
  <1>5. CASE SplitOne
    <2>1. pc = "split" /\ pc' = "split"
          /\ UNCHANGED <<counts, step, parts, share, offset, trained>>
      BY <1>5 DEF SplitOne, outVars, trainVars
    <2> QED
      BY <2>1 DEF Dealt, Balancing
  <1>6. CASE SplitDone
    <2>1. pc = "split" /\ pc' = "align"
          /\ UNCHANGED <<counts, step, parts, share, offset, trained>>
      BY <1>6 DEF SplitDone, outVars, trainVars
    <2> QED
      BY <2>1 DEF Dealt, Balancing
  <1> QED
    BY <1>1, <1>2, <1>3, <1>4, <1>5, <1>6 DEF Schedules

LEMMA NextCountsInv ==
    ASSUME TypeOK, PhaseInv, CountsInv, KarmarkarInv, [Next]_vars
    PROVE  CountsInv'
  <1>1. conf' = conf
    BY InputFixed
  <1>2. step \in Nat \ {0} /\ counts \in Seq(Nat)
    BY DEF TypeOK
  <1>3. CASE Schedules
    <2>1. counts' = counts /\ step' = step /\ pc # "train" /\ pc' \notin {"train", "unbalanced"}
          /\ ~Dealt /\ ~Dealt'
      BY <1>3, Scheduling
    <2> QED
      BY <1>1, <2>1 DEF CountsInv
  <1>4. CASE AddState \/ MergeStates
    <2>1. counts' = counts /\ step' = step /\ bins' = bins /\ pc' = pc /\ pc = "karmarkar"
      <3>1. CASE AddState
        BY <3>1 DEF AddState, outVars, packVars
      <3>2. CASE MergeStates
        BY <3>2 DEF MergeStates, outVars, packVars
      <3> QED
        BY <1>4, <3>1, <3>2
    <2>2. Dealt' = Dealt
      BY <1>4, <2>1, ItemsTaken DEF Dealt, Balancing
    <2> QED
      BY <1>1, <2>1, <2>2 DEF CountsInv
  <1>5. CASE Balanced
    <2>1. PICK f \in kk.states :
            /\ kk.states = {f}
            /\ IF ~BalancedOK(f)
                 THEN pc' = "unbalanced" /\ UNCHANGED <<bins, share>>
                 ELSE IF kk.equal
                   THEN pc' = "place" /\ share' = f /\ UNCHANGED bins
                   ELSE pc' = "align" /\ bins' = f /\ UNCHANGED share
      BY <1>5 DEF Balanced
    <2>2. pc = "karmarkar" /\ kk.rest = {} /\ step' = step /\ counts' = counts
      BY <1>5 DEF Balanced, outVars
    <2>3. BalancedOK(f)
      BY <2>1, <2>2, LastState
    <2>4. CASE kk.equal
      <3>1. Dealt /\ Dealt' /\ bins' = bins /\ pc' = "place"
        BY <2>1, <2>2, <2>3, <2>4, KkFacts DEF Dealt, Balancing
      <3> QED
        BY <1>1, <2>2, <3>1 DEF CountsInv
    <2>5. CASE ~kk.equal
      <3>1. ~Dealt /\ ~Dealt' /\ pc' = "align"
        BY <2>1, <2>2, <2>3, <2>5, KkFacts DEF Dealt, Balancing
      <3> QED
        BY <1>1, <2>2, <3>1 DEF CountsInv
    <2> QED
      BY <2>4, <2>5
  <1>6. CASE Deal
    <2>1. pc = "align" /\ Len(bins) = TargetK /\ bins' = bins /\ step' = step
      BY <1>6 DEF Deal, packVars
    <2>2. PICK x \in Nat : Len(bins) = x * conf.dp /\ (conf.vpp > 1 => x % conf.mbGroup = 0)
      BY <2>1, TargetMultiple DEF TypeOK
    <2>3. conf.dp \in Nat /\ conf.dp > 0
      BY ConfFacts DEF TypeOK
    <2>4. Len(bins) \div conf.dp = x /\ Len(bins) % conf.dp = 0
      BY <2>2, <2>3, Multiple
    <2>5. counts' = Append(counts, x)
      BY <1>6, <2>4 DEF Deal
    <2>6. Len(counts) = step - 1
      BY <2>1 DEF CountsInv, Dealt, Balancing
    <2>7. Len(counts') = step /\ counts'[step] = x /\ \A s \in 1 .. step - 1 : counts'[s] = counts[s]
      BY <1>2, <2>5, <2>6, AppendProperties
    <2>8. pc' \in {"karmarkar", "place"} /\ Dealt'
      BY <1>6, <2>4 DEF Deal, Dealt, Balancing
    <2>9. conf.vpp > 1 => \A s \in 1 .. Len(counts') : counts'[s] % conf.mbGroup = 0
      <3>1. \A s \in 1 .. step : s \in 1 .. step - 1 \/ s = step
        BY <1>2
      <3>2. conf.vpp > 1 => \A s \in 1 .. step - 1 : counts[s] % conf.mbGroup = 0
        BY <2>6 DEF CountsInv
      <3> QED
        BY <2>2, <2>7, <3>1, <3>2
    <2>10. counts'[step] * conf.dp = Len(bins)
      BY <2>2, <2>7
    <2> QED
      BY <1>1, <2>1, <2>7, <2>8, <2>9, <2>10 DEF CountsInv
  <1>7. CASE \E r \in Ranks : Place(r)
    <2>1. pc = "place" /\ pc' = pc /\ counts' = counts /\ step' = step /\ bins' = bins
      BY <1>7 DEF Place, packVars
    <2> QED
      BY <1>1, <2>1 DEF CountsInv, Dealt
  <1>8. CASE EndStep
    <2>1. pc = "place" /\ counts' = counts /\ trained' = trained
      BY <1>8 DEF EndStep, outVars, trainVars
    <2>2. Len(counts) = step /\ trained = <<>>
      BY <2>1 DEF CountsInv, Dealt, PhaseInv
    <2>3. \/ pc' = "step" /\ step' = step + 1
          \/ pc' = "train" /\ step' = 1
      BY <1>8 DEF EndStep
    <2>4. ~Dealt'
      BY <2>3 DEF Dealt, Balancing
    <2> QED
      BY <1>1, <1>2, <2>1, <2>2, <2>3, <2>4 DEF CountsInv
  <1>9. CASE TrainOneStep
    <2>1. pc = "train" /\ pc' = pc /\ counts' = counts /\ step' = step + 1 /\ step <= Len(counts)
      BY <1>9 DEF TrainOneStep, outVars
    <2>2. Len(trained) = step - 1
      BY <2>1 DEF CountsInv
    <2>3. Len(trained') = Len(trained) + 1
      <3> DEFINE t == [r \in Ranks |-> Consumed(r)]
      <3>1. trained' = Append(trained, t)
        BY <1>9 DEF TrainOneStep
      <3>2. trained \in Seq([Ranks -> Seq(SUBSET Samples)])
        BY DEF TypeOK
      <3> HIDE DEF t
      <3> QED
        BY <3>1, <3>2
    <2>4. ~Dealt'
      BY <2>1 DEF Dealt, Balancing
    <2> QED
      BY <1>1, <1>2, <2>1, <2>2, <2>3, <2>4 DEF CountsInv
  <1>10. CASE Finished \/ UNCHANGED vars
    <2>1. pc' = pc /\ kk' = kk /\ counts' = counts /\ step' = step /\ bins' = bins /\ trained' = trained
      BY <1>10 DEF Finished, vars, packVars, outVars, trainVars
    <2> QED
      BY <1>1, <2>1 DEF CountsInv, Dealt, Balancing
  <1> QED
    BY <1>3, <1>4, <1>5, <1>6, <1>7, <1>8, <1>9, <1>10 DEF Next, Schedules
-----------------------------------------------------------------------------
(***************************************************************************)
(* The lists of the ranks                                                  *)
(***************************************************************************)
LEMMA Offsets ==
    ASSUME counts \in Seq(Nat), NEW off, IsOffset(off)
    PROVE  /\ \A s \in 0 .. Len(counts) : off[s] \in Nat
           /\ \A s, t \in 0 .. Len(counts) : s <= t => off[s] <= off[t]
  <1> DEFINE N == Len(counts)
             T == {n \in Nat : \A s \in 0 .. N : s + n <= N => off[s] <= off[s + n]}
  <1>1. N \in Nat /\ \A s \in 1 .. N : counts[s] \in Nat
    OBVIOUS
  <1>2. \A s \in 0 .. N : off[s] \in Nat
    BY DEF IsOffset
  <1>3. \A s \in 1 .. N : off[s] = off[s - 1] + counts[s]
    BY DEF IsOffset
  <1> HIDE DEF N
  <1>4. 0 \in T
    BY ONLY <1>1, <1>2
  <1>5. ASSUME NEW n \in Nat, n \in T PROVE n + 1 \in T
    <2> SUFFICES ASSUME NEW s \in 0 .. N, s + (n + 1) <= N
                 PROVE  off[s] <= off[s + (n + 1)]
      OBVIOUS
    <2>1. off[s] <= off[s + n]
      BY <1>1, <1>5
    <2>2. s + (n + 1) \in 1 .. N /\ s + (n + 1) - 1 = s + n /\ s + n \in 0 .. N
      BY <1>1
    <2>3. off[s + (n + 1)] = off[s + n] + counts[s + (n + 1)] /\ counts[s + (n + 1)] \in Nat
      BY <1>1, <1>3, <2>2
    <2>4. off[s] \in Nat /\ off[s + n] \in Nat
      BY <1>2, <2>2
    <2> QED
      BY ONLY <2>1, <2>3, <2>4
  <1>6. Nat \subseteq T
    <2> HIDE DEF T
    <2> QED
      BY <1>4, <1>5, NatsIn
  <1>7. ASSUME NEW s \in 0 .. N, NEW t \in 0 .. N, s <= t PROVE off[s] <= off[t]
    <2>1. s + (t - s) = t /\ t - s \in Nat /\ t <= N
      BY <1>1, <1>7
    <2>2. t - s \in T
      BY <1>6, <2>1
    <2>3. s + (t - s) <= N => off[s] <= off[s + (t - s)]
      BY <2>2
    <2> QED
      BY <2>1, <2>3
  <1> QED
    BY <1>2, <1>7 DEF N

\* An entry is in the segment of one step only.
LEMMA OneSegment ==
    ASSUME counts \in Seq(Nat), NEW off, IsOffset(off), NEW s \in 1 .. Len(counts),
           NEW t \in 1 .. Len(counts), NEW p, p \in Segment(off, s), p \in Segment(off, t)
    PROVE  s = t
  <1>1. ASSUME NEW u \in 1 .. Len(counts), NEW v \in 1 .. Len(counts), u < v,
               p \in Segment(off, u), p \in Segment(off, v)
        PROVE  FALSE
    <2>1. u \in 0 .. Len(counts) /\ v - 1 \in 0 .. Len(counts) /\ u <= v - 1
      BY <1>1
    <2>2. off[u] <= off[v - 1] /\ off[u] \in Nat /\ off[v - 1] \in Nat
      BY <2>1, Offsets
    <2>3. p <= off[u] /\ off[v - 1] + 1 <= p /\ p \in Int
      <3>1. p \in off[u - 1] + 1 .. off[u] /\ p \in off[v - 1] + 1 .. off[v]
        BY <1>1 DEF Segment
      <3>2. u - 1 \in 0 .. Len(counts) /\ off[u - 1] \in Nat /\ off[v] \in Nat
        BY Offsets
      <3> QED
        BY ONLY <2>2, <3>1, <3>2
    <2> QED
      BY ONLY <2>2, <2>3
  <1>2. s < t \/ t < s \/ s = t
    OBVIOUS
  <1> QED
    BY <1>1, <1>2

\* The positions of a segment
LEMMA SegmentRange ==
    ASSUME counts \in Seq(Nat), NEW off, IsOffset(off), NEW s \in 1 .. Len(counts), NEW p \in Segment(off, s)
    PROVE  p \in Nat /\ p >= 1 /\ off[s - 1] < p /\ p <= off[s] /\ off[s - 1] \in Nat /\ off[s] \in Nat
  <1>1. s - 1 \in 0 .. Len(counts) /\ s \in 0 .. Len(counts)
    OBVIOUS
  <1>2. off[s - 1] \in Nat /\ off[s] \in Nat
    BY <1>1, Offsets
  <1>3. p \in off[s - 1] + 1 .. off[s]
    BY DEF Segment
  <1> QED
    BY ONLY <1>2, <1>3

LEMMA InitLayoutInv == Init => LayoutInv
  <1> SUFFICES ASSUME Init
               PROVE  LayoutInv
    OBVIOUS
  <1> DEFINE off == [s \in 0 .. 0 |-> 0]
  <1>1. pc = "step" /\ counts = <<>> /\ Len(counts) = 0
    BY DEF Init
  <1>2. IsOffset(off)
    BY <1>1 DEF IsOffset
  <1>3. \A r \in Ranks : parts[r] = <<>> /\ Len(parts[r]) = 0 /\ Cardinality(share[r]) = 0
    BY FS_EmptySet DEF Init
  <1>4. off[0] = 0
    OBVIOUS
  <1> HIDE DEF off
  <1>5. LengthsOf(off)
    BY <1>1, <1>3, <1>4 DEF LengthsOf, Balancing
  <1>6. LayoutOf(off)
    BY <1>1, <1>3 DEF LayoutOf
  <1>7. PlacingOf(off) /\ TrainedOf(off)
    BY <1>1 DEF PlacingOf, TrainedOf
  <1> QED
    BY <1>2, <1>5, <1>6, <1>7 DEF LayoutInv

\* The layout depends on the lists, their phase and nothing else.
LEMMA LayoutSame ==
    ASSUME NEW off, LayoutOf(off), batch' = batch, conf' = conf, step' = step, counts' = counts,
           parts' = parts, Dealt' = Dealt
    PROVE  LayoutOf(off)'
  <1>1. Ranks' = Ranks /\ Steps' = Steps
    BY InputSame
  <1>2. \A S : Capped(S)' = Capped(S)
    BY DEF Capped
  <1>3. Segment(off, step)' = Segment(off, step) /\ \A s : Segment(off, s)' = Segment(off, s)
    BY DEF Segment
  <1> QED
    BY <1>1, <1>2, <1>3 DEF LayoutOf

LEMMA QuietLayout ==
    ASSUME LayoutInv, batch' = batch, conf' = conf, UNCHANGED <<step, counts, parts, share, offset, trained>>,
           pc \notin {"place", "train"}, pc' \notin {"place", "train"},
           Dealt' = Dealt, Balancing(TRUE)' = Balancing(TRUE)
    PROVE  LayoutInv'
  <1>1. PICK off : IsOffset(off) /\ LengthsOf(off) /\ LayoutOf(off)
    BY DEF LayoutInv
  <1>2. Ranks' = Ranks
    BY InputSame
  <1>3. IsOffset(off)'
    BY <1>1 DEF IsOffset
  <1>4. LengthsOf(off)'
    BY <1>1, <1>2 DEF LengthsOf
  <1>5. LayoutOf(off)'
    BY <1>1, LayoutSame
  <1>6. PlacingOf(off)' /\ TrainedOf(off)'
    BY DEF PlacingOf, TrainedOf
  <1> QED
    BY <1>3, <1>4, <1>5, <1>6 DEF LayoutInv

\* Nothing of the step is placed yet and every micro-batch has one rank.
LEMMA PlacingStarts ==
    ASSUME TypeOK, Partition(bins, Current), batch' = batch, conf' = conf, step' = step,
           bins' = bins, parts' = parts,
           NEW off, \A r \in Ranks : Len(parts[r]) = off[step - 1], off[step - 1] \in Nat,
           \A r, q \in Ranks : r # q => share'[r] \cap share'[q] = {},
           \A m \in 1 .. Len(bins) : \E r \in Ranks : m \in share'[r]
    PROVE  PlacingOf(off)'
  <1>1. Ranks' = Ranks /\ Steps' = Steps
    BY InputSame
  <1>2. Current' = Current
    BY <1>1 DEF Current
  <1>3. \A p \in Segment(off, step) : \A r \in Ranks : ~(p <= Len(parts[r]))
    <2> SUFFICES ASSUME NEW p \in off[step - 1] + 1 .. off[step], NEW r \in Ranks, p <= off[step - 1]
                 PROVE  FALSE
      BY DEF Segment
    <2> DEFINE a == off[step - 1]
    <2>1. a \in Nat /\ p \in a + 1 .. off[step] /\ p <= a
      OBVIOUS
    <2> HIDE DEF a
    <2> QED
      BY ONLY <2>1
  <1>4. Segment(off, step)' = Segment(off, step)
    BY DEF Segment
  <1>5. \A i \in Current : \E m \in 1 .. Len(bins) : i \in bins[m]
    BY DEF Partition
  <1>6. \A i \in Current : \E r \in Ranks : \E m \in share'[r] : i \in bins[m]
    BY <1>5
  <1>7. \A r \in Ranks : off[step - 1] <= Len(parts[r])
    OBVIOUS
  <1> QED
    BY <1>1, <1>2, <1>3, <1>4, <1>6, <1>7 DEF PlacingOf

\* The offsets with an entry for one more step
LEMMA OffsetsExtend ==
    ASSUME counts \in Seq(Nat), NEW x \in Nat, counts' = Append(counts, x), NEW off, IsOffset(off)
    PROVE  \E new : /\ IsOffset(new)'
                    /\ \A s \in 0 .. Len(counts) : new[s] = off[s]
                    /\ new[Len(counts) + 1] = off[Len(counts)] + x
  <1> DEFINE N == Len(counts)
             new == [s \in 0 .. N + 1 |-> IF s = N + 1 THEN off[N] + x ELSE off[s]]
  <1>1. N \in Nat
    OBVIOUS
  <1>2. Len(counts') = N + 1 /\ counts'[N + 1] = x /\ \A s \in 1 .. N : counts'[s] = counts[s]
    BY AppendProperties
  <1>3. \A s \in 0 .. N : off[s] \in Nat
    BY Offsets
  <1>4. off[0] = 0 /\ \A s \in 1 .. N : off[s] = off[s - 1] + counts[s]
    BY DEF IsOffset
  <1> HIDE DEF N
  <1>5. \A s \in 0 .. N : new[s] = off[s]
    BY ONLY <1>1
  <1>6. new[N + 1] = off[N] + x /\ off[N] \in Nat
    BY <1>1, <1>3
  <1>7. new \in [0 .. N + 1 -> Nat]
    <2>1. \A s \in 0 .. N + 1 : s \in 0 .. N \/ s = N + 1
      BY ONLY <1>1
    <2>2. \A s \in 0 .. N + 1 : (IF s = N + 1 THEN off[N] + x ELSE off[s]) \in Nat
      BY ONLY <1>1, <1>3, <2>1, x \in Nat
    <2> QED
      BY <2>2
  <1> HIDE DEF new
  <1>8. \A s \in 1 .. N + 1 : new[s] = new[s - 1] + counts'[s]
    <2> SUFFICES ASSUME NEW s \in 1 .. N + 1 PROVE new[s] = new[s - 1] + counts'[s]
      OBVIOUS
    <2>1. CASE s = N + 1
      <3>1. s - 1 = N /\ N \in 0 .. N
        BY <1>1, <2>1
      <3> QED
        BY <1>2, <1>5, <1>6, <2>1, <3>1
    <2>2. CASE s # N + 1
      <3>1. s \in 1 .. N /\ s \in 0 .. N /\ s - 1 \in 0 .. N
        BY <1>1, <2>2
      <3> QED
        BY <1>2, <1>4, <1>5, <3>1
    <2> QED
      BY <2>1, <2>2
  <1>9. new[0] = 0
    BY <1>1, <1>4, <1>5
  <1>10. PICK f : f = new
    OBVIOUS
  <1>11. f \in [0 .. Len(counts') -> Nat] /\ f[0] = 0
    BY <1>2, <1>7, <1>9, <1>10
  <1>12. \A s \in 1 .. Len(counts') : f[s] = f[s - 1] + counts'[s]
    BY <1>2, <1>8, <1>10
  <1>13. IsOffset(f)'
    BY <1>11, <1>12 DEF IsOffset
  <1>14. (\A s \in 0 .. N : f[s] = off[s]) /\ f[N + 1] = off[N] + x
    BY <1>5, <1>6, <1>10
  <1> QED
    BY <1>13, <1>14 DEF N

LEMMA DealLayout ==
    ASSUME TypeOK, PhaseInv, CountsInv, BinsInv, LayoutInv, Deal
    PROVE  LayoutInv'
  <1>1. batch' = batch /\ conf' = conf /\ step' = step /\ bins' = bins /\ parts' = parts
    BY DEF Deal, packVars
  <1>2. pc = "align" /\ Len(bins) = TargetK
    BY DEF Deal
  <1>3. ~Dealt /\ ~Balancing(TRUE) /\ Len(counts) = step - 1 /\ \A r \in Ranks : share[r] = {}
    BY <1>2 DEF Dealt, Balancing, CountsInv, PhaseInv
  <1>4. conf.dp \in Nat /\ conf.dp > 0 /\ step \in Nat \ {0} /\ counts \in Seq(Nat)
    BY ConfFacts DEF TypeOK
  <1>5. PICK x \in Nat : Len(bins) = x * conf.dp
    BY <1>2, TargetMultiple DEF TypeOK
  <1>6. Len(bins) \div conf.dp = x /\ Len(bins) % conf.dp = 0
    BY <1>4, <1>5, Multiple
  <1>7. counts' = Append(counts, x)
    BY <1>6 DEF Deal
  <1>8. PICK old : IsOffset(old) /\ LengthsOf(old) /\ LayoutOf(old)
    BY DEF LayoutInv
  <1>9. PICK off : /\ IsOffset(off)'
                   /\ \A s \in 0 .. Len(counts) : off[s] = old[s]
                   /\ off[Len(counts) + 1] = old[Len(counts)] + x
    BY <1>4, <1>7, <1>8, OffsetsExtend
  <1>10. Len(counts') = step /\ Len(counts) + 1 = step
    BY <1>3, <1>4, <1>7, AppendProperties
  <1>11. off[step - 1] \in Nat /\ off[step - 1] = old[step - 1] /\ off[step] = off[step - 1] + x
    <2>1. step - 1 \in 0 .. Len(counts) /\ Len(counts) = step - 1
      BY <1>3, <1>4
    <2>2. old[step - 1] \in Nat
      BY <1>4, <1>8, <2>1, Offsets
    <2> QED
      BY <1>9, <1>10, <2>1, <2>2
  <1>12. \A r \in Ranks : Len(parts[r]) = off[step - 1]
    <2>1. \A r \in Ranks : Len(parts[r]) = old[Len(counts)] - Cardinality(share[r])
      BY <1>3, <1>8 DEF LengthsOf
    <2>2. \A r \in Ranks : Cardinality(share[r]) = 0
      BY <1>3, FS_EmptySet
    <2>3. old[Len(counts)] = off[step - 1]
      BY <1>3, <1>11
    <2> QED
      BY ONLY <1>11, <2>1, <2>2, <2>3
  <1>13. Ranks' = Ranks /\ Steps' = Steps
    BY <1>1, InputSame
  <1>14. LayoutOf(off)'
    <2>1. Dealt'
      BY <1>6 DEF Deal, Dealt, Balancing
    <2>2. \A S : Capped(S)' = Capped(S)
      BY <1>1 DEF Capped
    <2>3. ASSUME NEW s \in 1 .. step - 1 PROVE s \in 1 .. Len(counts) /\ Segment(off, s) = Segment(old, s)
      <3>1. s \in 0 .. Len(counts) /\ s - 1 \in 0 .. Len(counts) /\ s \in 1 .. Len(counts)
        BY <1>3, <1>4
      <3> QED
        BY <1>9, <3>1 DEF Segment
    <2>4. \A s \in 1 .. Len(counts') : s # step => s \in 1 .. step - 1
      BY <1>4, <1>10
    <2>5. ASSUME NEW p \in Segment(off, step), NEW r \in Ranks PROVE ~(p <= Len(parts[r]))
      <3> DEFINE a == off[step - 1]
      <3>1. a \in Nat /\ p \in a + 1 .. off[step] /\ Len(parts[r]) = a
        BY <1>11, <1>12 DEF Segment
      <3> HIDE DEF a
      <3> QED
        BY ONLY <3>1
    <2>6. \A r \in Ranks : \A p \in 1 .. Len(parts[r]) : parts[r][p] # {} /\ Capped(parts[r][p])
      BY <1>8 DEF LayoutOf
    <2>7. \A s \in 1 .. Len(counts') : \A r \in Ranks : \A p \in Segment(off, s) :
            p <= Len(parts[r]) => parts[r][p] \subseteq Steps[s]
      <3>1. \A s \in 1 .. step - 1 : \A r \in Ranks : \A p \in Segment(off, s) :
              p <= Len(parts[r]) => parts[r][p] \subseteq Steps[s]
        BY <1>8, <2>3 DEF LayoutOf
      <3> QED
        BY <2>4, <2>5, <3>1
    <2>8. \A s \in 1 .. Len(counts') : \A r, q \in Ranks : \A p, n \in Segment(off, s) :
            /\ p <= Len(parts[r]) /\ n <= Len(parts[q])
            /\ parts[r][p] \cap parts[q][n] # {}
            => r = q /\ p = n
      <3>1. \A s \in 1 .. step - 1 : \A r, q \in Ranks : \A p, n \in Segment(off, s) :
              /\ p <= Len(parts[r]) /\ n <= Len(parts[q])
              /\ parts[r][p] \cap parts[q][n] # {}
              => r = q /\ p = n
        BY <1>8, <2>3 DEF LayoutOf
      <3> QED
        BY <2>4, <2>5, <3>1
    <2>9. \A s \in 1 .. step - 1 : \A i \in Steps[s] :
            \E r \in Ranks : \E p \in Segment(off, s) : p <= Len(parts[r]) /\ i \in parts[r][p]
      BY <1>3, <1>8, <2>3 DEF LayoutOf
    <2>10. \A s : Segment(off, s)' = Segment(off, s)
      BY DEF Segment
    <2> QED
      BY <1>1, <1>13, <2>1, <2>2, <2>4, <2>6, <2>7, <2>8, <2>9, <2>10 DEF LayoutOf
  <1>15. TrainedOf(off)'
    BY <1>6 DEF Deal, TrainedOf
  <1>16. CASE conf.balance
    <2>1. pc' = "karmarkar" /\ kk'.equal = TRUE
      BY <1>6, <1>16 DEF Deal
    <2>2. LengthsOf(off)'
      BY <1>1, <1>12, <1>13, <2>1 DEF LengthsOf, Balancing
    <2>3. PlacingOf(off)'
      BY <2>1 DEF PlacingOf
    <2> QED
      BY <1>9, <1>14, <1>15, <2>2, <2>3 DEF LayoutInv
  <1>17. CASE ~conf.balance
    <2>1. pc' = "place" /\ share' = [r \in Ranks |-> Strided(r)]
      BY <1>17 DEF Deal
    <2>2. ASSUME NEW r \in Ranks PROVE Cardinality(share'[r]) = x
      <3>1. share'[r] = {m \in 1 .. x * conf.dp : (m - 1) % conf.dp = r - 1}
        BY <1>5, <2>1 DEF Strided
      <3>2. r \in 1 .. conf.dp
        BY DEF Ranks
      <3>3. Cardinality({m \in 1 .. x * conf.dp : (m - 1) % conf.dp = r - 1}) = x
        BY <1>4, <3>2, Strides
      <3> QED
        BY ONLY <3>1, <3>3
    <2>3. LengthsOf(off)'
      <3>1. off[step] - x = off[step - 1]
        BY ONLY <1>11, x \in Nat
      <3>2. \A r \in Ranks : Len(parts[r]) = off[Len(counts')] - Cardinality(share'[r])
        BY <1>10, <1>12, <2>2, <3>1
      <3> QED
        BY <1>1, <1>13, <2>1, <3>2 DEF LengthsOf, Balancing
    <2>4. \A r, q \in Ranks : r # q => share'[r] \cap share'[q] = {}
      <3> SUFFICES ASSUME NEW r \in Ranks, NEW q \in Ranks, NEW m \in Strided(r), m \in Strided(q)
                   PROVE  r = q
        BY <2>1
      <3>1. r - 1 = q - 1
        BY DEF Strided
      <3> QED
        BY <1>4, <3>1 DEF Ranks
    <2>5. ASSUME NEW m \in 1 .. Len(bins) PROVE \E r \in Ranks : m \in share'[r]
      <3> DEFINE y == m - 1
                 d == conf.dp
                 e == (m - 1) % conf.dp
      <3>1. y \in Nat /\ d \in Nat /\ d > 0
        BY <1>4 DEF TypeOK
      <3>2. e \in 0 .. d - 1
        <4>1. e = y % d
          OBVIOUS
        <4> HIDE DEF y, d, e
        <4> QED
          BY ONLY <3>1, <4>1
      <3>3. (m - 1) % conf.dp = e
        OBVIOUS
      <3> HIDE DEF e
      <3>4. e + 1 \in Ranks /\ (e + 1) - 1 = e
        BY <1>4, <3>2 DEF Ranks
      <3> QED
        BY <2>1, <3>3, <3>4 DEF Strided
    <2>6. Partition(bins, Current)
      <3>1. todo = {}
        BY <1>2 DEF PhaseInv
      <3>2. Current \ {} = Current
        OBVIOUS
      <3> QED
        BY <1>2, <3>1, <3>2 DEF BinsInv, Binned
    <2>7. PlacingOf(off)'
      BY <1>1, <1>11, <1>12, <2>4, <2>5, <2>6, PlacingStarts
    <2> QED
      BY <1>9, <1>14, <1>15, <2>3, <2>7 DEF LayoutInv
  <1> QED
    BY <1>16, <1>17

LEMMA BalancedLayout ==
    ASSUME TypeOK, PhaseInv, CountsInv, BinsInv, KarmarkarInv, LayoutInv, Balanced, kk.equal
    PROVE  LayoutInv'
  <1>1. PICK f \in kk.states :
          /\ kk.states = {f}
          /\ IF ~BalancedOK(f)
               THEN pc' = "unbalanced" /\ UNCHANGED <<bins, share>>
               ELSE IF kk.equal
                 THEN pc' = "place" /\ share' = f /\ UNCHANGED bins
                 ELSE pc' = "align" /\ bins' = f /\ UNCHANGED share
    BY DEF Balanced
  <1>2. pc = "karmarkar" /\ kk.rest = {} /\ step' = step /\ counts' = counts /\ parts' = parts
        /\ batch' = batch /\ conf' = conf
    BY DEF Balanced, outVars
  <1>3. BalancedOK(f)
    BY <1>1, <1>2, LastState
  <1>4. pc' = "place" /\ share' = f /\ bins' = bins
    BY <1>1, <1>3
  <1>5. Balancing(TRUE) /\ ~Balancing(TRUE)' /\ Dealt /\ Dealt'
    BY <1>2, <1>4, KkFacts DEF Balancing, Dealt
  <1>6. conf.dp \in Nat /\ conf.dp > 0 /\ step \in Nat \ {0} /\ counts \in Seq(Nat) /\ Len(bins) \in Nat
    BY ConfFacts DEF TypeOK
  <1>7. Len(counts) = step /\ counts[step] * conf.dp = Len(bins) /\ counts[step] \in Nat
    <2>1. Len(counts) = step /\ counts[step] * conf.dp = Len(bins)
      BY <1>5 DEF CountsInv
    <2> QED
      BY <1>6, <2>1
  <1>8. kk.k = conf.dp /\ States({}, {f}, conf.dp, 1 .. Len(bins))
    BY <1>1, <1>2, <1>5 DEF KarmarkarInv
  <1>9. IsState(f, conf.dp, 1 .. Len(bins)) /\ \A m \in 1 .. Len(bins) : \E r \in 1 .. conf.dp : m \in f[r]
    BY <1>8 DEF States
  <1>10. ASSUME NEW r \in Ranks PROVE Cardinality(f[r]) = counts[step]
    <2> DEFINE c == Cardinality(f[r])
               d == conf.dp
               t == counts[step]
    <2>1. c * d = t * d
      BY <1>3, <1>7, <1>8 DEF BalancedOK, Ranks
    <2>2. f[r] \in SUBSET (1 .. Len(bins))
      BY <1>9 DEF IsState, Ranks
    <2>3. IsFiniteSet(1 .. Len(bins))
      BY <1>6, FS_Interval
    <2>4. c \in Nat
      BY <2>2, <2>3, FS_Subset, FS_CardinalityType
    <2>5. d \in Nat /\ d > 0 /\ t \in Nat
      BY <1>6, <1>7
    <2> HIDE DEF c, d, t
    <2>6. c = t
      BY ONLY <2>1, <2>4, <2>5, Z3
    <2> QED
      BY <2>6 DEF c, t
  <1>11. PICK off : IsOffset(off) /\ LengthsOf(off) /\ LayoutOf(off)
    BY DEF LayoutInv
  <1>12. \A r \in Ranks : Len(parts[r]) = off[step - 1]
    BY <1>5, <1>11 DEF LengthsOf
  <1>13. off[step - 1] \in Nat /\ off[step] = off[step - 1] + counts[step]
    <2>1. step - 1 \in 0 .. Len(counts) /\ step \in 1 .. Len(counts)
      BY <1>6, <1>7
    <2> QED
      BY <1>6, <1>11, <2>1, Offsets DEF IsOffset
  <1>14. Ranks' = Ranks
    BY <1>2, InputSame
  <1>15. LengthsOf(off)'
    <2>1. off[step] - counts[step] = off[step - 1]
      BY ONLY <1>7, <1>13
    <2>2. \A r \in Ranks : Len(parts[r]) = off[Len(counts)] - Cardinality(share'[r])
      BY <1>4, <1>7, <1>10, <1>12, <2>1
    <2> QED
      BY <1>2, <1>5, <1>14, <2>2 DEF LengthsOf
  <1>16. LayoutOf(off)'
    BY <1>2, <1>5, <1>11, LayoutSame
  <1>17. PlacingOf(off)'
    <2>1. Partition(bins, Current)
      <3>1. todo = {}
        BY <1>2 DEF PhaseInv
      <3>2. Current \ {} = Current
        OBVIOUS
      <3> QED
        BY <1>5, <3>1, <3>2 DEF BinsInv, Binned
    <2>2. \A r, q \in Ranks : r # q => share'[r] \cap share'[q] = {}
      BY <1>4, <1>9 DEF IsState, Ranks
    <2>3. \A m \in 1 .. Len(bins) : \E r \in Ranks : m \in share'[r]
      BY <1>4, <1>9 DEF Ranks
    <2> QED
      BY <1>2, <1>4, <1>12, <1>13, <2>1, <2>2, <2>3, PlacingStarts
  <1>18. TrainedOf(off)'
    BY <1>4 DEF TrainedOf
  <1>19. IsOffset(off)'
    BY <1>2, <1>11 DEF IsOffset
  <1> QED
    BY <1>15, <1>16, <1>17, <1>18, <1>19 DEF LayoutInv

LEMMA PlaceLayout ==
    ASSUME TypeOK, PhaseInv, CountsInv, BinsInv, LayoutInv, NEW r \in Ranks, Place(r)
    PROVE  LayoutInv'
  <1>1. PICK m \in share[r] : /\ parts' = [parts EXCEPT ![r] = Append(@, bins[m])]
                              /\ share' = [share EXCEPT ![r] = @ \ {m}]
    BY DEF Place
  <1>2. pc = "place" /\ pc' = pc /\ UNCHANGED <<batch, conf, step, counts, bins, kk>>
    BY DEF Place, packVars
  <1>3. Dealt /\ Dealt' /\ ~Balancing(TRUE) /\ ~Balancing(TRUE)' /\ Binned
    BY <1>2 DEF Dealt, Balancing, Binned
  <1>4. /\ share \in [Ranks -> SUBSET (1 .. Len(bins))]
        /\ parts \in [Ranks -> Seq(SUBSET Samples)]
        /\ bins \in Seq(SUBSET Samples)
        /\ counts \in Seq(Nat) /\ step \in Nat \ {0}
    BY DEF TypeOK
  <1>5. step = Len(counts) /\ step \in 1 .. Len(counts) /\ step - 1 \in 0 .. Len(counts) /\ step \in 0 .. Len(counts)
    BY <1>3, <1>4 DEF CountsInv
  <1>6. PICK off : IsOffset(off) /\ LengthsOf(off) /\ LayoutOf(off) /\ PlacingOf(off)
    BY DEF LayoutInv
  <1>7. off[step - 1] \in Nat /\ off[step] \in Nat
    BY <1>4, <1>5, <1>6, Offsets
  <1> DEFINE P == Len(parts[r]) + 1
  <1>8. Len(parts[r]) \in Nat /\ P \in Nat
    BY <1>4
  <1>9. \A q \in Ranks : share'[q] = IF q = r THEN share[r] \ {m} ELSE share[q]
    BY <1>1, <1>4
  <1>10. /\ Len(parts'[r]) = P
         /\ parts'[r][P] = bins[m]
         /\ \A p \in 1 .. Len(parts[r]) : parts'[r][p] = parts[r][p]
    <2>1. parts'[r] = Append(parts[r], bins[m])
      BY <1>1, <1>4
    <2>2. m \in 1 .. Len(bins)
      BY <1>4
    <2>3. bins[m] \in SUBSET Samples /\ parts[r] \in Seq(SUBSET Samples)
      BY <1>4, <2>2
    <2> QED
      BY <2>1, <2>3, AppendProperties
  <1>11. \A q \in Ranks : q # r => parts'[q] = parts[q]
    BY <1>1, <1>4
  <1>12. IsFiniteSet(share[r]) /\ Cardinality(share[r]) \in Nat
         /\ Cardinality(share[r] \ {m}) = Cardinality(share[r]) - 1
         /\ Cardinality(share[r]) >= 1
    <2>1. Len(bins) \in Nat
      BY <1>4
    <2>2. IsFiniteSet(1 .. Len(bins))
      BY <2>1, FS_Interval
    <2>3. IsFiniteSet(share[r])
      BY <1>4, <2>2, FS_Subset
    <2>4. Cardinality(share[r]) \in Nat
      BY <2>3, FS_CardinalityType
    <2>5. Cardinality(share[r]) # 0
      BY <2>3, FS_EmptySet
    <2>6. Cardinality(share[r] \ {m}) = Cardinality(share[r]) - 1
      BY <2>3, FS_RemoveElement
    <2> QED
      BY <2>3, <2>4, <2>5, <2>6
  <1>13. \A q \in Ranks : Len(parts[q]) = off[step] - Cardinality(share[q])
    BY <1>3, <1>5, <1>6 DEF LengthsOf
  <1>14. P \in Segment(off, step)
    <2>1. off[step - 1] <= Len(parts[r])
      BY <1>2, <1>6 DEF PlacingOf
    <2> DEFINE a == off[step - 1]
               b == off[step]
               l == Len(parts[r])
               c == Cardinality(share[r])
    <2>2. a \in Nat /\ b \in Nat /\ l \in Nat /\ c \in Nat /\ c >= 1 /\ a <= l /\ l = b - c
      BY <1>7, <1>8, <1>12, <1>13, <2>1
    <2> HIDE DEF a, b, l, c
    <2>3. l + 1 \in a + 1 .. b
      BY ONLY <2>2
    <2> QED
      BY <2>3 DEF a, b, l, Segment
  <1>15. Ranks' = Ranks /\ Steps' = Steps /\ Current' = Current
    BY <1>2, InputSame DEF Current
  <1>16. Partition(bins, Current) /\ \A j \in 1 .. Len(bins) : Capped(bins[j])
    <2>1. todo = {}
      BY <1>2 DEF PhaseInv
    <2>2. Current \ {} = Current
      OBVIOUS
    <2> QED
      BY <1>3, <2>1, <2>2 DEF BinsInv
  <1>17. m \in 1 .. Len(bins) /\ bins[m] # {} /\ bins[m] \subseteq Current /\ Capped(bins[m])
    BY <1>4, <1>16 DEF Partition
  <1> HIDE DEF P
  \* What the lists hold afterwards
  <1>18. ASSUME NEW q \in Ranks, NEW p \in Nat, p >= 1, p <= Len(parts'[q])
         PROVE  \/ p <= Len(parts[q]) /\ parts'[q][p] = parts[q][p]
                \/ q = r /\ p = P /\ parts'[q][p] = bins[m]
    <2>1. CASE q = r
      <3>1. p <= P
        BY <1>10, <1>18, <2>1
      <3>2. p = P \/ p <= Len(parts[r])
        BY <1>8, <3>1 DEF P
      <3>3. p <= Len(parts[r]) => p \in 1 .. Len(parts[r])
        BY <1>8, <1>18
      <3> QED
        BY <1>10, <2>1, <3>2, <3>3
    <2>2. CASE q # r
      BY <1>11, <1>18, <2>2
    <2> QED
      BY <2>1, <2>2
  <1>19. ASSUME NEW q \in Ranks, NEW p \in Nat, p >= 1, p <= Len(parts[q])
         PROVE  p <= Len(parts'[q]) /\ parts'[q][p] = parts[q][p]
    <2>1. CASE q = r
      <3>1. p \in 1 .. Len(parts[r]) /\ p <= P
        BY <1>8, <1>19, <2>1 DEF P
      <3> QED
        BY <1>10, <2>1, <3>1
    <2>2. CASE q # r
      BY <1>11, <1>19, <2>2
    <2> QED
      BY <2>1, <2>2
  <1>20. \A s : Segment(off, s)' = Segment(off, s)
    BY DEF Segment
  <1>21. \A s \in 1 .. Len(counts) : \A p \in Segment(off, s) : p \in Nat /\ p >= 1
    BY <1>4, <1>6, SegmentRange
  <1>22. \A s \in 1 .. Len(counts) : P \in Segment(off, s) => s = step
    BY <1>4, <1>5, <1>6, <1>14, OneSegment
  <1>23. LengthsOf(off)'
    <2>1. ASSUME NEW q \in Ranks PROVE Len(parts'[q]) = off[step] - Cardinality(share'[q])
      <3>1. CASE q = r
        <4> DEFINE b == off[step]
                   l == Len(parts[r])
                   c == Cardinality(share[r])
                   e == Cardinality(share[r] \ {m})
        <4>1. b \in Nat /\ l \in Nat /\ c \in Nat /\ l = b - c /\ e = c - 1
          BY <1>7, <1>8, <1>12, <1>13
        <4> HIDE DEF b, l, c, e
        <4>2. l + 1 = b - e
          BY ONLY <4>1
        <4>3. Len(parts'[r]) = l + 1 /\ Cardinality(share'[r]) = e
          BY <1>9, <1>10 DEF P, l, e
        <4> QED
          BY <3>1, <4>2, <4>3 DEF b
      <3>2. CASE q # r
        BY <1>9, <1>11, <1>13, <3>2
      <3> QED
        BY <3>1, <3>2
    <2> QED
      BY <1>2, <1>3, <1>5, <1>15, <2>1 DEF LengthsOf
  <1>24. LayoutOf(off)'
    <2>1. ASSUME NEW q \in Ranks, NEW p \in 1 .. Len(parts'[q])
          PROVE  parts'[q][p] # {} /\ Capped(parts'[q][p])
      <3>1. p \in Nat /\ p >= 1 /\ p <= Len(parts'[q])
        OBVIOUS
      <3>2. p <= Len(parts[q]) => p \in 1 .. Len(parts[q])
        BY <1>4, <3>1
      <3> QED
        BY <1>6, <1>17, <1>18, <3>1, <3>2 DEF LayoutOf
    <2>2. ASSUME NEW s \in 1 .. Len(counts), NEW q \in Ranks, NEW p \in Segment(off, s), p <= Len(parts'[q])
          PROVE  parts'[q][p] \subseteq Steps[s]
      <3>1. CASE p <= Len(parts[q]) /\ parts'[q][p] = parts[q][p]
        BY <1>6, <3>1 DEF LayoutOf
      <3>2. CASE q = r /\ p = P /\ parts'[q][p] = bins[m]
        BY <1>17, <1>22, <3>2 DEF Current
      <3> QED
        BY <1>18, <1>21, <2>2, <3>1, <3>2
    <2>3. ASSUME NEW s \in 1 .. Len(counts), NEW u \in Ranks, NEW q \in Ranks,
                 NEW p \in Segment(off, s), NEW n \in Segment(off, s),
                 p <= Len(parts'[u]), n <= Len(parts'[q]), parts'[u][p] \cap parts'[q][n] # {}
          PROVE  u = q /\ p = n
      <3>0. /\ \/ p <= Len(parts[u]) /\ parts'[u][p] = parts[u][p]
               \/ u = r /\ p = P /\ parts'[u][p] = bins[m]
            /\ \/ n <= Len(parts[q]) /\ parts'[q][n] = parts[q][n]
               \/ q = r /\ n = P /\ parts'[q][n] = bins[m]
        BY <1>18, <1>21, <2>3
      <3>1. ASSUME NEW v \in Ranks, NEW o \in Segment(off, step), o <= Len(parts[v])
            PROVE  parts[v][o] \cap bins[m] = {}
        BY <1>2, <1>6, <3>1 DEF PlacingOf
      <3>2. CASE p <= Len(parts[u]) /\ parts'[u][p] = parts[u][p]
        <4>1. CASE n <= Len(parts[q]) /\ parts'[q][n] = parts[q][n]
          BY <1>6, <2>3, <3>2, <4>1 DEF LayoutOf
        <4>2. CASE q = r /\ n = P /\ parts'[q][n] = bins[m]
          <5>1. s = step
            BY <1>22, <4>2
          <5>2. parts[u][p] \cap bins[m] = {}
            BY <3>1, <3>2, <5>1
          <5> QED
            BY <2>3, <3>2, <4>2, <5>2
        <4> QED
          BY <3>0, <4>1, <4>2
      <3>3. CASE u = r /\ p = P /\ parts'[u][p] = bins[m]
        <4>1. CASE n <= Len(parts[q]) /\ parts'[q][n] = parts[q][n]
          <5>1. s = step
            BY <1>22, <3>3
          <5>2. parts[q][n] \cap bins[m] = {}
            BY <3>1, <4>1, <5>1
          <5> QED
            BY <2>3, <3>3, <4>1, <5>2
        <4>2. CASE q = r /\ n = P
          BY <3>3, <4>2
        <4> QED
          BY <3>0, <4>1, <4>2
      <3> QED
        BY <3>0, <3>2, <3>3
    <2>4. ASSUME NEW s \in 1 .. Len(counts), s # step, NEW i \in Steps[s]
          PROVE  \E q \in Ranks : \E p \in Segment(off, s) : p <= Len(parts'[q]) /\ i \in parts'[q][p]
      <3>1. PICK q \in Ranks, p \in Segment(off, s) : p <= Len(parts[q]) /\ i \in parts[q][p]
        BY <1>6, <2>4 DEF LayoutOf
      <3>2. p <= Len(parts'[q]) /\ parts'[q][p] = parts[q][p]
        BY <1>19, <1>21, <3>1
      <3> QED
        BY <3>1, <3>2
    <2>5. \A S : Capped(S)' = Capped(S)
      BY <1>2 DEF Capped
    <2> QED
      BY <1>2, <1>3, <1>15, <1>20, <2>1, <2>2, <2>3, <2>4, <2>5 DEF LayoutOf
  <1>25. PlacingOf(off)'
    <2>1. ASSUME NEW q \in Ranks PROVE off[step - 1] <= Len(parts'[q])
      <3>1. off[step - 1] <= Len(parts[q])
        BY <1>2, <1>6 DEF PlacingOf
      <3>2. CASE q = r
        BY <1>7, <1>8, <1>10, <3>1, <3>2 DEF P
      <3>3. CASE q # r
        BY <1>11, <3>1, <3>3
      <3> QED
        BY <3>2, <3>3
    <2>2. \A u, q \in Ranks : u # q => share[u] \cap share[q] = {}
      BY <1>2, <1>6 DEF PlacingOf
    <2>3. \A u, q \in Ranks : u # q => share'[u] \cap share'[q] = {}
      BY <1>9, <2>2
    <2>4. \A q \in Ranks : \A n \in share'[q] : n \in share[q] /\ n # m
      <3> SUFFICES ASSUME NEW q \in Ranks, NEW n \in share'[q] PROVE n \in share[q] /\ n # m
        OBVIOUS
      <3>1. CASE q = r
        BY <1>9, <3>1
      <3>2. CASE q # r
        BY <1>9, <2>2, <3>2
      <3> QED
        BY <3>1, <3>2
    <2>5. ASSUME NEW u \in Ranks, NEW q \in Ranks, NEW p \in Segment(off, step), NEW n \in share'[q],
                 p <= Len(parts'[u])
          PROVE  parts'[u][p] \cap bins[n] = {}
      <3>1. n \in share[q] /\ n # m /\ n \in 1 .. Len(bins)
        BY <1>4, <2>4
      <3>2. CASE p <= Len(parts[u]) /\ parts'[u][p] = parts[u][p]
        BY <1>2, <1>6, <3>1, <3>2 DEF PlacingOf
      <3>3. CASE u = r /\ p = P /\ parts'[u][p] = bins[m]
        BY <1>16, <1>17, <3>1, <3>3 DEF Partition
      <3> QED
        BY <1>5, <1>18, <1>21, <2>5, <3>2, <3>3
    <2>6. ASSUME NEW i \in Current
          PROVE  \/ \E q \in Ranks : \E p \in Segment(off, step) : p <= Len(parts'[q]) /\ i \in parts'[q][p]
                 \/ \E q \in Ranks : \E n \in share'[q] : i \in bins[n]
      <3>1. CASE \E q \in Ranks : \E p \in Segment(off, step) : p <= Len(parts[q]) /\ i \in parts[q][p]
        <4>1. PICK q \in Ranks, p \in Segment(off, step) : p <= Len(parts[q]) /\ i \in parts[q][p]
          BY <3>1
        <4>2. p <= Len(parts'[q]) /\ parts'[q][p] = parts[q][p]
          BY <1>5, <1>19, <1>21, <4>1
        <4> QED
          BY <4>1, <4>2
      <3>2. CASE \E q \in Ranks : \E n \in share[q] : i \in bins[n]
        <4>1. PICK q \in Ranks : \E n \in share[q] : i \in bins[n]
          BY <3>2
        <4>2. PICK n \in share[q] : i \in bins[n]
          BY <4>1
        <4>3. CASE q = r /\ n = m
          <5>1. P <= Len(parts'[r]) /\ i \in parts'[r][P]
            BY <1>8, <1>10, <4>2, <4>3
          <5> QED
            BY <1>14, <5>1
        <4>4. CASE ~(q = r /\ n = m)
          <5>1. n \in share'[q]
            BY <1>9, <4>2, <4>4
          <5> QED
            BY <4>2, <5>1
        <4> QED
          BY <4>3, <4>4
      <3>3. \/ \E q \in Ranks : \E p \in Segment(off, step) : p <= Len(parts[q]) /\ i \in parts[q][p]
            \/ \E q \in Ranks : \E n \in share[q] : i \in bins[n]
        BY <1>2, <1>6 DEF PlacingOf
      <3> QED
        BY <3>1, <3>2, <3>3
    <2>7. Segment(off, step)' = Segment(off, step)
      BY <1>2 DEF Segment
    <2> QED
      BY <1>2, <1>15, <2>1, <2>3, <2>5, <2>6, <2>7 DEF PlacingOf
  <1>26. TrainedOf(off)'
    BY <1>2 DEF TrainedOf
  <1>27. IsOffset(off)'
    BY <1>2, <1>6 DEF IsOffset
  <1> QED
    BY <1>23, <1>24, <1>25, <1>26, <1>27 DEF LayoutInv

LEMMA EndStepLayout ==
    ASSUME TypeOK, PhaseInv, CountsInv, LayoutInv, EndStep
    PROVE  LayoutInv'
  <1>1. pc = "place" /\ UNCHANGED <<batch, conf, kk, share, counts, parts, offset, trained>>
    BY DEF EndStep, outVars, trainVars
  <1>2. \A r \in Ranks : share[r] = {}
    BY DEF EndStep
  <1>3. (pc' = "step" /\ step' = step + 1) \/ (pc' = "train" /\ step' = 1)
    BY DEF EndStep
  <1>4. Dealt /\ ~Dealt' /\ ~Balancing(TRUE) /\ ~Balancing(TRUE)'
    BY <1>1, <1>3 DEF Dealt, Balancing
  <1>5. PICK off : IsOffset(off) /\ LengthsOf(off) /\ LayoutOf(off) /\ PlacingOf(off)
    BY DEF LayoutInv
  <1>6. Ranks' = Ranks /\ Steps' = Steps
    BY <1>1, InputSame
  <1>7. IsOffset(off)'
    BY <1>1, <1>5 DEF IsOffset
  <1>8. LengthsOf(off)'
    BY <1>1, <1>4, <1>5, <1>6 DEF LengthsOf
  <1>9. LayoutOf(off)'
    <2>1. \A i \in Steps[step] :
            \E r \in Ranks : \E p \in Segment(off, step) : p <= Len(parts[r]) /\ i \in parts[r][p]
      BY <1>1, <1>2, <1>5 DEF PlacingOf, Current
    <2>2. \A s \in 1 .. Len(counts) : \A i \in Steps[s] :
            \E r \in Ranks : \E p \in Segment(off, s) : p <= Len(parts[r]) /\ i \in parts[r][p]
      <3> SUFFICES ASSUME NEW s \in 1 .. Len(counts), NEW i \in Steps[s]
                   PROVE  \E r \in Ranks : \E p \in Segment(off, s) : p <= Len(parts[r]) /\ i \in parts[r][p]
        OBVIOUS
      <3>1. CASE s = step
        BY <2>1, <3>1
      <3>2. CASE s # step
        BY <1>5, <3>2 DEF LayoutOf
      <3> QED
        BY <3>1, <3>2
    <2>3. \A S : Capped(S)' = Capped(S)
      BY <1>1 DEF Capped
    <2>4. \A s : Segment(off, s)' = Segment(off, s)
      BY DEF Segment
    <2> QED
      BY <1>1, <1>5, <1>6, <2>2, <2>3, <2>4 DEF LayoutOf
  <1>10. PlacingOf(off)'
    BY <1>3 DEF PlacingOf
  <1>11. TrainedOf(off)'
    <2> SUFFICES ASSUME pc' = "train" PROVE TrainedOf(off)'
      BY DEF TrainedOf
    <2>1. step' = 1
      BY <1>3
    <2>2. offset = 0 /\ trained = <<>> /\ off[0] = 0
      BY <1>1, <1>5 DEF PhaseInv, IsOffset
    <2>3. offset' = off[step' - 1] /\ Len(trained') = 0
      BY <1>1, <2>1, <2>2
    <2> QED
      BY <2>3 DEF TrainedOf
  <1> QED
    BY <1>7, <1>8, <1>9, <1>10, <1>11 DEF LayoutInv

\* When nothing is to be placed any more, the lists have the micro-batches of
\* all steps.
LEMMA WholeLists ==
    ASSUME TypeOK, PhaseInv, pc = "train", NEW off, IsOffset(off), LengthsOf(off)
    PROVE  \A r \in Ranks : Len(parts[r]) = off[Len(counts)]
  <1>1. \A r \in Ranks : share[r] = {} /\ Cardinality(share[r]) = 0
    BY FS_EmptySet DEF PhaseInv
  <1>2. \A r \in Ranks : Len(parts[r]) = off[Len(counts)] - 0
    BY <1>1 DEF LengthsOf, Balancing
  <1>3. Len(counts) \in 0 .. Len(counts) /\ counts \in Seq(Nat)
    BY DEF TypeOK
  <1>4. off[Len(counts)] \in Nat
    BY <1>3, Offsets
  <1> QED
    BY <1>2, <1>4

\* What a rank takes for a step
LEMMA Taken ==
    ASSUME TypeOK, PhaseInv, pc = "train", NEW off, IsOffset(off), LengthsOf(off),
           NEW s \in 1 .. Len(counts), NEW r \in Ranks
    PROVE  LET part == SubSeq(parts[r], off[s - 1] + 1, off[s])
           IN  /\ part \in Seq(SUBSET Samples)
               /\ Len(part) = counts[s]
               /\ \A m \in 1 .. counts[s] : part[m] = parts[r][off[s - 1] + m]
                                            /\ off[s - 1] + m \in Segment(off, s)
                                            /\ off[s - 1] + m <= Len(parts[r])
  <1> DEFINE a == off[s - 1]
             b == off[s]
             l == Len(parts[r])
             c == counts[s]
  <1>1. counts \in Seq(Nat) /\ parts[r] \in Seq(SUBSET Samples)
    BY DEF TypeOK
  <1>2. s - 1 \in 0 .. Len(counts) /\ s \in 0 .. Len(counts) /\ Len(counts) \in 0 .. Len(counts) /\ s <= Len(counts)
    BY <1>1
  <1>3. a \in Nat /\ b \in Nat /\ b <= l /\ l \in Nat
    BY <1>1, <1>2, Offsets, WholeLists
  <1>4. b = a + c /\ c \in Nat
    BY <1>1 DEF IsOffset
  <1>5. Segment(off, s) = a + 1 .. b
    BY DEF Segment
  <1>6. \A i \in 1 .. l : parts[r][i] \in SUBSET Samples
    BY <1>1
  <1> HIDE DEF a, b, l, c
  <1>7. \A i \in a + 1 .. b : parts[r][i] \in SUBSET Samples
    BY ONLY <1>3, <1>6
  <1>8. a + 1 \in Int /\ b \in Int /\ b - (a + 1) + 1 = c /\ (IF a + 1 <= b THEN b - (a + 1) + 1 ELSE 0) = c
    BY ONLY <1>3, <1>4
  <1> DEFINE x == a + 1
             part == SubSeq(parts[r], x, b)
  <1>9. x \in Int /\ \A i \in x .. b : parts[r][i] \in SUBSET Samples
    BY <1>7, <1>8
  <1>10. \A m \in 1 .. c : x + m - 1 = a + m /\ a + m \in a + 1 .. b /\ a + m <= l
    BY ONLY <1>3, <1>4
  <1>11. b - x + 1 = c /\ (IF x <= b THEN b - x + 1 ELSE 0) = c
    BY <1>8
  <1> HIDE DEF x
  <1>12. /\ part \in Seq(SUBSET Samples)
         /\ Len(part) = IF x <= b THEN b - x + 1 ELSE 0
         /\ \A m \in 1 .. b - x + 1 : part[m] = parts[r][x + m - 1]
    BY <1>3, <1>9, SubSeqProperties
  <1>13. Len(part) = c /\ \A m \in 1 .. c : part[m] = parts[r][a + m]
    BY <1>10, <1>11, <1>12
  <1> QED
    BY <1>5, <1>10, <1>12, <1>13 DEF a, b, c, l, x

LEMMA TrainLayout ==
    ASSUME TypeOK, PhaseInv, CountsInv, LayoutInv, TrainOneStep
    PROVE  LayoutInv' /\ TrainedType'
  <1>1. pc = "train" /\ step <= Len(counts) /\ step' = step + 1 /\ offset' = offset + counts[step]
        /\ UNCHANGED <<batch, conf, pc, kk, share, counts, parts>>
    BY DEF TrainOneStep, outVars
  <1>2. ~Dealt /\ ~Dealt' /\ ~Balancing(TRUE) /\ ~Balancing(TRUE)'
    BY <1>1 DEF Dealt, Balancing
  <1>3. PICK off : IsOffset(off) /\ LengthsOf(off) /\ LayoutOf(off) /\ TrainedOf(off)
    BY DEF LayoutInv
  <1>4. counts \in Seq(Nat) /\ step \in Nat \ {0} /\ trained \in Seq([Ranks -> Seq(SUBSET Samples)])
    BY DEF TypeOK
  <1>5. step \in 1 .. Len(counts)
    BY <1>1, <1>4
  <1>6. offset = off[step - 1]
    BY <1>1, <1>3 DEF TrainedOf
  <1>7. off[step] = off[step - 1] + counts[step]
    BY <1>3, <1>5 DEF IsOffset
  <1>8. \A r \in Ranks : Consumed(r) = SubSeq(parts[r], off[step - 1] + 1, off[step])
    BY <1>6, <1>7 DEF Consumed
  <1>9. \A r \in Ranks : Consumed(r) \in Seq(SUBSET Samples)
    <2> SUFFICES ASSUME NEW r \in Ranks PROVE Consumed(r) \in Seq(SUBSET Samples)
      OBVIOUS
    <2>1. SubSeq(parts[r], off[step - 1] + 1, off[step]) \in Seq(SUBSET Samples)
      BY <1>1, <1>3, <1>5, Taken
    <2> QED
      BY <1>8, <2>1
  <1> DEFINE t == [r \in Ranks |-> Consumed(r)]
  <1>10. trained' = Append(trained, t)
    BY DEF TrainOneStep
  <1>11. t \in [Ranks -> Seq(SUBSET Samples)]
    BY <1>9
  <1>12. \A r \in Ranks : t[r] = SubSeq(parts[r], off[step - 1] + 1, off[step])
    BY <1>8
  <1> HIDE DEF t
  <1>13. Len(trained) = step - 1
    BY <1>1 DEF CountsInv
  <1>14. Len(trained') = step /\ trained'[step] = t /\ (\A s \in 1 .. step - 1 : trained'[s] = trained[s])
         /\ trained' \in Seq([Ranks -> Seq(SUBSET Samples)])
    BY <1>4, <1>10, <1>11, <1>13, AppendProperties
  <1>15. Ranks' = Ranks /\ Samples' = Samples /\ Steps' = Steps
    BY <1>1, InputSame
  <1>16. TrainedType'
    BY <1>14, <1>15 DEF TrainedType
  <1>17. IsOffset(off)' /\ LengthsOf(off)' /\ PlacingOf(off)'
    BY <1>1, <1>2, <1>3, <1>15 DEF IsOffset, LengthsOf, PlacingOf
  <1>18. LayoutOf(off)'
    <2>1. \A S : Capped(S)' = Capped(S)
      BY <1>1 DEF Capped
    <2>2. \A s : Segment(off, s)' = Segment(off, s)
      BY DEF Segment
    <2> QED
      BY <1>1, <1>2, <1>3, <1>15, <2>1, <2>2 DEF LayoutOf
  <1>19. TrainedOf(off)'
    <2>1. \A s \in 1 .. Len(trained') : s = step \/ s \in 1 .. step - 1
      BY <1>4, <1>14
    <2>2. \A s \in 1 .. step - 1 : \A r \in Ranks : trained[s][r] = SubSeq(parts[r], off[s - 1] + 1, off[s])
      BY <1>1, <1>3, <1>13 DEF TrainedOf
    <2>3. \A s \in 1 .. Len(trained') : \A r \in Ranks : trained'[s][r] = SubSeq(parts[r], off[s - 1] + 1, off[s])
      BY <1>12, <1>14, <2>1, <2>2
    <2>4. step' - 1 = step /\ offset' = off[step]
      BY <1>1, <1>4, <1>6, <1>7
    <2> QED
      BY <1>1, <1>15, <2>3, <2>4 DEF TrainedOf
  <1> QED
    BY <1>16, <1>17, <1>18, <1>19 DEF LayoutInv

LEMMA NextLayoutInv ==
    ASSUME TypeOK, PhaseInv, CountsInv, BinsInv, KarmarkarInv, LayoutInv, [Next]_vars
    PROVE  LayoutInv' /\ TrainedType'
  <1>1. batch' = batch /\ conf' = conf
    BY InputFixed
  <1>2. Ranks' = Ranks /\ Samples' = Samples
    BY <1>1, InputSame
  <1>3. trained' = trained => TrainedType'
    BY <1>2, TypeParts DEF TrainedType
  <1>4. CASE Schedules
    <2>1. /\ UNCHANGED <<counts, step, parts, share, offset, trained>>
          /\ pc \notin {"place", "train"} /\ pc' \notin {"place", "train"}
          /\ ~Dealt /\ ~Dealt'
      BY <1>4, Scheduling
    <2>2. Dealt' = Dealt /\ Balancing(TRUE)' = Balancing(TRUE)
      BY <2>1 DEF Dealt, Balancing
    <2> QED
      BY <1>1, <1>3, <2>1, <2>2, QuietLayout
  <1>5. CASE AddState \/ MergeStates
    <2>1. UNCHANGED <<pc, counts, step, parts, share, offset, trained>> /\ pc = "karmarkar"
      <3>1. CASE AddState
        BY <3>1 DEF AddState, outVars, trainVars
      <3>2. CASE MergeStates
        BY <3>2 DEF MergeStates, outVars, trainVars
      <3> QED
        BY <1>5, <3>1, <3>2
    <2>2. Balancing(TRUE)' = Balancing(TRUE) /\ Dealt' = Dealt
      BY <1>5, <2>1, ItemsTaken DEF Dealt, Balancing
    <2> QED
      BY <1>1, <1>3, <2>1, <2>2, QuietLayout
  <1>6. CASE Balanced
    <2>1. trained' = trained
      BY <1>6 DEF Balanced, trainVars
    <2>2. CASE kk.equal
      BY <1>3, <1>6, <2>1, <2>2, BalancedLayout
    <2>3. CASE ~kk.equal
      <3>1. PICK f \in kk.states :
              /\ kk.states = {f}
              /\ IF ~BalancedOK(f)
                   THEN pc' = "unbalanced" /\ UNCHANGED <<bins, share>>
                   ELSE IF kk.equal
                     THEN pc' = "place" /\ share' = f /\ UNCHANGED bins
                     ELSE pc' = "align" /\ bins' = f /\ UNCHANGED share
        BY <1>6 DEF Balanced
      <3>2. pc = "karmarkar" /\ kk.rest = {} /\ UNCHANGED <<counts, step, parts, offset, trained>>
        BY <1>6 DEF Balanced, outVars, trainVars
      <3>3. BalancedOK(f)
        BY <3>1, <3>2, LastState
      <3>4. pc' = "align" /\ share' = share
        BY <2>3, <3>1, <3>3
      <3>5. Dealt' = Dealt /\ Balancing(TRUE)' = Balancing(TRUE)
        BY <2>3, <3>2, <3>4 DEF Dealt, Balancing
      <3> QED
        BY <1>1, <1>3, <3>2, <3>4, <3>5, QuietLayout
    <2> QED
      BY <2>2, <2>3
  <1>7. CASE Deal
    <2>1. trained' = trained
      BY <1>7 DEF Deal, trainVars
    <2> QED
      BY <1>3, <1>7, <2>1, DealLayout
  <1>8. CASE \E r \in Ranks : Place(r)
    <2>1. PICK r \in Ranks : Place(r)
      BY <1>8
    <2>2. trained' = trained
      BY <2>1 DEF Place, trainVars
    <2> QED
      BY <1>3, <2>1, <2>2, PlaceLayout
  <1>9. CASE EndStep
    <2>1. trained' = trained
      BY <1>9 DEF EndStep, trainVars
    <2> QED
      BY <1>3, <1>9, <2>1, EndStepLayout
  <1>10. CASE TrainOneStep
    BY <1>10, TrainLayout
  <1>11. CASE Finished \/ UNCHANGED vars
    <2>1. UNCHANGED vars
      BY <1>11 DEF Finished
    <2>2. UNCHANGED <<pc, kk, bins, counts, step, parts, share, offset, trained>>
      BY <2>1 DEF vars, packVars, outVars, trainVars
    <2>3. PICK off : IsOffset(off) /\ LengthsOf(off) /\ LayoutOf(off) /\ PlacingOf(off) /\ TrainedOf(off)
      BY DEF LayoutInv
    <2>4. Dealt' = Dealt /\ Balancing(TRUE)' = Balancing(TRUE)
      BY <2>2 DEF Dealt, Balancing
    <2>5. LayoutOf(off)'
      BY <1>1, <2>2, <2>3, <2>4, LayoutSame
    <2>6. Segment(off, step)' = Segment(off, step) /\ Current' = Current
      BY <1>1, <2>2, InputSame DEF Segment, Current
    <2>7. IsOffset(off)' /\ LengthsOf(off)'
      BY <1>2, <2>2, <2>3, <2>4 DEF IsOffset, LengthsOf
    <2>8. PlacingOf(off)'
      BY <1>2, <2>2, <2>3, <2>6 DEF PlacingOf
    <2>9. TrainedOf(off)'
      BY <1>2, <2>2, <2>3 DEF TrainedOf
    <2> QED
      BY <1>3, <2>2, <2>5, <2>7, <2>8, <2>9 DEF LayoutInv
  <1> QED
    BY <1>4, <1>5, <1>6, <1>7, <1>8, <1>9, <1>10, <1>11 DEF Next, Schedules
-----------------------------------------------------------------------------
(***************************************************************************)
(* The inductive invariant                                                 *)
(***************************************************************************)
LEMMA InitIInv == Init => IInv
  <1> SUFFICES ASSUME Init
               PROVE  IInv
    OBVIOUS
  <1>1. pc = "step" /\ step = 1 /\ counts = <<>>
    BY DEF Init
  <1>2. BinsInv /\ SumsInv /\ CutInv /\ KarmarkarInv
    BY <1>1 DEF BinsInv, SumsInv, CutInv, KarmarkarInv, Binned, Balancing
  <1>3. CountsInv
    <2>1. Len(counts) = 0 /\ step - 1 = 0 /\ \A s \in 1 .. Len(counts) : FALSE
      BY <1>1
    <2> QED
      BY <1>1, <2>1 DEF CountsInv, Dealt, Balancing
  <1> QED
    BY <1>2, <1>3, InitTypeOK, InitPhaseInv, InitLayoutInv DEF IInv

LEMMA NextIInv == IInv /\ [Next]_vars => IInv'
  <1> SUFFICES ASSUME IInv, [Next]_vars
               PROVE  IInv'
    OBVIOUS
  <1>1. /\ TypeOK /\ PhaseInv /\ CountsInv /\ BinsInv /\ SumsInv /\ CutInv
        /\ KarmarkarInv /\ LayoutInv
    BY DEF IInv
  <1>2. PhaseInv' /\ CountsInv' /\ BinsInv' /\ SumsInv' /\ CutInv' /\ KarmarkarInv'
    BY <1>1, NextPhaseInv, NextCountsInv, NextBinsInv, NextSumsInv, NextCutInv, NextKarmarkarInv
  <1>3. LayoutInv' /\ TrainedType'
    BY <1>1, NextLayoutInv
  <1>4. OtherTypes' /\ KkType' /\ ShareType'
    BY <1>1, NextOtherTypes, NextKkType, NextShareType
  <1>5. TypeOK'
    <2>1. (TypeOK <=> OtherTypes /\ KkType /\ ShareType /\ TrainedType)'
      BY TypeParts, PTL
    <2> QED
      BY <1>3, <1>4, <2>1
  <1> QED
    BY <1>2, <1>3, <1>5 DEF IInv

LEMMA Inductive == Spec => []IInv
  BY InitIInv, NextIInv, PTL DEF Spec

\* Every variable keeps its type.
THEOREM TypeCorrect == Spec => []TypeOK
  <1>1. IInv => TypeOK
    BY DEF IInv
  <1> QED
    BY <1>1, Inductive, PTL

\* A training step runs exactly the samples of its rollouts, each once over
\* all ranks: what a rank takes at offset is what was dealt to it for the step.
THEOREM TrainsTheStep == Spec => []StepsTrainTheirSamples
  <1>1. ASSUME IInv PROVE StepsTrainTheirSamples
    <2>1. TypeOK /\ PhaseInv /\ CountsInv /\ LayoutInv
      BY <1>1 DEF IInv
    <2> SUFFICES ASSUME NEW s \in 1 .. Len(trained)
                 PROVE  /\ \A r \in Ranks : Len(trained[s][r]) = counts[s]
                        /\ \A i \in StepSamples(s) :
                            \E r \in Ranks : \E m \in 1 .. counts[s] :
                              /\ i \in trained[s][r][m]
                              /\ \A q \in Ranks : \A n \in 1 .. counts[s] :
                                  i \in trained[s][q][n] => q = r /\ n = m
                        /\ \A r \in Ranks : \A m \in 1 .. counts[s] :
                            trained[s][r][m] \subseteq StepSamples(s)
      BY DEF StepsTrainTheirSamples
    <2>2. pc = "train"
      <3>1. trained # <<>>
        OBVIOUS
      <3> QED
        BY <2>1, <3>1 DEF PhaseInv
    <2>3. s \in 1 .. Len(counts) /\ counts \in Seq(Nat)
      <3>1. Len(trained) = step - 1 /\ step <= Len(counts) + 1
        BY <2>1, <2>2 DEF CountsInv
      <3>2. step \in Nat /\ counts \in Seq(Nat)
        BY <2>1 DEF TypeOK
      <3> QED
        BY <3>1, <3>2
    <2>4. PICK off : IsOffset(off) /\ LengthsOf(off) /\ LayoutOf(off) /\ TrainedOf(off)
      BY <2>1 DEF LayoutInv
    <2>5. \A r \in Ranks : trained[s][r] = SubSeq(parts[r], off[s - 1] + 1, off[s])
      BY <2>2, <2>4 DEF TrainedOf
    <2>6. ASSUME NEW r \in Ranks
          PROVE  /\ Len(trained[s][r]) = counts[s]
                 /\ \A m \in 1 .. counts[s] : trained[s][r][m] = parts[r][off[s - 1] + m]
                                              /\ off[s - 1] + m \in Segment(off, s)
                                              /\ off[s - 1] + m <= Len(parts[r])
      <3> DEFINE part == SubSeq(parts[r], off[s - 1] + 1, off[s])
      <3>1. Len(part) = counts[s]
        BY <2>1, <2>2, <2>3, <2>4, Taken
      <3>2. \A m \in 1 .. counts[s] : part[m] = parts[r][off[s - 1] + m]
                                       /\ off[s - 1] + m \in Segment(off, s)
                                       /\ off[s - 1] + m <= Len(parts[r])
        BY <2>1, <2>2, <2>3, <2>4, Taken
      <3>3. trained[s][r] = part
        BY <2>5
      <3> HIDE DEF part
      <3> QED
        BY ONLY <3>1, <3>2, <3>3
    <2>7. StepSamples(s) = Steps[s]
      BY <2>3, StepsFacts
    <2>8. \A r \in Ranks : \A m \in 1 .. counts[s] : trained[s][r][m] \subseteq StepSamples(s)
      <3> SUFFICES ASSUME NEW r \in Ranks, NEW m \in 1 .. counts[s]
                   PROVE  trained[s][r][m] \subseteq StepSamples(s)
        OBVIOUS
      <3>1. trained[s][r][m] = parts[r][off[s - 1] + m] /\ off[s - 1] + m \in Segment(off, s)
            /\ off[s - 1] + m <= Len(parts[r])
        BY <2>6
      <3>2. parts[r][off[s - 1] + m] \subseteq Steps[s]
        BY <2>3, <2>4, <3>1 DEF LayoutOf
      <3> QED
        BY <2>7, <3>1, <3>2
    <2>9. ASSUME NEW i \in StepSamples(s)
          PROVE  \E r \in Ranks : \E m \in 1 .. counts[s] :
                   /\ i \in trained[s][r][m]
                   /\ \A q \in Ranks : \A n \in 1 .. counts[s] :
                       i \in trained[s][q][n] => q = r /\ n = m
      <3>1. ~(Dealt /\ s = step)
        BY <2>2 DEF Dealt, Balancing
      <3>2. PICK r \in Ranks, p \in Segment(off, s) : p <= Len(parts[r]) /\ i \in parts[r][p]
        BY <2>3, <2>4, <2>7, <3>1 DEF LayoutOf
      <3> DEFINE a == off[s - 1]
                 b == off[s]
                 c == counts[s]
                 m == p - a
      <3>3. a \in Nat /\ b \in Nat /\ c \in Nat /\ b = a + c /\ p \in a + 1 .. b
        <4>1. s - 1 \in 0 .. Len(counts) /\ s \in 0 .. Len(counts)
          BY <2>3
        <4>2. a \in Nat /\ b \in Nat
          BY <2>3, <2>4, <4>1, Offsets
        <4>3. b = a + c /\ c \in Nat
          BY <2>3, <2>4 DEF IsOffset
        <4> QED
          BY <4>2, <4>3 DEF Segment
      <3> HIDE DEF a, b, c
      <3>4. m \in 1 .. c /\ a + m = p
        BY ONLY <3>3
      <3> HIDE DEF m
      <3>5. trained[s][r][m] = parts[r][p]
        BY <2>6, <3>4 DEF a, c
      <3>6. ASSUME NEW q \in Ranks, NEW n \in 1 .. c, i \in trained[s][q][n]
            PROVE  q = r /\ n = m
        <4>1. trained[s][q][n] = parts[q][a + n] /\ a + n \in Segment(off, s) /\ a + n <= Len(parts[q])
          BY <2>6 DEF a, c
        <4>2. parts[r][p] \cap parts[q][a + n] # {}
          BY <3>2, <3>6, <4>1
        <4>3. r = q /\ p = a + n
          BY <2>3, <2>4, <3>2, <4>1, <4>2 DEF LayoutOf
        <4>4. n = m
          BY ONLY <3>3, <3>4, <4>3, n \in 1 .. c
        <4> QED
          BY <4>3, <4>4
      <3> QED
        BY <3>2, <3>4, <3>5, <3>6 DEF c
    <2> QED
      BY <2>6, <2>8, <2>9
  <1> QED
    BY <1>1, Inductive, PTL

\* When training starts every rank has the same number of micro-batches for
\* each step, a multiple of the virtual pipeline's group, and none is empty.
THEOREM SameCount == Spec => []SameCountOnEveryRank
  <1>1. ASSUME IInv PROVE SameCountOnEveryRank
    <2>1. TypeOK /\ PhaseInv /\ CountsInv /\ LayoutInv
      BY <1>1 DEF IInv
    <2> SUFFICES ASSUME pc = "train"
                 PROVE  /\ \A r, q \in Ranks : Len(parts[r]) = Len(parts[q])
                        /\ \A s \in 1 .. Len(counts) : conf.vpp > 1 => counts[s] % conf.mbGroup = 0
                        /\ \A r \in Ranks : \A m \in 1 .. Len(parts[r]) : parts[r][m] # {}
      BY DEF SameCountOnEveryRank
    <2>2. PICK off : IsOffset(off) /\ LengthsOf(off) /\ LayoutOf(off)
      BY <2>1 DEF LayoutInv
    <2>3. \A r \in Ranks : Len(parts[r]) = off[Len(counts)]
      BY <2>1, <2>2, WholeLists
    <2>4. \A s \in 1 .. Len(counts) : conf.vpp > 1 => counts[s] % conf.mbGroup = 0
      BY <2>1 DEF CountsInv
    <2>5. \A r \in Ranks : \A m \in 1 .. Len(parts[r]) : parts[r][m] # {}
      BY <2>2 DEF LayoutOf
    <2>6. \A r, q \in Ranks : Len(parts[r]) = Len(parts[q])
      BY ONLY <2>3
    <2> QED
      BY <2>4, <2>5, <2>6
  <1> QED
    BY <1>1, Inductive, PTL

\* A micro-batch of the dynamic path stays under the token cap or is a single
\* sample, also after splitting for alignment.
THEOREM UnderTheCap == Spec => []TokenCap
  <1>1. ASSUME IInv PROVE TokenCap
    <2>1. PICK off : LayoutOf(off)
      BY <1>1 DEF IInv, LayoutInv
    <2>2. \A r \in Ranks : \A m \in 1 .. Len(parts[r]) : Capped(parts[r][m])
      BY <2>1 DEF LayoutOf
    <2> QED
      BY <2>2 DEF TokenCap, Capped, TokensOf
  <1> QED
    BY <1>1, Inductive, PTL

\* The assertions about the result of karmarkar_karp never fail: all parts
\* have a micro-batch, and as many as the others where that was asked for.
THEOREM Balances == Spec => []BalanceSucceeds
  <1>1. IInv => BalanceSucceeds
    BY DEF IInv, CountsInv, BalanceSucceeds
  <1> QED
    BY <1>1, Inductive, PTL
=============================================================================
