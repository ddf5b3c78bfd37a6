----------------------------- MODULE DpSchedule -----------------------------
(***************************************************************************)
(* The schedule of one rollout's training data                             *)
(* (src/slime/utils/dp_schedule.py, src/slime/utils/seqlen_balancing.py).  *)
(* Rollouts are grouped into training steps; the samples of a step are     *)
(* packed into micro-batches, the number of micro-batches is brought to a  *)
(* multiple of the data-parallel size, and the micro-batches are dealt to  *)
(* the ranks.  The trainers then consume the schedule step by step         *)
(* (DataIterator and train()), every rank the same number of micro-batches.*)
(*                                                                         *)
(* A micro-batch is the SET of its samples: the order inside one, and so   *)
(* the offsets of micro_batch_indices, is layout.  A loop of the code is a *)
(* sequence of steps, one per iteration.                                   *)
(***************************************************************************)
EXTENDS Integers, Sequences, FiniteSets, Functions

CONSTANTS
    Batches,  \* the inputs: token counts and rollout ids of the samples
    Configs,  \* the arguments and the parallel layout
    Work      \* calculate_fwd_flops of one sample, by its token count

ASSUME BatchesAssumption ==
    \A b \in Batches :
        /\ b.lengths \in Seq(Nat \ {0})
        /\ b.rids \in [1..Len(b.lengths) -> Nat]

ASSUME ConfigsAssumption ==
    Configs \subseteq [dp : Nat \ {0}, vpp : Nat \ {0}, mbGroup : Nat \ {0},
                       gbs : Nat \ {0}, dynamic : BOOLEAN, cap : Nat \ {0},
                       mbs : Nat \ {0}, byFlops : BOOLEAN, balance : BOOLEAN]

ASSUME WorkAssumption ==
    \A b \in Batches : \A i \in 1..Len(b.lengths) : Work[b.lengths[i]] \in Nat \ {0}

VARIABLES
    batch, conf,  \* the input of build_dp_schedule
    pc,           \* where it stands, or the assertion that stopped it
    step,         \* the training step being scheduled, then trained
    todo,         \* samples of the step that are not packed yet
    bins, sums,   \* step_mbs; first_fit_pack's bin_sums
    cut,          \* the bin _split_bin_by_tokens divides, its two halves
    kk,           \* karmarkar_karp: parts, items not yet in a state, states
    share,        \* rank_mbs_idx: micro-batches a rank has still to take
    parts,        \* per rank, its micro-batches in order
    counts,       \* num_microbatches
    offset,       \* DataIterator.offset, the same on every rank
    trained       \* per training step and rank, the micro-batches it ran

packVars == <<todo, bins, sums>>
outVars == <<parts, counts>>
trainVars == <<offset, trained>>
vars == <<batch, conf, pc, step, packVars, cut, kk, share, outVars, trainVars>>

Ranks == 1..conf.dp
Samples == 1..Len(batch.lengths)
Length(i) == batch.lengths[i]
Flops == [i \in Samples |-> Work[Length(i)]]

TokensOf(S) == SumFunctionOnSet(batch.lengths, S)

\* One micro-batch more or less must stay on every rank, and with virtual
\* pipeline stages in every group of stages.
\* Mutant: only the virtual pipeline's group is aligned to.
AlignTo_mut == IF conf.vpp > 1 THEN conf.mbGroup ELSE 1
AlignTo == conf.dp * (IF conf.vpp > 1 THEN conf.mbGroup ELSE 1)

CeilDiv(a, b) == (a + b - 1) \div b
MaxOf(a, b) == IF a > b THEN a ELSE b

\* bins only grows towards the target, so computing it again gives the same.
TargetK == MaxOf(CeilDiv(Len(bins), AlignTo) * AlignTo, AlignTo)
-----------------------------------------------------------------------------
(***************************************************************************)
(* Steps: rollout ids in the order of their first sample, global_batch_size*)
(* of them in each step, what is left over dropped.                        *)
(***************************************************************************)
FirstSample(r) == CHOOSE i \in Samples :
                    batch.rids[i] = r /\ \A j \in Samples : batch.rids[j] = r => i <= j

RolloutIds == {batch.rids[i] : i \in Samples}

\* Position of the rollout in rollout_ids, from 0.
Position(r) == Cardinality({q \in RolloutIds : FirstSample(q) < FirstSample(r)})

NumSteps == Cardinality(RolloutIds) \div conf.gbs

StepOf(i) == Position(batch.rids[i]) \div conf.gbs + 1

StepSamples(s) == {i \in Samples : StepOf(i) = s}

\* The order of sample_indices: rollout by rollout, then by position.
Before(i, j) ==
    \/ Position(batch.rids[i]) < Position(batch.rids[j])
    \/ batch.rids[i] = batch.rids[j] /\ i < j

FirstOf(S, i) == i \in S /\ \A j \in S \ {i} : Before(i, j)
-----------------------------------------------------------------------------
NoCut == [at |-> 0, rest |-> {}, left |-> {}, right |-> {}]
NoKk == [k |-> 1, equal |-> FALSE, rest |-> {}, states |-> {}]

Init ==
    /\ batch \in Batches
    /\ conf \in Configs
    /\ pc = "step"
    /\ step = 1
    /\ todo = {}
    /\ bins = <<>>
    /\ sums = <<>>
    /\ cut = NoCut
    /\ kk = NoKk
    /\ share = [r \in Ranks |-> {}]
    /\ parts = [r \in Ranks |-> <<>>]
    /\ counts = <<>>
    /\ offset = 0
    /\ trained = <<>>

\* The assertion num_steps >= 1.
TooFewRollouts ==
    /\ pc = "step"
    /\ NumSteps = 0
    /\ pc' = "too_few_rollouts"
    /\ UNCHANGED <<batch, conf, step, packVars, cut, kk, share, outVars, trainVars>>

\* The assertion len(sample_indices) >= dp_size.
TooFewSamples ==
    /\ pc = "step"
    /\ NumSteps > 0
    /\ Cardinality(StepSamples(step)) < conf.dp
    /\ pc' = "too_few_samples"
    /\ UNCHANGED <<batch, conf, step, packVars, cut, kk, share, outVars, trainVars>>

\* num_mbs of the path that balances by FLOPs, which knows no token cap.
NumMbs(s) == MaxOf(1, CeilDiv(TokensOf(StepSamples(s)), conf.cap))

BalancesBins(s) ==
    /\ conf.dynamic /\ conf.byFlops
    /\ NumMbs(s) < Cardinality(StepSamples(s))

StartStep ==
    /\ pc = "step"
    /\ NumSteps > 0
    /\ Cardinality(StepSamples(step)) >= conf.dp
    /\ bins' = <<>>
    /\ sums' = <<>>
    /\ IF BalancesBins(step)
         THEN /\ pc' = "karmarkar"
              /\ kk' = [k |-> NumMbs(step), equal |-> FALSE,
                        rest |-> StepSamples(step), states |-> {}]
              /\ todo' = {}
         ELSE /\ pc' = "pack"
              /\ todo' = StepSamples(step)
              /\ UNCHANGED kk
    /\ UNCHANGED <<batch, conf, step, cut, share, outVars, trainVars>>
-----------------------------------------------------------------------------
(***************************************************************************)
(* Packing.                                                                *)
(***************************************************************************)
OpenBin(S) ==
    /\ bins' = Append(bins, S)
    /\ sums' = Append(sums, TokensOf(S))

\* Mutant: the cap is compared before the sample is added.
Fits_mut(j, i) == sums[j] <= conf.cap /\ ~conf.byFlops
Fits(j, i) == sums[j] + Length(i) <= conf.cap /\ ~conf.byFlops

\* first_fit_pack: the first bin with room, or a new one.  The path by FLOPs
\* with as many micro-batches as samples opens a bin for each.
FirstFit(i) ==
    /\ pc = "pack"
    /\ conf.dynamic
    /\ FirstOf(todo, i)
    /\ \/ \E j \in 1..Len(bins) :
            /\ Fits(j, i)
            /\ \A l \in 1..(j - 1) : ~Fits(l, i)
            /\ bins' = [bins EXCEPT ![j] = @ \cup {i}]
            /\ sums' = [sums EXCEPT ![j] = @ + Length(i)]
       \/ /\ \A j \in 1..Len(bins) : ~Fits(j, i)
          /\ OpenBin({i})
    /\ todo' = todo \ {i}
    /\ UNCHANGED <<batch, conf, pc, step, cut, kk, share, outVars, trainVars>>

\* The static path: the next micro_batch_size samples.
StaticChunk ==
    /\ pc = "pack"
    /\ ~conf.dynamic
    /\ \E S \in SUBSET todo :
        /\ S # {}
        /\ \/ Cardinality(S) = conf.mbs
           \/ S = todo /\ Cardinality(S) < conf.mbs
        /\ \A i \in S : \A j \in todo \ S : Before(i, j)
        /\ OpenBin(S)
        /\ todo' = todo \ S
    /\ UNCHANGED <<batch, conf, pc, step, cut, kk, share, outVars, trainVars>>

Packed ==
    /\ pc = "pack"
    /\ todo = {}
    /\ pc' = "align"
    /\ UNCHANGED <<batch, conf, step, packVars, cut, kk, share, outVars, trainVars>>
-----------------------------------------------------------------------------
(***************************************************************************)
(* Alignment: expand_bins_by_splitting and _split_bin_by_tokens.           *)
(***************************************************************************)
Splittable == {j \in 1..Len(bins) : Cardinality(bins[j]) > 1}

\* max over (sum of tokens, index).
Largest(j) ==
    /\ j \in Splittable
    /\ \A l \in Splittable \ {j} :
        \/ TokensOf(bins[l]) < TokensOf(bins[j])
        \/ TokensOf(bins[l]) = TokensOf(bins[j]) /\ l < j

Misaligned == pc = "align" /\ Len(bins) # TargetK

StaticMisaligned ==
    /\ Misaligned
    /\ ~conf.dynamic
    /\ pc' = "static_misaligned"
    /\ UNCHANGED <<batch, conf, step, packVars, cut, kk, share, outVars, trainVars>>

\* The assertion after expand_bins_by_splitting gave up.
CannotSplit ==
    /\ Misaligned
    /\ conf.dynamic
    /\ Splittable = {}
    /\ pc' = "cannot_split"
    /\ UNCHANGED <<batch, conf, step, packVars, cut, kk, share, outVars, trainVars>>

StartSplit ==
    /\ Misaligned
    /\ conf.dynamic
    /\ \E j \in 1..Len(bins) :
        /\ Largest(j)
        /\ cut' = [at |-> j, rest |-> bins[j], left |-> {}, right |-> {}]
    /\ pc' = "split"
    /\ UNCHANGED <<batch, conf, step, packVars, kk, share, outVars, trainVars>>

\* The longest sample left (the earlier of two alike) goes to the lighter
\* half.
SplitOne ==
    /\ pc = "split"
    /\ \E i \in cut.rest :
        /\ \A j \in cut.rest \ {i} :
            Length(j) < Length(i) \/ (Length(j) = Length(i) /\ Before(i, j))
        /\ cut' = IF TokensOf(cut.left) <= TokensOf(cut.right)
                    THEN [cut EXCEPT !.rest = @ \ {i}, !.left = @ \cup {i}]
                    ELSE [cut EXCEPT !.rest = @ \ {i}, !.right = @ \cup {i}]
    /\ UNCHANGED <<batch, conf, pc, step, packVars, kk, share, outVars, trainVars>>

\* Mutant: the half that stays in place is not written back.
SplitInto_mut == Append(bins, cut.right)
SplitInto == Append([bins EXCEPT ![cut.at] = cut.left], cut.right)

SplitDone ==
    /\ pc = "split"
    /\ cut.rest = {}
    /\ bins' = SplitInto
    /\ cut' = NoCut
    /\ pc' = "align"
    /\ UNCHANGED <<batch, conf, step, todo, sums, kk, share, outVars, trainVars>>
-----------------------------------------------------------------------------
(***************************************************************************)
(* karmarkar_karp and its caller get_seqlen_balanced_partitions.  A state  *)
(* is k sets in descending order of weight; the heap gives the states with *)
(* the widest spread first.  equal_size is set when micro-batches are      *)
(* dealt to ranks and not when samples are balanced into bins.  Ties the   *)
(* code breaks by the items themselves are broken either way here.         *)
(***************************************************************************)
BinFlops == [j \in 1..Len(bins) |-> SumFunctionOnSet(Flops, bins[j])]
Weight == IF kk.equal THEN BinFlops ELSE Flops
WeightOf(S) == SumFunctionOnSet(Weight, S)

Heavier(S, T) ==
    \/ WeightOf(S) > WeightOf(T)
    \/ WeightOf(S) = WeightOf(T) /\ Cardinality(S) >= Cardinality(T)

Descending(f) == \A i \in 1..(kk.k - 1) : Heavier(f[i], f[i + 1])

Spread(f) == WeightOf(f[1]) - WeightOf(f[kk.k])

\* The next state holds the k lightest items left, or one item alone.
AddState ==
    /\ pc = "karmarkar"
    /\ kk.rest # {}
    /\ \E f \in IF kk.equal THEN [1..kk.k -> {{x} : x \in kk.rest}]
                ELSE {[n \in 1..kk.k |-> IF n = 1 THEN {x} ELSE {}] : x \in kk.rest} :
        LET taken == UNION {f[n] : n \in 1..kk.k}
        IN  /\ kk.equal => \A m, n \in 1..kk.k : m # n => f[m] # f[n]
            /\ \A x \in taken : \A y \in kk.rest \ taken :
                Weight[x] < Weight[y] \/ (Weight[x] = Weight[y] /\ x < y)
            /\ Descending(f)
            /\ kk' = [kk EXCEPT !.rest = @ \ taken, !.states = @ \cup {f}]
    /\ UNCHANGED <<batch, conf, pc, step, packVars, cut, share, outVars, trainVars>>

PoppedFirst(f, S) ==
    \A g \in S : \/ Spread(f) > Spread(g)
                 \/ Spread(f) = Spread(g) /\ Heavier(f[1], g[1])

\* Mutant: the sets are merged in the same order instead of reversed.
Opposite_mut(g, n) == g[n]
Opposite(g, n) == g[kk.k + 1 - n]

Merged(f, g, order) == [n \in 1..kk.k |-> f[order[n]] \cup Opposite(g, order[n])]

MergeStates ==
    /\ pc = "karmarkar"
    /\ kk.rest = {}
    /\ \E f \in kk.states : \E g \in kk.states \ {f} :
        /\ PoppedFirst(f, kk.states \ {f})
        /\ PoppedFirst(g, kk.states \ {f, g})
        /\ \E order \in Injection(1..kk.k, 1..kk.k) :
            /\ Descending(Merged(f, g, order))
            /\ kk' = [kk EXCEPT !.states = (@ \ {f, g}) \cup {Merged(f, g, order)}]
    /\ UNCHANGED <<batch, conf, pc, step, packVars, cut, share, outVars, trainVars>>

\* The checks of both functions on the final state.
BalancedOK(f) ==
    /\ \A n \in 1..kk.k : f[n] # {}
    /\ kk.equal => \A n \in 1..kk.k : Cardinality(f[n]) * kk.k = Len(bins)

Balanced ==
    /\ pc = "karmarkar"
    /\ kk.rest = {}
    /\ \E f \in kk.states :
        /\ kk.states = {f}
        /\ IF ~BalancedOK(f)
             THEN pc' = "unbalanced" /\ UNCHANGED <<bins, share>>
             ELSE IF kk.equal
               THEN pc' = "place" /\ share' = f /\ UNCHANGED bins
               ELSE pc' = "align" /\ bins' = f /\ UNCHANGED share
    /\ kk' = NoKk
    /\ UNCHANGED <<batch, conf, step, todo, sums, cut, outVars, trainVars>>
-----------------------------------------------------------------------------
(***************************************************************************)
(* Dealing the micro-batches of the step to the ranks.                     *)
(***************************************************************************)
Strided(r) == {m \in 1..Len(bins) : (m - 1) % conf.dp = r - 1}

Deal ==
    /\ pc = "align"
    /\ Len(bins) = TargetK
    /\ counts' = Append(counts, Len(bins) \div conf.dp)
    /\ IF conf.balance
         THEN /\ pc' = IF Len(bins) % conf.dp = 0 THEN "karmarkar" ELSE "unbalanced"
              /\ kk' = [k |-> conf.dp, equal |-> TRUE,
                        rest |-> 1..Len(bins), states |-> {}]
              /\ UNCHANGED share
         ELSE /\ pc' = "place"
              /\ share' = [r \in Ranks |-> Strided(r)]
              /\ UNCHANGED kk
    /\ UNCHANGED <<batch, conf, step, packVars, cut, parts, trainVars>>

\* Rank by rank, each its micro-batches in ascending order.
Place(r) ==
    /\ pc = "place"
    /\ \A q \in 1..(r - 1) : share[q] = {}
    /\ \E m \in share[r] :
        /\ \A n \in share[r] : m <= n
        /\ parts' = [parts EXCEPT ![r] = Append(@, bins[m])]
        /\ share' = [share EXCEPT ![r] = @ \ {m}]
    /\ UNCHANGED <<batch, conf, pc, step, packVars, cut, kk, counts, trainVars>>

EndStep ==
    /\ pc = "place"
    /\ \A r \in Ranks : share[r] = {}
    /\ IF step < NumSteps
         THEN pc' = "step" /\ step' = step + 1
         ELSE pc' = "train" /\ step' = 1
    /\ bins' = <<>>
    /\ sums' = <<>>
    /\ UNCHANGED <<batch, conf, todo, cut, kk, share, outVars, trainVars>>
-----------------------------------------------------------------------------
(***************************************************************************)
(* Training: every rank takes the next num_microbatches[step] from its     *)
(* iterator, with collective calls between the ranks in each.              *)
(***************************************************************************)
Consumed(r) == SubSeq(parts[r], offset + 1, offset + counts[step])

TrainOneStep ==
    /\ pc = "train"
    /\ step <= Len(counts)
    /\ trained' = Append(trained, [r \in Ranks |-> Consumed(r)])
    /\ offset' = offset + counts[step]
    /\ step' = step + 1
    /\ UNCHANGED <<batch, conf, pc, packVars, cut, kk, share, outVars>>

Stops == {"too_few_rollouts", "too_few_samples", "static_misaligned",
          "cannot_split", "unbalanced"}

\* The function raised, or everything is trained.
Finished ==
    /\ pc \in Stops \/ (pc = "train" /\ step > Len(counts))
    /\ UNCHANGED vars

Next ==
    \/ TooFewRollouts \/ TooFewSamples \/ StartStep
    \/ \E i \in todo : FirstFit(i)
    \/ StaticChunk \/ Packed
    \/ StaticMisaligned \/ CannotSplit
    \/ StartSplit \/ SplitOne \/ SplitDone
    \/ AddState \/ MergeStates \/ Balanced
    \/ Deal \/ (\E r \in Ranks : Place(r)) \/ EndStep
    \/ TrainOneStep \/ Finished

Spec == Init /\ [][Next]_vars
-----------------------------------------------------------------------------
\* The variables keep their types: samples and micro-batches by their
\* positions, one sequence of micro-batches per rank.
TypeOK ==
    /\ batch \in Batches /\ conf \in Configs
    /\ pc \in {"step", "pack", "align", "split", "karmarkar", "place", "train"} \cup Stops
    /\ step \in Nat \ {0} /\ offset \in Nat
    /\ todo \subseteq Samples
    /\ bins \in Seq(SUBSET Samples) /\ sums \in Seq(Nat)
    /\ cut \in [at : 0..Len(bins), rest : SUBSET Samples,
                left : SUBSET Samples, right : SUBSET Samples]
    /\ LET items == IF kk.equal THEN 1..Len(bins) ELSE Samples
       IN  kk \in [k : Nat \ {0}, equal : BOOLEAN, rest : SUBSET items,
                   states : SUBSET [1..kk.k -> SUBSET items]]
    /\ share \in [Ranks -> SUBSET (1..Len(bins))]
    /\ parts \in [Ranks -> Seq(SUBSET Samples)]
    /\ counts \in Seq(Nat)
    /\ trained \in Seq([Ranks -> Seq(SUBSET Samples)])

\* A training step runs exactly the samples of its own rollouts, each of them
\* once over all ranks, and no rank runs out of micro-batches or has one left
\* (dp_schedule.py:25-37): the counts taken from one list select the right
\* entries of the other.
StepsTrainTheirSamples ==
    \A s \in 1..Len(trained) :
        /\ \A r \in Ranks : Len(trained[s][r]) = counts[s]
        /\ \A i \in StepSamples(s) :
            \E r \in Ranks : \E m \in 1..counts[s] :
                /\ i \in trained[s][r][m]
                /\ \A q \in Ranks : \A n \in 1..counts[s] :
                    i \in trained[s][q][n] => q = r /\ n = m
        /\ \A r \in Ranks : \A m \in 1..counts[s] :
            trained[s][r][m] \subseteq StepSamples(s)

\* Every rank has the same number of micro-batches for each scheduled step, a
\* multiple of the virtual pipeline's group, and none of them is empty
\* (collective calls would wait for ever otherwise).
SameCountOnEveryRank ==
    pc = "train" =>
        /\ \A r, q \in Ranks : Len(parts[r]) = Len(parts[q])
        /\ \A s \in 1..Len(counts) : conf.vpp > 1 => counts[s] % conf.mbGroup = 0
        /\ \A r \in Ranks : \A m \in 1..Len(parts[r]) : parts[r][m] # {}

\* A micro-batch of the dynamic path stays under max_tokens_per_gpu * cp_size,
\* but for a single sample that is longer (dp_schedule.py:28-31); splitting
\* for alignment never makes one larger.
TokenCap ==
    conf.dynamic /\ ~conf.byFlops =>
        \A r \in Ranks : \A m \in 1..Len(parts[r]) :
            TokensOf(parts[r][m]) <= conf.cap \/ Cardinality(parts[r][m]) = 1

\* The assertions about the result of karmarkar_karp never fail: no part is
\* empty, and parts of equal size were asked for only where they exist.
BalanceSucceeds == pc # "unbalanced"

\* The message of the assertion in the dynamic path (dp_schedule.py:180-184):
\* it gives up when the step has fewer samples than the alignment threshold.
OnlyBelowThreshold ==
    pc = "cannot_split" => Cardinality(StepSamples(step)) < AlignTo
=============================================================================
