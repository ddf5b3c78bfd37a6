----------------------------- MODULE SyncRollout -----------------------------
(***************************************************************************)
(* The synchronous rollout (src/slime/rollout/sglang_rollout.py) with the  *)
(* buffered data source (data_source.py) and the abort of the servers      *)
(* (server_control.py).  More groups than needed are generated at once;    *)
(* when a batch is full the rest is aborted and, with --partial-rollout,   *)
(* returned to the buffer to be continued in the next rollout.             *)
(*                                                                         *)
(* One event loop runs everything: an action is what happens between two   *)
(* awaits of a coroutine.  A response is a sequence of segments, one per   *)
(* generation, each with the rollout that generated it and its loss mask.  *)
(***************************************************************************)
EXTENDS Integers, Sequences, FiniteSets

CONSTANTS
    RolloutBatchSize,      \* groups in a batch
    OverSamplingBatchSize, \* groups asked for at a time
    NSamples,              \* samples of a group
    Concurrency,           \* capacity of the semaphore
    DatasetSizes,          \* prompts in the data set, one is chosen
    Modes,                 \* partial_rollout, mask_offpolicy, group_rm
    NumRollouts,           \* bound: calls of generate_rollout
    MaxGroups,             \* bound: groups the data source hands out
    MaxDrops,              \* bound: groups the dynamic filter drops
    MaxLost                \* bound: abort requests or load queries that fail

ASSUME SizesAssumption ==
    /\ RolloutBatchSize \in Nat \ {0} /\ OverSamplingBatchSize \in Nat \ {0}
    /\ NSamples \in Nat \ {0} /\ Concurrency \in Nat \ {0}
    /\ DatasetSizes \subseteq Nat \ {0}
    /\ NumRollouts \in Nat /\ MaxGroups \in Nat /\ MaxDrops \in Nat /\ MaxLost \in Nat

ASSUME ModesAssumption ==
    Modes \subseteq [partial : BOOLEAN, mask : BOOLEAN, groupRm : BOOLEAN]

VARIABLES
    mode, dataset_size,    \* arguments, chosen once
    pc, rollout_id,        \* generate_rollout_async: where it stands
    aborted, pendings,     \* GenerateState; the groups of the running tasks
    remaining_batch_size,
    data, collected,       \* the batch so far; abort's aborted_samples
    buffer,                \* RolloutDataSourceWithBuffer.buffer
    source,                \* the read cursor of the data source
    task, call,            \* per group, the task; per sample, its coroutine
    sample,                \* the samples of the groups still around
    delivered, lost,       \* history: groups trained on, groups dropped
    handed,                \* history: epoch and position of each group
    faults                 \* faults and filter drops so far

driver == <<pc, rollout_id, aborted, pendings, remaining_batch_size, data, collected>>
store == <<buffer, source, handed>>
tasks == <<task, call, sample>>
history == <<delivered, lost>>
args == <<mode, dataset_size>>
vars == <<args, driver, store, tasks, history, faults>>

Groups == 0..(MaxGroups - 1)
Members == 1..NSamples

NewSample == [status |-> "PENDING", response |-> <<>>, reward |-> FALSE, start |-> -1]

Least(a, b) == IF a < b THEN a ELSE b

Init ==
    /\ mode \in Modes
    /\ dataset_size \in DatasetSizes
    /\ pc = "idle"
    /\ rollout_id = 0
    /\ aborted = FALSE
    /\ pendings = {}
    /\ remaining_batch_size = 0
    /\ data = {}
    /\ collected = <<>>
    /\ buffer = <<>>
    /\ source = [offset |-> 0, epoch |-> 0, index |-> 0]
    /\ handed = <<>>
    /\ task = [g \in Groups |-> "none"]
    /\ call = [g \in Groups |-> [i \in Members |-> "none"]]
    /\ sample = [g \in Groups |-> [i \in Members |-> NewSample]]
    /\ delivered = {}
    /\ lost = {}
    /\ faults = [drops |-> 0, lost |-> 0]

\* Groups that leave: nothing of them is kept.
Forget(S) ==
    /\ task' = [g \in Groups |-> IF g \in S THEN "none" ELSE task[g]]
    /\ call' = [g \in Groups |-> [i \in Members |-> IF g \in S THEN "none" ELSE call[g][i]]]
-----------------------------------------------------------------------------
(***************************************************************************)
(* The data source.                                                        *)
(***************************************************************************)
\* Mutant: the cursor is left where the old epoch ended.
NewOffset_mut(n) == source.offset + n
NewOffset(n) == IF source.offset + n <= dataset_size
                  THEN source.offset + n
                  ELSE n - (dataset_size - Least(source.offset, dataset_size))

\* Mutant: as many group ids are used as prompts were asked for.
NewIndex_mut(n, got) == source.index + n
NewIndex(n, got) == source.index + Len(got)

\* RolloutDataSource.get_samples: where the next n prompts stand.  Past the
\* end of the data set the rest comes from the next epoch, and what goes past
\* the end of that one is not handed out.
Prompts(n) ==
    LET rest == dataset_size - Least(source.offset, dataset_size)
        old == [k \in 1..Least(n, rest) |-> <<source.epoch, source.offset + k - 1>>]
        new == [k \in 1..Least(n - rest, dataset_size) |-> <<source.epoch + 1, k - 1>>]
    IN  IF source.offset + n <= dataset_size THEN old ELSE old \o new

\* get_samples of the source with a buffer: pop_first, the rest from the data
\* set.  Each group becomes a task; no await comes between.
Fill ==
    /\ pc = "fill"
    /\ remaining_batch_size < RolloutBatchSize
    /\ LET popped == Least(Len(buffer), OverSamplingBatchSize)
           n == OverSamplingBatchSize - popped
           fresh == IF n = 0 THEN <<>> ELSE Prompts(n)
           groups == {buffer[k] : k \in 1..popped}
                        \cup (source.index .. source.index + Len(fresh) - 1)
       IN  /\ source.index + Len(fresh) <= MaxGroups
           /\ buffer' = SubSeq(buffer, popped + 1, Len(buffer))
           /\ handed' = handed \o fresh
           /\ source' = IF n = 0 THEN source ELSE
                [offset |-> NewOffset(n),
                 epoch |-> IF source.offset + n <= dataset_size
                             THEN source.epoch ELSE source.epoch + 1,
                 index |-> NewIndex(n, fresh)]
           /\ pendings' = pendings \cup groups
           /\ remaining_batch_size' = remaining_batch_size + popped + Len(fresh)
           /\ task' = [g \in Groups |-> IF g \in groups THEN "new" ELSE task[g]]
    /\ UNCHANGED <<args, pc, rollout_id, aborted, data, collected, call, sample, history, faults>>
-----------------------------------------------------------------------------
(***************************************************************************)
(* generate_rollout_async up to a full batch.                              *)
(***************************************************************************)
StartRollout ==
    /\ pc = "idle"
    /\ rollout_id < NumRollouts
    /\ pc' = "fill"
    /\ UNCHANGED <<args, rollout_id, aborted, pendings, remaining_batch_size, data, collected,
                   store, tasks, history, faults>>

Filled ==
    /\ pc = "fill"
    /\ remaining_batch_size >= RolloutBatchSize
    /\ pc' = "wait"
    /\ UNCHANGED <<args, rollout_id, aborted, pendings, remaining_batch_size, data, collected,
                   store, tasks, history, faults>>

Finished == {g \in pendings : task[g] = "done"}

\* Mutant: a filtered group still counts as running.
NoLongerCounted_mut(kept) == 0
NoLongerCounted(kept) == Cardinality(Finished \ kept)

\* Mutant: the batch takes all that is done.
Wanted_mut(kept) == Cardinality(kept)
Wanted(kept) == Least(Cardinality(kept), RolloutBatchSize - Cardinality(data))

\* All tasks that are done when the loop runs again: the dynamic filter drops
\* some, the batch takes what it needs, a surplus is dropped as well.  With a
\* full batch abort() begins at once.
Collect ==
    /\ pc = "wait"
    /\ Finished # {}
    /\ \E kept \in SUBSET Finished : \E taken \in SUBSET kept :
        /\ faults.drops + Cardinality(Finished \ kept) <= MaxDrops
        /\ Cardinality(taken) = Wanted(kept)
        /\ faults' = [faults EXCEPT !.drops = @ + Cardinality(Finished \ kept)]
        /\ data' = data \cup taken
        /\ pendings' = pendings \ Finished
        /\ remaining_batch_size' = remaining_batch_size - NoLongerCounted(kept)
        /\ lost' = lost \cup (Finished \ taken)
        /\ Forget(Finished)
        /\ sample' = [g \in Groups |-> IF g \in Finished \ taken
                                         THEN [i \in Members |-> NewSample] ELSE sample[g]]
        /\ IF Cardinality(data') >= RolloutBatchSize
             THEN pc' = "abort" /\ aborted' = TRUE
             ELSE /\ pc' = IF remaining_batch_size' < RolloutBatchSize THEN "fill" ELSE "wait"
                  /\ UNCHANGED aborted
    /\ UNCHANGED <<args, rollout_id, collected, store, delivered>>
-----------------------------------------------------------------------------
(***************************************************************************)
(* A group's task: generate_and_rm_group and generate_and_rm.              *)
(***************************************************************************)
LoopRuns == pc \in {"wait", "abort", "drain"}

\* Tokens of an earlier rollout are masked, also those of complete samples.
Mask(s) == [s EXCEPT !.response =
                [k \in 1..Len(s.response) |-> [s.response[k] EXCEPT !.mask = 0]]]

StartTask(g) ==
    /\ LoopRuns
    /\ task[g] = "new"
    /\ IF aborted
         THEN /\ task' = [task EXCEPT ![g] = "done"]
              /\ UNCHANGED <<call, sample>>
         ELSE /\ task' = [task EXCEPT ![g] = "run"]
              /\ sample' = IF mode.partial /\ mode.mask
                             THEN [sample EXCEPT ![g] = [i \in Members |-> Mask(sample[g][i])]]
                             ELSE sample
              /\ call' = [call EXCEPT ![g] = [i \in Members |->
                             IF sample[g][i].status = "COMPLETED" THEN "back" ELSE "queue"]]
    /\ UNCHANGED <<args, driver, store, history, faults>>

InFlight == {c \in pendings \X Members : call[c[1]][c[2]] \in {"sent", "served"}}

\* The semaphore; whoever gets it after the abort gives up.
Acquire(g, i) ==
    /\ LoopRuns
    /\ call[g][i] = "queue"
    /\ Cardinality(InFlight) < Concurrency
    /\ IF aborted
         THEN /\ call' = [call EXCEPT ![g][i] = "back"]
              /\ sample' = [sample EXCEPT ![g][i].status = "ABORTED"]
         ELSE /\ call' = [call EXCEPT ![g][i] = "sent"]
              /\ UNCHANGED sample
    /\ UNCHANGED <<args, driver, store, task, history, faults>>

\* The request reaches the server.
Arrive(g, i) ==
    /\ LoopRuns
    /\ call[g][i] = "sent"
    /\ call' = [call EXCEPT ![g][i] = "served"]
    /\ UNCHANGED <<args, driver, store, task, sample, history, faults>>

Segment == [by |-> rollout_id, mask |-> 1]

\* The server answers with a complete response.
Answer(g, i) ==
    /\ LoopRuns
    /\ call[g][i] = "served"
    /\ call' = [call EXCEPT ![g][i] = IF mode.groupRm THEN "back" ELSE "reward"]
    /\ sample' = [sample EXCEPT ![g][i].status = "COMPLETED",
                                ![g][i].response = Append(@, Segment)]
    /\ UNCHANGED <<args, driver, store, task, history, faults>>

\* async_rm, which an abort does not stop.
Reward(g, i) ==
    /\ LoopRuns
    /\ call[g][i] = "reward"
    /\ call' = [call EXCEPT ![g][i] = "back"]
    /\ sample' = [sample EXCEPT ![g][i].reward = TRUE]
    /\ UNCHANGED <<args, driver, store, task, history, faults>>

AllBack(g) == \A i \in Members : call[g][i] = "back"

EndTask(g) ==
    /\ LoopRuns
    /\ task[g] = "run"
    /\ AllBack(g)
    /\ task' = [task EXCEPT ![g] = IF mode.groupRm /\ ~aborted THEN "reward" ELSE "done"]
    /\ UNCHANGED <<args, driver, store, call, sample, history, faults>>

\* batched_async_rm for a reward model that needs the whole group.
RewardGroup(g) ==
    /\ LoopRuns
    /\ task[g] = "reward"
    /\ task' = [task EXCEPT ![g] = "done"]
    /\ sample' = [sample EXCEPT ![g] = [i \in Members |-> [sample[g][i] EXCEPT !.reward = TRUE]]]
    /\ UNCHANGED <<args, driver, store, call, history, faults>>
-----------------------------------------------------------------------------
(***************************************************************************)
(* abort(): abort_server_until_idle, then the tasks that are left.         *)
(***************************************************************************)
Served == {c \in pendings \X Members : call[c[1]][c[2]] = "served"}

\* The server ends every request it has; some got tokens, some none yet.
AbortRequests ==
    /\ pc \in {"abort", "aborting"}
    /\ pc' = "aborting"
    /\ \E some \in SUBSET Served :
        sample' = [g \in Groups |-> [i \in Members |->
            IF <<g, i>> \notin Served THEN sample[g][i]
            ELSE [sample[g][i] EXCEPT !.status = "ABORTED",
                    !.response = IF <<g, i>> \in some THEN Append(@, Segment) ELSE @]]]
    /\ call' = [g \in Groups |-> [i \in Members |->
                    IF <<g, i>> \in Served THEN "back" ELSE call[g][i]]]
    /\ UNCHANGED <<args, rollout_id, aborted, pendings, remaining_batch_size, data, collected,
                   store, task, history, faults>>

\* The abort request fails (it is logged), and the server goes on.
AbortFails ==
    /\ pc \in {"abort", "aborting"}
    /\ faults.lost < MaxLost
    /\ pc' = "aborting"
    /\ faults' = [faults EXCEPT !.lost = @ + 1]
    /\ UNCHANGED <<args, rollout_id, aborted, pendings, remaining_batch_size, data, collected,
                   store, tasks, history>>

\* Mutant: waits for the tasks, which are collected only afterwards.
Idle_mut == pendings = {}
Idle == Served = {}

\* No request is left on the server; one may still be on its way there.
ServersIdle ==
    /\ pc = "aborting"
    /\ Idle
    /\ pc' = "drain"
    /\ UNCHANGED <<args, rollout_id, aborted, pendings, remaining_batch_size, data, collected,
                   store, tasks, history, faults>>

\* The load cannot be read: abort() does not try again.
LoadUnknown ==
    /\ pc = "aborting"
    /\ faults.lost < MaxLost
    /\ pc' = "drain"
    /\ faults' = [faults EXCEPT !.lost = @ + 1]
    /\ UNCHANGED <<args, rollout_id, aborted, pendings, remaining_batch_size, data, collected,
                   store, tasks, history>>

\* Mutant: the stamp is renewed by each rollout.
Stamp_mut(s) == IF s.response # <<>> THEN [s EXCEPT !.start = rollout_id] ELSE s
Stamp(s) == IF s.response # <<>> /\ s.start = -1 THEN [s EXCEPT !.start = rollout_id] ELSE s

\* A task of the aborted rest is done.
Drain(g) ==
    /\ pc = "drain"
    /\ g \in Finished
    /\ pendings' = pendings \ {g}
    /\ Forget({g})
    /\ IF mode.partial
         THEN /\ collected' = Append(collected, g)
              /\ sample' = [sample EXCEPT ![g] = [i \in Members |-> Stamp(sample[g][i])]]
              /\ UNCHANGED lost
         ELSE /\ sample' = [sample EXCEPT ![g] = [i \in Members |-> NewSample]]
              /\ lost' = lost \cup {g}
              /\ UNCHANGED collected
    /\ UNCHANGED <<args, pc, rollout_id, aborted, remaining_batch_size, data, store, delivered, faults>>

\* Mutant: the flag survives the rollout.
Reset_mut == remaining_batch_size' = 0 /\ UNCHANGED aborted
Reset == remaining_batch_size' = 0 /\ aborted' = FALSE

\* The batch is returned, the state reset and the rest put into the buffer.
Return ==
    /\ pc = "drain"
    /\ pendings = {}
    /\ pc' = "idle"
    /\ rollout_id' = rollout_id + 1
    /\ delivered' = delivered \cup data
    /\ data' = {}
    /\ sample' = [g \in Groups |-> IF g \in data THEN [i \in Members |-> NewSample] ELSE sample[g]]
    /\ buffer' = buffer \o collected
    /\ collected' = <<>>
    /\ Reset
    /\ UNCHANGED <<args, pendings, source, handed, task, call, lost, faults>>

Done ==
    /\ pc = "idle"
    /\ rollout_id = NumRollouts
    /\ UNCHANGED vars

Main == StartRollout \/ Fill \/ Filled \/ Collect \/ AbortRequests \/ ServersIdle
            \/ (\E g \in Groups : Drain(g)) \/ Return

TaskStep(g) == StartTask(g) \/ EndTask(g) \/ RewardGroup(g)

CallStep(g, i) == Acquire(g, i) \/ Arrive(g, i) \/ Answer(g, i) \/ Reward(g, i)

Next ==
    \/ Main \/ AbortFails \/ LoadUnknown
    \/ \E g \in Groups : TaskStep(g) \/ \E i \in Members : CallStep(g, i)
    \/ Done

Spec == Init /\ [][Next]_vars

\* The event loop runs what is ready, requests arrive and are answered.
FairSpec ==
    /\ Spec
    /\ WF_vars(Main)
    /\ \A g \in Groups : WF_vars(TaskStep(g))
    /\ \A g \in Groups, i \in Members : WF_vars(CallStep(g, i))
-----------------------------------------------------------------------------
Statuses == {"PENDING", "ABORTED", "COMPLETED"}
SampleType == [status : Statuses, response : Seq([by : Nat, mask : {0, 1}]),
               reward : BOOLEAN, start : Nat \cup {-1}]

\* The variables keep their types; the groups of the driver's collections are
\* groups the data source has handed out.
TypeOK ==
    /\ mode \in Modes /\ dataset_size \in DatasetSizes
    /\ pc \in {"idle", "fill", "wait", "abort", "aborting", "drain"}
    /\ rollout_id \in Nat /\ aborted \in BOOLEAN /\ remaining_batch_size \in Nat
    /\ pendings \subseteq Groups /\ data \subseteq Groups
    /\ collected \in Seq(Groups) /\ buffer \in Seq(Groups)
    /\ source \in [offset : Nat, epoch : Nat, index : 0..MaxGroups]
    /\ handed \in Seq(Nat \X Nat) /\ Len(handed) = source.index
    /\ task \in [Groups -> {"none", "new", "run", "reward", "done"}]
    /\ call \in [Groups -> [Members -> {"none", "queue", "sent", "served", "reward", "back"}]]
    /\ sample \in [Groups -> [Members -> SampleType]]
    /\ delivered \subseteq Groups /\ lost \subseteq Groups
    /\ faults \in [drops : Nat, lost : Nat]

\* A group counted as running is running: asyncio.wait is never called without
\* tasks (it raises ValueError then), whatever the filter drops and however
\* few groups the data source returned (sglang_rollout.py:428-450).
NeverWaitsForNothing == pc = "wait" => pendings # {}

\* The batch holds whole groups: every sample complete and rewarded, no group
\* aborted half way in this rollout or an earlier one; with
\* mask_offpolicy_in_partial_rollout only tokens generated in this rollout are
\* trained (arguments.py:486-487), also in samples completed earlier.
BatchIsWhole ==
    \A g \in data : \A i \in Members :
        /\ sample[g][i].status = "COMPLETED"
        /\ sample[g][i].reward
        /\ mode.partial /\ mode.mask =>
            \A k \in 1..Len(sample[g][i].response) :
                sample[g][i].response[k].mask = 1 => sample[g][i].response[k].by = rollout_id

\* A recycled group can be continued: its complete samples have their reward
\* (the assertion at sglang_rollout.py:259) and a sample that has tokens knows
\* the rollout of its first ones (quick_start.md:389).
RecycledAreConsistent ==
    \A n \in 1..Len(buffer) : \A i \in Members :
        LET s == sample[buffer[n]][i]
        IN  /\ s.status = "COMPLETED" /\ ~mode.groupRm => s.reward
            /\ s.start = IF s.response = <<>> THEN -1 ELSE s.response[1].by

\* The data set is read in order: no prompt twice in an epoch, none skipped,
\* also when a request goes past the end of the data set or past the end of
\* the epoch that follows (data_source.py:90-105).
EpochsInOrder ==
    \A k \in 1..Len(handed) :
        handed[k] = <<(k - 1) \div dataset_size, (k - 1) % dataset_size>>

Delivery == INSTANCE GroupDelivery
    WITH BatchSize <- RolloutBatchSize, First <- 0, Limit <- MaxGroups,
         fetched <- source.index, batches <- rollout_id

\* The synchronous rollout keeps the same promise as the asynchronous one: each
\* call returns a full batch of groups never returned before, and no group
\* comes from anywhere else.
ImplementsDelivery == Delivery!Spec

\* Every call returns, whatever is aborted.
EveryRolloutReturns == (pc = "fill") ~> (pc = "idle")
=============================================================================
