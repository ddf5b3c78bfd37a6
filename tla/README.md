# Verification of SAO / CompactionRL (slime)

This directory holds TLA+ models of the reinforcement-learning framework in this
repository, the TLC configurations that check them on small instances, and
theorems about them checked by TLAPS.

The repository trains a language model with reinforcement learning: inference
engines (SGLang) generate answers to prompts, reward functions score them, and
Megatron actors train on them. Its own addition to slime is the *asynchronous*
operation: a rollout worker that generates continuously with a bounded staleness
window (windowed FIFO), an actor and a critic trained by `train_async.py`, and
launch scripts that resume both.

## 1. Inventory

| part | source | state it keeps | operations | status |
| --- | --- | --- | --- | --- |
| windowed FIFO rollout | `slime/rollout/fully_async_rollout.py` | `_pending` and `current_step` of the buffer; `active_tasks`, `_inflight_registry`, `output_queue`, `_pending_completed`, `_max_entry_step`, `pause_new_tasks`, `current_rollout_id` of the worker | `get_samples`, `put_back`, `get_expired_groups`, `advance_step`; the worker's pass; `drain_output_queue`, `generate_rollout_async`; `generate_rollout_fully_async` | `WindowedFifo`; the branch without a window is not modelled |
| asynchronous driver | `train_async.py` | the future of the next rollout, the current batch | generate, train critic and actor, save, update weights, eval | `TrainAsync`; `release_train` not modelled |
| RolloutManager | `slime/ray/rollout.py` | call queue of a Ray actor, engine groups, data source | `generate`, `eval`, `save`, `load`, `offload`, recovery | call order in `TrainAsync`, recovery in `EngineHealth`; offloading not modelled |
| data source | `slime/rollout/data_source.py` | `sample_offset`, `epoch_id`, `sample_group_index`, `sample_index`, buffer | `get_samples`, `add_samples`, `save`, `load` | epochs, wrap-around and buffer in `SyncRollout`; save and load in `TrainAsync`; shuffling not modelled |
| trainer actor | `slime/backends/megatron_utils/actor.py` | weights, optimizer, pending asynchronous save | `train`, `save_model`, `update_weights` | saves in `TrainAsync`, `update_weights` in `EngineHealth`; numerics not modelled |
| launch script | `scripts/run-qwen3-4B-sao-fifo.sh` | tracker files of the checkpoints | refuse, resume or start | `TrainAsync` |
| synchronous rollout | `slime/rollout/sglang_rollout.py`, `sglang_streaming_rollout.py`, `backends/sglang_utils/server_control.py` | `pendings`, `aborted`, `remaining_batch_size`, the semaphore, the samples | `generate_rollout_async`, `generate_and_rm`, `generate_and_rm_group`, `abort`, `abort_servers_until_idle` | `SyncRollout`; evaluation and streaming not modelled |
| engine health | `slime/utils/health_monitor.py`, `RolloutServer.recover` | list of engines, pause and stop events | check, kill by index, recover | `EngineHealth`, one node per engine, without offloading |
| batch scheduling | `slime/utils/dp_schedule.py`, `seqlen_balancing.py` | none | pure packing and partitioning, then consumption by the ranks | `DpSchedule` |
| agent trajectories | `slime/agent/trajectory.py`, `adapters/common.py` | message tree, turn records, sessions | record a turn, linearise, realign, truncate | `Trajectory`; a request still being answered when its session ends is not modelled |
| rollout buffer plugin | `slime_plugins/rollout_buffer/` | groups of the server, queues of the generator, results of the client | generate, write, read over HTTP, select a batch | `RolloutBuffer` |
| weight update | `slime/ray/actor_group.py`, `update_weight/` | weight version, paused generation | NCCL, disk reload | not modelled |
| synchronous driver | `train.py` | none of its own | generate, train, save, offload | not modelled |
| HTTP client, reward hub, filters, losses, model code, kernels, arguments, sandboxes | see `PROJECT.json` | - | I/O, numeric code, text functions | not modelled |

How they interact. The driver submits `generate`, `save` and `eval` to the
RolloutManager actor, which serves its calls one at a time, in order. `generate`
calls the rollout function in the manager's thread. In windowed-FIFO mode this
writes two fields that the worker thread reads at any time, submits the
collector coroutine to the worker's event loop and blocks until it returns. The
worker, the collector and the inference tasks are coroutines of that one loop;
they interleave only where they await. The driver collects the batch it has requested
before it pushes weights to the engines, and saves actor, critic and data source one after
the other. With the default rollout function nothing is generated during a push; the windowed
FIFO's worker goes on between calls, so that a push may fall into its generations. In synchronous mode the rollout function runs its own loop, asks for more
groups than it needs, and aborts the servers when a batch is full; what it had not
finished goes back to the data source's buffer. What `generate` returns is packed
into micro-batches by `build_dp_schedule`. An agent's session is recorded turn by turn
and turned into samples when it ends. The rollout buffer is a server between a generator in
other processes and a rollout function that polls it.

What is hard to test, and what each component must get right:

* *The worker and the caller.* The caller's writes fall inside a pass of the worker's loop; an
  eval moves the step back; the collector sleeps with part of a batch taken. A group must
  nevertheless be in one place, be used once, be used in time, and be complete.
* *Throttling.* The throttle compares two counters of which one moves backwards; it decides
  staleness, whether `output_queue.put` can block the loop, and whether a call gets its batch.
* *Aborts and faults.* An aborted group travels back through queue and FIFO; a task that raises
  must not take anything with it but its own group.
* *Early generation.* The batch collected early for a weight update must be trained on next; no
  update may fall into a generation.
* *Engine failures.* The health monitor's thread and the manager share the list of engines
  without a lock. The monitor kills by index; recovery counts the empty slots and then reads
  them again. No engine may serve old weights, and no GPU may carry two engines.
* *Recycling.* A group aborted in one rollout is continued in the next, perhaps aborted again,
  half of its samples complete; counters must follow groups that are filtered, recycled, or that
  the data source did not have.
* *Counts that several lists share.* Every rank must run the same number of micro-batches,
  chosen out of one list by counts from another, whatever splitting and dealing did.
* *Rewritten histories.* An agent may branch, or change what it replays; a response must be
  trained once, and only as what the model saw and sampled.
* *Destructive reads.* The buffer server forgets what it hands out while the generator goes on
  adding to the same groups, and either message may be lost. A client that gives up fills its
  batch with prompts nobody answered.
* *Kills.* Three saves in a row, one of them asynchronous, and a cursor that is already one
  batch ahead.

`PROJECT.json` lists these at their lines, with the properties that cover them.

## 2. Modules

| module | what it is |
| --- | --- |
| `WindowedFifo` | the pipeline, its properties, and the mutants used to test them |
| `GroupDelivery` | what a rollout function promises to training: an abstract specification, implemented by `WindowedFifo` and `SyncRollout` |
| `FifoClaims`, `FifoHistory` | statements of comments and docs the code refutes; a history variable |
| `Lemmas` | facts several proofs rest on: queues and caches, cardinalities, sums over sets, recursive functions, induction |
| `WindowedFifoProofs` | types, conservation, refinement; the order of consumption, completeness of groups; the bounds on prefetch, queue, delay and off-policyness |
| `TrainAsync` | the driver, the manager's queue, the data cursor, weights and checkpoints |
| `TrainClaims` | what the documentation says of resuming |
| `TrainAsyncProofs` | types, the driver-manager protocol; what actor and critic learn from, staleness, the order of the batches |
| `EngineHealth` | the health monitor's thread against recovery and weight updates |
| `EngineHealthProofs` | type correctness, what the monitor kills, slots, weights |
| `SyncRollout`, `MCSyncRollout` | the synchronous rollout with abort, recycling and the data set |
| `SyncRolloutProofs` | its types, counters, samples, data set order and refinement |
| `DpSchedule`, `MCDpSchedule` | packing, alignment and distribution of a rollout's samples, and their consumption |
| `DpScheduleProofs` | what each step trains, equal counts, the cap, the assertions on Karmarkar-Karp |
| `Trajectory`, `MCTrajectory` | the tree of an agent's messages and its samples |
| `TrajectoryProofs` | each response trained once, in its context, and to its end |
| `RolloutBuffer`, `MCRolloutBuffer` | generator, buffer server and polling client |
| `RolloutBufferProofs` | where an answer is, and what a call returns |

Operators whose comment starts with "Mutant" are altered copies of the next
definition; no specification uses them. They show that each property can fail.

### WindowedFifo

A group is named by its `group_index`; `EntryStep(g)` is `group_index //
rollout_batch_size`, which never changes, so the `(group, entry_step)` pairs of the
code are plain indices. Texts, rewards and log lines are left out. A sample keeps
its `status` and `completed_step`.

`worker` and `collector` are program counters of the two coroutines, `caller` that of
the calling thread. `LoopFree` says that neither coroutine holds the event loop;
a task can end, and a suspended coroutine resume, only then. The caller's two
writes (`StartGenerate` or `StartEval`, then `EnterWorker`) are not so restricted.
One worker pass is `WorkerWakes`, a sequence of `Harvest...` steps, `EndHarvest`,
a sequence of `Launch...` steps, `EndLaunch`. One iteration of the collector is
`BeginIteration`, `Drain...` until the queue is empty, `Classify`, a sequence of
`AcceptGroup`, then the waits, refills and ends of the three branches
(`total_expired == 0`, Case 1, Case 2). `Return` is everything behind the loop,
`advance_step` and the re-insertion of newly expired groups included.

`TaskReturns` lets each unfinished sample complete or be aborted by the engine;
`TaskFaults` covers a task that raises and a custom generate function that fans
out, whose result the worker's loop cannot stamp.

### TrainAsync

Weights are the sequence of batches they learned from, a batch is the ordinal of
its read from the data source. `calls` is the queue of the manager actor;
`BeginGenerate` reads the batch, `EndGenerate` answers, and both record the version
of the engines' weights. `StartJob` is the launch script's test of the tracker
files, the loading of checkpoints and cursor and the first weight push; `Crash`
leaves only `checkpoint` and `state_dicts`. With `async_save` a checkpoint becomes
final when the next save begins. The default rollout function is assumed: one
`generate` reads one batch, and nothing is generated between two calls. Of the windowed
FIFO `UniformWeights` says nothing, and there the cursor runs further ahead, so that more is
skipped than `ClaimNothingSkipped.cfg` shows.

### EngineHealth

`all_engines` maps the slots of a server group to engines or `None`; an engine is named by
its number of creation. `monitor` is the place of the monitor's thread; one health check is
`CheckEngine`, then `CheckPasses` or `CheckFails`, `KillEngine` and `ClearSlot`, each a step
of its own because `ray.get` lets the other threads run in between. `pc` is the job: the
calls of `update_weights`, one action each (`BeginUpdate` pauses the monitor but does not
wait for it), the loop of `start_engines` one slot at a time, then the rollout (`Serve`,
`EndServing`). `EngineHangs` happens at any time; `CheckFails` may also hit an engine
that is only slow. `ShutdownMayFail` says whether `engine.shutdown` may raise, which it does
when the router refuses to remove the worker. `Reachable` is external behaviour: a call to
a list of engines fails with the first one that is `None`, dead or hung, and the job with it.

### SyncRollout

`pc` is `generate_rollout_async`: `fill` (ask the data source until enough groups run), `wait`
(`Collect` takes the finished tasks, drops what the dynamic filter rejects), `abort`,
`aborting`, `drain`, `idle`. `task[g]` is the coroutine of a group, `call[g][i]` that of a
sample: waiting for the semaphore, sent, served by an engine, waiting for its reward, back. An
engine does not know a request until `Arrive`, so that an abort may miss it; `ServersIdle` is
the end of `abort_servers_until_idle`, `AbortFails` and `LoadUnknown` its errors, which the code
logs and goes on. A response is a sequence of segments, one per generation, with the rollout it
was generated in and its loss mask. `source` is the read cursor: epoch, offset, index; a request
may pass the end of the data set, and a data set smaller than a request yields fewer groups than
asked for.

### DpSchedule

A micro-batch is the set of its samples. Every loop of the code is a sequence of steps, one per
iteration: first-fit packing, splitting the largest bin until the number of bins is a multiple
of what ranks and virtual stages need, Karmarkar-Karp in both of its uses, dealing to ranks.
Ties the code breaks by the order of items are broken either way. A bin's tokens are a sum over
the set of its samples. `TrainOneStep` lets every rank
take the next `num_microbatches[step]` entries from its list, as `DataIterator` does. The
assertions of the code are ends (`Stops`) that the specification may reach. `BalanceSucceeds`
says that one of them is not.

### Trajectory

`RunTurn` is one request of the agent: a prompt made of earlier messages, each as it was or with
another text and other tokens, and an answer; it is followed by `record_turn` (matching, the
rewrite of a short answer in place, mounting). After `FinishSession` the leaves are linearised
one after the other: `NextChain`, then per turn `Fork`, `Extend` or `Realign`, then `Emit` per
builder (truncation included). Where the code has a loss mask the model has the number of the
turn that a token is trained as. What a walk to the root collects (`Path`, `Generated`) is a
recursive function on nodes, since a parent is always older than its children.

### RolloutBuffer

The generator's tasks (`BeginTask`, `EndTask`) and the two HTTP conversations: `Post`, `Write`,
`Acknowledge` with one retry, and `ServeFetch`, `Receive`. The server's `read` pops all valid
groups at once. `PostFails`, `AcknowledgeFails`, `FetchFails` and `AnswerLost` lose a request or
an answer. An item is its place in the order of completion. Buffer, answer and results keep items by prompt,
as the server's dictionary does and as `select_rollout_data` groups them again; a batch is a
function from the prompts selected to their groups. `ReturnBatch` keeps the newest groups, puts
them into the data source's buffer with `add_samples`, which raises on a group of the wrong size
(`Raise`), and takes a batch out again with `get_samples`: what is missing comes from the data
set, prompts without answers (`unanswered`, from the cursor `sample_group_index`), and the
cursor moves. Assumed is that nothing else uses that buffer, so that a call finds it empty, and
that the data set gives as many prompts as it is asked for (the other case is in `SyncRollout`).

## 3. Runs

All constants are in the `.cfg` files and the `MC...` modules. `MaxGroups`, `MaxAborts`,
`MaxFaults`, `MaxDrops`, `MaxLost`, `NumRollouts`, `MaxCrashes`, `NumRounds`, `MaxFailures`,
`MaxTurns`, `MaxPrompt`, `MaxTasks`, `MaxSpoiled` and `MaxCalls` are bounds of the model.

| run | checks | instance, and why it is large enough |
| --- | --- | --- |
| `fifo_window` | `PrefetchBound` `DelayBound` `OffPolicyBound` `NeverBlocked` | batch 2, delay 1, prefetch 2, five rollouts (the last is the first at which `OffPolicyBound` could break), evals between them: groups are cached across calls, the throttle closes and opens, and the queue of 5 = 2·2+1 gets full |
| `fifo_faults` | `TypeOK` `OneHome` `AcceptedAreComplete` `ImplementsDelivery` `ExpiredGoFirst` `EarliestFirst` | a job resumed at rollout 2 whose data source is at group 0, two rollouts, two aborts, one fault: more expired groups than a batch holds (Case 2), as many or fewer (Case 1), one in flight while fresh ones are complete, two re-queued together, a pass cut short |
| `fifo_liveness` | `EveryCallReturns` | two samples in a group, one or both of which may be aborted; two rollouts of one group, evals, prefetch 2; three aborts, which are enough to put a whole window back during the initial eval, and a faulty task: calls that are starved, and calls that have one group less than that out of reach |
| `engine_health` | `TypeOK` `ServesCurrentWeights` `OneEnginePerSlot` `KillsWhatItChecked` `HungIsNoticed` | two engines, three updates, two failures: an engine is killed during recovery, before and after its slot is read, two engines die in one rollout, and a replacement fails again |
| `train_resume` | `TypeOK` `UniformWeights` `OwnBatch` `StalenessBound` `ModelsInStep` `DataInOrder` `JobFinishes` | six rollouts, saves every 2, updates and evals every 3, an epoch of 5, a critic-only step, asynchronous saves and two kills anywhere: updates in the middle of a save interval, a resume in the middle of an update interval, a resume from a resumed job |
| `sync_rollout` | `TypeOK` `NeverWaitsForNothing` `BatchIsWhole` `RecycledAreConsistent` `EpochsInOrder` `ImplementsDelivery` `EveryRolloutReturns` | two rollouts of one group out of two that run, two samples in each; all sensible combinations of partial rollout, masking and a group reward; data sets of one prompt (each request of two goes past the epoch) and of three (it ends inside a request); two filtered groups, one failing abort: groups are aborted in one rollout and continued in the next with one sample complete |
| `dp_schedule` | `StepsTrainTheirSamples` `SameCountOnEveryRank` `TokenCap` `BalanceSucceeds` | all 243 sequences of five samples of lengths 1, 3, 7 (two below the cap of 6, one above), three ways to share rollouts, 21 configurations: one and two ranks, virtual stages, the static, token and FLOPs paths; steps left over, bins split once and twice |
| `trajectory` | `TrainedAtMostOnce` `TrainedInContext` `SamplesAreTrainable` `NoResponseDropped` | all sessions of three turns, of which the last may replay two answers: the same text with other tokens, an answer shorter than the threshold (rewrite, realign) and one as long as it (fork), an empty one, a branch; a context limit that cuts the last answer |
| `rollout_buffer` | `ItemsHaveOneHome` `BatchIsAnswered` | three prompts answered three times, batches of two groups, two calls; one answer empty or `None`; one lost request or answer; limited and unlimited retries: a group is handed out with its prompt's second pass under way, a group too many is put aside, a call returns with one group answered and one not, or with none |
| `claim_dead_replaced`, `claim_serves_current`, `claim_groups_fit` | one property each | what the code refutes, section 4 |

Other instances were checked once, without error: `Trajectory` with four turns, threshold 2 and
no context limit (5.9 million states, too long for every time); `EveryCallReturns` with a batch
of two, with three rollouts and four aborts, and with jobs resumed before, inside and behind a
window. The `TypeOK` of `DpSchedule` and of `Trajectory` hold on the
instances of their runs as well and are theorems; no run repeats them. The inductive invariants
of section 5 were checked with TLC on such instances before they were proved.

What the runs of `WindowedFifo` show. Without aborts and losses the data source is
never read beyond `RolloutBatchSize * (rollout + MaxPrefetchSteps) + 1` groups; a
group is used at most `MaxDelayStep` steps late, and its off-policyness is at most
`MaxDelayStep + MaxPrefetchSteps`. An eval moves `current_rollout_id` back and so makes a
stamp too old by one; that this adds nothing to the bound rests on the order of consumption
(the mutant that takes the latest entry step first breaks it).
With aborts those bounds do not hold (see section 4) but conservation does: through abort,
requeue, queue, cache and batch a group is in one place, and every batch is full of
complete groups that were never used before. An expired group always goes before a
fresh one *among those completed or in flight*. A call returns unless it is `Starved`: short of
groups, nothing under way, and either Case 2's pause left on or the throttle closed over more
than `RolloutBatchSize * (MaxPrefetchSteps - 1) + 1` groups out of reach. Both happen (items 1
and 7 of section 4); a window is the least that closes the throttle on a call, which is a theorem.

What the runs of `train_resume` and `sync_rollout` show. Through kills at any point, actor and
critic have learned from the same batches, and a batch is at most an update interval old. The
counter that decides whether more groups are asked for is exact whatever is filtered or aborted,
and what is recycled carries the rollout of its first tokens, however often it is aborted (for
more than two rollouts this is the theorem).

What `dp_schedule`, `trajectory` and `rollout_buffer` show. Each step trains exactly its own
samples, on every rank in equally many micro-batches; the token cap survives splitting; the
FLOPs path knows no cap. A token is trained at most once, and only behind exactly the tokens the
model saw. An answer of the generator is in one place unless a message was lost: a lost *answer
to a read* loses the groups for good, a lost *acknowledgement of a write* doubles the item. Both
properties of `rollout_buffer` except these items by name (`lost`, `reposted`): they show that no
others are affected, not that these are not. A batch holds unanswered prompts only when the
retries are used up.

What `engine_health` shows. If shutdowns do not raise, an engine that runs has the last weights
whenever requests are served, and recovery never puts two engines on the same GPUs, although the
monitor may still be killing when recovery begins. What such a late kill does cost is the
update: it meets a `None` or a dead engine, raises, and the job ends (`ConnectFails`,
`PushFails`, `FinishRecover`).

`CHECK_DEADLOCK FALSE` stands in the `TrainAsync` configurations, since a finished job and one
that the launch script refuses do stop; in those of `EngineHealth`, since a finished or failed
job and its monitor stop; and in the configuration that shows the pipeline blocking. The other
modules have a step `Done` where the program has finished, so that any other stop is a deadlock.

Fairness. `FairSpec` of `WindowedFifo`: the caller finishes what it entered; a coroutine that
holds the loop goes on (weak fairness); a coroutine whose sleep is over and a task that can end
are taken eventually although the loop is busy again and again (strong fairness, as asyncio's
ready queue is FIFO). Tasks end because the HTTP client gives up after its retries. Nothing
makes the trainer call again. `FairSpec` of `TrainAsync`: the driver and the manager run, and a
killed job is started again, which `docs/en/advanced/fault-tolerance.md` expects of the cluster
scheduler. `FairSpec` of `EngineHealth`: both threads run; a rollout is complete eventually if
no running engine is hung (`RolloutCompletes`), as the client repeats a request that failed with
another engine. `FairSpec` of `SyncRollout`: the main coroutine, each group's and each sample's
go on (weak fairness, one event loop that runs everything that is ready); an engine answers what
it was sent, because the HTTP client gives up after its retries, and neither the filter nor a
failing abort needs to happen. A dynamic filter that drops everything for ever would keep a call
from returning: `EveryRolloutReturns` holds because the filter drops `MaxDrops` groups.
`JobFinishes` allows one other end: a kill between the two saves leaves checkpoints of different
steps, and the script then refuses to resume, as it says it does.

## 4. Where the code differs from what it says

Each has a configuration that TLC refutes (`Claim*.cfg`, of the module `FifoClaims`,
`FifoHistory`, `TrainClaims`, `WindowedFifo`, `EngineHealth` or the `MC` module of a component).
Three of them are runs of `PROJECT.json` (`claim_dead_replaced`, `claim_serves_current`,
`claim_groups_fit`), which quotes the line; the others are kept as configurations only.

1. *Inference is not always restored* (`ClaimInferenceRestored.cfg`). Three expired groups,
   batch of two: Case 2 pauses the worker, consumes one group, sleeps. When it comes back two
   are left, which is Case 1, and Case 1 does not know about the pause. The call returns with
   launching paused. The next Case 2 repairs it; until then only what is in flight or cached can
   fill a batch, and a call for which that is not enough never returns (`ClaimPauseStarves.cfg`).
2. *`_max_entry_step` is not monotonic* (`ClaimMaxEntryStep.cfg`): re-launching an aborted group
   sets it back, and the throttle opens further than it should.
3. *The FIFO is not in order* (`ClaimPendingInOrder.cfg`): two aborted groups drained together
   end up reversed; so do groups re-inserted after a rollout.
4. *An expired group can be left behind* (`ClaimExpiredIncluded.cfg`): while it waits in
   `_pending` after an abort nobody counts it.
5. *Fan-out results are dropped* (`ClaimResultsKept.cfg`).
6. *The worker can block its own loop* (`ClaimNeverBlocked.cfg`) when `max_prefetch_steps *
   rollout_batch_size` reaches the queue's size (1000 in the code). `fifo_window` shows that one
   more slot is enough when nothing is aborted.
7. *A prefetch window costs more than throughput.* The throttle compares the last launched
   entry step with the rollout, whatever became of the groups up to there. Once a window of them
   is out of reach nothing is launched, nothing is in flight and the call never returns.
   `ClaimPrefetchThroughput.cfg`: during the initial eval, while nobody drains the queue, the
   groups of a whole window come back aborted; they are put back and then throttled for ever.
   `ClaimResumeStarves.cfg`: the data source is saved when the worker has read a window ahead; the
   resumed job launches one group, whose entry step closes the throttle, and its first call waits
   for the rest of the batch. Groups lost with their tasks count as well.
8. *`completed_step` is not the finishing step* (`ClaimFinishStep.cfg`), so `off_step` may be
   one too small.
9. *A resumed job skips a batch* (`ClaimNothingSkipped.cfg`), because the save is served after
   the early `generate`.
10. *A resumed job repeats batches* (`ClaimNothingRepeated.cfg`) when it was killed between the
    model save and the data source save. The data source then starts from group 0 while the
    rollout goes on from its id; this is the starting state of `fifo_faults`.
11. *Recovery's assertion can fail* (`claim_dead_replaced`): pausing the monitor does not wait
    for the kill it is in; the slot it clears after `recover` counted and before `start_engines`
    read it is started as well, and there are more new engines than dead ones.
12. *A stopped server may go on serving* (`claim_serves_current`): when `engine.shutdown`
    raises, `ray.kill` is skipped, the exception logged and the slot cleared. The engine keeps
    its old weights and its GPUs, on which recovery starts the next one.
13. *A group of the buffer server can be too large* (`claim_groups_fit`): the second pass over
    the input file adds to a group that the first one filled and nobody has read yet;
    `add_samples` raises.
14. *Micro-batches can be impossible to align above the threshold* (`ClaimBelowThreshold.cfg`):
    the message of the assertion in the dynamic path says that the step has fewer samples than
    the alignment needs, but three samples in a bin each cannot be split into the four bins that
    two ranks need either.
15. *A shared response is not always trained* (`ClaimSharedIsTrained.cfg`): the first leaf that
    claims it may realign it away, and the later ones take it for trained.

Read, but not runs of their own: `connect_rollout_engines` stores the new engines before it
disconnects, so the old group is destroyed on the new ones; every comment on throttling says `>`
where the code has `>=`; `examples/fully_async/README.md` speaks of `sglang_server_concurrency`
where the worker uses `rollout_batch_size`; the option text says an expired in-flight group is
"discarded and re-queued", which nothing does; a job resumed after its last rollout still
submits one `generate`. In the rollout buffer, one answer of `None` makes every later read fail,
and a client with unlimited retries polls for ever; with finite retries the batch is filled up
with prompts nobody has answered (`BatchIsAnswered` says when). The assertion `need_length < len(results)` fails for every
exact batch when `n_samples_per_prompt` is 1.

## 5. Proofs

For all values of the constants that satisfy the named assumptions of the modules
(`ConstantsAssumption`, `TrainAssumption`, ...), and what a theorem assumes itself. Every
invariant and every safety action property that a passing run checks is a theorem.

The induction theorems of the library take an operator as a parameter, which the provers cannot
instantiate. What needs induction is therefore stated in `Lemmas` without one: a set of naturals
that holds 0 and with each number the next is everything (`NatsIn`, from a least counterexample);
a recursive function over numbers exists and unfolds (`Recursion`); a sum over a finite set is a
number, splits at an element, is monotone, and is at most *n c* when *n* of its summands are at
most *c* and the rest 0 (`SumNat`, `SumRemove`, `SumMonotone`, `SumAtMost`); of a finite set of
distinct numbers with *k* or more elements exactly *k* have fewer than *k* above them (`HighestRanked`).

`WindowedFifo`. Every invariant and safety property its runs check is a theorem.

* `TypeCorrect` and `Conservation`: `Spec => []TypeOK`, `Spec => []OneHome`. With `TypeOK`,
  `OneHome` is inductive as it stands: it is stated about all six places at once, because every
  step takes a group from one place to another and needs to know that it was in none of the
  rest. `Lemmas` holds what appending to and popping from a queue and a cache entry does to
  membership and injectivity.
* `Refinement`: `Spec => ImplementsDelivery`. It needs one more invariant, `BatchFits`
  (`Len(data) <= RolloutBatchSize`): `Return` asks for at least a batch, the abstract step for
  exactly one, and `CallerWaits`: the coroutine that returns is the one the caller waits for, so
  the number of batches is the number of `generate` calls that returned. That the batch is new
  to training is `OneHome`.
* `ExpiredFirst` and `AscendingOrder`: `Spec => ExpiredGoFirst`, `Spec => EarliestFirst`. `Turn`
  carries both: while the collector takes groups that are not expired, no expired one is
  completed or in flight. It survives because the worker sleeps while the collector holds the
  loop, which is the other half of `Turn`.
* `CompleteGroups`: `Spec => []AcceptedAreComplete`. `Life` follows a sample through its task,
  the queue and the cache; `Clock` says that no id in use is beyond the newest rollout, although
  an eval moves one of them back.
* `BoundedPrefetch` (without aborts): the worker throttles on the entry step of the last group
  it fetched (`Fetched`). With aborts this is false, and so is the bound.
* `QueueNeverFull` (without aborts, a window smaller than the queue): the groups in the queue
  and the returned tasks were fetched and are not delivered; `delivered` has `RolloutBatchSize`
  members for each call that returned (`Counted`), and `BoundedPrefetch` limits what was
  fetched.
* `ThrottleLeavesABatch` (a prefetch window of at least one step, any aborts and faults): `Spec =>
  [](Short /\ Throttled => WindowHeldBack)`, which says when the throttle can starve a call. What
  the worker launched last was fetched (`LaunchedWasFetched`) and the worker has the id of the
  call that waits (`Announced`), so that a closed throttle means a window of groups fetched
  beyond the rollouts returned; those that are neither delivered, cached nor in the batch are out
  of reach (`ShortCount`).
* `WithinDelay` (without aborts and lost tasks): `Window` is a counting argument. Before the
  batch of rollout *c*, at most `RolloutBatchSize * (T + MaxDelayStep + 1 - c)` groups of entry
  steps up to *T* are still unused. A batch that takes a group which is not expired takes it
  behind every expired one, fetched or not (`FreshTaken`); otherwise it takes expired groups
  only. Either way the bound goes down with *c*, and at `T = c - 1 - MaxDelayStep` nothing is
  left.
* `BoundedOffPolicy` (without aborts and lost tasks): a stamp is at most `MaxPrefetchSteps`
  behind the entry step, except that of a task which returns during an eval of the previous
  rollout: one more (`Early`). What makes up for it is that such a group lies in the last entry
  step fetched, where the counting argument leaves one rollout of slack (`Tight`) as long as
  nothing later is taken before it (`Behind`, from the order of consumption).

The assumptions `StartsInOrder` and `StartsInWindow` say that the data source starts at the
rollout it is resumed for, and not beyond the first window; `ClaimNothingRepeated.cfg` shows the
start that violates the first.

`TrainAsync`.

* `TypesHold`, `NoUpdateMidGeneration`, `TrainsOnItsOwnBatch`: `TypeOK`, `UniformWeights`,
  `OwnBatch`. `Protocol` adds: the manager works on the head of its queue (`Busy`); at most one
  `generate` is outstanding and it is the one whose future the driver holds (`OneFuture`);
  nothing is requested further ahead than the next rollout (`OneAhead`), so that a new request
  cannot find an old answer; the driver holds the next batch or its future (`Future`).
* `ActorFollowsCritic`: `Spec => []ModelsInStep`. `InStep` says how many steps the running
  models have taken at each point (`Live`), that checkpoints of the same number belong together
  (`Paired`), and that no number on disk is ahead of the job (`NotAhead`), so that a save after
  a resume never meets an old one of its own number.
* `BoundedStaleness`: `Spec => []StalenessBound`. `Current`: the engines have every weight
  update of the rollouts before this one, and a batch every update before the rollout ahead of
  its own. The bound follows as one interval contains a multiple of it.
* `BatchesInOrder` (`NumRollouts # 0`): `Spec => []DataInOrder`. `Ordered` ties the cursor to
  the number of requests at each point of the driver. With no rollouts at all the driver still
  submits one `generate`, hence the assumption.

`EngineHealth`.

* `TypeInvariance` and `KillsOnlyTheChecked`: `Spec => []TypeOK` and `Spec =>
  KillsWhatItChecked`, whether shutdowns fail or not. `InSnapshot` carries them: only the
  monitor empties a slot, and only behind its index, so what it has still to check is where it
  saw it.
* `NoSharedSlot` and `CurrentWeights`: `Spec /\ ~ShutdownMayFail` implies `[]OneEnginePerSlot`
  and `[]ServesCurrentWeights`. The invariant adds that a slot is cleared after its engine was
  killed (`KilledFirst`), so that a running engine is in its slot (`Placed`), and that the
  weight updater is connected to every engine in a slot, or about to be (`Attached`).
  `claim_serves_current` shows that the assumption is needed.

`SyncRollout`. Every invariant the run checks is a theorem, and so is the refinement.

* `TypeCorrect`, `NoEmptyWait`, `Refinement`: `TypeOK`, `NeverWaitsForNothing`,
  `ImplementsDelivery`. `Conserved` says where the groups are, `Counted` what the counter means:
  the groups that run and those in the batch, at each point of the driver. With it, waiting
  means that more is counted than collected, so something runs.
* `DatasetOrder`: `[]EpochsInOrder`, from `InOrder`, which is the cursor's part: offset and
  epoch are the quotient and remainder of what was handed out, also at the end of an epoch.
* `WholeBatches` and `Recyclable`: `[]BatchIsWhole`, `[]RecycledAreConsistent`, from `Progress`,
  which says what a sample looks like at each point of its group's task and its own call: what a
  coroutine reads before an await still holds behind it.

`DpSchedule`. Every invariant its run checks is a theorem, for every batch, every layout of the
ranks, every cap and every estimate of the work of a sample.

* `TypeCorrect`: `[]TypeOK`, in lockstep with `PhaseInv`: what a phase leaves is empty before it
  starts again.
* `TrainsTheStep`: `[]StepsTrainTheirSamples`. The micro-batches of the current step and what is
  not packed yet partition its samples (`BinsInv`), through packing, splitting (`CutInv`: the two
  halves and the rest are the bin) and Karmarkar-Karp (`KarmarkarInv`: the states and the items
  that are in no state partition the items). `LayoutInv` then speaks of the lists of the ranks:
  there are offsets, the sums of the counts, such that between two of them all ranks together
  hold the samples of one step, each once. A rank's list is filled by dealing and
  read by position, with nothing in it that says where a step begins; that both agree on every
  rank is what this invariant is about.
* `SameCount`: `[]SameCountOnEveryRank`, from `LayoutInv` and `CountsInv`, which follows the
  number of bins through the alignment: the target is a multiple of what ranks and virtual
  stages need, and as long as there are fewer bins one can be split.
* `UnderTheCap`: `[]TokenCap`. First-fit respects the cap because the running sums are those of
  the bins (`SumsInv`), splitting because a part of a bin weighs no more (`SumMonotone`), and
  Karmarkar-Karp is not used to pack where there is a cap.
* `Balances`: `[]BalanceSucceeds`. With equal sizes every state is full and its parts are of one
  size, and merging keeps both. Without, a state is filled from the front, and is full or has at
  most one item in each part: merging opposite ends of two such states gives another, so that no
  part is empty in the end if there are more items than parts.

`Trajectory`. Every invariant its run checks is a theorem, for all tokenizations, thresholds and
context limits, and all turns whose prompts replay earlier answers between the same user
messages, each as it was or changed. A prompt that changes a user message starts another branch
in the code, and is not modelled.

* `TypeCorrect`: `[]TypeOK`; with it that walks to the root end and stay in the tree.
* `OnlyOnce`: `[]TrainedAtMostOnce`, from `OnceInv`: what a builder or a sample trains is
  claimed, and no two of them train the same turn; a leaf that meets a claimed turn appends it
  without training it.
* `InContext`: `[]TrainedInContext`, from `Carries`: where a mask trains a turn, the tokens up to
  there are the turn's prompt and output, and the output is trained as a whole. Appending with a
  clean prefix keeps it, and realigning too, because it cuts back to the start of the last
  response (`BuilderInv`) and masks what was cut; truncation keeps it because a response fits
  the context its prompt leaves (`FitsInv`).
* `Trainable`: `[]SamplesAreTrainable`, from `SampleInv`.
* `NothingDropped`: `[]NoResponseDropped`. `PendingInv`: a turn that was not absorbed is claimed,
  in the chain at hand, or on the way to a leaf still to come. `CarriedInv`: what is claimed is
  in a builder or a sample.

`RolloutBuffer`. Both properties its run checks are theorems, for any number of prompts, answers,
workers, retries and lost messages.

* `OneHome`: `[]ItemsHaveOneHome`. Every step either brings an item to one of the eight homes or
  moves items between two of them; the lemmas `Arrived` and `Moved` say what either does to the
  whole, and `ContentsInv` that an item in a group was posted and answers the group's prompt.
* `AnsweredBatches`: `BatchIsAnswered`, an action property. `FullInv`: a group handed out has at
  least N items, and one with exactly N has only answers with text. Two groups of one prompt
  joined in the results exceed N and are refused, so the fetched groups of a batch are complete.
  What is padded makes up the batch, so the rest of the property is that nothing is padded too
  early: if fewer groups are selected than asked for, all groups found are selected, each of N
  items, which is fewer than the loop waits for, and only used-up retries end it before
  (`SumAtMost`, `HighestRanked`).

Only model-checked: liveness under fairness (`EveryCallReturns`, `JobFinishes`, `HungIsNoticed`,
`EveryRolloutReturns`), which is out of the prover's reach, and the claims that are refuted. Of
`EveryCallReturns` only the part about the throttle is proved (`ThrottleLeavesABatch`).

## 6. Not modelled, and why

* Tensor numerics, losses, CUDA kernels and model code, NCCL transfers, reward functions and
  filters, argument parsing, sandboxes and tool servers, the trace viewer: most of the
  repository's lines. They keep no protocol state of the framework's own; where one of them
  decides something (a filter drops a group, an engine fails, a shutdown raises) it is a choice
  of the models. The models map a small share of all lines for this reason, and most of the
  lines of the parts they are about.
* `train.py` and the reload of weights from disk: sequences of blocking calls, no two of which
  overlap.
* `http_utils.py`: retries around one request. `RolloutBuffer` and the abort of `SyncRollout` model
  requests that fail; a generation request that raises after its retries, which ends the
  synchronous rollout with it, is not modelled.
* The windowed pipeline's thread: stopping it, and replacing one that died. Nothing in the
  modelled control ends it.
* The branch of `fully_async_rollout.py` without a window: it shares the worker; its collector
  keeps finished groups in a local dictionary and loses them between calls.
* Evaluation and streaming in the inference client, offloading, several server groups and
  engines of several nodes, shuffling of the data set, rewards and metadata of the rollout
  buffer, a second generator started by a repeated `start_rollout`.
* A request of an agent that is still answered when its session ends
  (`agent/adapters/common.py`): it would record a turn in a tree that is being linearised.

Next would be the branch without a window, which could share `GroupDelivery` and the worker's
actions, the straggler of a session, and `EngineHealth` with offloading.
