---------------------------- MODULE WindowedFifo ----------------------------
(***************************************************************************)
(* The fully asynchronous rollout of slime/rollout/fully_async_rollout.py  *)
(* in windowed-FIFO mode: WindowedFIFOBuffer, AsyncRolloutWorker and the   *)
(* collector coroutine generate_rollout_async.                             *)
(*                                                                         *)
(* Two threads share the state.  The worker thread runs ONE asyncio loop   *)
(* on which the worker's loop, the inference tasks and the collector are   *)
(* coroutines: a coroutine keeps the loop until it awaits, so a task can   *)
(* finish and another coroutine can resume only when LoopFree holds.  The  *)
(* caller thread (the RolloutManager actor) writes current_step and        *)
(* current_rollout_id, submits the collector and blocks until it returns;  *)
(* its writes may fall anywhere inside a pass of the worker's loop.        *)
(*                                                                         *)
(* A group is named by its group_index; its entry_step is a function of    *)
(* that index which put_back preserves, so no variable carries it.         *)
(***************************************************************************)
EXTENDS Integers, FiniteSets, Sequences, SequencesExt

CONSTANTS
    RolloutBatchSize,   \* args.rollout_batch_size: batch and concurrency
    MaxDelayStep,       \* args.windowed_fifo_max_delay_step
    MaxPrefetchSteps,   \* args.windowed_fifo_max_prefetch_steps
    QueueSize,          \* maxsize of output_queue (1000 in the code)
    NSamples,           \* args.n_samples_per_prompt
    StartRollout,       \* args.start_rollout_id
    FirstGroup,         \* sample_group_index the data source starts from
    NumRollouts,        \* args.num_rollout
    MaxGroups,          \* bound: the data source is empty after this many
    MaxAborts,          \* bound: group results holding an ABORTED sample
    MaxFaults,          \* bound: tasks whose result is not a list of samples
    FaultKinds          \* which of {"raised", "fanout"} may happen

ASSUME ConstantsAssumption ==
    /\ RolloutBatchSize \in Nat \ {0}
    /\ MaxDelayStep \in Nat \ {0}
    /\ MaxPrefetchSteps \in Nat
    /\ QueueSize \in Nat \ {0}
    /\ NSamples \in Nat \ {0}
    /\ StartRollout \in Nat
    /\ NumRollouts \in Nat
    /\ MaxGroups \in Nat
    /\ FirstGroup \in 0 .. MaxGroups
    /\ MaxAborts \in Nat
    /\ MaxFaults \in Nat
    /\ FaultKinds \subseteq {"raised", "fanout"}

VARIABLES
    \* the data source and the WindowedFIFOBuffer
    sample_group_index,   \* next group the data source hands out
    pending,              \* WindowedFIFOBuffer._pending, head first
    current_step,         \* WindowedFIFOBuffer.current_step
    \* the Sample objects this component still references
    samples,              \* group -> sample -> [status, completed_step]
    \* AsyncRolloutWorker
    worker,               \* where continuous_worker_loop is
    current_rollout_id,
    pause_new_tasks,
    max_entry_step,       \* _max_entry_step
    active,               \* active_tasks with _inflight_registry: group -> task
    output_queue,
    pending_completed,    \* _pending_completed: entry_step -> completed groups
    \* the coroutine generate_rollout_async
    collector,            \* where it is
    processed_any,
    data,                 \* groups accepted for the batch
    \* the caller of generate_rollout_fully_async
    caller, call, next_rollout,
    \* history
    aborts,               \* number of aborted results so far
    delivered,            \* groups returned to training
    lost                  \* groups dropped with their task's exception

sourceVars == <<sample_group_index, pending>>
workerVars == <<worker, current_rollout_id, pause_new_tasks, max_entry_step>>
taskVars == <<active, output_queue>>
collectorVars == <<collector, processed_any, data, pending_completed>>
callerVars == <<caller, call, next_rollout, current_step>>
historyVars == <<aborts, delivered, lost>>
vars == <<sourceVars, samples, workerVars, taskVars, collectorVars,
          callerVars, historyVars>>

(***************************************************************************)
(* Groups, samples and staleness                                           *)
(***************************************************************************)
None == -1                                  \* Python's None for a step
Groups == 0 .. MaxGroups - 1
SampleIds == 1 .. NSamples

EntryStep(g) == g \div RolloutBatchSize     \* _compute_entry_step_for_group
EntrySteps == { EntryStep(g) : g \in Groups }

NewSample == [status |-> "pending", completed_step |-> None]
SampleStates == [status : {"pending", "completed", "aborted"},
                 completed_step : Nat \cup {None}]

AnyAborted(g) == \E s \in SampleIds : samples[g][s].status = "aborted"

\* Mutant: a group expires one step too late.
ExpiredStep_late(es) == current_step - es > MaxDelayStep

\* current_step - entry_step >= max_delay_step
ExpiredStep(es) == current_step - es >= MaxDelayStep
Expired(g) == ExpiredStep(EntryStep(g))

\* A record of samples without the groups of S (the code drops its last
\* reference to them)
Forget(S) == [g \in DOMAIN samples \ S |-> samples[g]]

(***************************************************************************)
(* The event loop                                                          *)
(***************************************************************************)
Suspended == {"off", "submitted", "asleep", "evaluating"}
LoopFree == worker = "sleep" /\ collector \in Suspended

Init ==
    /\ sample_group_index = FirstGroup
    /\ pending = <<>>
    /\ current_step = 0
    /\ samples = [g \in {} |-> [s \in SampleIds |-> NewSample]]
    /\ worker = "off"
    /\ current_rollout_id = None
    /\ pause_new_tasks = FALSE
    /\ max_entry_step = 0
    /\ active = [g \in {} |-> "running"]
    /\ output_queue = <<>>
    /\ pending_completed = [es \in EntrySteps |-> <<>>]
    /\ collector = "off"
    /\ processed_any = FALSE
    /\ data = <<>>
    /\ caller = "idle"
    /\ call = [kind |-> "generate", id |-> StartRollout]
    /\ next_rollout = StartRollout
    /\ aborts = 0
    /\ delivered = {}
    /\ lost = {}

(***************************************************************************)
(* The caller thread: generate_rollout_fully_async                         *)
(***************************************************************************)
\* The training loop asks for rollouts in order.  First write of the entry
\* point: the buffer's current_step.
StartGenerate ==
    /\ caller = "idle"
    /\ next_rollout < NumRollouts
    /\ caller' = "entered"
    /\ call' = [kind |-> "generate", id |-> next_rollout]
    /\ next_rollout' = next_rollout + 1
    /\ current_step' = next_rollout
    /\ UNCHANGED <<sourceVars, samples, workerVars, taskVars, collectorVars,
                   historyVars>>

\* train_async evaluates rollout r after it has asked for r + 1, the last
\* rollout after itself, and rollout 0 once before the first.
EvalIds == { r \in {next_rollout - 2, next_rollout - 1} : r >= StartRollout }
              \cup (IF next_rollout = 0 THEN {0} ELSE {})

StartEval ==
    /\ caller = "idle"
    /\ \E r \in EvalIds :
          /\ call' = [kind |-> "eval", id |-> r]
          /\ current_step' = r
    /\ caller' = "entered"
    /\ UNCHANGED <<next_rollout, sourceVars, samples, workerVars, taskVars,
                   collectorVars, historyVars>>

\* Mutant: a running worker keeps the rollout id it was created with.
EnterWorker_stale ==
    /\ caller = "entered"
    /\ caller' = "waiting"
    /\ current_rollout_id' = IF worker = "off" THEN call.id ELSE current_rollout_id
    /\ worker' = IF worker = "off" THEN "sleep" ELSE worker
    /\ collector' = IF call.kind = "eval" THEN "evaluating" ELSE "submitted"
    /\ UNCHANGED <<call, next_rollout, current_step, sourceVars, samples,
                   pause_new_tasks, max_entry_step, taskVars, processed_any,
                   data, pending_completed, historyVars>>

\* get_global_worker publishes the rollout id, creating and starting the
\* worker on the first call; run_coro submits the coroutine and blocks.
EnterWorker ==
    /\ caller = "entered"
    /\ caller' = "waiting"
    /\ current_rollout_id' = call.id
    /\ worker' = IF worker = "off" THEN "sleep" ELSE worker
    /\ collector' = IF call.kind = "eval" THEN "evaluating" ELSE "submitted"
    /\ UNCHANGED <<call, next_rollout, current_step, sourceVars, samples,
                   pause_new_tasks, max_entry_step, taskVars, processed_any,
                   data, pending_completed, historyVars>>

\* eval_rollout touches no state of the pipeline.
EvalReturns ==
    /\ collector = "evaluating"
    /\ LoopFree
    /\ collector' = "off"
    /\ caller' = "idle"
    /\ UNCHANGED <<call, next_rollout, current_step, sourceVars, samples,
                   workerVars, taskVars, processed_any, data,
                   pending_completed, historyVars>>

(***************************************************************************)
(* Inference tasks: generate_and_rm_group                                  *)
(***************************************************************************)
Running == { g \in DOMAIN active : active[g] = "running" }
Done == DOMAIN active \ Running
Faulty == { g \in DOMAIN active : active[g] \in {"raised", "fanout"} }

\* A sample that is already COMPLETED is returned as it is; the others are
\* generated (again) and come back completed or aborted by the engine.
TaskReturns ==
    /\ LoopFree
    /\ \E g \in Running, outcome \in [SampleIds -> {"completed", "aborted"}] :
         LET status == [s \in SampleIds |->
                          IF samples[g][s].status = "completed"
                            THEN "completed" ELSE outcome[s]]
             hit == IF \E s \in SampleIds : status[s] = "aborted" THEN 1 ELSE 0
         IN /\ aborts + hit <= MaxAborts
            /\ aborts' = aborts + hit
            /\ samples' = [samples EXCEPT ![g] =
                             [s \in SampleIds |->
                                [samples[g][s] EXCEPT !.status = status[s]]]]
            /\ active' = [active EXCEPT ![g] = "returned"]
    /\ UNCHANGED <<sourceVars, workerVars, output_queue, collectorVars,
                   callerVars, delivered, lost>>

\* The task ends with an exception, or its custom generate function fans out
\* and the group comes back as a list of lists of samples.
TaskFaults ==
    /\ LoopFree
    /\ Cardinality(lost \cup Faulty) < MaxFaults
    /\ \E g \in Running, kind \in FaultKinds :
         active' = [active EXCEPT ![g] = kind]
    /\ UNCHANGED <<sourceVars, samples, workerVars, output_queue,
                   collectorVars, callerVars, historyVars>>

(***************************************************************************)
(* The worker: one pass of continuous_worker_loop                          *)
(***************************************************************************)
WorkerWakes ==
    /\ LoopFree
    /\ worker' = "harvest"
    /\ UNCHANGED <<sourceVars, samples, current_rollout_id, pause_new_tasks,
                   max_entry_step, taskVars, collectorVars, callerVars,
                   historyVars>>

Retire(g) == active' = [h \in DOMAIN active \ {g} |-> active[h]]


\* Mutant: stamped with the rollout the result is expected to be used in.
Stamp_next(sample) ==
    IF sample.status # "aborted" /\ sample.completed_step = None
      THEN [sample EXCEPT !.completed_step = current_rollout_id + 1]
      ELSE sample

\* Phase 1: stamp the samples that finished and have no completed_step yet,
\* then put the group on the queue.  put blocks the thread, and the event loop
\* with it, while the queue is full.
Stamp(sample) ==
    IF sample.status # "aborted" /\ sample.completed_step = None
      THEN [sample EXCEPT !.completed_step = current_rollout_id]
      ELSE sample

HarvestReturned ==
    /\ worker = "harvest"
    /\ Len(output_queue) < QueueSize
    /\ \E g \in DOMAIN active :
          /\ active[g] = "returned"
          /\ Retire(g)
          /\ samples' = [samples EXCEPT ![g] =
                           [s \in SampleIds |-> Stamp(samples[g][s])]]
          /\ output_queue' = Append(output_queue, g)
    /\ UNCHANGED <<sourceVars, workerVars, collectorVars, callerVars,
                   historyVars>>

\* task.result() raises: the group is dropped and the pass goes on.
HarvestRaised ==
    /\ worker = "harvest"
    /\ \E g \in DOMAIN active :
          /\ active[g] = "raised"
          /\ Retire(g)
          /\ lost' = lost \cup {g}
          /\ samples' = Forget({g})
    /\ UNCHANGED <<sourceVars, workerVars, output_queue, collectorVars,
                   callerVars, aborts, delivered>>

\* The result holds lists: reading sample.status raises, the loop's own
\* except clause catches it, the group is dropped and the pass ends.
HarvestFanOut ==
    /\ worker = "harvest"
    /\ \E g \in DOMAIN active :
          /\ active[g] = "fanout"
          /\ Retire(g)
          /\ lost' = lost \cup {g}
          /\ samples' = Forget({g})
    /\ worker' = "sleep"
    /\ UNCHANGED <<sourceVars, current_rollout_id, pause_new_tasks,
                   max_entry_step, output_queue, collectorVars, callerVars,
                   aborts, delivered>>

EndHarvest ==
    /\ worker = "harvest"
    /\ Done = {}
    /\ worker' = "launch"
    /\ UNCHANGED <<sourceVars, samples, current_rollout_id, pause_new_tasks,
                   max_entry_step, taskVars, collectorVars, callerVars,
                   historyVars>>

\* Mutant: throttling as the comments put it, with > for >=.
Throttled_loose == max_entry_step - current_rollout_id > MaxPrefetchSteps

\* Phase 2: launch while there is room, no pause and no prefetch throttling.
Throttled == max_entry_step - current_rollout_id >= MaxPrefetchSteps
MayLaunch ==
    /\ Cardinality(DOMAIN active) < RolloutBatchSize
    /\ ~pause_new_tasks
    /\ ~Throttled

Dispatch(g) ==
    /\ active' = [h \in DOMAIN active \cup {g} |->
                    IF h = g THEN "running" ELSE active[h]]
    /\ max_entry_step' = EntryStep(g)

\* Mutant: the head of _pending is read and not popped.
LaunchPending_peek ==
    /\ worker = "launch"
    /\ MayLaunch
    /\ pending # <<>>
    /\ Dispatch(Head(pending))
    /\ UNCHANGED <<sourceVars, samples, worker, current_rollout_id,
                   pause_new_tasks, output_queue, collectorVars, callerVars,
                   historyVars>>

\* WindowedFIFOBuffer.get_samples(1): the head of _pending first ...
LaunchPending ==
    /\ worker = "launch"
    /\ MayLaunch
    /\ pending # <<>>
    /\ Dispatch(Head(pending))
    /\ pending' = Tail(pending)
    /\ UNCHANGED <<sample_group_index, samples, worker, current_rollout_id,
                   pause_new_tasks, output_queue, collectorVars, callerVars,
                   historyVars>>

\* Mutant: the data source hands the same group out again.
LaunchFresh_again ==
    /\ worker = "launch"
    /\ MayLaunch
    /\ pending = <<>>
    /\ sample_group_index < MaxGroups
    /\ LET g == sample_group_index
       IN /\ Dispatch(g)
          /\ samples' = [h \in DOMAIN samples \cup {g} |->
                           IF h = g THEN [s \in SampleIds |-> NewSample]
                                    ELSE samples[h]]
    /\ UNCHANGED <<sourceVars, worker, current_rollout_id, pause_new_tasks,
                   output_queue, collectorVars, callerVars, historyVars>>

\* ... and the data source when it is empty.
LaunchFresh ==
    /\ worker = "launch"
    /\ MayLaunch
    /\ pending = <<>>
    /\ sample_group_index < MaxGroups
    /\ LET g == sample_group_index
       IN /\ Dispatch(g)
          /\ samples' = [h \in DOMAIN samples \cup {g} |->
                           IF h = g THEN [s \in SampleIds |-> NewSample]
                                    ELSE samples[h]]
          /\ sample_group_index' = g + 1
    /\ UNCHANGED <<pending, worker, current_rollout_id, pause_new_tasks,
                   output_queue, collectorVars, callerVars, historyVars>>

EndLaunch ==
    /\ worker = "launch"
    /\ MayLaunch => pending = <<>> /\ sample_group_index >= MaxGroups
    /\ worker' = "sleep"
    /\ UNCHANGED <<sourceVars, samples, current_rollout_id, pause_new_tasks,
                   max_entry_step, taskVars, collectorVars, callerVars,
                   historyVars>>

(***************************************************************************)
(* The collector: generate_rollout_async                                   *)
(***************************************************************************)
\* The test of `while len(data) < target_data_size`
AtLoopTest == collector = "while" \/ (collector \in {"submitted", "asleep"} /\ LoopFree)

BeginIteration ==
    /\ AtLoopTest
    /\ Len(data) < RolloutBatchSize
    /\ collector' = "drain"
    /\ processed_any' = FALSE
    /\ UNCHANGED <<sourceVars, samples, workerVars, taskVars, data,
                   pending_completed, callerVars, historyVars>>

\* drain_output_queue, one queued group at a time: an aborted group goes back
\* to the head of the FIFO (put_back) ...
DrainAborted ==
    /\ collector = "drain"
    /\ output_queue # <<>>
    /\ AnyAborted(Head(output_queue))
    /\ pending' = <<Head(output_queue)>> \o pending
    /\ output_queue' = Tail(output_queue)
    /\ UNCHANGED <<sample_group_index, samples, workerVars, active,
                   collectorVars, callerVars, historyVars>>

\* ... a complete one to the cache that survives between calls.
DrainCompleted ==
    /\ collector = "drain"
    /\ output_queue # <<>>
    /\ ~AnyAborted(Head(output_queue))
    /\ LET g == Head(output_queue)
       IN pending_completed' = [pending_completed EXCEPT ![EntryStep(g)] =
                                  Append(pending_completed[EntryStep(g)], g)]
    /\ output_queue' = Tail(output_queue)
    /\ UNCHANGED <<sourceVars, samples, workerVars, active, collector,
                   processed_any, data, callerVars, historyVars>>

Completed == { g \in Groups :
                 \E i \in DOMAIN pending_completed[EntryStep(g)] :
                    pending_completed[EntryStep(g)][i] = g }
ExpiredInFlight == { g \in DOMAIN active : Expired(g) }
ExpiredCount == Cardinality({ g \in Completed : Expired(g) })
                  + Cardinality(ExpiredInFlight)

\* Choose between no expired group, Case 1 (m <= n) and Case 2 (m > n).
Classify ==
    /\ collector = "drain"
    /\ output_queue = <<>>
    /\ collector' = IF ExpiredCount = 0 THEN "take_all"
                    ELSE IF ExpiredCount <= RolloutBatchSize THEN "case1"
                    ELSE "case2"
    /\ pause_new_tasks' = (pause_new_tasks \/ ExpiredCount > RolloutBatchSize)
    /\ UNCHANGED <<sourceVars, samples, worker, current_rollout_id,
                   max_entry_step, taskVars, processed_any, data,
                   pending_completed, callerVars, historyVars>>

\* The entry steps the current `for es in ...` loop goes through
Offered(es) ==
    /\ pending_completed[es] # <<>>
    /\ CASE collector \in {"case1", "case2"} -> ExpiredStep(es)
         [] collector = "fill" -> ~ExpiredStep(es)
         [] OTHER -> TRUE

Taking == collector \in {"take_all", "case1", "fill", "case2"}
LoopOver == Len(data) >= RolloutBatchSize \/ \A es \in EntrySteps : ~Offered(es)

\* Mutant: the entry steps are gone through from the latest to the earliest.
AcceptGroup_latest ==
    /\ Taking
    /\ Len(data) < RolloutBatchSize
    /\ \E es \in EntrySteps :
          /\ Offered(es)
          /\ \A other \in EntrySteps : Offered(other) => es >= other
          /\ data' = Append(data, Head(pending_completed[es]))
          /\ pending_completed' = [pending_completed EXCEPT ![es] = Tail(@)]
    /\ processed_any' = TRUE
    /\ UNCHANGED <<sourceVars, samples, workerVars, taskVars, collector,
                   callerVars, historyVars>>

\* _accept_group on the first group of the least entry step of the loop.  No
\* group in _pending_completed is aborted (AcceptedAreComplete), so the branch
\* of _accept_group that puts a group back is never taken.
AcceptGroup ==
    /\ Taking
    /\ Len(data) < RolloutBatchSize
    /\ \E es \in EntrySteps :
          /\ Offered(es)
          /\ \A earlier \in EntrySteps : Offered(earlier) => es <= earlier
          /\ data' = Append(data, Head(pending_completed[es]))
          /\ pending_completed' = [pending_completed EXCEPT ![es] = Tail(@)]
    /\ processed_any' = TRUE
    /\ UNCHANGED <<sourceVars, samples, workerVars, taskVars, collector,
                   callerVars, historyVars>>

\* Mutant: wait only as long as nothing has been collected.
MustWait_first == ExpiredInFlight # {} /\ data = <<>>

\* Both cases sleep and start over while an expired group is in flight.
MustWait == ExpiredInFlight # {} /\ Len(data) < RolloutBatchSize

WaitForExpired ==
    /\ collector \in {"case1", "case2"}
    /\ LoopOver
    /\ MustWait
    /\ collector' = "asleep"
    /\ UNCHANGED <<sourceVars, samples, workerVars, taskVars, processed_any,
                   data, pending_completed, callerVars, historyVars>>

\* Case 1: every expired group is in; fill up with the others.
FillWithFresh ==
    /\ collector = "case1"
    /\ LoopOver
    /\ ~MustWait
    /\ collector' = "fill"
    /\ UNCHANGED <<sourceVars, samples, workerVars, taskVars, processed_any,
                   data, pending_completed, callerVars, historyVars>>

\* Case 2: the batch is full of expired groups; launching may resume.
RestoreInference ==
    /\ collector = "case2"
    /\ LoopOver
    /\ ~MustWait
    /\ pause_new_tasks' = FALSE
    /\ collector' = "iterated"
    /\ UNCHANGED <<sourceVars, samples, worker, current_rollout_id,
                   max_entry_step, taskVars, processed_any, data,
                   pending_completed, callerVars, historyVars>>

EndTaking ==
    /\ collector \in {"take_all", "fill"}
    /\ LoopOver
    /\ collector' = "iterated"
    /\ UNCHANGED <<sourceVars, samples, workerVars, taskVars, processed_any,
                   data, pending_completed, callerVars, historyVars>>

\* `if not processed_any: await asyncio.sleep(0.01)`
EndIteration ==
    /\ collector = "iterated"
    /\ collector' = IF processed_any THEN "while" ELSE "asleep"
    /\ UNCHANGED <<sourceVars, samples, workerVars, taskVars, processed_any,
                   data, pending_completed, callerVars, historyVars>>

\* After the loop: advance_step, then get_expired_groups takes the groups
\* that expire at the new step out of _pending and put_back inserts them one
\* by one at the head, so they end up in front and in reverse order.
ExpiresNext(g) == current_step + 1 - EntryStep(g) >= MaxDelayStep
Requeued(i, j) ==       \* position i of pending comes before position j
    IF ExpiresNext(pending[i])
      THEN ExpiresNext(pending[j]) => j < i
      ELSE ~ExpiresNext(pending[j]) /\ i < j

\* Mutant: the batch is not reset when it is handed over.
Return_keeps ==
    /\ AtLoopTest
    /\ Len(data) >= RolloutBatchSize
    /\ current_step' = current_step + 1
    /\ delivered' = delivered \cup ToSet(data)
    /\ collector' = "off"
    /\ caller' = "idle"
    /\ UNCHANGED <<sourceVars, samples, workerVars, taskVars, processed_any,
                   data, pending_completed, call, next_rollout, aborts, lost>>

Return ==
    /\ AtLoopTest
    /\ Len(data) >= RolloutBatchSize
    /\ current_step' = current_step + 1
    /\ \E p \in Bijection(DOMAIN pending, DOMAIN pending) :
          /\ \A i, j \in DOMAIN pending : i < j => Requeued(p[i], p[j])
          /\ pending' = [i \in DOMAIN pending |-> pending[p[i]]]
    /\ delivered' = delivered \cup ToSet(data)
    /\ samples' = Forget(ToSet(data))
    /\ data' = <<>>
    /\ collector' = "off"
    /\ caller' = "idle"
    /\ UNCHANGED <<sample_group_index, workerVars, taskVars, processed_any,
                   pending_completed, call, next_rollout, aborts, lost>>

(***************************************************************************)
(* The specification                                                       *)
(***************************************************************************)
CallerStep == StartGenerate \/ StartEval \/ EnterWorker \/ EvalReturns
TaskStep == TaskReturns \/ TaskFaults
WorkerPass == \/ HarvestReturned \/ HarvestRaised \/ HarvestFanOut
              \/ EndHarvest \/ LaunchPending \/ LaunchFresh \/ EndLaunch
CollectorResumes == BeginIteration \/ Return
CollectorRuns == \/ DrainAborted \/ DrainCompleted \/ Classify \/ AcceptGroup
                 \/ WaitForExpired \/ FillWithFresh \/ RestoreInference
                 \/ EndTaking \/ EndIteration

Next == \/ CallerStep \/ TaskStep \/ WorkerWakes \/ WorkerPass
        \/ CollectorResumes \/ CollectorRuns

Spec == Init /\ [][Next]_vars

\* The caller thread finishes what it entered; a coroutine that holds the loop
\* goes on; and, as the loop's ready queue is FIFO, a coroutine whose await is
\* over is resumed although the loop is taken again and again.  An inference
\* request ends (the engine answers, aborts or the HTTP client gives up).
\* Nothing makes the trainer ask for another rollout.
Fairness ==
    /\ WF_vars(EnterWorker)
    /\ WF_vars(WorkerPass)
    /\ WF_vars(CollectorRuns)
    /\ SF_vars(EvalReturns)
    /\ SF_vars(WorkerWakes)
    /\ SF_vars(CollectorResumes)
    /\ SF_vars(TaskStep)

FairSpec == Spec /\ Fairness

(***************************************************************************)
(* Type invariant                                                          *)
(***************************************************************************)
WorkerPhases == {"off", "sleep", "harvest", "launch"}
CollectorPhases == Suspended \cup {"while", "drain", "take_all", "case1",
                                   "fill", "case2", "iterated"}
TaskStates == {"running", "returned", "raised", "fanout"}

\* Every variable holds a value its Python counterpart can have, and only
\* groups the data source has handed out have samples.
TypeOK ==
    /\ sample_group_index \in FirstGroup .. MaxGroups
    /\ pending \in Seq(Groups)
    /\ current_step \in Nat
    /\ DOMAIN samples \subseteq 0 .. sample_group_index - 1
    /\ samples \in [DOMAIN samples -> [SampleIds -> SampleStates]]
    /\ worker \in WorkerPhases
    /\ current_rollout_id \in Nat \cup {None}
    /\ pause_new_tasks \in BOOLEAN
    /\ max_entry_step \in EntrySteps \cup {0}
    /\ DOMAIN active \subseteq Groups
    /\ active \in [DOMAIN active -> TaskStates]
    /\ output_queue \in Seq(Groups)
    /\ pending_completed \in [EntrySteps -> Seq(Groups)]
    /\ collector \in CollectorPhases
    /\ processed_any \in BOOLEAN
    /\ data \in Seq(Groups)
    /\ caller \in {"idle", "entered", "waiting"}
    /\ call \in [kind : {"generate", "eval"}, id : Nat]
    /\ next_rollout \in Nat
    /\ aborts \in Nat
    /\ delivered \subseteq Groups
    /\ lost \subseteq Groups

(***************************************************************************)
(* Safety                                                                  *)
(***************************************************************************)
Cached == UNION { ToSet(pending_completed[es]) : es \in EntrySteps }

\* Every place that holds groups holds each of them once ...
NoDuplicates ==
    /\ IsInjective(pending)
    /\ IsInjective(output_queue)
    /\ IsInjective(data)
    /\ \A es \in EntrySteps : IsInjective(pending_completed[es])

\* ... a completed group is filed under its own entry_step ...
Filed == \A es \in EntrySteps : \A g \in ToSet(pending_completed[es]) : EntryStep(g) = es

\* ... no two places share a group ...
Disjoint ==
    /\ ToSet(pending) \cap DOMAIN active = {}
    /\ ToSet(pending) \cap ToSet(output_queue) = {}
    /\ ToSet(pending) \cap Cached = {}
    /\ ToSet(pending) \cap ToSet(data) = {}
    /\ DOMAIN active \cap ToSet(output_queue) = {}
    /\ DOMAIN active \cap Cached = {}
    /\ DOMAIN active \cap ToSet(data) = {}
    /\ ToSet(output_queue) \cap Cached = {}
    /\ ToSet(output_queue) \cap ToSet(data) = {}
    /\ Cached \cap ToSet(data) = {}

\* ... and every group the data source handed out is in one of them, was
\* returned to training, or went down with its task.
Accounted ==
    /\ DOMAIN samples = ToSet(pending) \cup DOMAIN active
                           \cup ToSet(output_queue) \cup Cached \cup ToSet(data)
    /\ FirstGroup .. sample_group_index - 1 = DOMAIN samples \cup delivered \cup lost
    /\ DOMAIN samples \cap (delivered \cup lost) = {}
    /\ delivered \cap lost = {}

\* A group is never trained on twice, never in two places, and never lost
\* except with a task that raised: through abort, put_back, the queue, the
\* cache and the batch it stays one group in one place.
OneHome == NoDuplicates /\ Filed /\ Disjoint /\ Accounted

\* The newest rollout id a call has carried
NewestRollout == IF next_rollout = StartRollout THEN StartRollout ELSE next_rollout - 1

\* What training may be given: no group of the cache or of the batch has an
\* aborted sample, and each of its samples carries the completed_step that
\* _accept_group asserts, no later than the rollout that uses it (off_step is
\* not negative), although an eval call moves current_rollout_id back.
AcceptedAreComplete ==
    \A g \in Cached \cup ToSet(data) : \A s \in SampleIds :
       /\ samples[g][s].status = "completed"
       /\ samples[g][s].completed_step \in 0 .. NewestRollout

\* A group that is not expired enters the batch only when no expired group is
\* cached or in flight ("Must include all m expired groups").
ExpiredGoFirst ==
    [][ \A i \in DOMAIN data' \ DOMAIN data :
           ~Expired(data'[i]) => /\ ExpiredInFlight = {}
                                 /\ \A g \in Cached : ~Expired(g) ]_vars

\* "Completed groups are consumed in ascending entry_step order": what enters
\* the batch is never younger than a group left in the cache.
EarliestFirst ==
    [][ \A i \in DOMAIN data' \ DOMAIN data :
           \A g \in Cached : EntryStep(data'[i]) <= EntryStep(g) ]_vars

\* Prefetch throttling, when nothing is aborted: the data source is never read
\* beyond the first group that lies MaxPrefetchSteps ahead of training.
PrefetchBound ==
    sample_group_index <= RolloutBatchSize * (NewestRollout + MaxPrefetchSteps) + 1

\* The delay window, when nothing is aborted or lost: a group is used at most
\* MaxDelayStep steps after its entry_step.
DelayBound ==
    \A g \in ToSet(data) : call.id - EntryStep(g) <= MaxDelayStep

\* Off-policyness, when nothing is aborted or lost: a result is used at most
\* MaxDelayStep + MaxPrefetchSteps rollouts after the one it is stamped with,
\* although an eval call moves current_rollout_id back.
OffPolicyBound ==
    \A g \in ToSet(data) : \A s \in SampleIds :
       call.id - samples[g][s].completed_step <= MaxDelayStep + MaxPrefetchSteps

\* The worker never waits in output_queue.put: the only coroutine that drains
\* the queue runs on the loop that put would block.
NeverBlocked ==
    worker = "harvest" /\ Len(output_queue) >= QueueSize =>
        \A g \in DOMAIN active : active[g] # "returned"

(***************************************************************************)
(* Refinement: training sees GroupDelivery                                 *)
(***************************************************************************)
\* The rollouts whose call has returned
Returned ==
    next_rollout - StartRollout
       - (IF caller # "idle" /\ call.kind = "generate" THEN 1 ELSE 0)

Delivery == INSTANCE GroupDelivery
    WITH BatchSize <- RolloutBatchSize, First <- FirstGroup, Limit <- MaxGroups,
         fetched <- sample_group_index, batches <- Returned

\* The pipeline implements GroupDelivery: whatever is aborted, requeued, cached
\* or prefetched, each call returns RolloutBatchSize groups never returned
\* before, and no group disappears but with its task.
ImplementsDelivery == Delivery!Spec

(***************************************************************************)
(* Liveness                                                                *)
(***************************************************************************)
\* A call that is short of groups while nothing is in flight or on the queue
Short ==
    /\ caller = "waiting" /\ call.kind = "generate"
    /\ DOMAIN active = {} /\ output_queue = <<>>
    /\ Len(data) + Cardinality(Cached) < RolloutBatchSize

\* More than a window of groups is out of reach: aborted and put back, gone with
\* their tasks, or fetched by the job that this one resumes.
WindowHeldBack ==
    Cardinality(ToSet(pending) \cup lost) + (FirstGroup - RolloutBatchSize * StartRollout)
        > RolloutBatchSize * (MaxPrefetchSteps - 1) + 1

\* Nothing will be launched for a call that is short: Case 2's pause was left on,
\* or the throttle is closed over a window of groups out of reach.
Starved == Short /\ (pause_new_tasks \/ (Throttled /\ WindowHeldBack))

\* A call of generate_rollout_fully_async returns its batch, whatever is aborted,
\* requeued, expired or lost, unless it is starved for good (fully_async_rollout.py,
\* the loop test of generate_rollout_async against phase 2 of the worker).
EveryCallReturns == []<>~Starved => ((caller = "waiting") ~> (caller = "idle"))
=============================================================================
