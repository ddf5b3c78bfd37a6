----------------------------- MODULE TrainAsync -----------------------------
(***************************************************************************)
(* The training driver train_async.py with what it drives: the             *)
(* RolloutManager actor of slime/ray/rollout.py, which serves its calls    *)
(* one at a time in the order they were submitted, the read cursor of      *)
(* slime/rollout/data_source.py, the weights of the actor, the critic and  *)
(* the rollout engines, and the checkpoints from which a killed job is     *)
(* started again.                                                          *)
(*                                                                         *)
(* Weights are named by the sequence of batches they have learned from; a  *)
(* batch is the RolloutBatchSize groups the rollout function reads from    *)
(* the data source in one call of generate.  release_train is off.         *)
(***************************************************************************)
EXTENDS Integers, Sequences, SequencesExt

CONSTANTS
    NumRollouts,            \* args.num_rollout
    UseCritic,              \* args.use_critic
    NumCriticOnlySteps,     \* args.num_critic_only_steps
    UpdateWeightsInterval,  \* args.update_weights_interval
    SaveInterval,           \* args.save_interval, 0 for None
    EvalInterval,           \* args.eval_interval, 0 for None
    NumRolloutPerEpoch,     \* num_rollout_per_epoch, 0 for None
    AsyncSave,              \* args.async_save
    MaxCrashes              \* bound: how often the job is killed

ASSUME TrainAssumption ==
    /\ NumRollouts \in Nat
    /\ UseCritic \in BOOLEAN
    /\ NumCriticOnlySteps \in Nat
    /\ UpdateWeightsInterval \in Nat \ {0}
    /\ SaveInterval \in Nat /\ EvalInterval \in Nat /\ NumRolloutPerEpoch \in Nat
    /\ AsyncSave \in BOOLEAN
    /\ MaxCrashes \in Nat

VARIABLES
    pc,               \* where train() is
    rollout_id,
    next_future,      \* rollout_data_next_future: the rollout it is for
    curr,             \* rollout_data_curr_ref
    calls,            \* calls submitted to the manager and not answered
    generating,       \* the batch the head call is being generated from
    results,          \* rollout -> what generate returned for it
    cursor,           \* the data source: batches read so far
    actor, critic,    \* their weights
    engine,           \* actor steps contained in the engines' weights
    checkpoint,       \* role -> the checkpoint its tracker file names
    saving,           \* role -> an asynchronous save that is not final
    state_dicts,      \* rollout -> the cursor in its dataset state file
    crashes

driverVars == <<pc, rollout_id, next_future, curr>>
managerVars == <<calls, generating, results, cursor>>
weightVars == <<actor, critic, engine>>
storeVars == <<checkpoint, saving, state_dicts>>
vars == <<driverVars, managerVars, weightVars, storeVars, crashes>>

None == -1
Roles == {"actor", "critic"}
\* The model whose checkpoint decides where a job starts
Tracked == IF UseCritic THEN "critic" ELSE "actor"
NoCheckpoint == [id |-> None, weights |-> <<>>]
NoBatch == [id |-> None, batch |-> None, began |-> None, ended |-> None]

ActorTrains == ~UseCritic \/ rollout_id >= NumCriticOnlySteps

\* should_run_periodic_action
Periodic(interval) ==
    /\ interval # 0
    /\ \/ (rollout_id + 1) % interval = 0
       \/ NumRolloutPerEpoch # 0 /\ (rollout_id + 1) % NumRolloutPerEpoch = 0
SaveDue == SaveInterval # 0 /\ (Periodic(SaveInterval) \/ rollout_id = NumRollouts - 1)

Submit(method, id) == calls' = Append(calls, [method |-> method, id |-> id])

Init ==
    /\ pc = "stopped"
    /\ rollout_id = None
    /\ next_future = None
    /\ curr = NoBatch
    /\ calls = <<>>
    /\ generating = NoBatch
    /\ results = [r \in {} |-> NoBatch]
    /\ cursor = 0
    /\ actor = <<>> /\ critic = <<>> /\ engine = 0
    /\ checkpoint = [role \in Roles |-> NoCheckpoint]
    /\ saving = [role \in Roles |-> NoCheckpoint]
    /\ state_dicts = [r \in {} |-> 0]
    /\ crashes = 0

(***************************************************************************)
(* Starting, and starting again                                            *)
(***************************************************************************)
\* Mutant: the script only looks whether the checkpoints exist.
Resumable_exists ==
    UseCritic => (checkpoint["actor"] = NoCheckpoint) = (checkpoint["critic"] = NoCheckpoint)

\* The launch script resumes from checkpoints of the same step, starts from
\* scratch when there is none, and refuses anything else.
Resumable == UseCritic => checkpoint["actor"].id = checkpoint["critic"].id

\* Mutant: the job starts at the rollout that was saved.
StartId_again == checkpoint[Tracked].id

\* args.start_rollout_id
StartId == checkpoint[Tracked].id + 1

\* RolloutDataSource.load keeps the initial cursor when the state of the last
\* rollout was never written.
LoadedCursor ==
    IF StartId - 1 \in DOMAIN state_dicts THEN state_dicts[StartId - 1] ELSE 0

\* Mutant: the engines keep the weights they were started with.
StartJob_nopush ==
    /\ pc = "stopped"
    /\ Resumable
    /\ pc' = "before"
    /\ rollout_id' = StartId
    /\ cursor' = LoadedCursor
    /\ actor' = checkpoint["actor"].weights
    /\ critic' = checkpoint["critic"].weights
    /\ engine' = 0
    /\ UNCHANGED <<next_future, curr, calls, generating, results, storeVars, crashes>>

\* create_rollout_manager, create_training_models (which loads the checkpoints
\* and the data source) and the first actor_model.update_weights.
StartJob ==
    /\ pc = "stopped"
    /\ Resumable
    /\ pc' = "before"
    /\ rollout_id' = StartId
    /\ cursor' = LoadedCursor
    /\ actor' = checkpoint["actor"].weights
    /\ critic' = checkpoint["critic"].weights
    /\ engine' = Len(checkpoint["actor"].weights)
    /\ UNCHANGED <<next_future, curr, calls, generating, results, storeVars, crashes>>

\* The job is killed: all that is not on disk is gone.
Crash ==
    /\ pc \notin {"stopped", "done"}
    /\ crashes < MaxCrashes
    /\ crashes' = crashes + 1
    /\ pc' = "stopped"
    /\ rollout_id' = None
    /\ next_future' = None
    /\ curr' = NoBatch
    /\ calls' = <<>>
    /\ generating' = NoBatch
    /\ results' = [r \in {} |-> NoBatch]
    /\ cursor' = 0
    /\ actor' = <<>> /\ critic' = <<>> /\ engine' = 0
    /\ saving' = [role \in Roles |-> NoCheckpoint]
    /\ UNCHANGED <<checkpoint, state_dicts>>

(***************************************************************************)
(* The RolloutManager actor                                                *)
(***************************************************************************)
Serving(method) == calls # <<>> /\ Head(calls).method = method

BeginGenerate ==
    /\ Serving("generate")
    /\ generating = NoBatch
    /\ generating' = [id |-> Head(calls).id, batch |-> cursor,
                      began |-> engine, ended |-> None]
    /\ cursor' = cursor + 1
    /\ UNCHANGED <<driverVars, calls, results, weightVars, storeVars, crashes>>

EndGenerate ==
    /\ generating # NoBatch
    /\ LET id == generating.id
       IN results' = [r \in DOMAIN results \cup {id} |->
                        IF r = id THEN [generating EXCEPT !.ended = engine] ELSE results[r]]
    /\ generating' = NoBatch
    /\ calls' = Tail(calls)
    /\ UNCHANGED <<driverVars, cursor, weightVars, storeVars, crashes>>

\* RolloutDataSource.save
ServeSave ==
    /\ Serving("save")
    /\ LET id == Head(calls).id
       IN state_dicts' = [r \in DOMAIN state_dicts \cup {id} |->
                            IF r = id THEN cursor ELSE state_dicts[r]]
    /\ calls' = Tail(calls)
    /\ UNCHANGED <<driverVars, generating, results, cursor, weightVars, checkpoint,
                   saving, crashes>>

ServeEval ==
    /\ Serving("eval")
    /\ calls' = Tail(calls)
    /\ UNCHANGED <<driverVars, generating, results, cursor, weightVars, storeVars, crashes>>

(***************************************************************************)
(* The driver: train()                                                     *)
(***************************************************************************)
\* The driver waits for the eval or save it submitted last.
Answered == calls = <<>>

EvalBeforeTraining ==
    /\ pc = "before"
    /\ EvalInterval # 0 /\ rollout_id = 0
    /\ Submit("eval", 0)
    /\ pc' = "eval_before"
    /\ UNCHANGED <<rollout_id, next_future, curr, generating, results, cursor,
                   weightVars, storeVars, crashes>>

\* Before the loop; also when there is nothing left to train.
RequestFirst ==
    /\ \/ pc = "before" /\ ~(EvalInterval # 0 /\ rollout_id = 0)
       \/ pc = "eval_before" /\ Answered
    /\ Submit("generate", rollout_id)
    /\ next_future' = rollout_id
    /\ pc' = "loop"
    /\ UNCHANGED <<rollout_id, curr, generating, results, cursor, weightVars,
                   storeVars, crashes>>

\* Mutant: without the "is not None" test the driver waits for what is not there.
SyncLast_unchecked ==
    /\ pc = "loop"
    /\ rollout_id < NumRollouts
    /\ next_future \in DOMAIN results
    /\ curr' = results[next_future]
    /\ pc' = "submit"
    /\ UNCHANGED <<rollout_id, next_future, managerVars, weightVars, storeVars, crashes>>

\* "Sync the last generation"
SyncLast ==
    /\ pc = "loop"
    /\ rollout_id < NumRollouts
    /\ next_future # None => next_future \in DOMAIN results
    /\ curr' = IF next_future # None THEN results[next_future] ELSE curr
    /\ pc' = "submit"
    /\ UNCHANGED <<rollout_id, next_future, managerVars, weightVars, storeVars, crashes>>

\* "Start the next rollout early"
StartNext ==
    /\ pc = "submit"
    /\ IF rollout_id + 1 < NumRollouts
         THEN Submit("generate", rollout_id + 1) /\ next_future' = rollout_id + 1
         ELSE UNCHANGED <<calls, next_future>>
    /\ pc' = IF UseCritic THEN "train_critic" ELSE "train_actor"
    /\ UNCHANGED <<rollout_id, curr, generating, results, cursor, weightVars,
                   storeVars, crashes>>

\* The critic's critic_update_ratio updates on the batch
TrainCritic ==
    /\ pc = "train_critic"
    /\ critic' = Append(critic, curr.batch)
    /\ pc' = IF ActorTrains THEN "train_actor" ELSE "save"
    /\ UNCHANGED <<rollout_id, next_future, curr, managerVars, actor, engine,
                   storeVars, crashes>>

TrainActor ==
    /\ pc = "train_actor"
    /\ actor' = Append(actor, curr.batch)
    /\ pc' = "save"
    /\ UNCHANGED <<rollout_id, next_future, curr, managerVars, critic, engine,
                   storeVars, crashes>>

\* MegatronTrainRayActor.save_model: an asynchronous save becomes final when
\* the next one begins, or at once when force_sync is set.
SaveModel(role, weights) ==
    LET latest == [id |-> rollout_id, weights |-> weights]
        final == ~AsyncSave \/ rollout_id = NumRollouts - 1
        previous == IF saving[role] = NoCheckpoint THEN checkpoint[role] ELSE saving[role]
    IN /\ checkpoint' = [checkpoint EXCEPT ![role] = IF final THEN latest ELSE previous]
       /\ saving' = [saving EXCEPT ![role] = IF final THEN NoCheckpoint ELSE latest]
       /\ UNCHANGED state_dicts

SaveActor ==
    /\ pc = "save"
    /\ SaveDue
    /\ IF ActorTrains THEN SaveModel("actor", actor) ELSE UNCHANGED storeVars
    /\ pc' = IF UseCritic THEN "save_critic" ELSE "save_data"
    /\ UNCHANGED <<rollout_id, next_future, curr, managerVars, weightVars, crashes>>

SaveCritic ==
    /\ pc = "save_critic"
    /\ SaveModel("critic", critic)
    /\ pc' = "save_data"
    /\ UNCHANGED <<rollout_id, next_future, curr, managerVars, weightVars, crashes>>

SaveDataSource ==
    /\ pc = "save_data"
    /\ Submit("save", rollout_id)
    /\ pc' = "saved"
    /\ UNCHANGED <<rollout_id, next_future, curr, generating, results, cursor,
                   weightVars, storeVars, crashes>>

Saved == (pc = "save" /\ ~SaveDue) \/ (pc = "saved" /\ Answered)
UpdateDue == ActorTrains /\ (rollout_id + 1) % UpdateWeightsInterval = 0

\* Mutant: the weights are pushed without waiting for the next rollout.
UpdateWeights_eager ==
    /\ Saved
    /\ UpdateDue
    /\ engine' = Len(actor)
    /\ pc' = "updated"
    /\ UNCHANGED <<rollout_id, next_future, curr, managerVars, actor, critic,
                   storeVars, crashes>>

\* Mutant: the rollout that was waited for is not kept.
UpdateWeights_drop ==
    /\ Saved
    /\ UpdateDue
    /\ next_future # None => next_future \in DOMAIN results
    /\ next_future' = None
    /\ engine' = Len(actor)
    /\ pc' = "updated"
    /\ UNCHANGED <<rollout_id, curr, managerVars, actor, critic, storeVars, crashes>>

\* "sync generate before update weights to prevent update weight in the middle
\* of generation"
UpdateWeights ==
    /\ Saved
    /\ UpdateDue
    /\ next_future # None => next_future \in DOMAIN results
    /\ curr' = IF next_future # None THEN results[next_future] ELSE NoBatch
    /\ next_future' = None
    /\ engine' = Len(actor)
    /\ pc' = "updated"
    /\ UNCHANGED <<rollout_id, managerVars, actor, critic, storeVars, crashes>>

Updated == (Saved /\ ~UpdateDue) \/ pc = "updated"

EvalRollout ==
    /\ Updated
    /\ Periodic(EvalInterval)
    /\ Submit("eval", rollout_id)
    /\ pc' = "eval"
    /\ UNCHANGED <<rollout_id, next_future, curr, generating, results, cursor,
                   weightVars, storeVars, crashes>>

NextRollout ==
    /\ \/ Updated /\ ~Periodic(EvalInterval)
       \/ pc = "eval" /\ Answered
    /\ rollout_id' = rollout_id + 1
    /\ pc' = "loop"
    /\ UNCHANGED <<next_future, curr, managerVars, weightVars, storeVars, crashes>>

\* rollout_manager.dispose is served after whatever is still queued.
Finish ==
    /\ pc = "loop"
    /\ rollout_id >= NumRollouts
    /\ Answered
    /\ pc' = "done"
    /\ UNCHANGED <<rollout_id, next_future, curr, managerVars, weightVars,
                   storeVars, crashes>>

(***************************************************************************)
(* The specification                                                       *)
(***************************************************************************)
Manager == BeginGenerate \/ EndGenerate \/ ServeSave \/ ServeEval
Driver == \/ EvalBeforeTraining \/ RequestFirst \/ SyncLast \/ StartNext
          \/ TrainCritic \/ TrainActor \/ SaveActor \/ SaveCritic
          \/ SaveDataSource \/ UpdateWeights \/ EvalRollout \/ NextRollout
          \/ Finish

Next == StartJob \/ Crash \/ Manager \/ Driver

Spec == Init /\ [][Next]_vars

\* The driver and the manager run; a killed job that can be resumed is resumed.
FairSpec == Spec /\ WF_vars(StartJob) /\ WF_vars(Manager) /\ WF_vars(Driver)

(***************************************************************************)
(* Type invariant                                                          *)
(***************************************************************************)
Ids == Nat \cup {None}
Calls == [method : {"generate", "save", "eval"}, id : Nat]
Batches == [id : Ids, batch : Ids, began : Ids, ended : Ids]
Weights == Seq(Ids)
Checkpoints == [id : Ids, weights : Weights]
DriverPhases == {"stopped", "before", "eval_before", "loop", "submit",
                 "train_critic", "train_actor", "save", "save_critic",
                 "save_data", "saved", "updated", "eval", "done"}

\* Every variable holds a value its Python counterpart can have.
TypeOK ==
    /\ pc \in DriverPhases
    /\ rollout_id \in IF pc = "stopped" THEN {None} ELSE Nat
    /\ next_future \in Ids
    /\ curr \in Batches
    /\ calls \in Seq(Calls)
    /\ generating \in Batches
    /\ DOMAIN results \subseteq Nat /\ results \in [DOMAIN results -> Batches]
    /\ cursor \in Nat
    /\ actor \in Weights /\ critic \in Weights /\ engine \in Nat
    /\ checkpoint \in [Roles -> Checkpoints] /\ saving \in [Roles -> Checkpoints]
    /\ DOMAIN state_dicts \subseteq Nat /\ state_dicts \in [DOMAIN state_dicts -> Nat]
    /\ crashes \in Nat

(***************************************************************************)
(* Safety                                                                  *)
(***************************************************************************)
\* The model that is trained in every rollout
Lineage == IF UseCritic THEN critic ELSE actor

\* "prevent update weight in the middle of generation": no batch is generated
\* partly by one version of the weights and partly by another.
UniformWeights ==
    /\ generating # NoBatch => generating.began = engine
    /\ \A r \in DOMAIN results : results[r].began = results[r].ended

\* Training in rollout r uses what generate(r) returned, although the driver
\* asked for generate(r + 1) before and may have collected it in rollout r - 1.
OwnBatch == pc \in {"train_critic", "train_actor"} => curr.id = rollout_id

\* One rollout early and no more: a batch is at most UpdateWeightsInterval
\* actor steps behind the actor that trains on it, also after a restart.
StalenessBound ==
    pc = "train_actor" => Len(actor) - curr.began <= UpdateWeightsInterval

\* The actor has learned from exactly what the critic has learned from, less
\* the critic-only steps: no restart pairs checkpoints of different rollouts.
ModelsInStep ==
    UseCritic /\ pc = "loop" =>
        actor = SubSeq(critic, NumCriticOnlySteps + 1, Len(critic))

\* A restart resumes at the rollout its checkpoint calls for: the weights have
\* been trained once for every rollout before rollout_id.
OncePerRollout == pc = "loop" => Len(Lineage) = rollout_id

\* In a job that is never killed, rollout r trains on the r-th batch, and the
\* driver leaves no batch behind that nobody trained on.
DataInOrder ==
    crashes = 0 =>
        /\ \A i \in DOMAIN Lineage : Lineage[i] = i - 1
        /\ pc = "done" => cursor = Len(Lineage)

(***************************************************************************)
(* Liveness                                                                *)
(***************************************************************************)
\* The driver and the manager never wait for each other: the job finishes,
\* unless it was killed between its two saves and the script refuses to resume.
JobFinishes == <>(pc = "done" \/ (pc = "stopped" /\ ~Resumable))
=============================================================================
