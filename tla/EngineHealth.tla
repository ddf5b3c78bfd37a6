---------------------------- MODULE EngineHealth ----------------------------
(***************************************************************************)
(* Fault tolerance of the rollout engines: the thread of                   *)
(* slime/utils/health_monitor.py, which checks the engines of one server   *)
(* group and kills by index; RolloutServer.recover and                     *)
(* ServerGroup.start_engines of slime/ray/rollout.py, which fill the slots *)
(* that are None; and the trainer's update_weights of                      *)
(* slime/backends/megatron_utils/actor.py, which recovers, connects to new *)
(* engines and pushes the weights.                                         *)
(*                                                                         *)
(* The monitor's thread and the calls of the RolloutManager share          *)
(* all_engines without a lock; pausing sets an event that the monitor      *)
(* tests only between two checks.  An engine is named by the order of its  *)
(* creation and has one node; rollout_offload is off.  The waits of the    *)
(* monitor are delays: only the tests around them are modelled.            *)
(***************************************************************************)
EXTENDS Integers, FiniteSets

CONSTANTS
    NumEngines,       \* slots of the server group
    NumRounds,        \* bound: weight updates of the job
    MaxFailures,      \* bound: engines that hang, and checks that time out
                      \* although the engine is well
    ShutdownMayFail   \* whether engine.shutdown may raise

ASSUME EngineAssumption ==
    /\ NumEngines \in Nat \ {0}
    /\ NumRounds \in Nat
    /\ MaxFailures \in Nat
    /\ ShutdownMayFail \in BOOLEAN

VARIABLES
    \* the server group
    all_engines,      \* slot -> the engine in it, or None
    num_new_engines,
    \* the engines themselves
    health,           \* engine -> "up", "hung" or "killed"
    weights,          \* engine -> the weight version it serves with
    home,             \* engine -> the slot whose GPUs it was started on
    \* RolloutHealthMonitor
    pause_event, stop_event,
    monitor,          \* where its thread is
    snapshot,         \* the list `engines` that this round goes through
    index,            \* rollout_engine_id
    \* the job: update_weights and what it calls
    pc,
    weight_version,
    dead,             \* dead_indices
    slot,             \* the loop variable of start_engines
    rollout_engines,  \* what get_updatable_engines_and_lock returned
    connected,        \* the weight updater's rollout_engines
    failures

groupVars == <<all_engines, num_new_engines>>
engineVars == <<health, weights, home>>
eventVars == <<pause_event, stop_event>>
threadVars == <<monitor, snapshot, index>>
jobVars == <<pc, weight_version, dead, slot, rollout_engines, connected>>
vars == <<groupVars, engineVars, eventVars, threadVars, jobVars, failures>>

None == -1
Slots == 0 .. NumEngines - 1
Engines == DOMAIN health
Live == { e \in Engines : health[e] # "killed" }
NewEngine == Cardinality(Engines)        \* the name of the next engine

\* start_rollout_servers has started an engine in every slot; the engines
\* serve the weights they were loaded with, version 0.
Init ==
    /\ all_engines = [s \in Slots |-> s]
    /\ num_new_engines = NumEngines
    /\ health = [e \in Slots |-> "up"]
    /\ weights = [e \in Slots |-> 0]
    /\ home = [e \in Slots |-> e]
    /\ pause_event = TRUE
    /\ stop_event = FALSE
    /\ monitor = "idle"
    /\ snapshot = [s \in Slots |-> None]
    /\ index = 0
    /\ pc = "update"
    /\ weight_version = 0
    /\ dead = {}
    /\ slot = 0
    /\ rollout_engines = [s \in Slots |-> None]
    /\ connected = [s \in Slots |-> None]
    /\ failures = 0

(***************************************************************************)
(* The engines                                                             *)
(***************************************************************************)
\* An engine hangs or crashes.
EngineHangs ==
    /\ failures < MaxFailures
    /\ failures' = failures + 1
    /\ \E e \in Engines :
          /\ health[e] = "up"
          /\ health' = [health EXCEPT ![e] = "hung"]
    /\ UNCHANGED <<groupVars, weights, home, eventVars, threadVars, jobVars>>

(***************************************************************************)
(* The health monitor                                                      *)
(***************************************************************************)
\* _health_monitor_loop enters _run_health_checks
StartRound ==
    /\ monitor = "idle"
    /\ ~pause_event /\ ~stop_event
    /\ monitor' = "round"
    /\ snapshot' = all_engines
    /\ index' = 0
    /\ UNCHANGED <<groupVars, engineVars, eventVars, jobVars, failures>>

MonitorStops ==
    /\ monitor = "idle"
    /\ stop_event
    /\ monitor' = "stopped"
    /\ UNCHANGED <<snapshot, index, groupVars, engineVars, eventVars, jobVars, failures>>

EndRound ==
    /\ monitor = "round"
    /\ index = NumEngines \/ pause_event \/ stop_event
    /\ monitor' = "idle"
    /\ UNCHANGED <<snapshot, index, groupVars, engineVars, eventVars, jobVars, failures>>

\* Mutant: an empty slot is skipped by the test and by the loop.
CheckEngine_skips ==
    /\ monitor = "round"
    /\ index < NumEngines /\ ~pause_event /\ ~stop_event
    /\ IF snapshot[index] = None
         THEN index' = index + 2 /\ UNCHANGED monitor
         ELSE monitor' = "checking" /\ UNCHANGED index
    /\ UNCHANGED <<snapshot, groupVars, engineVars, eventVars, jobVars, failures>>

\* _check_engine_health sends health_generate, unless the slot was empty
CheckEngine ==
    /\ monitor = "round"
    /\ index < NumEngines /\ ~pause_event /\ ~stop_event
    /\ IF snapshot[index] = None
         THEN index' = index + 1 /\ UNCHANGED monitor
         ELSE monitor' = "checking" /\ UNCHANGED index
    /\ UNCHANGED <<snapshot, groupVars, engineVars, eventVars, jobVars, failures>>

\* Mutant: an error of the request counts as an answer.
CheckPasses_any ==
    /\ monitor = "checking"
    /\ monitor' = "round"
    /\ index' = index + 1
    /\ UNCHANGED <<snapshot, groupVars, engineVars, eventVars, jobVars, failures>>

CheckPasses ==
    /\ monitor = "checking"
    /\ health[snapshot[index]] = "up"
    /\ monitor' = "round"
    /\ index' = index + 1
    /\ UNCHANGED <<snapshot, groupVars, engineVars, eventVars, jobVars, failures>>

\* The answer does not come in time; a busy engine may miss it, too.
CheckFails ==
    /\ monitor = "checking"
    /\ IF health[snapshot[index]] = "up"
         THEN failures < MaxFailures /\ failures' = failures + 1
         ELSE UNCHANGED failures
    /\ monitor' = "killing"
    /\ UNCHANGED <<snapshot, index, groupVars, engineVars, eventVars, jobVars>>

\* Mutant: the slot is given up and the engine left running.
KillEngine_forget ==
    /\ monitor = "killing"
    /\ monitor' = "clearing"
    /\ UNCHANGED <<snapshot, index, groupVars, engineVars, eventVars, jobVars, failures>>

\* _kill_engine: whatever is in the slot now is shut down and killed.  If
\* shutdown raises, ray.kill is skipped and the exception only logged.
KillEngine ==
    /\ monitor = "killing"
    /\ LET engine == all_engines[index]
       IN \/ /\ engine # None
             /\ health' = [health EXCEPT ![engine] = "killed"]
          \/ /\ engine = None \/ (ShutdownMayFail /\ health[engine] # "killed")
             /\ UNCHANGED health
    /\ monitor' = "clearing"
    /\ UNCHANGED <<weights, home, snapshot, index, groupVars, eventVars, jobVars, failures>>

\* self._server_group.all_engines[i] = None
ClearSlot ==
    /\ monitor = "clearing"
    /\ all_engines' = [all_engines EXCEPT ![index] = None]
    /\ monitor' = "round"
    /\ index' = index + 1
    /\ UNCHANGED <<num_new_engines, snapshot, engineVars, eventVars, jobVars, failures>>

(***************************************************************************)
(* The job: MegatronTrainRayActor.update_weights and its callers           *)
(***************************************************************************)
\* recover_updatable_engines pauses the monitor and, unless nothing has been
\* generated yet (rollout_id = -1), recovers.
BeginUpdate ==
    /\ pc = "update"
    /\ pause_event' = TRUE
    /\ pc' = IF weight_version = 0 THEN "fetch" ELSE "count"
    /\ UNCHANGED <<stop_event, weight_version, dead, slot, rollout_engines, connected,
                   groupVars, engineVars, threadVars, failures>>

\* Mutant: engines that hang are replaced as well.
Vacant_hung(s) == all_engines[s] = None \/ health[all_engines[s]] = "hung"

Vacant(s) == all_engines[s] = None

\* dead_per_group
CountDead ==
    /\ pc = "count"
    /\ dead' = { s \in Slots : Vacant(s) }
    /\ slot' = 0
    /\ num_new_engines' = 0
    /\ pc' = "start"
    /\ UNCHANGED <<weight_version, rollout_engines, connected, all_engines, engineVars,
                   eventVars, threadVars, failures>>

\* One turn of the loop of start_engines.  The code assigns num_new_engines
\* after the loop; nobody reads it before.
StartEngine ==
    /\ pc = "start"
    /\ slot < NumEngines
    /\ Vacant(slot)
    /\ all_engines' = [all_engines EXCEPT ![slot] = NewEngine]
    /\ health' = [e \in Engines \cup {NewEngine} |-> IF e = NewEngine THEN "up" ELSE health[e]]
    /\ weights' = [e \in Engines \cup {NewEngine} |-> IF e = NewEngine THEN 0 ELSE weights[e]]
    /\ home' = [e \in Engines \cup {NewEngine} |-> IF e = NewEngine THEN slot ELSE home[e]]
    /\ num_new_engines' = num_new_engines + 1
    /\ slot' = slot + 1
    /\ UNCHANGED <<pc, weight_version, dead, rollout_engines, connected, eventVars,
                   threadVars, failures>>

KeepEngine ==
    /\ pc = "start"
    /\ slot < NumEngines
    /\ ~Vacant(slot)
    /\ slot' = slot + 1
    /\ UNCHANGED <<pc, weight_version, dead, rollout_engines, connected, groupVars,
                   engineVars, eventVars, threadVars, failures>>

\* `assert g.num_new_engines == len(dead_indices)`
FinishRecover ==
    /\ pc = "start"
    /\ slot = NumEngines
    /\ pc' = IF num_new_engines = Cardinality(dead) THEN "fetch" ELSE "failed"
    /\ UNCHANGED <<weight_version, dead, slot, rollout_engines, connected, groupVars,
                   engineVars, eventVars, threadVars, failures>>

\* get_updatable_engines_and_lock
FetchEngines ==
    /\ pc = "fetch"
    /\ rollout_engines' = all_engines
    /\ pc' = IF num_new_engines > 0 THEN "connect" ELSE "push"
    /\ UNCHANGED <<weight_version, dead, slot, connected, groupVars, engineVars, eventVars,
                   threadVars, failures>>

\* Calls to the engines of a list return when all of them are there and well;
\* a None, a dead actor or a hung engine fails the update and with it the job.
Reachable(engines) ==
    \A s \in Slots : engines[s] # None /\ health[engines[s]] = "up"

\* connect_rollout_engines, then clear_updatable_num_new_engines
Connect ==
    /\ pc = "connect"
    /\ Reachable(rollout_engines)
    /\ connected' = rollout_engines
    /\ num_new_engines' = 0
    /\ pc' = "push"
    /\ UNCHANGED <<weight_version, dead, slot, rollout_engines, all_engines, engineVars,
                   eventVars, threadVars, failures>>

ConnectFails ==
    /\ pc = "connect"
    /\ ~Reachable(rollout_engines)
    /\ pc' = "failed"
    /\ UNCHANGED <<weight_version, dead, slot, rollout_engines, connected, groupVars,
                   engineVars, eventVars, threadVars, failures>>

\* weight_updater.update_weights: to the engines it is connected to
PushWeights ==
    /\ pc = "push"
    /\ Reachable(connected)
    /\ weight_version' = weight_version + 1
    /\ weights' = [e \in Engines |-> IF \E s \in Slots : connected[s] = e
                                       THEN weight_version + 1 ELSE weights[e]]
    /\ pc' = "updated"
    /\ UNCHANGED <<dead, slot, rollout_engines, connected, groupVars, health, home,
                   eventVars, threadVars, failures>>

PushFails ==
    /\ pc = "push"
    /\ ~Reachable(connected)
    /\ pc' = "failed"
    /\ UNCHANGED <<weight_version, dead, slot, rollout_engines, connected, groupVars,
                   engineVars, eventVars, threadVars, failures>>

\* generate and eval resume the monitor
Serve ==
    /\ pc = "updated"
    /\ pause_event' = FALSE
    /\ pc' = "serving"
    /\ UNCHANGED <<stop_event, weight_version, dead, slot, rollout_engines, connected,
                   groupVars, engineVars, threadVars, failures>>

\* The rollout is complete; after the last one the manager is disposed.
EndServing ==
    /\ pc = "serving"
    /\ pc' = IF weight_version < NumRounds THEN "update" ELSE "done"
    /\ IF weight_version < NumRounds
         THEN UNCHANGED eventVars
         ELSE stop_event' = TRUE /\ pause_event' = FALSE
    /\ UNCHANGED <<weight_version, dead, slot, rollout_engines, connected, groupVars,
                   engineVars, threadVars, failures>>

(***************************************************************************)
(* The specification                                                       *)
(***************************************************************************)
Monitor == \/ StartRound \/ MonitorStops \/ EndRound \/ CheckEngine \/ CheckPasses
           \/ CheckFails \/ KillEngine \/ ClearSlot
Update == \/ BeginUpdate \/ CountDead \/ StartEngine \/ KeepEngine \/ FinishRecover
          \/ FetchEngines \/ Connect \/ ConnectFails \/ PushWeights \/ PushFails
Job == Update \/ Serve \/ EndServing

Next == EngineHangs \/ Monitor \/ Job

Spec == Init /\ [][Next]_vars

\* A rollout whose requests all go to engines that answer is completed; a
\* request stays with a hung engine until the engine is killed and the client
\* tries another one.
RolloutCompletes == EndServing /\ \A e \in Live : health[e] # "hung"

\* Both threads run.
FairSpec == Spec /\ WF_vars(Monitor) /\ WF_vars(Update \/ Serve \/ RolloutCompletes)

(***************************************************************************)
(* Type invariant                                                          *)
(***************************************************************************)
EngineLists == [Slots -> Engines \cup {None}]
JobPhases == {"update", "count", "start", "fetch", "connect", "push", "updated",
              "serving", "done", "failed"}

\* Every variable holds a value its Python counterpart can have, and every
\* list names engines that were created.
TypeOK ==
    /\ IsFiniteSet(Engines) /\ Engines = 0 .. Cardinality(Engines) - 1
    /\ health \in [Engines -> {"up", "hung", "killed"}]
    /\ weights \in [Engines -> Nat] /\ home \in [Engines -> Slots]
    /\ all_engines \in EngineLists /\ snapshot \in EngineLists
    /\ rollout_engines \in EngineLists /\ connected \in EngineLists
    /\ num_new_engines \in Nat /\ weight_version \in Nat /\ failures \in Nat
    /\ pause_event \in BOOLEAN /\ stop_event \in BOOLEAN
    /\ monitor \in {"idle", "round", "checking", "killing", "clearing", "stopped"}
    /\ index \in 0 .. NumEngines /\ slot \in 0 .. NumEngines
    /\ dead \subseteq Slots
    /\ pc \in JobPhases

(***************************************************************************)
(* Properties                                                              *)
(***************************************************************************)
\* "slime restarts the server and updates it with the correct parameters before
\* it serves future rollout requests": while requests are served, no running
\* engine holds other weights than the last ones.
ServesCurrentWeights ==
    pc = "serving" => \A e \in Live : weights[e] = weight_version

\* A slot's GPUs carry one engine: the one before it was stopped, whoever
\* emptied and refilled the slot in between.
OneEnginePerSlot ==
    \A e, f \in Live : home[e] = home[f] => e = f

\* The monitor kills by index, a whole check after it read the engine; the
\* engine it kills is nevertheless the one that failed the check.
KillsWhatItChecked ==
    [][ \A e \in Engines :
           health[e] # "killed" /\ health'[e] = "killed" => e = snapshot[index] ]_vars

\* What recover asserts
DeadAreReplaced ==
    pc = "start" /\ slot = NumEngines => num_new_engines = Cardinality(dead)

\* A hung engine does not keep a rollout open for good: it is killed, unless
\* the job ends or fails before.
HungIsNoticed ==
    \A s \in Slots :
       (all_engines[s] # None /\ health[all_engines[s]] = "hung")
          ~> (all_engines[s] = None \/ pc \in {"done", "failed"})
=============================================================================
