------------------------- MODULE EngineHealthProofs -------------------------
(***************************************************************************)
(* Proofs about EngineHealth, for any number of engines, weight updates    *)
(* and failures: types, that the monitor kills what it checked, and, if    *)
(* engine.shutdown does not raise, that no slot's GPUs carry two engines   *)
(* and no engine serves old weights.                                       *)
(***************************************************************************)
EXTENDS EngineHealth, FiniteSetTheorems, TLAPS

\* The monitor works on a slot of the group.
InRange == monitor \in {"checking", "killing", "clearing"} => index \in Slots

\* Only the monitor empties a slot, and it empties only slots behind it: the
\* engines its round has still to go through are where it saw them.
InSnapshot ==
    /\ monitor \in {"round", "checking", "killing", "clearing"} =>
          \A s \in Slots : s >= index /\ snapshot[s] # None => all_engines[s] = snapshot[s]
    /\ monitor \in {"checking", "killing", "clearing"} => snapshot[index] # None

\* An engine that runs is in the slot it was started for.
Placed ==
    /\ \A s \in Slots : all_engines[s] # None => home[all_engines[s]] = s
    /\ \A e \in Live : all_engines[home[e]] = e

\* What is about to be cleared was killed.
KilledFirst == monitor = "clearing" => health[all_engines[index]] = "killed"

\* Every engine of the group is one of the list, in its slot.
In(engines) == \A s \in Slots : all_engines[s] # None => engines[s] = all_engines[s]

\* The weight updater is connected to every engine of the group, unless the
\* first update or new engines make it connect.
Attached ==
    /\ \/ pc \in {"count", "push", "updated", "serving"}
       \/ pc = "update" /\ weight_version > 0
       \/ pc \in {"start", "fetch"} /\ num_new_engines = 0
       => In(connected)
    /\ pc = "connect" => In(rollout_engines)
    /\ pc \in {"updated", "serving"} => weight_version > 0
    /\ pc = "update" /\ weight_version = 0 => num_new_engines = NumEngines

Updated == pc \in {"updated", "serving"} => \A e \in Live : weights[e] = weight_version

TypeInv == TypeOK /\ InRange
Inv == TypeInv /\ InSnapshot
StopInv == ~ShutdownMayFail /\ Inv /\ KilledFirst /\ Placed /\ Attached /\ Updated

(***************************************************************************)
(* Types                                                                   *)
(***************************************************************************)
\* The next engine has a new name.
LEMMA NewEngineIsNew ==
    ASSUME TypeOK
    PROVE  /\ NewEngine \in Nat /\ NewEngine \notin Engines
           /\ Engines \subseteq Nat /\ None \notin Engines
           /\ Engines \cup {NewEngine} = 0 .. NewEngine
           /\ IsFiniteSet(Engines \cup {NewEngine})
           /\ Cardinality(Engines \cup {NewEngine}) = NewEngine + 1
<1>1. IsFiniteSet(Engines) /\ Engines = 0 .. NewEngine - 1
  BY DEF TypeOK, NewEngine
<1>2. NewEngine \in Nat
  BY <1>1, FS_CardinalityType DEF NewEngine
<1>3. NewEngine \notin Engines /\ Engines \subseteq Nat /\ None \notin Engines
  BY <1>1, <1>2 DEF None
<1>4. Engines \cup {NewEngine} = 0 .. NewEngine
  BY <1>1, <1>2
<1>5. IsFiniteSet(Engines \cup {NewEngine})
      /\ Cardinality(Engines \cup {NewEngine}) = NewEngine + 1
  BY <1>1, <1>3, FS_AddElement DEF NewEngine
<1>6. QED
  BY <1>2, <1>3, <1>4, <1>5

\* The job begins with values of the right types.
LEMMA TypesAtInit == Init => TypeInv
<1> SUFFICES ASSUME Init PROVE TypeInv
  OBVIOUS
<1>1. NumEngines \in Nat \ {0}
  BY EngineAssumption
<1>2. Engines = 0 .. NumEngines - 1
  BY DEF Init, Engines, Slots
<1>3. IsFiniteSet(Engines) /\ Cardinality(Engines) = NumEngines
  BY <1>1, <1>2, FS_Interval
<1>4. Slots = 0 .. NumEngines - 1 /\ Engines = Slots
  BY <1>2 DEF Slots
<1>5. /\ health \in [Engines -> {"up", "hung", "killed"}]
      /\ weights \in [Engines -> Nat] /\ home \in [Engines -> Slots]
      /\ all_engines \in EngineLists /\ snapshot \in EngineLists
      /\ rollout_engines \in EngineLists /\ connected \in EngineLists
  BY <1>4 DEF Init, EngineLists
<1>6. /\ index \in 0 .. NumEngines /\ slot \in 0 .. NumEngines
      /\ num_new_engines \in Nat /\ weight_version \in Nat /\ failures \in Nat
  BY <1>1 DEF Init
<1>7. QED
  BY <1>2, <1>3, <1>5, <1>6 DEF Init, TypeInv, InRange, TypeOK, JobPhases

\* A step that creates no engine keeps the set of engines.
LEMMA SameEngines ==
    ASSUME TypeOK, DOMAIN health' = DOMAIN health
    PROVE  /\ Engines' = Engines /\ EngineLists' = EngineLists
           /\ IsFiniteSet(Engines') /\ Engines' = 0 .. Cardinality(Engines') - 1
BY DEF Engines, EngineLists, TypeOK

\* Every step of the system keeps the types.
LEMMA TypesKept == TypeInv /\ [Next]_vars => TypeOK'
<1> SUFFICES ASSUME TypeOK, InRange, [Next]_vars PROVE TypeOK'
  BY DEF TypeInv
<1>0. NumEngines \in Nat \ {0} /\ None \notin Engines
  BY EngineAssumption, NewEngineIsNew
<1>1. CASE EngineHangs
  <2>1. DOMAIN health' = DOMAIN health
    BY <1>1 DEF EngineHangs, TypeOK
  <2>2. QED
    BY <1>0, <1>1, <2>1, SameEngines
    DEF EngineHangs, TypeOK, groupVars, eventVars, threadVars, jobVars
<1>2. CASE StartRound \/ MonitorStops \/ EndRound \/ CheckEngine \/ CheckPasses \/ CheckFails
  <2>1. UNCHANGED <<groupVars, engineVars, eventVars, jobVars>>
    BY <1>2 DEF StartRound, MonitorStops, EndRound, CheckEngine, CheckPasses, CheckFails
  <2>2. snapshot' \in EngineLists /\ index' \in 0 .. NumEngines /\ failures' \in Nat
    BY <1>0, <1>2 DEF StartRound, MonitorStops, EndRound, CheckEngine, CheckPasses,
                      CheckFails, TypeOK, InRange, Slots
  <2>3. monitor' \in {"idle", "round", "checking", "killing", "clearing", "stopped"}
    BY <1>2 DEF StartRound, MonitorStops, EndRound, CheckEngine, CheckPasses, CheckFails,
                TypeOK
  <2>4. QED
    BY <2>1, <2>2, <2>3, SameEngines
    DEF TypeOK, groupVars, engineVars, eventVars, jobVars
<1>3. CASE KillEngine
  <2>1. DOMAIN health' = DOMAIN health
    BY <1>3 DEF KillEngine, TypeOK
  <2>2. health' \in [Engines -> {"up", "hung", "killed"}]
    BY <1>3 DEF KillEngine, TypeOK
  <2>3. QED
    BY <1>0, <1>3, <2>1, <2>2, SameEngines
    DEF KillEngine, TypeOK, groupVars, eventVars, jobVars
<1>4. CASE ClearSlot
  <2>1. DOMAIN health' = DOMAIN health
    BY <1>4 DEF ClearSlot, engineVars
  <2>2. all_engines' \in EngineLists
    BY <1>4 DEF ClearSlot, TypeOK, EngineLists
  <2>3. index' \in 0 .. NumEngines
    BY <1>0, <1>4 DEF ClearSlot, TypeOK, InRange, Slots
  <2>4. QED
    BY <1>4, <2>1, <2>2, <2>3, SameEngines
    DEF ClearSlot, TypeOK, engineVars, eventVars, jobVars
<1>5. CASE BeginUpdate \/ CountDead \/ KeepEngine \/ FinishRecover \/ FetchEngines
           \/ Connect \/ ConnectFails \/ PushFails \/ Serve \/ EndServing
  <2>1. UNCHANGED <<all_engines, engineVars, threadVars, failures>>
    BY <1>5 DEF BeginUpdate, CountDead, KeepEngine, FinishRecover, FetchEngines, Connect,
                ConnectFails, PushFails, Serve, EndServing, groupVars
  <2>2. /\ num_new_engines' \in Nat /\ weight_version' \in Nat
        /\ rollout_engines' \in EngineLists /\ connected' \in EngineLists
    BY <1>5 DEF BeginUpdate, CountDead, KeepEngine, FinishRecover, FetchEngines, Connect,
                ConnectFails, PushFails, Serve, EndServing, groupVars, TypeOK
  <2>3. dead' \subseteq Slots /\ slot' \in 0 .. NumEngines
    BY <1>0, <1>5 DEF BeginUpdate, CountDead, KeepEngine, FinishRecover, FetchEngines,
                      Connect, ConnectFails, PushFails, Serve, EndServing, TypeOK
  <2>4. pc' \in JobPhases
    BY <1>5 DEF BeginUpdate, CountDead, KeepEngine, FinishRecover, FetchEngines, Connect,
                ConnectFails, PushFails, Serve, EndServing, TypeOK, JobPhases
  <2>5. pause_event' \in BOOLEAN /\ stop_event' \in BOOLEAN
    <3>1. UNCHANGED eventVars \/ BeginUpdate \/ Serve \/ EndServing
      BY <1>5 DEF CountDead, KeepEngine, FinishRecover, FetchEngines, Connect, ConnectFails,
                  PushFails
    <3>2. QED
      BY <3>1 DEF BeginUpdate, Serve, EndServing, eventVars, TypeOK
  <2>6. QED
    BY <2>1, <2>2, <2>3, <2>4, <2>5, SameEngines DEF TypeOK, engineVars, threadVars
<1>6. CASE StartEngine
  <2>1. Engines' = Engines \cup {NewEngine}
    BY <1>6 DEF StartEngine, Engines
  <2>2. /\ IsFiniteSet(Engines') /\ Engines' = 0 .. Cardinality(Engines') - 1
        /\ Engines \subseteq Engines' /\ NewEngine \in Engines'
    <3>1. NewEngine \in Nat /\ NewEngine + 1 - 1 = NewEngine
      BY NewEngineIsNew
    <3>2. Cardinality(Engines') = NewEngine + 1 /\ IsFiniteSet(Engines')
      BY <2>1, NewEngineIsNew
    <3>3. Engines' = 0 .. NewEngine
      BY <2>1, NewEngineIsNew
    <3>4. Cardinality(Engines') - 1 = NewEngine
      BY <3>1, <3>2
    <3>5. Engines' = 0 .. Cardinality(Engines') - 1
      BY <3>3, <3>4
    <3>6. QED
      BY <2>1, <3>2, <3>5
  <2>3. /\ health' \in [Engines' -> {"up", "hung", "killed"}]
        /\ weights' \in [Engines' -> Nat] /\ home' \in [Engines' -> Slots]
    BY <1>0, <1>6, <2>1 DEF StartEngine, TypeOK, Slots
  <2>4. /\ all_engines' \in EngineLists' /\ snapshot' \in EngineLists'
        /\ rollout_engines' \in EngineLists' /\ connected' \in EngineLists'
    BY <1>6, <2>2 DEF StartEngine, TypeOK, EngineLists, threadVars
  <2>5. num_new_engines' \in Nat /\ slot' \in 0 .. NumEngines
    BY <1>0, <1>6 DEF StartEngine, TypeOK
  <2>6. QED
    BY <1>6, <2>2, <2>3, <2>4, <2>5 DEF StartEngine, TypeOK, eventVars, threadVars
<1>7. CASE PushWeights
  <2>1. DOMAIN health' = DOMAIN health
    BY <1>7 DEF PushWeights
  <2>2. weights' \in [Engines -> Nat]
    BY <1>7 DEF PushWeights, TypeOK
  <2>3. QED
    BY <1>0, <1>7, <2>1, <2>2, SameEngines
    DEF PushWeights, TypeOK, JobPhases, groupVars, eventVars, threadVars
<1>8. CASE UNCHANGED vars
  BY <1>8 DEF vars, TypeOK, Engines, EngineLists, groupVars, engineVars, eventVars, threadVars, jobVars
<1>9. QED
  BY <1>1, <1>2, <1>3, <1>4, <1>5, <1>6, <1>7, <1>8 DEF Next, Monitor, Job, Update

\* The monitor leaves a slot only with the end of its check.
LEMMA RangeKept == TypeInv /\ [Next]_vars => InRange'
<1> SUFFICES ASSUME TypeOK, InRange, [Next]_vars PROVE InRange'
  BY DEF TypeInv
<1>0. NumEngines \in Nat
  BY EngineAssumption
<1>1. CASE Monitor
  <2>1. CASE CheckEngine
    BY <1>0, <2>1 DEF CheckEngine, InRange, TypeOK, Slots
  <2>2. CASE CheckFails \/ KillEngine
    BY <2>2 DEF CheckFails, KillEngine, InRange, Slots
  <2>3. CASE StartRound \/ MonitorStops \/ EndRound \/ CheckPasses \/ ClearSlot
    BY <2>3 DEF StartRound, MonitorStops, EndRound, CheckPasses, ClearSlot, InRange
  <2>4. QED
    BY <1>1, <2>1, <2>2, <2>3 DEF Monitor
<1>2. CASE EngineHangs \/ Job \/ UNCHANGED vars
  <2>1. UNCHANGED threadVars
    BY <1>2 DEF EngineHangs, Job, Update, BeginUpdate, CountDead, StartEngine, KeepEngine,
                FinishRecover, FetchEngines, Connect, ConnectFails, PushWeights, PushFails,
                Serve, EndServing, vars
  <2>2. QED
    BY <2>1 DEF InRange, threadVars, Slots
<1>3. QED
  BY <1>1, <1>2 DEF Next

\* Every variable keeps its type, whatever hangs and whatever is killed.
THEOREM TypeInvariance == Spec => []TypeOK
<1>1. Init => TypeInv
  BY TypesAtInit
<1>2. TypeInv /\ [Next]_vars => TypeInv'
  BY TypesKept, RangeKept DEF TypeInv
<1>3. TypeInv => TypeOK
  BY DEF TypeInv
<1>4. QED
  BY <1>1, <1>2, <1>3, PTL DEF Spec

(***************************************************************************)
(* The monitor kills what it checked                                       *)
(***************************************************************************)
\* What the steps of the job and of the engines leave to the monitor.
LEMMA OthersKeep ==
    ASSUME TypeOK, EngineHangs \/ Job \/ UNCHANGED vars
    PROVE  /\ UNCHANGED threadVars
           /\ \/ UNCHANGED all_engines
              \/ StartEngine /\ slot \in Slots /\ all_engines[slot] = None
                   /\ all_engines' = [all_engines EXCEPT ![slot] = NewEngine]
<1>1. CASE StartEngine
  <2>1. NumEngines \in Nat
    BY EngineAssumption
  <2>2. slot \in Slots
    BY <1>1, <2>1 DEF StartEngine, TypeOK, Slots
  <2>3. QED
    BY <1>1, <2>2 DEF StartEngine, Vacant
<1>2. CASE EngineHangs \/ (Job /\ ~StartEngine) \/ UNCHANGED vars
  BY <1>2 DEF EngineHangs, Job, Update, BeginUpdate, CountDead, KeepEngine, FinishRecover,
              FetchEngines, Connect, ConnectFails, PushWeights, PushFails, Serve, EndServing,
              vars, groupVars
<1>3. QED
  BY <1>1, <1>2

\* The engines that the monitor has not passed stay where its round saw them.
LEMMA SnapshotKept == Inv /\ [Next]_vars => InSnapshot'
<1> SUFFICES ASSUME TypeOK, InRange, InSnapshot, [Next]_vars PROVE InSnapshot'
  BY DEF Inv, TypeInv
<1>0. NumEngines \in Nat /\ index \in Nat
  BY EngineAssumption DEF TypeOK
<1>1. CASE StartRound \/ MonitorStops \/ EndRound
  BY <1>1 DEF StartRound, MonitorStops, EndRound, InSnapshot, groupVars
<1>2. CASE CheckEngine
  BY <1>0, <1>2 DEF CheckEngine, InSnapshot, groupVars, Slots
<1>3. CASE CheckPasses
  BY <1>0, <1>3 DEF CheckPasses, InSnapshot, groupVars, Slots
<1>4. CASE CheckFails \/ KillEngine
  BY <1>4 DEF CheckFails, KillEngine, InSnapshot, groupVars
<1>5. CASE ClearSlot
  <2>1. all_engines' = [all_engines EXCEPT ![index] = None] /\ index' = index + 1
        /\ UNCHANGED snapshot /\ monitor' = "round"
    BY <1>5 DEF ClearSlot
  <2>2. ASSUME NEW s \in Slots, s >= index', snapshot'[s] # None
        PROVE  all_engines'[s] = snapshot'[s]
    <3>1. s > index /\ s >= index /\ s # index
      BY <1>0, <2>1, <2>2 DEF Slots
    <3>2. all_engines[s] = snapshot[s]
      BY <1>5, <2>1, <2>2, <3>1 DEF ClearSlot, InSnapshot
    <3>3. QED
      BY <2>1, <3>1, <3>2 DEF TypeOK, EngineLists
  <2>3. QED
    BY <2>1, <2>2 DEF InSnapshot
<1>6. CASE EngineHangs \/ Job \/ UNCHANGED vars
  <2>1. UNCHANGED threadVars
    BY <1>6, OthersKeep
  <2>2. \A s \in Slots : all_engines[s] # None => all_engines'[s] = all_engines[s]
    BY <1>6, OthersKeep DEF TypeOK, EngineLists
  <2>3. QED
    BY <2>1, <2>2 DEF InSnapshot, threadVars
<1>7. QED
  BY <1>1, <1>2, <1>3, <1>4, <1>5, <1>6 DEF Next, Monitor

\* A step that kills an engine kills the one the monitor has checked.
LEMMA KillStep == Inv /\ [Next]_vars =>
    \A e \in Engines : health[e] # "killed" /\ health'[e] = "killed" => e = snapshot[index]
<1> SUFFICES ASSUME TypeOK, InRange, InSnapshot, [Next]_vars,
                    NEW e \in Engines, health[e] # "killed", health'[e] = "killed"
             PROVE  e = snapshot[index]
  BY DEF Inv, TypeInv
<1>1. CASE KillEngine
  <2>1. e = all_engines[index]
    BY <1>1 DEF KillEngine, TypeOK
  <2>2. all_engines[index] = snapshot[index]
    BY <1>1, EngineAssumption DEF KillEngine, InSnapshot, InRange, TypeOK, Slots
  <2>3. QED
    BY <2>1, <2>2
<1>2. CASE EngineHangs
  BY <1>2 DEF EngineHangs, TypeOK
<1>3. CASE StartEngine
  BY <1>3, NewEngineIsNew DEF StartEngine
<1>4. CASE ~KillEngine /\ ~EngineHangs /\ ~StartEngine
  <2>1. UNCHANGED health
    BY <1>4 DEF Next, Monitor, Job, Update, StartRound, MonitorStops, EndRound, CheckEngine,
                CheckPasses, CheckFails, ClearSlot, BeginUpdate, CountDead, KeepEngine,
                FinishRecover, FetchEngines, Connect, ConnectFails, PushWeights, PushFails,
                Serve, EndServing, vars, engineVars
  <2>2. QED
    BY <2>1
<1>5. QED
  BY <1>1, <1>2, <1>3, <1>4

\* Although the monitor kills by index a whole check after it read the engine,
\* and recovery refills slots meanwhile, it never kills an engine that did not
\* fail its check.
THEOREM KillsOnlyTheChecked == Spec => KillsWhatItChecked
<1>1. Init => Inv
  BY TypesAtInit DEF Inv, InSnapshot, Init
<1>2. Inv /\ [Next]_vars => Inv'
  BY TypesKept, RangeKept, SnapshotKept DEF Inv, TypeInv
<1>3. Inv /\ [Next]_vars =>
         [\A e \in Engines :
             health[e] # "killed" /\ health'[e] = "killed" => e = snapshot[index]]_vars
  BY KillStep
<1>4. QED
  BY <1>1, <1>2, <1>3, PTL DEF Spec, KillsWhatItChecked

(***************************************************************************)
(* One engine on each slot's GPUs                                          *)
(***************************************************************************)
\* No step but KillEngine and StartEngine changes which engines run, and only
\* StartEngine says where.
LEMMA LiveSteps ==
    ASSUME TypeOK, [Next]_vars
    PROVE  StartEngine \/ (Live' \subseteq Live /\ Engines' = Engines /\ home' = home)
<1>1. CASE KillEngine
  <2>1. Engines' = Engines /\ home' = home
    BY <1>1 DEF KillEngine, Engines, TypeOK
  <2>2. \A e \in Engines : health'[e] = health[e] \/ health'[e] = "killed"
    BY <1>1 DEF KillEngine, TypeOK
  <2>3. QED
    BY <2>1, <2>2 DEF Live
<1>2. CASE EngineHangs
  <2>1. Engines' = Engines /\ home' = home
    BY <1>2 DEF EngineHangs, Engines, TypeOK
  <2>2. \A e \in Engines : health'[e] = health[e] \/ health[e] = "up"
    BY <1>2 DEF EngineHangs, TypeOK
  <2>3. QED
    BY <2>1, <2>2 DEF Live
<1>3. CASE ~KillEngine /\ ~EngineHangs /\ ~StartEngine
  <2>1. UNCHANGED <<health, home>>
    BY <1>3 DEF Next, Monitor, Job, Update, StartRound, MonitorStops, EndRound, CheckEngine,
                CheckPasses, CheckFails, ClearSlot, BeginUpdate, CountDead, KeepEngine,
                FinishRecover, FetchEngines, Connect, ConnectFails, PushWeights, PushFails,
                Serve, EndServing, vars, engineVars
  <2>2. QED
    BY <2>1 DEF Live, Engines
<1>4. QED
  BY <1>1, <1>2, <1>3

\* A slot is cleared when its engine was killed.
LEMMA KilledFirstKept == StopInv /\ [Next]_vars => KilledFirst'
<1> SUFFICES ASSUME ~ShutdownMayFail, TypeOK, InRange, InSnapshot, KilledFirst, [Next]_vars,
                    monitor' = "clearing"
             PROVE  health'[all_engines'[index']] = "killed"
  BY DEF StopInv, Inv, TypeInv, KilledFirst
<1>1. CASE KillEngine
  <2>1. index \in Slots /\ all_engines[index] # None
    BY <1>1, EngineAssumption DEF KillEngine, InSnapshot, InRange, TypeOK, Slots
  <2>2. health' = [health EXCEPT ![all_engines[index]] = "killed"]
        /\ UNCHANGED <<index, all_engines>>
    BY <1>1, <2>1 DEF KillEngine, groupVars
  <2>3. QED
    BY <2>1, <2>2 DEF TypeOK, EngineLists
<1>2. CASE Monitor /\ ~KillEngine
  BY <1>2 DEF Monitor, StartRound, MonitorStops, EndRound, CheckEngine, CheckPasses,
              CheckFails, ClearSlot
<1>3. CASE EngineHangs \/ Job \/ UNCHANGED vars
  <2>1. UNCHANGED threadVars /\ monitor = "clearing" /\ UNCHANGED index
    BY <1>3, OthersKeep DEF threadVars
  <2>2. index \in Slots /\ all_engines[index] # None
    BY <2>1, EngineAssumption DEF InSnapshot, InRange, TypeOK, Slots
  <2>3. all_engines'[index] = all_engines[index]
    BY <1>3, <2>2, OthersKeep DEF TypeOK, EngineLists
  <2>4. all_engines[index] \in Engines /\ health[all_engines[index]] = "killed"
    BY <2>1, <2>2 DEF KilledFirst, TypeOK, EngineLists
  <2>5. health'[all_engines[index]] = "killed"
    <3>1. CASE EngineHangs
      BY <2>4, <3>1 DEF EngineHangs, TypeOK
    <3>2. CASE StartEngine
      BY <2>4, <3>2, NewEngineIsNew DEF StartEngine
    <3>3. CASE (Job /\ ~StartEngine) \/ UNCHANGED vars
      BY <2>4, <3>3 DEF Job, Update, BeginUpdate, CountDead, KeepEngine, FinishRecover,
                        FetchEngines, Connect, ConnectFails, PushWeights, PushFails,
                        Serve, EndServing, vars, engineVars
    <3>4. QED
      BY <1>3, <3>1, <3>2, <3>3
  <2>6. QED
    BY <2>1, <2>3, <2>5
<1>4. QED
  BY <1>1, <1>2, <1>3 DEF Next

\* Running engines stay in their slots.
LEMMA PlacedKept == StopInv /\ [Next]_vars => Placed'
<1> SUFFICES ASSUME TypeOK, InRange, InSnapshot, KilledFirst, Placed, [Next]_vars
             PROVE  Placed'
  BY DEF StopInv, Inv, TypeInv
<1>1. CASE StartEngine
  <2>1. /\ slot \in Slots /\ all_engines[slot] = None
        /\ all_engines' = [all_engines EXCEPT ![slot] = NewEngine]
    BY <1>1, EngineAssumption DEF StartEngine, Vacant, TypeOK, Slots
  <2>2. /\ home' = [e \in Engines \cup {NewEngine} |->
                      IF e = NewEngine THEN slot ELSE home[e]]
        /\ health' = [e \in Engines \cup {NewEngine} |->
                        IF e = NewEngine THEN "up" ELSE health[e]]
    BY <1>1 DEF StartEngine
  <2>3. NewEngine \notin Engines /\ None \notin Engines
    BY NewEngineIsNew
  <2>4. ASSUME NEW s \in Slots, all_engines'[s] # None PROVE home'[all_engines'[s]] = s
    <3>1. CASE s = slot
      BY <2>1, <2>2, <3>1 DEF TypeOK, EngineLists
    <3>2. CASE s # slot
      <4>1. all_engines'[s] = all_engines[s] /\ all_engines[s] \in Engines
        BY <2>1, <2>4, <3>2 DEF TypeOK, EngineLists
      <4>2. QED
        BY <2>2, <2>3, <2>4, <4>1 DEF Placed
    <3>3. QED
      BY <3>1, <3>2
  <2>5. ASSUME NEW e \in Live' PROVE all_engines'[home'[e]] = e
    <3>1. e \in Engines \cup {NewEngine} /\ health'[e] # "killed"
      BY <2>2, <2>5 DEF Live, Engines
    <3>2. CASE e = NewEngine
      BY <2>1, <2>2, <3>2 DEF TypeOK, EngineLists
    <3>3. CASE e # NewEngine
      <4>1. e \in Live /\ home'[e] = home[e] /\ home[e] \in Slots
        BY <2>2, <3>1, <3>3 DEF Live, TypeOK
      <4>2. all_engines[home[e]] = e /\ home[e] # slot
        BY <2>1, <2>3, <3>1, <3>3, <4>1 DEF Placed
      <4>3. QED
        BY <2>1, <4>1, <4>2 DEF TypeOK, EngineLists
    <3>4. QED
      BY <3>2, <3>3
  <2>6. QED
    BY <2>4, <2>5 DEF Placed
<1>2. CASE ClearSlot
  <2>1. index \in Slots /\ all_engines' = [all_engines EXCEPT ![index] = None]
        /\ UNCHANGED <<health, home>>
    BY <1>2 DEF ClearSlot, InRange, engineVars
  <2>2. ASSUME NEW e \in Live PROVE home[e] # index /\ home[e] \in Slots
    BY <1>2, <2>2 DEF ClearSlot, KilledFirst, Placed, Live, TypeOK
  <2>3. QED
    BY <2>1, <2>2 DEF Placed, Live, Engines, TypeOK, EngineLists
<1>3. CASE ~StartEngine /\ ~ClearSlot
  <2>1. UNCHANGED all_engines
    BY <1>3 DEF Next, Monitor, Job, Update, EngineHangs, StartRound, MonitorStops, EndRound,
                CheckEngine, CheckPasses, CheckFails, KillEngine, BeginUpdate, CountDead,
                KeepEngine, FinishRecover, FetchEngines, Connect, ConnectFails, PushWeights,
                PushFails, Serve, EndServing, vars, groupVars
  <2>2. QED
    BY <1>3, <2>1, LiveSteps DEF Placed
<1>4. QED
  BY <1>1, <1>2, <1>3

(***************************************************************************)
(* Every running engine has the last weights                               *)
(***************************************************************************)
\* Steps of the monitor and of the engines leave the job alone.
LEMMA MonitorKeeps ==
    ASSUME TypeOK, InRange, EngineHangs \/ Monitor \/ UNCHANGED vars
    PROVE  /\ UNCHANGED <<jobVars, num_new_engines>>
           /\ \A s \in Slots : all_engines'[s] # None => all_engines'[s] = all_engines[s]
<1>1. CASE ClearSlot
  BY <1>1 DEF ClearSlot, InRange, TypeOK, EngineLists
<1>2. CASE EngineHangs \/ (Monitor /\ ~ClearSlot) \/ UNCHANGED vars
  BY <1>2 DEF EngineHangs, Monitor, StartRound, MonitorStops, EndRound, CheckEngine,
              CheckPasses, CheckFails, KillEngine, vars, groupVars
<1>3. QED
  BY <1>1, <1>2

\* The weight updater stays connected to every engine there is.
LEMMA AttachedKept == StopInv /\ [Next]_vars => Attached'
<1> SUFFICES ASSUME TypeOK, InRange, Attached, [Next]_vars PROVE Attached'
  BY DEF StopInv, Inv, TypeInv
<1>0. /\ NumEngines \in Nat \ {0} /\ num_new_engines \in Nat /\ weight_version \in Nat
      /\ pc \in JobPhases
  BY EngineAssumption DEF TypeOK
<1>1. CASE EngineHangs \/ Monitor \/ UNCHANGED vars
  BY <1>1, MonitorKeeps DEF Attached, In, jobVars
<1>2. CASE BeginUpdate \/ CountDead
  BY <1>0, <1>2 DEF BeginUpdate, CountDead, Attached, In, groupVars
<1>3. CASE StartEngine
  <2>1. pc' = "start" /\ num_new_engines' # 0
    BY <1>0, <1>3 DEF StartEngine
  <2>2. QED
    BY <2>1 DEF Attached
<1>4. CASE KeepEngine \/ FinishRecover
  BY <1>0, <1>4 DEF KeepEngine, FinishRecover, Attached, In, groupVars
<1>5. CASE FetchEngines
  BY <1>0, <1>5 DEF FetchEngines, Attached, In, groupVars
<1>6. CASE Connect \/ ConnectFails
  BY <1>6 DEF Connect, ConnectFails, Attached, In, groupVars
<1>7. CASE PushWeights \/ PushFails
  BY <1>0, <1>7 DEF PushWeights, PushFails, Attached, In, groupVars
<1>8. CASE Serve \/ EndServing
  BY <1>0, <1>8 DEF Serve, EndServing, Attached, In, groupVars
<1>9. QED
  BY <1>1, <1>2, <1>3, <1>4, <1>5, <1>6, <1>7, <1>8 DEF Next, Job, Update

\* Pushing reaches every engine that runs.
LEMMA UpdatedKept == StopInv /\ [Next]_vars => Updated'
<1> SUFFICES ASSUME TypeOK, InRange, Placed, Attached, Updated, [Next]_vars,
                    pc' \in {"updated", "serving"}, NEW e \in Live'
             PROVE  weights'[e] = weight_version'
  BY DEF StopInv, Inv, TypeInv, Updated
<1>1. CASE PushWeights
  <2>1. e \in Live /\ all_engines[home[e]] = e /\ home[e] \in Slots /\ e # None
    BY <1>1, NewEngineIsNew DEF PushWeights, Live, Engines, Placed, TypeOK
  <2>2. connected[home[e]] = e
    BY <1>1, <2>1 DEF PushWeights, Attached, In
  <2>3. QED
    BY <1>1, <2>1, <2>2 DEF PushWeights, Live
<1>2. CASE ~PushWeights /\ ~StartEngine
  <2>1. /\ UNCHANGED <<weights, weight_version>>
        /\ pc \in {"updated", "serving"}
    BY <1>2 DEF Next, Monitor, Job, Update, EngineHangs, StartRound, MonitorStops, EndRound,
                CheckEngine, CheckPasses, CheckFails, KillEngine, ClearSlot, BeginUpdate,
                CountDead, KeepEngine, FinishRecover, FetchEngines, Connect, ConnectFails,
                PushFails, Serve, EndServing, vars, engineVars, jobVars
  <2>2. e \in Live
    BY <1>2, LiveSteps
  <2>3. QED
    BY <2>1, <2>2 DEF Updated
<1>3. CASE StartEngine
  BY <1>3 DEF StartEngine
<1>4. QED
  BY <1>1, <1>2, <1>3

\* The strengthened invariant holds in every state.
LEMMA Stopped == Spec /\ ~ShutdownMayFail => []StopInv
<1>1. Init /\ ~ShutdownMayFail => StopInv
  <2> SUFFICES ASSUME Init, ~ShutdownMayFail PROVE StopInv
    OBVIOUS
  <2>1. TypeInv
    BY TypesAtInit
  <2>2. InSnapshot /\ KilledFirst /\ Updated
    BY DEF Init, InSnapshot, KilledFirst, Updated
  <2>3. Placed
    BY DEF Init, Placed, Live, Engines
  <2>4. Attached
    BY EngineAssumption DEF Init, Attached
  <2>5. QED
    BY <2>1, <2>2, <2>3, <2>4 DEF StopInv, Inv
<1>2. StopInv /\ [Next]_vars => StopInv'
  BY TypesKept, RangeKept, SnapshotKept, KilledFirstKept, PlacedKept, AttachedKept, UpdatedKept
  DEF StopInv, Inv, TypeInv
<1>3. QED
  BY <1>1, <1>2, PTL DEF Spec

\* If engine.shutdown does not raise, no two running engines were started on
\* the GPUs of one slot.
THEOREM NoSharedSlot == Spec /\ ~ShutdownMayFail => []OneEnginePerSlot
<1>1. StopInv => OneEnginePerSlot
  BY DEF StopInv, Placed, OneEnginePerSlot
<1>2. QED
  BY <1>1, Stopped, PTL

\* If engine.shutdown does not raise, every running engine serves with the last
\* weights, however recovery and the monitor interleave.
THEOREM CurrentWeights == Spec /\ ~ShutdownMayFail => []ServesCurrentWeights
<1>1. StopInv => ServesCurrentWeights
  BY DEF StopInv, Updated, ServesCurrentWeights
<1>2. QED
  BY <1>1, Stopped, PTL
=============================================================================
