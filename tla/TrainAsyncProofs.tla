--------------------------- MODULE TrainAsyncProofs ---------------------------
(***************************************************************************)
(* Theorems about TrainAsync, for every number of rollouts, every interval *)
(* and every number of crashes, with or without a critic.                  *)
(***************************************************************************)
EXTENDS TrainAsync, SequenceTheorems, TLAPS

(***************************************************************************)
(* The protocol between the driver and the manager: the inductive          *)
(* invariant behind UniformWeights and OwnBatch                            *)
(***************************************************************************)
\* The manager works on the call at the head of its queue, with the weights
\* it began with.
Busy ==
    generating # NoBatch => /\ Serving("generate")
                            /\ Head(calls).id = generating.id
                            /\ generating.began = engine

\* A killed job leaves no call, no future and no result.
Clean ==
    pc = "stopped" => /\ calls = <<>> /\ generating = NoBatch
                      /\ next_future = None /\ DOMAIN results = {}

Generates == { i \in DOMAIN calls : calls[i].method = "generate" }

\* At most one generate is outstanding, the one the driver holds the future of.
OneFuture ==
    /\ \A i, j \in Generates : i = j
    /\ \A i \in Generates : calls[i].id = next_future /\ next_future \notin DOMAIN results

\* The driver, from the submission of the next rollout on
Early == {"train_critic", "train_actor", "save", "save_critic", "save_data",
          "saved", "updated", "eval"}
Latest == IF pc \in Early THEN rollout_id + 1 ELSE rollout_id

\* Nothing is requested further ahead than the next rollout; before the loop
\* nothing is requested, and at "submit" nothing is outstanding.
OneAhead ==
    /\ next_future <= Latest
    /\ \A r \in DOMAIN results : r <= Latest
    /\ pc \in {"before", "eval_before"} => DOMAIN results = {} /\ Generates = {}
    /\ pc = "submit" => Generates = {}

\* What a result says of itself
Results ==
    \A r \in DOMAIN results : results[r].id = r /\ results[r].began = results[r].ended

\* The driver has, or holds the future of, the rollout it trains on next.
Holds(r) == next_future = r \/ (next_future = None /\ curr.id = r)
Future ==
    /\ pc = "loop" /\ rollout_id < NumRollouts => Holds(rollout_id)
    /\ pc \in (Early \cup {"submit"}) \ {"updated", "eval"} => curr.id = rollout_id
    /\ pc \in Early \ {"updated", "eval"} /\ rollout_id + 1 < NumRollouts =>
          next_future = rollout_id + 1
    /\ pc \in {"updated", "eval"} /\ rollout_id + 1 < NumRollouts =>
          Holds(rollout_id + 1)

Protocol == Busy /\ Clean /\ OneFuture /\ OneAhead /\ Results /\ Future

(***************************************************************************)
(* Type correctness                                                        *)
(***************************************************************************)
LEMMA NoCheckpointTyped == NoCheckpoint \in Checkpoints /\ NoBatch \in Batches
  <1>1. <<>> \in Weights
    BY DEF Weights
  <1> QED
    BY <1>1 DEF NoCheckpoint, Checkpoints, NoBatch, Batches, Ids, None

LEMMA StartIdTyped == TypeOK => StartId \in Nat /\ LoadedCursor \in Nat
  <1> SUFFICES ASSUME TypeOK PROVE StartId \in Nat /\ LoadedCursor \in Nat
    OBVIOUS
  <1>1. Tracked \in Roles
    BY DEF Tracked, Roles
  <1>2. checkpoint[Tracked].id \in Ids
    BY <1>1 DEF TypeOK, Checkpoints
  <1>3. StartId \in Nat
    BY <1>2 DEF StartId, Ids, None
  <1> QED
    BY <1>3 DEF LoadedCursor, TypeOK

LEMMA SubmitTyped ==
    ASSUME TypeOK, NEW method \in {"generate", "save", "eval"}, NEW id \in Nat,
           Submit(method, id)
    PROVE  calls' \in Seq(Calls)
  <1>1. [method |-> method, id |-> id] \in Calls
    BY DEF Calls
  <1>2. calls \in Seq(Calls)
    BY DEF TypeOK
  <1> QED
    BY <1>1, <1>2 DEF Submit

LEMMA SaveModelTyped ==
    ASSUME TypeOK, pc # "stopped", NEW role \in Roles, NEW weights \in Weights,
           SaveModel(role, weights)
    PROVE  /\ checkpoint' \in [Roles -> Checkpoints]
           /\ saving' \in [Roles -> Checkpoints]
           /\ state_dicts' = state_dicts
  <1> DEFINE latest == [id |-> rollout_id, weights |-> weights]
             final == ~AsyncSave \/ rollout_id = NumRollouts - 1
             previous == IF saving[role] = NoCheckpoint THEN checkpoint[role] ELSE saving[role]
  <1>1. latest \in Checkpoints
    BY DEF TypeOK, Checkpoints, Ids
  <1>2. /\ checkpoint[role] \in Checkpoints
        /\ saving[role] \in Checkpoints
    BY DEF TypeOK
  <1>3. previous \in Checkpoints
    BY <1>2
  <1>4. /\ checkpoint' = [checkpoint EXCEPT ![role] = IF final THEN latest ELSE previous]
        /\ saving' = [saving EXCEPT ![role] = IF final THEN NoCheckpoint ELSE latest]
        /\ state_dicts' = state_dicts
    BY DEF SaveModel
  <1>5. checkpoint \in [Roles -> Checkpoints] /\ saving \in [Roles -> Checkpoints]
    BY DEF TypeOK
  <1> HIDE DEF latest, final, previous
  <1> QED
    BY <1>1, <1>3, <1>4, <1>5, NoCheckpointTyped

LEMMA InitTypeOK == Init => TypeOK
  <1> SUFFICES ASSUME Init PROVE TypeOK
    OBVIOUS
  <1>1. <<>> \in Weights /\ <<>> \in Seq(Calls)
    BY DEF Weights
  <1>2. DOMAIN results = {} /\ DOMAIN state_dicts = {}
    BY DEF Init
  <1>3. results \in [DOMAIN results -> Batches]
    BY <1>2 DEF Init
  <1>4. state_dicts \in [DOMAIN state_dicts -> Nat]
    BY <1>2 DEF Init
  <1>5. checkpoint \in [Roles -> Checkpoints] /\ saving \in [Roles -> Checkpoints]
    BY NoCheckpointTyped DEF Init
  <1> QED
    BY <1>1, <1>2, <1>3, <1>4, <1>5, NoCheckpointTyped
    DEF Init, TypeOK, DriverPhases, Ids, None

\* Every step keeps the types.
LEMMA NextTypeOK == TypeOK /\ Busy /\ [Next]_vars => TypeOK'
  <1> SUFFICES ASSUME TypeOK, Busy, [Next]_vars PROVE TypeOK'
    OBVIOUS
  <1> USE TrainAssumption
  <1>0. <<>> \in Weights /\ <<>> \in Seq(Calls)
    BY DEF Weights
  <1>1. CASE StartJob
    <2>1. checkpoint["actor"] \in Checkpoints /\ checkpoint["critic"] \in Checkpoints
      BY DEF TypeOK, Roles
    <2>2. actor' \in Weights /\ critic' \in Weights
      BY <1>1, <2>1 DEF StartJob, Checkpoints
    <2>3. engine' \in Nat
      BY <1>1, <2>1 DEF StartJob, Checkpoints, Weights
    <2>4. rollout_id' \in Nat /\ cursor' \in Nat
      BY <1>1, StartIdTyped DEF StartJob
    <2> QED
      BY <1>1, <2>2, <2>3, <2>4 DEF StartJob, TypeOK, storeVars, DriverPhases
  <1>2. CASE Crash
    <2>1. DOMAIN results' = {} /\ results' \in [DOMAIN results' -> Batches]
      BY <1>2 DEF Crash
    <2>2. saving' \in [Roles -> Checkpoints]
      BY <1>2, NoCheckpointTyped DEF Crash
    <2>3. /\ pc' = "stopped" /\ rollout_id' = None /\ next_future' = None /\ curr' = NoBatch
          /\ calls' = <<>> /\ generating' = NoBatch /\ cursor' = 0
          /\ actor' = <<>> /\ critic' = <<>> /\ engine' = 0
          /\ UNCHANGED <<checkpoint, state_dicts>>
      BY <1>2 DEF Crash
    <2>4. crashes' \in Nat
      BY <1>2 DEF Crash, TypeOK
    <2>5. "stopped" \in DriverPhases /\ None \in Ids
      BY DEF DriverPhases, Ids
    <2> QED
      BY ONLY TypeOK, <1>0, <2>1, <2>2, <2>3, <2>4, <2>5, NoCheckpointTyped DEF TypeOK
  <1>3. CASE BeginGenerate
    <2>1. Head(calls) \in Calls
      BY <1>3 DEF BeginGenerate, Serving, TypeOK
    <2>2. generating' \in Batches
      BY <1>3, <2>1 DEF BeginGenerate, TypeOK, Batches, Calls, Ids
    <2>3. cursor' \in Nat /\ calls' = calls /\ results' = results
          /\ UNCHANGED <<driverVars, weightVars, storeVars, crashes>>
      BY <1>3 DEF BeginGenerate, TypeOK
    <2> QED
      BY ONLY TypeOK, <2>2, <2>3 DEF TypeOK, driverVars, weightVars, storeVars
  <1>4. CASE EndGenerate
    <2> DEFINE id == generating.id
               done == [generating EXCEPT !.ended = engine]
    <2>1. calls # <<>>
      BY <1>4 DEF EndGenerate, Busy, Serving
    <2>2. Head(calls) \in Calls /\ calls' \in Seq(Calls)
      BY <1>4, <2>1 DEF EndGenerate, TypeOK
    <2>3. id \in Nat
      BY <1>4, <2>2 DEF EndGenerate, Busy, Calls
    <2>4. done \in Batches
      BY DEF TypeOK, Batches, Ids
    <2>5. results' = [r \in DOMAIN results \cup {id} |-> IF r = id THEN done ELSE results[r]]
      BY <1>4 DEF EndGenerate
    <2>6. DOMAIN results' \subseteq Nat /\ results' \in [DOMAIN results' -> Batches]
      <3> HIDE DEF done, id
      <3> QED
        BY <2>3, <2>4, <2>5 DEF TypeOK
    <2> QED
      BY <1>4, <2>2, <2>6, NoCheckpointTyped
      DEF EndGenerate, TypeOK, driverVars, weightVars, storeVars
  <1>5. CASE ServeSave
    <2>1. Head(calls) \in Calls /\ calls' \in Seq(Calls)
      BY <1>5 DEF ServeSave, Serving, TypeOK
    <2>2. Head(calls).id \in Nat
      BY <2>1 DEF Calls
    <2>3. /\ DOMAIN state_dicts' \subseteq Nat
          /\ state_dicts' \in [DOMAIN state_dicts' -> Nat]
      BY <1>5, <2>2 DEF ServeSave, TypeOK
    <2> QED
      BY <1>5, <2>1, <2>3 DEF ServeSave, TypeOK, driverVars, weightVars
  <1>6. CASE ServeEval
    <2>1. calls' \in Seq(Calls)
      BY <1>6 DEF ServeEval, Serving, TypeOK
    <2> QED
      BY <1>6, <2>1 DEF ServeEval, TypeOK, driverVars, weightVars, storeVars
  <1>7. CASE EvalBeforeTraining
    <2>1. calls' \in Seq(Calls)
      BY <1>7, SubmitTyped DEF EvalBeforeTraining
    <2> QED
      BY <1>7, <2>1 DEF EvalBeforeTraining, TypeOK, DriverPhases, weightVars, storeVars
  <1>8. CASE RequestFirst
    <2>1. rollout_id \in Nat
      BY <1>8 DEF RequestFirst, TypeOK
    <2>2. calls' \in Seq(Calls)
      BY <1>8, <2>1, SubmitTyped DEF RequestFirst
    <2> QED
      BY <1>8, <2>1, <2>2 DEF RequestFirst, TypeOK, DriverPhases, weightVars, storeVars, Ids
  <1>9. CASE SyncLast
    <2>1. curr' \in Batches
      BY <1>9 DEF SyncLast, TypeOK
    <2> QED
      BY <1>9, <2>1 DEF SyncLast, TypeOK, DriverPhases, managerVars, weightVars, storeVars
  <1>10. CASE StartNext
    <2>1. rollout_id \in Nat
      BY <1>10 DEF StartNext, TypeOK
    <2>2. calls' \in Seq(Calls)
      <3>1. CASE rollout_id + 1 < NumRollouts
        BY <1>10, <2>1, <3>1, SubmitTyped, rollout_id + 1 \in Nat DEF StartNext
      <3>2. CASE ~(rollout_id + 1 < NumRollouts)
        BY <1>10, <3>2 DEF StartNext, TypeOK
      <3> QED
        BY <3>1, <3>2
    <2>3. next_future' \in Ids
      BY <1>10, <2>1 DEF StartNext, TypeOK, Ids
    <2>4. pc' \in {"train_critic", "train_actor"}
      BY <1>10 DEF StartNext
    <2> QED
      BY <1>10, <2>1, <2>2, <2>3, <2>4 DEF StartNext, TypeOK, DriverPhases, weightVars, storeVars
  <1>11. CASE TrainCritic
    <2>1. curr.batch \in Ids /\ rollout_id \in Nat
      BY <1>11 DEF TrainCritic, TypeOK, Batches
    <2>2. critic' \in Weights
      BY <1>11, <2>1 DEF TrainCritic, TypeOK, Weights
    <2>3. pc' \in {"train_actor", "save"}
      BY <1>11 DEF TrainCritic
    <2> QED
      BY <1>11, <2>1, <2>2, <2>3 DEF TrainCritic, TypeOK, DriverPhases, managerVars, storeVars
  <1>12. CASE TrainActor
    <2>1. curr.batch \in Ids /\ rollout_id \in Nat
      BY <1>12 DEF TrainActor, TypeOK, Batches
    <2>2. actor' \in Weights
      BY <1>12, <2>1 DEF TrainActor, TypeOK, Weights
    <2> QED
      BY <1>12, <2>1, <2>2 DEF TrainActor, TypeOK, DriverPhases, managerVars, storeVars
  <1>13. CASE SaveActor
    <2>1. /\ checkpoint' \in [Roles -> Checkpoints]
          /\ saving' \in [Roles -> Checkpoints]
          /\ state_dicts' = state_dicts
      <3>1. CASE ActorTrains
        BY <1>13, <3>1, SaveModelTyped DEF SaveActor, TypeOK, Roles
      <3>2. CASE ~ActorTrains
        BY <1>13, <3>2 DEF SaveActor, TypeOK, storeVars
      <3> QED
        BY <3>1, <3>2
    <2>2. pc' \in {"save_critic", "save_data"}
      BY <1>13 DEF SaveActor
    <2> QED
      BY <1>13, <2>1, <2>2 DEF SaveActor, TypeOK, DriverPhases, managerVars, weightVars
  <1>14. CASE SaveCritic
    <2>1. /\ checkpoint' \in [Roles -> Checkpoints]
          /\ saving' \in [Roles -> Checkpoints]
          /\ state_dicts' = state_dicts
      BY <1>14, SaveModelTyped DEF SaveCritic, TypeOK, Roles
    <2> QED
      BY <1>14, <2>1 DEF SaveCritic, TypeOK, DriverPhases, managerVars, weightVars
  <1>15. CASE SaveDataSource
    <2>1. rollout_id \in Nat
      BY <1>15 DEF SaveDataSource, TypeOK
    <2>2. calls' \in Seq(Calls)
      BY <1>15, <2>1, SubmitTyped DEF SaveDataSource
    <2> QED
      BY <1>15, <2>1, <2>2 DEF SaveDataSource, TypeOK, DriverPhases, weightVars, storeVars
  <1>16. CASE UpdateWeights
    <2>1. pc # "stopped"
      BY <1>16 DEF UpdateWeights, Saved
    <2>2. curr' \in Batches
      BY <1>16, NoCheckpointTyped DEF UpdateWeights, TypeOK
    <2>3. engine' \in Nat
      BY <1>16 DEF UpdateWeights, TypeOK, Weights
    <2> QED
      BY <1>16, <2>1, <2>2, <2>3
      DEF UpdateWeights, TypeOK, DriverPhases, managerVars, storeVars, Ids
  <1>17. CASE EvalRollout
    <2>1. pc # "stopped" /\ rollout_id \in Nat
      BY <1>17 DEF EvalRollout, Updated, Saved, TypeOK
    <2>2. calls' \in Seq(Calls)
      BY <1>17, <2>1, SubmitTyped DEF EvalRollout
    <2> QED
      BY <1>17, <2>1, <2>2 DEF EvalRollout, TypeOK, DriverPhases, weightVars, storeVars
  <1>18. CASE NextRollout
    <2>1. pc # "stopped" /\ rollout_id \in Nat
      BY <1>18 DEF NextRollout, Updated, Saved, TypeOK
    <2>2. /\ rollout_id' \in Nat /\ pc' = "loop"
          /\ UNCHANGED <<next_future, curr, managerVars, weightVars, storeVars, crashes>>
      BY <1>18, <2>1 DEF NextRollout
    <2>3. "loop" \in DriverPhases
      BY DEF DriverPhases
    <2> QED
      BY ONLY TypeOK, <2>2, <2>3 DEF TypeOK, managerVars, weightVars, storeVars
  <1>19. CASE Finish
    BY <1>19 DEF Finish, TypeOK, DriverPhases, managerVars, weightVars, storeVars
  <1>20. CASE UNCHANGED vars
    BY <1>20 DEF TypeOK, vars, driverVars, managerVars, weightVars, storeVars
  <1> QED
    BY <1>1, <1>2, <1>3, <1>4, <1>5, <1>6, <1>7, <1>8, <1>9, <1>10, <1>11, <1>12,
       <1>13, <1>14, <1>15, <1>16, <1>17, <1>18, <1>19, <1>20
    DEF Next, Manager, Driver

\* Submitting a call leaves the calls before it as they are ...
LEMMA Submitted ==
    ASSUME calls \in Seq(Calls), NEW method, NEW id, Submit(method, id)
    PROVE  /\ method # "generate" => /\ Generates' = Generates
                                     /\ \A i \in Generates : calls'[i] = calls[i]
           /\ method = "generate" /\ Generates = {} =>
                 /\ \A i, j \in Generates' : i = j
                 /\ \A i \in Generates' : calls'[i].id = id
           /\ calls # <<>> => calls' # <<>> /\ Head(calls') = Head(calls)
  <1>1. /\ DOMAIN calls' = 1 .. Len(calls) + 1
        /\ \A i \in 1 .. Len(calls) : calls'[i] = calls[i]
        /\ calls'[Len(calls) + 1] = [method |-> method, id |-> id]
    BY DEF Submit
  <1>2. DOMAIN calls = 1 .. Len(calls) /\ Len(calls) \in Nat
    OBVIOUS
  <1>3. DOMAIN calls' = DOMAIN calls \cup {Len(calls) + 1}
    BY <1>1, <1>2
  <1>4. ASSUME method # "generate"
        PROVE  Generates' = Generates /\ \A i \in Generates : calls'[i] = calls[i]
    BY <1>1, <1>2, <1>3, <1>4 DEF Generates
  <1>5. ASSUME method = "generate", Generates = {}
        PROVE  \A i \in Generates' : i = Len(calls) + 1 /\ calls'[i].id = id
    BY <1>1, <1>2, <1>3, <1>5 DEF Generates
  <1>6. ASSUME calls # <<>> PROVE calls' # <<>> /\ Head(calls') = Head(calls)
    BY <1>1, <1>2, <1>6 DEF Submit
  <1> QED
    BY <1>4, <1>5, <1>6

\* ... and answering the head leaves those behind it.
LEMMA Answering ==
    ASSUME calls \in Seq(Calls), calls # <<>>, calls' = Tail(calls)
    PROVE  \A i \in Generates' : i + 1 \in Generates /\ calls'[i] = calls[i + 1] /\ i \in Nat \ {0}
  <1>1. DOMAIN calls' = 1 .. Len(calls) - 1 /\ DOMAIN calls = 1 .. Len(calls)
    OBVIOUS
  <1>2. \A i \in DOMAIN calls' : calls'[i] = calls[i + 1] /\ i + 1 \in DOMAIN calls
    BY <1>1
  <1> QED
    BY <1>1, <1>2 DEF Generates

LEMMA HeadGenerates ==
    ASSUME calls \in Seq(Calls), Serving("generate")
    PROVE  1 \in Generates /\ calls[1] = Head(calls)
  BY DEF Serving, Generates

\* A future that was collected, or none, leaves no generate outstanding.
LEMMA NoneOutstanding ==
    ASSUME calls \in Seq(Calls), OneFuture,
           next_future # None => next_future \in DOMAIN results
    PROVE  Generates = {}
  <1>1. \A i \in Generates : calls[i] \in Calls
    BY DEF Generates
  <1>2. \A i \in Generates : calls[i].id # None
    BY <1>1 DEF Calls, None
  <1> QED
    BY <1>2 DEF OneFuture

\* The steps between the submission of the next rollout and the update of the
\* weights change nothing the protocol speaks of.
LEMMA Training ==
    ASSUME Protocol, UNCHANGED <<rollout_id, next_future, curr, managerVars, engine>>,
           pc \in Early \ {"updated", "eval"}, pc' \in Early \ {"updated", "eval"}
    PROVE  Protocol'
  <1>1. Generates' = Generates /\ Latest' = Latest
    BY DEF Generates, Latest, managerVars
  <1> QED
    BY <1>1 DEF managerVars, Protocol, Busy, Clean, OneFuture, OneAhead, Results, Future, Latest, Early, Holds, Serving

LEMMA InitProtocol == Init => Protocol
  <1> SUFFICES ASSUME Init PROVE Protocol
    OBVIOUS
  <1>1. Generates = {} /\ DOMAIN results = {}
    BY DEF Init, Generates
  <1> QED
    BY <1>1 DEF Init, None, Protocol, Busy, Clean, OneFuture, OneAhead, Results, Future, Latest, Early, Holds, Serving

\* Every step keeps the protocol.
LEMMA NextProtocol == TypeOK /\ Protocol /\ [Next]_vars => Protocol'
  <1> SUFFICES ASSUME TypeOK, Protocol, [Next]_vars PROVE Protocol'
    OBVIOUS
  <1> USE TrainAssumption
  <1>0. /\ calls \in Seq(Calls)
        /\ rollout_id \in Int /\ next_future \in Int /\ Latest \in Int
        /\ pc # "stopped" => rollout_id \in Nat
        /\ DOMAIN results \subseteq Nat
    <2>1. calls \in Seq(Calls) /\ DOMAIN results \subseteq Nat
      BY DEF TypeOK
    <2>2. /\ rollout_id \in Int /\ next_future \in Int
          /\ pc # "stopped" => rollout_id \in Nat
      BY DEF TypeOK, Ids, None
    <2> QED
      BY <2>1, <2>2 DEF Latest
  <1>1. CASE StartJob
    <2>1. Generates = {} /\ Generates' = {} /\ DOMAIN results' = {} /\ generating' = NoBatch
      BY <1>1 DEF StartJob, Protocol, Clean, Generates
    <2>2. next_future' <= Latest'
      BY <1>1, StartIdTyped DEF StartJob, Protocol, Clean, Latest, Early, None
    <2> QED
      BY <1>1, <2>1, <2>2 DEF StartJob, Protocol, Busy, Clean, OneFuture, OneAhead, Results, Future, Latest, Early, Holds, Serving
  <1>2. CASE Crash
    <2>1. Generates' = {} /\ DOMAIN results' = {} /\ generating' = NoBatch
      BY <1>2 DEF Crash, Generates
    <2> QED
      BY <1>2, <2>1 DEF Crash, None, Protocol, Busy, Clean, OneFuture, OneAhead, Results, Future, Latest, Early, Holds, Serving
  <1>3. CASE BeginGenerate
    <2>1. Generates' = Generates /\ Latest' = Latest
      BY <1>3 DEF BeginGenerate, Generates, Latest, driverVars
    <2>2. Busy'
      BY <1>3 DEF BeginGenerate, Busy, Serving, driverVars, weightVars
    <2> QED
      BY <1>3, <2>1, <2>2 DEF BeginGenerate, driverVars, Protocol, Busy, Clean, OneFuture, OneAhead, Results, Future, Latest, Early, Holds, Serving
  <1>4. CASE EndGenerate
    <2> DEFINE id == generating.id
    <2>1. Serving("generate") /\ Head(calls).id = id /\ generating.began = engine
      BY <1>4 DEF EndGenerate, Protocol, Busy
    <2>2. 1 \in Generates /\ calls[1] = Head(calls)
      BY <1>0, <2>1, HeadGenerates
    <2>3. id = next_future
      BY <2>1, <2>2 DEF Protocol, OneFuture
    <2>4. Generates' = {}
      <3>1. calls # <<>> /\ calls' = Tail(calls)
        BY <1>4, <2>1 DEF EndGenerate, Serving
      <3>2. \A i \in Generates' : i + 1 \in Generates /\ i \in Nat \ {0}
        BY <1>0, <3>1, Answering
      <3>3. \A i, j \in Generates : i = j
        BY DEF Protocol, OneFuture
      <3> QED
        BY <2>2, <3>2, <3>3
    <2>5. results' = [r \in DOMAIN results \cup {id} |->
                        IF r = id THEN [generating EXCEPT !.ended = engine] ELSE results[r]]
      BY <1>4 DEF EndGenerate
    <2>6. Results'
      BY <2>1, <2>5 DEF Results, Protocol, TypeOK, Batches
    <2>7. Latest' = Latest /\ UNCHANGED <<pc, rollout_id, next_future, curr>> /\ generating' = NoBatch
      BY <1>4 DEF EndGenerate, Latest, driverVars
    <2>8. \A r \in DOMAIN results' : r <= Latest
      BY <2>3, <2>5 DEF Protocol, OneAhead
    <2>9. pc \notin {"before", "eval_before", "stopped"}
      BY <1>4, <2>1, <2>2 DEF Protocol, OneAhead, Clean, EndGenerate
    <2> QED
      BY <2>4, <2>6, <2>7, <2>8, <2>9
      DEF Protocol, Busy, Clean, OneFuture, OneAhead, Future, Holds
  <1>5. CASE ServeSave \/ ServeEval
    <2>1. /\ calls # <<>> /\ calls' = Tail(calls) /\ Head(calls).method # "generate"
          /\ UNCHANGED <<driverVars, generating, results, engine>>
      BY <1>5 DEF ServeSave, ServeEval, Serving, weightVars
    <2>2. \A i \in Generates' : i + 1 \in Generates /\ calls'[i] = calls[i + 1] /\ i \in Nat \ {0}
      BY <1>0, <2>1, Answering
    <2>3. OneFuture'
      <3>1. ASSUME NEW i \in Generates', NEW j \in Generates' PROVE i = j
        <4>1. i + 1 = j + 1
          BY <2>2 DEF Protocol, OneFuture
        <4> QED
          BY <2>2, <4>1
      <3>2. ASSUME NEW i \in Generates'
            PROVE  calls'[i].id = next_future' /\ next_future' \notin DOMAIN results'
        BY <2>1, <2>2 DEF driverVars, Protocol, OneFuture
      <3> QED
        BY <3>1, <3>2 DEF OneFuture
    <2>4. OneAhead'
      BY <2>1, <2>2 DEF driverVars, Protocol, OneAhead, Latest
    <2>5. Clean' /\ Busy'
      BY <2>1 DEF driverVars, Protocol, Clean, Busy, Serving
    <2> QED
      BY <2>1, <2>3, <2>4, <2>5 DEF driverVars, Protocol, Results, Future, Holds
  <1>6. CASE EvalBeforeTraining
    <2>1. Generates' = Generates /\ (calls # <<>> => calls' # <<>> /\ Head(calls') = Head(calls))
      BY <1>0, <1>6, Submitted DEF EvalBeforeTraining
    <2> QED
      BY <1>6, <2>1 DEF EvalBeforeTraining, weightVars, Protocol, Busy, Clean, OneFuture, OneAhead, Results, Future, Latest, Early, Holds, Serving
  <1>7. CASE RequestFirst
    <2>1. Generates = {} /\ DOMAIN results = {} /\ pc # "stopped"
      BY <1>7 DEF RequestFirst, Protocol, OneAhead
    <2>2. /\ \A i, j \in Generates' : i = j
          /\ \A i \in Generates' : calls'[i].id = rollout_id
          /\ calls # <<>> => calls' # <<>> /\ Head(calls') = Head(calls)
      BY <1>0, <1>7, <2>1, Submitted DEF RequestFirst
    <2> QED
      BY <1>0, <1>7, <2>1, <2>2 DEF RequestFirst, weightVars, Protocol, Busy, Clean, OneFuture, OneAhead, Results, Future, Latest, Early, Holds, Serving
  <1>8. CASE SyncLast
    <2>1. Generates' = Generates /\ Latest' = Latest
      BY <1>8 DEF SyncLast, Generates, Latest, Early, managerVars
    <2>2. Generates = {}
      BY <1>0, <1>8, NoneOutstanding DEF SyncLast, Protocol
    <2>3. curr'.id = rollout_id
      <3>1. Holds(rollout_id) /\ rollout_id # None
        BY <1>0, <1>8 DEF SyncLast, Protocol, Future, None
      <3>2. CASE next_future = None
        BY <1>8, <3>1, <3>2 DEF SyncLast, Holds
      <3>3. CASE next_future # None
        BY <1>8, <3>1, <3>3 DEF SyncLast, Holds, Protocol, Results
      <3> QED
        BY <3>2, <3>3
    <2> QED
      BY <1>8, <2>1, <2>2, <2>3 DEF SyncLast, managerVars, weightVars, Protocol, Busy, Clean, OneFuture, OneAhead, Results, Future, Latest, Early, Holds, Serving
  <1>9. CASE StartNext
    <2>1. Generates = {} /\ curr.id = rollout_id /\ Latest = rollout_id
      BY <1>9 DEF StartNext, Protocol, OneAhead, Future, Latest, Early
    <2>2. /\ pc' \in {"train_critic", "train_actor"} /\ Latest' = rollout_id + 1
          /\ UNCHANGED <<rollout_id, curr, generating, results, engine>>
      BY <1>9 DEF StartNext, Latest, Early, weightVars
    <2>3. CASE rollout_id + 1 < NumRollouts
      <3>1. Submit("generate", rollout_id + 1) /\ next_future' = rollout_id + 1
        BY <1>9, <2>3 DEF StartNext
      <3>2. /\ \A i, j \in Generates' : i = j
            /\ \A i \in Generates' : calls'[i].id = rollout_id + 1
            /\ calls # <<>> => calls' # <<>> /\ Head(calls') = Head(calls)
        BY <1>0, <2>1, <3>1, Submitted
      <3> QED
        BY <1>0, <2>1, <2>2, <3>1, <3>2 DEF Protocol, Busy, Clean, OneFuture, OneAhead, Results, Future, Latest, Early, Holds, Serving
    <2>4. CASE ~(rollout_id + 1 < NumRollouts)
      <3>1. UNCHANGED <<calls, next_future>> /\ Generates' = Generates
        BY <1>9, <2>4 DEF StartNext, Generates
      <3> QED
        BY <1>0, <2>1, <2>2, <2>4, <3>1 DEF Protocol, Busy, Clean, OneFuture, OneAhead, Results, Future, Latest, Early, Holds, Serving
    <2> QED
      BY <2>3, <2>4
  <1>10. CASE TrainCritic \/ TrainActor \/ SaveActor \/ SaveCritic
    BY <1>10, Training DEF TrainCritic, TrainActor, SaveActor, SaveCritic, Early, weightVars
  <1>11. CASE SaveDataSource
    <2>1. /\ Generates' = Generates
          /\ \A i \in Generates : calls'[i] = calls[i]
          /\ calls # <<>> => calls' # <<>> /\ Head(calls') = Head(calls)
      BY <1>0, <1>11, Submitted DEF SaveDataSource
    <2> QED
      BY <1>11, <2>1 DEF SaveDataSource, weightVars, Protocol, Busy, Clean, OneFuture, OneAhead, Results, Future, Latest, Early, Holds, Serving
  <1>12. CASE UpdateWeights
    <2>1. /\ pc \in {"save", "saved"} /\ pc' = "updated" /\ next_future' = None
          /\ next_future # None => next_future \in DOMAIN results /\ curr' = results[next_future]
          /\ UNCHANGED <<rollout_id, managerVars>>
      BY <1>12 DEF UpdateWeights, Saved
    <2>2. Generates = {} /\ Generates' = Generates /\ Latest' = Latest
      <3>1. Generates = {}
        BY <1>0, <2>1, NoneOutstanding DEF Protocol
      <3> QED
        BY <2>1, <3>1 DEF Generates, Latest, Early, managerVars
    <2>3. generating = NoBatch
      BY <1>0, <2>2, HeadGenerates DEF Protocol, Busy
    <2>4. rollout_id + 1 < NumRollouts => curr'.id = rollout_id + 1
      BY <1>0, <2>1 DEF Protocol, Future, Results, Early, None
    <2> QED
      BY <1>0, <2>1, <2>2, <2>3, <2>4 DEF managerVars, None, Protocol, Busy, Clean, OneFuture, OneAhead, Results, Future, Latest, Early, Holds, Serving
  <1>13. CASE EvalRollout
    <2>1. /\ Generates' = Generates
          /\ \A i \in Generates : calls'[i] = calls[i]
          /\ calls # <<>> => calls' # <<>> /\ Head(calls') = Head(calls)
      BY <1>0, <1>13, Submitted DEF EvalRollout
    <2>2. /\ pc \in {"save", "saved", "updated"} /\ pc' = "eval"
          /\ UNCHANGED <<rollout_id, next_future, curr, generating, results, engine>>
      BY <1>13 DEF EvalRollout, Updated, Saved, weightVars
    <2> QED
      BY <2>1, <2>2 DEF Protocol, Busy, Clean, OneFuture, OneAhead, Results, Future, Latest, Early, Holds, Serving
  <1>14. CASE NextRollout
    <2>1. /\ pc \in {"save", "saved", "updated", "eval"} /\ pc' = "loop"
          /\ rollout_id' = rollout_id + 1
          /\ UNCHANGED <<next_future, curr, managerVars, engine>>
      BY <1>14 DEF NextRollout, Updated, Saved, weightVars
    <2>2. Generates' = Generates /\ Latest' = Latest
      BY <1>0, <2>1 DEF Generates, Latest, Early, managerVars
    <2> QED
      BY <1>0, <2>1, <2>2 DEF managerVars, Protocol, Busy, Clean, OneFuture, OneAhead, Results, Future, Latest, Early, Holds, Serving
  <1>15. CASE Finish
    <2>1. Generates' = Generates /\ Latest' = Latest
      BY <1>15 DEF Finish, Generates, Latest, Early, managerVars
    <2> QED
      BY <1>15, <2>1 DEF Finish, managerVars, weightVars, Protocol, Busy, Clean, OneFuture, OneAhead, Results, Future, Latest, Early, Holds, Serving
  <1>16. CASE UNCHANGED vars
    <2>1. Generates' = Generates /\ Latest' = Latest
      BY <1>16 DEF vars, Generates, Latest, driverVars, managerVars
    <2> QED
      BY <1>16, <2>1 DEF vars, driverVars, managerVars, weightVars, Protocol, Busy, Clean, OneFuture, OneAhead, Results, Future, Latest, Early, Holds, Serving
  <1> QED
    BY <1>1, <1>2, <1>3, <1>4, <1>5, <1>6, <1>7, <1>8, <1>9, <1>10, <1>11, <1>12,
       <1>13, <1>14, <1>15, <1>16
    DEF Next, Manager, Driver

(***************************************************************************)
(* The theorems                                                            *)
(***************************************************************************)
LEMMA Invariants == Spec => [](TypeOK /\ Protocol)
  <1>1. Init => TypeOK /\ Protocol
    BY InitTypeOK, InitProtocol
  <1>2. (TypeOK /\ Protocol) /\ [Next]_vars => (TypeOK /\ Protocol)'
    BY NextTypeOK, NextProtocol DEF Protocol
  <1> QED
    BY <1>1, <1>2, PTL DEF Spec

\* The types hold in every reachable state, whatever the constants.
THEOREM TypesHold == Spec => []TypeOK
  BY Invariants, PTL

\* No weight update falls into a generation (train_async.py:88): every batch is
\* generated by one version of the weights, for every interval and any crashes.
THEOREM NoUpdateMidGeneration == Spec => []UniformWeights
  <1>1. TypeOK /\ Protocol => UniformWeights
    BY DEF Protocol, Busy, Results, UniformWeights
  <1> QED
    BY <1>1, Invariants, PTL

\* Each rollout trains on the batch generated for it, for every combination of
\* intervals and any crashes.
THEOREM TrainsOnItsOwnBatch == Spec => []OwnBatch
  <1>1. TypeOK /\ Protocol => OwnBatch
    BY DEF Protocol, Future, Early, OwnBatch
  <1> QED
    BY <1>1, Invariants, PTL
-----------------------------------------------------------------------------
(***************************************************************************)
(* What is trained on: actor and critic learn from the same batches, also  *)
(* across kills and resumes, no batch is staler than one update interval,  *)
(* and a job that is never killed trains on the data set in order.         *)
(***************************************************************************)
(***************************************************************************)
(* Actor and critic                                                        *)
(***************************************************************************)
\* Actor steps taken before rollout n
ActorSteps(n) ==
    IF ~UseCritic THEN n
    ELSE IF n <= NumCriticOnlySteps THEN 0 ELSE n - NumCriticOnlySteps

\* The actor weights a contain the batches of the critic weights c behind the
\* critic-only steps.
Follows(a, c) == \A i \in 1 .. Len(a) : a[i] = c[NumCriticOnlySteps + i]

\* The phases behind the training of a rollout, and behind its saves
Trained == {"save", "save_critic", "save_data", "saved", "updated", "eval"}
Stored == {"save_data", "saved", "updated", "eval"}

\* Rollouts the tracked model, and the actor, have been through
LineageRollouts ==
    IF pc \in Trained \/ (pc = "train_actor" /\ UseCritic) THEN rollout_id + 1 ELSE rollout_id
ActorRollouts == IF pc \in Trained THEN rollout_id + 1 ELSE rollout_id

\* The running job: one step of each model for each rollout.
Live ==
    pc # "stopped" =>
        /\ Len(Lineage) = LineageRollouts
        /\ Len(actor) = ActorSteps(ActorRollouts)
        /\ UseCritic => Follows(actor, critic)
        /\ pc = "train_actor" => ActorTrains /\ (UseCritic => critic[rollout_id + 1] = curr.batch)
        /\ pc \in {"train_critic", "save_critic"} => UseCritic

Entries(role) == {checkpoint[role], saving[role]}

\* On disk: a checkpoint holds the steps its number says, and two of the same
\* number belong together.
Paired ==
    /\ \A x \in Entries("actor") : Len(x.weights) = ActorSteps(x.id + 1)
    /\ UseCritic =>
         /\ \A y \in Entries("critic") : Len(y.weights) = y.id + 1
         /\ \A x \in Entries("actor"), y \in Entries("critic") :
               x.id = y.id => Follows(x.weights, y.weights)

\* No number on disk is ahead of the job, so that a save can never meet an old
\* checkpoint of its own number; between the two saves the actor's is one ahead.
NotAhead ==
    /\ pc = "stopped" => saving = [role \in Roles |-> NoCheckpoint]
    /\ pc # "stopped" =>
         /\ \A x \in Entries("actor") :
               x.id <= IF pc \in Stored \cup {"save_critic"} THEN rollout_id ELSE rollout_id - 1
         /\ UseCritic => \A y \in Entries("critic") :
               y.id <= IF pc \in Stored THEN rollout_id ELSE rollout_id - 1
    /\ pc = "save_critic" => \A x \in Entries("actor") : x.id = rollout_id => x.weights = actor

InStep == Live /\ Paired /\ NotAhead

LEMMA EntriesTyped ==
    ASSUME TypeOK, NEW role \in Roles
    PROVE  \A x \in Entries(role) : x \in Checkpoints /\ x.id \in Int /\ x.weights \in Seq(Ids)
  BY DEF TypeOK, Entries, Checkpoints, Weights, Ids, None

\* A save leaves the entries of its role where they are, moves them or adds
\* the latest weights; it leaves the other role alone.
LEMMA SavedEntries ==
    ASSUME TypeOK, NEW role \in Roles, NEW weights, SaveModel(role, weights)
    PROVE  /\ \A x \in {checkpoint'[role], saving'[role]} :
                 x \in Entries(role) \/ x = NoCheckpoint \/ x = [id |-> rollout_id, weights |-> weights]
           /\ \A other \in Roles \ {role} :
                 checkpoint'[other] = checkpoint[other] /\ saving'[other] = saving[other]
  <1> DEFINE latest == [id |-> rollout_id, weights |-> weights]
             final == ~AsyncSave \/ rollout_id = NumRollouts - 1
             previous == IF saving[role] = NoCheckpoint THEN checkpoint[role] ELSE saving[role]
  <1>1. previous \in Entries(role)
    BY DEF Entries
  <1>2. /\ checkpoint' = [checkpoint EXCEPT ![role] = IF final THEN latest ELSE previous]
        /\ saving' = [saving EXCEPT ![role] = IF final THEN NoCheckpoint ELSE latest]
    BY DEF SaveModel
  <1>3. DOMAIN checkpoint = Roles /\ DOMAIN saving = Roles
    BY DEF TypeOK
  <1> HIDE DEF latest, final, previous
  <1>4. checkpoint'[role] \in {latest, previous} /\ saving'[role] \in {NoCheckpoint, latest}
    BY <1>2, <1>3
  <1>5. \A other \in Roles \ {role} :
           checkpoint'[other] = checkpoint[other] /\ saving'[other] = saving[other]
    BY <1>2, <1>3
  <1> QED
    BY <1>1, <1>4, <1>5 DEF latest

LEMMA InitInStep == Init => InStep
  <1> SUFFICES ASSUME Init PROVE InStep
    OBVIOUS
  <1> USE TrainAssumption
  <1>1. Entries("actor") = {NoCheckpoint} /\ Entries("critic") = {NoCheckpoint}
    BY DEF Init, Entries, Roles
  <1>2. Len(NoCheckpoint.weights) = 0 /\ NoCheckpoint.id = -1
    BY DEF NoCheckpoint, None
  <1> QED
    BY <1>1, <1>2 DEF Init, InStep, Live, Paired, NotAhead, ActorSteps, Follows
\* What is on disk matters only to the steps that write there.
LEMMA SamePairs ==
    ASSUME Paired, UNCHANGED <<checkpoint, saving>>
    PROVE  Paired'
  BY DEF Paired, Entries

\* A new checkpoint of the actor, then one of the critic
LEMMA SaveActorInStep == TypeOK /\ InStep /\ SaveActor => InStep'
  <1> SUFFICES ASSUME TypeOK, InStep, SaveActor PROVE InStep'
    OBVIOUS
  <1> USE TrainAssumption
  <1> DEFINE new == [id |-> rollout_id, weights |-> actor]
  <1>1. /\ pc = "save" /\ pc' = IF UseCritic THEN "save_critic" ELSE "save_data"
        /\ UNCHANGED <<rollout_id, actor, critic>>
    BY DEF SaveActor, weightVars
  <1>2. /\ \A x \in {checkpoint'["actor"], saving'["actor"]} :
              x \in Entries("actor") \/ x = NoCheckpoint \/ x = new
        /\ checkpoint'["critic"] = checkpoint["critic"] /\ saving'["critic"] = saving["critic"]
    <2>1. CASE ActorTrains
      <3>1. SaveModel("actor", actor)
        BY <2>1 DEF SaveActor
      <3> QED
        BY <3>1, SavedEntries DEF Roles
    <2>2. CASE ~ActorTrains
      BY <2>2 DEF SaveActor, storeVars, Entries
    <2> QED
      BY <2>1, <2>2
  <1>3. rollout_id \in Nat
    BY <1>1 DEF TypeOK
  <1>4. /\ Entries("critic")' = Entries("critic")
        /\ \A x \in Entries("actor")' : x \in Entries("actor") \/ x = NoCheckpoint \/ x = new
    BY <1>2 DEF Entries
  <1>5. Len(NoCheckpoint.weights) = 0 /\ NoCheckpoint.id = -1
    BY DEF NoCheckpoint, None
  <1>6. new.id = rollout_id /\ new.weights = actor
    OBVIOUS
  <1>7. Len(actor) = ActorSteps(rollout_id + 1)
    BY <1>1 DEF InStep, Live, ActorRollouts, Trained
  <1> HIDE DEF new
  <1>8. /\ \A x \in Entries("actor") : x.id \in Int /\ x.id < rollout_id
        /\ UseCritic => \A y \in Entries("critic") : y.id \in Int /\ y.id < rollout_id
    BY <1>1, <1>3, EntriesTyped DEF InStep, NotAhead, Stored, Roles
  <1>9. Paired'
    <2>1. \A x \in Entries("actor")' : Len(x.weights) = ActorSteps(x.id + 1)
      BY <1>4, <1>5, <1>6, <1>7 DEF InStep, Paired, ActorSteps
    <2>2. UseCritic => \A y \in Entries("critic")' : Len(y.weights) = y.id + 1
      BY <1>4 DEF InStep, Paired
    <2>3. ASSUME UseCritic, NEW x \in Entries("actor")', NEW y \in Entries("critic")', x.id = y.id
          PROVE  Follows(x.weights, y.weights)
      <3>1. CASE x \in Entries("actor")
        BY <1>4, <2>3, <3>1 DEF InStep, Paired
      <3>2. CASE x = NoCheckpoint
        BY <1>5, <3>2 DEF Follows
      <3>3. CASE x = new
        BY <1>4, <1>6, <1>8, <2>3, <3>3
      <3> QED
        BY <1>4, <3>1, <3>2, <3>3
    <2> QED
      BY <2>1, <2>2, <2>3 DEF Paired, Follows
  <1>10. NotAhead'
    <2>1. /\ pc' # "stopped" /\ pc' \in Stored \cup {"save_critic"}
          /\ UseCritic => pc' \notin Stored
      BY <1>1 DEF Stored
    <2>2. \A x \in Entries("actor")' : x.id <= rollout_id
      BY <1>3, <1>4, <1>5, <1>6, <1>8
    <2>3. UseCritic => \A y \in Entries("critic")' : y.id <= rollout_id - 1
      BY <1>3, <1>4, <1>8
    <2>4. \A x \in Entries("actor")' : x.id = rollout_id => x.weights = actor
      BY <1>3, <1>4, <1>5, <1>6, <1>8
    <2> QED
      BY <1>1, <2>1, <2>2, <2>3, <2>4 DEF NotAhead
  <1>11. Live'
    BY <1>1, <1>3 DEF InStep, Live, Lineage, LineageRollouts, ActorRollouts, Trained, ActorTrains
  <1> QED
    BY <1>9, <1>10, <1>11 DEF InStep

LEMMA SaveCriticInStep == TypeOK /\ InStep /\ SaveCritic => InStep'
  <1> SUFFICES ASSUME TypeOK, InStep, SaveCritic PROVE InStep'
    OBVIOUS
  <1> USE TrainAssumption
  <1> DEFINE new == [id |-> rollout_id, weights |-> critic]
  <1>1. /\ pc = "save_critic" /\ pc' = "save_data"
        /\ UNCHANGED <<rollout_id, actor, critic>>
        /\ SaveModel("critic", critic)
    BY DEF SaveCritic, weightVars
  <1>2. UseCritic /\ rollout_id \in Nat
    BY <1>1 DEF InStep, Live, TypeOK
  <1>3. /\ Entries("actor")' = Entries("actor")
        /\ \A y \in Entries("critic")' : y \in Entries("critic") \/ y = NoCheckpoint \/ y = new
    BY <1>1, SavedEntries DEF Roles, Entries
  <1>4. NoCheckpoint.weights = <<>> /\ NoCheckpoint.id = -1
    BY DEF NoCheckpoint, None
  <1>5. new.id = rollout_id /\ new.weights = critic
    OBVIOUS
  <1> HIDE DEF new
  <1>6. /\ \A x \in Entries("actor") : x.id \in Int /\ x.id <= rollout_id
        /\ \A y \in Entries("critic") : y.id \in Int /\ y.id < rollout_id
    BY <1>1, <1>2, EntriesTyped DEF InStep, NotAhead, Stored, Roles
  <1>7. Len(critic) = rollout_id + 1 /\ Follows(actor, critic)
    BY <1>1, <1>2 DEF InStep, Live, Lineage, LineageRollouts, Trained
  <1>8. Paired'
    <2>1. \A x \in Entries("actor")' : Len(x.weights) = ActorSteps(x.id + 1)
      BY <1>3 DEF InStep, Paired
    <2>2. \A y \in Entries("critic")' : Len(y.weights) = y.id + 1
      BY <1>2, <1>3, <1>4, <1>5, <1>7 DEF InStep, Paired
    <2>3. ASSUME NEW x \in Entries("actor")', NEW y \in Entries("critic")', x.id = y.id
          PROVE  Follows(x.weights, y.weights)
      <3>1. CASE y \in Entries("critic")
        BY <1>2, <1>3, <2>3, <3>1 DEF InStep, Paired
      <3>2. CASE y = NoCheckpoint
        <4>1. Len(x.weights) = 0
          BY <1>4, <2>1, <2>3, <3>2 DEF ActorSteps
        <4> QED
          BY <4>1 DEF Follows
      <3>3. CASE y = new
        <4>1. x.weights = actor
          BY <1>1, <1>3, <1>5, <2>3, <3>3 DEF InStep, NotAhead
        <4> QED
          BY <1>5, <1>7, <3>3, <4>1
      <3> QED
        BY <1>3, <3>1, <3>2, <3>3
    <2> QED
      BY <2>1, <2>2, <2>3 DEF Paired, Follows
  <1>9. NotAhead'
    <2>1. \A x \in Entries("actor")' : x.id <= rollout_id
      BY <1>3, <1>6
    <2>2. \A y \in Entries("critic")' : y.id <= rollout_id
      BY <1>2, <1>3, <1>4, <1>5, <1>6
    <2> QED
      BY <1>1, <2>1, <2>2 DEF NotAhead, Stored
  <1>10. Live'
    BY <1>1, <1>2 DEF InStep, Live, Lineage, LineageRollouts, ActorRollouts, Trained, ActorTrains
  <1> QED
    BY <1>8, <1>9, <1>10 DEF InStep

\* The steps of the driver that neither train nor save
LEMMA MovesInStep ==
    ASSUME TypeOK, InStep, UNCHANGED <<actor, critic, checkpoint, saving>>,
           \/ EvalBeforeTraining \/ RequestFirst \/ SyncLast \/ StartNext
           \/ SaveDataSource \/ UpdateWeights \/ EvalRollout \/ NextRollout \/ Finish
    PROVE  InStep'
  <1> USE TrainAssumption
  <1>1. Paired'
    BY SamePairs DEF InStep
  <1>2. Entries("actor")' = Entries("actor") /\ Entries("critic")' = Entries("critic")
    BY DEF Entries
  <1>3. \/ /\ rollout_id' = rollout_id
           /\ \/ pc \in {"before", "eval_before", "loop", "submit"} /\
                 pc' \in {"eval_before", "loop", "submit", "done"}
              \/ pc = "submit" /\ pc' = IF UseCritic THEN "train_critic" ELSE "train_actor"
              \/ pc \in Trained \ {"save_critic"} /\ pc' \in Stored
        \/ /\ rollout_id' = rollout_id + 1
           /\ pc \in Trained \ {"save_critic"} /\ pc' = "loop"
    BY DEF EvalBeforeTraining, RequestFirst, SyncLast, StartNext, SaveDataSource, UpdateWeights,
           EvalRollout, NextRollout, Finish, Updated, Saved, Trained, Stored
  <1>4. pc # "stopped" /\ rollout_id \in Nat
    BY <1>3 DEF Trained, TypeOK
  <1>5. Live'
    BY <1>3, <1>4 DEF InStep, Live, Lineage, LineageRollouts, ActorRollouts, Trained, Stored,
                      ActorTrains, Follows
  <1>6. /\ \A x \in Entries("actor") : x.id \in Int
        /\ \A y \in Entries("critic") : y.id \in Int
    BY EntriesTyped DEF Roles
  <1>7. NotAhead'
    BY <1>2, <1>3, <1>4, <1>6 DEF InStep, NotAhead, Trained, Stored
  <1> QED
    BY <1>1, <1>5, <1>7 DEF InStep
\* A job starts with a pair of checkpoints of the same number.
LEMMA StartInStep == TypeOK /\ InStep /\ StartJob => InStep'
  <1> SUFFICES ASSUME TypeOK, InStep, StartJob PROVE InStep'
    OBVIOUS
  <1> USE TrainAssumption
  <1>1. /\ pc = "stopped" /\ pc' = "before" /\ Resumable
        /\ rollout_id' = StartId
        /\ actor' = checkpoint["actor"].weights /\ critic' = checkpoint["critic"].weights
        /\ UNCHANGED <<checkpoint, saving>>
    BY DEF StartJob, storeVars
  <1>2. Paired'
    BY <1>1, SamePairs DEF InStep
  <1>3. /\ checkpoint["actor"] \in Entries("actor") /\ checkpoint["actor"].id \in Int
        /\ checkpoint["critic"] \in Entries("critic") /\ checkpoint["critic"].id \in Int
    BY EntriesTyped DEF Entries, Roles
  <1>4. saving["actor"].id = -1 /\ saving["critic"].id = -1
    BY <1>1 DEF InStep, NotAhead, Roles, NoCheckpoint, None
  <1>5. StartId \in Nat
    BY StartIdTyped
  <1>6. /\ checkpoint["actor"].id = StartId - 1
        /\ UseCritic => checkpoint["critic"].id = StartId - 1
    BY <1>1, <1>3 DEF Resumable, StartId, Tracked
  <1>7. Live'
    <2>1. /\ Len(actor') = ActorSteps(StartId)
          /\ UseCritic => Len(critic') = StartId /\ Follows(actor', critic')
      BY <1>1, <1>3, <1>5, <1>6 DEF InStep, Paired
    <2> QED
      BY <1>1, <1>5, <2>1 DEF Live, Lineage, LineageRollouts, ActorRollouts, Trained, ActorSteps
  <1>8. NotAhead'
    <2>1. \A x \in Entries("actor")' : x.id <= StartId - 1
      BY <1>1, <1>4, <1>5, <1>6 DEF Entries
    <2>2. UseCritic => \A y \in Entries("critic")' : y.id <= StartId - 1
      BY <1>1, <1>4, <1>5, <1>6 DEF Entries
    <2> QED
      BY <1>1, <2>1, <2>2 DEF NotAhead, Stored
  <1> QED
    BY <1>2, <1>7, <1>8 DEF InStep

\* A kill forgets the saves that are not final, and nothing else on disk.
LEMMA CrashInStep == TypeOK /\ InStep /\ Crash => InStep'
  <1> SUFFICES ASSUME TypeOK, InStep, Crash PROVE InStep'
    OBVIOUS
  <1> USE TrainAssumption
  <1>1. /\ pc' = "stopped" /\ UNCHANGED checkpoint
        /\ saving' = [role \in Roles |-> NoCheckpoint]
    BY DEF Crash
  <1>2. \A role \in Roles : \A x \in {checkpoint'[role], saving'[role]} :
           x \in Entries(role) \/ x = NoCheckpoint
    BY <1>1 DEF Entries
  <1>3. /\ \A x \in Entries("actor")' : x \in Entries("actor") \/ x = NoCheckpoint
        /\ \A y \in Entries("critic")' : y \in Entries("critic") \/ y = NoCheckpoint
    BY <1>2 DEF Entries, Roles
  <1>4. Len(NoCheckpoint.weights) = 0 /\ NoCheckpoint.id = -1
    BY DEF NoCheckpoint, None
  <1>5. \A x \in Entries("actor")' : Len(x.weights) = ActorSteps(x.id + 1)
    BY <1>3, <1>4 DEF InStep, Paired, ActorSteps
  <1>6. UseCritic => \A y \in Entries("critic")' : Len(y.weights) = y.id + 1
    BY <1>3, <1>4 DEF InStep, Paired
  <1>7. ASSUME UseCritic, NEW x \in Entries("actor")', NEW y \in Entries("critic")', x.id = y.id
        PROVE  Follows(x.weights, y.weights)
    <2>1. CASE x.id = -1
      <3>1. Len(x.weights) = 0
        BY <1>5, <2>1 DEF ActorSteps
      <3> QED
        BY <3>1 DEF Follows
    <2>2. CASE x.id # -1
      BY <1>3, <1>4, <1>7, <2>2 DEF InStep, Paired
    <2> QED
      BY <2>1, <2>2
  <1>8. Paired'
    BY <1>5, <1>6, <1>7 DEF Paired, Follows
  <1> QED
    BY <1>1, <1>8 DEF InStep, Live, NotAhead

LEMMA TrainInStep == TypeOK /\ InStep /\ (TrainCritic \/ TrainActor) => InStep'
  <1> SUFFICES ASSUME TypeOK, InStep, TrainCritic \/ TrainActor PROVE InStep'
    OBVIOUS
  <1> USE TrainAssumption
  <1>1. UNCHANGED <<rollout_id, checkpoint, saving>>
    BY DEF TrainCritic, TrainActor, storeVars
  <1>2. Paired'
    BY <1>1, SamePairs DEF InStep
  <1>3. Entries("actor")' = Entries("actor") /\ Entries("critic")' = Entries("critic")
    BY <1>1 DEF Entries
  <1>4. NotAhead'
    BY <1>1, <1>3 DEF InStep, NotAhead, TrainCritic, TrainActor, Stored
  <1>5. rollout_id \in Nat /\ actor \in Seq(Ids) /\ critic \in Seq(Ids)
    BY DEF TypeOK, Weights, TrainCritic, TrainActor
  <1>6. CASE TrainCritic
    <2>1. /\ pc = "train_critic" /\ UseCritic
          /\ pc' = IF rollout_id >= NumCriticOnlySteps THEN "train_actor" ELSE "save"
          /\ critic' = Append(critic, curr.batch) /\ actor' = actor
      BY <1>6 DEF TrainCritic, InStep, Live, ActorTrains
    <2>2. /\ Len(critic) = rollout_id /\ Len(actor) = ActorSteps(rollout_id)
          /\ Follows(actor, critic)
      BY <2>1 DEF InStep, Live, Lineage, LineageRollouts, ActorRollouts, Trained
    <2>3. /\ Len(critic') = rollout_id + 1
          /\ \A i \in 1 .. rollout_id : critic'[i] = critic[i]
          /\ critic'[rollout_id + 1] = curr.batch /\ curr' = curr
      BY <1>5, <1>6, <2>1, <2>2 DEF TrainCritic
    <2>4. Follows(actor, critic')
      <3>1. \A i \in 1 .. Len(actor) : NumCriticOnlySteps + i \in 1 .. rollout_id
        BY <1>5, <2>1, <2>2 DEF ActorSteps
      <3> QED
        BY <2>2, <2>3, <3>1 DEF Follows
    <2>5. Len(actor) = IF pc' \in Trained THEN ActorSteps(rollout_id + 1) ELSE ActorSteps(rollout_id)
      BY <1>5, <2>1, <2>2 DEF ActorSteps, Trained
    <2>6. Live'
      BY <1>1, <1>5, <2>1, <2>3, <2>4, <2>5
      DEF Live, Lineage, LineageRollouts, ActorRollouts, Trained, ActorTrains
    <2> QED
      BY <1>2, <1>4, <2>6 DEF InStep
  <1>7. CASE TrainActor
    <2>1. /\ pc = "train_actor" /\ pc' = "save" /\ critic' = critic
          /\ actor' = Append(actor, curr.batch)
          /\ UseCritic => rollout_id >= NumCriticOnlySteps
      BY <1>7 DEF TrainActor, InStep, Live, ActorTrains
    <2>2. Len(actor) = ActorSteps(rollout_id)
      BY <2>1 DEF InStep, Live, ActorRollouts, Trained
    <2>3. /\ Len(actor') = Len(actor) + 1
          /\ \A i \in 1 .. Len(actor) : actor'[i] = actor[i]
          /\ actor'[Len(actor) + 1] = curr.batch
      BY <1>5, <2>1
    <2>4. Len(actor') = ActorSteps(rollout_id + 1)
      BY <1>5, <2>1, <2>2, <2>3 DEF ActorSteps
    <2>5. UseCritic => Len(critic) = rollout_id + 1 /\ Follows(actor, critic)
      BY <2>1 DEF InStep, Live, Lineage, LineageRollouts
    <2>6. UseCritic => Follows(actor', critic')
      <3> SUFFICES ASSUME UseCritic, NEW i \in 1 .. Len(actor')
                   PROVE  actor'[i] = critic'[NumCriticOnlySteps + i]
        BY DEF Follows
      <3>1. CASE i \in 1 .. Len(actor)
        BY <2>1, <2>3, <2>5, <3>1 DEF Follows
      <3>2. CASE i = Len(actor) + 1
        <4>1. NumCriticOnlySteps + i = rollout_id + 1
          BY <1>5, <2>1, <2>2, <3>2 DEF ActorSteps
        <4> QED
          BY <2>1, <2>3, <3>2, <4>1 DEF InStep, Live
      <3> QED
        BY <1>5, <2>3, <3>1, <3>2
    <2> QED
      BY <1>1, <1>2, <1>4, <1>5, <2>1, <2>3, <2>4, <2>5, <2>6
      DEF InStep, Live, Lineage, LineageRollouts, ActorRollouts, Trained, ActorTrains, ActorSteps
  <1> QED
    BY <1>6, <1>7
\* The other steps touch neither the weights nor the disk, nor the phase.
LEMMA ManagerInStep == InStep /\ (Manager \/ UNCHANGED vars) => InStep'
  <1> SUFFICES ASSUME InStep, Manager \/ UNCHANGED vars PROVE InStep'
    OBVIOUS
  <1>1. UNCHANGED <<pc, rollout_id, curr, actor, critic, checkpoint, saving>>
    BY DEF Manager, BeginGenerate, EndGenerate, ServeSave, ServeEval, driverVars, weightVars,
           storeVars, vars
  <1> QED
    BY <1>1 DEF InStep, Live, Lineage, LineageRollouts, ActorRollouts, ActorTrains, Follows,
                Paired, NotAhead, Entries

LEMMA NextInStep == TypeOK /\ InStep /\ [Next]_vars => InStep'
  <1> SUFFICES ASSUME TypeOK, InStep, [Next]_vars PROVE InStep'
    OBVIOUS
  <1> DEFINE Moves == \/ EvalBeforeTraining \/ RequestFirst \/ SyncLast \/ StartNext
                      \/ SaveDataSource \/ UpdateWeights \/ EvalRollout \/ NextRollout \/ Finish
  <1>1. CASE Moves
    <2>1. UNCHANGED <<actor, critic, checkpoint, saving>>
      BY <1>1 DEF EvalBeforeTraining, RequestFirst, SyncLast, StartNext, SaveDataSource,
                  UpdateWeights, EvalRollout, NextRollout, Finish, weightVars, storeVars
    <2> QED
      BY <1>1, <2>1, MovesInStep
  <1>2. CASE StartJob \/ Crash
    BY <1>2, StartInStep, CrashInStep
  <1>3. CASE TrainCritic \/ TrainActor \/ SaveActor \/ SaveCritic
    BY <1>3, TrainInStep, SaveActorInStep, SaveCriticInStep
  <1>4. CASE Manager \/ UNCHANGED vars
    BY <1>4, ManagerInStep
  <1> QED
    BY <1>1, <1>2, <1>3, <1>4 DEF Next, Driver

LEMMA InvariantInStep == Spec => []InStep
  <1> QED
    BY InitInStep, NextInStep, TypesHold, PTL DEF Spec

\* Resuming never pairs checkpoints of different rollouts (the test of the
\* tracker files in scripts/run-qwen3-4B-sao-fifo.sh, with save_model's
\* asynchronous saves): the actor has always learned from what the critic has
\* learned from, less the critic-only steps.
THEOREM ActorFollowsCritic == Spec => []ModelsInStep
  <1>1. TypeOK /\ InStep => ModelsInStep
    <2> SUFFICES ASSUME TypeOK, InStep, UseCritic, pc = "loop"
                 PROVE  actor = SubSeq(critic, NumCriticOnlySteps + 1, Len(critic))
      BY DEF ModelsInStep
    <2> USE TrainAssumption
    <2>1. rollout_id \in Nat /\ actor \in Seq(Ids) /\ critic \in Seq(Ids)
      BY DEF TypeOK, Weights
    <2>2. /\ Len(critic) = rollout_id /\ Len(actor) = ActorSteps(rollout_id)
          /\ Follows(actor, critic)
      BY DEF InStep, Live, Lineage, LineageRollouts, ActorRollouts, Trained
    <2> DEFINE rest == SubSeq(critic, NumCriticOnlySteps + 1, Len(critic))
    <2>3. CASE rollout_id <= NumCriticOnlySteps
      <3>1. actor = <<>>
        BY <2>1, <2>2, <2>3 DEF ActorSteps
      <3>2. rest = <<>>
        BY <2>1, <2>2, <2>3
      <3> QED
        BY <3>1, <3>2
    <2>4. CASE rollout_id > NumCriticOnlySteps
      <3>1. Len(actor) = rollout_id - NumCriticOnlySteps
        BY <2>1, <2>2, <2>4 DEF ActorSteps
      <3>2. /\ rest \in Seq(Ids)
            /\ Len(rest) = rollout_id - NumCriticOnlySteps
            /\ \A i \in 1 .. Len(rest) : rest[i] = critic[NumCriticOnlySteps + i]
        <4>1. \A i \in NumCriticOnlySteps + 1 .. Len(critic) : critic[i] \in Ids
          BY <2>1
        <4>2. /\ rest \in Seq(Ids)
              /\ Len(rest) = Len(critic) - NumCriticOnlySteps
              /\ \A i \in 1 .. Len(critic) - (NumCriticOnlySteps + 1) + 1 :
                    rest[i] = critic[(NumCriticOnlySteps + 1) + i - 1]
          BY <2>1, <2>2, <2>4, <4>1, SubSeqProperties
        <4>3. /\ Len(critic) - NumCriticOnlySteps = rollout_id - NumCriticOnlySteps
              /\ Len(critic) \in Nat /\ NumCriticOnlySteps \in Nat
          BY <2>1, <2>2
        <4>4. \A i \in Int : (NumCriticOnlySteps + 1) + i - 1 = NumCriticOnlySteps + i
          BY <4>3
        <4>5. Len(critic) - (NumCriticOnlySteps + 1) + 1 = rollout_id - NumCriticOnlySteps
          BY <4>3
        <4> HIDE DEF rest
        <4>6. Len(rest) = rollout_id - NumCriticOnlySteps
          BY <4>2, <4>3
        <4>7. ASSUME NEW i \in 1 .. Len(rest)
              PROVE  rest[i] = critic[NumCriticOnlySteps + i]
          <5>1. i \in Int /\ i \in 1 .. Len(critic) - (NumCriticOnlySteps + 1) + 1
            BY <4>5, <4>6
          <5>2. rest[i] = critic[(NumCriticOnlySteps + 1) + i - 1]
            BY <4>2, <5>1
          <5> QED
            BY <4>4, <5>1, <5>2
        <4> QED
          BY <4>2, <4>6, <4>7
      <3> HIDE DEF rest
      <3>3. \A i \in 1 .. Len(actor) : actor[i] = rest[i]
        BY <2>2, <3>1, <3>2 DEF Follows
      <3>4. actor = rest
        BY <2>1, <3>1, <3>2, <3>3, SeqEqual
      <3> QED
        BY <3>4 DEF rest
    <2> QED
      BY <2>1, <2>3, <2>4
  <1> QED
    BY <1>1, InvariantInStep, TypesHold, PTL

(***************************************************************************)
(* Staleness                                                               *)
(***************************************************************************)
\* Weights of e actor steps contain every weight update up to rollout n.
Covers(e, n) == \A m \in 0 .. n : m % UpdateWeightsInterval = 0 => e >= ActorSteps(m)

Fresh(b) == Covers(b.began, b.id - 1)

\* The engines have every update of the rollouts before this one, and behind
\* the update of this one that as well; a batch is generated no more than one
\* rollout ahead.
Current ==
    /\ pc # "stopped" => Covers(engine, rollout_id)
    /\ pc \in {"updated", "eval"} => Covers(engine, rollout_id + 1)
    /\ Fresh(generating)
    /\ \A r \in DOMAIN results : Fresh(results[r])
    /\ Fresh(curr)

\* The last update before rollout r is at most an interval back.
LEMMA LastUpdate ==
    ASSUME NEW r \in Nat \ {0}
    PROVE  \E m \in 0 .. r - 1 : m % UpdateWeightsInterval = 0 /\ r - m <= UpdateWeightsInterval
  <1> DEFINE U == UpdateWeightsInterval
             m == U * ((r - 1) \div U)
  <1>0. U \in Nat \ {0}
    BY TrainAssumption
  <1>1. m % U = 0
    BY <1>0, Z3
  <1>2. m = (r - 1) - ((r - 1) % U) /\ m \in Int
    BY <1>0
  <1>3. (r - 1) % U \in 0 .. U - 1
    BY <1>0
  <1>4. m >= 0
    BY <1>0, Z3
  <1> QED
    BY <1>0, <1>1, <1>2, <1>3, <1>4

LEMMA NoBatchFresh == Fresh(NoBatch)
  BY DEF Fresh, NoBatch, None, Covers

LEMMA StepsMonotone ==
    ASSUME NEW m \in Nat, NEW n \in Nat, m <= n
    PROVE  /\ ActorSteps(m) \in Nat /\ ActorSteps(m) <= ActorSteps(n)
           /\ ActorSteps(n) - ActorSteps(m) <= n - m
  BY TrainAssumption DEF ActorSteps

\* Weights of all steps before rollout n contain every update up to there.
LEMMA CoversAll ==
    ASSUME NEW n \in Nat
    PROVE  Covers(ActorSteps(n), n)
  <1> SUFFICES ASSUME NEW m \in 0 .. n PROVE ActorSteps(n) >= ActorSteps(m)
    BY DEF Covers
  <1> QED
    BY StepsMonotone

LEMMA CoversLess ==
    ASSUME NEW e \in Int, NEW n \in Int, NEW k \in Int, k <= n, Covers(e, n)
    PROVE  Covers(e, k)
  BY DEF Covers

\* A rollout that ends without an update had none to make.
LEMMA NoUpdateDue ==
    ASSUME NEW e \in Nat, rollout_id \in Nat, Covers(e, rollout_id), ~UpdateDue
    PROVE  Covers(e, rollout_id + 1)
  <1> USE TrainAssumption
  <1> SUFFICES ASSUME NEW m \in 0 .. rollout_id + 1, m % UpdateWeightsInterval = 0
               PROVE  e >= ActorSteps(m)
    BY DEF Covers
  <1>1. CASE m <= rollout_id
    BY <1>1 DEF Covers
  <1>2. CASE m = rollout_id + 1
    <2>1. ~ActorTrains
      BY <1>2 DEF UpdateDue
    <2>2. UseCritic /\ m <= NumCriticOnlySteps
      BY <1>2, <2>1 DEF ActorTrains
    <2> QED
      BY <2>2 DEF ActorSteps
  <1> QED
    BY <1>1, <1>2

LEMMA InitCurrent == Init => Current
  BY NoBatchFresh DEF Init, Current

LEMMA NextCurrent == TypeOK /\ Protocol /\ InStep /\ Current /\ [Next]_vars => Current'
  <1> SUFFICES ASSUME TypeOK, Protocol, InStep, Current, [Next]_vars PROVE Current'
    OBVIOUS
  <1> USE TrainAssumption
  <1>0. /\ engine \in Nat /\ calls \in Seq(Calls) /\ next_future \in Int
        /\ pc # "stopped" => rollout_id \in Nat
    BY DEF TypeOK, Ids, None
  <1>1. CASE StartJob
    <2>1. /\ pc' = "before" /\ rollout_id' = StartId /\ engine' = Len(actor')
          /\ UNCHANGED <<generating, results, curr>>
      BY <1>1 DEF StartJob
    <2>2. Len(actor') = ActorSteps(StartId) /\ StartId \in Nat
      BY <1>1, <2>1, StartInStep, StartIdTyped DEF InStep, Live, ActorRollouts, Trained
    <2>3. Covers(engine', rollout_id')
      BY <2>1, <2>2, CoversAll
    <2> QED
      BY <2>1, <2>3 DEF Current
  <1>2. CASE Crash
    BY <1>2, NoBatchFresh DEF Crash, Current
  <1>3. CASE BeginGenerate
    <2>1. /\ 1 \in Generates /\ calls[1] = Head(calls)
          /\ generating' = [id |-> Head(calls).id, batch |-> cursor, began |-> engine, ended |-> None]
          /\ UNCHANGED <<pc, rollout_id, engine, results, curr>>
      BY <1>0, <1>3, HeadGenerates DEF BeginGenerate, driverVars, weightVars
    <2>2. generating'.id = next_future /\ generating'.began = engine
      BY <2>1 DEF Protocol, OneFuture
    <2>3. pc # "stopped" /\ next_future <= rollout_id + 1
      BY <1>0, <2>1 DEF Protocol, Clean, Generates, OneAhead, Latest
    <2>4. Covers(engine, next_future - 1)
      BY <1>0, <2>3, CoversLess DEF Current
    <2> QED
      BY <2>1, <2>2, <2>4 DEF Current, Fresh
  <1>4. CASE EndGenerate
    <2> DEFINE id == generating.id
               done == [generating EXCEPT !.ended = engine]
    <2>1. /\ results' = [r \in DOMAIN results \cup {id} |-> IF r = id THEN done ELSE results[r]]
          /\ generating' = NoBatch /\ UNCHANGED <<pc, rollout_id, engine, curr>>
      BY <1>4 DEF EndGenerate, driverVars, weightVars
    <2>2. done.id = generating.id /\ done.began = generating.began
      BY DEF TypeOK, Batches
    <2>3. \A r \in DOMAIN results' : results'[r] = done \/ (r \in DOMAIN results /\ results'[r] = results[r])
      <3> HIDE DEF done, id
      <3> QED
        BY <2>1
    <2> HIDE DEF done, id
    <2>4. Fresh(done)
      BY <2>2 DEF Current, Fresh
    <2> QED
      BY <2>1, <2>3, <2>4, NoBatchFresh DEF Current
  <1>5. CASE SyncLast
    <2>1. /\ curr' = curr \/ (next_future \in DOMAIN results /\ curr' = results[next_future])
          /\ pc = "loop" /\ pc' = "submit" /\ UNCHANGED <<rollout_id, engine, generating, results>>
      BY <1>5 DEF SyncLast, managerVars, weightVars
    <2> QED
      BY <2>1 DEF Current, Fresh
  <1>6. CASE UpdateWeights
    <2>1. /\ curr' = NoBatch \/ (next_future \in DOMAIN results /\ curr' = results[next_future])
          /\ pc \in Trained /\ pc' = "updated" /\ engine' = Len(actor)
          /\ UNCHANGED <<rollout_id, generating, results>>
      BY <1>6 DEF UpdateWeights, Saved, Trained, managerVars
    <2>2. engine' = ActorSteps(rollout_id + 1) /\ rollout_id \in Nat
      BY <1>0, <2>1 DEF InStep, Live, ActorRollouts, Trained
    <2>3. Covers(engine', rollout_id + 1) /\ Covers(engine', rollout_id)
      BY <2>2, CoversAll, CoversLess, StepsMonotone
    <2> QED
      BY <2>1, <2>3, NoBatchFresh DEF Current, Fresh
  <1>7. CASE EvalRollout \/ NextRollout
    <2>1. /\ UNCHANGED <<engine, generating, results, curr>>
          /\ pc # "stopped" /\ (pc \in {"updated", "eval"} \/ ~UpdateDue)
          /\ \/ pc' = "eval" /\ rollout_id' = rollout_id
             \/ pc' = "loop" /\ rollout_id' = rollout_id + 1
      BY <1>7 DEF EvalRollout, NextRollout, Updated, Saved, weightVars, managerVars
    <2>2. Covers(engine, rollout_id + 1)
      BY <1>0, <2>1, NoUpdateDue DEF Current
    <2> QED
      BY <2>1, <2>2 DEF Current, Fresh
  <1>8. CASE \/ EvalBeforeTraining \/ RequestFirst \/ StartNext \/ TrainCritic \/ TrainActor
             \/ SaveActor \/ SaveCritic \/ SaveDataSource \/ Finish
    <2>1. /\ UNCHANGED <<rollout_id, engine, generating, results, curr>>
          /\ pc # "stopped" /\ pc' \notin {"updated", "eval"}
      BY <1>8 DEF EvalBeforeTraining, RequestFirst, StartNext, TrainCritic, TrainActor, SaveActor,
                  SaveCritic, SaveDataSource, Finish, weightVars, managerVars
    <2> QED
      BY <2>1 DEF Current, Fresh
  <1>9. CASE ServeSave \/ ServeEval \/ UNCHANGED vars
    <2>1. UNCHANGED <<pc, rollout_id, engine, generating, results, curr>>
      BY <1>9 DEF ServeSave, ServeEval, vars, driverVars, managerVars, weightVars
    <2> QED
      BY <2>1 DEF Current, Fresh
  <1> QED
    BY <1>1, <1>2, <1>3, <1>4, <1>5, <1>6, <1>7, <1>8, <1>9 DEF Next, Manager, Driver

LEMMA InvariantCurrent == Spec => []Current
  <1> QED
    BY InitCurrent, NextCurrent, Invariants, InvariantInStep, PTL DEF Spec

\* However far a save interval, an epoch and a kill fall apart: a batch is at
\* most update_weights_interval actor steps behind the actor that trains on it
\* (train_async.py:53-60 asks for it one rollout early, 88-93 updates).
THEOREM BoundedStaleness == Spec => []StalenessBound
  <1>1. TypeOK /\ Protocol /\ InStep /\ Current => StalenessBound
    <2> SUFFICES ASSUME TypeOK, Protocol, InStep, Current, pc = "train_actor"
                 PROVE  Len(actor) - curr.began <= UpdateWeightsInterval
      BY DEF StalenessBound
    <2> USE TrainAssumption
    <2>1. rollout_id \in Nat /\ curr.began \in Int /\ curr.began >= -1
      BY DEF TypeOK, Batches, Ids, None
    <2>2. Len(actor) = ActorSteps(rollout_id)
      BY DEF InStep, Live, ActorRollouts, Trained
    <2>3. Covers(curr.began, rollout_id - 1)
      BY DEF Current, Fresh, Protocol, Future, Early
    <2>4. CASE rollout_id = 0
      BY <2>1, <2>2, <2>4 DEF ActorSteps
    <2>5. CASE rollout_id # 0
      <3>1. PICK m \in 0 .. rollout_id - 1 : /\ m % UpdateWeightsInterval = 0
                                            /\ rollout_id - m <= UpdateWeightsInterval
        BY <2>1, <2>5, LastUpdate
      <3>2. curr.began >= ActorSteps(m)
        BY <2>3, <3>1 DEF Covers
      <3>3. /\ ActorSteps(m) \in Nat /\ ActorSteps(rollout_id) \in Nat
            /\ ActorSteps(rollout_id) - ActorSteps(m) <= rollout_id - m
        BY <2>1, <2>5, StepsMonotone
      <3> QED
        BY <2>1, <2>2, <3>1, <3>2, <3>3
    <2> QED
      BY <2>4, <2>5
  <1> QED
    BY <1>1, Invariants, InvariantInStep, InvariantCurrent, PTL
(***************************************************************************)
(* A job that is never killed                                              *)
(***************************************************************************)
\* Rollouts requested from the manager so far
Requested ==
    IF pc \in {"stopped", "before", "eval_before"} THEN 0
    ELSE IF Latest + 1 < NumRollouts THEN Latest + 1 ELSE NumRollouts

Own(b) == b.batch = b.id

\* The cursor has moved once for every request the manager has taken up, so the
\* batch of rollout r is the r-th, wherever it is; the tracked model has learned
\* from one after the other.
Ordered ==
    crashes = 0 =>
        /\ pc = "stopped" => /\ checkpoint = [role \in Roles |-> NoCheckpoint]
                             /\ DOMAIN state_dicts = {}
        /\ pc \in {"before", "eval_before"} => rollout_id = 0
        /\ pc # "stopped" => rollout_id <= NumRollouts
        /\ pc \in Early \cup {"submit"} => rollout_id < NumRollouts
        /\ pc = "done" => rollout_id = NumRollouts /\ calls = <<>>
        /\ cursor = IF generating = NoBatch /\ Generates # {} THEN Requested - 1 ELSE Requested
        /\ \A i \in Generates : calls[i].id = Requested - 1
        /\ Own(generating) /\ Own(curr) /\ \A r \in DOMAIN results : Own(results[r])
        /\ \A i \in DOMAIN Lineage : Lineage[i] = i - 1

LEMMA NoBatchOwn == Own(NoBatch)
  BY DEF Own, NoBatch

LEMMA InitOrdered == Init => Ordered
  <1> SUFFICES ASSUME Init PROVE Ordered
    OBVIOUS
  <1>1. Generates = {} /\ Lineage = <<>> /\ DOMAIN results = {} /\ DOMAIN state_dicts = {}
    BY DEF Init, Generates, Lineage
  <1> QED
    BY <1>1, NoBatchOwn DEF Init, Ordered, Requested, Early

LEMMA NextOrdered ==
    NumRollouts # 0 /\ TypeOK /\ Protocol /\ InStep /\ Ordered /\ [Next]_vars => Ordered'
  <1> SUFFICES ASSUME NumRollouts # 0, TypeOK, Protocol, InStep, Ordered, [Next]_vars,
                      crashes' = 0
               PROVE  Ordered'
    BY DEF Ordered
  <1> USE TrainAssumption
  <1>0. /\ calls \in Seq(Calls) /\ next_future \in Int /\ rollout_id \in Int /\ cursor \in Nat
        /\ pc # "stopped" => rollout_id \in Nat
        /\ actor \in Seq(Ids) /\ critic \in Seq(Ids) /\ crashes \in Nat
    <2>1. calls \in Seq(Calls) /\ cursor \in Nat /\ crashes \in Nat
      BY DEF TypeOK
    <2>2. actor \in Seq(Ids) /\ critic \in Seq(Ids)
      BY DEF TypeOK, Weights
    <2>3. /\ next_future \in Int /\ rollout_id \in Int
          /\ pc # "stopped" => rollout_id \in Nat
      BY DEF TypeOK, Ids, None
    <2> QED
      BY <2>1, <2>2, <2>3
  <1>1. crashes = 0 /\ ~Crash
    <2>1. Crash => crashes' = crashes + 1
      BY DEF Crash
    <2>2. Manager => crashes' = crashes
      BY DEF Manager, BeginGenerate, EndGenerate, ServeSave, ServeEval
    <2>3. StartJob \/ EvalBeforeTraining \/ RequestFirst \/ SyncLast \/ StartNext \/ TrainCritic
             \/ TrainActor => crashes' = crashes
      BY DEF StartJob, EvalBeforeTraining, RequestFirst, SyncLast, StartNext, TrainCritic, TrainActor
    <2>4. SaveActor \/ SaveCritic \/ SaveDataSource \/ UpdateWeights \/ EvalRollout \/ NextRollout
             \/ Finish => crashes' = crashes
      BY DEF SaveActor, SaveCritic, SaveDataSource, UpdateWeights, EvalRollout, NextRollout, Finish
    <2>5. crashes' = crashes \/ Crash
      BY <2>2, <2>3, <2>4 DEF Next, Driver, vars
    <2> QED
      BY <1>0, <2>1, <2>5
  <1>2. generating # NoBatch => Generates # {}
    BY <1>0, HeadGenerates DEF Protocol, Busy
  <1>3. CASE StartJob
    <2>1. /\ pc = "stopped" /\ pc' = "before" /\ rollout_id' = StartId /\ cursor' = LoadedCursor
          /\ actor' = checkpoint["actor"].weights /\ critic' = checkpoint["critic"].weights
          /\ calls = <<>> /\ generating = NoBatch /\ DOMAIN results = {}
          /\ UNCHANGED <<calls, generating, results, curr>>
      BY <1>3 DEF StartJob, Protocol, Clean
    <2>2. checkpoint = [role \in Roles |-> NoCheckpoint] /\ DOMAIN state_dicts = {}
      BY <1>1, <2>1 DEF Ordered
    <2>3. StartId = 0 /\ LoadedCursor = 0 /\ actor' = <<>> /\ critic' = <<>>
      BY <2>1, <2>2 DEF StartId, LoadedCursor, Tracked, Roles, NoCheckpoint, None
    <2>4. Generates' = {} /\ Lineage' = <<>>
      BY <2>1, <2>3 DEF Generates, Lineage
    <2> QED
      BY <1>1, <2>1, <2>3, <2>4 DEF Ordered, Requested, Early
  <1>4. CASE BeginGenerate
    <2>1. /\ 1 \in Generates /\ calls[1] = Head(calls) /\ generating = NoBatch
          /\ generating' = [id |-> Head(calls).id, batch |-> cursor, began |-> engine, ended |-> None]
          /\ cursor' = cursor + 1 /\ UNCHANGED <<driverVars, calls, results, actor, critic, checkpoint, state_dicts>>
      BY <1>0, <1>4, HeadGenerates DEF BeginGenerate, weightVars, storeVars
    <2>2. cursor = Requested - 1 /\ Head(calls).id = cursor
      BY <1>1, <2>1 DEF Ordered
    <2>3. generating' # NoBatch /\ Own(generating')
      BY <1>0, <2>1, <2>2 DEF NoBatch, None, Own
    <2>4. Requested' = Requested /\ Generates' = Generates /\ Lineage' = Lineage
      BY <2>1 DEF Requested, Latest, Generates, Lineage, driverVars
    <2>5. Requested \in Int
      BY <1>0 DEF Requested, Latest
    <2> QED
      BY <1>0, <1>1, <2>1, <2>2, <2>3, <2>4, <2>5 DEF Ordered, driverVars
  <1>5. CASE EndGenerate
    <2> DEFINE id == generating.id
               done == [generating EXCEPT !.ended = engine]
    <2>1. /\ results' = [r \in DOMAIN results \cup {id} |-> IF r = id THEN done ELSE results[r]]
          /\ generating # NoBatch /\ generating' = NoBatch /\ calls' = Tail(calls)
          /\ UNCHANGED <<driverVars, cursor, actor, critic, checkpoint, state_dicts>>
      BY <1>5 DEF EndGenerate, weightVars, storeVars
    <2>2. Own(done)
      BY <1>1 DEF TypeOK, Batches, Ordered, Own
    <2>3. \A r \in DOMAIN results' : Own(results'[r])
      <3>1. \A r \in DOMAIN results' : results'[r] = done \/ (r \in DOMAIN results /\ results'[r] = results[r])
        <4> HIDE DEF done, id
        <4> QED
          BY <2>1
      <3> HIDE DEF done, id
      <3> QED
        BY <1>1, <2>2, <3>1 DEF Ordered
    <2>4. Generates' = {}
      <3>1. 1 \in Generates /\ calls # <<>>
        BY <1>0, <2>1, HeadGenerates DEF Protocol, Busy, Serving
      <3>2. \A i \in Generates' : i + 1 \in Generates /\ i \in Nat \ {0}
        BY <1>0, <2>1, <3>1, Answering
      <3>3. \A i, j \in Generates : i = j
        BY DEF Protocol, OneFuture
      <3> QED
        BY <3>1, <3>2, <3>3
    <2>5. Requested' = Requested /\ Lineage' = Lineage
      BY <2>1 DEF Requested, Latest, Lineage, driverVars
    <2>6. pc # "done"
      BY <1>1, <1>2, <2>1 DEF Ordered, Generates
    <2> QED
      BY <1>1, <2>1, <2>3, <2>4, <2>5, <2>6, NoBatchOwn DEF Ordered, driverVars
  <1>6. CASE ServeSave \/ ServeEval
    <2>1. /\ calls # <<>> /\ calls' = Tail(calls) /\ Head(calls).method # "generate"
          /\ UNCHANGED <<driverVars, generating, results, cursor, actor, critic, checkpoint>>
      BY <1>6 DEF ServeSave, ServeEval, Serving, weightVars, storeVars
    <2>2. \A i \in Generates' : i + 1 \in Generates /\ calls'[i] = calls[i + 1]
      BY <1>0, <2>1, Answering
    <2>3. Generates # {} => Generates' # {}
      <3> SUFFICES ASSUME NEW i \in Generates PROVE i - 1 \in Generates'
        OBVIOUS
      <3>1. i \in 1 .. Len(calls) /\ calls[i].method = "generate" /\ Head(calls) = calls[1]
        BY <1>0, <2>1 DEF Generates
      <3>2. i # 1
        BY <2>1, <3>1
      <3>3. /\ i - 1 \in 1 .. Len(calls) - 1 /\ Len(Tail(calls)) = Len(calls) - 1
            /\ Tail(calls)[i - 1] = calls[i]
        BY <1>0, <2>1, <3>1, <3>2
      <3> QED
        BY <1>0, <2>1, <3>1, <3>3 DEF Generates
    <2>4. (Generates = {}) = (Generates' = {})
      BY <2>2, <2>3
    <2>5. Requested' = Requested /\ Lineage' = Lineage /\ pc # "stopped" /\ pc # "done"
      BY <1>1, <2>1 DEF Requested, Latest, Lineage, driverVars, Protocol, Clean, Ordered
    <2> QED
      BY <1>1, <2>1, <2>2, <2>4, <2>5 DEF Ordered, driverVars
  <1>7. CASE RequestFirst
    <2>1. /\ Generates = {} /\ pc \in {"before", "eval_before"} /\ pc' = "loop"
          /\ Submit("generate", rollout_id)
          /\ UNCHANGED <<rollout_id, curr, generating, results, cursor, actor, critic>>
      BY <1>7 DEF RequestFirst, Protocol, OneAhead, weightVars
    <2>2. rollout_id = 0 /\ cursor = 0 /\ generating = NoBatch
      BY <1>1, <1>2, <2>1 DEF Ordered, Requested
    <2>3. /\ \A i \in Generates' : calls'[i].id = 0
          /\ Generates' # {}
      <3>1. \A i \in Generates' : calls'[i].id = rollout_id
        BY <1>0, <2>1, Submitted
      <3>2. Len(calls) + 1 \in Generates'
        BY <1>0, <2>1 DEF Submit, Generates
      <3> QED
        BY <2>2, <3>1, <3>2
    <2>4. Requested' = 1 /\ Lineage' = Lineage
      BY <2>1, <2>2 DEF Requested, Latest, Early, Lineage
    <2> QED
      BY <1>1, <2>1, <2>2, <2>3, <2>4 DEF Ordered, Early
  <1>8. CASE StartNext
    <2>1. /\ Generates = {} /\ generating = NoBatch /\ pc = "submit" /\ rollout_id \in Nat
          /\ pc' \in {"train_critic", "train_actor"} /\ rollout_id < NumRollouts
          /\ UNCHANGED <<rollout_id, curr, generating, results, cursor, actor, critic>>
      BY <1>0, <1>1, <1>2, <1>8 DEF StartNext, Protocol, OneAhead, Ordered, weightVars
    <2>2. cursor = rollout_id + 1
      BY <1>1, <2>1 DEF Ordered, Requested, Latest, Early
    <2>3. Lineage' = Lineage
      BY <2>1 DEF Lineage
    <2>4. CASE rollout_id + 1 < NumRollouts
      <3>1. Submit("generate", rollout_id + 1)
        BY <1>8, <2>4 DEF StartNext
      <3>2. \A i \in Generates' : calls'[i].id = rollout_id + 1
        BY <1>0, <2>1, <3>1, Submitted
      <3>3. Len(calls) + 1 \in Generates'
        BY <1>0, <3>1 DEF Submit, Generates
      <3>4. Requested' = rollout_id + 2
        BY <2>1, <2>4 DEF Requested, Latest, Early
      <3> QED
        BY <1>1, <2>1, <2>2, <2>3, <3>2, <3>3, <3>4 DEF Ordered, Early
    <2>5. CASE ~(rollout_id + 1 < NumRollouts)
      <3>1. Generates' = {}
        BY <1>8, <2>1, <2>5 DEF StartNext, Generates
      <3>2. Requested' = rollout_id + 1
        BY <2>1, <2>5 DEF Requested, Latest, Early
      <3> QED
        BY <1>1, <2>1, <2>2, <2>3, <3>1, <3>2 DEF Ordered, Early
    <2> QED
      BY <2>4, <2>5
  <1>9. CASE TrainCritic \/ TrainActor
    <2>1. /\ UNCHANGED <<rollout_id, curr, generating, results, cursor, calls>>
          /\ pc \in Early /\ pc' \in Early \ {"updated", "eval"}
      BY <1>9 DEF TrainCritic, TrainActor, managerVars, Early
    <2>2. Requested' = Requested /\ Generates' = Generates
      BY <2>1 DEF Requested, Latest, Early, Generates
    <2>3. curr.batch = rollout_id /\ rollout_id \in Nat
      BY <1>0, <1>1, <1>9, <2>1 DEF TrainCritic, TrainActor, Protocol, Future, Early, Ordered, Own
    <2>4. \/ Lineage' = Lineage
          \/ Len(Lineage) = rollout_id /\ Lineage' = Append(Lineage, rollout_id)
      BY <1>9, <2>3 DEF TrainCritic, TrainActor, InStep, Live, Lineage, LineageRollouts, Trained
    <2>5. Lineage \in Seq(Ids)
      BY <1>0 DEF Lineage
    <2>6. \A i \in DOMAIN Lineage' : Lineage'[i] = i - 1
      <3>1. CASE Lineage' = Lineage
        BY <1>1, <3>1 DEF Ordered
      <3>2. CASE Len(Lineage) = rollout_id /\ Lineage' = Append(Lineage, rollout_id)
        BY <1>1, <2>3, <2>5, <3>2 DEF Ordered
      <3> QED
        BY <2>4, <3>1, <3>2
    <2> QED
      BY <1>1, <2>1, <2>2, <2>6 DEF Ordered, Early
  <1>10. CASE SyncLast
    <2>1. /\ curr' = curr \/ (next_future \in DOMAIN results /\ curr' = results[next_future])
          /\ pc = "loop" /\ pc' = "submit" /\ rollout_id < NumRollouts
          /\ UNCHANGED <<rollout_id, generating, results, cursor, calls, actor, critic>>
      BY <1>10 DEF SyncLast, managerVars, weightVars
    <2>2. Own(curr')
      BY <1>1, <2>1 DEF Ordered
    <2>3. Requested' = Requested /\ Generates' = Generates /\ Lineage' = Lineage
      BY <2>1 DEF Requested, Latest, Early, Generates, Lineage
    <2> QED
      BY <1>1, <2>1, <2>2, <2>3 DEF Ordered, Early
  <1>11. CASE UpdateWeights
    <2>1. /\ curr' = NoBatch \/ (next_future \in DOMAIN results /\ curr' = results[next_future])
          /\ pc \in {"save", "saved"} /\ pc' = "updated"
          /\ UNCHANGED <<rollout_id, generating, results, cursor, calls, actor, critic>>
      BY <1>11 DEF UpdateWeights, Saved, managerVars
    <2>2. Own(curr')
      BY <1>1, <2>1, NoBatchOwn DEF Ordered
    <2>3. Requested' = Requested /\ Generates' = Generates /\ Lineage' = Lineage
      BY <2>1 DEF Requested, Latest, Early, Generates, Lineage
    <2> QED
      BY <1>1, <2>1, <2>2, <2>3 DEF Ordered, Early
  <1>12. CASE EvalBeforeTraining \/ SaveDataSource \/ EvalRollout
    <2>1. /\ \E method \in {"eval", "save"}, id \in Int : Submit(method, id)
          /\ \/ pc = "before" /\ pc' = "eval_before"
             \/ pc \in Early /\ pc' \in Early
          /\ UNCHANGED <<rollout_id, curr, generating, results, cursor, actor, critic>>
      BY <1>0, <1>12 DEF EvalBeforeTraining, SaveDataSource, EvalRollout, Updated, Saved, Early, weightVars
    <2>2. Generates' = Generates /\ \A i \in Generates : calls'[i] = calls[i]
      BY <1>0, <2>1, Submitted
    <2>3. Requested' = Requested /\ Lineage' = Lineage
      BY <2>1 DEF Requested, Latest, Early, Lineage
    <2> QED
      BY <1>1, <2>1, <2>2, <2>3 DEF Ordered, Early
  <1>13. CASE SaveActor \/ SaveCritic
    <2>1. /\ pc \in Early /\ pc' \in Early
          /\ UNCHANGED <<rollout_id, curr, generating, results, cursor, calls, actor, critic>>
      BY <1>13 DEF SaveActor, SaveCritic, Early, managerVars, weightVars
    <2>2. Requested' = Requested /\ Generates' = Generates /\ Lineage' = Lineage
      BY <2>1 DEF Requested, Latest, Early, Generates, Lineage
    <2> QED
      BY <1>1, <2>1, <2>2 DEF Ordered, Early
  <1>14. CASE NextRollout
    <2>1. /\ pc \in Early /\ pc' = "loop" /\ rollout_id' = rollout_id + 1
          /\ UNCHANGED <<curr, generating, results, cursor, calls, actor, critic>>
      BY <1>14 DEF NextRollout, Updated, Saved, Early, managerVars, weightVars
    <2>2. Requested' = Requested /\ Generates' = Generates /\ Lineage' = Lineage
      BY <2>1 DEF Requested, Latest, Early, Generates, Lineage
    <2> QED
      BY <1>0, <1>1, <2>1, <2>2 DEF Ordered, Early
  <1>15. CASE Finish
    <2>1. /\ pc = "loop" /\ pc' = "done" /\ rollout_id >= NumRollouts /\ calls = <<>>
          /\ UNCHANGED <<rollout_id, curr, generating, results, cursor, calls, actor, critic>>
      BY <1>15 DEF Finish, Answered, managerVars, weightVars
    <2>2. Requested' = Requested /\ Generates' = Generates /\ Lineage' = Lineage
      BY <2>1 DEF Requested, Latest, Early, Generates, Lineage
    <2> QED
      BY <1>0, <1>1, <2>1, <2>2 DEF Ordered, Early
  <1>16. CASE UNCHANGED vars
    <2>1. /\ UNCHANGED <<pc, rollout_id, curr, generating, results, cursor, calls, actor, critic,
                         checkpoint, state_dicts>>
      BY <1>16 DEF vars, driverVars, managerVars, weightVars, storeVars
    <2>2. Requested' = Requested /\ Generates' = Generates /\ Lineage' = Lineage
      BY <2>1 DEF Requested, Latest, Early, Generates, Lineage
    <2> QED
      BY <1>1, <2>1, <2>2 DEF Ordered
  <1> QED
    BY <1>1, <1>3, <1>4, <1>5, <1>6, <1>7, <1>8, <1>9, <1>10, <1>11, <1>12, <1>13, <1>14,
       <1>15, <1>16 DEF Next, Manager, Driver

\* In a job with something to train that is never killed, rollout r trains on
\* the r-th batch of the data source although batches are read one rollout early
\* (train_async.py:53-60, 88-93), and every batch that was read is trained on.
THEOREM BatchesInOrder ==
    ASSUME NumRollouts # 0
    PROVE  Spec => []DataInOrder
  <1>1. TypeOK /\ InStep /\ Ordered => DataInOrder
    <2> SUFFICES ASSUME TypeOK, InStep, Ordered, crashes = 0
                 PROVE  /\ \A i \in DOMAIN Lineage : Lineage[i] = i - 1
                        /\ pc = "done" => cursor = Len(Lineage)
      BY DEF DataInOrder
    <2> USE TrainAssumption
    <2>1. \A i \in DOMAIN Lineage : Lineage[i] = i - 1
      BY DEF Ordered
    <2>2. ASSUME pc = "done" PROVE cursor = Len(Lineage)
      <3>1. Generates = {} /\ rollout_id = NumRollouts
        BY <2>2 DEF Ordered, Generates
      <3>2. cursor = NumRollouts
        BY <2>2, <3>1 DEF Ordered, Requested, Latest, Early
      <3>3. Len(Lineage) = NumRollouts
        BY <2>2, <3>1 DEF InStep, Live, LineageRollouts, Trained
      <3> QED
        BY <3>2, <3>3
    <2> QED
      BY <2>1, <2>2
  <1>2. TypeOK /\ Protocol /\ InStep /\ Ordered /\ [Next]_vars => Ordered'
    BY NextOrdered
  <1> QED
    BY <1>1, <1>2, InitOrdered, Invariants, InvariantInStep, PTL DEF Spec
=============================================================================
