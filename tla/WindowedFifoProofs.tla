------------------------- MODULE WindowedFifoProofs -------------------------
(***************************************************************************)
(* Theorems about WindowedFifo, for every batch size, delay window,        *)
(* prefetch window, queue size, number of samples and bound.               *)
(***************************************************************************)
EXTENDS WindowedFifo, Lemmas

(***************************************************************************)
(* Type correctness                                                        *)
(***************************************************************************)
LEMMA GroupsFiled == \A g \in Groups : EntryStep(g) \in EntrySteps
  BY DEF EntrySteps

LEMMA InitTypeOK == Init => TypeOK
  <1> SUFFICES ASSUME Init PROVE TypeOK
    OBVIOUS
  <1> USE ConstantsAssumption
  <1>1. DOMAIN samples = {} /\ DOMAIN active = {}
    BY DEF Init
  <1>2. samples \in [DOMAIN samples -> [SampleIds -> SampleStates]]
    BY <1>1 DEF Init
  <1>3. active \in [DOMAIN active -> TaskStates]
    BY <1>1 DEF Init
  <1>4. <<>> \in Seq(Groups)
    OBVIOUS
  <1>5. pending_completed \in [EntrySteps -> Seq(Groups)]
    BY <1>4 DEF Init
  <1>6. sample_group_index \in FirstGroup .. MaxGroups
    BY DEF Init
  <1> QED
    BY <1>1, <1>2, <1>3, <1>4, <1>5, <1>6
    DEF Init, TypeOK, WorkerPhases, CollectorPhases, Suspended, None

\* Every step keeps the types.
LEMMA NextTypeOK == TypeOK /\ [Next]_vars => TypeOK'
  <1> SUFFICES ASSUME TypeOK, [Next]_vars PROVE TypeOK'
    OBVIOUS
  <1> USE ConstantsAssumption
  <1>1. CASE StartGenerate
    <2>1. next_rollout \in Nat
      BY DEF TypeOK
    <2>2. next_rollout' \in Nat /\ current_step' \in Nat
      BY <1>1, <2>1 DEF StartGenerate
    <2>3. call' \in [kind : {"generate", "eval"}, id : Nat]
      BY <1>1, <2>1 DEF StartGenerate
    <2> QED
      BY <1>1, <2>2, <2>3 DEF StartGenerate, TypeOK, sourceVars, workerVars, taskVars, collectorVars, historyVars
  <1>2. CASE StartEval
    <2>1. next_rollout \in Nat
      BY DEF TypeOK
    <2>2. EvalIds \subseteq Nat
      BY <2>1 DEF EvalIds
    <2>3. PICK r \in EvalIds : call' = [kind |-> "eval", id |-> r] /\ current_step' = r
      BY <1>2 DEF StartEval
    <2>4. call' \in [kind : {"generate", "eval"}, id : Nat] /\ current_step' \in Nat
      BY <2>2, <2>3
    <2> QED
      BY <1>2, <2>4 DEF StartEval, TypeOK, sourceVars, workerVars, taskVars, collectorVars, historyVars
  <1>3. CASE EnterWorker
    BY <1>3 DEF EnterWorker, TypeOK, WorkerPhases, CollectorPhases, Suspended, sourceVars, taskVars, historyVars
  <1>4. CASE EvalReturns
    BY <1>4 DEF EvalReturns, TypeOK, CollectorPhases, Suspended, sourceVars, workerVars, taskVars, historyVars
  <1>5. CASE TaskReturns
    <2> PICK g \in Running, outcome \in [SampleIds -> {"completed", "aborted"}] :
           LET status == [s \in SampleIds |->
                          IF samples[g][s].status = "completed"
                            THEN "completed" ELSE outcome[s]]
               hit == IF \E s \in SampleIds : status[s] = "aborted" THEN 1 ELSE 0
           IN /\ aborts' = aborts + hit
              /\ samples' = [samples EXCEPT ![g] =
                               [s \in SampleIds |->
                                  [samples[g][s] EXCEPT !.status = status[s]]]]
              /\ active' = [active EXCEPT ![g] = "returned"]
      BY <1>5 DEF TaskReturns
    <2> DEFINE status == [s \in SampleIds |->
                          IF samples[g][s].status = "completed"
                            THEN "completed" ELSE outcome[s]]
               hit == IF \E s \in SampleIds : status[s] = "aborted" THEN 1 ELSE 0
               new == [s \in SampleIds |-> [samples[g][s] EXCEPT !.status = status[s]]]
    <2>1. \A s \in SampleIds : status[s] \in {"completed", "aborted"}
      OBVIOUS
    <2>2. aborts' \in Nat
      <3>1. aborts \in Nat /\ hit \in {0, 1} /\ aborts' = aborts + hit
        BY DEF TypeOK
      <3> QED
        BY <3>1
    <2>3. samples' = [samples EXCEPT ![g] = new]
      OBVIOUS
    <2>4. g \in DOMAIN samples => new \in [SampleIds -> SampleStates]
      <3> SUFFICES ASSUME g \in DOMAIN samples, NEW s \in SampleIds
                   PROVE  [samples[g][s] EXCEPT !.status = status[s]] \in SampleStates
        OBVIOUS
      <3>1. samples[g][s] \in SampleStates
        BY DEF TypeOK
      <3> HIDE DEF status
      <3> QED
        BY <3>1, <2>1 DEF SampleStates
    <2>a. samples \in [DOMAIN samples -> [SampleIds -> SampleStates]]
      BY DEF TypeOK
    <2> HIDE DEF new
    <2>5. /\ DOMAIN samples' = DOMAIN samples
          /\ samples' \in [DOMAIN samples -> [SampleIds -> SampleStates]]
      BY <2>3, <2>4, <2>a
    <2>6. /\ DOMAIN active' = DOMAIN active
          /\ active' \in [DOMAIN active -> TaskStates]
      BY DEF TypeOK, TaskStates
    <2> QED
      BY <1>5, <2>2, <2>5, <2>6 DEF TaskReturns, TypeOK, sourceVars, workerVars, collectorVars, callerVars
  <1>6. CASE TaskFaults
    <2>1. /\ DOMAIN active' = DOMAIN active
          /\ active' \in [DOMAIN active -> TaskStates]
      BY <1>6 DEF TaskFaults, TypeOK, TaskStates, Running
    <2> QED
      BY <1>6, <2>1 DEF TaskFaults, TypeOK, sourceVars, workerVars, collectorVars, callerVars, historyVars
  <1>7. CASE WorkerWakes
    BY <1>7 DEF WorkerWakes, TypeOK, WorkerPhases, sourceVars, taskVars, collectorVars, callerVars, historyVars
  <1>8. CASE HarvestReturned
    <2> PICK g \in DOMAIN active :
           /\ Retire(g)
           /\ samples' = [samples EXCEPT ![g] =
                           [s \in SampleIds |-> Stamp(samples[g][s])]]
           /\ output_queue' = Append(output_queue, g)
      BY <1>8 DEF HarvestReturned
    <2>1. \A sample \in SampleStates : Stamp(sample) \in SampleStates
      BY DEF Stamp, SampleStates, TypeOK, None
    <2>2. /\ DOMAIN samples' = DOMAIN samples
          /\ samples' \in [DOMAIN samples -> [SampleIds -> SampleStates]]
      BY <2>1 DEF TypeOK
    <2>3. output_queue' \in Seq(Groups)
      BY PushTail DEF TypeOK
    <2>4. /\ DOMAIN active' = DOMAIN active \ {g}
          /\ active' \in [DOMAIN active' -> TaskStates]
      BY DEF Retire, TypeOK
    <2> QED
      BY <1>8, <2>2, <2>3, <2>4 DEF HarvestReturned, TypeOK, sourceVars, workerVars, collectorVars, callerVars, historyVars
  <1>9. CASE HarvestRaised \/ HarvestFanOut
    <2> PICK g \in DOMAIN active :
           /\ Retire(g)
           /\ lost' = lost \cup {g}
           /\ samples' = Forget({g})
      BY <1>9 DEF HarvestRaised, HarvestFanOut
    <2>1. /\ DOMAIN samples' = DOMAIN samples \ {g}
          /\ samples' \in [DOMAIN samples' -> [SampleIds -> SampleStates]]
      BY DEF Forget, TypeOK
    <2>2. /\ DOMAIN active' = DOMAIN active \ {g}
          /\ active' \in [DOMAIN active' -> TaskStates]
      BY DEF Retire, TypeOK
    <2>3. lost' \subseteq Groups
      BY DEF TypeOK
    <2> QED
      BY <1>9, <2>1, <2>2, <2>3 DEF HarvestRaised, HarvestFanOut, TypeOK, WorkerPhases, sourceVars, workerVars, collectorVars, callerVars
  <1>10. CASE EndHarvest \/ EndLaunch
    BY <1>10 DEF EndHarvest, EndLaunch, TypeOK, WorkerPhases, sourceVars, taskVars, collectorVars, callerVars, historyVars
  <1>11. CASE LaunchPending
    <2> DEFINE g == Head(pending)
    <2>1. g \in Groups /\ Tail(pending) \in Seq(Groups)
      BY <1>11, HeadTailProperties DEF LaunchPending, TypeOK
    <2> HIDE DEF g
    <2>2. Dispatch(g)
      BY <1>11 DEF LaunchPending, g
    <2>3. /\ DOMAIN active' = DOMAIN active \cup {g}
          /\ active' \in [DOMAIN active' -> TaskStates]
      BY <2>2 DEF Dispatch, TypeOK, TaskStates
    <2>4. max_entry_step' \in EntrySteps
      BY <2>1, <2>2, GroupsFiled DEF Dispatch
    <2> QED
      BY <1>11, <2>1, <2>3, <2>4 DEF LaunchPending, TypeOK, collectorVars, callerVars, historyVars
  <1>12. CASE LaunchFresh
    <2> DEFINE g == sample_group_index
    <2>a. g \in Nat /\ FirstGroup <= g /\ g < MaxGroups /\ g' = g + 1
      <3>1. g \in FirstGroup .. MaxGroups
        BY DEF TypeOK
      <3>2. g < MaxGroups /\ g' = g + 1
        BY <1>12 DEF LaunchFresh
      <3> QED
        BY <3>1, <3>2
    <2>1. g \in Groups /\ g + 1 \in FirstGroup .. MaxGroups
      BY <2>a DEF Groups
    <2>2. Dispatch(g)
      BY <1>12 DEF LaunchFresh
    <2>3. /\ DOMAIN active' = DOMAIN active \cup {g}
          /\ active' \in [DOMAIN active' -> TaskStates]
      BY <2>2 DEF Dispatch, TypeOK, TaskStates
    <2>4. max_entry_step' \in EntrySteps
      BY <2>1, <2>2, GroupsFiled DEF Dispatch
    <2>5. NewSample \in SampleStates
      BY DEF NewSample, SampleStates, None
    <2>6. /\ DOMAIN samples' = DOMAIN samples \cup {g}
          /\ samples' \in [DOMAIN samples' -> [SampleIds -> SampleStates]]
      BY <1>12, <2>5 DEF LaunchFresh, TypeOK
    <2>7. DOMAIN samples' \subseteq 0 .. sample_group_index' - 1
      <3>1. DOMAIN samples \subseteq 0 .. g - 1
        BY DEF TypeOK
      <3> QED
        BY <2>a, <2>6, <3>1
    <2>8. DOMAIN active' \subseteq Groups
      BY <2>1, <2>3 DEF TypeOK
    <2> QED
      BY <1>12, <2>a, <2>8, <2>1, <2>3, <2>4, <2>6, <2>7 DEF LaunchFresh, TypeOK, collectorVars, callerVars, historyVars
  <1>13. CASE BeginIteration \/ WaitForExpired \/ FillWithFresh \/ EndTaking \/ EndIteration
    BY <1>13 DEF BeginIteration, WaitForExpired, FillWithFresh, EndTaking, EndIteration,
         TypeOK, CollectorPhases, Suspended, sourceVars, workerVars, taskVars, callerVars, historyVars
  <1>14. CASE Classify \/ RestoreInference
    BY <1>14 DEF Classify, RestoreInference, TypeOK, CollectorPhases, Suspended,
         sourceVars, taskVars, callerVars, historyVars
  <1>15. CASE DrainAborted
    <2>1. Head(output_queue) \in Groups /\ output_queue' \in Seq(Groups)
      BY <1>15, HeadTailProperties DEF DrainAborted, TypeOK
    <2>2. pending' \in Seq(Groups)
      BY <1>15, <2>1, PushHead DEF DrainAborted, TypeOK
    <2> QED
      BY <1>15, <2>1, <2>2 DEF DrainAborted, TypeOK, workerVars, collectorVars, callerVars, historyVars
  <1>16. CASE DrainCompleted
    <2> DEFINE g == Head(output_queue)
    <2>1. g \in Groups /\ output_queue' \in Seq(Groups)
      BY <1>16, HeadTailProperties DEF DrainCompleted, TypeOK
    <2>2. Append(pending_completed[EntryStep(g)], g) \in Seq(Groups)
      BY <2>1, PushTail, GroupsFiled DEF TypeOK
    <2>3. pending_completed' = [pending_completed EXCEPT ![EntryStep(g)] =
                                  Append(pending_completed[EntryStep(g)], g)]
      BY <1>16 DEF DrainCompleted
    <2>4. pending_completed' \in [EntrySteps -> Seq(Groups)]
      BY <2>2, <2>3 DEF TypeOK
    <2> QED
      BY <1>16, <2>1, <2>4 DEF DrainCompleted, TypeOK, sourceVars, workerVars, callerVars, historyVars
  <1>17. CASE AcceptGroup
    <2> PICK es \in EntrySteps :
           /\ Offered(es)
           /\ data' = Append(data, Head(pending_completed[es]))
           /\ pending_completed' = [pending_completed EXCEPT ![es] = Tail(@)]
      BY <1>17 DEF AcceptGroup
    <2>1. /\ Head(pending_completed[es]) \in Groups
          /\ Tail(pending_completed[es]) \in Seq(Groups)
      BY HeadTailProperties DEF Offered, TypeOK
    <2>2. data' \in Seq(Groups)
      BY <2>1, PushTail DEF TypeOK
    <2>3. pending_completed' \in [EntrySteps -> Seq(Groups)]
      BY <2>1 DEF TypeOK
    <2> QED
      BY <1>17, <2>2, <2>3 DEF AcceptGroup, TypeOK, sourceVars, workerVars, taskVars, callerVars, historyVars
  <1>18. CASE Return
    <2> PICK p \in Bijection(DOMAIN pending, DOMAIN pending) :
           pending' = [i \in DOMAIN pending |-> pending[p[i]]]
      BY <1>18 DEF Return
    <2>1. pending' \in Seq(Groups)
      <3>1. pending \in Seq(Groups)
        BY DEF TypeOK
      <3> QED
        BY <3>1, Rearranged
    <2>2. ToSet(data) \subseteq Groups
      BY ElementsIn DEF TypeOK
    <2>3. /\ DOMAIN samples' = DOMAIN samples \ ToSet(data)
          /\ samples' \in [DOMAIN samples' -> [SampleIds -> SampleStates]]
      BY <1>18 DEF Return, Forget, TypeOK
    <2>4. data' \in Seq(Groups)
      BY <1>18 DEF Return
    <2>5. current_step' \in Nat
      <3>1. current_step \in Nat
        BY DEF TypeOK
      <3>2. current_step' = current_step + 1
        BY <1>18 DEF Return
      <3> QED
        BY <3>1, <3>2
    <2>6. delivered' \subseteq Groups
      BY <1>18, <2>2 DEF Return, TypeOK
    <2>7. DOMAIN samples' \subseteq 0 .. sample_group_index' - 1
      BY <1>18, <2>3 DEF Return, TypeOK
    <2> QED
      BY <1>18, <2>1, <2>3, <2>4, <2>5, <2>6, <2>7 DEF Return, TypeOK, CollectorPhases, Suspended, workerVars, taskVars
  <1>19. CASE UNCHANGED vars
    BY <1>19 DEF TypeOK, vars, sourceVars, workerVars, taskVars, collectorVars, callerVars, historyVars
  <1> QED
    BY <1>1, <1>2, <1>3, <1>4, <1>5, <1>6, <1>7, <1>8, <1>9, <1>10, <1>11, <1>12,
       <1>13, <1>14, <1>15, <1>16, <1>17, <1>18, <1>19
    DEF Next, CallerStep, TaskStep, WorkerPass, CollectorResumes, CollectorRuns

\* The types hold in every reachable state, whatever the constants.
THEOREM TypeCorrect == Spec => []TypeOK
  BY InitTypeOK, NextTypeOK, PTL DEF Spec

(***************************************************************************)
(* Conservation: every group has one home                                  *)
(***************************************************************************)
CachedDistinct == \A es \in EntrySteps : IsInjective(pending_completed[es])

\* A membership test for the cache, before and after a step
LEMMA CachedMember ==
    \A g : /\ g \in Cached <=> \E es \in EntrySteps : g \in ToSet(pending_completed[es])
           /\ g \in Cached' <=> \E es \in EntrySteps : g \in ToSet(pending_completed'[es])
  BY DEF Cached

\* Filing a completed group adds it, and it alone, to the cache.
LEMMA Caching ==
    ASSUME TypeOK, Filed, CachedDistinct, NEW g \in Groups, g \notin Cached,
           pending_completed' = [pending_completed EXCEPT ![EntryStep(g)] =
                                   Append(pending_completed[EntryStep(g)], g)]
    PROVE  Cached' = Cached \cup {g} /\ Filed' /\ CachedDistinct'
  <1> DEFINE home == EntryStep(g)
  <1>1. home \in EntrySteps /\ pending_completed \in [EntrySteps -> Seq(Groups)]
    BY GroupsFiled DEF TypeOK
  <1>2. /\ ToSet(Append(pending_completed[home], g)) = ToSet(pending_completed[home]) \cup {g}
        /\ IsInjective(Append(pending_completed[home], g))
    BY <1>1, PushTail, CachedMember DEF CachedDistinct
  <1>3. \A es \in EntrySteps :
           pending_completed'[es] = IF es = home THEN Append(pending_completed[home], g)
                                    ELSE pending_completed[es]
    BY <1>1
  <1> HIDE DEF home
  <1>4. \A es \in EntrySteps :
           ToSet(pending_completed'[es]) = IF es = home THEN ToSet(pending_completed[home]) \cup {g}
                                           ELSE ToSet(pending_completed[es])
    <2> SUFFICES ASSUME NEW es \in EntrySteps
                 PROVE  ToSet(pending_completed'[es]) =
                           IF es = home THEN ToSet(pending_completed[home]) \cup {g}
                           ELSE ToSet(pending_completed[es])
      OBVIOUS
    <2>1. CASE es = home
      BY <1>2, <1>3, <2>1
    <2>2. CASE es # home
      BY <1>3, <2>2
    <2> QED
      BY <2>1, <2>2
  <1>5. Cached' = Cached \cup {g}
    <2>1. \A x : x \in Cached' <=> x \in Cached \/ x = g
      BY <1>1, <1>4, CachedMember DEF home
    <2> QED
      BY <2>1
  <1>6. Filed'
    BY <1>4 DEF Filed, home
  <1>7. CachedDistinct'
    BY <1>2, <1>3 DEF CachedDistinct
  <1> QED
    BY <1>5, <1>6, <1>7

\* Taking the head of one entry step takes it, and it alone, out of the
\* cache: as groups are filed under their own entry step, no other queue
\* holds it.
LEMMA Uncaching ==
    ASSUME TypeOK, Filed, CachedDistinct, NEW home \in EntrySteps,
           pending_completed[home] # <<>>,
           pending_completed' = [pending_completed EXCEPT ![home] = Tail(@)]
    PROVE  /\ Head(pending_completed[home]) \in Cached
           /\ Head(pending_completed[home]) \in Groups
           /\ Cached' = Cached \ {Head(pending_completed[home])}
           /\ Filed' /\ CachedDistinct'
  <1> DEFINE q == pending_completed[home]
             g == Head(q)
  <1>1. q \in Seq(Groups) /\ pending_completed \in [EntrySteps -> Seq(Groups)]
    BY DEF TypeOK
  <1>2. /\ g \in Groups /\ g \in ToSet(q)
        /\ ToSet(Tail(q)) = ToSet(q) \ {g}
        /\ IsInjective(Tail(q))
    BY <1>1, PopHead DEF CachedDistinct
  <1>3. \A es \in EntrySteps :
           pending_completed'[es] = IF es = home THEN Tail(q) ELSE pending_completed[es]
    BY <1>1
  <1>4. \A es \in EntrySteps : es # home => g \notin ToSet(pending_completed[es])
    BY <1>2 DEF Filed
  <1> HIDE DEF g
  <1>5. \A es \in EntrySteps :
           ToSet(pending_completed'[es]) = ToSet(pending_completed[es]) \ {g}
    BY <1>2, <1>3, <1>4
  <1>6. Cached' = Cached \ {g}
    <2>1. ASSUME NEW x PROVE x \in Cached' <=> x \in Cached /\ x # g
      <3>1. /\ x \in Cached <=> \E es \in EntrySteps : x \in ToSet(pending_completed[es])
            /\ x \in Cached' <=> \E es \in EntrySteps : x \in ToSet(pending_completed'[es])
        BY CachedMember
      <3>2. \A es \in EntrySteps :
               x \in ToSet(pending_completed'[es]) <=> x \in ToSet(pending_completed[es]) /\ x # g
        BY <1>5
      <3> QED
        BY <3>1, <3>2
    <2> QED
      BY <2>1
  <1>7. Filed'
    BY <1>5 DEF Filed
  <1>8. CachedDistinct'
    BY <1>2, <1>3 DEF CachedDistinct
  <1>9. g \in Cached
    BY <1>2, CachedMember
  <1> QED
    BY <1>2, <1>6, <1>7, <1>8, <1>9 DEF g

\* A cache that does not change keeps what is said of it.
LEMMA CacheKept ==
    ASSUME Filed, CachedDistinct, pending_completed' = pending_completed
    PROVE  Cached' = Cached /\ Filed' /\ CachedDistinct'
  BY DEF Filed, CachedDistinct, Cached

LEMMA InitOneHome == Init => OneHome
  <1> SUFFICES ASSUME Init PROVE OneHome
    OBVIOUS
  <1> USE ConstantsAssumption
  <1>1. ToSet(<<>>) = {} /\ IsInjective(<<>>)
    BY DEF ToSet, IsInjective
  <1>2. /\ pending = <<>> /\ output_queue = <<>> /\ data = <<>>
        /\ \A es \in EntrySteps : pending_completed[es] = <<>>
        /\ DOMAIN samples = {} /\ DOMAIN active = {}
        /\ delivered = {} /\ lost = {} /\ sample_group_index = FirstGroup
    BY DEF Init
  <1>3. Cached = {}
    BY <1>1, <1>2 DEF Cached
  <1>4. FirstGroup .. sample_group_index - 1 = {}
    BY <1>2
  <1>5. NoDuplicates
    BY <1>1, <1>2 DEF NoDuplicates
  <1>6. Filed
    BY <1>1, <1>2 DEF Filed
  <1>7. Disjoint /\ Accounted
    BY <1>1, <1>2, <1>3, <1>4 DEF Disjoint, Accounted
  <1> QED
    BY <1>5, <1>6, <1>7 DEF OneHome

\* The places of the groups do not change
Still == /\ UNCHANGED <<pending, output_queue, pending_completed, data,
                        sample_group_index, delivered, lost>>
         /\ DOMAIN samples' = DOMAIN samples
         /\ DOMAIN active' = DOMAIN active

LEMMA StillOneHome == OneHome /\ Still => OneHome'
  <1> SUFFICES ASSUME OneHome, Still PROVE OneHome'
    OBVIOUS
  <1>1. Cached' = Cached
    BY DEF Still, Cached
  <1>2. NoDuplicates' /\ Filed'
    BY DEF OneHome, Still, NoDuplicates, Filed
  <1>3. Disjoint' /\ Accounted'
    BY <1>1 DEF OneHome, Still, Disjoint, Accounted
  <1> QED
    BY <1>2, <1>3 DEF OneHome

\* Every step keeps one home per group.
LEMMA NextOneHome == TypeOK /\ OneHome /\ [Next]_vars => OneHome'
  <1> SUFFICES ASSUME TypeOK, OneHome, [Next]_vars PROVE OneHome'
    OBVIOUS
  <1> USE ConstantsAssumption
  <1>a. NoDuplicates /\ CachedDistinct /\ Filed /\ Disjoint /\ Accounted
    BY DEF OneHome, NoDuplicates, CachedDistinct
  <1>b. /\ pending \in Seq(Groups) /\ IsInjective(pending)
        /\ output_queue \in Seq(Groups) /\ IsInjective(output_queue)
        /\ data \in Seq(Groups) /\ IsInjective(data)
    BY <1>a DEF TypeOK, NoDuplicates
  <1>c. ASSUME UNCHANGED pending_completed
        PROVE  Cached' = Cached /\ Filed' /\ CachedDistinct'
    BY <1>a, <1>c, CacheKept
  <1>1. CASE CallerStep \/ WorkerWakes \/ EndHarvest \/ EndLaunch \/ BeginIteration
    <2>1. Still
      BY <1>1 DEF CallerStep, StartGenerate, StartEval, EnterWorker, EvalReturns,
           WorkerWakes, EndHarvest, EndLaunch, BeginIteration, Still,
           sourceVars, workerVars, taskVars, collectorVars, callerVars, historyVars
    <2> QED
      BY <2>1, StillOneHome
  <1>2. CASE Classify \/ WaitForExpired \/ FillWithFresh \/ RestoreInference \/ EndTaking
             \/ EndIteration \/ UNCHANGED vars
    <2>1. Still
      BY <1>2 DEF Classify, WaitForExpired, FillWithFresh, RestoreInference, EndTaking,
           EndIteration, vars, Still,
           sourceVars, workerVars, taskVars, collectorVars, callerVars, historyVars
    <2> QED
      BY <2>1, StillOneHome
  <1>3. CASE TaskReturns \/ TaskFaults
    <2>1. DOMAIN samples' = DOMAIN samples /\ DOMAIN active' = DOMAIN active
      BY <1>3 DEF TaskReturns, TaskFaults, TypeOK
    <2>2. Still
      BY <1>3, <2>1 DEF TaskReturns, TaskFaults, Still,
           sourceVars, workerVars, collectorVars, callerVars, historyVars
    <2> QED
      BY <2>2, StillOneHome
  <1>4. CASE HarvestReturned
    <2> PICK g \in DOMAIN active : Retire(g) /\ output_queue' = Append(output_queue, g)
                                     /\ DOMAIN samples' = DOMAIN samples
      BY <1>4 DEF HarvestReturned, TypeOK
    <2>1. g \in Groups /\ DOMAIN active' = DOMAIN active \ {g}
      BY DEF Retire, TypeOK
    <2>2. g \notin ToSet(output_queue)
      BY <1>a DEF Disjoint
    <2>3. /\ ToSet(output_queue') = ToSet(output_queue) \cup {g}
          /\ IsInjective(output_queue')
      BY <1>b, <2>1, <2>2, PushTail
    <2>4. /\ UNCHANGED <<pending, pending_completed, data, sample_group_index, delivered, lost>>
          /\ Cached' = Cached /\ Filed' /\ CachedDistinct'
      BY <1>4, <1>c DEF HarvestReturned, sourceVars, collectorVars, callerVars, historyVars
    <2>5. NoDuplicates'
      BY <1>b, <2>3, <2>4 DEF NoDuplicates, CachedDistinct
    <2>6. Disjoint' /\ Accounted'
      BY <1>a, <2>1, <2>3, <2>4 DEF Disjoint, Accounted
    <2> QED
      BY <2>4, <2>5, <2>6 DEF OneHome
  <1>5. CASE HarvestRaised \/ HarvestFanOut
    <2> PICK g \in DOMAIN active : Retire(g) /\ lost' = lost \cup {g} /\ samples' = Forget({g})
      BY <1>5 DEF HarvestRaised, HarvestFanOut
    <2>1. /\ DOMAIN active' = DOMAIN active \ {g}
          /\ DOMAIN samples' = DOMAIN samples \ {g}
      BY DEF Retire, Forget
    <2>2. /\ UNCHANGED <<pending, output_queue, pending_completed, data, sample_group_index, delivered>>
          /\ Cached' = Cached /\ Filed' /\ CachedDistinct'
      BY <1>5, <1>c DEF HarvestRaised, HarvestFanOut, sourceVars, collectorVars, callerVars
    <2>3. NoDuplicates'
      BY <1>b, <2>2 DEF NoDuplicates, CachedDistinct
    <2>4. Disjoint'
      BY <1>a, <2>1, <2>2 DEF Disjoint
    <2>5. /\ g \in DOMAIN samples /\ g \notin delivered
          /\ g \notin ToSet(pending) \cup ToSet(output_queue) \cup Cached \cup ToSet(data)
      BY <1>a DEF Disjoint, Accounted
    <2>6. lost' = lost \cup {g}
      OBVIOUS
    <2>7. DOMAIN samples' = ToSet(pending') \cup DOMAIN active' \cup ToSet(output_queue')
                              \cup Cached' \cup ToSet(data')
      <3>1. DOMAIN samples = ToSet(pending) \cup DOMAIN active \cup ToSet(output_queue)
                                \cup Cached \cup ToSet(data)
        BY <1>a DEF Accounted
      <3>2. /\ ToSet(pending') = ToSet(pending) /\ ToSet(output_queue') = ToSet(output_queue)
            /\ ToSet(data') = ToSet(data) /\ Cached' = Cached
        BY <2>2
      <3> QED
        BY <2>1, <2>5, <3>1, <3>2, Zenon
    <2>8. FirstGroup .. sample_group_index' - 1 = DOMAIN samples' \cup delivered' \cup lost'
      BY <1>a, <2>1, <2>2, <2>5, <2>6 DEF Accounted
    <2>9. DOMAIN samples' \cap (delivered' \cup lost') = {} /\ delivered' \cap lost' = {}
      BY <1>a, <2>1, <2>2, <2>5, <2>6 DEF Accounted
    <2> QED
      BY <2>2, <2>3, <2>4, <2>7, <2>8, <2>9 DEF OneHome, Accounted
  <1>6. CASE LaunchPending
    <2> DEFINE g == Head(pending)
    <2>1. pending # <<>> /\ pending' = Tail(pending) /\ Dispatch(g)
      BY <1>6 DEF LaunchPending
    <2>2. /\ g \in ToSet(pending)
          /\ ToSet(pending') = ToSet(pending) \ {g}
          /\ IsInjective(pending')
      BY <1>b, <2>1, PopHead
    <2>3. DOMAIN active' = DOMAIN active \cup {g}
      BY <2>1 DEF Dispatch
    <2> HIDE DEF g
    <2>4. /\ UNCHANGED <<samples, output_queue, pending_completed, data,
                         sample_group_index, delivered, lost>>
          /\ Cached' = Cached /\ Filed' /\ CachedDistinct'
      BY <1>6, <1>c DEF LaunchPending, collectorVars, callerVars, historyVars
    <2>5. NoDuplicates'
      BY <1>b, <2>2, <2>4 DEF NoDuplicates, CachedDistinct
    <2>6. Disjoint' /\ Accounted'
      BY <1>a, <2>2, <2>3, <2>4 DEF Disjoint, Accounted
    <2> QED
      BY <2>4, <2>5, <2>6 DEF OneHome
  <1>7. CASE LaunchFresh
    <2> DEFINE g == sample_group_index
    <2>1. /\ g \in FirstGroup .. MaxGroups /\ g' = g + 1
          /\ DOMAIN samples \subseteq 0 .. g - 1
      BY <1>7 DEF LaunchFresh, TypeOK
    <2>2. /\ DOMAIN active' = DOMAIN active \cup {g}
          /\ DOMAIN samples' = DOMAIN samples \cup {g}
      BY <1>7 DEF LaunchFresh, Dispatch
    <2>3. /\ UNCHANGED <<pending, output_queue, pending_completed, data, delivered, lost>>
          /\ Cached' = Cached /\ Filed' /\ CachedDistinct'
      BY <1>7, <1>c DEF LaunchFresh, collectorVars, callerVars, historyVars
    <2>4. /\ FirstGroup .. g' - 1 = (FirstGroup .. g - 1) \cup {g}
          /\ g \notin FirstGroup .. g - 1
          /\ g \notin DOMAIN samples
      BY <2>1
    <2>5. NoDuplicates'
      BY <1>b, <2>3 DEF NoDuplicates, CachedDistinct
    <2>6. g \notin delivered \cup lost
      BY <1>a, <2>4 DEF Accounted
    <2>7. g \notin ToSet(pending) \cup DOMAIN active \cup ToSet(output_queue)
                     \cup Cached \cup ToSet(data)
      BY <1>a, <2>4 DEF Accounted
    <2> HIDE DEF g
    <2>8. Disjoint'
      BY <1>a, <2>2, <2>3, <2>7 DEF Disjoint
    <2>9. Accounted'
      BY <1>a, <2>2, <2>3, <2>4, <2>6 DEF Accounted, g
    <2> QED
      BY <2>3, <2>5, <2>8, <2>9 DEF OneHome
  <1>8. CASE DrainAborted
    <2> DEFINE g == Head(output_queue)
    <2>1. /\ output_queue # <<>> /\ output_queue' = Tail(output_queue)
          /\ pending' = <<g>> \o pending
      BY <1>8 DEF DrainAborted
    <2>2. /\ g \in Groups /\ g \in ToSet(output_queue)
          /\ ToSet(output_queue') = ToSet(output_queue) \ {g}
          /\ IsInjective(output_queue')
      BY <1>b, <2>1, PopHead
    <2>3. g \notin ToSet(pending)
      BY <1>a, <2>2 DEF Disjoint
    <2>4. ToSet(pending') = ToSet(pending) \cup {g} /\ IsInjective(pending')
      BY <1>b, <2>1, <2>2, <2>3, PushHead
    <2> HIDE DEF g
    <2>5. /\ UNCHANGED <<samples, active, pending_completed, data,
                         sample_group_index, delivered, lost>>
          /\ Cached' = Cached /\ Filed' /\ CachedDistinct'
      BY <1>8, <1>c DEF DrainAborted, collectorVars, callerVars, historyVars
    <2>6. NoDuplicates'
      BY <1>b, <2>2, <2>4, <2>5 DEF NoDuplicates, CachedDistinct
    <2>7. Disjoint' /\ Accounted'
      BY <1>a, <2>2, <2>4, <2>5 DEF Disjoint, Accounted
    <2> QED
      BY <2>5, <2>6, <2>7 DEF OneHome
  <1>9. CASE DrainCompleted
    <2> DEFINE g == Head(output_queue)
    <2>1. /\ output_queue # <<>> /\ output_queue' = Tail(output_queue)
          /\ pending_completed' = [pending_completed EXCEPT ![EntryStep(g)] =
                                     Append(pending_completed[EntryStep(g)], g)]
      BY <1>9 DEF DrainCompleted
    <2>2. /\ g \in Groups /\ g \in ToSet(output_queue)
          /\ ToSet(output_queue') = ToSet(output_queue) \ {g}
          /\ IsInjective(output_queue')
      BY <1>b, <2>1, PopHead
    <2>3. g \notin Cached
      BY <1>a, <2>2 DEF Disjoint
    <2>4. Cached' = Cached \cup {g} /\ Filed' /\ CachedDistinct'
      BY <1>a, <2>1, <2>2, <2>3, Caching
    <2> HIDE DEF g
    <2>5. UNCHANGED <<samples, active, pending, data, sample_group_index, delivered, lost>>
      BY <1>9 DEF DrainCompleted, sourceVars, callerVars, historyVars
    <2>6. NoDuplicates'
      BY <1>b, <2>2, <2>4, <2>5 DEF NoDuplicates, CachedDistinct
    <2>7. Disjoint' /\ Accounted'
      BY <1>a, <2>2, <2>4, <2>5 DEF Disjoint, Accounted
    <2> QED
      BY <2>4, <2>6, <2>7 DEF OneHome
  <1>10. CASE AcceptGroup
    <2> PICK es \in EntrySteps :
           /\ Offered(es)
           /\ data' = Append(data, Head(pending_completed[es]))
           /\ pending_completed' = [pending_completed EXCEPT ![es] = Tail(@)]
      BY <1>10 DEF AcceptGroup
    <2> DEFINE g == Head(pending_completed[es])
    <2>1. /\ g \in Cached /\ g \in Groups
          /\ Cached' = Cached \ {g} /\ Filed' /\ CachedDistinct'
      BY <1>a, Uncaching DEF Offered
    <2>2. g \notin ToSet(data)
      BY <1>a, <2>1 DEF Disjoint
    <2>3. ToSet(data') = ToSet(data) \cup {g} /\ IsInjective(data')
      BY <1>b, <2>1, <2>2, PushTail
    <2> HIDE DEF g
    <2>4. UNCHANGED <<samples, active, pending, output_queue, sample_group_index, delivered, lost>>
      BY <1>10 DEF AcceptGroup, sourceVars, taskVars, callerVars, historyVars
    <2>5. NoDuplicates'
      BY <1>b, <2>1, <2>3, <2>4 DEF NoDuplicates, CachedDistinct
    <2>6. Disjoint' /\ Accounted'
      BY <1>a, <2>1, <2>3, <2>4 DEF Disjoint, Accounted
    <2> QED
      BY <2>1, <2>5, <2>6 DEF OneHome
  <1>11. CASE Return
    <2> PICK p \in Bijection(DOMAIN pending, DOMAIN pending) :
           pending' = [i \in DOMAIN pending |-> pending[p[i]]]
      BY <1>11 DEF Return
    <2>1. ToSet(pending') = ToSet(pending) /\ IsInjective(pending')
      BY <1>b, Rearranged
    <2>2. /\ DOMAIN samples' = DOMAIN samples \ ToSet(data)
          /\ delivered' = delivered \cup ToSet(data)
          /\ ToSet(data') = {} /\ IsInjective(data')
      BY <1>11 DEF Return, Forget, ToSet, IsInjective
    <2>3. /\ UNCHANGED <<active, output_queue, pending_completed, sample_group_index, lost>>
          /\ Cached' = Cached /\ Filed' /\ CachedDistinct'
      BY <1>11, <1>c DEF Return, taskVars
    <2>4. NoDuplicates'
      BY <1>b, <2>1, <2>2, <2>3 DEF NoDuplicates, CachedDistinct
    <2>5. Disjoint' /\ Accounted'
      BY <1>a, <2>1, <2>2, <2>3 DEF Disjoint, Accounted
    <2> QED
      BY <2>3, <2>4, <2>5 DEF OneHome
  <1> QED
    BY <1>1, <1>2, <1>3, <1>4, <1>5, <1>6, <1>7, <1>8, <1>9, <1>10, <1>11
    DEF Next, TaskStep, WorkerPass, CollectorResumes, CollectorRuns

\* Conservation: a group the data source hands out is in exactly one place, is
\* trained on at most once, and is lost only with its task - for every batch
\* size, window and number of groups, aborts and faults.
THEOREM Conservation == Spec => []OneHome
  <1>1. Init => TypeOK /\ OneHome
    BY InitTypeOK, InitOneHome
  <1>2. (TypeOK /\ OneHome) /\ [Next]_vars => (TypeOK /\ OneHome)'
    BY NextTypeOK, NextOneHome
  <1> QED
    BY <1>1, <1>2, PTL DEF Spec

(***************************************************************************)
(* Refinement: the pipeline implements GroupDelivery                       *)
(***************************************************************************)
\* The batch never outgrows RolloutBatchSize.
BatchFits == Len(data) <= RolloutBatchSize

LEMMA NextBatchFits == TypeOK /\ BatchFits /\ [Next]_vars => BatchFits'
  <1> SUFFICES ASSUME TypeOK, BatchFits, [Next]_vars PROVE BatchFits'
    OBVIOUS
  <1> USE ConstantsAssumption
  <1>1. CASE AcceptGroup
    <2> PICK es \in EntrySteps : data' = Append(data, Head(pending_completed[es]))
      BY <1>1 DEF AcceptGroup
    <2>1. data \in Seq(Groups) /\ Len(data) < RolloutBatchSize
      BY <1>1 DEF AcceptGroup, TypeOK
    <2>2. Len(data') = Len(data) + 1
      BY <2>1
    <2> QED
      BY <2>1, <2>2 DEF BatchFits
  <1>2. CASE Return
    BY <1>2 DEF Return, BatchFits
  <1>3. CASE UNCHANGED data
    BY <1>3 DEF BatchFits
  <1> QED
    BY <1>1, <1>2, <1>3
    DEF Next, CallerStep, StartGenerate, StartEval, EnterWorker, EvalReturns,
        TaskStep, TaskReturns, TaskFaults, WorkerWakes, WorkerPass, HarvestReturned,
        HarvestRaised, HarvestFanOut, EndHarvest, LaunchPending, LaunchFresh, EndLaunch,
        CollectorResumes, BeginIteration, CollectorRuns, DrainAborted, DrainCompleted,
        Classify, WaitForExpired, FillWithFresh, RestoreInference, EndTaking, EndIteration,
        vars, collectorVars

\* The caller waits exactly while a coroutine is submitted, and for the kind of
\* call it made.
CallerWaits ==
    /\ caller = "waiting" <=> collector # "off"
    /\ collector # "off" => (collector = "evaluating" <=> call.kind = "eval")

LEMMA NextCallerWaits == TypeOK /\ CallerWaits /\ [Next]_vars => CallerWaits'
  <1> SUFFICES ASSUME TypeOK, CallerWaits, [Next]_vars PROVE CallerWaits'
    OBVIOUS
  <1>1. CASE CallerStep
    <2>1. CASE StartGenerate \/ StartEval
      BY <2>1 DEF StartGenerate, StartEval, CallerWaits, collectorVars
    <2>2. CASE EnterWorker
      BY <2>2 DEF EnterWorker, CallerWaits, TypeOK
    <2>3. CASE EvalReturns
      BY <2>3 DEF EvalReturns, CallerWaits
    <2> QED
      BY <1>1, <2>1, <2>2, <2>3 DEF CallerStep
  <1>2. CASE TaskStep \/ WorkerWakes \/ WorkerPass \/ UNCHANGED vars
    <2>1. UNCHANGED <<caller, collector, call>>
      BY <1>2 DEF TaskStep, TaskReturns, TaskFaults, WorkerWakes, WorkerPass,
           HarvestReturned, HarvestRaised, HarvestFanOut, EndHarvest, LaunchPending,
           LaunchFresh, EndLaunch, vars, collectorVars, callerVars
    <2> QED
      BY <2>1 DEF CallerWaits
  <1>3. CASE CollectorResumes
    <2>1. collector \notin {"off", "evaluating"}
      BY <1>3 DEF CollectorResumes, BeginIteration, Return, AtLoopTest
    <2>2. CASE BeginIteration
      BY <2>1, <2>2 DEF BeginIteration, CallerWaits, callerVars
    <2>3. CASE Return
      BY <2>3 DEF Return, CallerWaits
    <2> QED
      BY <1>3, <2>2, <2>3 DEF CollectorResumes
  <1>4. CASE CollectorRuns
    <2>1. /\ collector \notin {"off", "evaluating"}
          /\ collector' \notin {"off", "evaluating"}
          /\ UNCHANGED <<caller, call>>
      BY <1>4 DEF CollectorRuns, DrainAborted, DrainCompleted, Classify, AcceptGroup, Taking,
           WaitForExpired, FillWithFresh, RestoreInference, EndTaking, EndIteration,
           collectorVars, callerVars
    <2> QED
      BY <2>1 DEF CallerWaits
  <1> QED
    BY <1>1, <1>2, <1>3, <1>4 DEF Next

\* What is live for GroupDelivery is what the component references.
LEMMA LiveIsReferenced == OneHome => Delivery!Live = DOMAIN samples
  BY DEF OneHome, Accounted, Delivery!Live

LEMMA NextDelivers ==
    TypeOK /\ OneHome /\ BatchFits /\ CallerWaits /\ [Next]_vars =>
        [Delivery!Next]_Delivery!vars
  <1> SUFFICES ASSUME TypeOK, OneHome, BatchFits, CallerWaits, [Next]_vars
               PROVE  Delivery!Next \/ UNCHANGED Delivery!vars
    OBVIOUS
  <1> USE ConstantsAssumption
  <1>1. CASE LaunchFresh
    <2>1. /\ sample_group_index < MaxGroups /\ sample_group_index' = sample_group_index + 1
          /\ UNCHANGED <<callerVars, historyVars>>
      BY <1>1 DEF LaunchFresh
    <2>2. Returned' = Returned
      BY <2>1 DEF callerVars, Returned
    <2>3. sample_group_index \in Int /\ MaxGroups \in Int
      BY DEF TypeOK
    <2> QED
      BY <2>1, <2>2, <2>3 DEF historyVars, Delivery!Next, Delivery!Fetch
  <1>2. CASE HarvestRaised \/ HarvestFanOut
    <2> PICK g \in DOMAIN active : lost' = lost \cup {g}
      BY <1>2 DEF HarvestRaised, HarvestFanOut
    <2>1. g \in Delivery!Live
      BY LiveIsReferenced DEF OneHome, Accounted
    <2> QED
      BY <1>2, <2>1 DEF HarvestRaised, HarvestFanOut, sourceVars, callerVars, Returned,
           Delivery!Next, Delivery!Lose
  <1>3. CASE Return
    <2>1. delivered' = delivered \cup ToSet(data) /\ UNCHANGED <<sample_group_index, lost>>
      BY <1>3 DEF Return
    <2>2. ToSet(data) \subseteq Delivery!Live
      BY LiveIsReferenced DEF OneHome, Accounted
    <2>3. Cardinality(ToSet(data)) = RolloutBatchSize
      <3>1. data \in Seq(Groups) /\ IsInjective(data)
        BY DEF TypeOK, OneHome, NoDuplicates
      <3>2. Cardinality(ToSet(data)) = Len(data)
        BY <3>1, DistinctCount
      <3>3. Len(data) \in Nat /\ Len(data) >= RolloutBatchSize /\ Len(data) <= RolloutBatchSize
        BY <1>3, <3>1 DEF Return, BatchFits
      <3> QED
        BY <3>2, <3>3
    <2>4. \E batch \in SUBSET Delivery!Live :
             Cardinality(batch) = RolloutBatchSize /\ delivered' = delivered \cup batch
      <3> DEFINE batch == ToSet(data)
      <3>1. batch \in SUBSET Delivery!Live /\ Cardinality(batch) = RolloutBatchSize
               /\ delivered' = delivered \cup batch
        BY <2>1, <2>2, <2>3
      <3> HIDE DEF batch
      <3> QED
        BY <3>1
    <2>5. Returned' = Returned + 1
      <3>1. caller = "waiting" /\ call.kind = "generate"
        BY <1>3 DEF Return, AtLoopTest, CallerWaits, TypeOK
      <3>2. caller' = "idle" /\ UNCHANGED <<call, next_rollout>>
        BY <1>3 DEF Return
      <3>3. next_rollout \in Nat /\ StartRollout \in Nat
        BY DEF TypeOK
      <3> QED
        BY <3>1, <3>2, <3>3 DEF Returned
    <2>6. Delivery!Deliver
      BY <2>1, <2>4, <2>5 DEF Delivery!Deliver, Cardinality, Delivery!Cardinality
    <2> QED
      BY <2>6 DEF Delivery!Next
  <1>4. CASE CallerStep
    <2>1. Returned' = Returned
      <3>1. next_rollout \in Nat /\ StartRollout \in Nat
        BY DEF TypeOK
      <3>2. CASE StartGenerate
        BY <3>1, <3>2 DEF StartGenerate, Returned
      <3>3. CASE StartEval
        BY <3>1, <3>3 DEF StartEval, Returned
      <3>4. CASE EnterWorker
        BY <3>1, <3>4 DEF EnterWorker, Returned
      <3>5. CASE EvalReturns
        BY <3>1, <3>5 DEF EvalReturns, Returned, CallerWaits
      <3> QED
        BY <1>4, <3>2, <3>3, <3>4, <3>5 DEF CallerStep
    <2>2. UNCHANGED <<sample_group_index, delivered, lost>>
      BY <1>4 DEF CallerStep, StartGenerate, StartEval, EnterWorker, EvalReturns,
           sourceVars, historyVars
    <2> QED
      BY <2>1, <2>2 DEF Delivery!vars
  <1>5. CASE UNCHANGED <<sample_group_index, delivered, lost, callerVars>>
    BY <1>5 DEF Delivery!vars, Returned, callerVars
  <1> QED
    BY <1>1, <1>2, <1>3, <1>4, <1>5
    DEF Next, TaskStep, TaskReturns, TaskFaults, WorkerWakes, WorkerPass, HarvestReturned,
        EndHarvest, LaunchPending, EndLaunch,
        CollectorResumes, BeginIteration, CollectorRuns, DrainAborted, DrainCompleted,
        Classify, AcceptGroup, WaitForExpired, FillWithFresh, RestoreInference, EndTaking,
        EndIteration, vars, sourceVars, callerVars, historyVars

\* Training sees GroupDelivery: each call returns RolloutBatchSize groups that
\* were handed out by the data source and returned by no earlier call, and no
\* group vanishes but with its task.
THEOREM Refinement == Spec => ImplementsDelivery
  <1>1. Init => TypeOK /\ OneHome /\ BatchFits /\ CallerWaits
    <2>1. ASSUME Init PROVE BatchFits
      <3>1. Len(data) = 0
        BY <2>1 DEF Init
      <3> QED
        BY <3>1, ConstantsAssumption DEF BatchFits
    <2>2. Init => CallerWaits
      BY DEF Init, CallerWaits
    <2> QED
      BY <2>1, <2>2, InitTypeOK, InitOneHome
  <1>2. (TypeOK /\ OneHome /\ BatchFits /\ CallerWaits) /\ [Next]_vars =>
          (TypeOK /\ OneHome /\ BatchFits /\ CallerWaits)'
    BY NextTypeOK, NextOneHome, NextBatchFits, NextCallerWaits
  <1>3. Init => Delivery!Init
    BY ConstantsAssumption DEF Init, Returned, Delivery!Init
  <1> QED
    BY <1>1, <1>2, <1>3, NextDelivers, PTL DEF Spec, ImplementsDelivery, Delivery!Spec
-----------------------------------------------------------------------------
(***************************************************************************)
(* The order in which groups are given to training, and that only complete *)
(* groups are given.                                                       *)
(***************************************************************************)
Base == TypeOK /\ OneHome /\ BatchFits /\ CallerWaits

LEMMA InvariantBase == Spec => []Base
  <1>1. Init => BatchFits /\ CallerWaits
    <2>1. ASSUME Init PROVE Len(data) = 0
      BY <2>1 DEF Init
    <2> QED
      BY <2>1, ConstantsAssumption DEF Init, BatchFits, CallerWaits
  <1>2. Init => Base
    BY <1>1, InitTypeOK, InitOneHome DEF Base
  <1>3. Base /\ [Next]_vars => Base'
    BY NextTypeOK, NextOneHome, NextBatchFits, NextCallerWaits DEF Base
  <1> QED
    BY <1>2, <1>3, PTL DEF Spec

\* A cached group is in the list of its entry step.
LEMMA CachedWhere ==
    ASSUME Base, NEW g \in Cached
    PROVE  /\ g \in Groups /\ EntryStep(g) \in EntrySteps
           /\ g \in ToSet(pending_completed[EntryStep(g)])
           /\ pending_completed[EntryStep(g)] # <<>>
  <1>1. PICK es \in EntrySteps : g \in ToSet(pending_completed[es])
    BY DEF Cached
  <1>2. EntryStep(g) = es
    BY <1>1 DEF Base, OneHome, Filed
  <1>3. g \in Groups
    BY <1>1, ElementsIn DEF Base, TypeOK
  <1>4. pending_completed[es] # <<>>
    BY <1>1 DEF ToSet
  <1> QED
    BY <1>1, <1>2, <1>3, <1>4

LEMMA StepsAreNumbers == EntrySteps \subseteq Int /\ \A g \in Groups : EntryStep(g) \in Int
  BY ConstantsAssumption DEF EntrySteps, EntryStep, Groups

(***************************************************************************)
(* The order of consumption                                                *)
(***************************************************************************)
\* While the collector holds the event loop the worker sleeps; and while it
\* takes groups that are not expired, no expired one is left.
Turn ==
    /\ collector \notin Suspended => worker = "sleep"
    /\ collector \in {"take_all", "fill"} /\ Len(data) < RolloutBatchSize =>
          ExpiredInFlight = {} /\ \A g \in Cached : ~Expired(g)

LEMMA NoneExpired ==
    ASSUME Base, ExpiredCount = 0
    PROVE  ExpiredInFlight = {} /\ \A g \in Cached : ~Expired(g)
  <1> DEFINE E == { g \in Completed : Expired(g) }
  <1>1. IsFiniteSet(Groups)
    BY FS_Interval, ConstantsAssumption DEF Groups
  <1>2. E \subseteq Groups /\ ExpiredInFlight \subseteq Groups
    BY DEF Completed, ExpiredInFlight, Base, TypeOK
  <1>3. IsFiniteSet(E) /\ IsFiniteSet(ExpiredInFlight)
    BY <1>1, <1>2, FS_Subset
  <1>4. Cardinality(E) \in Nat /\ Cardinality(ExpiredInFlight) \in Nat
    BY <1>3, FS_CardinalityType
  <1>5. Cardinality(E) = 0 /\ Cardinality(ExpiredInFlight) = 0
    BY <1>4 DEF ExpiredCount
  <1>6. E = {} /\ ExpiredInFlight = {}
    BY <1>3, <1>5, FS_EmptySet
  <1>7. \A g \in Cached : g \in Completed
    BY CachedWhere DEF Completed, ToSet
  <1> QED
    BY <1>6, <1>7

LEMMA NextTurn == Base /\ Base' /\ Turn /\ [Next]_vars => Turn'
  <1> SUFFICES ASSUME Base, Base', Turn, [Next]_vars PROVE Turn'
    OBVIOUS
  <1> USE ConstantsAssumption
  <1>1. CASE CallerStep
    <2>1. collector' \in Suspended
      BY <1>1 DEF CallerStep, StartGenerate, StartEval, EnterWorker, EvalReturns, Base,
                  CallerWaits, collectorVars, Suspended
    <2> QED
      BY <2>1 DEF Turn, Suspended
  <1>2. CASE TaskStep \/ WorkerWakes \/ WorkerPass
    <2>1. collector \in Suspended /\ collector' = collector
      BY <1>2 DEF Turn, TaskStep, TaskReturns, TaskFaults, WorkerWakes, LoopFree, WorkerPass,
           HarvestReturned, HarvestRaised, HarvestFanOut, EndHarvest, LaunchPending,
           LaunchFresh, EndLaunch, collectorVars
    <2> QED
      BY <2>1 DEF Turn, Suspended
  <1>3. CASE BeginIteration \/ Return \/ EndIteration \/ WaitForExpired \/ RestoreInference
    <2>1. collector' \notin {"take_all", "fill"} /\ worker' = worker
      BY <1>3 DEF BeginIteration, Return, EndIteration, WaitForExpired, RestoreInference, workerVars
    <2>2. collector' \notin Suspended => worker = "sleep"
      BY <1>3 DEF Turn, BeginIteration, AtLoopTest, LoopFree, Return, EndIteration, WaitForExpired,
                  RestoreInference, Suspended
    <2> QED
      BY <2>1, <2>2 DEF Turn
  <1>4. CASE DrainAborted \/ DrainCompleted \/ EndTaking
    <2>1. collector' \in {"drain", "iterated"} /\ collector \notin Suspended /\ worker' = worker
      BY <1>4 DEF DrainAborted, DrainCompleted, EndTaking, collectorVars, workerVars, Suspended
    <2> QED
      BY <2>1 DEF Turn
  <1>5. CASE Classify
    <2>1. /\ collector = "drain" /\ collector' \in {"take_all", "case1", "case2"}
          /\ collector' = "take_all" => ExpiredCount = 0
          /\ UNCHANGED <<worker, data, active, pending_completed, current_step>>
      BY <1>5 DEF Classify, taskVars, callerVars
    <2>2. collector' = "take_all" => ExpiredInFlight = {} /\ \A g \in Cached : ~Expired(g)
      BY <2>1, NoneExpired
    <2> QED
      BY <2>1, <2>2 DEF Turn, ExpiredInFlight, Cached, Expired, ExpiredStep, Suspended
  <1>6. CASE FillWithFresh
    <2>1. /\ collector = "case1" /\ collector' = "fill" /\ LoopOver /\ ~MustWait
          /\ UNCHANGED <<worker, data, active, pending_completed, current_step>>
      BY <1>6 DEF FillWithFresh, workerVars, taskVars, callerVars
    <2>2. ASSUME Len(data) < RolloutBatchSize
          PROVE  ExpiredInFlight = {} /\ \A g \in Cached : ~Expired(g)
      <3>1. ExpiredInFlight = {}
        BY <2>1, <2>2 DEF MustWait
      <3>2. \A es \in EntrySteps : ~Offered(es)
        <4>1. Len(data) \in Nat
          BY DEF Base, TypeOK
        <4> QED
          BY <2>1, <2>2, <4>1 DEF LoopOver
      <3>3. ASSUME NEW g \in Cached PROVE ~Expired(g)
        <4>1. EntryStep(g) \in EntrySteps /\ pending_completed[EntryStep(g)] # <<>>
          BY CachedWhere
        <4>2. ~Offered(EntryStep(g))
          BY <3>2, <4>1
        <4> QED
          BY <2>1, <4>1, <4>2 DEF Offered, Expired
      <3> QED
        BY <3>1, <3>3
    <2> QED
      BY <2>1, <2>2 DEF Turn, ExpiredInFlight, Cached, Expired, ExpiredStep, Suspended
  <1>7. CASE AcceptGroup
    <2> PICK es \in EntrySteps :
           /\ Offered(es)
           /\ data' = Append(data, Head(pending_completed[es]))
           /\ pending_completed' = [pending_completed EXCEPT ![es] = Tail(@)]
      BY <1>7 DEF AcceptGroup
    <2>1. /\ Taking /\ Len(data) < RolloutBatchSize
          /\ UNCHANGED <<worker, collector, active, current_step>>
      BY <1>7 DEF AcceptGroup, workerVars, taskVars, callerVars
    <2>2. Cached' \subseteq Cached
      BY Uncaching DEF Offered, Base, TypeOK, OneHome, CachedDistinct, NoDuplicates
    <2> QED
      BY <2>1, <2>2 DEF Turn, ExpiredInFlight, Expired, ExpiredStep
  <1>8. CASE UNCHANGED vars
    BY <1>8 DEF Turn, vars, collectorVars, workerVars, taskVars, callerVars, ExpiredInFlight, Cached,
                Expired, ExpiredStep
  <1> QED
    BY <1>1, <1>2, <1>3, <1>4, <1>5, <1>6, <1>7, <1>8 DEF Next, CollectorResumes, CollectorRuns

LEMMA InvariantTurn == Spec => []Turn
  <1>1. Init => Turn
    BY DEF Init, Turn, Suspended
  <1> QED
    BY <1>1, NextTurn, InvariantBase, PTL DEF Spec

\* What enters the batch, and whence
LEMMA Enters ==
    ASSUME Base, [Next]_vars, NEW i \in DOMAIN data' \ DOMAIN data
    PROVE  \E es \in EntrySteps :
              /\ Taking /\ Len(data) < RolloutBatchSize /\ Offered(es)
              /\ \A earlier \in EntrySteps : Offered(earlier) => es <= earlier
              /\ i = Len(data) + 1 /\ data'[i] = Head(pending_completed[es])
              /\ EntryStep(data'[i]) = es
  <1>1. AcceptGroup
    <2>1. CASE Return
      BY <2>1 DEF Return
    <2>2. CASE UNCHANGED data
      BY <2>2
    <2> QED
      BY <2>1, <2>2
      DEF Next, CallerStep, StartGenerate, StartEval, EnterWorker, EvalReturns,
        TaskStep, TaskReturns, TaskFaults, WorkerWakes, WorkerPass, HarvestReturned,
        HarvestRaised, HarvestFanOut, EndHarvest, LaunchPending, LaunchFresh, EndLaunch,
        CollectorResumes, BeginIteration, CollectorRuns, DrainAborted, DrainCompleted,
        Classify, WaitForExpired, FillWithFresh, RestoreInference, EndTaking, EndIteration,
        vars, collectorVars
  <1>2. PICK es \in EntrySteps :
           /\ Offered(es)
           /\ \A earlier \in EntrySteps : Offered(earlier) => es <= earlier
           /\ data' = Append(data, Head(pending_completed[es]))
    BY <1>1 DEF AcceptGroup
  <1>3. Taking /\ Len(data) < RolloutBatchSize
    BY <1>1 DEF AcceptGroup
  <1>4. i = Len(data) + 1 /\ data'[i] = Head(pending_completed[es])
    BY <1>2 DEF Base, TypeOK
  <1>5. EntryStep(Head(pending_completed[es])) = es
    <2>1. Head(pending_completed[es]) \in ToSet(pending_completed[es])
      BY <1>2, PopHead DEF Offered, Base, TypeOK, OneHome, NoDuplicates
    <2> QED
      BY <2>1 DEF Base, OneHome, Filed
  <1> QED
    BY <1>2, <1>3, <1>4, <1>5

\* "Must include all m expired groups in the current training step"
\* (fully_async_rollout.py:663-667): no group that is not expired enters a batch
\* while an expired one is complete or in flight, through waits, pauses, aborts
\* and evals.
THEOREM ExpiredFirst == Spec => ExpiredGoFirst
  <1>1. Base /\ Turn /\ [Next]_vars =>
           \A i \in DOMAIN data' \ DOMAIN data :
              ~Expired(data'[i]) => /\ ExpiredInFlight = {}
                                    /\ \A g \in Cached : ~Expired(g)
    <2> SUFFICES ASSUME Base, Turn, [Next]_vars, NEW i \in DOMAIN data' \ DOMAIN data,
                        ~Expired(data'[i])
                 PROVE  ExpiredInFlight = {} /\ \A g \in Cached : ~Expired(g)
      OBVIOUS
    <2>1. PICK es \in EntrySteps : /\ Taking /\ Len(data) < RolloutBatchSize /\ Offered(es)
                                  /\ EntryStep(data'[i]) = es
      BY Enters
    <2>2. ~ExpiredStep(es)
      BY <2>1 DEF Expired
    <2>3. collector \in {"take_all", "fill"}
      BY <2>1, <2>2 DEF Offered, Taking
    <2> QED
      BY <2>1, <2>3 DEF Turn
  <1> QED
    BY <1>1, InvariantBase, InvariantTurn, PTL DEF Spec, ExpiredGoFirst

\* What enters the batch is never younger than a cached group.
LEMMA EarliestEnters ==
    ASSUME Base, Turn, [Next]_vars, NEW i \in DOMAIN data' \ DOMAIN data, NEW g \in Cached
    PROVE  EntryStep(data'[i]) <= EntryStep(g)
  <1> DEFINE e == EntryStep(g)
  <1>1. PICK es \in EntrySteps :
           /\ Taking /\ Len(data) < RolloutBatchSize /\ Offered(es)
           /\ \A earlier \in EntrySteps : Offered(earlier) => es <= earlier
           /\ EntryStep(data'[i]) = es
    BY Enters
  <1>2. e \in EntrySteps /\ pending_completed[e] # <<>>
    BY CachedWhere
  <1>3. es \in Int /\ e \in Int /\ current_step \in Int /\ MaxDelayStep \in Int
    BY <1>2, StepsAreNumbers, ConstantsAssumption DEF Base, TypeOK
  <1>4. CASE Offered(e)
    BY <1>1, <1>2, <1>4
  <1>5. CASE ~Offered(e) /\ collector \in {"case1", "case2"}
    <2>1. ExpiredStep(es) /\ ~ExpiredStep(e)
      BY <1>1, <1>2, <1>5 DEF Offered
    <2>2. es <= e
      <3> HIDE DEF e
      <3> QED
        BY <1>3, <2>1 DEF ExpiredStep
    <2> QED
      BY <1>1, <2>2
  <1>6. CASE ~Offered(e) /\ collector = "fill"
    <2>1. Expired(g)
      BY <1>2, <1>6 DEF Offered, Expired
    <2> QED
      BY <1>1, <1>6, <2>1 DEF Turn
  <1>7. CASE ~Offered(e) /\ collector = "take_all"
    BY <1>2, <1>7 DEF Offered
  <1> QED
    BY <1>1, <1>4, <1>5, <1>6, <1>7 DEF Taking

\* "Completed groups are consumed in ascending entry_step order"
\* (fully_async_rollout.py:655-658), whichever branch takes them.
THEOREM AscendingOrder == Spec => EarliestFirst
  <1>1. Base /\ Turn /\ [Next]_vars =>
           \A i \in DOMAIN data' \ DOMAIN data :
              \A g \in Cached : EntryStep(data'[i]) <= EntryStep(g)
    BY EarliestEnters
  <1> QED
    BY <1>1, InvariantBase, InvariantTurn, PTL DEF Spec, EarliestFirst

(***************************************************************************)
(* What training is given is complete                                      *)
(***************************************************************************)
\* No call carries an id beyond the newest rollout asked for, nor does the
\* rollout id the worker stamps results with.
Clock ==
    /\ StartRollout <= next_rollout
    /\ call.id <= NewestRollout
    /\ current_rollout_id <= NewestRollout
    /\ worker # "off" => current_rollout_id # None

LEMMA NextClock ==
    ASSUME Base, Clock, [Next]_vars
    PROVE  Clock' /\ NewestRollout \in Nat /\ NewestRollout' \in Nat
              /\ NewestRollout <= NewestRollout'
  <1> USE ConstantsAssumption
  <1>1. /\ next_rollout \in Nat /\ call.id \in Nat /\ current_rollout_id \in Nat \cup {None}
        /\ StartRollout \in Nat /\ StartRollout <= next_rollout
        /\ call.id <= NewestRollout /\ current_rollout_id <= NewestRollout
        /\ worker # "off" => current_rollout_id # None
    BY DEF Base, TypeOK, Clock
  <1>2. NewestRollout \in Nat
    BY <1>1 DEF NewestRollout
  <1>3. CASE StartGenerate
    <2>1. /\ next_rollout' = next_rollout + 1 /\ call'.id = next_rollout
          /\ UNCHANGED <<current_rollout_id, worker>>
      BY <1>3 DEF StartGenerate, workerVars
    <2>2. NewestRollout' = next_rollout /\ NewestRollout <= next_rollout
      BY <1>1, <2>1 DEF NewestRollout
    <2>3. current_rollout_id <= next_rollout
      BY <1>1, <1>2, <2>2 DEF None
    <2> QED
      BY <1>1, <1>2, <2>1, <2>2, <2>3 DEF Clock
  <1>4. CASE StartEval
    <2>1. PICK r \in EvalIds : call' = [kind |-> "eval", id |-> r]
      BY <1>4 DEF StartEval
    <2>2. UNCHANGED <<next_rollout, current_rollout_id, worker>>
      BY <1>4 DEF StartEval, workerVars
    <2>3. r <= NewestRollout
      BY <1>1, <2>1 DEF EvalIds, NewestRollout
    <2>4. call'.id = r /\ NewestRollout' = NewestRollout
      BY <2>1, <2>2 DEF NewestRollout
    <2> QED
      BY <1>1, <1>2, <2>2, <2>3, <2>4 DEF Clock
  <1>5. CASE EnterWorker
    <2>1. current_rollout_id' = call.id /\ UNCHANGED <<call, next_rollout>>
      BY <1>5 DEF EnterWorker
    <2>2. NewestRollout' = NewestRollout
      BY <2>1 DEF NewestRollout
    <2> QED
      BY <1>1, <1>2, <2>1, <2>2 DEF Clock, None
  <1>6. CASE UNCHANGED <<next_rollout, call, current_rollout_id>> /\ (worker' # "off" => worker # "off")
    <2>1. NewestRollout' = NewestRollout
      BY <1>6 DEF NewestRollout
    <2> QED
      BY <1>1, <1>2, <1>6, <2>1 DEF Clock
  <1>7. CASE EvalReturns \/ TaskStep \/ CollectorResumes \/ CollectorRuns \/ UNCHANGED vars
    BY <1>6, <1>7
    DEF EvalReturns, TaskStep, TaskReturns, TaskFaults, CollectorResumes, BeginIteration, Return,
        CollectorRuns, DrainAborted, DrainCompleted, Classify, AcceptGroup, WaitForExpired,
        FillWithFresh, RestoreInference, EndTaking, EndIteration, vars, workerVars, callerVars
  <1>8. CASE WorkerWakes \/ WorkerPass
    BY <1>6, <1>8
    DEF WorkerWakes, LoopFree, WorkerPass, HarvestReturned, HarvestRaised, HarvestFanOut,
        EndHarvest, LaunchPending, LaunchFresh, EndLaunch, workerVars, callerVars
  <1> QED
    BY <1>3, <1>4, <1>5, <1>7, <1>8 DEF Next, CallerStep

LEMMA InvariantClock == Spec => []Clock
  <1>1. ASSUME Init PROVE Clock
    <2>1. /\ next_rollout = StartRollout /\ call.id = StartRollout
          /\ current_rollout_id = None /\ worker = "off"
      BY <1>1 DEF Init
    <2>2. NewestRollout = StartRollout
      BY <2>1 DEF NewestRollout
    <2> QED
      BY <2>1, <2>2, ConstantsAssumption DEF Clock, None
  <1>2. Base /\ Clock /\ [Next]_vars => Clock'
    BY NextClock
  <1> QED
    BY <1>1, <1>2, InvariantBase, PTL DEF Spec

\* The life of a sample: only a completed one is stamped, with a rollout asked
\* for; a completed one is stamped unless its task has just returned; and what
\* has left its task is not untouched, what has left the queue is complete.
Stamped(t) ==
    t.completed_step # None => t.status = "completed" /\ t.completed_step \in 0 .. NewestRollout

Life ==
    /\ \A g \in DOMAIN samples : \A s \in SampleIds :
          /\ Stamped(samples[g][s])
          /\ samples[g][s].status = "completed" =>
                samples[g][s].completed_step # None
                   \/ (g \in DOMAIN active /\ active[g] = "returned")
          /\ g \in DOMAIN active /\ active[g] = "returned" => samples[g][s].status # "pending"
    /\ \A g \in ToSet(output_queue) : \A s \in SampleIds : samples[g][s].status # "pending"
    /\ \A g \in Cached \cup ToSet(data) : \A s \in SampleIds :
          samples[g][s].status = "completed"

LEMMA LifeSuffices == Base /\ Clock /\ Life => AcceptedAreComplete
  <1> SUFFICES ASSUME Base, Clock, Life, NEW g \in Cached \cup ToSet(data), NEW s \in SampleIds
               PROVE  /\ samples[g][s].status = "completed"
                      /\ samples[g][s].completed_step \in 0 .. NewestRollout
    BY DEF AcceptedAreComplete
  <1>1. g \in DOMAIN samples /\ g \notin DOMAIN active
    BY DEF Base, OneHome, Accounted, Disjoint
  <1> QED
    BY <1>1 DEF Life, Stamped

\* Every step of a sample's life
LEMMA NextLife == Base /\ Base' /\ Clock /\ Life /\ [Next]_vars => Life'
  <1> SUFFICES ASSUME Base, Base', Clock, Life, [Next]_vars PROVE Life'
    OBVIOUS
  <1> USE ConstantsAssumption
  <1> DEFINE Good(t) == t.completed_step # None =>
                           t.status = "completed" /\ t.completed_step \in 0 .. NewestRollout'
             Held == Cached \cup ToSet(data)
  <1>a. NewestRollout \in Nat /\ NewestRollout' \in Nat /\ NewestRollout <= NewestRollout'
    BY NextClock
  <1>b. \A t : Stamped(t) => Good(t)
    BY <1>a DEF Stamped
  <1>c. /\ ToSet(output_queue) \subseteq DOMAIN samples /\ Held \subseteq DOMAIN samples
        /\ DOMAIN active \subseteq DOMAIN samples
        /\ DOMAIN active \cap ToSet(output_queue) = {} /\ DOMAIN active \cap Held = {}
        /\ ToSet(output_queue) \cap Held = {}
    BY DEF Base, OneHome, Accounted, Disjoint
  <1>d. \A g \in DOMAIN samples : \A s \in SampleIds : samples[g][s] \in SampleStates
    BY DEF Base, TypeOK
  <1>e. /\ \A g \in DOMAIN samples : \A s \in SampleIds :
              /\ Good(samples[g][s])
              /\ samples[g][s].status = "completed" =>
                    samples[g][s].completed_step # None
                       \/ (g \in DOMAIN active /\ active[g] = "returned")
              /\ g \in DOMAIN active /\ active[g] = "returned" => samples[g][s].status # "pending"
        /\ \A g \in ToSet(output_queue) : \A s \in SampleIds : samples[g][s].status # "pending"
        /\ \A g \in Held : \A s \in SampleIds : samples[g][s].status = "completed"
    BY <1>b DEF Life
  <1>f. SUFFICES /\ \A g \in DOMAIN samples' : \A s \in SampleIds :
                       /\ Good(samples'[g][s])
                       /\ samples'[g][s].status = "completed" =>
                             samples'[g][s].completed_step # None
                                \/ (g \in DOMAIN active' /\ active'[g] = "returned")
                       /\ g \in DOMAIN active' /\ active'[g] = "returned" =>
                             samples'[g][s].status # "pending"
                 /\ \A g \in ToSet(output_queue') : \A s \in SampleIds :
                       samples'[g][s].status # "pending"
                 /\ \A g \in Cached' \cup ToSet(data') : \A s \in SampleIds :
                       samples'[g][s].status = "completed"
    BY DEF Life, Stamped
  <1> HIDE DEF Good, Held
  <1>1. CASE UNCHANGED <<samples, active, output_queue, pending_completed, data>>
    <2>1. Cached' \cup ToSet(data') = Held
      BY <1>1 DEF Held, Cached
    <2> QED
      BY <1>1, <1>e, <2>1
  <1>2. CASE TaskReturns
    <2>1. /\ UNCHANGED <<output_queue, pending_completed, data>>
          /\ \E g \in DOMAIN active :
                /\ active[g] = "running"
                /\ \E status \in [SampleIds -> {"completed", "aborted"}] :
                     /\ \A s \in SampleIds :
                           samples[g][s].status = "completed" => status[s] = "completed"
                     /\ samples' = [samples EXCEPT ![g] =
                           [s \in SampleIds |-> [samples[g][s] EXCEPT !.status = status[s]]]]
                /\ active' = [active EXCEPT ![g] = "returned"]
      <3> PICK g \in Running, outcome \in [SampleIds -> {"completed", "aborted"}] :
             LET status == [s \in SampleIds |->
                              IF samples[g][s].status = "completed"
                                THEN "completed" ELSE outcome[s]]
             IN /\ samples' = [samples EXCEPT ![g] =
                                 [s \in SampleIds |->
                                    [samples[g][s] EXCEPT !.status = status[s]]]]
                /\ active' = [active EXCEPT ![g] = "returned"]
        BY <1>2 DEF TaskReturns
      <3> DEFINE status == [s \in SampleIds |->
                              IF samples[g][s].status = "completed"
                                THEN "completed" ELSE outcome[s]]
      <3>1. status \in [SampleIds -> {"completed", "aborted"}]
        OBVIOUS
      <3>2. \A s \in SampleIds : samples[g][s].status = "completed" => status[s] = "completed"
        OBVIOUS
      <3>3. /\ samples' = [samples EXCEPT ![g] =
                              [s \in SampleIds |-> [samples[g][s] EXCEPT !.status = status[s]]]]
            /\ active' = [active EXCEPT ![g] = "returned"]
        OBVIOUS
      <3> HIDE DEF status
      <3>4. UNCHANGED <<output_queue, pending_completed, data>>
        BY <1>2 DEF TaskReturns, collectorVars
      <3> QED
        BY <3>1, <3>2, <3>3, <3>4 DEF Running
    <2> PICK g \in DOMAIN active : 
                /\ active[g] = "running"
                /\ \E status \in [SampleIds -> {"completed", "aborted"}] :
                     /\ \A s \in SampleIds :
                           samples[g][s].status = "completed" => status[s] = "completed"
                     /\ samples' = [samples EXCEPT ![g] =
                           [s \in SampleIds |-> [samples[g][s] EXCEPT !.status = status[s]]]]
                /\ active' = [active EXCEPT ![g] = "returned"]
      BY <2>1
    <2> PICK status \in [SampleIds -> {"completed", "aborted"}] :
                     /\ \A s \in SampleIds :
                           samples[g][s].status = "completed" => status[s] = "completed"
                     /\ samples' = [samples EXCEPT ![g] =
                           [s \in SampleIds |-> [samples[g][s] EXCEPT !.status = status[s]]]]
      OBVIOUS
    <2>2. /\ DOMAIN samples' = DOMAIN samples
          /\ \A h \in DOMAIN samples : h # g => samples'[h] = samples[h]
      BY DEF Base, TypeOK
    <2>3. \A s \in SampleIds : /\ samples'[g][s].status = status[s]
                               /\ samples'[g][s].completed_step = samples[g][s].completed_step
      BY <1>c, <1>d DEF SampleStates
    <2>4. /\ DOMAIN active' = DOMAIN active /\ active'[g] = "returned"
          /\ \A h \in DOMAIN active : h # g => active'[h] = active[h]
      BY DEF Base, TypeOK
    <2>5. \A s \in SampleIds : Good(samples'[g][s]) /\ samples'[g][s].status # "pending"
      BY <1>c, <1>e, <2>3 DEF Good
    <2>6. Cached' \cup ToSet(data') = Held
      BY <2>1 DEF Held, Cached
    <2>7. g \notin ToSet(output_queue) /\ g \notin Held
      BY <1>c
    <2>8. \A h \in DOMAIN samples' : \A s \in SampleIds :
                       /\ Good(samples'[h][s])
                       /\ samples'[h][s].status = "completed" =>
                             samples'[h][s].completed_step # None
                                \/ (h \in DOMAIN active' /\ active'[h] = "returned")
                       /\ h \in DOMAIN active' /\ active'[h] = "returned" =>
                             samples'[h][s].status # "pending"
      <3> TAKE h \in DOMAIN samples'
      <3>1. CASE h = g
        BY <3>1, <2>4, <2>5
      <3>2. CASE h # g
        BY <3>2, <1>e, <2>2, <2>4
      <3> QED
        BY <3>1, <3>2
    <2>9. \A h \in ToSet(output_queue') \cup Held : samples'[h] = samples[h]
      BY <2>1, <2>2, <2>7, <1>c
    <2> QED
      BY <1>e, <2>1, <2>6, <2>8, <2>9
  <1>3. CASE TaskFaults
    <2>1. /\ UNCHANGED <<samples, output_queue, pending_completed, data>>
          /\ \E g \in DOMAIN active : \E kind \in FaultKinds :
               active[g] = "running" /\ active' = [active EXCEPT ![g] = kind]
      BY <1>3 DEF TaskFaults, collectorVars, Running
    <2>2. DOMAIN active' = DOMAIN active
             /\ \A g \in DOMAIN active : active'[g] = "returned" <=> active[g] = "returned"
      BY <2>1
    <2>3. Cached' \cup ToSet(data') = Held
      BY <2>1 DEF Held, Cached
    <2> QED
      BY <1>e, <2>1, <2>2, <2>3
  <1>4. CASE HarvestReturned
    <2> PICK g \in DOMAIN active :
          /\ active[g] = "returned"
          /\ active' = [h \in DOMAIN active \ {g} |-> active[h]]
          /\ samples' = [samples EXCEPT ![g] = [s \in SampleIds |-> Stamp(samples[g][s])]]
          /\ output_queue' = Append(output_queue, g)
      BY <1>4 DEF HarvestReturned, Retire
    <2>1. /\ DOMAIN samples' = DOMAIN samples
          /\ \A h \in DOMAIN samples : h # g => samples'[h] = samples[h]
      BY DEF Base, TypeOK
    <2>2. \A s \in SampleIds : samples'[g][s] = Stamp(samples[g][s])
      BY <1>c DEF Base, TypeOK
    <2>3. current_rollout_id \in Nat /\ current_rollout_id <= NewestRollout'
      <3>1. worker = "harvest"
        BY <1>4 DEF HarvestReturned
      <3>2. current_rollout_id \in Nat \cup {None}
        BY DEF Base, TypeOK
      <3>3. current_rollout_id # None /\ current_rollout_id <= NewestRollout
        BY <3>1 DEF Clock
      <3>4. current_rollout_id \in Nat
        BY <3>2, <3>3
      <3> QED
        BY <3>3, <3>4, <1>a
    <2>4. ASSUME NEW s \in SampleIds
          PROVE  /\ Good(samples'[g][s])
                 /\ samples'[g][s].status = "completed" => samples'[g][s].completed_step # None
                 /\ samples'[g][s].status # "pending"
      <3> DEFINE t == samples[g][s]
      <3>1. t \in SampleStates /\ Good(t) /\ t.status # "pending"
        BY <1>c, <1>d, <1>e
      <3> HIDE DEF t
      <3>2. CASE t.status # "aborted" /\ t.completed_step = None
        <4>1. Stamp(t) = [t EXCEPT !.completed_step = current_rollout_id] /\ t.status = "completed"
          BY <3>1, <3>2 DEF Stamp, SampleStates
        <4>2. Stamp(t).status = "completed" /\ Stamp(t).completed_step = current_rollout_id
          BY <3>1, <4>1 DEF SampleStates
        <4>3. Stamp(t).completed_step \in 0 .. NewestRollout' /\ Stamp(t).completed_step # None
          BY <2>3, <4>2, <1>a DEF None
        <4> QED
          BY <2>2, <4>2, <4>3 DEF Good, t
      <3>3. CASE ~(t.status # "aborted" /\ t.completed_step = None)
        <4>1. Stamp(t) = t
          BY <3>3 DEF Stamp
        <4>2. t.status = "completed" => t.completed_step # None
          BY <3>3
        <4> QED
          BY <2>2, <3>1, <4>1, <4>2 DEF t
      <3> QED
        BY <3>2, <3>3
    <2>5. ToSet(output_queue') = ToSet(output_queue) \cup {g}
      <3>1. output_queue \in Seq(Groups) /\ g \in Groups
        BY DEF Base, TypeOK
      <3> QED
        BY <3>1, PushTail
    <2>6. UNCHANGED <<pending_completed, data>>
      BY <1>4 DEF HarvestReturned, collectorVars
    <2>7. Cached' \cup ToSet(data') = Held /\ g \notin Held
      BY <2>6, <1>c DEF Held, Cached
    <2>8. DOMAIN active' = DOMAIN active \ {g} /\ \A h \in DOMAIN active' : active'[h] = active[h]
      OBVIOUS
    <2>9. \A h \in DOMAIN samples' : \A s \in SampleIds :
                       /\ Good(samples'[h][s])
                       /\ samples'[h][s].status = "completed" =>
                             samples'[h][s].completed_step # None
                                \/ (h \in DOMAIN active' /\ active'[h] = "returned")
                       /\ h \in DOMAIN active' /\ active'[h] = "returned" =>
                             samples'[h][s].status # "pending"
      <3> TAKE h \in DOMAIN samples'
      <3>1. CASE h = g
        BY <3>1, <2>4, <2>8
      <3>2. CASE h # g
        BY <3>2, <1>e, <2>1, <2>8
      <3> QED
        BY <3>1, <3>2
    <2>10. \A h \in ToSet(output_queue) \cup Held : h # g => samples'[h] = samples[h]
      BY <2>1, <1>c
    <2> QED
      BY <1>e, <2>4, <2>5, <2>7, <2>9, <2>10
  <1>5. CASE HarvestRaised \/ HarvestFanOut
    <2>1. PICK g \in DOMAIN active :
             /\ active' = [h \in DOMAIN active \ {g} |-> active[h]]
             /\ samples' = [h \in DOMAIN samples \ {g} |-> samples[h]]
      BY <1>5 DEF HarvestRaised, HarvestFanOut, Retire, Forget
    <2>2. /\ \A h \in DOMAIN samples' : h \in DOMAIN samples /\ h # g
          /\ \A h \in DOMAIN samples : h # g => samples'[h] = samples[h]
          /\ \A h \in DOMAIN active' : h \in DOMAIN active /\ active'[h] = active[h]
          /\ \A h \in DOMAIN active : h # g => h \in DOMAIN active' /\ active'[h] = active[h]
      BY <2>1
    <2>3. UNCHANGED <<output_queue, pending_completed, data>>
      BY <1>5 DEF HarvestRaised, HarvestFanOut, collectorVars
    <2>4. Cached' \cup ToSet(data') = Held
      BY <2>3 DEF Held, Cached
    <2>5. \A h \in ToSet(output_queue) \cup Held : samples'[h] = samples[h]
      BY <2>2, <1>c
    <2>6. \A h \in DOMAIN samples' : \A s \in SampleIds :
                       /\ Good(samples'[h][s])
                       /\ samples'[h][s].status = "completed" =>
                             samples'[h][s].completed_step # None
                                \/ (h \in DOMAIN active' /\ active'[h] = "returned")
                       /\ h \in DOMAIN active' /\ active'[h] = "returned" =>
                             samples'[h][s].status # "pending"
      <3> TAKE h \in DOMAIN samples'
      <3>1. h \in DOMAIN samples /\ h # g /\ samples'[h] = samples[h]
        BY <2>2
      <3>2. h \in DOMAIN active' /\ active'[h] = "returned" <=>
               h \in DOMAIN active /\ active[h] = "returned"
        BY <2>2, <3>1
      <3> QED
        BY <1>e, <3>1, <3>2
    <2>7. ToSet(output_queue') = ToSet(output_queue)
      BY <2>3
    <2>8. \A h \in ToSet(output_queue') : \A s \in SampleIds : samples'[h][s].status # "pending"
      BY <1>e, <2>5, <2>7
    <2>9. \A h \in Cached' \cup ToSet(data') : \A s \in SampleIds :
             samples'[h][s].status = "completed"
      BY <1>e, <2>4, <2>5
    <2> QED
      BY <2>6, <2>8, <2>9
  <1>6. CASE LaunchPending
    <2> DEFINE g == Head(pending)
    <2>1. active' = [h \in DOMAIN active \cup {g} |-> IF h = g THEN "running" ELSE active[h]]
      BY <1>6 DEF LaunchPending, Dispatch
    <2>2. UNCHANGED <<samples, output_queue, pending_completed, data>>
      BY <1>6 DEF LaunchPending, collectorVars
    <2>3. g \notin DOMAIN active
      <3>1. g \in ToSet(pending)
        BY <1>6, PopHead DEF LaunchPending, Base, TypeOK, OneHome, NoDuplicates
      <3> QED
        BY <3>1 DEF Base, OneHome, Disjoint
    <2> HIDE DEF g
    <2>4. \A h : h \in DOMAIN active' /\ active'[h] = "returned" <=>
                    h \in DOMAIN active /\ active[h] = "returned"
      BY <2>1, <2>3
    <2>5. Cached' \cup ToSet(data') = Held
      BY <2>2 DEF Held, Cached
    <2> QED
      BY <1>e, <2>2, <2>4, <2>5
  <1>7. CASE LaunchFresh
    <2> DEFINE g == sample_group_index
    <2>1. /\ active' = [h \in DOMAIN active \cup {g} |-> IF h = g THEN "running" ELSE active[h]]
          /\ samples' = [h \in DOMAIN samples \cup {g} |->
                           IF h = g THEN [s \in SampleIds |-> NewSample] ELSE samples[h]]
      BY <1>7 DEF LaunchFresh, Dispatch
    <2>2. UNCHANGED <<output_queue, pending_completed, data>>
      BY <1>7 DEF LaunchFresh, collectorVars
    <2>3. g \notin DOMAIN samples
      <3>1. DOMAIN samples \subseteq 0 .. g - 1 /\ g \in Int
        BY DEF Base, TypeOK
      <3> QED
        BY <3>1
    <2> HIDE DEF g
    <2>4. g \notin ToSet(output_queue) /\ g \notin Held /\ g \notin DOMAIN active
      BY <1>c, <2>3
    <2>5. \A h : h \in DOMAIN active' /\ active'[h] = "returned" <=>
                    h \in DOMAIN active /\ active[h] = "returned"
      BY <2>1, <2>4
    <2>6. Cached' \cup ToSet(data') = Held
      BY <2>2 DEF Held, Cached
    <2>7. \A s \in SampleIds : samples'[g][s] = NewSample
      BY <2>1
    <2>8. Good(NewSample) /\ NewSample.status = "pending"
      BY DEF Good, NewSample
    <2>9. DOMAIN samples' = DOMAIN samples \cup {g}
             /\ \A h \in DOMAIN samples : samples'[h] = samples[h]
      BY <2>1, <2>3
    <2>10. \A h \in DOMAIN samples' : \A s \in SampleIds :
                       /\ Good(samples'[h][s])
                       /\ samples'[h][s].status = "completed" =>
                             samples'[h][s].completed_step # None
                                \/ (h \in DOMAIN active' /\ active'[h] = "returned")
                       /\ h \in DOMAIN active' /\ active'[h] = "returned" =>
                             samples'[h][s].status # "pending"
      <3> TAKE h \in DOMAIN samples'
      <3>1. CASE h = g
        BY <3>1, <2>4, <2>5, <2>7, <2>8
      <3>2. CASE h # g
        BY <3>2, <1>e, <2>9, <2>5
      <3> QED
        BY <3>1, <3>2
    <2>11. \A h \in ToSet(output_queue') \cup Held : samples'[h] = samples[h]
      BY <2>2, <2>9, <1>c
    <2> QED
      BY <1>e, <2>2, <2>6, <2>10, <2>11
  <1>8. CASE DrainAborted \/ DrainCompleted
    <2> DEFINE g == Head(output_queue)
    <2>1. /\ g \in ToSet(output_queue) /\ g \in Groups
          /\ ToSet(output_queue') = ToSet(output_queue) \ {g}
      BY <1>8, PopHead DEF DrainAborted, DrainCompleted, Base, TypeOK, OneHome, NoDuplicates
    <2>2. UNCHANGED <<samples, active, data>>
      BY <1>8 DEF DrainAborted, DrainCompleted, collectorVars
    <2>3. CASE DrainAborted
      <3>1. Cached' \cup ToSet(data') = Held
        BY <2>3 DEF DrainAborted, Held, Cached, collectorVars
      <3> QED
        BY <1>e, <2>1, <2>2, <3>1
    <2>4. CASE DrainCompleted
      <3>1. \A s \in SampleIds : samples[g][s].status = "completed"
        <4>1. ~AnyAborted(g)
          BY <2>4 DEF DrainCompleted
        <4>2. \A s \in SampleIds : /\ samples[g][s].status # "aborted"
                                   /\ samples[g][s].status # "pending"
                                   /\ samples[g][s] \in SampleStates
          BY <4>1, <2>1, <1>c, <1>d, <1>e DEF AnyAborted
        <4> QED
          BY <4>2 DEF SampleStates
      <3>2. Cached' = Cached \cup {g}
        <4>1. g \notin Cached
          BY <2>1, <1>c DEF Held
        <4>2. pending_completed' = [pending_completed EXCEPT ![EntryStep(g)] =
                                  Append(pending_completed[EntryStep(g)], g)]
          BY <2>4 DEF DrainCompleted
        <4>3. TypeOK /\ Filed /\ CachedDistinct
          BY DEF Base, OneHome, NoDuplicates, CachedDistinct
        <4> HIDE DEF g
        <4> QED
          BY <4>1, <4>2, <4>3, <2>1, Caching
      <3> HIDE DEF g
      <3>3. Cached' \cup ToSet(data') = Held \cup {g}
        BY <3>2, <2>2 DEF Held
      <3> QED
        BY <1>e, <2>1, <2>2, <3>1, <3>3
    <2> QED
      BY <1>8, <2>3, <2>4
  <1>9. CASE AcceptGroup
    <2> PICK es \in EntrySteps :
           /\ Offered(es)
           /\ data' = Append(data, Head(pending_completed[es]))
           /\ pending_completed' = [pending_completed EXCEPT ![es] = Tail(@)]
      BY <1>9 DEF AcceptGroup
    <2> DEFINE g == Head(pending_completed[es])
    <2>1. g \in Cached /\ g \in Groups /\ Cached' = Cached \ {g}
      BY Uncaching DEF Offered, Base, OneHome, NoDuplicates, CachedDistinct
    <2>2. UNCHANGED <<samples, active, output_queue>>
      BY <1>9 DEF AcceptGroup, taskVars
    <2> HIDE DEF g
    <2>3. ToSet(data') = ToSet(data) \cup {g}
      <3>1. data \in Seq(Groups) /\ data' = Append(data, g)
        BY DEF Base, TypeOK, g
      <3> QED
        BY <2>1, <3>1, PushTail
    <2>4. Cached' \cup ToSet(data') = Held
      BY <2>1, <2>3 DEF Held
    <2> QED
      BY <1>e, <2>2, <2>4
  <1>10. CASE Return
    <2>1. /\ samples' = [g \in DOMAIN samples \ ToSet(data) |-> samples[g]] /\ data' = <<>>
          /\ UNCHANGED <<active, output_queue, pending_completed>>
      BY <1>10 DEF Return, Forget, taskVars
    <2>2. ToSet(data') = {} /\ Cached' = Cached
      BY <2>1 DEF ToSet, Cached
    <2>3. Cached \cap ToSet(data) = {} /\ ToSet(output_queue) \cap ToSet(data) = {}
      BY DEF Base, OneHome, Disjoint
    <2>4. \A h \in ToSet(output_queue) \cup Cached : samples'[h] = samples[h]
      BY <2>1, <2>3, <1>c DEF Held
    <2>5. DOMAIN samples' \subseteq DOMAIN samples /\ \A h \in DOMAIN samples' : samples'[h] = samples[h]
      BY <2>1
    <2>6. \A h \in DOMAIN samples' : \A s \in SampleIds :
                       /\ Good(samples'[h][s])
                       /\ samples'[h][s].status = "completed" =>
                             samples'[h][s].completed_step # None
                                \/ (h \in DOMAIN active' /\ active'[h] = "returned")
                       /\ h \in DOMAIN active' /\ active'[h] = "returned" =>
                             samples'[h][s].status # "pending"
      BY <1>e, <2>1, <2>5
    <2>7. \A h \in Cached' \cup ToSet(data') : h \in Cached /\ h \in Held
      BY <2>2 DEF Held
    <2>8. ToSet(output_queue') = ToSet(output_queue)
      BY <2>1
    <2> QED
      BY <1>e, <2>4, <2>6, <2>7, <2>8
  <1> QED
    BY <1>1, <1>2, <1>3, <1>4, <1>5, <1>6, <1>7, <1>8, <1>9, <1>10
    DEF Next, CallerStep, StartGenerate, StartEval, EnterWorker, EvalReturns, TaskStep,
        WorkerWakes, WorkerPass, EndHarvest, EndLaunch, CollectorResumes, BeginIteration,
        CollectorRuns, Classify, WaitForExpired, FillWithFresh, RestoreInference, EndTaking,
        EndIteration, vars, taskVars, collectorVars

\* Training is given complete groups only: every sample the cache or the batch
\* holds finished, and carries the completed_step that _accept_group asserts
\* (fully_async_rollout.py), no later than the newest rollout, whatever is
\* aborted, put back, generated again and evaluated in between.
THEOREM CompleteGroups == Spec => []AcceptedAreComplete
  <1>1. ASSUME Init PROVE Life
    <2>1. /\ DOMAIN samples = {} /\ output_queue = <<>> /\ data = <<>>
          /\ \A es \in EntrySteps : pending_completed[es] = <<>>
      BY <1>1 DEF Init
    <2>2. ToSet(output_queue) = {} /\ Cached = {} /\ ToSet(data) = {}
      BY <2>1 DEF ToSet, Cached
    <2> QED
      BY <2>1, <2>2 DEF Life
  <1> QED
    BY <1>1, NextLife, LifeSuffices, InvariantBase, InvariantClock, PTL DEF Spec
-----------------------------------------------------------------------------
(***************************************************************************)
(* The bounds for runs in which the engines abort nothing (MaxAborts = 0)  *)
(* and, for the delay window, no task fails (MaxFaults = 0): how far the data*)
(* source is read ahead, how long the output queue gets, and how late a group*)
(* is used.                                                                *)
(***************************************************************************)
(***************************************************************************)
(* Arithmetic of entry steps                                               *)
(***************************************************************************)
LEMMA EntryStepFloor ==
    ASSUME NEW g \in Nat
    PROVE  /\ EntryStep(g) \in Nat
           /\ RolloutBatchSize * EntryStep(g) <= g
           /\ g < RolloutBatchSize * (EntryStep(g) + 1)
  BY ConstantsAssumption, Z3 DEF EntryStep

LEMMA ProductMonotone ==
    ASSUME NEW a \in Int, NEW b \in Int, a <= b
    PROVE  RolloutBatchSize * a <= RolloutBatchSize * b
  BY ConstantsAssumption, Z3

\* A group lies before step k exactly when its index does.
LEMMA EntryStepBelow ==
    ASSUME NEW g \in Nat, NEW k \in Int
    PROVE  EntryStep(g) < k <=> g < RolloutBatchSize * k
  <1> DEFINE e == EntryStep(g)
             R == RolloutBatchSize
  <1>1. e \in Nat /\ R * e <= g /\ g < R * (e + 1) /\ R \in Nat
    BY EntryStepFloor, ConstantsAssumption
  <1>2. R * e \in Int /\ R * (e + 1) \in Int /\ R * k \in Int
    BY <1>1
  <1>3. e + 1 <= k => R * (e + 1) <= R * k
    BY <1>1, ProductMonotone
  <1>4. k <= e => R * k <= R * e
    BY <1>1, ProductMonotone
  <1> HIDE DEF e, R
  <1>5. CASE e < k
    BY <1>1, <1>2, <1>3, <1>5 DEF e, R
  <1>6. CASE ~(e < k)
    BY <1>1, <1>2, <1>4, <1>6 DEF e, R
  <1> QED
    BY <1>5, <1>6

(***************************************************************************)
(* Nothing is aborted                                                      *)
(***************************************************************************)
\* With no abort the FIFO of put-back groups stays empty.
NothingAborted ==
    /\ aborts = 0
    /\ pending = <<>>
    /\ \A g \in DOMAIN samples : \A s \in SampleIds : samples[g][s].status # "aborted"

LEMMA NextNothingAborted ==
    ASSUME MaxAborts = 0, Base, NothingAborted, [Next]_vars
    PROVE  NothingAborted'
  <1> USE ConstantsAssumption
  <1>1. CASE UNCHANGED <<aborts, pending, samples>>
    BY <1>1 DEF NothingAborted
  <1>2. CASE TaskReturns
    <2>1. PICK g \in Running, outcome \in [SampleIds -> {"completed", "aborted"}] :
         LET status == [s \in SampleIds |->
                          IF samples[g][s].status = "completed"
                            THEN "completed" ELSE outcome[s]]
             hit == IF \E s \in SampleIds : status[s] = "aborted" THEN 1 ELSE 0
         IN /\ aborts + hit <= MaxAborts
            /\ aborts' = aborts + hit
            /\ samples' = [samples EXCEPT ![g] =
                             [s \in SampleIds |->
                                [samples[g][s] EXCEPT !.status = status[s]]]]
      BY <1>2 DEF TaskReturns
    <2> DEFINE status == [s \in SampleIds |->
                          IF samples[g][s].status = "completed"
                            THEN "completed" ELSE outcome[s]]
               hit == IF \E s \in SampleIds : status[s] = "aborted" THEN 1 ELSE 0
    <2>2. aborts + hit <= 0 /\ aborts' = aborts + hit /\ aborts = 0
      BY <2>1 DEF NothingAborted
    <2>3. hit = 0 /\ aborts' = 0
      BY <2>2
    <2>4. samples' = [samples EXCEPT ![g] =
                        [s \in SampleIds |-> [samples[g][s] EXCEPT !.status = status[s]]]]
      BY <2>1
    <2>5. \A s \in SampleIds : status[s] # "aborted"
      BY <2>3
    <2> HIDE DEF status, hit
    <2>6. g \in DOMAIN samples
      BY DEF Base, OneHome, Accounted, Running
    <2>7. \A s \in SampleIds : samples[g][s] \in SampleStates
      BY <2>6 DEF Base, TypeOK
    <2>8. \A s \in SampleIds : samples'[g][s].status = status[s]
      BY <2>4, <2>6, <2>7 DEF SampleStates
    <2>9. DOMAIN samples' = DOMAIN samples /\ \A h \in DOMAIN samples : h # g => samples'[h] = samples[h]
      BY <2>4, <2>6
    <2>10. pending' = pending
      BY <1>2 DEF TaskReturns, sourceVars
    <2> QED
      BY <2>3, <2>5, <2>8, <2>9, <2>10 DEF NothingAborted
  <1>3. CASE HarvestReturned
    <2> PICK g \in DOMAIN active :
          samples' = [samples EXCEPT ![g] = [s \in SampleIds |-> Stamp(samples[g][s])]]
      BY <1>3 DEF HarvestReturned
    <2>1. g \in DOMAIN samples
      BY DEF Base, OneHome, Accounted
    <2>2. \A t \in SampleStates : Stamp(t).status = t.status
      BY DEF Stamp, SampleStates
    <2>3. \A s \in SampleIds : samples[g][s] \in SampleStates
      BY <2>1 DEF Base, TypeOK
    <2>4. \A s \in SampleIds : samples'[g][s].status = samples[g][s].status
      BY <2>1, <2>2, <2>3
    <2>5. DOMAIN samples' = DOMAIN samples /\ \A h \in DOMAIN samples : h # g => samples'[h] = samples[h]
      BY <2>1
    <2>6. UNCHANGED <<aborts, pending>>
      BY <1>3 DEF HarvestReturned, sourceVars, historyVars
    <2> QED
      BY <2>1, <2>4, <2>5, <2>6 DEF NothingAborted
  <1>4. CASE HarvestRaised \/ HarvestFanOut
    BY <1>4 DEF HarvestRaised, HarvestFanOut, Forget, sourceVars, NothingAborted
  <1>5. CASE LaunchPending
    BY <1>5 DEF LaunchPending, NothingAborted
  <1>6. CASE LaunchFresh
    <2>1. /\ samples' = [h \in DOMAIN samples \cup {sample_group_index} |->
                           IF h = sample_group_index THEN [s \in SampleIds |-> NewSample]
                           ELSE samples[h]]
          /\ UNCHANGED <<aborts, pending>>
      BY <1>6 DEF LaunchFresh, historyVars
    <2> QED
      BY <2>1 DEF NothingAborted, NewSample
  <1>7. CASE DrainAborted
    <2>1. Head(output_queue) \in DOMAIN samples
      BY <1>7, PopHead DEF DrainAborted, Base, TypeOK, OneHome, NoDuplicates, Accounted
    <2> QED
      BY <1>7, <2>1 DEF DrainAborted, AnyAborted, NothingAborted
  <1>8. CASE Return
    <2>1. PICK p \in Bijection(DOMAIN pending, DOMAIN pending) :
             pending' = [i \in DOMAIN pending |-> pending[p[i]]]
      BY <1>8 DEF Return
    <2>2. pending = <<>> /\ pending \in Seq(Groups)
      BY DEF NothingAborted, Base, TypeOK
    <2>3. pending' = <<>>
      <3>1. pending' \in Seq(Groups) /\ ToSet(pending') = ToSet(pending)
        BY <2>1, <2>2, Rearranged
      <3>2. ToSet(pending') = {}
        BY <3>1, <2>2 DEF ToSet
      <3>3. Len(pending') = 0
        BY <3>1, <3>2 DEF ToSet
      <3> QED
        BY <3>1, <3>3
    <2>4. aborts' = aborts /\ samples' = Forget(ToSet(data))
      BY <1>8 DEF Return
    <2> QED
      BY <2>3, <2>4 DEF NothingAborted, Forget
  <1> QED
    BY <1>1, <1>2, <1>3, <1>4, <1>5, <1>6, <1>7, <1>8
    DEF Next, CallerStep, StartGenerate, StartEval, EnterWorker, EvalReturns, TaskStep, TaskFaults,
        WorkerWakes, WorkerPass, EndHarvest, EndLaunch, CollectorResumes, BeginIteration,
        CollectorRuns, DrainCompleted, Classify, AcceptGroup, WaitForExpired, FillWithFresh,
        RestoreInference, EndTaking, EndIteration, vars, sourceVars, historyVars

LEMMA InvariantNothingAborted == ASSUME MaxAborts = 0 PROVE Spec => []NothingAborted
  <1>1. Init => NothingAborted
    BY DEF Init, NothingAborted
  <1>2. Base /\ NothingAborted /\ [Next]_vars => NothingAborted'
    BY NextNothingAborted
  <1> QED
    BY <1>1, <1>2, InvariantBase, PTL DEF Spec

(***************************************************************************)
(* The prefetch bound                                                      *)
(***************************************************************************)
\* The worker throttles on the entry step of the last group it fetched.
Fetched ==
    sample_group_index > FirstGroup => max_entry_step = EntryStep(sample_group_index - 1)

\* The data source does not start beyond the first prefetch window.
StartsInWindow == FirstGroup <= RolloutBatchSize * (StartRollout + MaxPrefetchSteps)

LEMMA NextPrefetch ==
    ASSUME StartsInWindow, Base, Clock, NothingAborted, Fetched, PrefetchBound, [Next]_vars
    PROVE  Fetched' /\ PrefetchBound'
  <1> USE ConstantsAssumption
  <1> DEFINE P == MaxPrefetchSteps
             R == RolloutBatchSize
  <1>1. NewestRollout \in Nat /\ NewestRollout' \in Nat /\ NewestRollout <= NewestRollout' /\ P \in Nat /\ R \in Nat
    BY NextClock
  <1>2. R * (NewestRollout + P) <= R * (NewestRollout' + P)
           /\ R * (NewestRollout + P) \in Int /\ R * (NewestRollout' + P) \in Int
    <2> DEFINE n == NewestRollout
               m == NewestRollout'
    <2>1. n \in Nat /\ m \in Nat /\ n <= m
      BY <1>1
    <2> HIDE DEF n, m
    <2>2. n + P \in Int /\ m + P \in Int /\ n + P <= m + P
      BY <1>1, <2>1
    <2>3. R * (n + P) <= R * (m + P) /\ R * (n + P) \in Int /\ R * (m + P) \in Int
      BY <1>1, <2>2, ProductMonotone
    <2> QED
      BY <2>3 DEF n, m
  <1>3. sample_group_index \in FirstGroup .. MaxGroups /\ sample_group_index \in Nat
    <2>1. sample_group_index \in FirstGroup .. MaxGroups
      BY DEF Base, TypeOK
    <2> QED
      BY <2>1
  <1> DEFINE now == R * (NewestRollout + P)
             then == R * (NewestRollout' + P)
  <1>a. /\ PrefetchBound <=> sample_group_index <= now + 1
        /\ PrefetchBound' <=> sample_group_index' <= then + 1
        /\ now \in Int /\ then \in Int /\ now <= then
    BY <1>2 DEF PrefetchBound
  <1> HIDE DEF now, then
  <1>4. CASE UNCHANGED <<sample_group_index, max_entry_step>>
    <2>1. Fetched'
      BY <1>4 DEF Fetched
    <2>2. PrefetchBound'
      BY <1>a, <1>3, <1>4
    <2> QED
      BY <2>1, <2>2
  <1>5. CASE LaunchFresh
    <2>1. sample_group_index' = sample_group_index + 1 /\ max_entry_step' = EntryStep(sample_group_index)
      BY <1>5 DEF LaunchFresh, Dispatch
    <2>2. Fetched'
      BY <1>3, <2>1 DEF Fetched
    <2>3. sample_group_index <= now
      <3>1. CASE sample_group_index > FirstGroup
        <4>1. max_entry_step - current_rollout_id < P
          <5>1. ~Throttled
            BY <1>5 DEF LaunchFresh, MayLaunch
          <5>2. max_entry_step \in Int /\ current_rollout_id \in Int
            <6>1. max_entry_step \in EntrySteps \cup {0} /\ current_rollout_id \in Nat \cup {-1}
              BY DEF Base, TypeOK, None
            <6> QED
              BY <6>1, StepsAreNumbers
          <5> QED
            BY <5>1, <5>2, <1>1 DEF Throttled
        <4>2. EntryStep(sample_group_index - 1) < NewestRollout + P
          <5>1. /\ current_rollout_id <= NewestRollout
                /\ max_entry_step = EntryStep(sample_group_index - 1)
            BY <3>1 DEF Clock, Fetched
          <5>2. max_entry_step \in EntrySteps \cup {0} /\ current_rollout_id \in Nat \cup {-1}
            BY DEF Base, TypeOK, None
          <5>3. max_entry_step \in Int /\ current_rollout_id \in Int
            BY <5>2, StepsAreNumbers
          <5> QED
            BY <4>1, <5>1, <5>3, <1>1
        <4>3. sample_group_index - 1 \in Nat
          BY <1>3, <3>1
        <4>4. sample_group_index - 1 < now
          BY <1>1, <4>2, <4>3, EntryStepBelow DEF now
        <4> QED
          BY <1>a, <1>3, <4>4
      <3>2. CASE sample_group_index = FirstGroup
        <4>1. StartRollout <= NewestRollout
          <5>1. next_rollout \in Nat /\ StartRollout <= next_rollout
            BY DEF Clock, Base, TypeOK
          <5> QED
            BY <5>1 DEF NewestRollout
        <4>2. R * (StartRollout + P) <= now
          BY <1>1, <4>1, ProductMonotone DEF now
        <4>3. FirstGroup <= R * (StartRollout + P)
          BY DEF StartsInWindow
        <4>4. R * (StartRollout + P) \in Int
          BY <1>1
        <4> HIDE DEF R, P
        <4> QED
          BY <1>a, <1>3, <3>2, <4>2, <4>3, <4>4
      <3> QED
        BY <1>3, <3>1, <3>2
    <2>4. PrefetchBound'
      BY <1>a, <1>3, <2>1, <2>3
    <2> QED
      BY <2>2, <2>4
  <1>6. CASE LaunchPending
    BY <1>6 DEF LaunchPending, NothingAborted
  <1> QED
    BY <1>4, <1>5, <1>6
    DEF Next, CallerStep, StartGenerate, StartEval, EnterWorker, EvalReturns, TaskStep, TaskReturns,
        TaskFaults, WorkerWakes, WorkerPass, HarvestReturned, HarvestRaised, HarvestFanOut,
        EndHarvest, EndLaunch, CollectorResumes, BeginIteration, Return, CollectorRuns,
        DrainAborted, DrainCompleted, Classify, AcceptGroup, WaitForExpired, FillWithFresh,
        RestoreInference, EndTaking, EndIteration, vars, sourceVars, workerVars

LEMMA InvariantPrefetch ==
    ASSUME MaxAborts = 0, StartsInWindow
    PROVE  Spec => [](Fetched /\ PrefetchBound)
  <1>1. Init => Fetched /\ PrefetchBound
    <2> SUFFICES ASSUME Init PROVE Fetched /\ PrefetchBound
      OBVIOUS
    <2>1. /\ sample_group_index = FirstGroup /\ next_rollout = StartRollout
          /\ FirstGroup \in Nat
      BY ConstantsAssumption DEF Init
    <2>2. NewestRollout = StartRollout
      BY <2>1 DEF NewestRollout
    <2>3. RolloutBatchSize * (StartRollout + MaxPrefetchSteps) \in Int
      BY ConstantsAssumption
    <2> QED
      BY <2>1, <2>2, <2>3 DEF Fetched, PrefetchBound, StartsInWindow
  <1>2. Base /\ Clock /\ NothingAborted /\ (Fetched /\ PrefetchBound) /\ [Next]_vars =>
           (Fetched /\ PrefetchBound)'
    BY NextPrefetch
  <1> QED
    BY <1>1, <1>2, InvariantBase, InvariantClock, InvariantNothingAborted, PTL DEF Spec

\* Prefetch throttling: if the engines abort nothing, the data source is never
\* read beyond the first group MaxPrefetchSteps ahead of the newest rollout,
\* although the worker fetches on its own and an eval moves its rollout id back.
THEOREM BoundedPrefetch ==
    ASSUME MaxAborts = 0, StartsInWindow
    PROVE  Spec => []PrefetchBound
  BY InvariantPrefetch, PTL

(***************************************************************************)
(* The output queue                                                        *)
(***************************************************************************)
\* What a call under way says: the buffer's step is the rollout it asks for,
\* the batch is gathered during one call, and groups are taken from the cache
\* only after the queue was drained.
Calls ==
    /\ caller # "idle" => current_step = call.id
    /\ caller # "idle" /\ call.kind = "generate" =>
          call.id = next_rollout - 1 /\ StartRollout < next_rollout
    /\ collector \in {"off", "evaluating"} => data = <<>>
    /\ Taking => output_queue = <<>>

LEMMA NextCalls == Base /\ Clock /\ Turn /\ Calls /\ [Next]_vars => Calls'
  <1> SUFFICES ASSUME Base, Clock, Turn, Calls, [Next]_vars PROVE Calls'
    OBVIOUS
  <1> USE ConstantsAssumption
  <1>1. next_rollout \in Nat /\ StartRollout <= next_rollout
    BY DEF Base, TypeOK, Clock
  <1>2. CASE StartGenerate
    BY <1>1, <1>2 DEF StartGenerate, Calls, Taking, collectorVars, taskVars
  <1>3. CASE StartEval
    BY <1>3 DEF StartEval, Calls, Taking, collectorVars, taskVars
  <1>4. CASE EnterWorker
    <2>1. collector = "off"
      BY <1>4 DEF EnterWorker, Base, CallerWaits
    <2> QED
      BY <1>4, <2>1 DEF EnterWorker, Calls, Taking
  <1>5. CASE EvalReturns
    BY <1>5 DEF EvalReturns, Calls, Taking
  <1>6. CASE Return
    BY <1>6 DEF Return, Calls, Taking
  <1>7. CASE TaskStep \/ WorkerWakes \/ WorkerPass
    <2>1. ~Taking
      BY <1>7 DEF Turn, TaskStep, TaskReturns, TaskFaults, WorkerWakes, LoopFree, WorkerPass,
           HarvestReturned, HarvestRaised, HarvestFanOut, EndHarvest, LaunchPending,
           LaunchFresh, EndLaunch, Taking, Suspended
    <2>2. UNCHANGED <<collector, data, caller, call, next_rollout, current_step>>
      BY <1>7 DEF TaskStep, TaskReturns, TaskFaults, WorkerWakes, WorkerPass,
           HarvestReturned, HarvestRaised, HarvestFanOut, EndHarvest, LaunchPending,
           LaunchFresh, EndLaunch, collectorVars, callerVars
    <2> QED
      BY <2>1, <2>2 DEF Calls, Taking
  <1>8. CASE BeginIteration
    BY <1>8 DEF BeginIteration, Calls, Taking, callerVars
  <1>9. CASE DrainAborted \/ DrainCompleted
    BY <1>9 DEF DrainAborted, DrainCompleted, Calls, Taking, collectorVars, callerVars
  <1>10. CASE Classify
    BY <1>10 DEF Classify, Calls, callerVars, taskVars
  <1>11. CASE AcceptGroup
    BY <1>11 DEF AcceptGroup, Calls, Taking, callerVars, taskVars
  <1>12. CASE WaitForExpired \/ FillWithFresh \/ RestoreInference \/ EndTaking \/ EndIteration
    BY <1>12 DEF WaitForExpired, FillWithFresh, RestoreInference, EndTaking, EndIteration,
                 Calls, Taking, callerVars, taskVars
  <1>13. CASE UNCHANGED vars
    BY <1>13 DEF vars, Calls, Taking, callerVars, taskVars, collectorVars
  <1> QED
    BY <1>2, <1>3, <1>4, <1>5, <1>6, <1>7, <1>8, <1>9, <1>10, <1>11, <1>12, <1>13
    DEF Next, CallerStep, CollectorResumes, CollectorRuns

LEMMA InvariantCalls == Spec => []Calls
  <1>1. Init => Calls
    BY DEF Init, Calls, Taking
  <1> QED
    BY <1>1, NextCalls, InvariantBase, InvariantClock, InvariantTurn, PTL DEF Spec

\* A batch is counted as returned exactly when its groups are delivered.
LEMMA Hands ==
    ASSUME Base, [Next]_vars
    PROVE  \/ /\ AtLoopTest /\ Len(data) = RolloutBatchSize
              /\ caller = "waiting" /\ call.kind = "generate"
              /\ Returned' = Returned + 1 /\ delivered' = delivered \cup ToSet(data)
              /\ data' = <<>>
              /\ ToSet(data) \cap delivered = {} /\ IsFiniteSet(ToSet(data))
              /\ Cardinality(ToSet(data)) = RolloutBatchSize
           \/ Returned' = Returned /\ delivered' = delivered
  <1> USE ConstantsAssumption
  <1>1. next_rollout \in Nat /\ data \in Seq(Groups) /\ IsInjective(data)
    BY DEF Base, TypeOK, OneHome, NoDuplicates
  <1>2. CASE Return
    <2>1. caller = "waiting" /\ call.kind = "generate"
      BY <1>2 DEF Return, AtLoopTest, Base, CallerWaits, TypeOK
    <2>2. caller' = "idle" /\ UNCHANGED <<call, next_rollout>>
      BY <1>2 DEF Return
    <2>3. Returned' = Returned + 1
      BY <1>1, <2>1, <2>2 DEF Returned
    <2>4. Len(data) = RolloutBatchSize
      BY <1>1, <1>2 DEF Return, Base, BatchFits
    <2>5. IsFiniteSet(ToSet(data)) /\ Cardinality(ToSet(data)) = RolloutBatchSize
      BY <1>1, <2>4, DistinctCount
    <2>6. ToSet(data) \cap delivered = {}
      BY DEF Base, OneHome, Accounted
    <2> QED
      BY <1>2, <2>1, <2>3, <2>4, <2>5, <2>6 DEF Return
  <1>3. CASE CallerStep
    <2>1. CASE StartGenerate
      BY <1>1, <2>1 DEF StartGenerate, Returned, historyVars
    <2>2. CASE StartEval
      BY <1>1, <2>2 DEF StartEval, Returned, historyVars
    <2>3. CASE EnterWorker
      BY <1>1, <2>3 DEF EnterWorker, Returned, historyVars
    <2>4. CASE EvalReturns
      BY <1>1, <2>4 DEF EvalReturns, Returned, Base, CallerWaits, historyVars
    <2> QED
      BY <1>3, <2>1, <2>2, <2>3, <2>4 DEF CallerStep
  <1>4. CASE UNCHANGED <<caller, call, next_rollout, delivered>>
    BY <1>4 DEF Returned
  <1> QED
    BY <1>2, <1>3, <1>4
    DEF Next, TaskStep, TaskReturns, TaskFaults, WorkerWakes, WorkerPass, HarvestReturned,
        HarvestRaised, HarvestFanOut, EndHarvest, LaunchPending, LaunchFresh, EndLaunch,
        CollectorResumes, BeginIteration, CollectorRuns, DrainAborted, DrainCompleted, Classify,
        AcceptGroup, WaitForExpired, FillWithFresh, RestoreInference, EndTaking, EndIteration,
        vars, callerVars, historyVars

LEMMA ReturnedIsNumber == Base => Returned \in Int
  <1>1. Base => next_rollout \in Nat
    BY DEF Base, TypeOK
  <1> QED
    BY <1>1, ConstantsAssumption DEF Returned

\* The groups delivered so far fill the batches returned so far.
Counted == IsFiniteSet(delivered) /\ Cardinality(delivered) = RolloutBatchSize * Returned

LEMMA NextCounted == Base /\ Counted /\ [Next]_vars => Counted'
  <1> SUFFICES ASSUME Base, Counted, [Next]_vars PROVE Counted'
    OBVIOUS
  <1>1. CASE Returned' = Returned /\ delivered' = delivered
    BY <1>1 DEF Counted
  <1>2. CASE /\ Returned' = Returned + 1 /\ delivered' = delivered \cup ToSet(data)
             /\ ToSet(data) \cap delivered = {} /\ IsFiniteSet(ToSet(data))
             /\ Cardinality(ToSet(data)) = RolloutBatchSize
    <2>1. IsFiniteSet(delivered) /\ Cardinality(delivered) = RolloutBatchSize * Returned
      BY DEF Counted
    <2>2. /\ IsFiniteSet(delivered \cup ToSet(data))
          /\ Cardinality(delivered \cup ToSet(data)) =
                Cardinality(delivered) + Cardinality(ToSet(data))
                   - Cardinality(delivered \cap ToSet(data))
      BY <1>2, <2>1, FS_Union
    <2>3. Cardinality(delivered \cap ToSet(data)) = 0
      <3>1. delivered \cap ToSet(data) = {}
        BY <1>2
      <3> QED
        BY <3>1, FS_EmptySet
    <2>4. RolloutBatchSize * Returned + RolloutBatchSize = RolloutBatchSize * (Returned + 1)
      <3>1. Returned \in Int
        BY ReturnedIsNumber
      <3> QED
        BY <3>1, ConstantsAssumption, Z3
    <2>5. RolloutBatchSize \in Int /\ RolloutBatchSize * Returned \in Int
      BY ReturnedIsNumber, ConstantsAssumption
    <2>6. Cardinality(delivered \cup ToSet(data)) = RolloutBatchSize * (Returned + 1)
      BY <1>2, <2>1, <2>2, <2>3, <2>4, <2>5
    <2> QED
      BY <1>2, <2>2, <2>6 DEF Counted
  <1> QED
    BY <1>1, <1>2, Hands

LEMMA InvariantCounted == Spec => []Counted
  <1>1. ASSUME Init PROVE Counted
    <2>1. delivered = {} /\ Returned = 0
      BY <1>1, ConstantsAssumption DEF Init, Returned
    <2>2. RolloutBatchSize * 0 = 0
      BY ConstantsAssumption
    <2> QED
      BY <2>1, <2>2, FS_EmptySet DEF Counted
  <1> QED
    BY <1>1, NextCounted, InvariantBase, PTL DEF Spec

\* The queue has room for everything prefetch throttling lets in, and the data
\* source starts no earlier than the first rollout.
RoomEnough == RolloutBatchSize * MaxPrefetchSteps < QueueSize
StartsInOrder == RolloutBatchSize * StartRollout <= FirstGroup

LEMMA FullQueueImpossible ==
    ASSUME RoomEnough, StartsInOrder, Base, Clock, Calls, Counted, PrefetchBound
    PROVE  NeverBlocked
  <1> SUFFICES ASSUME Len(output_queue) >= QueueSize,
                      NEW g \in DOMAIN active
               PROVE  FALSE
    BY DEF NeverBlocked
  <1> USE ConstantsAssumption
  <1> DEFINE R == RolloutBatchSize
             P == MaxPrefetchSteps
             Q == ToSet(output_queue)
             out == FirstGroup .. sample_group_index - 1
  <1>1. /\ IsFiniteSet(Q) /\ Cardinality(Q) = Len(output_queue)
        /\ Len(output_queue) \in Nat
    BY DistinctCount DEF Base, TypeOK, OneHome, NoDuplicates
  <1>2. IsFiniteSet(Q \cup {g}) /\ Cardinality(Q \cup {g}) = Len(output_queue) + 1
    <2>1. g \notin Q
      BY DEF Base, OneHome, Disjoint
    <2> QED
      BY <1>1, <2>1, FS_AddElement
  <1>3. sample_group_index \in Nat /\ FirstGroup \in Nat /\ FirstGroup <= sample_group_index
    <2>1. sample_group_index \in FirstGroup .. MaxGroups /\ FirstGroup \in 0 .. MaxGroups
      BY DEF Base, TypeOK
    <2> QED
      BY <2>1
  <1>4. IsFiniteSet(out) /\ Cardinality(out) = sample_group_index - FirstGroup
    <2>1. FirstGroup \in Int /\ sample_group_index - 1 \in Int
      BY <1>3
    <2>2. IsFiniteSet(out) /\ Cardinality(out) =
             IF FirstGroup > sample_group_index - 1 THEN 0
             ELSE (sample_group_index - 1) - FirstGroup + 1
      BY <2>1, FS_Interval
    <2> QED
      BY <1>3, <2>2
  <1>5. /\ (Q \cup {g}) \cup delivered \subseteq out
        /\ (Q \cup {g}) \cap delivered = {}
    BY DEF Base, OneHome, Accounted
  <1>6. IsFiniteSet(delivered) /\ Cardinality(delivered) = R * Returned
    BY DEF Counted
  <1>7. Cardinality((Q \cup {g}) \cup delivered) = Len(output_queue) + 1 + R * Returned
    <2>1. Cardinality((Q \cup {g}) \cap delivered) = 0
      BY <1>5, FS_EmptySet
    <2>2. Cardinality((Q \cup {g}) \cup delivered) =
             Cardinality(Q \cup {g}) + Cardinality(delivered) - Cardinality((Q \cup {g}) \cap delivered)
      BY <1>2, <1>6, FS_Union
    <2>3. R * Returned \in Int
      BY ReturnedIsNumber
    <2> QED
      BY <1>1, <1>2, <1>6, <2>1, <2>2, <2>3
  <1>8. Len(output_queue) + 1 + R * Returned <= sample_group_index - FirstGroup
    <2>1. (Q \cup {g}) \cup delivered \in SUBSET out
      BY <1>5
    <2>2. Cardinality((Q \cup {g}) \cup delivered) <= Cardinality(out)
      BY <1>4, <2>1, FS_Subset
    <2> QED
      BY <1>4, <1>7, <2>2
  <1>9. NewestRollout \in Int /\ NewestRollout - StartRollout <= Returned
    <2>1. /\ next_rollout \in Nat /\ StartRollout <= next_rollout
          /\ caller # "idle" /\ call.kind = "generate" => StartRollout < next_rollout
      BY DEF Base, TypeOK, Clock, Calls
    <2> QED
      BY <2>1 DEF NewestRollout, Returned
  <1>10. R * (NewestRollout + P) <= R * (StartRollout + Returned + P)
    <2> DEFINE n == NewestRollout + P
               m == StartRollout + Returned + P
    <2>1. n \in Int /\ m \in Int /\ n <= m
      BY <1>9, ReturnedIsNumber
    <2> HIDE DEF n, m
    <2>2. R * n <= R * m
      BY <2>1, ProductMonotone
    <2> QED
      BY <2>2 DEF n, m
  <1>11. R * (StartRollout + Returned + P) = R * StartRollout + R * Returned + R * P
    BY ReturnedIsNumber, Z3
  <1>12. /\ sample_group_index <= R * (NewestRollout + P) + 1
         /\ R * StartRollout <= FirstGroup /\ R * P < QueueSize
    BY DEF PrefetchBound, StartsInOrder, RoomEnough
  <1> DEFINE a == R * Returned
             b == R * StartRollout
             c == R * P
             d == R * (NewestRollout + P)
  <1>13. a \in Int /\ b \in Int /\ c \in Int /\ d \in Int
    BY ReturnedIsNumber, <1>9
  <1>14. /\ Len(output_queue) + 1 + a <= sample_group_index - FirstGroup
         /\ d <= b + a + c /\ sample_group_index <= d + 1 /\ b <= FirstGroup /\ c < QueueSize
    BY <1>8, <1>10, <1>11, <1>12
  <1> HIDE DEF a, b, c, d
  <1> QED
    BY <1>1, <1>3, <1>13, <1>14

\* The worker never blocks its own event loop: while the engines abort nothing,
\* prefetch throttling keeps the output queue, which put would wait on
\* (fully_async_rollout.py), shorter than its capacity.
THEOREM QueueNeverFull ==
    ASSUME MaxAborts = 0, StartsInWindow, StartsInOrder, RoomEnough
    PROVE  Spec => []NeverBlocked
  <1>1. Base /\ Clock /\ Calls /\ Counted /\ (Fetched /\ PrefetchBound) => NeverBlocked
    BY FullQueueImpossible
  <1> QED
    BY <1>1, InvariantBase, InvariantClock, InvariantCalls, InvariantCounted, InvariantPrefetch, PTL
(***************************************************************************)
(* What can close the throttle on a call                                   *)
(***************************************************************************)
\* The group the worker launched last was fetched.
LaunchedWasFetched ==
    max_entry_step = 0 \/ RolloutBatchSize * max_entry_step < sample_group_index

LEMMA NextLaunchedWasFetched ==
    ASSUME Base, LaunchedWasFetched, [Next]_vars
    PROVE  LaunchedWasFetched'
  <1>1. FirstGroup \in Nat /\ sample_group_index \in Nat
    <2>1. FirstGroup \in 0 .. MaxGroups /\ sample_group_index \in FirstGroup .. MaxGroups
      BY ConstantsAssumption DEF Base, TypeOK
    <2> QED
      BY <2>1, ConstantsAssumption
  <1>2. CASE UNCHANGED <<max_entry_step, sample_group_index>>
    BY <1>2 DEF LaunchedWasFetched
  <1>3. CASE LaunchPending
    <2> DEFINE g == Head(pending)
    <2>1. pending # <<>> /\ max_entry_step' = EntryStep(g) /\ UNCHANGED sample_group_index
      BY <1>3 DEF LaunchPending, Dispatch
    <2>2. pending \in Seq(Groups) /\ IsInjective(pending)
      BY DEF Base, TypeOK, OneHome, NoDuplicates
    <2>3. g \in ToSet(pending)
      BY <2>1, <2>2, PopHead
    <2>4. g \in FirstGroup .. sample_group_index - 1
      BY <2>3 DEF Base, OneHome, Accounted
    <2>5. g \in Nat /\ g < sample_group_index
      BY <1>1, <2>4
    <2>6. RolloutBatchSize * EntryStep(g) <= g /\ RolloutBatchSize * EntryStep(g) \in Int
      BY <2>5, EntryStepFloor, ConstantsAssumption
    <2> QED
      BY <1>1, <2>1, <2>5, <2>6 DEF LaunchedWasFetched
  <1>4. CASE LaunchFresh
    <2>1. /\ max_entry_step' = EntryStep(sample_group_index)
          /\ sample_group_index' = sample_group_index + 1
      BY <1>4 DEF LaunchFresh, Dispatch
    <2>2. /\ RolloutBatchSize * EntryStep(sample_group_index) <= sample_group_index
          /\ RolloutBatchSize * EntryStep(sample_group_index) \in Int
      BY <1>1, EntryStepFloor, ConstantsAssumption
    <2> QED
      BY <1>1, <2>1, <2>2 DEF LaunchedWasFetched
  <1> QED
    BY <1>2, <1>3, <1>4
    DEF Next, CallerStep, StartGenerate, StartEval, EnterWorker, EvalReturns, TaskStep, TaskReturns,
        TaskFaults, WorkerWakes, WorkerPass, HarvestReturned, HarvestRaised, HarvestFanOut,
        EndHarvest, EndLaunch, CollectorResumes, BeginIteration, Return, CollectorRuns,
        DrainAborted, DrainCompleted, Classify, AcceptGroup, WaitForExpired, FillWithFresh,
        RestoreInference, EndTaking, EndIteration, vars, sourceVars, workerVars

\* While a call is waiting the worker has its id.
Announced == caller = "waiting" => current_rollout_id = call.id

LEMMA NextAnnounced == Announced /\ [Next]_vars => Announced'
  BY DEF Announced, Next, CallerStep, StartGenerate, StartEval, EnterWorker, EvalReturns, TaskStep,
         TaskReturns, TaskFaults, WorkerWakes, WorkerPass, HarvestReturned, HarvestRaised,
         HarvestFanOut, EndHarvest, LaunchPending, LaunchFresh, EndLaunch, CollectorResumes,
         BeginIteration, Return, CollectorRuns, DrainAborted, DrainCompleted, Classify, AcceptGroup,
         WaitForExpired, FillWithFresh, RestoreInference, EndTaking, EndIteration,
         vars, workerVars, callerVars

LEMMA InvariantAnnounced == Spec => [](LaunchedWasFetched /\ Announced)
  <1>1. Init => LaunchedWasFetched /\ Announced
    BY DEF Init, LaunchedWasFetched, Announced
  <1>2. Base /\ (LaunchedWasFetched /\ Announced) /\ [Next]_vars => (LaunchedWasFetched /\ Announced)'
    BY NextLaunchedWasFetched, NextAnnounced
  <1> QED
    BY <1>1, <1>2, InvariantBase, PTL DEF Spec

\* Of a call that is short, what was fetched and is neither delivered nor about
\* to be is out of reach.
LEMMA ShortCount ==
    ASSUME Base, Counted, Short
    PROVE  LET held == Cardinality(ToSet(pending) \cup lost)
           IN  /\ held \in Nat
               /\ sample_group_index - FirstGroup
                     <= held + RolloutBatchSize * Returned + RolloutBatchSize - 1
  <1> DEFINE H == ToSet(pending) \cup lost
             D == ToSet(data)
             out == FirstGroup .. sample_group_index - 1
  <1>1. FirstGroup \in Nat /\ sample_group_index \in Nat /\ FirstGroup <= sample_group_index
    <2>1. FirstGroup \in 0 .. MaxGroups /\ sample_group_index \in FirstGroup .. MaxGroups
      BY ConstantsAssumption DEF Base, TypeOK
    <2> QED
      BY <2>1, ConstantsAssumption
  <1>2. IsFiniteSet(out) /\ Cardinality(out) = sample_group_index - FirstGroup
    <2>1. FirstGroup \in Int /\ sample_group_index - 1 \in Int
      BY <1>1
    <2>2. IsFiniteSet(out) /\ Cardinality(out) =
             IF FirstGroup > sample_group_index - 1 THEN 0
             ELSE (sample_group_index - 1) - FirstGroup + 1
      BY <2>1, FS_Interval
    <2> QED
      BY <1>1, <2>2
  <1>3. out = (H \cup delivered) \cup (Cached \cup D)
    BY DEF Short, ToSet, Base, OneHome, Accounted
  <1>4. IsFiniteSet(H) /\ IsFiniteSet(Cached) /\ IsFiniteSet(delivered)
    <2>1. H \in SUBSET out /\ Cached \in SUBSET out /\ delivered \in SUBSET out
      BY <1>3
    <2> QED
      BY <1>2, <2>1, FS_Subset
  <1>5. IsFiniteSet(D) /\ Cardinality(D) = Len(data)
    BY DistinctCount DEF Base, TypeOK, OneHome, NoDuplicates
  <1>6. /\ Cardinality(H) \in Nat /\ Cardinality(Cached) \in Nat
        /\ Cardinality(D) \in Nat /\ Cardinality(delivered) \in Nat
    BY <1>4, <1>5, FS_CardinalityType
  <1>7. /\ IsFiniteSet(H \cup delivered)
        /\ Cardinality(H \cup delivered) <= Cardinality(H) + Cardinality(delivered)
    BY <1>4, <1>6, UnionAtMost
  <1>8. /\ IsFiniteSet(Cached \cup D)
        /\ Cardinality(Cached \cup D) <= Cardinality(Cached) + Cardinality(D)
    BY <1>4, <1>5, <1>6, UnionAtMost
  <1>9. Cardinality(out) <= Cardinality(H \cup delivered) + Cardinality(Cached \cup D)
    BY <1>3, <1>7, <1>8, UnionAtMost
  <1>10. /\ Cardinality(H \cup delivered) \in Nat /\ Cardinality(Cached \cup D) \in Nat
         /\ Cardinality(out) \in Nat
    BY <1>2, <1>7, <1>8, FS_CardinalityType
  <1>11. Cardinality(D) + Cardinality(Cached) < RolloutBatchSize
    BY <1>5 DEF Short
  <1>12. Cardinality(delivered) = RolloutBatchSize * Returned
    BY DEF Counted
  <1>13. RolloutBatchSize \in Nat
    BY ConstantsAssumption
  <1> HIDE DEF H, D, out
  <1>14. Cardinality(out) <= Cardinality(H) + RolloutBatchSize * Returned + RolloutBatchSize - 1
    <2> DEFINE r == RolloutBatchSize * Returned
    <2>1. Cardinality(delivered) = r /\ r \in Nat
      BY <1>6, <1>12
    <2> HIDE DEF r
    <2>2. Cardinality(out) <= Cardinality(H) + r + RolloutBatchSize - 1
      BY <1>6, <1>7, <1>8, <1>9, <1>10, <1>11, <1>13, <2>1
    <2> QED
      BY <2>2 DEF r
  <1> QED
    BY <1>2, <1>6, <1>14 DEF H

\* The throttle leaves a call enough groups: it is short with nothing under way
\* and the throttle closed only if more than a window of groups is out of reach,
\* aborted, lost, or fetched by the job this one resumes
\* (fully_async_rollout.py, phase 2 of continuous_worker_loop).
THEOREM ThrottleLeavesABatch ==
    ASSUME MaxPrefetchSteps # 0
    PROVE  Spec => [](Short /\ Throttled => WindowHeldBack)
  <1>1. ASSUME Base, Clock, Calls, Counted, LaunchedWasFetched, Announced, Short, Throttled
        PROVE  WindowHeldBack
    <2> DEFINE R == RolloutBatchSize
               P == MaxPrefetchSteps
               held == Cardinality(ToSet(pending) \cup lost)
    <2>1. R \in Nat \ {0} /\ P \in Nat \ {0} /\ StartRollout \in Nat /\ FirstGroup \in Int
      BY ConstantsAssumption
    <2>2. next_rollout \in Nat /\ sample_group_index \in Int /\ max_entry_step \in Int
      <3>1. sample_group_index \in FirstGroup .. MaxGroups /\ max_entry_step \in EntrySteps \cup {0}
        BY <1>1 DEF Base, TypeOK
      <3> QED
        BY <1>1, <3>1, StepsAreNumbers DEF Base, TypeOK
    <2>3. /\ current_rollout_id = StartRollout + Returned
          /\ Returned \in Nat
      <3>1. caller = "waiting" /\ call.kind = "generate"
        BY <1>1 DEF Short
      <3>2. current_rollout_id = next_rollout - 1 /\ StartRollout < next_rollout
        BY <1>1, <3>1 DEF Announced, Calls
      <3>3. Returned = next_rollout - StartRollout - 1
        BY <3>1 DEF Returned
      <3> QED
        BY <2>1, <2>2, <3>2, <3>3
    <2>4. max_entry_step >= StartRollout + Returned + P
      BY <1>1, <2>1, <2>2, <2>3 DEF Throttled
    <2>5. R * max_entry_step < sample_group_index
      BY <1>1, <2>1, <2>3, <2>4 DEF LaunchedWasFetched
    <2>6. R * (StartRollout + Returned + P) <= R * max_entry_step
      BY <2>1, <2>2, <2>3, <2>4, ProductMonotone
    <2>7. R * (StartRollout + Returned + P) = R * StartRollout + R * Returned + R * (P - 1) + R
      BY <2>1, <2>3, Z3
    <2>8. held \in Nat /\ sample_group_index - FirstGroup <= held + R * Returned + R - 1
      BY <1>1, ShortCount
    <2> DEFINE a == R * StartRollout
               b == R * Returned
               c == R * (P - 1)
               d == R * max_entry_step
    <2>9. a \in Int /\ b \in Int /\ c \in Int /\ d \in Int
      BY <2>1, <2>2, <2>3
    <2>10. /\ a + b + c + R <= d /\ d < sample_group_index
           /\ sample_group_index - FirstGroup <= held + b + R - 1
      BY <2>5, <2>6, <2>7, <2>8
    <2> HIDE DEF a, b, c, d, held
    <2>11. held + (FirstGroup - a) > c + 1
      BY <2>1, <2>2, <2>8, <2>9, <2>10
    <2> QED
      BY <2>11 DEF WindowHeldBack, a, c, held
  <1> QED
    BY <1>1, InvariantBase, InvariantClock, InvariantCalls, InvariantCounted, InvariantAnnounced, PTL

(***************************************************************************)
(* The delay window                                                        *)
(***************************************************************************)
\* With no faulty task, no group is dropped.
NothingLost ==
    /\ lost = {}
    /\ \A g \in DOMAIN active : active[g] \notin {"raised", "fanout"}

LEMMA NextNothingLost ==
    ASSUME MaxFaults = 0, Base, NothingLost, [Next]_vars
    PROVE  NothingLost'
  <1> USE ConstantsAssumption
  <1>1. CASE UNCHANGED <<lost, active>>
    BY <1>1 DEF NothingLost
  <1>2. CASE TaskReturns
    <2>1. /\ lost' = lost
          /\ \E g \in DOMAIN active : active' = [active EXCEPT ![g] = "returned"]
      BY <1>2 DEF TaskReturns, Running
    <2> QED
      BY <2>1 DEF NothingLost
  <1>3. CASE TaskFaults
    <2>1. lost \cup Faulty \subseteq Groups
      BY DEF Base, TypeOK, Faulty
    <2>2. IsFiniteSet(Groups)
      BY FS_Interval DEF Groups
    <2>3. Cardinality(lost \cup Faulty) \in Nat
      BY <2>1, <2>2, FS_Subset, FS_CardinalityType
    <2> QED
      BY <1>3, <2>3 DEF TaskFaults
  <1>4. CASE HarvestReturned
    <2>1. lost' = lost /\ \E g : active' = [h \in DOMAIN active \ {g} |-> active[h]]
      BY <1>4 DEF HarvestReturned, Retire, historyVars
    <2> QED
      BY <2>1 DEF NothingLost
  <1>5. CASE HarvestRaised \/ HarvestFanOut
    BY <1>5 DEF HarvestRaised, HarvestFanOut, NothingLost
  <1>6. CASE LaunchPending \/ LaunchFresh
    <2>1. lost' = lost /\ \E g : active' = [h \in DOMAIN active \cup {g} |->
                                              IF h = g THEN "running" ELSE active[h]]
      BY <1>6 DEF LaunchPending, LaunchFresh, Dispatch, historyVars
    <2> QED
      BY <2>1 DEF NothingLost
  <1> QED
    BY <1>1, <1>2, <1>3, <1>4, <1>5, <1>6
    DEF Next, CallerStep, StartGenerate, StartEval, EnterWorker, EvalReturns, TaskStep,
        WorkerWakes, WorkerPass, EndHarvest, EndLaunch, CollectorResumes, BeginIteration, Return,
        CollectorRuns, DrainAborted, DrainCompleted, Classify, AcceptGroup, WaitForExpired,
        FillWithFresh, RestoreInference, EndTaking, EndIteration, vars, taskVars, historyVars

LEMMA InvariantNothingLost == ASSUME MaxFaults = 0 PROVE Spec => []NothingLost
  <1>1. Init => NothingLost
    BY DEF Init, NothingLost
  <1>2. Base /\ NothingLost /\ [Next]_vars => NothingLost'
    BY NextNothingLost
  <1> QED
    BY <1>1, <1>2, InvariantBase, PTL DEF Spec

\* Once a batch holds a group that is not expired, every expired one the data
\* source has, fetched or not, is delivered or in the batch.
FreshTaken ==
    (\E g \in ToSet(data) : ~Expired(g)) =>
        \A h \in FirstGroup .. MaxGroups - 1 : Expired(h) => h \in delivered \cup ToSet(data)

LEMMA FreshAfterExpired ==
    ASSUME Base, Turn, Calls, NothingAborted, NothingLost, Taking, Len(data) < RolloutBatchSize,
           NEW g \in Cached, ~Expired(g),
           NEW h \in FirstGroup .. MaxGroups - 1, Expired(h),
           collector \in {"take_all", "fill"}
    PROVE  h \in delivered \cup ToSet(data)
  <1> USE ConstantsAssumption
  <1>1. ExpiredInFlight = {} /\ \A x \in Cached : ~Expired(x)
    BY DEF Turn
  <1>2. g \in Nat /\ h \in Nat /\ sample_group_index \in Nat /\ g < sample_group_index
    <2>1. g \in DOMAIN samples /\ DOMAIN samples \subseteq 0 .. sample_group_index - 1
             /\ sample_group_index \in FirstGroup .. MaxGroups
      BY DEF Base, TypeOK, OneHome, Accounted
    <2> QED
      BY <2>1
  <1>3. h < g
    <2>1. EntryStep(g) \in Nat /\ EntryStep(h) \in Nat /\ RolloutBatchSize * EntryStep(g) <= g
      BY <1>2, EntryStepFloor
    <2>2. EntryStep(h) < EntryStep(g)
      <3>1. current_step \in Nat
        BY DEF Base, TypeOK
      <3> QED
        BY <2>1, <3>1 DEF Expired, ExpiredStep
    <2>3. h < RolloutBatchSize * EntryStep(g)
      BY <1>2, <2>1, <2>2, EntryStepBelow
    <2>4. RolloutBatchSize * EntryStep(g) \in Int
      BY <2>1
    <2> QED
      BY <1>2, <2>1, <2>3, <2>4
  <1>4. h \in FirstGroup .. sample_group_index - 1
    BY <1>2, <1>3
  <1>5. h \in DOMAIN samples \cup delivered
    BY <1>4 DEF Base, OneHome, Accounted, NothingLost
  <1>6. h \notin ToSet(pending) /\ h \notin ToSet(output_queue)
    BY DEF NothingAborted, Calls, ToSet
  <1>7. h \notin DOMAIN active /\ h \notin Cached
    BY <1>1 DEF ExpiredInFlight
  <1> QED
    BY <1>5, <1>6, <1>7 DEF Base, OneHome, Accounted

LEMMA NextFreshTaken ==
    ASSUME Base, Turn, Calls, NothingAborted, NothingLost, FreshTaken, [Next]_vars
    PROVE  FreshTaken'
  <1> USE ConstantsAssumption
  <1>1. CASE data' = <<>>
    BY <1>1 DEF FreshTaken, ToSet
  <1>2. CASE UNCHANGED <<data, delivered, current_step>>
    BY <1>2 DEF FreshTaken, Expired, ExpiredStep
  <1>3. CASE StartGenerate \/ StartEval
    <2>1. collector = "off" /\ data' = data
      BY <1>3 DEF StartGenerate, StartEval, collectorVars, Base, CallerWaits
    <2> QED
      BY <1>1, <2>1 DEF Calls
  <1>4. CASE AcceptGroup
    <2>1. PICK es \in EntrySteps :
             /\ Offered(es)
             /\ data' = Append(data, Head(pending_completed[es]))
      BY <1>4 DEF AcceptGroup
    <2>2. /\ Taking /\ Len(data) < RolloutBatchSize
          /\ UNCHANGED <<delivered, current_step>>
      BY <1>4 DEF AcceptGroup, callerVars, historyVars
    <2> DEFINE g == Head(pending_completed[es])
    <2>3. g \in ToSet(pending_completed[es]) /\ g \in Groups
      BY <2>1, PopHead DEF Offered, Base, TypeOK, OneHome, NoDuplicates
    <2>4. g \in Cached /\ EntryStep(g) = es
      BY <2>3 DEF Cached, Base, OneHome, Filed
    <2> HIDE DEF g
    <2>5. ToSet(data') = ToSet(data) \cup {g}
      <3>1. data \in Seq(Groups) /\ data' = Append(data, g)
        BY <2>1 DEF Base, TypeOK, g
      <3> QED
        BY <2>3, <3>1, PushTail
    <2>6. CASE Expired(g)
      BY <2>2, <2>5, <2>6 DEF FreshTaken, Expired, ExpiredStep
    <2>7. CASE ~Expired(g)
      <3>1. collector \in {"take_all", "fill"}
        BY <2>1, <2>2, <2>4, <2>7 DEF Offered, Taking, Expired
      <3>2. \A h \in FirstGroup .. MaxGroups - 1 : Expired(h) => h \in delivered \cup ToSet(data)
        BY <2>2, <2>4, <2>7, <3>1, FreshAfterExpired
      <3> QED
        BY <2>2, <2>5, <3>2 DEF FreshTaken, Expired, ExpiredStep
    <2> QED
      BY <2>6, <2>7
  <1>5. CASE Return
    BY <1>1, <1>5 DEF Return
  <1> QED
    BY <1>2, <1>3, <1>4, <1>5
    DEF Next, CallerStep, EnterWorker, EvalReturns, TaskStep, TaskReturns, TaskFaults, WorkerWakes,
        WorkerPass, HarvestReturned, HarvestRaised, HarvestFanOut, EndHarvest, LaunchPending,
        LaunchFresh, EndLaunch, CollectorResumes, BeginIteration, CollectorRuns, DrainAborted,
        DrainCompleted, Classify, WaitForExpired, FillWithFresh, RestoreInference, EndTaking,
        EndIteration, vars, collectorVars, callerVars, historyVars

\* Neither failures nor aborts
Undisturbed == NothingAborted /\ NothingLost /\ FreshTaken

LEMMA InvariantUndisturbed ==
    ASSUME MaxAborts = 0, MaxFaults = 0
    PROVE  Spec => []Undisturbed
  <1>1. Init => FreshTaken
    BY DEF Init, FreshTaken, ToSet
  <1>2. Base /\ Turn /\ Calls /\ NothingAborted /\ NothingLost /\ FreshTaken /\ [Next]_vars =>
           FreshTaken'
    BY NextFreshTaken
  <1>3. Spec => []FreshTaken
    BY <1>1, <1>2, InvariantBase, InvariantTurn, InvariantCalls, InvariantNothingAborted,
       InvariantNothingLost, PTL DEF Spec
  <1> QED
    BY <1>3, InvariantNothingAborted, InvariantNothingLost, PTL DEF Undisturbed
\* The rollout the next batch is for, and the groups of entry steps up to T
\* that no batch has used yet
NextBatch == StartRollout + Returned
Needed(T) == { g \in FirstGroup .. MaxGroups - 1 : EntryStep(g) <= T } \ delivered

\* The counting argument: before the batch of rollout c, at most
\* RolloutBatchSize * (T + MaxDelayStep + 1 - c) groups of entry steps up to T
\* are still to be used; at T = c - 1 - MaxDelayStep that is none.
Window ==
    \A T \in Int : T >= NextBatch - 1 - MaxDelayStep =>
        /\ IsFiniteSet(Needed(T))
        /\ Cardinality(Needed(T)) <= RolloutBatchSize * (T + MaxDelayStep + 1 - NextBatch)

\* How many groups lie in the entry steps from a to b
LEMMA StepsCount ==
    ASSUME NEW a \in Int, NEW b \in Int, a <= b + 1, NEW S,
           \A g \in S : g \in Nat /\ a <= EntryStep(g) /\ EntryStep(g) <= b
    PROVE  IsFiniteSet(S) /\ Cardinality(S) <= RolloutBatchSize * (b + 1 - a)
  <1> DEFINE low == RolloutBatchSize * a
             high == RolloutBatchSize * (b + 1)
  <1>1. low \in Int /\ high \in Int /\ low <= high
    BY ProductMonotone, ConstantsAssumption
  <1>2. RolloutBatchSize * (b + 1 - a) = high - low
    BY ConstantsAssumption, Z3
  <1>3. \A g \in S : g \in low .. high - 1
    <2> TAKE g \in S
    <2>1. g \in Nat /\ EntryStep(g) \in Nat /\ ~(EntryStep(g) < a) /\ EntryStep(g) < b + 1
      BY EntryStepFloor
    <2>2. ~(g < low) /\ g < high
      BY <2>1, EntryStepBelow
    <2> HIDE DEF low, high
    <2> QED
      BY <1>1, <2>1, <2>2
  <1> HIDE DEF low, high
  <1>4. IsFiniteSet(low .. high - 1) /\ Cardinality(low .. high - 1) = high - low
    <2>1. high - 1 \in Int
      BY <1>1
    <2>2. /\ IsFiniteSet(low .. high - 1)
          /\ Cardinality(low .. high - 1) = IF low > high - 1 THEN 0 ELSE (high - 1) - low + 1
      BY <1>1, <2>1, FS_Interval
    <2> QED
      BY <1>1, <2>2
  <1>5. S \in SUBSET (low .. high - 1)
    BY <1>3
  <1>6. IsFiniteSet(S) /\ Cardinality(S) <= high - low
    <2> DEFINE I == low .. high - 1
    <2>1. IsFiniteSet(I) /\ S \in SUBSET I /\ Cardinality(I) = high - low
      BY <1>4, <1>5
    <2> HIDE DEF I
    <2>2. IsFiniteSet(S) /\ Cardinality(S) <= Cardinality(I)
      BY <2>1, FS_Subset
    <2> QED
      BY <2>1, <2>2
  <1> QED
    BY <1>2, <1>6

LEMMA InitWindow == StartsInOrder /\ Init => Window
  <1> SUFFICES ASSUME StartsInOrder, Init, NEW T \in Int, T >= NextBatch - 1 - MaxDelayStep
               PROVE  /\ IsFiniteSet(Needed(T))
                      /\ Cardinality(Needed(T)) <= RolloutBatchSize * (T + MaxDelayStep + 1 - NextBatch)
    BY DEF Window
  <1> USE ConstantsAssumption
  <1>1. NextBatch = StartRollout
    BY DEF Init, Returned, NextBatch
  <1>2. \A g \in Needed(T) : g \in Nat /\ StartRollout <= EntryStep(g) /\ EntryStep(g) <= T
    <2> TAKE g \in Needed(T)
    <2>1. g \in Nat /\ FirstGroup <= g /\ EntryStep(g) <= T
      BY DEF Needed
    <2>2. RolloutBatchSize * StartRollout \in Int /\ RolloutBatchSize * StartRollout <= g
      BY <2>1 DEF StartsInOrder
    <2>3. ~(EntryStep(g) < StartRollout)
      BY <2>1, <2>2, EntryStepBelow
    <2> QED
      BY <2>1, <2>3, EntryStepFloor
  <1>3. RolloutBatchSize * 0 = 0
    OBVIOUS
  <1>4. CASE T + 1 < StartRollout
    <2>1. Needed(T) = {}
      BY <1>2, <1>4, EntryStepFloor
    <2>2. RolloutBatchSize * 0 <= RolloutBatchSize * (T + MaxDelayStep + 1 - StartRollout)
      <3>1. 0 <= T + MaxDelayStep + 1 - StartRollout
        BY <1>1
      <3> QED
        BY <3>1, ProductMonotone
    <2> QED
      BY <1>1, <1>3, <2>1, <2>2, FS_EmptySet
  <1>5. CASE StartRollout <= T + 1
    <2>1. IsFiniteSet(Needed(T)) /\ Cardinality(Needed(T)) <= RolloutBatchSize * (T + 1 - StartRollout)
      BY <1>2, <1>5, StepsCount
    <2> DEFINE m == T + 1 - StartRollout
               n == T + MaxDelayStep + 1 - StartRollout
    <2>2. m \in Int /\ n \in Int /\ m <= n
      OBVIOUS
    <2>3. Cardinality(Needed(T)) \in Nat
      BY <2>1, FS_CardinalityType
    <2>4. RolloutBatchSize * m <= RolloutBatchSize * n
             /\ RolloutBatchSize * m \in Int /\ RolloutBatchSize * n \in Int
      BY <2>2, ProductMonotone
    <2>5. Cardinality(Needed(T)) <= RolloutBatchSize * n
      <3> DEFINE u == RolloutBatchSize * m
                 v == RolloutBatchSize * n
      <3>1. Cardinality(Needed(T)) <= u /\ u \in Int /\ v \in Int /\ u <= v
        BY <2>1, <2>4
      <3> HIDE DEF u, v
      <3>2. Cardinality(Needed(T)) <= v
        BY <2>3, <3>1
      <3> QED
        BY <3>2 DEF v
    <2> QED
      BY <1>1, <2>1, <2>5
  <1> QED
    BY <1>4, <1>5

LEMMA NextWindow ==
    ASSUME Base, Calls, FreshTaken, Window, [Next]_vars
    PROVE  Window'
  <1> USE ConstantsAssumption
  <1>1. CASE Returned' = Returned /\ delivered' = delivered
    BY <1>1 DEF Window, Needed, NextBatch
  <1>2. CASE /\ Len(data) = RolloutBatchSize
             /\ caller = "waiting" /\ call.kind = "generate"
             /\ Returned' = Returned + 1 /\ delivered' = delivered \cup ToSet(data)
             /\ ToSet(data) \cap delivered = {} /\ IsFiniteSet(ToSet(data))
             /\ Cardinality(ToSet(data)) = RolloutBatchSize
    <2> DEFINE R == RolloutBatchSize
               D == MaxDelayStep
               c == NextBatch
               Left(T) == Needed(T) \ ToSet(data)
    <2>1. c \in Int /\ NextBatch' = c + 1
      BY <1>2, ReturnedIsNumber DEF NextBatch
    <2>2. c = current_step
      <3>1. next_rollout \in Nat
        BY DEF Base, TypeOK
      <3> QED
        BY <1>2, <3>1 DEF Calls, NextBatch, Returned
    <2>3. \A T \in Int : Needed(T)' = Left(T)
      BY <1>2 DEF Needed
    <2>4. ToSet(data) \subseteq FirstGroup .. MaxGroups - 1
      <3>1. ToSet(data) \subseteq FirstGroup .. sample_group_index - 1
        BY DEF Base, OneHome, Accounted
      <3>2. ToSet(data) \subseteq 0 .. MaxGroups - 1
        BY ElementsIn DEF Base, TypeOK, Groups
      <3> QED
        BY <3>1, <3>2
    <2> HIDE DEF c
    <2>5. ASSUME NEW T \in Int, T >= c - D
          PROVE  IsFiniteSet(Left(T)) /\ Cardinality(Left(T)) <= R * (T + D - c)
      <3>1. CASE \A g \in ToSet(data) : EntryStep(g) <= T
        <4>1. ToSet(data) \subseteq Needed(T)
          BY <1>2, <2>4, <3>1 DEF Needed
        <4>2. IsFiniteSet(Needed(T)) /\ Cardinality(Needed(T)) <= R * (T + D + 1 - c)
          <5>1. T >= c - 1 - D
            BY <2>1, <2>5
          <5> QED
            BY <5>1 DEF Window, c
        <4>3. /\ IsFiniteSet(Left(T))
              /\ Cardinality(Left(T)) = Cardinality(Needed(T)) - Cardinality(Needed(T) \cap ToSet(data))
          BY <4>2, FS_Difference
        <4>4. Needed(T) \cap ToSet(data) = ToSet(data)
          BY <4>1
        <4>5. Cardinality(Left(T)) = Cardinality(Needed(T)) - R
          BY <1>2, <4>3, <4>4
        <4>6. R * (T + D + 1 - c) - R = R * (T + D - c)
          BY <2>1, Z3
        <4>7. Cardinality(Needed(T)) \in Nat /\ R * (T + D + 1 - c) \in Int
          BY <2>1, <4>2, FS_CardinalityType
        <4> DEFINE u == R * (T + D + 1 - c)
                   v == R * (T + D - c)
        <4>8. Cardinality(Needed(T)) <= u /\ u \in Int /\ u - R = v
          BY <4>2, <4>6, <4>7
        <4> HIDE DEF u, v
        <4>9. Cardinality(Left(T)) <= v
          BY <4>5, <4>7, <4>8
        <4> QED
          BY <4>3, <4>9 DEF v
      <3>2. CASE \E g \in ToSet(data) : ~(EntryStep(g) <= T)
        <4>1. PICK g \in ToSet(data) : ~(EntryStep(g) <= T)
          BY <3>2
        <4>2. EntryStep(g) \in Nat
          BY <2>4, EntryStepFloor
        <4>3. ~Expired(g)
          BY <2>1, <2>2, <2>5, <4>1, <4>2 DEF Expired, ExpiredStep
        <4>4. \A h \in FirstGroup .. MaxGroups - 1 : Expired(h) => h \in delivered \cup ToSet(data)
          BY <4>1, <4>3 DEF FreshTaken
        <4>5. \A h \in Left(T) : h \in Nat /\ c - D + 1 <= EntryStep(h) /\ EntryStep(h) <= T
          <5> TAKE h \in Left(T)
          <5>1. h \in FirstGroup .. MaxGroups - 1 /\ h \notin delivered \cup ToSet(data)
                   /\ EntryStep(h) <= T
            BY DEF Needed
          <5>2. ~Expired(h)
            BY <4>4, <5>1
          <5>3. h \in Nat /\ EntryStep(h) \in Nat
            BY <5>1, EntryStepFloor
          <5> QED
            BY <2>1, <2>2, <5>1, <5>2, <5>3 DEF Expired, ExpiredStep
        <4> DEFINE a == c - D + 1
        <4>6. a \in Int /\ a <= T + 1 /\ T + 1 - a = T + D - c
          BY <2>1, <2>5
        <4> DEFINE L == Left(T)
        <4>7. \A h \in L : h \in Nat /\ a <= EntryStep(h) /\ EntryStep(h) <= T
          BY <4>5
        <4> HIDE DEF a, L
        <4>8. IsFiniteSet(L) /\ Cardinality(L) <= R * (T + 1 - a)
          BY <4>6, <4>7, StepsCount
        <4> QED
          BY <4>6, <4>8 DEF L
      <3> QED
        BY <3>1, <3>2
    <2>6. ASSUME NEW T \in Int, T >= NextBatch' - 1 - D
          PROVE  /\ IsFiniteSet(Needed(T)')
                 /\ Cardinality(Needed(T)') <= R * (T + D + 1 - NextBatch')
      <3>1. T >= c - D /\ T + D + 1 - NextBatch' = T + D - c
        BY <2>1, <2>6
      <3> QED
        BY <2>3, <2>5, <3>1
    <2> QED
      BY <2>6 DEF Window, Needed
  <1> QED
    BY <1>1, <1>2, Hands

\* The batch being gathered is the next to be returned, and its groups are not
\* delivered yet.
LEMMA Gathering ==
    ASSUME Base, Calls, NEW g \in ToSet(data)
    PROVE  /\ NextBatch = call.id /\ call.id \in Nat
           /\ g \in FirstGroup .. MaxGroups - 1 /\ g \notin delivered /\ g \in Nat
  <1> USE ConstantsAssumption
  <1>1. data # <<>>
    BY DEF ToSet
  <1>2. caller = "waiting" /\ call.kind = "generate"
    BY <1>1 DEF Calls, Base, CallerWaits, TypeOK
  <1>3. NextBatch = call.id /\ call.id \in Nat
    <2>1. next_rollout \in Nat /\ call.id \in Nat
      BY DEF Base, TypeOK
    <2> QED
      BY <1>2, <2>1 DEF Calls, NextBatch, Returned
  <1>4. g \in FirstGroup .. MaxGroups - 1 /\ g \notin delivered /\ g \in Nat
    <2>1. g \in FirstGroup .. sample_group_index - 1 /\ g \notin delivered
      BY DEF Base, OneHome, Accounted
    <2>2. g \in 0 .. MaxGroups - 1
      BY ElementsIn DEF Base, TypeOK, Groups
    <2> QED
      BY <2>1, <2>2
  <1> QED
    BY <1>3, <1>4

LEMMA WindowSuffices == Base /\ Calls /\ Window => DelayBound
  <1> SUFFICES ASSUME Base, Calls, Window, NEW g \in ToSet(data)
               PROVE  call.id - EntryStep(g) <= MaxDelayStep
    BY DEF DelayBound
  <1> USE ConstantsAssumption
  <1>3. NextBatch = call.id /\ call.id \in Nat
    BY Gathering
  <1>4. g \in FirstGroup .. MaxGroups - 1 /\ g \notin delivered /\ g \in Nat
    BY Gathering
  <1>5. EntryStep(g) \in Nat
    BY <1>4, EntryStepFloor
  <1> SUFFICES ASSUME call.id - EntryStep(g) > MaxDelayStep PROVE FALSE
    BY <1>3, <1>5
  <1> DEFINE T == NextBatch - 1 - MaxDelayStep
  <1>6. T \in Int /\ T + MaxDelayStep + 1 - NextBatch = 0 /\ EntryStep(g) <= T
    BY <1>3, <1>5
  <1>7. g \in Needed(T)
    BY <1>4, <1>6 DEF Needed
  <1>8. IsFiniteSet(Needed(T)) /\ Cardinality(Needed(T)) <= RolloutBatchSize * 0
    <2>1. T >= NextBatch - 1 - MaxDelayStep
      BY <1>6
    <2>2. /\ IsFiniteSet(Needed(T))
          /\ Cardinality(Needed(T)) <= RolloutBatchSize * (T + MaxDelayStep + 1 - NextBatch)
      BY <1>6, <2>1 DEF Window
    <2> HIDE DEF T
    <2> QED
      BY <1>6, <2>2
  <1> HIDE DEF T
  <1>9. Cardinality(Needed(T)) = 0
    BY <1>8, FS_CardinalityType
  <1> QED
    BY <1>7, <1>8, <1>9, FS_EmptySet

\* The promise of the delay window: a group is used at most MaxDelayStep
\* rollouts after its entry step, in whatever order the tasks finish, if the
\* engines abort nothing and no task fails.
THEOREM WithinDelay ==
    ASSUME MaxAborts = 0, MaxFaults = 0, StartsInOrder
    PROVE  Spec => []DelayBound
  <1>1. Init => Window
    BY InitWindow
  <1>2. Base /\ Calls /\ Undisturbed /\ Window /\ [Next]_vars => Window'
    BY NextWindow DEF Undisturbed
  <1> QED
    BY <1>1, <1>2, WindowSuffices, InvariantBase, InvariantCalls, InvariantUndisturbed, PTL DEF Spec
(***************************************************************************)
(* Off-policyness                                                          *)
(***************************************************************************)
\* The highest rollout id published to the worker.  An eval publishes that id
\* or the one before it, and the one before it only when the call for the
\* highest has returned.
Generating == caller = "waiting" /\ call.kind = "generate"
High == IF Generating THEN NextBatch
        ELSE IF NextBatch = StartRollout THEN StartRollout ELSE NextBatch - 1

Published ==
    /\ sample_group_index <= RolloutBatchSize * (High + MaxPrefetchSteps) + 1
    /\ worker # "off" => High - 1 <= current_rollout_id /\ current_rollout_id <= High
    /\ worker # "off" /\ current_rollout_id < High => ~Generating /\ NextBatch = High + 1
    /\ caller = "entered" /\ call.kind = "eval" => call.id \in {High - 1, High}
    /\ caller = "entered" /\ call.kind = "eval" /\ call.id < High => NextBatch = High + 1

LEMMA HighestPublished ==
    ASSUME Base, Clock, Calls
    PROVE  /\ next_rollout \in Nat /\ call.id \in Nat /\ StartRollout \in Nat
           /\ StartRollout <= next_rollout
           /\ caller # "idle" /\ call.kind = "generate" =>
                 NextBatch = next_rollout - 1 /\ NextBatch = call.id
                    /\ StartRollout < next_rollout
           /\ ~(caller # "idle" /\ call.kind = "generate") => NextBatch = next_rollout
           /\ NextBatch \in Nat /\ High \in Nat /\ StartRollout <= NextBatch
           /\ High <= NextBatch
  <1>1. next_rollout \in Nat /\ call.id \in Nat /\ StartRollout \in Nat
    BY ConstantsAssumption DEF Base, TypeOK
  <1>2. StartRollout <= next_rollout
    BY DEF Clock
  <1>3. caller # "idle" /\ call.kind = "generate" =>
           NextBatch = next_rollout - 1 /\ NextBatch = call.id /\ StartRollout < next_rollout
    BY <1>1 DEF Calls, NextBatch, Returned
  <1>4. ~(caller # "idle" /\ call.kind = "generate") => NextBatch = next_rollout
    BY <1>1 DEF NextBatch, Returned
  <1>5. NextBatch \in Nat /\ StartRollout <= NextBatch
    BY <1>1, <1>2, <1>3, <1>4
  <1>6. High \in Nat /\ High <= NextBatch
    BY <1>1, <1>5 DEF High
  <1> QED
    BY <1>1, <1>2, <1>3, <1>4, <1>5, <1>6

LEMMA NextPublished ==
    ASSUME StartsInWindow, Base, Clock, Calls, NothingAborted, Fetched, Published, [Next]_vars
    PROVE  Published'
  <1> USE ConstantsAssumption
  <1> DEFINE P == MaxPrefetchSteps
             R == RolloutBatchSize
  <1>1. /\ next_rollout \in Nat /\ call.id \in Nat /\ StartRollout \in Nat
        /\ StartRollout <= next_rollout
        /\ caller # "idle" /\ call.kind = "generate" =>
              NextBatch = next_rollout - 1 /\ NextBatch = call.id /\ StartRollout < next_rollout
        /\ ~(caller # "idle" /\ call.kind = "generate") => NextBatch = next_rollout
        /\ NextBatch \in Nat /\ High \in Nat /\ StartRollout <= NextBatch
        /\ High <= NextBatch
    BY HighestPublished
  <1>2. sample_group_index \in Nat /\ FirstGroup \in Nat /\ FirstGroup <= sample_group_index
    <2>1. sample_group_index \in FirstGroup .. MaxGroups /\ FirstGroup \in 0 .. MaxGroups
      BY DEF Base, TypeOK
    <2> QED
      BY <2>1
  <1>3. /\ sample_group_index <= R * (High + P) + 1
        /\ worker # "off" => High - 1 <= current_rollout_id /\ current_rollout_id <= High
        /\ worker # "off" /\ current_rollout_id < High => ~Generating /\ NextBatch = High + 1
        /\ caller = "entered" /\ call.kind = "eval" => call.id \in {High - 1, High}
        /\ caller = "entered" /\ call.kind = "eval" /\ call.id < High => NextBatch = High + 1
    BY DEF Published
  <1>4. CASE StartGenerate
    <2>1. /\ caller = "idle" /\ caller' = "entered" /\ call'.kind = "generate"
          /\ next_rollout' = next_rollout + 1
          /\ UNCHANGED <<sample_group_index, worker, current_rollout_id>>
      BY <1>4 DEF StartGenerate, sourceVars, workerVars
    <2>2. NextBatch' = NextBatch /\ ~Generating /\ ~Generating'
      BY <1>1, <2>1 DEF NextBatch, Returned, Generating
    <2>3. High' = High
      BY <2>2 DEF High
    <2> QED
      BY <1>3, <2>1, <2>2, <2>3 DEF Published
  <1>5. CASE StartEval
    <2>1. PICK r \in EvalIds : call' = [kind |-> "eval", id |-> r]
      BY <1>5 DEF StartEval
    <2>2. /\ caller = "idle" /\ caller' = "entered" /\ call'.kind = "eval" /\ call'.id = r
          /\ UNCHANGED <<next_rollout, sample_group_index, worker, current_rollout_id>>
      BY <1>5, <2>1 DEF StartEval, sourceVars, workerVars
    <2>3. NextBatch = next_rollout /\ NextBatch' = next_rollout /\ ~Generating /\ ~Generating'
      BY <1>1, <2>2 DEF NextBatch, Returned, Generating
    <2>4. High' = High /\ High = IF next_rollout = StartRollout THEN StartRollout ELSE next_rollout - 1
      BY <2>3 DEF High
    <2>5. r \in {High - 1, High} /\ (r < High => next_rollout = High + 1)
      BY <1>1, <2>1, <2>4 DEF EvalIds
    <2> QED
      BY <1>3, <2>2, <2>3, <2>4, <2>5 DEF Published
  <1>6. CASE EnterWorker
    <2>1. /\ caller = "entered" /\ caller' = "waiting" /\ current_rollout_id' = call.id
          /\ UNCHANGED <<call, next_rollout, sample_group_index>>
      BY <1>6 DEF EnterWorker, sourceVars
    <2>2. NextBatch' = NextBatch
      BY <2>1 DEF NextBatch, Returned
    <2>3. CASE call.kind = "eval"
      <3>1. High' = High /\ ~Generating'
        BY <2>1, <2>2, <2>3 DEF High, Generating
      <3>2. call.id \in {High - 1, High} /\ (call.id < High => NextBatch = High + 1)
        BY <1>3, <2>1, <2>3
      <3>3. High - 1 <= call.id /\ call.id <= High
        BY <1>1, <3>2
      <3> QED
        BY <1>3, <2>1, <2>2, <3>1, <3>2, <3>3 DEF Published
    <2>4. CASE call.kind = "generate"
      <3>1. High' = NextBatch /\ NextBatch = call.id
        BY <1>1, <2>1, <2>2, <2>4 DEF High, Generating
      <3> DEFINE h == High
                 n == NextBatch
      <3>2. h \in Int /\ n \in Int /\ h <= n /\ sample_group_index <= R * (h + P) + 1
        BY <1>1, <1>3
      <3> HIDE DEF h, n
      <3>3. h + P \in Int /\ n + P \in Int /\ h + P <= n + P
        BY <3>2
      <3>4. R * (h + P) <= R * (n + P) /\ R * (h + P) \in Int /\ R * (n + P) \in Int
        BY <3>3, ProductMonotone
      <3>5. sample_group_index' <= R * (n + P) + 1
        <4> DEFINE u == R * (h + P)
                   v == R * (n + P)
        <4>1. u \in Int /\ v \in Int /\ u <= v /\ sample_group_index <= u + 1
          BY <3>2, <3>4
        <4> HIDE DEF u, v
        <4>2. sample_group_index' <= v + 1
          BY <1>2, <2>1, <4>1
        <4> QED
          BY <4>2 DEF v
      <3>6. High' = n
        BY <3>1 DEF n
      <3>7. /\ sample_group_index' <= R * (High' + P) + 1
            /\ High' - 1 <= current_rollout_id' /\ current_rollout_id' = High'
        <4>1. sample_group_index' <= R * (High' + P) + 1
          BY <3>5, <3>6
        <4>2. current_rollout_id' = High'
          BY <2>1, <3>1
        <4>3. n - 1 <= n
          BY <3>2
        <4> QED
          BY <3>6, <4>1, <4>2, <4>3
      <3> QED
        BY <1>1, <2>1, <2>4, <3>1, <3>7 DEF Published
    <2> QED
      BY <2>3, <2>4 DEF Base, TypeOK
  <1>7. CASE EvalReturns
    <2>1. /\ caller = "waiting" /\ call.kind = "eval" /\ caller' = "idle"
          /\ UNCHANGED <<call, next_rollout, sample_group_index, worker, current_rollout_id>>
      BY <1>7 DEF EvalReturns, sourceVars, workerVars, Base, CallerWaits
    <2>2. NextBatch' = NextBatch /\ ~Generating /\ ~Generating'
      BY <2>1 DEF NextBatch, Returned, Generating
    <2>3. High' = High
      BY <2>2 DEF High
    <2> QED
      BY <1>3, <2>1, <2>2, <2>3 DEF Published
  <1>8. CASE Return
    <2>1. caller = "waiting" /\ call.kind = "generate"
      BY <1>8 DEF Return, AtLoopTest, Base, CallerWaits, TypeOK
    <2>2. /\ caller' = "idle"
          /\ UNCHANGED <<call, next_rollout, sample_group_index, worker, current_rollout_id>>
      BY <1>8 DEF Return, workerVars
    <2>3. NextBatch' = NextBatch + 1
      BY <1>1, <2>1, <2>2 DEF NextBatch, Returned
    <2>4. Generating /\ ~Generating'
      BY <2>1, <2>2 DEF Generating
    <2>5. High = NextBatch /\ High' = NextBatch
      BY <1>1, <2>3, <2>4 DEF High
    <2> QED
      BY <1>1, <1>3, <2>2, <2>3, <2>4, <2>5 DEF Published
  <1>9. CASE LaunchFresh
    <2>1. /\ sample_group_index' = sample_group_index + 1
          /\ UNCHANGED <<caller, call, next_rollout, worker, current_rollout_id>>
          /\ worker = "launch"
      BY <1>9 DEF LaunchFresh, callerVars
    <2>2. NextBatch' = NextBatch /\ High' = High /\ Generating' = Generating
      BY <2>1 DEF NextBatch, Returned, High, Generating
    <2> DEFINE now == R * (High + P)
    <2>3. now \in Int
      BY <1>1
    <2>4. sample_group_index <= now
      <3>1. CASE sample_group_index > FirstGroup
        <4>1. max_entry_step \in EntrySteps \cup {0} /\ current_rollout_id \in Nat \cup {-1}
          BY DEF Base, TypeOK, None
        <4>2. max_entry_step \in Int /\ current_rollout_id \in Int
          BY <4>1, StepsAreNumbers
        <4>3. max_entry_step - current_rollout_id < P
          <5>1. ~Throttled
            BY <1>9 DEF LaunchFresh, MayLaunch
          <5> QED
            BY <4>2, <5>1 DEF Throttled
        <4>4. max_entry_step = EntryStep(sample_group_index - 1)
          BY <3>1 DEF Fetched
        <4>5. EntryStep(sample_group_index - 1) < High + P
          BY <1>1, <1>3, <2>1, <4>2, <4>3, <4>4
        <4>6. sample_group_index - 1 \in Nat /\ High + P \in Int
          BY <1>1, <1>2, <3>1
        <4>7. sample_group_index - 1 < now
          BY <4>5, <4>6, EntryStepBelow
        <4> HIDE DEF now
        <4> QED
          BY <1>2, <2>3, <4>7
      <3>2. CASE sample_group_index = FirstGroup
        <4>1. StartRollout <= High
          BY <1>1 DEF High
        <4>2. StartRollout + P \in Int /\ High + P \in Int /\ StartRollout + P <= High + P
          BY <1>1, <4>1
        <4>3. R * (StartRollout + P) <= now /\ R * (StartRollout + P) \in Int
          BY <4>2, ProductMonotone
        <4>4. FirstGroup <= R * (StartRollout + P)
          BY DEF StartsInWindow
        <4> DEFINE w == R * (StartRollout + P)
        <4>5. w <= now /\ w \in Int /\ FirstGroup <= w
          BY <4>3, <4>4
        <4> HIDE DEF now, w
        <4> QED
          BY <1>2, <2>3, <3>2, <4>5
      <3> QED
        BY <1>2, <3>1, <3>2
    <2> HIDE DEF now
    <2>5. sample_group_index' <= now + 1
      BY <1>2, <2>1, <2>3, <2>4
    <2> QED
      BY <1>3, <2>1, <2>2, <2>5 DEF Published, now
  <1>10. CASE LaunchPending
    BY <1>10 DEF LaunchPending, NothingAborted
  <1>11. CASE /\ UNCHANGED <<sample_group_index, current_rollout_id, caller, call, next_rollout>>
              /\ (worker' # "off" => worker # "off")
    <2>1. NextBatch' = NextBatch /\ High' = High /\ Generating' = Generating
      BY <1>11 DEF NextBatch, Returned, High, Generating
    <2> QED
      BY <1>3, <1>11, <2>1 DEF Published
  <1>12. CASE TaskStep \/ BeginIteration \/ CollectorRuns \/ UNCHANGED vars
    BY <1>11, <1>12
    DEF TaskStep, TaskReturns, TaskFaults, BeginIteration, CollectorRuns, DrainAborted,
        DrainCompleted, Classify, AcceptGroup, WaitForExpired, FillWithFresh, RestoreInference,
        EndTaking, EndIteration, vars, sourceVars, workerVars, callerVars
  <1>13. CASE WorkerWakes \/ HarvestReturned \/ HarvestRaised \/ HarvestFanOut \/ EndHarvest \/ EndLaunch
    BY <1>11, <1>13
    DEF WorkerWakes, LoopFree, HarvestReturned, HarvestRaised, HarvestFanOut, EndHarvest, EndLaunch,
        sourceVars, workerVars, callerVars
  <1> QED
    BY <1>4, <1>5, <1>6, <1>7, <1>8, <1>9, <1>10, <1>12, <1>13
    DEF Next, CallerStep, WorkerPass, CollectorResumes
\* A sample stamped one rollout too early for the prefetch window: its task ran
\* into the eval of the previous rollout.
Early(g, stamp) == stamp # None /\ EntryStep(g) > stamp + MaxPrefetchSteps

\* What makes up for it: at most EntryStep(g) + 1 - c full batches of groups up
\* to its entry step are left, and until it is taken itself nothing later is.
Tight(g) ==
    /\ IsFiniteSet(Needed(EntryStep(g)))
    /\ Cardinality(Needed(EntryStep(g))) <= RolloutBatchSize * (EntryStep(g) + 1 - NextBatch)
Behind(g) == g \notin ToSet(data) => \A x \in ToSet(data) : EntryStep(x) <= EntryStep(g)

Stamps ==
    /\ \A g \in DOMAIN active : \A s \in SampleIds : samples[g][s].completed_step = None
    /\ \A g \in DOMAIN samples : \A s \in SampleIds :
          Early(g, samples[g][s].completed_step) =>
             /\ EntryStep(g) = samples[g][s].completed_step + MaxPrefetchSteps + 1
             /\ Tight(g) /\ Behind(g)

\* A group of the samples is a number the data source has handed out.
LEMMA LiveGroup ==
    ASSUME Base, NEW g \in DOMAIN samples
    PROVE  /\ g \in FirstGroup .. MaxGroups - 1 /\ g \in Nat
           /\ g < sample_group_index /\ g \notin delivered
           /\ EntryStep(g) \in Nat
  <1>1. g \in FirstGroup .. sample_group_index - 1 /\ g \notin delivered
    BY DEF Base, OneHome, Accounted
  <1>2. sample_group_index \in FirstGroup .. MaxGroups /\ FirstGroup \in 0 .. MaxGroups
    BY ConstantsAssumption DEF Base, TypeOK
  <1>3. FirstGroup \in Nat /\ MaxGroups \in Nat
    BY ConstantsAssumption
  <1>4. g \in FirstGroup .. MaxGroups - 1 /\ g \in Nat /\ g < sample_group_index
    BY <1>1, <1>2, <1>3
  <1> QED
    BY <1>1, <1>4, EntryStepFloor

LEMMA NextTight ==
    ASSUME Base, Base', [Next]_vars, NEW g \in DOMAIN samples, g \in DOMAIN samples',
           Tight(g), Behind(g)
    PROVE  Tight(g)'
  <1> USE ConstantsAssumption
  <1> DEFINE R == RolloutBatchSize
             T == EntryStep(g)
  <1>1. T \in Nat
    BY LiveGroup
  <1>2. CASE Returned' = Returned /\ delivered' = delivered
    BY <1>2 DEF Tight, Needed, NextBatch
  <1>3. CASE /\ Returned' = Returned + 1 /\ delivered' = delivered \cup ToSet(data)
             /\ ToSet(data) \cap delivered = {} /\ IsFiniteSet(ToSet(data))
             /\ Cardinality(ToSet(data)) = RolloutBatchSize
    <2>1. g \notin ToSet(data)
      BY <1>3 DEF Base, OneHome, Accounted
    <2>2. ToSet(data) \subseteq Needed(T)
      <3> SUFFICES ASSUME NEW x \in ToSet(data) PROVE x \in Needed(T)
        OBVIOUS
      <3>1. x \in DOMAIN samples
        BY DEF Base, OneHome, Accounted
      <3>2. x \in FirstGroup .. MaxGroups - 1 /\ x \notin delivered
        BY <3>1, LiveGroup
      <3>3. EntryStep(x) <= T
        BY <2>1 DEF Behind
      <3> QED
        BY <3>2, <3>3 DEF Needed
    <2>3. IsFiniteSet(Needed(T)) /\ Cardinality(Needed(T)) <= R * (T + 1 - NextBatch)
      BY DEF Tight
    <2>4. Needed(T)' = Needed(T) \ ToSet(data) /\ Needed(T) \cap ToSet(data) = ToSet(data)
      BY <1>3, <2>2 DEF Needed
    <2>5. /\ IsFiniteSet(Needed(T) \ ToSet(data))
          /\ Cardinality(Needed(T) \ ToSet(data)) = Cardinality(Needed(T)) - R
      BY <1>3, <2>3, <2>4, FS_Difference
    <2>6. NextBatch \in Int /\ NextBatch' = NextBatch + 1
      BY <1>3, ReturnedIsNumber DEF NextBatch
    <2> DEFINE n == NextBatch
               u == R * (T + 1 - n)
               v == R * (T + 1 - (n + 1))
    <2>7. n \in Int
      BY <2>6
    <2> HIDE DEF n, T
    <2>8. u - R = v /\ u \in Int /\ v \in Int
      BY <1>1, <2>7, Z3
    <2>9. Cardinality(Needed(T)) \in Nat /\ Cardinality(Needed(T)) <= u
      BY <2>3, FS_CardinalityType DEF n
    <2> HIDE DEF u, v
    <2>10. Cardinality(Needed(T) \ ToSet(data)) <= v
      BY <2>5, <2>8, <2>9
    <2>11. IsFiniteSet(Needed(T)') /\ Cardinality(Needed(T)') <= R * (T + 1 - NextBatch')
      BY <2>4, <2>5, <2>6, <2>10 DEF v, n
    <2> QED
      BY <2>11 DEF Tight, T, Needed
  <1> QED
    BY <1>2, <1>3, Hands

LEMMA NextBehind ==
    ASSUME Base, Turn, Calls, NothingAborted, [Next]_vars,
           NEW g \in DOMAIN samples, g \notin DOMAIN active, Behind(g)
    PROVE  Behind(g)'
  <1> USE ConstantsAssumption
  <1>1. CASE data' = <<>>
    BY <1>1 DEF Behind, ToSet
  <1>2. CASE data' = data
    BY <1>2 DEF Behind
  <1>3. CASE AcceptGroup
    <2>1. PICK es \in EntrySteps :
             /\ Offered(es)
             /\ data' = Append(data, Head(pending_completed[es]))
      BY <1>3 DEF AcceptGroup
    <2> DEFINE x == Head(pending_completed[es])
    <2>2. x \in ToSet(pending_completed[es]) /\ x \in Groups
      BY <2>1, PopHead DEF Offered, Base, TypeOK, OneHome, NoDuplicates
    <2> HIDE DEF x
    <2>3. data \in Seq(Groups) /\ data' = Append(data, x)
      BY <2>1 DEF Base, TypeOK, x
    <2>4. ToSet(data') = ToSet(data) \cup {x}
      BY <2>2, <2>3, PushTail
    <2>5. g \in Cached => EntryStep(x) <= EntryStep(g)
      <3>1. Len(data) + 1 \in DOMAIN data' \ DOMAIN data /\ data'[Len(data) + 1] = x
        BY <2>2, <2>3
      <3> QED
        BY <3>1, EarliestEnters
    <2>6. g \in Cached \/ g \in ToSet(data)
      <3>1. pending = <<>> /\ output_queue = <<>>
        BY <1>3 DEF AcceptGroup, NothingAborted, Calls
      <3>2. g \notin ToSet(pending) /\ g \notin ToSet(output_queue)
        BY <3>1 DEF ToSet
      <3> QED
        BY <3>2 DEF Base, OneHome, Accounted
    <2> QED
      BY <2>4, <2>5, <2>6 DEF Behind
  <1> QED
    BY <1>1, <1>2, <1>3
    DEF Next, CallerStep, StartGenerate, StartEval, EnterWorker, EvalReturns, TaskStep, TaskReturns,
        TaskFaults, WorkerWakes, WorkerPass, HarvestReturned, HarvestRaised, HarvestFanOut,
        EndHarvest, LaunchPending, LaunchFresh, EndLaunch, CollectorResumes, BeginIteration, Return,
        CollectorRuns, DrainAborted, DrainCompleted, Classify, WaitForExpired, FillWithFresh,
        RestoreInference, EndTaking, EndIteration, vars, collectorVars

\* Only the harvest of a returned task stamps, and with the published id.
LEMMA Stamping ==
    ASSUME Base, NothingAborted, NothingLost, Stamps, [Next]_vars
    PROVE  /\ \A g \in DOMAIN active' : \A s \in SampleIds : samples'[g][s].completed_step = None
           /\ \A g \in DOMAIN samples' : \A s \in SampleIds :
                 \/ samples'[g][s].completed_step = None
                 \/ /\ g \in DOMAIN samples
                    /\ samples'[g][s].completed_step = samples[g][s].completed_step
                 \/ /\ HarvestReturned /\ g \in DOMAIN active
                    /\ samples'[g][s].completed_step = current_rollout_id
  <1> USE ConstantsAssumption
  <1>1. /\ \A g \in DOMAIN active : \A s \in SampleIds : samples[g][s].completed_step = None
        /\ DOMAIN active \subseteq DOMAIN samples
        /\ \A g \in DOMAIN samples : \A s \in SampleIds : samples[g][s] \in SampleStates
    <2>1. \A g \in DOMAIN active : \A s \in SampleIds : samples[g][s].completed_step = None
      BY DEF Stamps
    <2>2. DOMAIN active \subseteq DOMAIN samples
      BY DEF Base, OneHome, Accounted
    <2>3. samples \in [DOMAIN samples -> [SampleIds -> SampleStates]]
      BY DEF Base, TypeOK
    <2> QED
      BY <2>1, <2>2, <2>3
  <1>2. CASE DOMAIN active' = DOMAIN active /\ samples' = samples
    BY <1>1, <1>2
  <1>3. CASE TaskReturns
    <2>1. PICK g \in DOMAIN active : \E status \in [SampleIds -> {"completed", "aborted"}] :
             /\ samples' = [samples EXCEPT ![g] =
                   [s \in SampleIds |-> [samples[g][s] EXCEPT !.status = status[s]]]]
             /\ active' = [active EXCEPT ![g] = "returned"]
      <3> PICK g \in Running, outcome \in [SampleIds -> {"completed", "aborted"}] :
             LET status == [s \in SampleIds |->
                              IF samples[g][s].status = "completed"
                                THEN "completed" ELSE outcome[s]]
             IN /\ samples' = [samples EXCEPT ![g] =
                                 [s \in SampleIds |->
                                    [samples[g][s] EXCEPT !.status = status[s]]]]
                /\ active' = [active EXCEPT ![g] = "returned"]
        BY <1>3 DEF TaskReturns
      <3> DEFINE status == [s \in SampleIds |->
                              IF samples[g][s].status = "completed"
                                THEN "completed" ELSE outcome[s]]
      <3>1. status \in [SampleIds -> {"completed", "aborted"}]
        OBVIOUS
      <3>2. /\ samples' = [samples EXCEPT ![g] =
                              [s \in SampleIds |-> [samples[g][s] EXCEPT !.status = status[s]]]]
            /\ active' = [active EXCEPT ![g] = "returned"]
        OBVIOUS
      <3> HIDE DEF status
      <3> QED
        BY <3>1, <3>2 DEF Running
    <2>2. /\ DOMAIN samples' = DOMAIN samples /\ DOMAIN active' = DOMAIN active
          /\ \A h \in DOMAIN samples : h # g => samples'[h] = samples[h]
      BY <2>1
    <2>3. \A s \in SampleIds : samples'[g][s].completed_step = samples[g][s].completed_step
      BY <1>1, <2>1 DEF SampleStates
    <2>4. \A h \in DOMAIN samples : \A s \in SampleIds :
             samples'[h][s].completed_step = samples[h][s].completed_step
      BY <2>2, <2>3
    <2> QED
      BY <1>1, <2>2, <2>4
  <1>4. CASE TaskFaults
    BY <1>1, <1>4 DEF TaskFaults
  <1>5. CASE HarvestReturned
    <2>1. PICK g \in DOMAIN active :
          /\ active' = [h \in DOMAIN active \ {g} |-> active[h]]
          /\ samples' = [samples EXCEPT ![g] = [s \in SampleIds |-> Stamp(samples[g][s])]]
      BY <1>5 DEF HarvestReturned, Retire
    <2>2. /\ DOMAIN samples' = DOMAIN samples /\ DOMAIN active' = DOMAIN active \ {g}
          /\ \A h \in DOMAIN samples : h # g => samples'[h] = samples[h]
      BY <2>1
    <2>3. \A t \in SampleStates : t.completed_step = None =>
             Stamp(t).completed_step \in {None, current_rollout_id}
      BY DEF Stamp, SampleStates
    <2>4. \A s \in SampleIds : samples'[g][s] = Stamp(samples[g][s])
      BY <1>1, <2>1
    <2>5. \A s \in SampleIds : samples'[g][s].completed_step \in {None, current_rollout_id}
      BY <1>1, <2>3, <2>4
    <2>6. \A h \in DOMAIN active' : h \in DOMAIN active /\ h # g /\ samples'[h] = samples[h]
      BY <1>1, <2>2
    <2>7. \A h \in DOMAIN samples' : h = g \/ (h \in DOMAIN samples /\ samples'[h] = samples[h])
      BY <2>2
    <2> QED
      BY <1>1, <1>5, <2>5, <2>6, <2>7
  <1>6. CASE HarvestRaised \/ HarvestFanOut
    BY <1>6 DEF HarvestRaised, HarvestFanOut, NothingLost
  <1>7. CASE LaunchPending
    BY <1>7 DEF LaunchPending, NothingAborted
  <1>8. CASE LaunchFresh
    <2> DEFINE g == sample_group_index
    <2>1. /\ active' = [h \in DOMAIN active \cup {g} |-> IF h = g THEN "running" ELSE active[h]]
          /\ samples' = [h \in DOMAIN samples \cup {g} |->
                           IF h = g THEN [s \in SampleIds |-> NewSample] ELSE samples[h]]
      BY <1>8 DEF LaunchFresh, Dispatch
    <2> HIDE DEF g
    <2>2. \A s \in SampleIds : samples'[g][s].completed_step = None
      BY <2>1 DEF NewSample
    <2>3. /\ \A h \in DOMAIN active' : h = g \/ h \in DOMAIN active
          /\ \A h \in DOMAIN samples' : h = g \/ (h \in DOMAIN samples /\ samples'[h] = samples[h])
          /\ DOMAIN active' \subseteq DOMAIN samples'
      BY <1>1, <2>1
    <2> QED
      BY <1>1, <2>2, <2>3
  <1>9. CASE Return
    <2>1. samples' = [g \in DOMAIN samples \ ToSet(data) |-> samples[g]] /\ active' = active
      BY <1>9 DEF Return, Forget, taskVars
    <2>2. DOMAIN active \cap ToSet(data) = {}
      BY DEF Base, OneHome, Disjoint
    <2>3. /\ \A h \in DOMAIN samples' : h \in DOMAIN samples /\ samples'[h] = samples[h]
          /\ \A h \in DOMAIN active' : h \in DOMAIN active /\ samples'[h] = samples[h]
      BY <1>1, <2>1, <2>2
    <2> QED
      BY <1>1, <2>3
  <1> QED
    BY <1>2, <1>3, <1>4, <1>5, <1>6, <1>7, <1>8, <1>9
    DEF Next, CallerStep, StartGenerate, StartEval, EnterWorker, EvalReturns, TaskStep,
        WorkerWakes, WorkerPass, EndHarvest, EndLaunch, CollectorResumes, BeginIteration,
        CollectorRuns, DrainAborted, DrainCompleted, Classify, AcceptGroup, WaitForExpired,
        FillWithFresh, RestoreInference, EndTaking, EndIteration, vars, taskVars
\* A group stamped too early was fetched in the highest rollout published and
\* harvested during the eval of the one before it.
LEMMA EarlyStamp ==
    ASSUME StartsInOrder, Base, Clock, Calls, Counted, Published, HarvestReturned,
           NEW g \in DOMAIN active, EntryStep(g) > current_rollout_id + MaxPrefetchSteps
    PROVE  /\ EntryStep(g) = current_rollout_id + MaxPrefetchSteps + 1
           /\ Tight(g)' /\ Behind(g)'
  <1> USE ConstantsAssumption
  <1> DEFINE R == RolloutBatchSize
             P == MaxPrefetchSteps
             T == EntryStep(g)
  <1>1. High \in Nat /\ NextBatch \in Nat /\ StartRollout \in Nat /\ StartRollout <= NextBatch
    BY HighestPublished
  <1>2. /\ sample_group_index <= R * (High + P) + 1
        /\ High - 1 <= current_rollout_id /\ current_rollout_id <= High
        /\ current_rollout_id < High => ~Generating /\ NextBatch = High + 1
    BY DEF HarvestReturned, Published
  <1>3. current_rollout_id \in Int
    <2>1. current_rollout_id \in Nat \cup {-1}
      BY DEF Base, TypeOK, None
    <2> QED
      BY <2>1
  <1>4. \A h \in Nat : h < sample_group_index => EntryStep(h) <= High + P
    <2> SUFFICES ASSUME NEW h \in Nat, h < sample_group_index PROVE EntryStep(h) <= High + P
      OBVIOUS
    <2> DEFINE k == High + P
    <2>1. k \in Int /\ k + 1 \in Int
      BY <1>1
    <2> HIDE DEF k
    <2>2. R * k + R = R * (k + 1) /\ R * k \in Int /\ R * (k + 1) \in Int
      BY <2>1, Z3
    <2>3. sample_group_index \in Nat /\ sample_group_index <= R * k + 1
      <3>1. sample_group_index \in FirstGroup .. MaxGroups /\ FirstGroup \in 0 .. MaxGroups
        BY DEF Base, TypeOK
      <3> QED
        BY <1>2, <3>1 DEF k
    <2>4. h < R * (k + 1)
      <3> DEFINE u == R * k
                 v == R * (k + 1)
      <3>1. u + R = v /\ u \in Int /\ v \in Int /\ sample_group_index <= u + 1
        BY <2>2, <2>3
      <3> HIDE DEF u, v
      <3>2. h < v
        BY <2>3, <3>1
      <3> QED
        BY <3>2 DEF v
    <2>5. EntryStep(h) < k + 1 /\ EntryStep(h) \in Nat
      BY <2>1, <2>4, EntryStepBelow, EntryStepFloor
    <2> QED
      BY <2>1, <2>5 DEF k
  <1>5. g \in DOMAIN samples /\ g \in Nat /\ T \in Nat /\ T <= High + P
    <2>1. g \in DOMAIN samples
      BY DEF Base, OneHome, Accounted
    <2> QED
      BY <2>1, <1>4, LiveGroup
  <1>6. /\ current_rollout_id = High - 1 /\ T = High + P /\ T = current_rollout_id + P + 1
        /\ ~Generating /\ NextBatch = High + 1
    BY <1>1, <1>2, <1>3, <1>5
  <1>7. data = <<>> /\ data' = <<>>
    <2>1. collector \in {"off", "evaluating"}
      BY <1>6 DEF Generating, Base, CallerWaits, TypeOK
    <2> QED
      BY <2>1 DEF Calls, HarvestReturned, collectorVars
  <1>8. Behind(g)'
    BY <1>7 DEF Behind, ToSet
  <1> DEFINE A == { h \in FirstGroup .. MaxGroups - 1 : EntryStep(h) <= T }
  <1>9. IsFiniteSet(A) /\ Cardinality(A) <= R * (T + 1 - StartRollout)
    <2>1. \A h \in A : h \in Nat /\ StartRollout <= EntryStep(h) /\ EntryStep(h) <= T
      <3> TAKE h \in A
      <3>1. h \in Nat /\ FirstGroup <= h /\ EntryStep(h) <= T
        OBVIOUS
      <3>2. R * StartRollout \in Int /\ R * StartRollout <= h
        BY <3>1 DEF StartsInOrder
      <3>3. ~(EntryStep(h) < StartRollout)
        BY <3>1, <3>2, EntryStepBelow
      <3> QED
        BY <3>1, <3>3, EntryStepFloor
    <2>2. StartRollout <= T + 1
      BY <1>1, <1>6
    <2> HIDE DEF A
    <2> QED
      BY <1>1, <1>5, <2>1, <2>2, StepsCount
  <1>10. delivered \subseteq A
    <2> SUFFICES ASSUME NEW h \in delivered PROVE h \in A
      OBVIOUS
    <2>1. h \in FirstGroup .. sample_group_index - 1
      BY DEF Base, OneHome, Accounted
    <2>2. sample_group_index \in FirstGroup .. MaxGroups /\ FirstGroup \in 0 .. MaxGroups
      BY DEF Base, TypeOK
    <2>3. h \in Nat /\ h \in FirstGroup .. MaxGroups - 1 /\ h < sample_group_index
      BY <2>1, <2>2
    <2> QED
      BY <1>4, <1>6, <2>3
  <1>11. Needed(T) = A \ delivered /\ A \cap delivered = delivered
    BY <1>10 DEF Needed
  <1> HIDE DEF A
  <1>12. IsFiniteSet(Needed(T)) /\ Cardinality(Needed(T)) = Cardinality(A) - R * Returned
    <2>1. /\ IsFiniteSet(A \ delivered)
          /\ Cardinality(A \ delivered) = Cardinality(A) - Cardinality(A \cap delivered)
      BY <1>9, FS_Difference
    <2>2. Cardinality(A \cap delivered) = R * Returned
      BY <1>11 DEF Counted
    <2> HIDE DEF R
    <2> QED
      BY <1>11, <2>1, <2>2
  <1>13. Returned = NextBatch - StartRollout /\ Returned \in Int
    BY <1>1, ReturnedIsNumber DEF NextBatch
  <1>14. R * (T + 1 - StartRollout) - R * Returned = R * (T + 1 - NextBatch)
    <2> DEFINE r == Returned
               n == NextBatch
    <2>1. r \in Int /\ n \in Int /\ r = n - StartRollout
      BY <1>1, <1>13
    <2> HIDE DEF r, n, T
    <2>2. R * (T + 1 - StartRollout) - R * r = R * (T + 1 - n)
      BY <1>1, <1>5, <2>1, Z3
    <2> QED
      BY <2>2 DEF r, n
  <1>15. Cardinality(Needed(T)) <= R * (T + 1 - NextBatch)
    <2> DEFINE u == R * (T + 1 - StartRollout)
               v == R * Returned
               w == R * (T + 1 - NextBatch)
    <2>1. u \in Int /\ v \in Int /\ w \in Int
      BY <1>1, <1>5, <1>13
    <2>2. /\ Cardinality(A) <= u /\ Cardinality(A) \in Nat
          /\ Cardinality(Needed(T)) = Cardinality(A) - v /\ u - v = w
      BY <1>9, <1>12, <1>14, FS_CardinalityType
    <2> HIDE DEF u, v, w
    <2>3. Cardinality(Needed(T)) <= w
      BY <2>1, <2>2
    <2> QED
      BY <2>3 DEF w
  <1>16. Tight(g)
    BY <1>12, <1>15 DEF Tight
  <1>17. UNCHANGED <<delivered, caller, call, next_rollout>>
    BY DEF HarvestReturned, callerVars, historyVars
  <1>18. Tight(g)'
    BY <1>16, <1>17 DEF Tight, Needed, NextBatch, Returned
  <1> QED
    BY <1>6, <1>8, <1>18

LEMMA NextStamps ==
    ASSUME StartsInOrder, Base, Base', Clock, Turn, Calls, Counted, NothingAborted, NothingLost,
           Published, Stamps, [Next]_vars
    PROVE  Stamps'
  <1>1. /\ \A g \in DOMAIN active' : \A s \in SampleIds : samples'[g][s].completed_step = None
        /\ \A g \in DOMAIN samples' : \A s \in SampleIds :
              \/ samples'[g][s].completed_step = None
              \/ /\ g \in DOMAIN samples
                 /\ samples'[g][s].completed_step = samples[g][s].completed_step
              \/ /\ HarvestReturned /\ g \in DOMAIN active
                 /\ samples'[g][s].completed_step = current_rollout_id
    BY Stamping
  <1>2. ASSUME NEW g \in DOMAIN samples', NEW s \in SampleIds,
               Early(g, samples'[g][s].completed_step)
        PROVE  /\ EntryStep(g) = samples'[g][s].completed_step + MaxPrefetchSteps + 1
               /\ Tight(g)' /\ Behind(g)'
    <2>1. CASE samples'[g][s].completed_step = None
      BY <1>2, <2>1 DEF Early
    <2>2. CASE /\ HarvestReturned /\ g \in DOMAIN active
               /\ samples'[g][s].completed_step = current_rollout_id
      BY <1>2, <2>2, EarlyStamp DEF Early
    <2>3. CASE /\ g \in DOMAIN samples
               /\ samples'[g][s].completed_step = samples[g][s].completed_step
      <3>1. Early(g, samples[g][s].completed_step)
        BY <1>2, <2>3
      <3>2. /\ EntryStep(g) = samples[g][s].completed_step + MaxPrefetchSteps + 1
            /\ Tight(g) /\ Behind(g)
        BY <2>3, <3>1 DEF Stamps
      <3>3. g \notin DOMAIN active
        BY <3>1 DEF Stamps, Early
      <3>4. Tight(g)'
        BY <1>2, <2>3, <3>2, NextTight
      <3>5. Behind(g)'
        BY <2>3, <3>2, <3>3, NextBehind
      <3> QED
        BY <2>3, <3>2, <3>4, <3>5
    <2> QED
      BY <1>1, <2>1, <2>2, <2>3
  <1> QED
    BY <1>1, <1>2 DEF Stamps, Early

LEMMA StampsSuffice ==
    Base /\ Clock /\ Calls /\ AcceptedAreComplete /\ DelayBound /\ Stamps => OffPolicyBound
  <1> SUFFICES ASSUME Base, Clock, Calls, AcceptedAreComplete, DelayBound, Stamps,
                      NEW g \in ToSet(data), NEW s \in SampleIds
               PROVE  call.id - samples[g][s].completed_step <= MaxDelayStep + MaxPrefetchSteps
    BY DEF OffPolicyBound
  <1> USE ConstantsAssumption
  <1> DEFINE st == samples[g][s].completed_step
             R == RolloutBatchSize
             T == EntryStep(g)
  <1>1. st \in Nat
    <2>1. st \in 0 .. NewestRollout
      BY DEF AcceptedAreComplete
    <2>2. NewestRollout \in Nat
      <3>1. next_rollout \in Nat /\ StartRollout <= next_rollout
        BY DEF Base, TypeOK, Clock
      <3> QED
        BY <3>1 DEF NewestRollout
    <2> QED
      BY <2>1, <2>2
  <1>2. NextBatch = call.id /\ call.id \in Nat /\ g \in FirstGroup .. MaxGroups - 1
           /\ g \notin delivered /\ g \in Nat
    BY Gathering
  <1>3. T \in Nat /\ g \in DOMAIN samples
    BY <1>2, EntryStepFloor DEF Base, OneHome, Accounted
  <1>4. call.id - T <= MaxDelayStep
    BY DEF DelayBound
  <1>5. CASE ~Early(g, st)
    <2>1. T <= st + MaxPrefetchSteps
      BY <1>1, <1>3, <1>5 DEF Early, None
    <2> HIDE DEF st, T
    <2> QED
      BY <1>1, <1>2, <1>3, <1>4, <2>1 DEF st
  <1>6. CASE Early(g, st)
    <2>1. T = st + MaxPrefetchSteps + 1 /\ Tight(g)
      BY <1>3, <1>6 DEF Stamps
    <2>2. g \in Needed(T)
      BY <1>2, <1>3 DEF Needed
    <2>3. IsFiniteSet(Needed(T)) /\ Cardinality(Needed(T)) <= R * (T + 1 - NextBatch)
      BY <2>1 DEF Tight
    <2>4. Cardinality(Needed(T)) \in Nat /\ Cardinality(Needed(T)) # 0
      BY <2>2, <2>3, FS_EmptySet, FS_CardinalityType
    <2> DEFINE d == T + 1 - NextBatch
    <2>5. d \in Int /\ Cardinality(Needed(T)) <= R * d /\ R * d \in Int /\ R * 0 = 0
      BY <1>2, <1>3, <2>3
    <2> HIDE DEF d
    <2>6. d > 0
      <3>1. d <= 0 => R * d <= R * 0
        BY <2>5, ProductMonotone
      <3> QED
        BY <2>4, <2>5, <3>1
    <2>7. call.id <= T
      BY <1>2, <1>3, <2>5, <2>6 DEF d
    <2> HIDE DEF st, T
    <2> QED
      BY <1>1, <1>2, <1>3, <2>1, <2>7 DEF st
  <1> QED
    BY <1>5, <1>6

\* Off-policyness is bounded: if the engines abort nothing and no task fails, a
\* result is used at most MaxDelayStep + MaxPrefetchSteps rollouts after the one
\* it is stamped with, although an eval moves the rollout id that results are
\* stamped with back by one.
THEOREM BoundedOffPolicy ==
    ASSUME MaxAborts = 0, MaxFaults = 0, StartsInOrder, StartsInWindow
    PROVE  Spec => []OffPolicyBound
  <1>1. ASSUME Init PROVE Published
    <2>1. /\ next_rollout = StartRollout /\ caller = "idle" /\ worker = "off"
          /\ sample_group_index = FirstGroup
      BY <1>1 DEF Init
    <2>2. NextBatch = StartRollout
      BY <2>1, ConstantsAssumption DEF NextBatch, Returned
    <2>3. High = StartRollout
      BY <2>1, <2>2 DEF High, Generating
    <2>4. FirstGroup <= RolloutBatchSize * (StartRollout + MaxPrefetchSteps) + 1
      <3> DEFINE u == RolloutBatchSize * (StartRollout + MaxPrefetchSteps)
      <3>1. FirstGroup <= u /\ u \in Int /\ FirstGroup \in Int
        BY ConstantsAssumption DEF StartsInWindow
      <3> HIDE DEF u
      <3>2. FirstGroup <= u + 1
        BY <3>1
      <3> QED
        BY <3>2 DEF u
    <2> QED
      BY <2>1, <2>3, <2>4 DEF Published
  <1>2. Init => Stamps
    BY DEF Init, Stamps
  <1>3. Base /\ Clock /\ Calls /\ NothingAborted /\ (Fetched /\ PrefetchBound) /\ Published
           /\ [Next]_vars => Published'
    BY NextPublished
  <1>4. Spec => []Published
    BY <1>1, <1>3, InvariantBase, InvariantClock, InvariantCalls, InvariantNothingAborted,
       InvariantPrefetch, PTL DEF Spec
  <1>5. Base /\ Base' /\ Clock /\ Turn /\ Calls /\ Counted /\ NothingAborted /\ NothingLost
           /\ Published /\ Stamps /\ [Next]_vars => Stamps'
    BY NextStamps
  <1>6. Spec => []Stamps
    BY <1>2, <1>4, <1>5, InvariantBase, InvariantClock, InvariantTurn, InvariantCalls,
       InvariantCounted, InvariantNothingAborted, InvariantNothingLost, PTL DEF Spec
  <1> QED
    BY <1>6, StampsSuffice, WithinDelay, CompleteGroups, InvariantBase, InvariantClock,
       InvariantCalls, PTL
=============================================================================
