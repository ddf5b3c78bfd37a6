----------------------------- MODULE FifoHistory -----------------------------
(***************************************************************************)
(* WindowedFifo with a history variable: the rollout id that was current   *)
(* when a group's inference task ended, which the program does not record. *)
(***************************************************************************)
EXTENDS WindowedFifo

VARIABLE finished_in    \* group -> current_rollout_id when its task returned

historySpecVars == <<vars, finished_in>>

InitHistory == Init /\ finished_in = [g \in {} |-> None]

NextHistory ==
    /\ Next
    /\ finished_in' =
         [g \in DOMAIN samples' |->
            IF g \in DOMAIN active /\ active[g] = "running"
                 /\ g \in DOMAIN active' /\ active'[g] = "returned"
              THEN current_rollout_id
            ELSE IF g \in DOMAIN finished_in THEN finished_in[g] ELSE None]

SpecHistory == InitHistory /\ [][NextHistory]_historySpecVars

\* "completed_step records the training step at which the inference task
\* completed.  This is used to compute off_step".  The stamp is taken when the
\* worker's next pass finds the task done, up to a second later and possibly
\* after the next rollout has begun, so off_step comes out too small.
StampIsFinishStep ==
    \A g \in ToSet(output_queue) : \A s \in SampleIds :
       samples[g][s].status = "completed" =>
          samples[g][s].completed_step = finished_in[g]
=============================================================================
