----------------------------- MODULE FifoClaims -----------------------------
(***************************************************************************)
(* What the comments, docstrings and option texts say of the windowed FIFO *)
(* and the code does not do.  Each statement is refuted by a run of its    *)
(* own; README.md tells the story of each counterexample.                  *)
(***************************************************************************)
EXTENDS WindowedFifo

\* "We have n groups - restore inference for next round": when a call has
\* returned, the worker is free to launch.  Case 2 sets pause_new_tasks, sleeps
\* for the expired tasks and, having consumed some, comes back as Case 1, which
\* never resets it.
InferenceRestored == caller = "idle" => ~pause_new_tasks

\* "Monotonically increasing counter tracking the highest entry_step": the
\* worker assigns the entry_step of whatever it launches, so launching an
\* aborted group again moves the counter back.
MaxEntryStepIncreases == [][max_entry_step' >= max_entry_step]_vars

\* "Aborted data is inserted at the head because its entry_step is earlier,
\* ensuring it gets re-dispatched to inference before newer data": the FIFO
\* is in order of entry_step.  Groups put back one after the other at the head
\* come out in reverse.
PendingInOrder ==
    \A i, j \in DOMAIN pending :
       i < j => EntryStep(pending[i]) <= EntryStep(pending[j])

\* "sample groups that have waited this many steps are force-included in the
\* next training batch": no batch is returned with a group that is not expired
\* while an expired one stays behind.  An aborted group waiting in _pending is
\* neither cached nor in flight, and nobody counts it.
ExpiredForceIncluded ==
    [][ delivered' # delivered =>
          \/ \A g \in ToSet(data) : Expired(g)
          \/ \A g \in DOMAIN samples \ ToSet(data) : ~Expired(g) ]_vars

\* "--custom-generate-function-path: (args, sample, sampling_params) -> Sample |
\* list[Sample] ... work unchanged under fully-async": only the group of a task
\* that raised is dropped.
ResultsAreKept ==
    [][ \A g \in lost' \ lost : active[g] = "raised" ]_vars

\* "A smaller value reduces staleness at the cost of potential throughput drops"
\* (--windowed-fifo-max-prefetch-steps), and an aborted group is put back
\* "ensuring it gets re-dispatched": every call returns.  With a window of
\* groups aborted the throttle stays closed on them; with Case 2's pause left
\* on nothing is launched for the calls after it; and a job resumed from a data
\* source that had been read a window ahead launches one group and throttles.
CallsReturn == (caller = "waiting") ~> (caller = "idle")
=============================================================================
