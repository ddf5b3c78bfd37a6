----------------------------- MODULE TrainClaims -----------------------------
(***************************************************************************)
(* What docs/en/get_started/usage.md says of resuming a job (rollout_id is *)
(* "used to ensure data order when resuming training"), stated of          *)
(* TrainAsync.  Each statement is violated by the code; see the findings.  *)
(***************************************************************************)
EXTENDS TrainAsync

\* A resumed job goes on with the batch that follows those it has learned
\* from: none is passed over.
NothingSkipped ==
    \A i \in DOMAIN Lineage : \A b \in 0 .. Lineage[i] - 1 :
        \E j \in 1 .. i - 1 : Lineage[j] = b

\* A resumed job never trains again on a batch its weights have learned from.
NothingRepeated == IsInjective(Lineage)
=============================================================================
