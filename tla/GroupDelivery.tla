---------------------------- MODULE GroupDelivery ----------------------------
(***************************************************************************)
(* What the asynchronous rollout promises to training, whatever happens on *)
(* the way (aborts, requeues, evals, prefetching, pauses): the data source *)
(* hands groups out in order, every batch consists of exactly BatchSize    *)
(* groups that were handed out and used by no earlier batch, each call is  *)
(* answered with one batch, and a group leaves the pipeline in no other    *)
(* way than being delivered or being dropped on the way.                   *)
(***************************************************************************)
EXTENDS Integers, FiniteSets

CONSTANTS BatchSize, First, Limit

VARIABLES
    fetched,      \* the next group to be handed out
    delivered,    \* the groups of the batches so far
    batches,      \* how many batches that is
    lost

vars == <<fetched, delivered, batches, lost>>

Live == (First .. fetched - 1) \ (delivered \cup lost)

Init ==
    /\ fetched = First
    /\ delivered = {}
    /\ batches = 0
    /\ lost = {}

Fetch ==
    /\ \E next \in fetched + 1 .. Limit : fetched' = next
    /\ UNCHANGED <<delivered, batches, lost>>

Deliver ==
    /\ \E batch \in SUBSET Live :
          /\ Cardinality(batch) = BatchSize
          /\ delivered' = delivered \cup batch
    /\ batches' = batches + 1
    /\ UNCHANGED <<fetched, lost>>

Lose ==
    /\ \E gone \in SUBSET Live : lost' = lost \cup gone
    /\ UNCHANGED <<fetched, delivered, batches>>

Next == Fetch \/ Deliver \/ Lose

Spec == Init /\ [][Next]_vars
=============================================================================
