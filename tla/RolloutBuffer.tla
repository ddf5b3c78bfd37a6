---------------------------- MODULE RolloutBuffer ----------------------------
(***************************************************************************)
(* The rollout buffer plugin (src/slime_plugins/rollout_buffer): workers   *)
(* of a generator answer each prompt N times, pass after pass over the     *)
(* input file; the generator's main loop posts the answers to the buffer   *)
(* server one by one; training's rollout function polls the server, which  *)
(* hands out all full groups at once and forgets them.  Requests and       *)
(* answers of both HTTP connections may be lost.                           *)
(*                                                                         *)
(* An item is known by its place in the order of completion, which is also *)
(* the order of timestamps.  Items in the buffer, in an answer of the      *)
(* server and among the client's results are kept by prompt: groups are    *)
(* all that is ever made of them.                                          *)
(***************************************************************************)
EXTENDS Integers, Sequences, SequencesExt, FiniteSets, FiniteSetsExt, Functions

CONSTANTS
    NumInstances,     \* prompts of the input file
    N,                \* num_repeat_per_sample = n_samples_per_prompt
    BatchSize,        \* rollout_batch_size
    Processes,        \* worker processes
    Retries,          \* fetch_trajectory_retry_times, -1: no limit; one is chosen
    Texts,            \* what an answer may be, of "text", "empty", "none"
    FaultKinds,       \* of "write", "written", "fetch", "fetched"
    MaxTasks,         \* bound: answers to generate
    MaxSpoiled,       \* bound: answers among them that are not "text"
    MaxCalls,         \* bound: calls of generate_rollout
    MaxFaults         \* bound: posts and answers lost

ASSUME SizesAssumption ==
    /\ NumInstances \in Nat \ {0} /\ N \in Nat \ {0} /\ BatchSize \in Nat \ {0}
    /\ Processes \in Nat \ {0} /\ Retries \subseteq Nat \cup {-1}
    /\ MaxTasks \in Nat /\ MaxSpoiled \in Nat /\ MaxCalls \in Nat /\ MaxFaults \in Nat
    /\ Texts \subseteq {"text", "empty", "none"}
    /\ FaultKinds \subseteq {"write", "written", "fetch", "fetched"}

VARIABLES
    retries,          \* argument
    next, working,    \* tasks begun; those the workers are at
    completed,        \* items in order of completion: instance and text
    posted, post,     \* items taken from done_queue; the post under way
    data,             \* BufferQueue.data: per instance, its items
    pc, calls,        \* generate_rollout_async: where it stands; calls so far
    results,          \* per instance, the items fetched
    retry_times,
    answer,           \* per instance, the items popped for an answer
    sample_group_index, \* of the data source: prompts it has handed out
    batches,          \* history: per call, the answered groups it returned ...
    unanswered,       \* ... and the groups of the data set it returned with them
    discarded, lost,  \* history: items not selected, items lost with a message
    reposted,         \* history: items posted again though the server has them
    faults

generator == <<next, working, completed, posted, post>>
client == <<pc, calls, results, retry_times>>
source == <<sample_group_index, batches, unanswered>>
history == <<source, discarded, lost, reposted>>
vars == <<retries, generator, data, client, answer, history, faults>>

Instances == 1..NumInstances
InstanceOf(task) == (((task - 1) \div N) % NumInstances) + 1

Empty == [i \in Instances |-> <<>>]

Init ==
    /\ retries \in Retries
    /\ next = 0 /\ working = {} /\ completed = <<>>
    /\ posted = 0 /\ post = [state |-> "idle", attempt |-> 0]
    /\ data = Empty
    /\ pc = "idle" /\ calls = 0 /\ results = Empty /\ retry_times = 0
    /\ answer = Empty
    /\ sample_group_index = 0 /\ batches = <<>> /\ unanswered = <<>>
    /\ discarded = {} /\ lost = {} /\ reposted = {}
    /\ faults = 0
-----------------------------------------------------------------------------
(***************************************************************************)
(* The generator.                                                          *)
(***************************************************************************)
BeginTask ==
    /\ calls > 0
    /\ next < MaxTasks
    /\ Cardinality(working) < Processes
    /\ next' = next + 1
    /\ working' = working \cup {next'}
    /\ UNCHANGED <<retries, completed, posted, post, data, client, answer, history, faults>>

\* A worker is done; after six failed queries its answer is None.
EndTask(task, text) ==
    /\ task \in working
    /\ text = "text" \/ Cardinality({n \in DOMAIN completed : completed[n].text # "text"}) < MaxSpoiled
    /\ working' = working \ {task}
    /\ completed' = Append(completed, [instance |-> InstanceOf(task), text |-> text])
    /\ UNCHANGED <<retries, next, posted, post, data, client, answer, history, faults>>

\* The main loop posts one item at a time, twice at most.
Post ==
    /\ post.state = "idle"
    /\ posted < Len(completed)
    /\ posted' = posted + 1
    /\ post' = [state |-> "sent", attempt |-> 1]
    /\ UNCHANGED <<retries, next, working, completed, data, client, answer, history, faults>>

Fault(kind) == kind \in FaultKinds /\ faults < MaxFaults /\ faults' = faults + 1

\* The second attempt may fail with the first.
PostFault(kind) == IF post.attempt = 1 THEN Fault(kind)
                                       ELSE kind \in FaultKinds /\ UNCHANGED faults

Again == IF post.attempt < 2 THEN [state |-> "sent", attempt |-> 2]
                             ELSE [state |-> "idle", attempt |-> 0]

\* The request is lost on its way.
PostFails ==
    /\ post.state = "sent"
    /\ PostFault("write")
    /\ post' = Again
    /\ lost' = IF post.attempt < 2 THEN lost ELSE lost \cup {posted}
    /\ UNCHANGED <<retries, next, working, completed, posted, data, client, answer,
                   source, discarded, reposted>>

\* write_to_buffer
Write ==
    /\ post.state = "sent"
    /\ post' = [post EXCEPT !.state = "written"]
    /\ data' = [data EXCEPT ![completed[posted].instance] = Append(@, posted)]
    /\ UNCHANGED <<retries, next, working, completed, posted, client, answer, history, faults>>

Acknowledge ==
    /\ post.state = "written"
    /\ post' = [state |-> "idle", attempt |-> 0]
    /\ UNCHANGED <<retries, next, working, completed, posted, data, client, answer, history, faults>>

\* The acknowledgement is lost: the item is posted again.
AcknowledgeFails ==
    /\ post.state = "written"
    /\ PostFault("written")
    /\ post' = Again
    /\ reposted' = IF post.attempt < 2 THEN reposted \cup {posted} ELSE reposted
    /\ UNCHANGED <<retries, next, working, completed, posted, data, client, answer,
                   source, discarded, lost>>
-----------------------------------------------------------------------------
(***************************************************************************)
(* The server's get_rollout_data and the client's fetching.                *)
(***************************************************************************)
TextOf(item) == completed[item].text

\* Mutant: empty answers count.
Valid_mut(group) == Len(group) >= N
\* is_valid_group
Valid(group) == Cardinality({n \in DOMAIN group : TextOf(group[n]) = "text"}) >= N

\* None has no strip: looking at such an item raises, in every poll.
Poisoned == \E i \in Instances : \E n \in DOMAIN data[i] : TextOf(data[i][n]) = "none"

ValidInstances == {i \in Instances : Valid(data[i])}

Wanted == BatchSize * N
NumResults == SumFunctionOnSet([i \in Instances |-> Len(results[i])], Instances)
Fetching == pc = "fetch" /\ NumResults < Wanted /\ (retries = -1 \/ retry_times < retries)

StartCall ==
    /\ pc = "idle"
    /\ calls < MaxCalls
    /\ pc' = "fetch"
    /\ calls' = calls + 1
    /\ results' = Empty
    /\ retry_times' = 0
    /\ UNCHANGED <<retries, generator, data, answer, history, faults>>

\* Mutant: what was handed out stays in the buffer.
Handed_mut == data
Handed == [i \in Instances |-> IF i \in ValidInstances THEN <<>> ELSE data[i]]

\* BufferQueue.get; without full groups the client polls again.
ServeFetch ==
    /\ Fetching
    /\ ~Poisoned
    /\ ValidInstances # {}
    /\ answer' = [i \in Instances |-> IF i \in ValidInstances THEN data[i] ELSE <<>>]
    /\ data' = Handed
    /\ pc' = "answer"
    /\ UNCHANGED <<retries, generator, calls, results, retry_times, history, faults>>

Receive ==
    /\ pc = "answer"
    /\ pc' = "fetch"
    /\ results' = [i \in Instances |-> results[i] \o answer[i]]
    /\ answer' = Empty
    /\ UNCHANGED <<retries, generator, data, calls, retry_times, history, faults>>

\* The items of the groups in f
Held(f) == UNION {ToSet(f[i]) : i \in DOMAIN f}

Failed == IF retries = -1 THEN retry_times ELSE retry_times + 1

\* The request is lost, or the server raises; without a limit the client tries
\* for ever.
FetchFails ==
    /\ Fetching
    /\ Poisoned \/ "fetch" \in FaultKinds
    /\ retry_times' = Failed
    /\ UNCHANGED <<retries, generator, data, pc, calls, results, answer, history, faults>>

\* The answer is lost with all the groups popped for it.
AnswerLost ==
    /\ pc = "answer"
    /\ Fault("fetched")
    /\ pc' = "fetch"
    /\ retry_times' = Failed
    /\ lost' = lost \cup Held(answer)
    /\ answer' = Empty
    /\ UNCHANGED <<retries, generator, data, calls, results, source, discarded, reposted>>
-----------------------------------------------------------------------------
(***************************************************************************)
(* select_rollout_data, and the groups' way through the data source.       *)
(***************************************************************************)
Found == {i \in Instances : results[i] # <<>>}
Latest(i) == Max(ToSet(results[i]))

\* The newest groups
Selected == {i \in Found : Cardinality({j \in Found : Latest(j) > Latest(i)}) < BatchSize}

\* The assertions of select_rollout_data and of add_samples.
Accepted == \/ Found = {}
            \/ BatchSize < NumResults /\ \A i \in Selected : Len(results[i]) = N

Fetched == pc = "fetch" /\ ~Fetching

\* add_samples puts the answered groups into the data source's buffer, which
\* every call leaves empty; get_samples takes them back and adds, where groups
\* are missing, prompts of the data set that nobody has answered.
ReturnBatch ==
    /\ Fetched
    /\ Accepted
    /\ pc' = "idle"
    /\ batches' = Append(batches, Restrict(results, Selected))
    /\ sample_group_index' = sample_group_index + BatchSize - Cardinality(Selected)
    /\ unanswered' = Append(unanswered, sample_group_index .. sample_group_index' - 1)
    /\ discarded' = discarded \cup Held(Restrict(results, Found \ Selected))
    /\ results' = Empty
    /\ UNCHANGED <<retries, generator, data, calls, retry_times, answer, lost, reposted, faults>>

Raise ==
    /\ Fetched
    /\ ~Accepted
    /\ pc' = "raised"
    /\ UNCHANGED <<retries, generator, data, calls, results, retry_times, answer, history, faults>>

\* The training job is done or has died, or the input file is used up.
Done ==
    /\ \/ pc = "raised" \/ (pc = "idle" /\ calls = MaxCalls)
       \/ next = MaxTasks
    /\ UNCHANGED vars

GeneratorStep == \/ BeginTask \/ Post \/ PostFails \/ Write \/ Acknowledge \/ AcknowledgeFails
                 \/ \E task \in working, text \in Texts : EndTask(task, text)

ClientStep == \/ StartCall \/ ServeFetch \/ Receive \/ FetchFails \/ AnswerLost
              \/ ReturnBatch \/ Raise

Next == GeneratorStep \/ ClientStep \/ Done

Spec == Init /\ [][Next]_vars
-----------------------------------------------------------------------------
Items == 1..Len(completed)

\* Where an item may be: in done_queue, being posted, in the buffer, in an
\* answer of the server, among the client's results, in a batch, not selected,
\* or lost.
Homes == <<(posted + 1)..Len(completed), IF post.state = "sent" THEN {posted} ELSE {},
           Held(data), Held(answer), Held(results), UNION {Held(batches[b]) : b \in DOMAIN batches},
           discarded, lost>>

\* An item that was not posted again stands at one place of the groups of f at most.
AtMostOnce(f) ==
    \A i, j \in DOMAIN f : \A m \in DOMAIN f[i] : \A n \in DOMAIN f[j] :
        f[i][m] = f[j][n] => (i = j /\ m = n) \/ f[i][m] \in reposted

\* An answer that was generated is in one place, once: what the server popped
\* is not handed out again, what it did not pop is not forgotten, an answer is
\* given up only with a lost message or in favour of newer groups.  Only an item
\* whose acknowledgement was lost may be there again
\* (buffer.py:184-206, rollout_buffer_example.py:240-258).
ItemsHaveOneHome ==
    LET homes == Homes
    IN  /\ \A item \in Items : \E h \in DOMAIN homes : item \in homes[h]
        /\ \A g, h \in DOMAIN homes : g # h => homes[g] \cap homes[h] \subseteq reposted
        /\ AtMostOnce(data) /\ AtMostOnce(answer) /\ AtMostOnce(results)
        /\ \A b \in DOMAIN batches : AtMostOnce(batches[b])
        /\ \A b, c \in DOMAIN batches :
            b # c => Held(batches[b]) \cap Held(batches[c]) \subseteq reposted

\* What a call returns is trained on.  It is BatchSize groups.  A group that was
\* fetched holds answers to its prompt, none of them empty and none twice but for
\* a lost acknowledgement.  A prompt without answers is among them only when the
\* retries are used up, never without a limit, and then no group that was
\* fetched has been put aside (base_generator.py:330-350,
\* rollout_buffer_example.py:240-300, data_source.py:177-189).
BatchAnswered ==
    batches' # batches =>
    LET groups == Last(batches')
        missing == Last(unanswered')
    IN  /\ Cardinality(DOMAIN groups) + Cardinality(missing) = BatchSize
        /\ \A i \in DOMAIN groups :
            /\ IsInjective(groups[i]) \/ ToSet(groups[i]) \cap reposted # {}
            /\ \A item \in ToSet(groups[i]) : completed[item] = [instance |-> i, text |-> "text"]
        /\ missing # {} => /\ retries # -1 /\ retry_times >= retries
                          /\ discarded' = discarded

BatchIsAnswered == [][BatchAnswered]_vars

\* Claim (data_source.py:207-209): "the length of the elements of samples must
\* be equal to n_samples_per_prompt".
GroupsFit == pc # "raised"
=============================================================================
