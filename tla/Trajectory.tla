------------------------------ MODULE Trajectory ------------------------------
(***************************************************************************)
(* The trajectory of an agent's session (src/slime/agent/trajectory.py),   *)
(* fed by the adapter (agent/adapters/common.py).  The agent sends chat    *)
(* histories, each answered by the model; every answered turn is hung into *)
(* a tree of messages.  At the end each leaf of the tree becomes one or    *)
(* more samples.  The agent re-renders what it replays: a message may come *)
(* back with another text, and the same text with other tokens.            *)
(*                                                                         *)
(* In place of the loss mask, "trains" holds for each token the turn whose *)
(* response it is trained as, and 0 where the mask is 0.                   *)
(***************************************************************************)
EXTENDS Integers, Sequences, SequencesExt, FiniteSets, FiniteSetsExt

CONSTANTS
    Texts,            \* texts of assistant messages
    Tokenizations,    \* per text, the token sequences it may have
    UserToken,        \* the rendering of any other message
    ForkThresholds,   \* fork_threshold_tokens, one is chosen
    MaxContexts,      \* max_context_tokens, 0: no limit; one is chosen
    MaxTurns,         \* bound: turns of a session
    MaxPrompt         \* bound: messages of a prompt

ASSUME InputsAssumption ==
    /\ Tokenizations \in [Texts -> SUBSET Seq(Int)]
    /\ UserToken \in Int
    /\ ForkThresholds \subseteq Nat /\ MaxContexts \subseteq Nat
    /\ MaxTurns \in Nat /\ MaxPrompt \in Nat

VARIABLES
    fork_threshold, max_context,  \* arguments
    nodes,      \* the tree: parent, message and turn of each node, in order of creation
    turns,      \* TurnRecords, by turn_index
    pc,         \* record, linearise, done
    leaves,     \* leaves still to be linearised
    todo,       \* turns of the chain still to be appended
    builders,   \* _SampleBuilders of the chain
    claimed,    \* turns whose response_trained is set
    samples,    \* the samples so far
    absorbed    \* history: turns merged into a rewrite or realigned away

args == <<fork_threshold, max_context>>
tree == <<nodes, turns>>
chain == <<leaves, todo, builders, claimed, samples>>
vars == <<args, tree, pc, chain, absorbed>>

Root == 0
User == [role |-> "user", text |-> ""]
Assistant(text) == [role |-> "assistant", text |-> text]

Init ==
    /\ fork_threshold \in ForkThresholds
    /\ max_context \in MaxContexts
    /\ nodes = <<>> /\ turns = <<>>
    /\ pc = "record"
    /\ leaves = <<>> /\ todo = <<>> /\ builders = <<>>
    /\ claimed = {} /\ samples = <<>> /\ absorbed = {}
-----------------------------------------------------------------------------
(***************************************************************************)
(* record_turn.                                                            *)
(***************************************************************************)
Children(n) == {c \in DOMAIN nodes : nodes[c].parent = n}

\* path_from_root
Path[n \in Root..Len(nodes)] ==
    IF n = Root THEN <<>> ELSE Append(Path[nodes[n].parent], n)

\* The generated turns on the way to a node.
Generated[n \in Root..Len(nodes)] ==
    IF n = Root THEN <<>>
    ELSE LET above == Generated[nodes[n].parent]
         IN  IF nodes[n].turn = 0 THEN above ELSE Append(above, nodes[n].turn)

\* _find_mount_point: the nodes along which the messages match, the first of
\* several equal children.
Matching(messages) ==
    LET Walk[d \in 0..Len(messages)] ==
            IF d = 0 THEN [node |-> Root, depth |-> 0]
            ELSE LET next == {c \in Children(Walk[d - 1].node) : nodes[c].message = messages[d]}
                 IN  IF Walk[d - 1].depth < d - 1 \/ next = {} THEN Walk[d - 1]
                     ELSE [node |-> Min(next), depth |-> d]
    IN  Walk[Len(messages)]

AssistantChildren(n) == {c \in Children(n) : nodes[c].message.role = "assistant"}

Short(k) == Len(turns[k].output) < fork_threshold

\* _try_merge_assistant_rewrite: the node whose message the prompt rewrites.
Rewritten(messages, mount) ==
    IF /\ fork_threshold > 0
       /\ mount.depth < Len(messages)
       /\ messages[mount.depth + 1].role = "assistant"
       /\ Cardinality(AssistantChildren(mount.node)) = 1
    THEN {c \in AssistantChildren(mount.node) :
              Children(c) = {} /\ nodes[c].turn # 0 /\ Short(nodes[c].turn)}
    ELSE {}

\* The tree with the rest of the prompt mounted under a node and the
\* generated message as a leaf under that.
Mounted(old, node, rest, text) ==
    old \o [i \in 1..Len(rest) + 1 |->
        [parent |-> IF i = 1 THEN node ELSE Len(old) + i - 1,
         message |-> IF i <= Len(rest) THEN rest[i] ELSE Assistant(text),
         turn |-> IF i <= Len(rest) THEN 0 ELSE Len(turns) + 1]]

RecordTurn(messages, prompt, output, text) ==
    /\ turns' = Append(turns, [prompt |-> prompt, output |-> output])
    /\ LET mount == Matching(messages)
           merged == Rewritten(messages, mount)
           node == IF merged = {} THEN mount.node ELSE Min(merged)
           depth == mount.depth + Cardinality(merged)
           demoted == [n \in DOMAIN nodes |->
                         IF n \in merged
                           THEN [nodes[n] EXCEPT !.turn = 0, !.message = messages[depth]]
                           ELSE nodes[n]]
       IN  /\ nodes' = Mounted(demoted, node, SubSeq(messages, depth + 1, Len(messages)), text)
           /\ absorbed' = absorbed \cup {nodes[n].turn : n \in merged}
    /\ UNCHANGED <<args, pc, chain>>
-----------------------------------------------------------------------------
(***************************************************************************)
(* _run_turn: what the agent sends, and what the model answers.            *)
(***************************************************************************)
\* A chat so far, with any of the model's messages re-rendered by the agent.
Replays(n) ==
    LET path == Path[n]
    IN  {h \in [1..Len(path) -> {User} \cup {Assistant(t) : t \in Texts}] :
            \A i \in 1..Len(path) : h[i].role = nodes[path[i]].message.role}

\* A new chat, or one that goes on after an answer.
Prompts ==
    {<<User>>} \cup
    {Append(h, User) : h \in UNION {Replays(n) :
        n \in {m \in DOMAIN nodes : nodes[m].message.role = "assistant"}}}

\* _render_token_ids; the tokens of a text need not be those it was generated as.
Renderings(messages) ==
    LET Ids(m) == IF m.role = "user" THEN {<<UserToken>>} ELSE Tokenizations[m.text]
        Rendered[n \in 0..Len(messages)] ==
            IF n = 0 THEN {<<>>}
            ELSE {p \o ids : p \in Rendered[n - 1], ids \in Ids(messages[n])}
    IN  Rendered[Len(messages)]

\* Mutant: a prompt that fills the context exactly may still be answered.
Fits_mut(prompt, output) ==
    max_context > 0 /\ output # <<>> =>
        Len(prompt) = max_context \/ Len(prompt) + Len(output) <= max_context
\* call_sglang_generate: at most the remaining context is generated, and a
\* prompt without any gets an empty answer.
Fits(prompt, output) ==
    max_context > 0 /\ output # <<>> => Len(prompt) + Len(output) <= max_context

RunTurn ==
    /\ pc = "record"
    /\ Len(turns) < MaxTurns
    /\ \E messages \in {m \in Prompts : Len(m) <= MaxPrompt} :
       \E prompt \in Renderings(messages) :
       \E text \in Texts : \E output \in Tokenizations[text] :
          /\ Fits(prompt, output)
          /\ RecordTurn(messages, prompt, output, text)
-----------------------------------------------------------------------------
(***************************************************************************)
(* get_trajectory.                                                         *)
(***************************************************************************)
\* u comes before v when the children are visited in order.
Before(u, v) ==
    \E i \in DOMAIN Path[u] \cap DOMAIN Path[v] :
        /\ \A j \in 1..i - 1 : Path[u][j] = Path[v][j]
        /\ Path[u][i] < Path[v][i]

Leaves == {n \in DOMAIN nodes : Children(n) = {}}

FinishSession ==
    /\ pc = "record"
    /\ pc' = "linearise"
    /\ \E order \in SetToSeqs(Leaves) :
        /\ \A i, j \in 1..Len(order) : i < j => Before(order[i], order[j])
        /\ leaves' = order
    /\ UNCHANGED <<args, tree, todo, builders, claimed, samples, absorbed>>

Between == pc = "linearise" /\ todo = <<>> /\ builders = <<>>

\* The generated turns on the way to the next leaf.
NextChain ==
    /\ Between
    /\ leaves # <<>>
    /\ leaves' = Tail(leaves)
    /\ todo' = Generated[Head(leaves)]
    /\ UNCHANGED <<args, tree, pc, builders, claimed, samples, absorbed>>

Prompt == turns[Head(todo)].prompt
Output == turns[Head(todo)].output
Builder == Last(builders)

\* Mutant: every leaf trains what it shares.
Trained_mut == Head(todo)
Trained == IF Head(todo) \in claimed THEN 0 ELSE Head(todo)

NewBuilder == [tokens |-> <<>>, trains |-> <<>>, start |-> -1, leading |-> 0]

Masked(n) == [i \in 1..n |-> 0]

\* Mutant: every turn's prompt counts as leading.
Leading_mut(b) == Len(Prompt)
Leading(b) == IF b.start = -1 THEN Len(Prompt) ELSE b.leading

\* The rest of append_turn, once the builder's tokens are those of the prompt.
WithResponse(b, tokens, trains) ==
    [tokens |-> tokens \o Output,
     trains |-> trains \o [i \in 1..Len(Output) |-> Trained],
     start |-> Len(tokens),
     leading |-> Leading(b)]

AppendClean(b) ==
    LET tail == SubSeq(Prompt, Len(b.tokens) + 1, Len(Prompt))
    IN  WithResponse(b, b.tokens \o tail, b.trains \o Masked(Len(tail)))

RealignedTrains(b) == SubSeq(b.trains, 1, b.start) \o Masked(Len(Prompt) - b.start)

\* _align_to_prompt: the last response gives way to what the prompt has there.
AppendRealigned(b) ==
    WithResponse(b, SubSeq(b.tokens, 1, b.start) \o SubSeq(Prompt, b.start + 1, Len(Prompt)),
                 RealignedTrains(b))

\* _common_prefix_len of b's tokens and the prompt is at least n.
Agree(b, n) ==
    /\ n <= Len(b.tokens) /\ n <= Len(Prompt)
    /\ \A i \in 1..n : b.tokens[i] = Prompt[i]

Clean(b) == Agree(b, Len(b.tokens))

\* Mutant: drift anywhere is healed.
Realigns_mut(b) == ~Clean(b) /\ b.start <= Len(Prompt) /\ Len(Output) < fork_threshold
Realigns(b) == ~Clean(b) /\ Agree(b, b.start) /\ Len(Output) < fork_threshold

Appending == pc = "linearise" /\ todo # <<>>

Claim ==
    /\ todo' = Tail(todo)
    /\ claimed' = claimed \cup {Head(todo)}
    /\ UNCHANGED <<args, tree, pc, leaves, samples>>

Fork ==
    /\ Appending
    /\ builders # <<>> => ~Clean(Builder) /\ ~Realigns(Builder)
    /\ builders' = Append(builders, AppendClean(NewBuilder))
    /\ Claim
    /\ UNCHANGED absorbed

Extend ==
    /\ Appending
    /\ builders # <<>>
    /\ Clean(Builder)
    /\ builders' = Append(Front(builders), AppendClean(Builder))
    /\ Claim
    /\ UNCHANGED absorbed

Realign ==
    /\ Appending
    /\ builders # <<>>
    /\ Realigns(Builder)
    /\ builders' = Append(Front(builders), AppendRealigned(Builder))
    /\ absorbed' = absorbed \cup {Builder.trains[i] : i \in Builder.start + 1..Len(Builder.trains)}
    /\ Claim

\* to_sample: truncated to max_context, without the leading prompt's mask.
Sample(b) ==
    LET end == IF max_context > 0 /\ Len(b.tokens) > max_context
                 THEN max_context ELSE Len(b.tokens)
    IN  [tokens |-> SubSeq(b.tokens, 1, end),
         trains |-> SubSeq(b.trains, b.leading + 1, end),
         response_length |-> end - b.leading]

HasTrainedResponse(b) == \E i \in b.leading + 1..Len(b.trains) : b.trains[i] # 0

\* The next builder of the chain, all of whose turns are appended.
Emit ==
    /\ pc = "linearise"
    /\ todo = <<>>
    /\ builders # <<>>
    /\ builders' = Tail(builders)
    /\ samples' = IF HasTrainedResponse(Head(builders))
                    THEN Append(samples, Sample(Head(builders))) ELSE samples
    /\ UNCHANGED <<args, tree, pc, leaves, todo, claimed, absorbed>>

\* The samples are returned and the session forgotten.
Return ==
    /\ Between
    /\ leaves = <<>>
    /\ pc' = "done"
    /\ UNCHANGED <<args, tree, chain, absorbed>>

Done == pc = "done" /\ UNCHANGED vars

Next == RunTurn \/ FinishSession \/ NextChain \/ Fork \/ Extend \/ Realign \/ Emit \/ Return \/ Done

Spec == Init /\ [][Next]_vars
-----------------------------------------------------------------------------
Turn == 1..Len(turns)
NodeType == [parent : Nat, message : {User} \cup {Assistant(t) : t \in Texts}, turn : Nat]
BuilderType == [tokens : Seq(Int), trains : Seq(Nat), start : Nat \cup {-1}, leading : Nat]
SampleType == [tokens : Seq(Int), trains : Seq(Nat), response_length : Int]

\* The variables keep their types, the tree is a tree, and a builder's mask is
\* as long as its tokens.
TypeOK ==
    /\ fork_threshold \in ForkThresholds /\ max_context \in MaxContexts
    /\ nodes \in Seq(NodeType)
    /\ \A n \in DOMAIN nodes : nodes[n].parent < n /\ nodes[n].turn <= Len(turns)
    /\ turns \in Seq([prompt : Seq(Int), output : Seq(Int)])
    /\ pc \in {"record", "linearise", "done"}
    /\ leaves \in Seq(DOMAIN nodes) /\ todo \in Seq(Turn)
    /\ builders \in Seq(BuilderType)
    /\ \A n \in DOMAIN builders : Len(builders[n].trains) = Len(builders[n].tokens)
    /\ claimed \subseteq Turn /\ samples \in Seq(SampleType) /\ absorbed \subseteq Turn \cup {0}

\* Whether the i-th entry of s's loss mask is 1 for turn k.
TrainsTurn(s, k) == \E i \in DOMAIN s.trains : s.trains[i] = k

\* No response is trained by two samples, however many leaves share it
\* (trajectory.py:80-81, 454-457).
TrainedAtMostOnce ==
    \A m, n \in DOMAIN samples : m # n =>
        \A k \in Turn : ~(TrainsTurn(samples[m], k) /\ TrainsTurn(samples[n], k))

Full(k) == turns[k].prompt \o turns[k].output

\* A token is trained only as what the model sampled, after exactly the tokens
\* the model saw: up to it the sample is the turn's prompt and output, whatever
\* was forked, realigned and cut.  The trainer aligns the mask with the end of
\* the tokens (trajectory.py:198-286).
TrainedInContext ==
    \A n \in DOMAIN samples :
        LET s == samples[n]
        IN  \A i \in DOMAIN s.trains : s.trains[i] # 0 =>
                LET k == s.trains[i]
                    p == Len(s.tokens) - Len(s.trains) + i
                IN  /\ Len(turns[k].prompt) < p /\ p <= Len(Full(k))
                    /\ \A q \in 1..p : s.tokens[q] = Full(k)[q]

\* A sample has something to train, its response_length is that of its mask,
\* and it fits the context: the adapter's limit keeps the truncation from
\* cutting into the leading prompt (trajectory.py:260-286, common.py:455-465).
SamplesAreTrainable ==
    \A n \in DOMAIN samples :
        LET s == samples[n]
        IN  /\ s.response_length = Len(s.trains)
            /\ \E i \in DOMAIN s.trains : s.trains[i] # 0
            /\ max_context > 0 => Len(s.tokens) <= max_context

Covered(k) == \E n \in DOMAIN samples :
    Cardinality({i \in DOMAIN samples[n].trains : samples[n].trains[i] = k}) = Len(turns[k].output)

\* Each response is trained to its last token, except those merged into a
\* rewrite and those realigned away by their own sample.
NoResponseDropped == pc = "done" => \A k \in Turn \ absorbed : Covered(k) \/ turns[k].output = <<>>

SharedBy(k) == {n \in Leaves : k \in ToSet(Generated[n])}

\* Claim (trajectory.py:79-81): a response "shared by sibling leaf paths" is
\* trained by the first, "the rest re-emit it as loss_mask=0 context -- so each
\* response is trained exactly once".  Stated for shared responses that some
\* sample carries as the model generated them.
SharedIsTrained ==
    pc = "done" => \A n \in DOMAIN samples : \A k \in Turn :
        /\ Cardinality(SharedBy(k)) > 1
        /\ turns[k].output # <<>>
        /\ IsPrefix(Full(k), samples[n].tokens)
        => \E j \in Turn : Full(j) = Full(k) /\ \E m \in DOMAIN samples : TrainsTurn(samples[m], j)
=============================================================================
