--------------------------- MODULE TrajectoryProofs ---------------------------
(***************************************************************************)
(* What a session's samples train: proofs about Trajectory.                *)
(***************************************************************************)
EXTENDS Trajectory, Lemmas

Message == {User} \cup {Assistant(t) : t \in Texts}

-----------------------------------------------------------------------------
(***************************************************************************)
(* The invariant.                                                          *)
(***************************************************************************)
\* Where a mask trains a turn, at an offset to the tokens, the tokens so far are
\* the turn's prompt and output, and the whole output is trained.
Carries(tokens, trains, offset) ==
    \A i \in DOMAIN trains : trains[i] # 0 =>
        LET k == trains[i]
        IN  /\ k \in Turn
            /\ offset + i \in Len(turns[k].prompt) + 1 .. Len(Full(k))
            /\ \A q \in 1 .. offset + i : tokens[q] = Full(k)[q]
            /\ \A q \in Len(turns[k].prompt) + 1 .. Len(Full(k)) :
                  q - offset \in DOMAIN trains /\ trains[q - offset] = k

\* A builder's last response begins at start; that of a trained turn is whole.
BuilderInv(b) ==
    /\ b \in BuilderType
    /\ Len(b.trains) = Len(b.tokens)
    /\ b.start \in 0 .. Len(b.tokens)
    /\ b.leading <= b.start
    /\ Carries(b.tokens, b.trains, 0)
    /\ \A i \in DOMAIN b.trains : b.trains[i] # 0 => b.leading < i
    /\ \A i \in b.start + 1 .. Len(b.trains) :
          b.trains[i] # 0 => b.start = Len(turns[b.trains[i]].prompt)

SampleInv(s) ==
    /\ s \in SampleType
    /\ Len(s.trains) <= Len(s.tokens)
    /\ s.response_length = Len(s.trains)
    /\ \E i \in DOMAIN s.trains : s.trains[i] # 0
    /\ max_context > 0 => Len(s.tokens) <= max_context
    /\ Carries(s.tokens, s.trains, Len(s.tokens) - Len(s.trains))

Apart(x, y) == \A k \in Turn : ~(TrainsTurn(x, k) /\ TrainsTurn(y, k))

Claimed(x) == \A k \in Turn : TrainsTurn(x, k) => k \in claimed

\* A turn is trained by one builder or sample, and only once claimed.
OnceInv ==
    /\ \A n \in DOMAIN builders : Claimed(builders[n])
    /\ \A n \in DOMAIN samples : Claimed(samples[n])
    /\ \A m, n \in DOMAIN builders : m # n => Apart(builders[m], builders[n])
    /\ \A m, n \in DOMAIN samples : m # n => Apart(samples[m], samples[n])
    /\ \A m \in DOMAIN builders, n \in DOMAIN samples : Apart(builders[m], samples[n])

PhaseInv ==
    /\ pc = "record" => /\ leaves = <<>> /\ todo = <<>> /\ builders = <<>>
                        /\ samples = <<>> /\ claimed = {}
    /\ pc = "done" => leaves = <<>> /\ todo = <<>> /\ builders = <<>>

\* A response never exceeds the context its prompt leaves.
FitsInv == \A k \in Turn : Fits(turns[k].prompt, turns[k].output)

\* A turn is in the tree until it is absorbed.
NodeInv == \A k \in Turn \ absorbed : \E n \in DOMAIN nodes : nodes[n].turn = k

\* A turn is claimed, in the chain, or on the way to a leaf still to come.
PendingInv ==
    pc # "record" => \A k \in Turn \ absorbed :
        \/ k \in claimed
        \/ k \in ToSet(todo)
        \/ \E i \in DOMAIN leaves : k \in ToSet(Generated[leaves[i]])

Carried(k) ==
    \/ \E n \in DOMAIN builders : TrainsTurn(builders[n], k)
    \/ \E n \in DOMAIN samples : TrainsTurn(samples[n], k)

\* A claimed response is in a builder or a sample.
CarriedInv == \A k \in claimed \ absorbed : turns[k].output = <<>> \/ Carried(k)

BuildersInv == \A n \in DOMAIN builders : BuilderInv(builders[n])

SamplesInv == \A n \in DOMAIN samples : SampleInv(samples[n])

IInv ==
    /\ TypeOK /\ PhaseInv /\ FitsInv /\ NodeInv /\ PendingInv
    /\ BuildersInv /\ SamplesInv /\ OnceInv /\ CarriedInv

-----------------------------------------------------------------------------
(***************************************************************************)
(* The recursive functions of the tree.                                    *)
(***************************************************************************)
\* The parent of a node is an earlier one.
LEMMA Parents ==
    ASSUME TypeOK
    PROVE  /\ Len(nodes) \in Nat /\ Len(turns) \in Nat
           /\ DOMAIN nodes = 1 .. Len(nodes)
           /\ \A n \in 1 .. Len(nodes) :
                 /\ nodes[n] \in NodeType
                 /\ nodes[n].parent \in Nat /\ nodes[n].parent < n
                 /\ nodes[n].turn \in Nat /\ nodes[n].turn <= Len(turns)
  <1>1. \A x \in NodeType : x.parent \in Nat /\ x.turn \in Nat
    BY DEF NodeType
  <1>2. nodes \in Seq(NodeType)
    BY DEF TypeOK
  <1>3. \A n \in DOMAIN nodes : nodes[n].parent < n /\ nodes[n].turn <= Len(turns)
    BY DEF TypeOK
  <1>4. Len(turns) \in Nat
    BY DEF TypeOK
  <1> QED
    BY ONLY <1>1, <1>2, <1>3, <1>4

\* A path is the parent's path and the node.
LEMMA PathFacts ==
    ASSUME TypeOK
    PROVE  /\ Path \in [0 .. Len(nodes) -> Seq(Nat)]
           /\ Path[0] = <<>>
           /\ \A n \in 1 .. Len(nodes) : Path[n] = Append(Path[nodes[n].parent], n)
  <1> DEFINE N == Len(nodes)
             V == Seq(Nat)
             base == <<>>
             below == [n \in 1 .. N |-> nodes[n].parent]
             Value(f, n) == Append(f[nodes[n].parent], n)
             step == [n \in 1 .. N |-> [v \in V |-> Append(v, n)]]
             Solves(f) == f = [n \in 0 .. N |-> IF n = 0 THEN base ELSE Value(f, n)]
  <1>1. N \in Nat
    BY Parents
  <1>2. \A n \in 1 .. N : below[n] = nodes[n].parent /\ below[n] \in 0 .. N
    BY Parents
  <1>3. Below(below, N)
    BY Parents DEF Below
  <1>4. base \in V
    OBVIOUS
  <1>5. step \in [1 .. N -> [V -> V]]
    OBVIOUS
  <1>6. Path = CHOOSE g : Solves(g)
    BY DEF Path, Root
  <1>7. \A f \in [0 .. N -> V] : \A n \in 1 .. N : step[n][f[below[n]]] = Value(f, n)
    <2> SUFFICES ASSUME NEW f \in [0 .. N -> V], NEW n \in 1 .. N
                 PROVE  step[n][f[below[n]]] = Value(f, n)
      OBVIOUS
    <2>1. below[n] = nodes[n].parent /\ below[n] \in 0 .. N
      BY <1>2
    <2>2. f[below[n]] \in V
      BY <2>1
    <2> QED
      BY <2>1, <2>2
  <1>8. ASSUME NEW f, NEW g, NEW n \in 1 .. N, f[below[n]] = g[below[n]]
        PROVE  Value(f, n) = Value(g, n)
    BY <1>2, <1>8
  <1> HIDE DEF N, V, base, below, Value, step
  <1>9. PICK f \in [0 .. N -> V] : Recursive(f, N, base, below, step)
    BY <1>1, <1>3, <1>4, <1>5, Recursion, Zenon
  <1>10. Solves(f)
    <2>1. \A n \in 1 .. N : f[n] = step[n][f[below[n]]]
      BY <1>1, <1>9 DEF Recursive
    <2>2. \A n \in 1 .. N : f[n] = Value(f, n)
      BY <2>1, <1>7
    <2>3. f[0] = base
      BY <1>1, <1>9 DEF Recursive
    <2>4. f = [n \in 0 .. N |-> f[n]]
      BY <1>9
    <2> QED
      BY <1>1, <2>2, <2>3, <2>4
  <1>11. Solves(Path)
    <2> HIDE DEF Solves
    <2> QED  BY <1>6, <1>10
  <1>12. Path = f
    <2>1. Agrees(Path, f, N, below)
      <3> SUFFICES ASSUME NEW n \in 1 .. N, Path[below[n]] = f[below[n]]
                   PROVE  Path[n] = f[n]
        BY DEF Agrees
      <3>1. Value(Path, n) = Value(f, n)
        BY <1>8
      <3>2. n \in 0 .. N /\ n # 0
        BY <1>1
      <3>3. f[n] = Value(f, n)
        BY <1>10, <3>2, Zenon
      <3>4. Path[n] = Value(Path, n)
        BY <1>11, <3>2, Zenon
      <3> QED
        BY <3>1, <3>3, <3>4
    <2>2. Path[0] = f[0]
      BY <1>1, <1>10, <1>11
    <2>3. \A n \in 0 .. N : Path[n] = f[n]
      <3> HIDE DEF Solves
      <3> QED  BY <2>1, <2>2, <1>1, <1>3, SameRecursion, Zenon
    <2>4. Path = [n \in 0 .. N |-> Path[n]] /\ f = [n \in 0 .. N |-> f[n]]
      BY <1>1, <1>10, <1>11
    <2> QED
      BY <2>3, <2>4
  <1>13. Path[0] = base
    BY <1>1, <1>11
  <1>14. \A n \in 1 .. N : Path[n] = Value(Path, n)
    BY <1>1, <1>11
  <1> QED
    BY <1>12, <1>13, <1>14 DEF N, V, base, Value

\* The generated turns on the way to a node are those on the way to its parent
\* and its own.
LEMMA GeneratedFacts ==
    ASSUME TypeOK
    PROVE  /\ Generated \in [0 .. Len(nodes) -> Seq(Turn)]
           /\ Generated[0] = <<>>
           /\ \A n \in 1 .. Len(nodes) :
                 LET above == Generated[nodes[n].parent]
                 IN  Generated[n] = IF nodes[n].turn = 0 THEN above
                                    ELSE Append(above, nodes[n].turn)
  <1> DEFINE N == Len(nodes)
             V == Seq(Turn)
             base == <<>>
             below == [n \in 1 .. N |-> nodes[n].parent]
             Value(f, n) == LET above == f[nodes[n].parent]
                            IN  IF nodes[n].turn = 0 THEN above
                                ELSE Append(above, nodes[n].turn)
             step == [n \in 1 .. N |-> [v \in V |-> IF nodes[n].turn = 0 THEN v
                                                       ELSE Append(v, nodes[n].turn)]]
             Solves(f) == f = [n \in 0 .. N |-> IF n = 0 THEN base ELSE Value(f, n)]
  <1>1. N \in Nat
    BY Parents
  <1>2. \A n \in 1 .. N : below[n] = nodes[n].parent /\ below[n] \in 0 .. N
    BY Parents
  <1>3. Below(below, N)
    BY Parents DEF Below
  <1>4. base \in V
    OBVIOUS
  <1>5. step \in [1 .. N -> [V -> V]]
    <2> SUFFICES ASSUME NEW n \in 1 .. N, NEW v \in V
                 PROVE  (IF nodes[n].turn = 0 THEN v ELSE Append(v, nodes[n].turn)) \in V
      OBVIOUS
    <2>1. nodes[n].turn # 0 => nodes[n].turn \in Turn
      BY Parents DEF Turn
    <2> QED
      BY <2>1
  <1>6. Generated = CHOOSE g : Solves(g)
    BY DEF Generated, Root
  <1>7. \A f \in [0 .. N -> V] : \A n \in 1 .. N : step[n][f[below[n]]] = Value(f, n)
    <2> SUFFICES ASSUME NEW f \in [0 .. N -> V], NEW n \in 1 .. N
                 PROVE  step[n][f[below[n]]] = Value(f, n)
      OBVIOUS
    <2>1. below[n] = nodes[n].parent /\ below[n] \in 0 .. N
      BY <1>2
    <2>2. f[below[n]] \in V
      BY <2>1
    <2> QED
      BY <2>1, <2>2
  <1>8. ASSUME NEW f, NEW g, NEW n \in 1 .. N, f[below[n]] = g[below[n]]
        PROVE  Value(f, n) = Value(g, n)
    BY <1>2, <1>8
  <1> HIDE DEF N, V, base, below, Value, step
  <1>9. PICK f \in [0 .. N -> V] : Recursive(f, N, base, below, step)
    BY <1>1, <1>3, <1>4, <1>5, Recursion, Zenon
  <1>10. Solves(f)
    <2>1. \A n \in 1 .. N : f[n] = step[n][f[below[n]]]
      BY <1>1, <1>9 DEF Recursive
    <2>2. \A n \in 1 .. N : f[n] = Value(f, n)
      BY <2>1, <1>7
    <2>3. f[0] = base
      BY <1>1, <1>9 DEF Recursive
    <2>4. f = [n \in 0 .. N |-> f[n]]
      BY <1>9
    <2> QED
      BY <1>1, <2>2, <2>3, <2>4
  <1>11. Solves(Generated)
    <2> HIDE DEF Solves
    <2> QED  BY <1>6, <1>10
  <1>12. Generated = f
    <2>1. Agrees(Generated, f, N, below)
      <3> SUFFICES ASSUME NEW n \in 1 .. N, Generated[below[n]] = f[below[n]]
                   PROVE  Generated[n] = f[n]
        BY DEF Agrees
      <3>1. Value(Generated, n) = Value(f, n)
        BY <1>8
      <3>2. n \in 0 .. N /\ n # 0
        BY <1>1
      <3>3. f[n] = Value(f, n)
        BY <1>10, <3>2, Zenon
      <3>4. Generated[n] = Value(Generated, n)
        BY <1>11, <3>2, Zenon
      <3> QED
        BY <3>1, <3>3, <3>4
    <2>2. Generated[0] = f[0]
      BY <1>1, <1>10, <1>11
    <2>3. \A n \in 0 .. N : Generated[n] = f[n]
      <3> HIDE DEF Solves
      <3> QED  BY <2>1, <2>2, <1>1, <1>3, SameRecursion, Zenon
    <2>4. Generated = [n \in 0 .. N |-> Generated[n]] /\ f = [n \in 0 .. N |-> f[n]]
      BY <1>1, <1>10, <1>11
    <2> QED
      BY <2>3, <2>4
  <1>13. Generated[0] = base
    BY <1>1, <1>11
  <1>14. \A n \in 1 .. N : Generated[n] = Value(Generated, n)
    BY <1>1, <1>11
  <1> QED
    BY <1>12, <1>13, <1>14 DEF N, V, base, Value

\* The mount point is a node or the root, at a depth the messages have.
LEMMA MatchingType ==
    ASSUME TypeOK, NEW messages \in Seq(Message)
    PROVE  Matching(messages) \in [node : 0 .. Len(nodes), depth : 0 .. Len(messages)]
  <1> DEFINE N == Len(messages)
             V == [node : 0 .. Len(nodes), depth : 0 .. Len(messages)]
             base == [node |-> 0, depth |-> 0]
             below == [n \in 1 .. N |-> n - 1]
             Found(v, n) ==
                 LET next == {c \in Children(v.node) : nodes[c].message = messages[n]}
                 IN  IF v.depth < n - 1 \/ next = {} THEN v
                     ELSE [node |-> Min(next), depth |-> n]
             Value(f, n) == Found(f[n - 1], n)
             step == [n \in 1 .. N |-> [v \in V |-> Found(v, n)]]
             Solves(f) == f = [n \in 0 .. N |-> IF n = 0 THEN base ELSE Value(f, n)]
  <1>1. N \in Nat
    OBVIOUS
  <1>2. \A n \in 1 .. N : below[n] = n - 1 /\ below[n] \in 0 .. N
    OBVIOUS
  <1>3. Below(below, N)
    BY DEF Below
  <1>4. base \in V
    BY Parents
  <1>5. step \in [1 .. N -> [V -> V]]
    <2> SUFFICES ASSUME NEW n \in 1 .. N, NEW v \in V
                 PROVE  Found(v, n) \in V
      OBVIOUS
    <2> DEFINE next == {c \in Children(v.node) : nodes[c].message = messages[n]}
    <2>1. next # {} => Min(next) \in 0 .. Len(nodes)
      <3>a. Children(v.node) \subseteq 1 .. Len(nodes)
        <4> HIDE DEF V, step, Found
        <4> QED  BY Parents DEF Children
      <3>1. next \subseteq 1 .. Len(nodes)
        BY <3>a
      <3>2. Len(nodes) \in Nat
        BY Parents
      <3> HIDE DEF next, V, step, Found
      <3>3. next \subseteq Nat
        BY ONLY <3>1, <3>2
      <3>4. next # {} => Min(next) \in next
        BY ONLY <3>3, LeastNatural
      <3>5. \A x \in next : x \in 0 .. Len(nodes)
        BY ONLY <3>1, <3>2
      <3> QED
        BY ONLY <3>4, <3>5, Zenon
    <2> QED
      BY <2>1
  <1> DEFINE Walk == CHOOSE g : Solves(g)
  <1>6. Matching(messages) = Walk[Len(messages)]
    BY DEF Matching, Root
  <1> HIDE DEF Found
  <1>7. \A f \in [0 .. N -> V] : \A n \in 1 .. N : step[n][f[below[n]]] = Value(f, n)
    <2> SUFFICES ASSUME NEW f \in [0 .. N -> V], NEW n \in 1 .. N
                 PROVE  step[n][f[below[n]]] = Value(f, n)
      OBVIOUS
    <2>1. below[n] = n - 1 /\ below[n] \in 0 .. N
      BY <1>2
    <2>2. f[below[n]] \in V
      BY <2>1
    <2> QED
      BY <2>1, <2>2
  <1>8. ASSUME NEW f, NEW g, NEW n \in 1 .. N, f[below[n]] = g[below[n]]
        PROVE  Value(f, n) = Value(g, n)
    BY <1>2, <1>8
  <1> HIDE DEF N, V, base, below, Value, step, Walk
  <1>9. PICK f \in [0 .. N -> V] : Recursive(f, N, base, below, step)
    BY <1>1, <1>3, <1>4, <1>5, Recursion, Zenon
  <1>10. Solves(f)
    <2>1. \A n \in 1 .. N : f[n] = step[n][f[below[n]]]
      BY <1>1, <1>9 DEF Recursive
    <2>2. \A n \in 1 .. N : f[n] = Value(f, n)
      BY <2>1, <1>7
    <2>3. f[0] = base
      BY <1>1, <1>9 DEF Recursive
    <2>4. f = [n \in 0 .. N |-> f[n]]
      BY <1>9
    <2> QED
      BY <1>1, <2>2, <2>3, <2>4
  <1>11. Solves(Walk)
    <2> HIDE DEF Solves
    <2> QED  BY <1>10 DEF Walk
  <1>12. Walk = f
    <2>1. Agrees(Walk, f, N, below)
      <3> SUFFICES ASSUME NEW n \in 1 .. N, Walk[below[n]] = f[below[n]]
                   PROVE  Walk[n] = f[n]
        BY DEF Agrees
      <3>1. Value(Walk, n) = Value(f, n)
        BY <1>8
      <3>2. n \in 0 .. N /\ n # 0
        BY <1>1
      <3>3. f[n] = Value(f, n)
        BY <1>10, <3>2, Zenon
      <3>4. Walk[n] = Value(Walk, n)
        BY <1>11, <3>2, Zenon
      <3> QED
        BY <3>1, <3>3, <3>4
    <2>2. Walk[0] = f[0]
      BY <1>1, <1>10, <1>11
    <2>3. \A n \in 0 .. N : Walk[n] = f[n]
      <3> HIDE DEF Solves
      <3> QED  BY <2>1, <2>2, <1>1, <1>3, SameRecursion, Zenon
    <2>4. Walk = [n \in 0 .. N |-> Walk[n]] /\ f = [n \in 0 .. N |-> f[n]]
      BY <1>1, <1>10, <1>11
    <2> QED
      BY <2>3, <2>4
  <1>13. Walk[N] \in V
    BY <1>1, <1>12
  <1> QED
    BY <1>6, <1>13 DEF N, V

Concats(v, I) == {p \o ids : p \in v, ids \in I}

LEMMA Concatenations ==
    ASSUME NEW v, NEW I, \A p \in v : \A ids \in I : p \o ids \in Seq(Int)
    PROVE  Concats(v, I) \subseteq Seq(Int)
  <1>1. \A x \in Concats(v, I) : \E p \in v : \E ids \in I : x = p \o ids
    BY DEF Concats
  <1> QED
    BY <1>1

\* A rendering is a sequence of tokens.
LEMMA RenderingsType ==
    ASSUME InputsAssumption, NEW messages \in Seq(Message)
    PROVE  Renderings(messages) \subseteq Seq(Int)
  <1> DEFINE N == Len(messages)
             V == SUBSET Seq(Int)
             base == {<<>>}
             below == [n \in 1 .. N |-> n - 1]
             Ids(m) == IF m.role = "user" THEN {<<UserToken>>} ELSE Tokenizations[m.text]
             Longer(v, n) == Concats(v, Ids(messages[n]))
             Value(f, n) == Longer(f[n - 1], n)
             step == [n \in 1 .. N |-> [v \in V |-> Longer(v, n)]]
             Solves(f) == f = [n \in 0 .. N |-> IF n = 0 THEN base ELSE Value(f, n)]
  <1>1. N \in Nat
    OBVIOUS
  <1>2. \A n \in 1 .. N : below[n] = n - 1 /\ below[n] \in 0 .. N
    OBVIOUS
  <1>3. Below(below, N)
    BY DEF Below
  <1>4. base \in V
    OBVIOUS
  <1>5. step \in [1 .. N -> [V -> V]]
    <2>1. ASSUME NEW m \in Message, NEW ids \in Ids(m)
          PROVE  ids \in Seq(Int)
      <3>1. CASE m = User
        <4>1. Ids(m) = {<<UserToken>>}
          BY <3>1 DEF User
        <4>2. UserToken \in Int
          BY DEF InputsAssumption
        <4>3. ids = <<UserToken>>
          BY <4>1
        <4> QED
          BY <4>2, <4>3
      <3>2. CASE \E text \in Texts : m = Assistant(text)
        <4>1. PICK text \in Texts : m = Assistant(text)
          BY <3>2
        <4>2. Ids(m) = Tokenizations[text]
          BY <4>1 DEF Assistant
        <4> QED
          BY <4>2, <2>1 DEF InputsAssumption
      <3> QED
        BY <3>1, <3>2 DEF Message
    <2> HIDE DEF Ids
    <2>2. ASSUME NEW n \in 1 .. N, NEW v \in V
          PROVE  Longer(v, n) \in V
      <3>1. messages[n] \in Message
        OBVIOUS
      <3>2. \A p \in v : \A ids \in Ids(messages[n]) : p \o ids \in Seq(Int)
        <4> SUFFICES ASSUME NEW p \in v, NEW ids \in Ids(messages[n])
                     PROVE  p \o ids \in Seq(Int)
          OBVIOUS
        <4>1. p \in Seq(Int) /\ ids \in Seq(Int)
          BY <2>1, <3>1
        <4>2. p \o ids \in Seq(Int)
          BY ONLY <4>1, ConcatProperties, Zenon
        <4> QED
          BY ONLY <4>2
      <3>3. Longer(v, n) \subseteq Seq(Int)
        BY ONLY <3>2, Concatenations
      <3> QED
        BY ONLY <3>3
    <2> HIDE DEF Longer, V
    <2> QED
      BY <2>2
  <1> DEFINE Rendered == CHOOSE g : Solves(g)
  <1>6. Renderings(messages) = Rendered[Len(messages)]
    BY DEF Renderings, Concats
  <1> HIDE DEF Longer
  <1>7. \A f \in [0 .. N -> V] : \A n \in 1 .. N : step[n][f[below[n]]] = Value(f, n)
    <2> SUFFICES ASSUME NEW f \in [0 .. N -> V], NEW n \in 1 .. N
                 PROVE  step[n][f[below[n]]] = Value(f, n)
      OBVIOUS
    <2>1. below[n] = n - 1 /\ below[n] \in 0 .. N
      BY <1>2
    <2>2. f[below[n]] \in V
      BY <2>1
    <2> QED
      BY <2>1, <2>2
  <1>8. ASSUME NEW f, NEW g, NEW n \in 1 .. N, f[below[n]] = g[below[n]]
        PROVE  Value(f, n) = Value(g, n)
    BY <1>2, <1>8
  <1> HIDE DEF N, V, base, below, Value, step, Rendered
  <1>9. PICK f \in [0 .. N -> V] : Recursive(f, N, base, below, step)
    BY <1>1, <1>3, <1>4, <1>5, Recursion, Zenon
  <1>10. Solves(f)
    <2>1. \A n \in 1 .. N : f[n] = step[n][f[below[n]]]
      BY <1>1, <1>9 DEF Recursive
    <2>2. \A n \in 1 .. N : f[n] = Value(f, n)
      BY <2>1, <1>7
    <2>3. f[0] = base
      BY <1>1, <1>9 DEF Recursive
    <2>4. f = [n \in 0 .. N |-> f[n]]
      BY <1>9
    <2> QED
      BY <1>1, <2>2, <2>3, <2>4
  <1>11. Solves(Rendered)
    <2> HIDE DEF Solves
    <2> QED  BY <1>10 DEF Rendered
  <1>12. Rendered = f
    <2>1. Agrees(Rendered, f, N, below)
      <3> SUFFICES ASSUME NEW n \in 1 .. N, Rendered[below[n]] = f[below[n]]
                   PROVE  Rendered[n] = f[n]
        BY DEF Agrees
      <3>1. Value(Rendered, n) = Value(f, n)
        BY <1>8
      <3>2. n \in 0 .. N /\ n # 0
        BY <1>1
      <3>3. f[n] = Value(f, n)
        BY <1>10, <3>2, Zenon
      <3>4. Rendered[n] = Value(Rendered, n)
        BY <1>11, <3>2, Zenon
      <3> QED
        BY <3>1, <3>3, <3>4
    <2>2. Rendered[0] = f[0]
      BY <1>1, <1>10, <1>11
    <2>3. \A n \in 0 .. N : Rendered[n] = f[n]
      <3> HIDE DEF Solves
      <3>1. Rendered[0] = f[0]
        BY <2>2
      <3>2. Agrees(Rendered, f, N, below)
        BY <2>1
      <3> HIDE DEF Rendered, Ids
      <3> QED  BY ONLY <3>1, <3>2, <1>1, <1>3, SameRecursion, Zenon
    <2>4. Rendered = [n \in 0 .. N |-> Rendered[n]] /\ f = [n \in 0 .. N |-> f[n]]
      BY <1>1, <1>10, <1>11
    <2> QED
      BY <2>3, <2>4
  <1>13. Rendered[N] \in V
    BY <1>1, <1>12
  <1> QED
    BY <1>6, <1>13 DEF N, V

-----------------------------------------------------------------------------
(***************************************************************************)
(* A turn is recorded.                                                     *)
(***************************************************************************)
\* A prompt is a sequence of messages.
LEMMA PromptsType ==
    ASSUME TypeOK
    PROVE  Prompts \subseteq Seq(Message)
  <1>1. User \in Message
    BY DEF Message
  <1>2. ASSUME NEW n \in DOMAIN nodes, NEW h \in Replays(n)
        PROVE  h \in Seq(Message)
    <2>1. n \in 0 .. Len(nodes)
      BY Parents
    <2>2. Path[n] \in Seq(Nat)
      BY PathFacts, <2>1
    <2>3. Len(Path[n]) \in Nat
      BY <2>2
    <2>4. h \in [1 .. Len(Path[n]) -> Message]
      BY DEF Replays, Message
    <2> QED
      BY <2>3, <2>4
  <1>3. <<User>> \in Seq(Message)
    BY <1>1
  <1>4. ASSUME NEW n \in DOMAIN nodes, NEW h \in Replays(n)
        PROVE  Append(h, User) \in Seq(Message)
    BY <1>1, <1>2
  <1>5. ASSUME NEW x \in Prompts
        PROVE  x = <<User>> \/ \E n \in DOMAIN nodes : \E h \in Replays(n) : x = Append(h, User)
    BY DEF Prompts
  <1> QED
    BY <1>3, <1>4, <1>5

\* At most one node is rewritten, by the message after the mount point.
LEMMA RewrittenFacts ==
    ASSUME TypeOK, NEW messages \in Seq(Message),
           NEW mount \in [node : 0 .. Len(nodes), depth : 0 .. Len(messages)],
           Rewritten(messages, mount) # {}
    PROVE  /\ mount.depth < Len(messages)
           /\ \E c \in DOMAIN nodes : Rewritten(messages, mount) = {c}
  <1>1. /\ mount.depth < Len(messages)
        /\ Cardinality(AssistantChildren(mount.node)) = 1
        /\ Rewritten(messages, mount) \subseteq AssistantChildren(mount.node)
    BY DEF Rewritten
  <1>2. AssistantChildren(mount.node) \subseteq 1 .. Len(nodes)
    BY Parents DEF AssistantChildren, Children
  <1>3. IsFiniteSet(1 .. Len(nodes))
    BY Parents, FS_Interval
  <1>4. IsFiniteSet(AssistantChildren(mount.node))
    BY <1>2, <1>3, FS_Subset
  <1>5. PICK c : AssistantChildren(mount.node) = {c}
    BY <1>1, <1>4, FS_Singleton
  <1>6. c \in DOMAIN nodes
    BY <1>2, <1>5, Parents
  <1> QED
    BY <1>1, <1>5, <1>6

\* The new nodes come after the old ones, each under an earlier one.
LEMMA MountedFacts ==
    ASSUME NEW old \in Seq(NodeType), NEW node \in 0 .. Len(old),
           NEW rest \in Seq(Message), NEW text \in Texts, Len(turns) \in Nat
    PROVE  LET new == Mounted(old, node, rest, text) IN
           /\ new \in Seq(NodeType)
           /\ Len(new) = Len(old) + Len(rest) + 1
           /\ \A n \in 1 .. Len(old) : new[n] = old[n]
           /\ \A n \in Len(old) + 1 .. Len(new) :
                 new[n].parent < n /\ new[n].turn <= Len(turns) + 1
           /\ new[Len(new)].turn = Len(turns) + 1
  <1> DEFINE added == [i \in 1 .. Len(rest) + 1 |->
        [parent |-> IF i = 1 THEN node ELSE Len(old) + i - 1,
         message |-> IF i <= Len(rest) THEN rest[i] ELSE Assistant(text),
         turn |-> IF i <= Len(rest) THEN 0 ELSE Len(turns) + 1]]
             new == Mounted(old, node, rest, text)
  <1>1. Len(old) \in Nat
    OBVIOUS
  <1>2. Len(rest) \in Nat
    OBVIOUS
  <1>3. Assistant(text) \in Message
    BY DEF Message
  <1>4. ASSUME NEW i \in 1 .. Len(rest) + 1
        PROVE  added[i] \in NodeType
    <2>1. (IF i <= Len(rest) THEN rest[i] ELSE Assistant(text)) \in Message
      BY <1>2, <1>3
    <2>2. (IF i = 1 THEN node ELSE Len(old) + i - 1) \in Nat
      BY <1>1, <1>2
    <2>3. (IF i <= Len(rest) THEN 0 ELSE Len(turns) + 1) \in Nat
      OBVIOUS
    <2> QED
      BY <2>1, <2>2, <2>3 DEF NodeType, Message
  <1>5. ASSUME NEW i \in 1 .. Len(rest) + 1
        PROVE  /\ added[i].parent < Len(old) + i
               /\ added[i].turn <= Len(turns) + 1
               /\ i = Len(rest) + 1 => added[i].turn = Len(turns) + 1
    BY <1>1, <1>2
  <1>6. added \in Seq(NodeType) /\ Len(added) = Len(rest) + 1
    <2>1. added \in [1 .. Len(rest) + 1 -> NodeType]
      BY <1>4
    <2>2. Len(rest) + 1 \in Nat
      BY <1>2
    <2> HIDE DEF added
    <2> QED
      BY <2>1, <2>2
  <1>7. new = old \o added
    BY DEF Mounted
  <1> HIDE DEF added, new
  <1>8. new \in Seq(NodeType) /\ Len(new) = Len(old) + Len(rest) + 1
    <2>1. /\ old \o added \in Seq(NodeType)
          /\ Len(old \o added) = Len(old) + Len(added)
      BY ONLY <1>6, ConcatProperties, Zenon
    <2> QED
      BY ONLY <2>1, <1>6, <1>7, <1>1, <1>2
  <1>9. \A n \in 1 .. Len(old) : new[n] = old[n]
    BY <1>6, <1>7
  <1>10. ASSUME NEW n \in Len(old) + 1 .. Len(new)
         PROVE  /\ new[n].parent < n /\ new[n].turn <= Len(turns) + 1
                /\ n = Len(new) => new[n].turn = Len(turns) + 1
    <2>1. n - Len(old) \in 1 .. Len(rest) + 1
      BY <1>1, <1>2, <1>8
    <2>2. new[n] = added[n - Len(old)]
      BY <1>6, <1>7, <1>1, <1>2, <1>8
    <2>3. n = Len(new) => n - Len(old) = Len(rest) + 1
      BY <1>1, <1>2, <1>8
    <2>4. Len(old) + (n - Len(old)) = n
      BY <1>1, <1>8
    <2> QED
      BY <1>5, <2>1, <2>2, <2>3, <2>4
  <1>11. Len(new) \in Len(old) + 1 .. Len(new)
    BY <1>1, <1>2, <1>8
  <1> QED
    BY <1>8, <1>9, <1>10, <1>11 DEF new

\* A recorded turn has a node, and any other keeps its own unless it is absorbed.
LEMMA RecordTurnFacts ==
    ASSUME TypeOK, NEW messages \in Seq(Message), NEW prompt \in Seq(Int),
           NEW text \in Texts, NEW output \in Seq(Int),
           RecordTurn(messages, prompt, output, text)
    PROVE  /\ nodes' \in Seq(NodeType)
           /\ \A n \in DOMAIN nodes' :
                 nodes'[n].parent < n /\ nodes'[n].turn <= Len(turns')
           /\ turns' \in Seq([prompt : Seq(Int), output : Seq(Int)])
           /\ Len(turns') = Len(turns) + 1
           /\ \A k \in Turn : turns'[k] = turns[k]
           /\ turns'[Len(turns) + 1] = [prompt |-> prompt, output |-> output]
           /\ absorbed \subseteq absorbed'
           /\ absorbed' \subseteq absorbed \cup Turn \cup {0}
           /\ \A n \in DOMAIN nodes :
                 \/ nodes[n].turn \in absorbed'
                 \/ n \in DOMAIN nodes' /\ nodes'[n].turn = nodes[n].turn
           /\ \E n \in DOMAIN nodes' : nodes'[n].turn = Len(turns) + 1
  <1> DEFINE mount == Matching(messages)
             merged == Rewritten(messages, mount)
             node == IF merged = {} THEN mount.node ELSE Min(merged)
             depth == mount.depth + Cardinality(merged)
             demoted == [n \in DOMAIN nodes |->
                           IF n \in merged
                             THEN [nodes[n] EXCEPT !.turn = 0, !.message = messages[depth]]
                             ELSE nodes[n]]
             rest == SubSeq(messages, depth + 1, Len(messages))
  <1>1. turns \in Seq([prompt : Seq(Int), output : Seq(Int)])
    BY DEF TypeOK
  <1>2. turns' = Append(turns, [prompt |-> prompt, output |-> output])
    BY DEF RecordTurn
  <1>3. nodes' = Mounted(demoted, node, rest, text)
    BY DEF RecordTurn
  <1>4. absorbed' = absorbed \cup {nodes[n].turn : n \in merged}
    BY DEF RecordTurn
  <1>5. mount \in [node : 0 .. Len(nodes), depth : 0 .. Len(messages)]
    BY MatchingType
  <1>6. ASSUME merged # {}
        PROVE  /\ mount.depth < Len(messages)
               /\ \E c \in DOMAIN nodes : merged = {c}
    <2> HIDE DEF mount
    <2> QED  BY <1>5, <1>6, RewrittenFacts
  <1> HIDE DEF mount, merged
  <1>7. Len(nodes) \in Nat
    BY Parents
  <1>8. DOMAIN nodes = 1 .. Len(nodes)
    BY Parents
  <1>9. node \in 0 .. Len(nodes) /\ depth \in 0 .. Len(messages)
        /\ (merged # {} => depth \in 1 .. Len(messages))
    <2>1. CASE merged = {}
      <3>1. Cardinality(merged) = 0
        BY <2>1, FS_EmptySet
      <3> QED
        BY <1>5, <2>1, <3>1
    <2>2. CASE merged # {}
      <3>1. PICK c \in DOMAIN nodes : merged = {c}
        BY <1>6, <2>2
      <3>2. Cardinality(merged) = 1
        BY <3>1, FS_Singleton
      <3>3. merged \subseteq Nat
        BY <3>1, <1>8
      <3>4. Min(merged) \in merged
        BY <2>2, <3>3, LeastNatural, Zenon
      <3>5. Min(merged) = c
        BY <3>1, <3>4, Zenon
      <3>6. mount.depth < Len(messages)
        BY <1>6, <2>2
      <3>7. mount.depth \in 0 .. Len(messages)
        BY <1>5
      <3>8. Len(messages) \in Nat
        OBVIOUS
      <3>9. depth = mount.depth + 1
        BY <3>2
      <3>10. node = c
        BY <2>2, <3>5, Zenon
      <3> HIDE DEF depth, node
      <3> QED
        BY <3>6, <3>7, <3>8, <3>9, <3>10, <1>7, <1>8
    <2> QED
      BY <2>1, <2>2
  <1>10. ASSUME NEW n \in DOMAIN nodes
         PROVE  /\ demoted[n] \in NodeType
                /\ demoted[n].parent = nodes[n].parent
                /\ demoted[n].turn = IF n \in merged THEN 0 ELSE nodes[n].turn
    <2>1. nodes[n] \in NodeType
      BY Parents
    <2>2. merged # {} => messages[depth] \in Message
      BY <1>9
    <2> HIDE DEF depth
    <2> QED
      BY <2>1, <2>2 DEF NodeType, Message
  <1>11. demoted \in Seq(NodeType)
    <2> HIDE DEF depth
    <2>1. demoted \in [DOMAIN nodes -> NodeType]
      BY <1>10
    <2> HIDE DEF demoted
    <2>2. demoted \in [1 .. Len(nodes) -> NodeType]
      BY ONLY <2>1, <1>8
    <2> QED
      BY ONLY <2>2, <1>7, FunctionIsSeq, Zenon
  <1>12. Len(demoted) = Len(nodes)
    <2>1. DOMAIN demoted = 1 .. Len(nodes)
      BY <1>8
    <2> HIDE DEF demoted
    <2> QED
      BY <2>1, <1>7, <1>11
  <1>13. rest \in Seq(Message)
    <2>1. Len(messages) \in Nat
      OBVIOUS
    <2> HIDE DEF depth
    <2>2. \A i \in depth + 1 .. Len(messages) : messages[i] \in Message
      BY <1>9, <2>1
    <2> QED
      BY <1>9, <2>1, <2>2, SubSeqProperties
  <1>14. Len(turns) \in Nat
    BY <1>1
  <1> HIDE DEF node, depth, demoted, rest
  <1>15. /\ nodes' \in Seq(NodeType)
         /\ Len(nodes') = Len(nodes) + Len(rest) + 1
         /\ \A n \in 1 .. Len(nodes) : nodes'[n] = demoted[n]
         /\ \A n \in Len(nodes) + 1 .. Len(nodes') :
               nodes'[n].parent < n /\ nodes'[n].turn <= Len(turns) + 1
         /\ nodes'[Len(nodes')].turn = Len(turns) + 1
    <2> DEFINE new == Mounted(demoted, node, rest, text)
    <2>1. node \in 0 .. Len(demoted)
      BY <1>9, <1>12
    <2>2. /\ new \in Seq(NodeType)
          /\ Len(new) = Len(demoted) + Len(rest) + 1
          /\ \A n \in 1 .. Len(demoted) : new[n] = demoted[n]
          /\ \A n \in Len(demoted) + 1 .. Len(new) :
                new[n].parent < n /\ new[n].turn <= Len(turns) + 1
          /\ new[Len(new)].turn = Len(turns) + 1
      BY ONLY <2>1, <1>11, <1>13, <1>14, MountedFacts
    <2>3. nodes' = new
      BY <1>3
    <2> HIDE DEF new
    <2> QED
      BY ONLY <2>2, <2>3, <1>12
  <1>16. Len(rest) \in Nat
    BY <1>13
  <1>17. DOMAIN nodes' = 1 .. Len(nodes')
    BY <1>15
  <1>18. /\ turns' \in Seq([prompt : Seq(Int), output : Seq(Int)])
         /\ Len(turns') = Len(turns) + 1
         /\ \A k \in 1 .. Len(turns) : turns'[k] = turns[k]
         /\ turns'[Len(turns) + 1] = [prompt |-> prompt, output |-> output]
    <2>1. [prompt |-> prompt, output |-> output] \in [prompt : Seq(Int), output : Seq(Int)]
      OBVIOUS
    <2> QED
      BY <1>1, <1>2, <2>1, AppendProperties
  <1>19. ASSUME NEW n \in DOMAIN nodes'
         PROVE  nodes'[n].parent < n /\ nodes'[n].turn <= Len(turns')
    <2>1. CASE n \in 1 .. Len(nodes)
      <3>1. nodes'[n] = demoted[n]
        BY <1>15, <2>1
      <3>2. nodes[n].parent < n /\ nodes[n].turn <= Len(turns)
        BY <2>1, Parents
      <3>3. nodes[n].turn \in Nat
        BY <2>1, Parents
      <3>4. /\ demoted[n].parent = nodes[n].parent
            /\ demoted[n].turn = IF n \in merged THEN 0 ELSE nodes[n].turn
        BY <1>8, <1>10, <2>1
      <3> QED
        BY ONLY <3>1, <3>2, <3>3, <3>4, <1>14, <1>18
    <2>2. CASE n \in Len(nodes) + 1 .. Len(nodes')
      BY <1>15, <1>18, <2>2
    <2> QED
      BY <1>7, <1>15, <1>16, <1>17, <2>1, <2>2
  <1>20. absorbed' \subseteq absorbed \cup Turn \cup {0}
    <2>1. ASSUME NEW n \in merged
          PROVE  nodes[n].turn \in Turn \cup {0}
      <3>1. n \in DOMAIN nodes
        BY <1>6
      <3>2. nodes[n].turn \in Nat /\ nodes[n].turn <= Len(turns)
        BY <3>1, Parents
      <3> QED
        BY <3>2, <1>14 DEF Turn
    <2> QED
      BY <1>4, <2>1
  <1>21. ASSUME NEW n \in DOMAIN nodes, nodes[n].turn \notin absorbed'
         PROVE  n \in DOMAIN nodes' /\ nodes'[n].turn = nodes[n].turn
    <2>1. n \notin merged
      BY <1>4, <1>21
    <2>2. n \in 1 .. Len(nodes)
      BY <1>8
    <2>3. nodes'[n] = demoted[n]
      BY <1>15, <2>2
    <2>4. n \in DOMAIN nodes'
      BY <1>7, <1>15, <1>16, <1>17, <2>2
    <2> QED
      BY <1>10, <2>1, <2>3, <2>4
  <1>22. Len(nodes') \in DOMAIN nodes'
    BY <1>7, <1>15, <1>16, <1>17
  <1>23. absorbed \subseteq absorbed'
    BY <1>4
  <1>24. Turn = 1 .. Len(turns)
    BY DEF Turn
  <1> QED
    BY ONLY <1>15, <1>18, <1>19, <1>20, <1>21, <1>22, <1>23, <1>24
-----------------------------------------------------------------------------
(***************************************************************************)
(* A turn is appended.                                                     *)
(***************************************************************************)
\* r is b with the first turn of todo appended, which keeps h of b's positions.
Appended(b, r, h) ==
    /\ h \in 0 .. Len(b.tokens) /\ h <= Len(Prompt)
    /\ r \in BuilderType
    /\ Len(r.trains) = Len(r.tokens)
    /\ r.tokens = Full(Head(todo))
    /\ r.start = Len(Prompt)
    /\ r.leading = Leading(b)
    /\ \A i \in 1 .. h : b.tokens[i] = Prompt[i] /\ r.trains[i] = b.trains[i]
    /\ \A i \in h + 1 .. Len(Prompt) : r.trains[i] = 0
    /\ \A i \in Len(Prompt) + 1 .. Len(r.tokens) : r.trains[i] = Trained

LEMMA HeadOfTodo ==
    ASSUME TypeOK, todo # <<>>
    PROVE  /\ Head(todo) \in Turn
           /\ Tail(todo) \in Seq(Turn)
           /\ Len(todo) \in Nat
           /\ \A k \in ToSet(todo) : k = Head(todo) \/ k \in ToSet(Tail(todo))
           /\ Prompt \in Seq(Int) /\ Output \in Seq(Int)
           /\ Len(Prompt) \in Nat /\ Len(Output) \in Nat
           /\ Full(Head(todo)) = Prompt \o Output
           /\ Trained \in Nat
  <1>1. todo \in Seq(Turn)
    BY DEF TypeOK
  <1>2. turns \in Seq([prompt : Seq(Int), output : Seq(Int)])
    BY DEF TypeOK
  <1>3. Head(todo) \in Turn
    BY <1>1
  <1>4. turns[Head(todo)] \in [prompt : Seq(Int), output : Seq(Int)]
    <2> DEFINE k == Head(todo)
    <2>1. k \in 1 .. Len(turns)
      BY <1>3 DEF Turn
    <2> HIDE DEF k
    <2>2. turns[k] \in [prompt : Seq(Int), output : Seq(Int)]
      BY ONLY <1>2, <2>1, ElementOfSeq
    <2> QED
      BY <2>2 DEF k
  <1>5. Prompt \in Seq(Int) /\ Output \in Seq(Int)
    BY <1>4 DEF Prompt, Output
  <1>6. Len(Prompt) \in Nat /\ Len(Output) \in Nat
    BY <1>5
  <1>7. Trained \in Nat
    BY <1>2, <1>3 DEF Trained, Turn
  <1>8. Full(Head(todo)) = Prompt \o Output
    BY DEF Full, Prompt, Output
  <1>9. Tail(todo) \in Seq(Turn) /\ Len(todo) \in Nat
    BY <1>1
  <1>10. ASSUME NEW k \in ToSet(todo)
         PROVE  k = Head(todo) \/ k \in ToSet(Tail(todo))
    <2>1. PICK i \in DOMAIN todo : todo[i] = k
      BY DEF ToSet
    <2>2. Len(todo) \in Nat /\ DOMAIN todo = 1 .. Len(todo)
      BY <1>1
    <2>3. /\ Len(Tail(todo)) = Len(todo) - 1
          /\ \A j \in 1 .. Len(Tail(todo)) : Tail(todo)[j] = todo[j + 1]
      BY <1>1, HeadTailProperties
    <2>4. CASE i = 1
      BY <1>1, <2>1, <2>4
    <2>5. CASE i # 1
      <3>1. i - 1 \in 1 .. Len(Tail(todo)) /\ i - 1 + 1 = i
        BY <2>1, <2>2, <2>3, <2>5
      <3>2. Tail(todo)[i - 1] = k
        BY <2>1, <2>3, <3>1
      <3>3. DOMAIN Tail(todo) = 1 .. Len(Tail(todo))
        BY <1>9
      <3> QED
        BY <3>1, <3>2, <3>3 DEF ToSet
    <2> QED
      BY <2>4, <2>5
  <1> QED
    BY <1>3, <1>5, <1>6, <1>7, <1>8, <1>9, <1>10

\* r is b with the response appended to the prompt and its mask.
Responded(b, r, trains) ==
    /\ r \in BuilderType
    /\ Len(r.trains) = Len(r.tokens)
    /\ r.tokens = Full(Head(todo))
    /\ r.start = Len(Prompt)
    /\ r.leading = Leading(b)
    /\ \A i \in 1 .. Len(Prompt) : r.trains[i] = trains[i]
    /\ \A i \in Len(Prompt) + 1 .. Len(r.tokens) : r.trains[i] = Trained

LEMMA WithResponseFacts ==
    ASSUME TypeOK, todo # <<>>, NEW b \in BuilderType,
           NEW trains \in Seq(Nat), Len(trains) = Len(Prompt)
    PROVE  Responded(b, WithResponse(b, Prompt, trains), trains)
  <1> DEFINE t == Trained
             response == [i \in 1 .. Len(Output) |-> t]
             r == WithResponse(b, Prompt, trains)
  <1>1. Prompt \in Seq(Int) /\ Output \in Seq(Int)
    BY HeadOfTodo
  <1>2. Len(Prompt) \in Nat
    BY HeadOfTodo
  <1>3. Len(Output) \in Nat
    BY HeadOfTodo
  <1>4. t \in Nat
    BY HeadOfTodo
  <1>5. /\ r.tokens = Prompt \o Output
        /\ r.trains = trains \o response
        /\ r.start = Len(Prompt)
        /\ r.leading = Leading(b)
        /\ r = [tokens |-> r.tokens, trains |-> r.trains, start |-> r.start, leading |-> r.leading]
    BY DEF WithResponse
  <1> HIDE DEF t, r
  <1>6. /\ response \in Seq(Nat) /\ Len(response) = Len(Output)
        /\ \A i \in 1 .. Len(Output) : response[i] = t
    <2>1. response \in [1 .. Len(Output) -> Nat]
      BY <1>4
    <2>2. \A i \in 1 .. Len(Output) : response[i] = t
      OBVIOUS
    <2> HIDE DEF response
    <2> QED
      BY ONLY <2>1, <2>2, <1>3, FunctionIsSeq, Zenon
  <1> HIDE DEF response
  <1>7. /\ Prompt \o Output \in Seq(Int)
        /\ Len(Prompt \o Output) = Len(Prompt) + Len(Output)
    BY ONLY <1>1, ConcatProperties
  <1>8. /\ trains \o response \in Seq(Nat)
        /\ Len(trains \o response) = Len(Prompt) + Len(Output)
        /\ \A i \in 1 .. Len(Prompt) + Len(Output) :
             (trains \o response)[i] = IF i <= Len(Prompt) THEN trains[i] ELSE response[i - Len(Prompt)]
    <2>1. /\ trains \o response \in Seq(Nat)
          /\ Len(trains \o response) = Len(trains) + Len(response)
          /\ \A i \in 1 .. Len(trains) + Len(response) :
               (trains \o response)[i] = IF i <= Len(trains) THEN trains[i] ELSE response[i - Len(trains)]
      BY ONLY <1>6, ConcatProperties, Zenon
    <2>2. Len(trains) = Len(Prompt) /\ Len(response) = Len(Output)
      BY <1>6
    <2> QED
      BY ONLY <2>1, <2>2
  <1>9. r.leading \in Nat
    BY <1>2, <1>5 DEF Leading, BuilderType
  <1>10. r \in BuilderType
    BY ONLY <1>2, <1>5, <1>7, <1>8, <1>9 DEF BuilderType
  <1>11. Len(r.trains) = Len(r.tokens)
    BY <1>5, <1>7, <1>8
  <1>12. r.tokens = Full(Head(todo))
    BY <1>5, HeadOfTodo
  <1>13. ASSUME NEW i \in 1 .. Len(Prompt)
         PROVE  r.trains[i] = trains[i]
    BY <1>2, <1>3, <1>5, <1>8
  <1>14. ASSUME NEW i \in Len(Prompt) + 1 .. Len(r.tokens)
         PROVE  r.trains[i] = t
    <2>1. i - Len(Prompt) \in 1 .. Len(Output) /\ i \in 1 .. Len(Prompt) + Len(Output) /\ ~(i <= Len(Prompt))
      BY <1>2, <1>3, <1>5, <1>7
    <2> QED
      BY <2>1, <1>5, <1>6, <1>8
  <1> QED
    BY <1>5, <1>10, <1>11, <1>12, <1>13, <1>14 DEF r, t, Responded

LEMMA MaskedFacts ==
    ASSUME NEW trains \in Seq(Nat), NEW n \in Nat
    PROVE  /\ trains \o Masked(n) \in Seq(Nat)
           /\ Len(trains \o Masked(n)) = Len(trains) + n
           /\ \A i \in 1 .. Len(trains) : (trains \o Masked(n))[i] = trains[i]
           /\ \A i \in Len(trains) + 1 .. Len(trains) + n : (trains \o Masked(n))[i] = 0
  <1> DEFINE m == Masked(n)
  <1>1. m \in Seq(Nat) /\ Len(m) = n /\ \A i \in 1 .. n : m[i] = 0
    <2>1. m \in [1 .. n -> Nat] /\ \A i \in 1 .. n : m[i] = 0
      BY DEF Masked
    <2> HIDE DEF m
    <2> QED
      BY ONLY <2>1, FunctionIsSeq, Zenon
  <1>2. Len(trains) \in Nat
    OBVIOUS
  <1> HIDE DEF m
  <1>3. /\ trains \o m \in Seq(Nat)
        /\ Len(trains \o m) = Len(trains) + Len(m)
        /\ \A i \in 1 .. Len(trains) + Len(m) :
             (trains \o m)[i] = IF i <= Len(trains) THEN trains[i] ELSE m[i - Len(trains)]
    BY <1>1, ConcatProperties, Zenon
  <1>4. ASSUME NEW i \in Len(trains) + 1 .. Len(trains) + n
        PROVE  (trains \o m)[i] = 0
    <2>1. i - Len(trains) \in 1 .. n /\ i \in 1 .. Len(trains) + n /\ ~(i <= Len(trains))
      BY <1>2
    <2> QED
      BY ONLY <1>1, <1>3, <2>1
  <1>5. \A i \in 1 .. Len(trains) : (trains \o m)[i] = trains[i]
    BY ONLY <1>1, <1>2, <1>3, n \in Nat
  <1> QED
    BY <1>1, <1>3, <1>4, <1>5 DEF m

LEMMA CleanShape ==
    ASSUME TypeOK, todo # <<>>, NEW b \in BuilderType,
           Len(b.trains) = Len(b.tokens), Clean(b)
    PROVE  Appended(b, AppendClean(b), Len(b.tokens))
  <1> DEFINE h == Len(b.tokens)
             tail == SubSeq(Prompt, h + 1, Len(Prompt))
             tokens == b.tokens \o tail
             trains == b.trains \o Masked(Len(tail))
             r == WithResponse(b, tokens, trains)
  <1>1. b.tokens \in Seq(Int) /\ b.trains \in Seq(Nat)
    BY DEF BuilderType
  <1>2. h \in Nat
    BY <1>1
  <1>3. Prompt \in Seq(Int)
    BY HeadOfTodo
  <1>4. Len(Prompt) \in Nat
    BY HeadOfTodo
  <1>5. h <= Len(Prompt) /\ \A i \in 1 .. h : b.tokens[i] = Prompt[i]
    BY DEF Clean, Agree
  <1>6. h \in 0 .. Len(b.tokens)
    BY <1>2
  <1>7. tail \in Seq(Int) /\ Len(tail) = Len(Prompt) - h /\ SubSeq(b.tokens, 1, h) \o tail = Prompt
    <2>1. Common(b.tokens, Prompt, h)
      BY <1>5, <1>6 DEF Common
    <2>2. b.tokens \in Seq(Int)
      BY <1>1
    <2>3. Prompt \in Seq(Int)
      BY <1>3
    <2> HIDE DEF h
    <2>4. Completes(b.tokens, Prompt, h, Int)
      BY ONLY <2>1, <2>2, <2>3, PrefixAndRest, Zenon
    <2> QED
      BY ONLY <2>4 DEF Completes
  <1>8. tokens = Prompt
    <2>1. SubSeq(b.tokens, 1, h) = b.tokens
      BY <1>1, SubSeqFull
    <2> QED
      BY <1>7, <2>1
  <1>9. r = AppendClean(b)
    BY DEF AppendClean
  <1> HIDE DEF tail
  <1>10. Len(tail) \in Nat
    BY <1>7
  <1>11. /\ trains \in Seq(Nat)
         /\ Len(trains) = h + Len(tail)
         /\ \A i \in 1 .. h : trains[i] = b.trains[i]
         /\ \A i \in h + 1 .. h + Len(tail) : trains[i] = 0
    <2>1. /\ trains \in Seq(Nat)
          /\ Len(trains) = Len(b.trains) + Len(tail)
          /\ \A i \in 1 .. Len(b.trains) : trains[i] = b.trains[i]
          /\ \A i \in Len(b.trains) + 1 .. Len(b.trains) + Len(tail) : trains[i] = 0
      BY <1>1, <1>10, MaskedFacts
    <2> QED
      BY <2>1
  <1> HIDE DEF tokens, trains, r, h
  <1>12. h + Len(tail) = Len(Prompt)
    BY <1>2, <1>4, <1>7
  <1>13. /\ r \in BuilderType
         /\ Len(r.trains) = Len(r.tokens)
         /\ r.tokens = Full(Head(todo))
         /\ r.start = Len(Prompt)
         /\ r.leading = Leading(b)
         /\ \A i \in 1 .. Len(Prompt) : r.trains[i] = trains[i]
         /\ \A i \in Len(Prompt) + 1 .. Len(r.tokens) : r.trains[i] = Trained
    <2>1. trains \in Seq(Nat) /\ Len(trains) = Len(Prompt)
      BY <1>11, <1>12
    <2>2. r = WithResponse(b, Prompt, trains)
      BY <1>8 DEF r
    <2>3. Responded(b, r, trains)
      BY <2>1, <2>2, WithResponseFacts
    <2> QED
      BY <2>3 DEF Responded
  <1>14. \A i \in 1 .. h : r.trains[i] = b.trains[i]
    <2>1. \A i \in 1 .. h : i \in 1 .. Len(Prompt)
      BY ONLY <1>2, <1>4, <1>5
    <2> QED
      BY ONLY <2>1, <1>11, <1>13
  <1>15. \A i \in h + 1 .. Len(Prompt) : r.trains[i] = 0
    BY ONLY <1>2, <1>4, <1>5, <1>11, <1>12, <1>13
  <1>16. Appended(b, r, h)
    BY <1>5, <1>6, <1>13, <1>14, <1>15 DEF Appended
  <1> QED
    BY <1>9, <1>16 DEF h

LEMMA RealignedShape ==
    ASSUME TypeOK, todo # <<>>, NEW b \in BuilderType,
           Len(b.trains) = Len(b.tokens), b.start \in 0 .. Len(b.tokens), Agree(b, b.start)
    PROVE  Appended(b, AppendRealigned(b), b.start)
  <1> DEFINE h == b.start
             kept == SubSeq(b.trains, 1, h)
             tokens == SubSeq(b.tokens, 1, h) \o SubSeq(Prompt, h + 1, Len(Prompt))
             trains == RealignedTrains(b)
             r == WithResponse(b, tokens, trains)
  <1>1. b.tokens \in Seq(Int) /\ b.trains \in Seq(Nat)
    BY DEF BuilderType
  <1>2. h \in 0 .. Len(b.tokens)
    OBVIOUS
  <1>3. Len(b.tokens) \in Nat
    BY <1>1
  <1>4. h \in Nat
    BY <1>2, <1>3
  <1>5. Prompt \in Seq(Int)
    BY HeadOfTodo
  <1>6. Len(Prompt) \in Nat
    BY HeadOfTodo
  <1>7. h <= Len(Prompt) /\ \A i \in 1 .. h : b.tokens[i] = Prompt[i]
    BY DEF Agree
  <1>8. tokens = Prompt
    <2>1. Common(b.tokens, Prompt, h)
      BY <1>2, <1>7 DEF Common
    <2>2. b.tokens \in Seq(Int)
      BY <1>1
    <2>3. Prompt \in Seq(Int)
      BY <1>5
    <2> HIDE DEF h
    <2>4. Completes(b.tokens, Prompt, h, Int)
      BY ONLY <2>1, <2>2, <2>3, PrefixAndRest, Zenon
    <2> QED
      BY ONLY <2>4 DEF Completes
  <1>9. r = AppendRealigned(b)
    BY DEF AppendRealigned
  <1>10. kept \in Seq(Nat) /\ Len(kept) = h /\ \A i \in 1 .. h : kept[i] = b.trains[i]
    <2>1. b.trains \in Seq(Nat) /\ Len(b.trains) = Len(b.tokens)
      BY <1>1
    <2>2. \A i \in 1 .. h : b.trains[i] \in Nat
      BY <2>1, <1>2, <1>3, ElementOfSeq
    <2>3. /\ kept \in Seq(Nat)
          /\ Len(kept) = IF 1 <= h THEN h - 1 + 1 ELSE 0
          /\ \A i \in 1 .. h - 1 + 1 : kept[i] = b.trains[1 + i - 1]
      BY <1>4, <2>2, SubSeqProperties
    <2> HIDE DEF kept, h
    <2> QED
      BY ONLY <1>4, <2>3
  <1>11. Len(Prompt) - h \in Nat
    BY <1>4, <1>6, <1>7
  <1>12. trains = kept \o Masked(Len(Prompt) - h)
    BY DEF RealignedTrains
  <1> HIDE DEF tokens, trains, r, h, kept
  <1>13. /\ trains \in Seq(Nat)
         /\ Len(trains) = h + (Len(Prompt) - h)
         /\ \A i \in 1 .. h : trains[i] = b.trains[i]
         /\ \A i \in h + 1 .. h + (Len(Prompt) - h) : trains[i] = 0
    <2> DEFINE m == Len(Prompt) - h
    <2>1. m \in Nat /\ trains = kept \o Masked(m)
      BY <1>11, <1>12
    <2> HIDE DEF m
    <2>2. /\ kept \o Masked(m) \in Seq(Nat)
          /\ Len(kept \o Masked(m)) = Len(kept) + m
          /\ \A i \in 1 .. Len(kept) : (kept \o Masked(m))[i] = kept[i]
          /\ \A i \in Len(kept) + 1 .. Len(kept) + m : (kept \o Masked(m))[i] = 0
      BY <1>10, <2>1, MaskedFacts
    <2>3. /\ trains \in Seq(Nat)
          /\ Len(trains) = h + m
          /\ \A i \in 1 .. h : trains[i] = b.trains[i]
          /\ \A i \in h + 1 .. h + m : trains[i] = 0
      BY ONLY <1>10, <2>1, <2>2
    <2> QED
      BY ONLY <2>3 DEF m
  <1>14. h + (Len(Prompt) - h) = Len(Prompt)
    BY <1>4, <1>6
  <1>15. /\ r \in BuilderType
         /\ Len(r.trains) = Len(r.tokens)
         /\ r.tokens = Full(Head(todo))
         /\ r.start = Len(Prompt)
         /\ r.leading = Leading(b)
         /\ \A i \in 1 .. Len(Prompt) : r.trains[i] = trains[i]
         /\ \A i \in Len(Prompt) + 1 .. Len(r.tokens) : r.trains[i] = Trained
    <2>1. trains \in Seq(Nat) /\ Len(trains) = Len(Prompt)
      BY <1>13, <1>14
    <2>2. r = WithResponse(b, Prompt, trains)
      BY <1>8 DEF r
    <2>3. Responded(b, r, trains)
      BY <2>1, <2>2, WithResponseFacts
    <2> QED
      BY <2>3 DEF Responded
  <1>16. \A i \in 1 .. h : r.trains[i] = b.trains[i]
    BY ONLY <1>4, <1>6, <1>7, <1>13, <1>15
  <1>17. \A i \in h + 1 .. Len(Prompt) : r.trains[i] = 0
    BY ONLY <1>4, <1>6, <1>7, <1>13, <1>14, <1>15
  <1>18. Appended(b, r, h)
    BY <1>2, <1>7, <1>15, <1>16, <1>17 DEF Appended
  <1> QED
    BY <1>9, <1>18 DEF h

\* The positions an append keeps: all, those before the last response, or none.
Keeps(b, h) ==
    \/ BuilderInv(b) /\ h \in {b.start, Len(b.tokens)}
    \/ b = NewBuilder /\ h = 0

LEMMA FullFacts ==
    ASSUME TypeOK, NEW k \in Turn
    PROVE  /\ turns[k].prompt \in Seq(Int) /\ turns[k].output \in Seq(Int)
           /\ Len(turns[k].prompt) \in Nat /\ Len(turns[k].output) \in Nat
           /\ Full(k) \in Seq(Int)
           /\ Len(Full(k)) = Len(turns[k].prompt) + Len(turns[k].output)
           /\ Len(Full(k)) \in Nat
           /\ \A i \in 1 .. Len(turns[k].prompt) : Full(k)[i] = turns[k].prompt[i]
           /\ turns[k].output = <<>> <=> Len(turns[k].output) = 0
           /\ k # 0
  <1>1. turns \in Seq([prompt : Seq(Int), output : Seq(Int)])
    BY DEF TypeOK
  <1>2. k \in 1 .. Len(turns) /\ Len(turns) \in Nat
    BY <1>1 DEF Turn
  <1>3. turns[k] \in [prompt : Seq(Int), output : Seq(Int)]
    BY ONLY <1>1, <1>2, ElementOfSeq
  <1> DEFINE p == turns[k].prompt
             o == turns[k].output
  <1>4. p \in Seq(Int) /\ o \in Seq(Int)
    BY <1>3
  <1>5. Full(k) = p \o o
    BY DEF Full
  <1> HIDE DEF p, o
  <1>6. /\ p \o o \in Seq(Int)
        /\ Len(p \o o) = Len(p) + Len(o)
        /\ \A i \in 1 .. Len(p) + Len(o) : (p \o o)[i] = IF i <= Len(p) THEN p[i] ELSE o[i - Len(p)]
    BY <1>4, ConcatProperties
  <1>7. Len(p) \in Nat
    BY <1>4
  <1>8. Len(o) \in Nat
    BY <1>4
  <1>9. \A i \in 1 .. Len(p) : (p \o o)[i] = p[i]
    BY ONLY <1>6, <1>7, <1>8
  <1>10. o = <<>> <=> Len(o) = 0
    BY ONLY <1>4
  <1>11. k # 0
    BY ONLY <1>2
  <1>12. /\ Full(k) \in Seq(Int) /\ Len(Full(k)) = Len(p) + Len(o)
         /\ \A i \in 1 .. Len(p) : Full(k)[i] = p[i]
    BY ONLY <1>5, <1>6, <1>9
  <1>13. Len(Full(k)) \in Nat
    BY ONLY <1>7, <1>8, <1>12
  <1> QED
    BY ONLY <1>4, <1>7, <1>8, <1>10, <1>11, <1>12, <1>13 DEF p, o

\* Where an append cuts, no trained response is cut.
LEMMA KeepsWhole ==
    ASSUME TypeOK, NEW b, NEW h, Keeps(b, h), NEW i \in 1 .. h, b.trains[i] # 0
    PROVE  /\ BuilderInv(b)
           /\ b.trains[i] \in Turn
           /\ Len(Full(b.trains[i])) <= h
  <1>1. BuilderInv(b) /\ h \in {b.start, Len(b.tokens)}
    BY DEF Keeps
  <1> DEFINE k == b.trains[i]
             e == Len(Full(k))
  <1>2. /\ b.tokens \in Seq(Int) /\ b.trains \in Seq(Nat)
        /\ Len(b.trains) = Len(b.tokens)
        /\ b.start \in 0 .. Len(b.tokens)
        /\ Carries(b.tokens, b.trains, 0)
    BY <1>1 DEF BuilderInv, BuilderType
  <1>3. Len(b.tokens) \in Nat
    BY <1>2
  <1>4. DOMAIN b.trains = 1 .. Len(b.tokens)
    BY <1>2
  <1>5. i \in DOMAIN b.trains /\ i \in Nat
    BY <1>1, <1>2, <1>3, <1>4
  <1>6. /\ k \in Turn
        /\ i \in Len(turns[k].prompt) + 1 .. e
        /\ \A q \in Len(turns[k].prompt) + 1 .. e :
              q \in DOMAIN b.trains /\ b.trains[q] = k
    <2>1. /\ k \in Turn
          /\ 0 + i \in Len(turns[k].prompt) + 1 .. e
          /\ \A q \in Len(turns[k].prompt) + 1 .. e :
                q - 0 \in DOMAIN b.trains /\ b.trains[q - 0] = k
      BY <1>2, <1>5 DEF Carries
    <2>2. Len(turns[k].prompt) \in Nat /\ e \in Nat
      BY <2>1, FullFacts
    <2>3. 0 + i = i /\ \A q \in Len(turns[k].prompt) + 1 .. e : q - 0 = q
      BY ONLY <1>5, <2>2
    <2> HIDE DEF k, e
    <2> QED
      BY ONLY <2>1, <2>3
  <1>7. Len(turns[k].prompt) \in Nat
    BY <1>6, FullFacts
  <1>8. e \in Nat
    BY <1>6, FullFacts
  <1> HIDE DEF k, e
  <1>9. e \in DOMAIN b.trains /\ b.trains[e] = k
    BY <1>5, <1>6, <1>7, <1>8
  <1>10. e <= h
    <2>1. CASE h = Len(b.tokens)
      BY <1>3, <1>4, <1>9, <2>1
    <2>2. CASE h = b.start
      <3> SUFFICES ASSUME ~(e <= h)
                   PROVE  FALSE
        OBVIOUS
      <3>1. e \in b.start + 1 .. Len(b.trains)
        BY <1>2, <1>3, <1>4, <1>8, <1>9, <2>2
      <3>2. b.trains[e] # 0
        BY <1>9 DEF k
      <3>3. b.start = Len(turns[k].prompt)
        BY <1>1, <1>9, <3>1, <3>2 DEF BuilderInv
      <3>4. i <= h /\ i > Len(turns[k].prompt)
        BY <1>5, <1>6, <1>7, <1>8
      <3> QED
        BY <1>5, <1>7, <2>2, <3>3, <3>4
    <2> QED
      BY <1>1, <2>1, <2>2
  <1> QED
    BY <1>1, <1>6, <1>10 DEF k, e

\* Up to what it keeps of b, r has b's mask; then only the response is trained.
LEMMA AppendedMask ==
    ASSUME TypeOK, todo # <<>>, NEW b, NEW r, NEW h, Keeps(b, h), Appended(b, r, h)
    PROVE  /\ DOMAIN r.trains = 1 .. Len(Full(Head(todo)))
           /\ h \in Nat /\ h <= Len(Prompt)
           /\ \A i \in DOMAIN r.trains : r.trains[i] # 0 =>
                 \/ i \in 1 .. h /\ r.trains[i] = b.trains[i]
                 \/ /\ i \in Len(Prompt) + 1 .. Len(Full(Head(todo)))
                    /\ r.trains[i] = Trained /\ Trained = Head(todo)
  <1> DEFINE e == Len(Full(Head(todo)))
             p == Len(Prompt)
             x == Trained
  <1>1. /\ r.trains \in Seq(Nat) /\ Len(r.trains) = e
        /\ \A i \in 1 .. h : r.trains[i] = b.trains[i]
        /\ \A i \in h + 1 .. p : r.trains[i] = 0
        /\ \A i \in p + 1 .. e : r.trains[i] = x
        /\ h <= p
    BY DEF Appended, BuilderType
  <1>2. x # 0 => x = Head(todo)
    BY DEF Trained
  <1>3. p \in Nat
    BY HeadOfTodo
  <1>4. e \in Nat
    BY HeadOfTodo, FullFacts
  <1>5. h \in Nat
    <2>1. CASE BuilderInv(b)
      <3>1. Len(b.tokens) \in Nat
        BY <2>1 DEF BuilderInv, BuilderType
      <3>2. h \in 0 .. Len(b.tokens)
        BY DEF Appended
      <3> QED
        BY <3>1, <3>2
    <2>2. CASE h = 0
      BY <2>2
    <2> QED
      BY <2>1, <2>2 DEF Keeps
  <1> HIDE DEF e, p, x
  <1>6. DOMAIN r.trains = 1 .. e
    BY <1>1
  <1>7. ASSUME NEW i \in 1 .. e, r.trains[i] # 0
        PROVE  \/ i \in 1 .. h /\ r.trains[i] = b.trains[i]
               \/ i \in p + 1 .. e /\ r.trains[i] = x /\ x = Head(todo)
    <2>1. i \in 1 .. h \/ i \in h + 1 .. p \/ i \in p + 1 .. e
      BY <1>3, <1>4, <1>5
    <2> QED
      BY <1>1, <1>2, <1>7, <2>1
  <1> QED
    BY <1>1, <1>5, <1>6, <1>7 DEF e, p, x

LEMMA AppendedCarries ==
    ASSUME TypeOK, todo # <<>>, NEW b, NEW r, NEW h, Keeps(b, h), Appended(b, r, h)
    PROVE  Carries(r.tokens, r.trains, 0)
  <1> SUFFICES ASSUME NEW i \in DOMAIN r.trains, r.trains[i] # 0
               PROVE  LET k == r.trains[i]
                      IN  /\ k \in Turn
                          /\ i \in Len(turns[k].prompt) + 1 .. Len(Full(k))
                          /\ \A q \in 1 .. i : r.tokens[q] = Full(k)[q]
                          /\ \A q \in Len(turns[k].prompt) + 1 .. Len(Full(k)) :
                                q \in DOMAIN r.trains /\ r.trains[q] = k
    <2>1. DOMAIN r.trains \subseteq Nat
      BY AppendedMask, HeadOfTodo, FullFacts
    <2>2. \A i \in DOMAIN r.trains : 0 + i = i
      BY <2>1
    <2>3. \A k \in Turn : Len(turns[k].prompt) \in Nat /\ Len(Full(k)) \in Nat
      BY FullFacts
    <2>4. \A k \in Turn : \A q \in Len(turns[k].prompt) + 1 .. Len(Full(k)) : q - 0 = q
      BY <2>3
    <2> QED
      BY <2>2, <2>4 DEF Carries
  <1> DEFINE k == r.trains[i]
             hd == Head(todo)
             p == Len(Prompt)
             e == Len(Full(hd))
  <1>1. hd \in Turn
    BY HeadOfTodo
  <1>2. p \in Nat
    BY HeadOfTodo
  <1>3. e \in Nat
    BY <1>1, FullFacts
  <1>4. p <= e /\ p = Len(turns[hd].prompt)
    <2>1. Prompt = turns[hd].prompt
      BY DEF Prompt
    <2> HIDE DEF hd
    <2> DEFINE o == Len(turns[hd].output)
    <2>2. o \in Nat
      BY <1>1, FullFacts
    <2>3. e = Len(turns[hd].prompt) + o
      BY <1>1, FullFacts
    <2>4. p = Len(turns[hd].prompt)
      BY <2>1
    <2>5. e = p + o
      BY <2>3, <2>4
    <2> HIDE DEF e, p, o
    <2>6. p <= e
      BY ONLY <1>2, <2>2, <2>5
    <2> QED
      BY ONLY <2>4, <2>6
  <1>5. /\ DOMAIN r.trains = 1 .. e
        /\ h \in Nat /\ h <= p
        /\ \/ i \in 1 .. h /\ k = b.trains[i]
           \/ i \in p + 1 .. e /\ k = Trained /\ Trained = hd
    BY AppendedMask
  <1>6. /\ r.tokens = Full(hd)
        /\ \A q \in 1 .. h : b.tokens[q] = Prompt[q] /\ r.trains[q] = b.trains[q]
        /\ \A q \in p + 1 .. e : r.trains[q] = Trained
    BY DEF Appended
  <1>7. h \in Nat
    BY <1>5
  <1>8. CASE i \in 1 .. h /\ k = b.trains[i]
    <2>1. /\ BuilderInv(b) /\ k \in Turn /\ Len(Full(k)) <= h
      BY <1>8, KeepsWhole
    <2>2. Len(turns[k].prompt) \in Nat
      BY <2>1, FullFacts
    <2>3. Len(Full(k)) \in Nat
      BY <2>1, FullFacts
    <2>4. Len(b.trains) = Len(b.tokens) /\ b.trains \in Seq(Nat) /\ Carries(b.tokens, b.trains, 0)
      BY <2>1 DEF BuilderInv, BuilderType
    <2>5. h <= Len(b.tokens)
      <3>1. h \in 0 .. Len(b.tokens)
        BY DEF Appended
      <3>2. Len(b.tokens) \in Nat
        BY <2>4
      <3> QED
        BY <3>1, <3>2
    <2>6. i \in DOMAIN b.trains /\ i \in Nat
      BY <1>7, <1>8, <2>4, <2>5
    <2>7. /\ 0 + i \in Len(turns[k].prompt) + 1 .. Len(Full(k))
          /\ \A q \in 1 .. 0 + i : b.tokens[q] = Full(k)[q]
          /\ \A q \in Len(turns[k].prompt) + 1 .. Len(Full(k)) :
                q - 0 \in DOMAIN b.trains /\ b.trains[q - 0] = k
      BY <1>8, <2>4, <2>6, SMTT(30) DEF Carries
    <2>8. \A q \in 1 .. h : r.tokens[q] = b.tokens[q]
      <3>1. \A q \in 1 .. h : q \in 1 .. p
        BY <1>2, <1>5, <1>7
      <3>2. \A q \in 1 .. p : Full(hd)[q] = Prompt[q]
        BY <1>1, <1>4, FullFacts DEF Prompt
      <3> QED
        BY <1>6, <3>1, <3>2
    <2> HIDE DEF k, e, p, hd
    <2>9. \A q \in 1 .. i : q \in 1 .. h /\ q \in 1 .. 0 + i
      BY <1>7, <1>8
    <2>10. \A q \in 1 .. i : r.tokens[q] = Full(k)[q]
      BY <2>7, <2>8, <2>9
    <2>11. i \in Len(turns[k].prompt) + 1 .. Len(Full(k))
      BY <2>6, <2>7
    <2>12. ASSUME NEW q \in Len(turns[k].prompt) + 1 .. Len(Full(k))
           PROVE  q \in DOMAIN r.trains /\ r.trains[q] = k
      <3>1. q \in 1 .. h /\ q \in 1 .. e /\ q - 0 = q
        BY <1>2, <1>3, <1>4, <1>5, <1>7, <2>1, <2>2, <2>3
      <3>2. b.trains[q] = k
        BY <2>7, <3>1
      <3> QED
        BY <1>5, <1>6, <3>1, <3>2
    <2> QED
      BY <2>1, <2>10, <2>11, <2>12 DEF k
  <1>9. CASE i \in p + 1 .. e /\ k = Trained /\ Trained = hd
    <2>1. k = hd
      BY <1>9
    <2> HIDE DEF k, e, p, hd
    <2>2. Len(Full(k)) = e /\ Len(turns[k].prompt) = p
      BY <1>4, <2>1 DEF e
    <2>3. \A q \in 1 .. i : r.tokens[q] = Full(k)[q]
      BY <1>6, <2>1
    <2>4. ASSUME NEW q \in p + 1 .. e
          PROVE  q \in DOMAIN r.trains /\ r.trains[q] = k
      BY <1>2, <1>3, <1>5, <1>6, <1>9
    <2> QED
      BY <1>1, <1>9, <2>1, <2>2, <2>3, <2>4 DEF k
  <1> QED
    BY <1>5, <1>8, <1>9

LEMMA AppendedBuilder ==
    ASSUME TypeOK, todo # <<>>, NEW b, NEW r, NEW h, Keeps(b, h), Appended(b, r, h)
    PROVE  BuilderInv(r)
  <1> DEFINE hd == Head(todo)
             p == Len(Prompt)
             e == Len(Full(hd))
  <1>1. hd \in Turn
    BY HeadOfTodo
  <1>2. p \in Nat
    BY HeadOfTodo
  <1>3. e \in Nat
    BY <1>1, FullFacts
  <1>4. /\ r \in BuilderType /\ Len(r.trains) = Len(r.tokens)
        /\ r.tokens = Full(hd) /\ r.start = p /\ r.leading = Leading(b)
    BY DEF Appended
  <1>5. p <= e /\ p = Len(turns[hd].prompt)
    <2>1. Prompt = turns[hd].prompt
      BY DEF Prompt
    <2> HIDE DEF hd
    <2> DEFINE o == Len(turns[hd].output)
    <2>2. o \in Nat
      BY <1>1, FullFacts
    <2>3. e = Len(turns[hd].prompt) + o
      BY <1>1, FullFacts
    <2>4. p = Len(turns[hd].prompt)
      BY <2>1
    <2>5. e = p + o
      BY <2>3, <2>4
    <2> HIDE DEF e, p, o
    <2>6. p <= e
      BY ONLY <1>2, <2>2, <2>5
    <2> QED
      BY ONLY <2>4, <2>6
  <1>6. /\ DOMAIN r.trains = 1 .. e
        /\ h <= p
        /\ \A i \in DOMAIN r.trains : r.trains[i] # 0 =>
              \/ i \in 1 .. h /\ r.trains[i] = b.trains[i]
              \/ i \in p + 1 .. e /\ r.trains[i] = hd
    BY AppendedMask
  <1>7. h \in Nat
    BY AppendedMask
  <1>8. \/ BuilderInv(b) /\ r.leading = b.leading /\ b.leading \in Nat /\ b.leading <= h
        \/ h = 0 /\ r.leading = p
    <2>1. CASE BuilderInv(b) /\ h \in {b.start, Len(b.tokens)}
      <3>1. /\ b.start \in 0 .. Len(b.tokens) /\ b.leading <= b.start
            /\ b \in BuilderType
        BY <2>1 DEF BuilderInv
      <3>2. Len(b.tokens) \in Nat
        BY <3>1 DEF BuilderType
      <3>3. b.leading \in Nat
        BY <3>1 DEF BuilderType
      <3>4. b.start \in Nat
        BY <3>1, <3>2
      <3>5. b.leading <= h
        BY <2>1, <3>1, <3>2, <3>3
      <3>6. b.start # -1
        BY <3>4
      <3>7. r.leading = b.leading
        BY <1>4, <3>6 DEF Leading
      <3> QED
        BY <2>1, <3>3, <3>5, <3>7
    <2>2. CASE b = NewBuilder /\ h = 0
      BY <1>4, <2>2 DEF Leading, NewBuilder
    <2> QED
      BY <2>1, <2>2 DEF Keeps
  <1>9. Carries(r.tokens, r.trains, 0)
    BY AppendedCarries
  <1> HIDE DEF hd, p, e
  <1>10. r.leading <= r.start
    BY <1>2, <1>4, <1>6, <1>7, <1>8
  <1>11. r.start \in 0 .. Len(r.tokens)
    BY <1>2, <1>3, <1>4, <1>5 DEF e
  <1>12. ASSUME NEW i \in DOMAIN r.trains, r.trains[i] # 0
         PROVE  r.leading < i
    <2>1. CASE i \in 1 .. h /\ r.trains[i] = b.trains[i]
      <3>1. BuilderInv(b)
        BY <1>12, <2>1, KeepsWhole
      <3>2. i \in DOMAIN b.trains
        <4>1. b.trains \in Seq(Nat) /\ Len(b.trains) = Len(b.tokens)
          BY <3>1 DEF BuilderInv, BuilderType
        <4>2. h \in 0 .. Len(b.tokens)
          BY DEF Appended
        <4>3. Len(b.tokens) \in Nat
          BY <4>1
        <4> QED
          BY <2>1, <4>1, <4>2, <4>3
      <3>3. b.leading < i
        BY <1>12, <2>1, <3>1, <3>2 DEF BuilderInv
      <3>4. h # 0
        BY <2>1
      <3> QED
        BY <1>8, <3>3, <3>4
    <2>2. CASE i \in p + 1 .. e
      BY <1>2, <1>3, <1>6, <1>7, <1>8, <2>2
    <2> QED
      BY <1>6, <1>12, <2>1, <2>2
  <1>13. ASSUME NEW i \in r.start + 1 .. Len(r.trains), r.trains[i] # 0
         PROVE  r.start = Len(turns[r.trains[i]].prompt)
    <2>1. i \in p + 1 .. e
      BY <1>2, <1>3, <1>4, <1>13 DEF e
    <2>2. i \in DOMAIN r.trains /\ ~(i \in 1 .. h)
      BY <1>2, <1>3, <1>6, <1>7, <2>1
    <2>3. r.trains[i] = hd
      BY <1>6, <1>13, <2>2
    <2> QED
      BY <1>4, <1>5, <2>3
  <1> QED
    BY <1>4, <1>9, <1>10, <1>11, <1>12, <1>13 DEF BuilderInv

\* What an append adds to the trained turns, and what it takes from them.
LEMMA AppendedTrains ==
    ASSUME TypeOK, todo # <<>>, NEW b, NEW r, NEW h, Keeps(b, h), Appended(b, r, h),
           NEW k \in Turn
    PROVE  /\ TrainsTurn(r, k) =>
                 \/ BuilderInv(b) /\ TrainsTurn(b, k)
                 \/ k = Head(todo) /\ Head(todo) \notin claimed
           /\ k = Head(todo) /\ k \notin claimed /\ Output # <<>> => TrainsTurn(r, k)
           /\ TrainsTurn(b, k) =>
                 \/ TrainsTurn(r, k)
                 \/ h # Len(b.tokens) /\ \E i \in b.start + 1 .. Len(b.trains) : b.trains[i] = k
  <1> DEFINE hd == Head(todo)
             p == Len(Prompt)
             e == Len(Full(hd))
  <1>1. hd \in Turn
    BY HeadOfTodo
  <1>2. p \in Nat
    BY HeadOfTodo
  <1>3. e \in Nat
    BY <1>1, FullFacts
  <1>4. /\ DOMAIN r.trains = 1 .. e
        /\ h <= p
        /\ \A i \in DOMAIN r.trains : r.trains[i] # 0 =>
              \/ i \in 1 .. h /\ r.trains[i] = b.trains[i]
              \/ i \in p + 1 .. e /\ r.trains[i] = Trained /\ Trained = hd
    BY AppendedMask
  <1>5. h \in Nat
    BY AppendedMask
  <1>6. k # 0
    BY FullFacts
  <1>7. ASSUME NEW i \in 1 .. h, b.trains[i] # 0
        PROVE  BuilderInv(b) /\ i \in DOMAIN b.trains
    <2>1. BuilderInv(b)
      BY <1>7, KeepsWhole
    <2>2. b.trains \in Seq(Nat) /\ Len(b.trains) = Len(b.tokens)
      BY <2>1 DEF BuilderInv, BuilderType
    <2>3. h \in 0 .. Len(b.tokens)
      BY DEF Appended
    <2>4. Len(b.tokens) \in Nat
      BY <2>2
    <2> QED
      BY <2>1, <2>2, <2>3, <2>4
  <1>8. ASSUME TrainsTurn(r, k)
        PROVE  \/ BuilderInv(b) /\ TrainsTurn(b, k)
               \/ k = hd /\ hd \notin claimed
    <2>1. PICK i \in DOMAIN r.trains : r.trains[i] = k
      BY <1>8 DEF TrainsTurn
    <2>2. CASE i \in 1 .. h /\ r.trains[i] = b.trains[i]
      BY <1>6, <1>7, <2>1, <2>2 DEF TrainsTurn
    <2>3. CASE r.trains[i] = Trained /\ Trained = hd
      <3>1. hd # 0
        BY <1>6, <2>1, <2>3
      <3>2. hd \notin claimed
        BY <2>3, <3>1 DEF Trained
      <3> QED
        BY <2>1, <2>3, <3>2
    <2> QED
      BY <1>4, <1>6, <2>1, <2>2, <2>3
  <1>9. ASSUME k = hd, k \notin claimed, Output # <<>>
        PROVE  TrainsTurn(r, k)
    <2>1. Trained = hd
      BY <1>9 DEF Trained
    <2>2. Len(Output) \in Nat
      BY HeadOfTodo
    <2>3. Len(Output) # 0
      BY <1>9, HeadOfTodo
    <2>4. e = p + Len(Output)
      BY HeadOfTodo, ConcatProperties
    <2>5. e \in p + 1 .. e
      BY <1>2, <1>3, <2>2, <2>3, <2>4
    <2>6. r.trains[e] = Trained
      BY <2>5 DEF Appended
    <2>7. e \in DOMAIN r.trains
      BY <1>2, <1>4, <2>5
    <2> QED
      BY <1>9, <2>1, <2>6, <2>7 DEF TrainsTurn
  <1>10. ASSUME TrainsTurn(b, k)
         PROVE  \/ TrainsTurn(r, k)
                \/ h # Len(b.tokens) /\ \E i \in b.start + 1 .. Len(b.trains) : b.trains[i] = k
    <2>1. PICK i \in DOMAIN b.trains : b.trains[i] = k
      BY <1>10 DEF TrainsTurn
    <2>2. BuilderInv(b) /\ h \in {b.start, Len(b.tokens)}
      <3>1. b # NewBuilder
        BY <2>1 DEF NewBuilder
      <3> QED
        BY <3>1 DEF Keeps
    <2>3. b.trains \in Seq(Nat) /\ Len(b.trains) = Len(b.tokens) /\ b.start \in 0 .. Len(b.tokens)
      BY <2>2 DEF BuilderInv, BuilderType
    <2>4. Len(b.tokens) \in Nat
      BY <2>3
    <2>5. i \in 1 .. Len(b.tokens)
      BY <2>1, <2>3
    <2>6. CASE i \in 1 .. h
      <3>1. r.trains[i] = k
        BY <2>1, <2>6 DEF Appended
      <3>2. p <= e
        BY <1>1, <1>2, <2>6, AppendedBuilder, SMTT(30) DEF Appended, BuilderInv
      <3>3. i \in DOMAIN r.trains
        BY <1>2, <1>3, <1>4, <1>5, <2>6, <3>2
      <3> QED
        BY <3>1, <3>3 DEF TrainsTurn
    <2>7. CASE ~(i \in 1 .. h)
      <3>1. h # Len(b.tokens)
        BY <2>5, <2>7
      <3>2. h = b.start
        BY <2>2, <3>1
      <3>3. i \in b.start + 1 .. Len(b.trains)
        BY <1>5, <2>3, <2>4, <2>5, <2>7, <3>2
      <3> QED
        BY <2>1, <3>1, <3>3
    <2> QED
      BY <2>6, <2>7
  <1> QED
    BY <1>8, <1>9, <1>10
-----------------------------------------------------------------------------
(***************************************************************************)
(* The invariant is inductive.                                             *)
(***************************************************************************)
LEMMA InitInv == ASSUME Init PROVE IInv
  <1>1. TypeOK
    <2>1. <<>> \in Seq(Turn) /\ <<>> \in Seq(DOMAIN nodes)
      OBVIOUS
    <2> QED
      BY <2>1 DEF Init, TypeOK
  <1>2. Turn = {}
    BY DEF Init, Turn
  <1>3. PhaseInv /\ PendingInv
    BY DEF Init, PhaseInv, PendingInv
  <1>4. FitsInv /\ NodeInv
    BY <1>2 DEF FitsInv, NodeInv
  <1>5. builders = <<>> /\ samples = <<>> /\ claimed = {}
    BY DEF Init
  <1>6. BuildersInv /\ SamplesInv /\ OnceInv /\ CarriedInv
    BY <1>5 DEF BuildersInv, SamplesInv, OnceInv, CarriedInv
  <1> QED
    BY <1>1, <1>3, <1>4, <1>6 DEF IInv

\* A recorded turn disturbs nothing: no chain is built yet.
LEMMA RunTurnInv == ASSUME IInv, RunTurn PROVE IInv'
  <1> USE DEF IInv
  <1>a. PICK messages \in {m \in Prompts : Len(m) <= MaxPrompt} :
             \E prompt \in Renderings(messages) :
             \E text \in Texts : \E output \in Tokenizations[text] :
                Fits(prompt, output) /\ RecordTurn(messages, prompt, output, text)
    BY DEF RunTurn
  <1>b. PICK prompt \in Renderings(messages), text \in Texts :
             \E output \in Tokenizations[text] :
                Fits(prompt, output) /\ RecordTurn(messages, prompt, output, text)
    BY <1>a
  <1>1. PICK output \in Tokenizations[text] :
             Fits(prompt, output) /\ RecordTurn(messages, prompt, output, text)
    BY <1>b
  <1>2. messages \in Seq(Message)
    BY PromptsType
  <1>3. prompt \in Seq(Int)
    BY <1>2, InputsAssumption, RenderingsType
  <1>4. output \in Seq(Int)
    BY InputsAssumption DEF InputsAssumption
  <1>5. /\ nodes' \in Seq(NodeType)
        /\ \A n \in DOMAIN nodes' : nodes'[n].parent < n /\ nodes'[n].turn <= Len(turns')
        /\ turns' \in Seq([prompt : Seq(Int), output : Seq(Int)])
        /\ Len(turns') = Len(turns) + 1
        /\ \A k \in Turn : turns'[k] = turns[k]
        /\ turns'[Len(turns) + 1] = [prompt |-> prompt, output |-> output]
        /\ absorbed \subseteq absorbed'
        /\ absorbed' \subseteq absorbed \cup Turn \cup {0}
        /\ \A n \in DOMAIN nodes :
              \/ nodes[n].turn \in absorbed'
              \/ n \in DOMAIN nodes' /\ nodes'[n].turn = nodes[n].turn
        /\ \E n \in DOMAIN nodes' : nodes'[n].turn = Len(turns) + 1
    BY <1>1, <1>2, <1>3, <1>4, RecordTurnFacts
  <1>6. UNCHANGED <<args, pc, chain>>
    BY <1>1 DEF RecordTurn
  <1>7. /\ fork_threshold' = fork_threshold /\ max_context' = max_context /\ pc' = pc
        /\ leaves' = leaves /\ todo' = todo /\ builders' = builders
        /\ claimed' = claimed /\ samples' = samples
    BY <1>6 DEF args, chain
  <1>8. /\ pc = "record" /\ leaves = <<>> /\ todo = <<>> /\ builders = <<>>
        /\ samples = <<>> /\ claimed = {}
    BY DEF RunTurn, PhaseInv
  <1>9. Len(turns) \in Nat
    BY Parents
  <1>10. Turn' = Turn \cup {Len(turns) + 1}
    <2>1. Turn' = 1 .. Len(turns) + 1
      BY <1>5 DEF Turn
    <2> QED
      BY <1>9, <2>1 DEF Turn
  <1>11. TypeOK'
    <2>1. absorbed \subseteq Turn \cup {0}
      BY DEF TypeOK
    <2>2. absorbed' \subseteq Turn' \cup {0}
      BY <1>5, <1>10, <2>1
    <2>3. fork_threshold' \in ForkThresholds /\ max_context' \in MaxContexts /\ pc' \in {"record", "linearise", "done"}
      BY <1>7 DEF TypeOK
    <2>4. leaves' \in Seq(DOMAIN nodes') /\ todo' \in Seq(Turn')
      <3>1. leaves' = <<>> /\ todo' = <<>>
        BY <1>7, <1>8
      <3> QED
        BY <3>1
    <2>5. builders' = <<>> /\ samples' = <<>> /\ claimed' = {}
      BY <1>7, <1>8
    <2>6. /\ builders' \in Seq(BuilderType')
          /\ \A n \in DOMAIN builders' : Len(builders'[n].trains) = Len(builders'[n].tokens)
          /\ samples' \in Seq(SampleType') /\ claimed' \subseteq Turn'
      BY <2>5
    <2>7. NodeType' = NodeType
      BY DEF NodeType
    <2> QED
      BY ONLY <1>5, <2>2, <2>3, <2>4, <2>6, <2>7 DEF TypeOK
  <1>12. PhaseInv' /\ PendingInv'
    BY <1>7, <1>8 DEF PhaseInv, PendingInv
  <1>13. FitsInv'
    <2> SUFFICES ASSUME NEW k \in Turn'
                 PROVE  Fits(turns[k].prompt, turns[k].output)'
      BY DEF FitsInv
    <2>1. CASE k \in Turn
      <3>1. Fits(turns[k].prompt, turns[k].output)
        BY <2>1 DEF FitsInv
      <3> QED
        BY <1>5, <1>7, <2>1, <3>1 DEF Fits
    <2>2. CASE k = Len(turns) + 1
      <3>1. Fits(prompt, output)
        BY <1>1
      <3>2. turns'[k] = [prompt |-> prompt, output |-> output]
        BY <1>5, <2>2
      <3>3. turns'[k].prompt = prompt /\ turns'[k].output = output
        BY ONLY <3>2
      <3> QED
        BY ONLY <3>1, <3>3, <1>7 DEF Fits
    <2> QED
      BY <1>10, <2>1, <2>2
  <1>14. NodeInv'
    <2> SUFFICES ASSUME NEW k \in Turn', k \notin absorbed'
                 PROVE  \E n \in DOMAIN nodes' : nodes'[n].turn = k
      BY DEF NodeInv
    <2>1. CASE k \in Turn
      <3>1. PICK n \in DOMAIN nodes : nodes[n].turn = k
        BY <1>5, <2>1 DEF NodeInv
      <3> QED
        BY <1>5, <3>1
    <2>2. CASE k = Len(turns) + 1
      BY <1>5, <2>2
    <2> QED
      BY <1>10, <2>1, <2>2
  <1>15. BuildersInv' /\ SamplesInv' /\ OnceInv' /\ CarriedInv'
    <2>1. builders' = <<>> /\ samples' = <<>> /\ claimed' = {}
      BY <1>7, <1>8
    <2> QED
      BY <2>1 DEF BuildersInv, SamplesInv, OnceInv, CarriedInv
  <1> QED
    BY <1>11, <1>12, <1>13, <1>14, <1>15

\* What keeps the tree and its turns.
LEMMA SameTree ==
    ASSUME UNCHANGED <<args, tree>>
    PROVE  /\ max_context' = max_context /\ nodes' = nodes /\ turns' = turns
           /\ Turn' = Turn
           /\ Generated' = Generated /\ Leaves' = Leaves
           /\ \A b : BuilderInv(b)' <=> BuilderInv(b)
           /\ \A s : SampleInv(s)' <=> SampleInv(s)
           /\ FitsInv => FitsInv'
  <1>1. /\ fork_threshold' = fork_threshold /\ max_context' = max_context
        /\ nodes' = nodes /\ turns' = turns
    BY DEF args, tree
  <1>2. Turn' = Turn
    BY <1>1 DEF Turn
  <1>3. Generated' = Generated
    BY <1>1 DEF Generated
  <1>4. Leaves' = Leaves
    BY <1>1 DEF Leaves, Children
  <1>5. \A t, r, o : Carries(t, r, o)' <=> Carries(t, r, o)
    BY <1>1, <1>2 DEF Carries, Full
  <1>6. ASSUME NEW b
        PROVE  BuilderInv(b)' <=> BuilderInv(b)
    BY <1>1, <1>5 DEF BuilderInv, BuilderType
  <1>7. ASSUME NEW s
        PROVE  SampleInv(s)' <=> SampleInv(s)
    BY <1>1, <1>5 DEF SampleInv, SampleType
  <1>8. FitsInv => FitsInv'
    BY <1>1, <1>2 DEF FitsInv, Fits
  <1> QED
    BY <1>1, <1>2, <1>3, <1>4, <1>6, <1>7, <1>8

\* A generated turn is on the way to some leaf.
LEMMA OnTheWayToALeaf ==
    ASSUME TypeOK, NEW n \in DOMAIN nodes, nodes[n].turn # 0
    PROVE  \E m \in Leaves : nodes[n].turn \in ToSet(Generated[m])
  <1> DEFINE k == nodes[n].turn
             N == Len(nodes)
             S == {m \in 1 .. N : k \in ToSet(Generated[m])}
  <1>1. N \in Nat
    BY Parents
  <1>2. DOMAIN nodes = 1 .. N
    BY Parents
  <1>3. ASSUME NEW m \in 1 .. N
        PROVE  /\ Generated[m] \in Seq(Turn)
               /\ nodes[m].parent \in 0 .. N
               /\ Generated[nodes[m].parent] \in Seq(Turn)
               /\ Generated[m] = IF nodes[m].turn = 0 THEN Generated[nodes[m].parent]
                                 ELSE Append(Generated[nodes[m].parent], nodes[m].turn)
    <2>1. nodes[m].parent \in 0 .. N
      BY <1>1, Parents
    <2>2. m \in 0 .. N
      BY <1>1
    <2> HIDE DEF N
    <2> QED
      BY <2>1, <2>2, GeneratedFacts DEF N
  <1>4. n \in S
    <2>1. n \in 1 .. N
      BY <1>2
    <2> DEFINE above == Generated[nodes[n].parent]
    <2>2. above \in Seq(Turn) /\ Generated[n] = Append(above, k)
      BY <1>3, <2>1
    <2> HIDE DEF above, k
    <2>3. Len(above) + 1 \in DOMAIN Append(above, k) /\ Append(above, k)[Len(above) + 1] = k
      BY <2>2
    <2> QED
      BY <2>1, <2>2, <2>3 DEF ToSet
  <1>5. S \subseteq Nat /\ S # {} /\ \A x \in S : x <= N
    BY <1>1, <1>4
  <1> HIDE DEF k
  <1>6. PICK m \in S : \A x \in S : x <= m
    <2> HIDE DEF S, N
    <2> QED  BY <1>1, <1>5, GreatestNatural, Zenon
  <1>7. ASSUME NEW c \in Children(m)
        PROVE  FALSE
    <2>1. c \in 1 .. N /\ nodes[c].parent = m
      BY <1>2 DEF Children
    <2>2. m < c
      BY <2>1, Parents
    <2> DEFINE above == Generated[m]
    <2>3. /\ above \in Seq(Turn)
          /\ Generated[c] = above \/ Generated[c] = Append(above, nodes[c].turn)
      BY <1>3, <2>1
    <2>4. k \in ToSet(above)
      OBVIOUS
    <2> HIDE DEF above
    <2>5. k \in ToSet(Generated[c])
      <3>1. PICK i \in DOMAIN above : above[i] = k
        BY <2>4 DEF ToSet
      <3> DEFINE x == nodes[c].turn
      <3> HIDE DEF x
      <3>2. i \in DOMAIN Append(above, x) /\ Append(above, x)[i] = k
        BY <2>3, <3>1
      <3> QED
        BY <2>3, <3>1, <3>2 DEF ToSet, x
    <2>6. c \in S
      BY <2>1, <2>5
    <2>7. c <= m
      BY <1>6, <2>6
    <2>8. c \in Nat /\ m \in Nat
      BY <2>1, <1>1, <1>5
    <2> QED
      BY ONLY <2>2, <2>7, <2>8
  <1>8. m \in Leaves
    BY <1>2, <1>7 DEF Leaves
  <1> QED
    BY <1>6, <1>8 DEF k

\* The session is over: each turn is on the way to a leaf, or absorbed.
LEMMA FinishSessionInv == ASSUME IInv, FinishSession PROVE IInv'
  <1> USE DEF IInv
  <1>1. PICK order \in SetToSeqs(Leaves) : leaves' = order
    BY DEF FinishSession
  <1>2. /\ UNCHANGED <<args, tree>> /\ pc = "record" /\ pc' = "linearise"
        /\ todo' = todo /\ builders' = builders /\ claimed' = claimed
        /\ samples' = samples /\ absorbed' = absorbed
    BY DEF FinishSession
  <1>3. /\ max_context' = max_context /\ nodes' = nodes /\ turns' = turns
        /\ Turn' = Turn /\ Generated' = Generated
    BY <1>2, SameTree
  <1>4. todo = <<>> /\ builders = <<>> /\ samples = <<>> /\ claimed = {}
    BY <1>2 DEF PhaseInv
  <1>5. Leaves \subseteq DOMAIN nodes /\ IsFiniteSet(Leaves)
    <2>1. Leaves \subseteq 1 .. Len(nodes)
      BY Parents DEF Leaves
    <2>2. IsFiniteSet(1 .. Len(nodes))
      BY Parents, FS_Interval
    <2> QED
      BY <2>1, <2>2, FS_Subset DEF Leaves
  <1>6. order \in Seq(Leaves)
    BY <1>5, OrderOfSet
  <1>7. TypeOK'
    <2>1. leaves' \in Seq(DOMAIN nodes)
      BY <1>1, <1>5, <1>6, SeqMonotonic
    <2>2. leaves' \in Seq(DOMAIN nodes')
      BY <1>3, <2>1
    <2>3. fork_threshold' = fork_threshold
      BY <1>2 DEF args
    <2> QED
      BY <1>2, <1>3, <2>2, <2>3 DEF TypeOK, BuilderType, SampleType, NodeType
  <1>8. PendingInv'
    <2> SUFFICES ASSUME NEW k \in Turn, k \notin absorbed
                 PROVE  \E i \in DOMAIN leaves' : k \in ToSet(Generated[leaves'[i]])
      BY <1>2, <1>3 DEF PendingInv
    <2>1. PICK n \in DOMAIN nodes : nodes[n].turn = k
      BY DEF NodeInv
    <2>2. k # 0
      BY FullFacts
    <2>3. PICK m \in Leaves : k \in ToSet(Generated[m])
      BY <2>1, <2>2, OnTheWayToALeaf
    <2>4. PICK i \in DOMAIN order : order[i] = m
      BY <1>5, OrderOfSet
    <2> QED
      BY <1>1, <2>3, <2>4
  <1>9. PhaseInv' /\ FitsInv' /\ NodeInv'
    BY <1>2, <1>3, SameTree DEF PhaseInv, NodeInv
  <1>10. BuildersInv' /\ SamplesInv' /\ OnceInv' /\ CarriedInv'
    BY <1>2, <1>4 DEF BuildersInv, SamplesInv, OnceInv, CarriedInv
  <1> QED
    BY <1>7, <1>8, <1>9, <1>10

\* What an action that keeps the tree and the builders keeps.
LEMMA SameChain ==
    ASSUME IInv, UNCHANGED <<args, tree, builders, claimed, samples, absorbed>>
    PROVE  FitsInv' /\ NodeInv' /\ BuildersInv' /\ SamplesInv' /\ OnceInv' /\ CarriedInv'
  <1> USE DEF IInv
  <1>1. /\ builders' = builders /\ claimed' = claimed /\ samples' = samples
        /\ absorbed' = absorbed
    OBVIOUS
  <1>2. UNCHANGED <<args, tree>>
    OBVIOUS
  <1>3. /\ nodes' = nodes /\ turns' = turns /\ Turn' = Turn
        /\ FitsInv'
        /\ \A b : BuilderInv(b)' <=> BuilderInv(b)
        /\ \A s : SampleInv(s)' <=> SampleInv(s)
    BY <1>2, SameTree
  <1>4. NodeInv'
    BY <1>1, <1>3 DEF NodeInv
  <1>5. BuildersInv' /\ SamplesInv'
    BY <1>1, <1>3 DEF BuildersInv, SamplesInv
  <1>6. OnceInv' /\ CarriedInv'
    BY <1>1, <1>3 DEF OnceInv, CarriedInv, Claimed, Apart, TrainsTurn, Carried
  <1> QED
    BY <1>3, <1>4, <1>5, <1>6

LEMMA NextChainInv == ASSUME IInv, NextChain PROVE IInv'
  <1> USE DEF IInv
  <1>1. /\ UNCHANGED <<args, tree, builders, claimed, samples, absorbed>>
        /\ pc' = pc /\ pc = "linearise" /\ todo = <<>> /\ leaves # <<>>
        /\ leaves' = Tail(leaves) /\ todo' = Generated[Head(leaves)]
    BY DEF NextChain, Between
  <1>2. UNCHANGED <<args, tree>>
    BY <1>1
  <1>3. /\ max_context' = max_context /\ nodes' = nodes /\ turns' = turns
        /\ Turn' = Turn /\ Generated' = Generated
    BY <1>2, SameTree
  <1>4. leaves \in Seq(DOMAIN nodes)
    BY DEF TypeOK
  <1>5. Head(leaves) \in DOMAIN nodes /\ Tail(leaves) \in Seq(DOMAIN nodes)
    BY <1>1, <1>4
  <1>6. Generated[Head(leaves)] \in Seq(Turn)
    <2>1. Head(leaves) \in 0 .. Len(nodes)
      BY <1>5, Parents
    <2> QED
      BY <2>1, GeneratedFacts
  <1>7. TypeOK'
    <2>1. leaves' \in Seq(DOMAIN nodes') /\ todo' \in Seq(Turn')
      BY <1>1, <1>3, <1>5, <1>6
    <2>2. fork_threshold' = fork_threshold
      BY <1>2 DEF args
    <2>3. builders' = builders /\ claimed' = claimed /\ samples' = samples /\ absorbed' = absorbed
      BY <1>1
    <2> QED
      BY <1>1, <1>3, <2>1, <2>2, <2>3 DEF TypeOK, BuilderType, SampleType, NodeType
  <1>8. PhaseInv'
    BY <1>1 DEF PhaseInv
  <1>9. PendingInv'
    <2> SUFFICES ASSUME NEW k \in Turn, k \notin absorbed, k \notin claimed
                 PROVE  \/ k \in ToSet(todo')
                        \/ \E i \in DOMAIN leaves' : k \in ToSet(Generated[leaves'[i]])
      BY <1>1, <1>3 DEF PendingInv
    <2>1. k \notin ToSet(todo)
      BY <1>1 DEF ToSet
    <2>2. PICK i \in DOMAIN leaves : k \in ToSet(Generated[leaves[i]])
      BY <1>1, <2>1 DEF PendingInv
    <2>3. /\ Len(Tail(leaves)) = Len(leaves) - 1
          /\ \A j \in 1 .. Len(Tail(leaves)) : Tail(leaves)[j] = leaves[j + 1]
      BY <1>1, <1>4, HeadTailProperties
    <2>4. Len(leaves) \in Nat /\ DOMAIN leaves = 1 .. Len(leaves)
      BY <1>4
    <2>5. CASE i = 1
      <3>1. leaves[i] = Head(leaves)
        BY <1>4, <2>5
      <3> QED
        BY <1>1, <2>2, <3>1
    <2>6. CASE i # 1
      <3>1. i - 1 \in 1 .. Len(Tail(leaves)) /\ (i - 1) + 1 = i
        BY <2>2, <2>3, <2>4, <2>6
      <3>2. Tail(leaves)[i - 1] = leaves[i]
        BY <2>3, <3>1
      <3>3. i - 1 \in DOMAIN Tail(leaves)
        BY <1>5, <3>1
      <3> QED
        BY <1>1, <2>2, <3>2, <3>3
    <2> QED
      BY <2>5, <2>6
  <1> QED
    BY <1>1, <1>7, <1>8, <1>9, SameChain

\* The first turn of todo is appended: r takes the place of b after front, where
\* b is the last builder, or there is none and r is a new one.
Appends(front, b, r, h) ==
    /\ pc = "linearise" /\ todo # <<>>
    /\ builders' = Append(front, r)
    /\ Keeps(b, h) /\ Appended(b, r, h)
    /\ \/ front \in Seq(BuilderType) /\ builders = Append(front, b)
       \/ builders = front /\ b = NewBuilder
    /\ todo' = Tail(todo) /\ claimed' = claimed \cup {Head(todo)}
    /\ UNCHANGED <<args, tree, pc, leaves, samples>>
    /\ absorbed \subseteq absorbed' /\ absorbed' \subseteq Turn \cup {0}
    /\ h # Len(b.tokens) => \A i \in b.start + 1 .. Len(b.trains) : b.trains[i] \in absorbed'

\* The builders before and after an append.
LEMMA AppendsBuilders ==
    ASSUME IInv, NEW front, NEW b, NEW r, NEW h, Appends(front, b, r, h)
    PROVE  /\ front \in Seq(BuilderType) /\ Len(front) \in Nat
           /\ DOMAIN builders' = 1 .. Len(front) + 1
           /\ builders'[Len(front) + 1] = r
           /\ \A n \in 1 .. Len(front) : n \in DOMAIN builders /\ builders'[n] = front[n] /\ builders[n] = front[n]
           /\ \A n \in DOMAIN builders :
                 n \in 1 .. Len(front) \/ (n = Len(front) + 1 /\ builders[n] = b)
           /\ \A k \in Turn : TrainsTurn(b, k) =>
                 Len(front) + 1 \in DOMAIN builders /\ builders[Len(front) + 1] = b
  <1>1. builders \in Seq(BuilderType)
    BY DEF IInv, TypeOK
  <1>2. builders' = Append(front, r)
    BY DEF Appends
  <1>3. front \in Seq(BuilderType)
    BY <1>1 DEF Appends
  <1>4. r \in BuilderType
    BY DEF Appends, Appended
  <1>5. Len(front) \in Nat
    BY <1>3
  <1>6. /\ DOMAIN builders' = 1 .. Len(front) + 1
        /\ builders'[Len(front) + 1] = r
        /\ \A n \in 1 .. Len(front) : builders'[n] = front[n]
    BY ONLY <1>2, <1>3, <1>4, <1>5, AppendProperties
  <1>7. CASE front \in Seq(BuilderType) /\ builders = Append(front, b)
    <2>1. /\ DOMAIN builders = 1 .. Len(front) + 1
          /\ builders[Len(front) + 1] = b
          /\ \A n \in 1 .. Len(front) : builders[n] = front[n]
      BY ONLY <1>7, <1>3, <1>5
    <2> QED
      BY ONLY <1>3, <1>5, <1>6, <2>1
  <1>8. CASE builders = front /\ b = NewBuilder
    <2>1. DOMAIN builders = 1 .. Len(front)
      BY <1>3, <1>8
    <2>2. \A k \in Turn : ~TrainsTurn(b, k)
      BY <1>8 DEF TrainsTurn, NewBuilder
    <2> QED
      BY <1>3, <1>5, <1>6, <1>8, <2>1, <2>2
  <1> QED
    BY <1>7, <1>8 DEF Appends

LEMMA AppendsInv ==
    ASSUME IInv, NEW front, NEW b, NEW r, NEW h, Appends(front, b, r, h)
    PROVE  IInv'
  <1> DEFINE hd == Head(todo)
             last == Len(front) + 1
  <1>1. /\ pc = "linearise" /\ todo # <<>>
        /\ Keeps(b, h) /\ Appended(b, r, h)
        /\ todo' = Tail(todo) /\ claimed' = claimed \cup {hd}
        /\ pc' = pc /\ leaves' = leaves /\ samples' = samples
        /\ absorbed \subseteq absorbed' /\ absorbed' \subseteq Turn \cup {0}
        /\ h # Len(b.tokens) => \A i \in b.start + 1 .. Len(b.trains) : b.trains[i] \in absorbed'
    BY DEF Appends
  <1>2. UNCHANGED <<args, tree>>
    BY DEF Appends
  <1>3. /\ max_context' = max_context /\ nodes' = nodes /\ turns' = turns
        /\ Turn' = Turn /\ Generated' = Generated
        /\ \A x : BuilderInv(x)' <=> BuilderInv(x)
        /\ \A s : SampleInv(s)' <=> SampleInv(s)
        /\ FitsInv'
    BY <1>2, SameTree DEF IInv
  <1>4. TypeOK
    BY DEF IInv
  <1>5. /\ hd \in Turn /\ Tail(todo) \in Seq(Turn)
        /\ \A k \in ToSet(todo) : k = hd \/ k \in ToSet(Tail(todo))
    BY <1>1, <1>4, HeadOfTodo
  <1>6. /\ front \in Seq(BuilderType) /\ Len(front) \in Nat
        /\ DOMAIN builders' = 1 .. last
        /\ builders'[last] = r
        /\ \A n \in 1 .. Len(front) : n \in DOMAIN builders /\ builders'[n] = front[n] /\ builders[n] = front[n]
        /\ \A n \in DOMAIN builders : n \in 1 .. Len(front) \/ (n = last /\ builders[n] = b)
        /\ \A k \in Turn : TrainsTurn(b, k) => last \in DOMAIN builders /\ builders[last] = b
    BY AppendsBuilders
  <1>7. Len(front) \in Nat
    BY <1>6
  <1>8. \A n \in 1 .. last : n \in 1 .. Len(front) \/ n = last
    BY <1>7
  <1>9. last \in 1 .. last /\ ~(last \in 1 .. Len(front)) /\ \A n \in 1 .. Len(front) : n \in 1 .. last
    BY <1>7
  <1>10. BuilderInv(r)
    BY <1>1, <1>4, AppendedBuilder
  <1>11. ASSUME NEW k \in Turn
         PROVE  /\ TrainsTurn(r, k) =>
                     \/ last \in DOMAIN builders /\ builders[last] = b /\ TrainsTurn(b, k)
                     \/ k = hd /\ hd \notin claimed
                /\ k = hd /\ k \notin claimed /\ turns[k].output # <<>> => TrainsTurn(r, k)
                /\ TrainsTurn(b, k) => TrainsTurn(r, k) \/ k \in absorbed'
    <2>1. /\ TrainsTurn(r, k) =>
                \/ BuilderInv(b) /\ TrainsTurn(b, k)
                \/ k = Head(todo) /\ Head(todo) \notin claimed
          /\ k = Head(todo) /\ k \notin claimed /\ Output # <<>> => TrainsTurn(r, k)
          /\ TrainsTurn(b, k) =>
                \/ TrainsTurn(r, k)
                \/ h # Len(b.tokens) /\ \E i \in b.start + 1 .. Len(b.trains) : b.trains[i] = k
      BY <1>1, <1>4, AppendedTrains
    <2> QED
      BY <1>1, <1>6, <2>1 DEF Output
  <1> HIDE DEF last, hd
  <1>12. TypeOK'
    <2>1. builders' \in Seq(BuilderType)
      <3>1. r \in BuilderType
        BY <1>1 DEF Appended
      <3> QED
        BY <1>6, <3>1, AppendProperties DEF Appends
    <2>2. \A n \in DOMAIN builders' : Len(builders'[n].trains) = Len(builders'[n].tokens)
      <3> SUFFICES ASSUME NEW n \in 1 .. last
                   PROVE  Len(builders'[n].trains) = Len(builders'[n].tokens)
        BY <1>6
      <3>1. CASE n \in 1 .. Len(front)
        BY <1>4, <1>6, <3>1 DEF TypeOK
      <3>2. CASE n = last
        BY <1>1, <1>6, <3>2 DEF Appended
      <3> QED
        BY <1>8, <3>1, <3>2
    <2>3. todo' \in Seq(Turn') /\ leaves' \in Seq(DOMAIN nodes')
      BY <1>1, <1>3, <1>4, <1>5 DEF TypeOK
    <2>4. fork_threshold' = fork_threshold
      BY <1>2 DEF args
    <2>5. claimed' \subseteq Turn' /\ absorbed' \subseteq Turn' \cup {0}
      BY <1>1, <1>3, <1>4, <1>5 DEF TypeOK
    <2>6. BuilderType' = BuilderType /\ NodeType' = NodeType /\ SampleType' = SampleType
      BY DEF BuilderType, NodeType, SampleType
    <2> QED
      BY <1>1, <1>3, <1>4, <2>1, <2>2, <2>3, <2>4, <2>5, <2>6 DEF TypeOK
  <1>13. PhaseInv'
    BY <1>1 DEF PhaseInv
  <1>14. NodeInv'
    BY <1>1, <1>3 DEF NodeInv, IInv
  <1>15. PendingInv'
    <2> SUFFICES ASSUME NEW k \in Turn, k \notin absorbed'
                 PROVE  \/ k \in claimed'
                        \/ k \in ToSet(todo')
                        \/ \E i \in DOMAIN leaves' : k \in ToSet(Generated'[leaves'[i]])
      BY <1>3 DEF PendingInv
    <2>1. \/ k \in claimed
          \/ k \in ToSet(todo)
          \/ \E i \in DOMAIN leaves : k \in ToSet(Generated[leaves[i]])
      BY <1>1 DEF PendingInv, IInv
    <2> QED
      BY <1>1, <1>3, <1>5, <2>1
  <1>16. BuildersInv'
    <2> SUFFICES ASSUME NEW n \in 1 .. last
                 PROVE  BuilderInv(builders'[n])
      BY <1>3, <1>6 DEF BuildersInv
    <2>1. CASE n \in 1 .. Len(front)
      BY <1>6, <2>1 DEF BuildersInv, IInv
    <2>2. CASE n = last
      BY <1>6, <1>10, <2>2
    <2> QED
      BY <1>8, <2>1, <2>2
  <1>17. SamplesInv'
    BY <1>1, <1>3 DEF SamplesInv, IInv
  <1>18. OnceInv'
    <2>1. /\ \A n \in DOMAIN builders : Claimed(builders[n])
          /\ \A n \in DOMAIN samples : Claimed(samples[n])
          /\ \A m, n \in DOMAIN builders : m # n => Apart(builders[m], builders[n])
          /\ \A m, n \in DOMAIN samples : m # n => Apart(samples[m], samples[n])
          /\ \A m \in DOMAIN builders, n \in DOMAIN samples : Apart(builders[m], samples[n])
      BY DEF IInv, OnceInv
    <2>2. \A x : Claimed(x) => Claimed(x)'
      BY <1>1, <1>3 DEF Claimed, TrainsTurn
    <2>3. \A x, y : Apart(x, y)' <=> Apart(x, y)
      BY <1>3 DEF Apart, TrainsTurn
    <2>4. Claimed(r)'
      BY <1>1, <1>3, <1>11, <2>1 DEF Claimed, TrainsTurn
    <2>5. ASSUME NEW x, Claimed(x), last \in DOMAIN builders => Apart(x, builders[last])
          PROVE  Apart(x, r) /\ Apart(r, x)
      BY <1>11, <2>5 DEF Claimed, Apart
    <2>6. ASSUME NEW n \in 1 .. Len(front)
          PROVE  Apart(builders'[n], r) /\ Apart(r, builders'[n])
      <3>1. n # last
        BY <1>9
      <3> QED
        BY <1>6, <2>1, <2>5, <3>1
    <2>7. ASSUME NEW n \in DOMAIN samples
          PROVE  Apart(r, samples[n])
      <3>1. last \in DOMAIN builders => Apart(samples[n], builders[last])
        BY <2>1 DEF Apart
      <3> QED
        BY <2>1, <2>5, <3>1
    <2>8. \A n \in DOMAIN builders' : Claimed(builders[n])'
      BY <1>6, <1>8, <2>1, <2>2, <2>4
    <2>9. \A n \in DOMAIN samples' : Claimed(samples[n])'
      BY <1>1, <2>1, <2>2
    <2>10. ASSUME NEW m \in 1 .. last, NEW n \in 1 .. last, m # n
           PROVE  Apart(builders'[m], builders'[n])
      <3>1. CASE m \in 1 .. Len(front) /\ n \in 1 .. Len(front)
        BY <1>6, <2>1, <2>10, <3>1
      <3>2. CASE m = last
        BY <1>6, <1>8, <2>6, <2>10, <3>2
      <3>3. CASE n = last
        BY <1>6, <1>8, <2>6, <2>10, <3>3
      <3> QED
        BY <1>8, <3>1, <3>2, <3>3
    <2>11. ASSUME NEW m \in 1 .. last, NEW n \in DOMAIN samples
           PROVE  Apart(builders'[m], samples[n])
      BY <1>6, <1>8, <2>1, <2>7
    <2>12. \A m, n \in DOMAIN builders' : m # n => Apart(builders[m], builders[n])'
      BY <1>6, <2>3, <2>10
    <2>13. \A m, n \in DOMAIN samples' : m # n => Apart(samples[m], samples[n])'
      BY <1>1, <2>1, <2>3
    <2>14. \A m \in DOMAIN builders', n \in DOMAIN samples' : Apart(builders[m], samples[n])'
      BY <1>1, <1>6, <2>3, <2>11
    <2> QED
      BY ONLY <2>8, <2>9, <2>12, <2>13, <2>14 DEF OnceInv
  <1>19. CarriedInv'
    <2> SUFFICES ASSUME NEW k \in Turn, k \in claimed', k \notin absorbed', turns[k].output # <<>>
                 PROVE  Carried(k)'
      BY <1>1, <1>3, <1>4, <1>5 DEF CarriedInv, TypeOK
    <2>1. ASSUME TrainsTurn(r, k)
          PROVE  Carried(k)'
      BY <1>6, <1>9, <2>1 DEF Carried, TrainsTurn
    <2>2. ASSUME NEW n \in DOMAIN samples, TrainsTurn(samples[n], k)
          PROVE  Carried(k)'
      BY <1>1, <2>2 DEF Carried, TrainsTurn
    <2>3. ASSUME NEW n \in DOMAIN builders, TrainsTurn(builders[n], k)
          PROVE  Carried(k)'
      <3>1. CASE n \in 1 .. Len(front)
        BY <1>6, <1>9, <2>3, <3>1 DEF Carried, TrainsTurn
      <3>2. CASE builders[n] = b
        BY <1>11, <2>1, <2>3, <3>2
      <3> QED
        BY <1>6, <3>1, <3>2
    <2>4. CASE k \in claimed
      <3>1. Carried(k)
        BY <1>1, <2>4 DEF IInv, CarriedInv
      <3> QED
        BY <2>2, <2>3, <3>1 DEF Carried
    <2>5. CASE k \notin claimed
      <3>1. k = hd
        BY <1>1, <2>5
      <3> QED
        BY <1>11, <2>1, <2>5, <3>1
    <2> QED
      BY <2>4, <2>5
  <1> QED
    BY <1>3, <1>12, <1>13, <1>14, <1>15, <1>16, <1>17, <1>18, <1>19 DEF IInv

LEMMA ForkInv == ASSUME IInv, Fork PROVE IInv'
  <1> DEFINE b == NewBuilder
             r == AppendClean(b)
  <1>1. TypeOK
    BY DEF IInv
  <1>2. pc = "linearise" /\ todo # <<>>
    BY DEF Fork, Appending
  <1>3. /\ builders' = Append(builders, r) /\ absorbed' = absorbed
        /\ todo' = Tail(todo) /\ claimed' = claimed \cup {Head(todo)}
        /\ UNCHANGED <<args, tree, pc, leaves, samples>>
    BY DEF Fork, Claim
  <1>4. b \in BuilderType /\ Len(b.trains) = Len(b.tokens) /\ Len(b.tokens) = 0
    <2>1. <<>> \in Seq(Int) /\ <<>> \in Seq(Nat)
      OBVIOUS
    <2> QED
      BY <2>1 DEF NewBuilder, BuilderType
  <1>5. Clean(b)
    <2>1. Len(Prompt) \in Nat
      BY <1>1, <1>2, HeadOfTodo
    <2> QED
      BY <1>4, <2>1 DEF Clean, Agree
  <1> HIDE DEF b
  <1>6. Appended(b, r, 0)
    BY <1>1, <1>2, <1>4, <1>5, CleanShape
  <1>7. Keeps(b, 0)
    BY DEF Keeps, b
  <1>8. absorbed' \subseteq Turn \cup {0}
    BY <1>1, <1>3 DEF TypeOK
  <1>9. b = NewBuilder
    BY DEF b
  <1> HIDE DEF r
  <1>10. Appends(builders, b, r, 0)
    BY <1>2, <1>3, <1>4, <1>6, <1>7, <1>8, <1>9 DEF Appends
  <1> QED
    BY <1>10, AppendsInv

LEMMA LastBuilder ==
    ASSUME IInv, builders # <<>>
    PROVE  /\ Front(builders) \in Seq(BuilderType)
           /\ builders = Append(Front(builders), Builder)
           /\ Builder \in BuilderType /\ BuilderInv(Builder)
  <1>1. builders \in Seq(BuilderType)
    BY DEF IInv, TypeOK
  <1>2. /\ Front(builders) \in Seq(BuilderType) /\ Last(builders) \in BuilderType
        /\ Len(builders) \in DOMAIN builders /\ Last(builders) = builders[Len(builders)]
        /\ builders = Append(Front(builders), Last(builders))
    BY <1>1, FrontAndLast
  <1>3. BuilderInv(builders[Len(builders)])
    BY <1>2 DEF IInv, BuildersInv
  <1> QED
    BY <1>2, <1>3 DEF Builder

LEMMA ExtendInv == ASSUME IInv, Extend PROVE IInv'
  <1> DEFINE b == Builder
             r == AppendClean(b)
             h == Len(b.tokens)
  <1>1. TypeOK
    BY DEF IInv
  <1>2. pc = "linearise" /\ todo # <<>> /\ builders # <<>> /\ Clean(b)
    BY DEF Extend, Appending
  <1>3. /\ builders' = Append(Front(builders), r) /\ absorbed' = absorbed
        /\ todo' = Tail(todo) /\ claimed' = claimed \cup {Head(todo)}
        /\ UNCHANGED <<args, tree, pc, leaves, samples>>
    BY DEF Extend, Claim
  <1>4. /\ Front(builders) \in Seq(BuilderType) /\ builders = Append(Front(builders), b)
        /\ b \in BuilderType /\ BuilderInv(b)
    BY <1>2, LastBuilder
  <1> HIDE DEF b
  <1>5. Appended(b, r, h)
    <2>1. Len(b.trains) = Len(b.tokens)
      BY <1>4 DEF BuilderInv
    <2> QED
      BY <1>1, <1>2, <1>4, <2>1, CleanShape
  <1> HIDE DEF r
  <1>6. Keeps(b, h)
    BY <1>4 DEF Keeps
  <1>7. absorbed' \subseteq Turn \cup {0}
    BY <1>1, <1>3 DEF TypeOK
  <1>8. Appends(Front(builders), b, r, h)
    BY <1>2, <1>3, <1>4, <1>5, <1>6, <1>7 DEF Appends
  <1> QED
    BY <1>8, AppendsInv

LEMMA RealignInv == ASSUME IInv, Realign PROVE IInv'
  <1> DEFINE b == Builder
             r == AppendRealigned(b)
             h == b.start
  <1>1. TypeOK
    BY DEF IInv
  <1>2. pc = "linearise" /\ todo # <<>> /\ builders # <<>> /\ Agree(b, h)
    BY DEF Realign, Appending, Realigns
  <1>3. /\ builders' = Append(Front(builders), r)
        /\ absorbed' = absorbed \cup {b.trains[i] : i \in b.start + 1 .. Len(b.trains)}
        /\ todo' = Tail(todo) /\ claimed' = claimed \cup {Head(todo)}
        /\ UNCHANGED <<args, tree, pc, leaves, samples>>
    BY DEF Realign, Claim
  <1>4. /\ Front(builders) \in Seq(BuilderType) /\ builders = Append(Front(builders), b)
        /\ b \in BuilderType /\ BuilderInv(b)
    BY <1>2, LastBuilder
  <1> HIDE DEF b
  <1>5. Len(b.trains) = Len(b.tokens) /\ b.start \in 0 .. Len(b.tokens) /\ Carries(b.tokens, b.trains, 0)
    BY <1>4 DEF BuilderInv
  <1>6. Appended(b, r, h)
    BY <1>1, <1>2, <1>4, <1>5, RealignedShape
  <1> HIDE DEF r
  <1>7. Keeps(b, h)
    BY <1>4 DEF Keeps
  <1>8. absorbed' \subseteq Turn \cup {0}
    <2>1. ASSUME NEW i \in b.start + 1 .. Len(b.trains)
          PROVE  b.trains[i] \in Turn \cup {0}
      <3>1. b.trains \in Seq(Nat) /\ b.tokens \in Seq(Int)
        BY <1>4 DEF BuilderType
      <3>2. Len(b.tokens) \in Nat
        BY <3>1
      <3>3. b.start \in Nat
        BY <1>5, <3>2
      <3>4. i \in DOMAIN b.trains
        BY <1>5, <3>1, <3>2, <3>3
      <3> QED
        BY <1>5, <3>4 DEF Carries
    <2> QED
      BY <1>1, <1>3, <2>1 DEF TypeOK
  <1>9. Appends(Front(builders), b, r, h)
    BY <1>2, <1>3, <1>4, <1>6, <1>7, <1>8 DEF Appends
  <1> QED
    BY <1>9, AppendsInv

\* The sample of a builder keeps the whole of each response it trains: the
\* context it is cut at holds them.
LEMMA SampleFacts ==
    ASSUME TypeOK, FitsInv, NEW b, BuilderInv(b)
    PROVE  /\ HasTrainedResponse(b) => SampleInv(Sample(b))
           /\ \A k \in Turn : TrainsTurn(Sample(b), k) => TrainsTurn(b, k)
           /\ \A k \in Turn : TrainsTurn(b, k) => HasTrainedResponse(b) /\ TrainsTurn(Sample(b), k)
           /\ Sample(b) \in SampleType
  <1> DEFINE n == Len(b.tokens)
             d == b.leading
             e == IF max_context > 0 /\ n > max_context THEN max_context ELSE n
             s == Sample(b)
  <1>1. /\ b \in BuilderType /\ Len(b.trains) = n
        /\ b.start \in 0 .. n /\ d <= b.start
        /\ Carries(b.tokens, b.trains, 0)
        /\ \A i \in DOMAIN b.trains : b.trains[i] # 0 => d < i
    BY DEF BuilderInv
  <1>2. b.tokens \in Seq(Int) /\ b.trains \in Seq(Nat)
    BY <1>1 DEF BuilderType
  <1>3. n \in Nat
    BY <1>2
  <1>4. d \in Nat
    BY <1>1 DEF BuilderType
  <1>5. d <= n
    BY <1>1, <1>3, <1>4
  <1>6. DOMAIN b.trains = 1 .. n
    BY <1>1, <1>2
  <1>7. max_context \in Nat
    BY InputsAssumption DEF TypeOK, InputsAssumption
  <1>8. e \in Nat
    BY <1>3, <1>7
  <1>9. e <= n /\ (max_context > 0 => e <= max_context)
    BY <1>3, <1>7
  <1>10. /\ s.tokens = SubSeq(b.tokens, 1, e)
         /\ s.trains = SubSeq(b.trains, d + 1, e)
         /\ s.response_length = e - d
         /\ s = [tokens |-> s.tokens, trains |-> s.trains, response_length |-> s.response_length]
    BY DEF Sample
  \* A trained response ends within the sample.
  <1>11. ASSUME NEW i \in 1 .. n, b.trains[i] # 0
         PROVE  LET k == b.trains[i]
                IN  /\ k \in Turn
                    /\ i \in Len(turns[k].prompt) + 1 .. Len(Full(k))
                    /\ \A q \in 1 .. i : b.tokens[q] = Full(k)[q]
                    /\ \A q \in Len(turns[k].prompt) + 1 .. Len(Full(k)) :
                          q \in 1 .. n /\ b.trains[q] = k /\ d < q
                    /\ Len(Full(k)) <= e
    <2> DEFINE k == b.trains[i]
               p == Len(turns[k].prompt)
               f == Len(Full(k))
    <2>1. /\ k \in Turn
          /\ 0 + i \in p + 1 .. f
          /\ \A q \in 1 .. 0 + i : b.tokens[q] = Full(k)[q]
          /\ \A q \in p + 1 .. f : q - 0 \in DOMAIN b.trains /\ b.trains[q - 0] = k
      BY <1>1, <1>6, <1>11 DEF Carries
    <2>2. p \in Nat
      BY <2>1, FullFacts
    <2>3. f \in Nat
      BY <2>1, FullFacts
    <2>4. 0 + i = i /\ \A q \in p + 1 .. f : q - 0 = q
      BY ONLY <1>3, <2>2, <2>3, i \in 1 .. n
    <2>5. \A q \in p + 1 .. f : q \in 1 .. n /\ b.trains[q] = k /\ d < q
      BY <1>1, <1>6, <1>11, <2>1, <2>4
    <2>6. i \in p + 1 .. f
      BY <2>1, <2>4
    <2> HIDE DEF k, p, f
    <2>7. f <= n
      <3>1. f \in p + 1 .. f
        BY ONLY <2>2, <2>3, <2>6
      <3>2. f \in 1 .. n
        BY <2>5, <3>1
      <3> QED
        BY ONLY <1>3, <3>2
    <2>8. max_context > 0 => f <= max_context
      <3> SUFFICES ASSUME max_context > 0
                   PROVE  f <= max_context
        OBVIOUS
      <3> DEFINE o == Len(turns[k].output)
      <3>1. o \in Nat
        BY <2>1, FullFacts
      <3>2. f = p + o
        BY <2>1, FullFacts DEF f, p
      <3>3. o # 0
        BY ONLY <2>2, <2>6, <3>1, <3>2
      <3>4. turns[k].output # <<>>
        BY <2>1, <3>3, FullFacts
      <3>5. p + o <= max_context
        BY <2>1, <3>4 DEF FitsInv, Fits, p
      <3> QED
        BY <3>2, <3>5
    <2>9. f <= e
      BY <2>7, <2>8
    <2> QED
      BY <2>1, <2>4, <2>5, <2>6, <2>9 DEF k, p, f
  <1> HIDE DEF n, d, e, s
  <1>12. /\ s.tokens \in Seq(Int) /\ Len(s.tokens) = e
         /\ \A q \in 1 .. e : s.tokens[q] = b.tokens[q]
    <2>1. \A q \in 1 .. e : b.tokens[q] \in Int
      BY <1>2, <1>3, <1>8, <1>9, ElementOfSeq DEF n
    <2>2. /\ SubSeq(b.tokens, 1, e) \in Seq(Int)
          /\ Len(SubSeq(b.tokens, 1, e)) = IF 1 <= e THEN e - 1 + 1 ELSE 0
          /\ \A q \in 1 .. e - 1 + 1 : SubSeq(b.tokens, 1, e)[q] = b.tokens[1 + q - 1]
      BY <1>8, <2>1, SubSeqProperties
    <2> QED
      BY ONLY <2>2, <1>8, <1>10
  <1> DEFINE x == IF d + 1 <= e THEN e - d ELSE 0
  <1>13. /\ s.trains \in Seq(Nat) /\ Len(s.trains) = x
         /\ \A q \in 1 .. e - d : s.trains[q] = b.trains[d + q]
    <2>1. \A q \in d + 1 .. e : b.trains[q] \in Nat
      BY <1>1, <1>2, <1>3, <1>4, <1>8, <1>9, ElementOfSeq
    <2>2. d + 1 \in Int /\ e \in Int
      BY <1>4, <1>8
    <2>3. /\ SubSeq(b.trains, d + 1, e) \in Seq(Nat)
          /\ Len(SubSeq(b.trains, d + 1, e)) = IF d + 1 <= e THEN e - (d + 1) + 1 ELSE 0
          /\ \A q \in 1 .. e - (d + 1) + 1 : SubSeq(b.trains, d + 1, e)[q] = b.trains[d + 1 + q - 1]
      BY <2>1, <2>2, SubSeqProperties
    <2> DEFINE t == SubSeq(b.trains, d + 1, e)
    <2> HIDE DEF t
    <2>4. Len(t) = IF d + 1 <= e THEN e - (d + 1) + 1 ELSE 0
      BY <2>3 DEF t
    <2>5. \A q \in 1 .. e - (d + 1) + 1 : t[q] = b.trains[d + 1 + q - 1]
      BY <2>3 DEF t
    <2>6. Len(t) = x
      BY ONLY <1>4, <1>8, <2>4
    <2>7. \A q \in 1 .. e - d : t[q] = b.trains[d + q]
      BY ONLY <1>4, <1>8, <2>5
    <2> QED
      BY <1>10, <2>3, <2>6, <2>7 DEF t
  <1>14. x \in Nat
    BY <1>4, <1>8
  <1>15. DOMAIN s.trains = 1 .. x
    BY <1>13
  <1> HIDE DEF x
  <1>16. s \in SampleType
    <2>1. e - d \in Int
      BY <1>4, <1>8
    <2> QED
      BY ONLY <1>10, <1>12, <1>13, <2>1 DEF SampleType
  \* A position of the sample's mask is one of the builder's, and back.
  <1>17. ASSUME NEW q \in 1 .. x
         PROVE  d + q \in 1 .. n /\ q \in 1 .. e - d /\ s.trains[q] = b.trains[d + q]
    <2>1. q \in 1 .. e - d
      BY <1>4, <1>8 DEF x
    <2>2. d + q \in 1 .. n
      BY <1>3, <1>4, <1>8, <1>9, <2>1
    <2> QED
      BY <1>13, <2>1, <2>2
  <1>18. ASSUME NEW i \in d + 1 .. e
         PROVE  /\ i - d \in 1 .. x /\ d + (i - d) = i
                /\ s.trains[i - d] = b.trains[i]
                /\ x = e - d
    <2>1. x = e - d
      BY <1>4, <1>8 DEF x
    <2>2. i - d \in 1 .. x /\ d + (i - d) = i
      BY <1>4, <1>8, <2>1
    <2> QED
      BY <2>1, <2>2, <1>17
  <1>19. ASSUME NEW i \in 1 .. n, b.trains[i] # 0
         PROVE  i \in d + 1 .. e
    <2> DEFINE f == Len(Full(b.trains[i]))
    <2>1. /\ b.trains[i] \in Turn
          /\ i \in Len(turns[b.trains[i]].prompt) + 1 .. f
          /\ f <= e
      BY <1>11, <1>19
    <2>2. Len(turns[b.trains[i]].prompt) \in Nat
      BY <2>1, FullFacts
    <2>3. f \in Nat
      BY <2>1, FullFacts
    <2> HIDE DEF f
    <2>4. d < i
      BY <1>1, <1>6, <1>19
    <2>5. i <= f
      BY <2>1, <2>2, <2>3
    <2>6. i \in Nat
      BY <1>3
    <2> QED
      BY ONLY <1>4, <1>8, <2>1, <2>3, <2>4, <2>5, <2>6
  <1>20. ASSUME NEW k \in Turn, TrainsTurn(s, k)
         PROVE  TrainsTurn(b, k)
    <2>1. PICK q \in 1 .. x : s.trains[q] = k
      BY <1>15, <1>20 DEF TrainsTurn
    <2> QED
      BY <1>6, <1>17, <2>1 DEF TrainsTurn
  <1>21. ASSUME NEW k \in Turn, TrainsTurn(b, k)
         PROVE  HasTrainedResponse(b) /\ TrainsTurn(s, k)
    <2>1. PICK i \in 1 .. n : b.trains[i] = k
      BY <1>6, <1>21 DEF TrainsTurn
    <2>2. k # 0
      BY FullFacts
    <2>3. i \in d + 1 .. e
      BY <1>19, <2>1, <2>2
    <2>4. i - d \in 1 .. x /\ s.trains[i - d] = k
      BY <1>18, <2>1, <2>3
    <2>5. TrainsTurn(s, k)
      BY <1>15, <2>4 DEF TrainsTurn
    <2>6. i \in b.leading + 1 .. Len(b.trains)
      BY <1>1, <1>3, <1>4, <1>8, <1>9, <2>3 DEF d
    <2> QED
      BY <2>1, <2>2, <2>5, <2>6 DEF HasTrainedResponse
  <1>22. ASSUME HasTrainedResponse(b)
         PROVE  SampleInv(s)
    <2>1. PICK i \in d + 1 .. n : b.trains[i] # 0
      BY <1>1, <1>22 DEF HasTrainedResponse, d
    <2>2. i \in 1 .. n
      BY <1>3, <1>4
    <2>3. i \in d + 1 .. e
      BY <1>19, <2>1, <2>2
    <2>4. /\ i - d \in 1 .. x /\ s.trains[i - d] = b.trains[i]
          /\ x = e - d
      BY <1>18, <2>3
    <2>5. \E q \in DOMAIN s.trains : s.trains[q] # 0
      BY <1>15, <2>1, <2>4
    <2>6. Len(s.tokens) - Len(s.trains) = d /\ Len(s.trains) <= Len(s.tokens)
      BY <1>4, <1>8, <1>12, <1>13, <2>4
    <2>7. s.response_length = Len(s.trains)
      BY <1>10, <1>13, <2>4
    <2>8. Carries(s.tokens, s.trains, d)
      <3> SUFFICES ASSUME NEW q \in 1 .. x, s.trains[q] # 0
                   PROVE  LET k == s.trains[q]
                          IN  /\ k \in Turn
                              /\ d + q \in Len(turns[k].prompt) + 1 .. Len(Full(k))
                              /\ \A j \in 1 .. d + q : s.tokens[j] = Full(k)[j]
                              /\ \A j \in Len(turns[k].prompt) + 1 .. Len(Full(k)) :
                                    j - d \in DOMAIN s.trains /\ s.trains[j - d] = k
        BY <1>15 DEF Carries
      <3> DEFINE k == s.trains[q]
                 p == Len(turns[k].prompt)
                 f == Len(Full(k))
      <3>1. d + q \in 1 .. n /\ q \in 1 .. e - d /\ k = b.trains[d + q]
        BY <1>17
      <3>2. /\ k \in Turn
            /\ d + q \in p + 1 .. f
            /\ \A j \in 1 .. d + q : b.tokens[j] = Full(k)[j]
            /\ \A j \in p + 1 .. f : j \in 1 .. n /\ b.trains[j] = k /\ d < j
            /\ f <= e
        BY <1>11, <3>1
      <3>3. p \in Nat
        BY <3>2, FullFacts
      <3>4. f \in Nat
        BY <3>2, FullFacts
      <3> HIDE DEF k, p, f
      <3>5. \A j \in 1 .. d + q : s.tokens[j] = Full(k)[j]
        <4>1. \A j \in 1 .. d + q : j \in 1 .. e
          BY <1>4, <1>8, <3>1
        <4> QED
          BY <1>12, <3>2, <4>1
      <3>6. ASSUME NEW j \in p + 1 .. f
            PROVE  j - d \in DOMAIN s.trains /\ s.trains[j - d] = k
        <4>1. j \in Nat
          BY <3>3, <3>4
        <4>2. j <= f
          BY <3>3, <3>4
        <4>3. d < j /\ b.trains[j] = k
          BY <3>2
        <4>4. j \in d + 1 .. e
          BY <1>4, <1>8, <3>2, <3>4, <4>1, <4>2, <4>3
        <4> QED
          BY <1>15, <1>18, <4>3, <4>4
      <3> QED
        BY <3>2, <3>5, <3>6 DEF k, p, f
    <2>9. max_context > 0 => Len(s.tokens) <= max_context
      BY <1>9, <1>12
    <2> QED
      BY <1>16, <2>5, <2>6, <2>7, <2>8, <2>9 DEF SampleInv
  <1> QED
    BY <1>16, <1>20, <1>21, <1>22 DEF s

\* A builder leaves the chain as a sample of the turns it trains, or trains none.
LEMMA EmitInv == ASSUME IInv, Emit PROVE IInv'
  <1> DEFINE b == Head(builders)
             s == Sample(b)
             last == Len(samples) + 1
  <1>1. /\ pc = "linearise" /\ todo = <<>> /\ builders # <<>>
        /\ builders' = Tail(builders)
        /\ samples' = IF HasTrainedResponse(b) THEN Append(samples, s) ELSE samples
        /\ pc' = pc /\ leaves' = leaves /\ todo' = todo /\ claimed' = claimed
        /\ absorbed' = absorbed
    BY DEF Emit
  <1>2. UNCHANGED <<args, tree>>
    BY DEF Emit
  <1>3. /\ max_context' = max_context /\ nodes' = nodes /\ turns' = turns
        /\ Turn' = Turn /\ Generated' = Generated
        /\ \A x : BuilderInv(x)' <=> BuilderInv(x)
        /\ \A x : SampleInv(x)' <=> SampleInv(x)
        /\ FitsInv'
    BY <1>2, SameTree DEF IInv
  <1>4. TypeOK
    BY DEF IInv
  <1>5. builders \in Seq(BuilderType)
    BY <1>4 DEF TypeOK
  <1>6. samples \in Seq(SampleType)
    BY <1>4 DEF TypeOK
  <1>7. Len(builders) \in Nat
    BY <1>5
  <1>8. Len(samples) \in Nat
    BY <1>6
  <1>9. DOMAIN builders = 1 .. Len(builders) /\ DOMAIN samples = 1 .. Len(samples)
    BY <1>5, <1>6
  <1>10. /\ builders' \in Seq(BuilderType)
         /\ DOMAIN builders' = 1 .. Len(builders) - 1
         /\ \A n \in 1 .. Len(builders) - 1 : builders'[n] = builders[n + 1]
    <2>1. /\ Tail(builders) \in Seq(BuilderType)
          /\ Len(Tail(builders)) = Len(builders) - 1
          /\ \A n \in 1 .. Len(Tail(builders)) : Tail(builders)[n] = builders[n + 1]
      BY <1>1, <1>5, HeadTailProperties
    <2> QED
      BY <1>1, <2>1
  <1>11. Len(builders) # 0
    BY <1>1, <1>5, EmptySeq
  <1>12. 1 \in DOMAIN builders /\ b = builders[1]
    BY <1>5, <1>7, <1>9, <1>11
  <1>13. ASSUME NEW n \in 1 .. Len(builders) - 1
         PROVE  n + 1 \in DOMAIN builders /\ n + 1 # 1
    BY <1>7, <1>9
  <1>14. ASSUME NEW n \in DOMAIN builders, n # 1
         PROVE  n - 1 \in 1 .. Len(builders) - 1 /\ builders[n] = builders'[n - 1]
    <2>1. n - 1 \in 1 .. Len(builders) - 1 /\ (n - 1) + 1 = n
      BY <1>7, <1>9, <1>14
    <2> QED
      BY <1>10, <2>1
  <1>15. BuilderInv(b)
    BY <1>12 DEF IInv, BuildersInv
  <1>16. /\ HasTrainedResponse(b) => SampleInv(s)
         /\ \A k \in Turn : TrainsTurn(s, k) => TrainsTurn(b, k)
         /\ \A k \in Turn : TrainsTurn(b, k) => HasTrainedResponse(b) /\ TrainsTurn(s, k)
         /\ s \in SampleType
    BY <1>4, <1>15, SampleFacts DEF IInv
  <1> HIDE DEF b, s
  <1>17. ASSUME HasTrainedResponse(b)
         PROVE  /\ samples' = Append(samples, s)
                /\ samples' \in Seq(SampleType)
                /\ DOMAIN samples' = 1 .. last
                /\ samples'[last] = s
                /\ \A n \in 1 .. Len(samples) : samples'[n] = samples[n]
    <2>1. samples' = Append(samples, s)
      BY <1>1, <1>17
    <2> QED
      BY <1>6, <1>8, <1>16, <2>1, AppendProperties
  <1>18. ASSUME ~HasTrainedResponse(b)
         PROVE  samples' = samples
    BY <1>1, <1>18
  <1>19. \A n \in 1 .. last : n \in 1 .. Len(samples) \/ n = last
    BY <1>8
  <1>20. last \in 1 .. last /\ ~(last \in 1 .. Len(samples)) /\ \A n \in 1 .. Len(samples) : n \in 1 .. last
    BY <1>8
  <1> HIDE DEF last
  <1>21. TypeOK'
    <2>1. samples' \in Seq(SampleType)
      BY <1>6, <1>17, <1>18
    <2>2. \A n \in DOMAIN builders' : Len(builders'[n].trains) = Len(builders'[n].tokens)
      BY <1>4, <1>10, <1>13 DEF TypeOK
    <2>3. fork_threshold' = fork_threshold
      BY <1>2 DEF args
    <2>4. BuilderType' = BuilderType /\ NodeType' = NodeType /\ SampleType' = SampleType
      BY DEF BuilderType, NodeType, SampleType
    <2> QED
      BY <1>1, <1>3, <1>4, <1>10, <2>1, <2>2, <2>3, <2>4 DEF TypeOK
  <1>22. PhaseInv' /\ NodeInv' /\ PendingInv'
    BY <1>1, <1>3 DEF PhaseInv, NodeInv, PendingInv, IInv
  <1>23. BuildersInv'
    BY <1>3, <1>10, <1>13 DEF BuildersInv, IInv
  <1>24. SamplesInv'
    <2>1. CASE HasTrainedResponse(b)
      <3> SUFFICES ASSUME NEW n \in 1 .. last
                   PROVE  SampleInv(samples'[n])
        BY <1>3, <1>17, <2>1 DEF SamplesInv
      <3>1. CASE n \in 1 .. Len(samples)
        BY <1>9, <1>17, <2>1, <3>1 DEF SamplesInv, IInv
      <3>2. CASE n = last
        BY <1>16, <1>17, <2>1, <3>2
      <3> QED
        BY <1>19, <3>1, <3>2
    <2>2. CASE ~HasTrainedResponse(b)
      BY <1>3, <1>18, <2>2 DEF SamplesInv, IInv
    <2> QED
      BY <2>1, <2>2
  <1>25. OnceInv'
    <2>1. /\ \A n \in DOMAIN builders : Claimed(builders[n])
          /\ \A n \in DOMAIN samples : Claimed(samples[n])
          /\ \A m, n \in DOMAIN builders : m # n => Apart(builders[m], builders[n])
          /\ \A m, n \in DOMAIN samples : m # n => Apart(samples[m], samples[n])
          /\ \A m \in DOMAIN builders, n \in DOMAIN samples : Apart(builders[m], samples[n])
      BY DEF IInv, OnceInv
    <2>2. \A x : Claimed(x)' <=> Claimed(x)
      BY <1>1, <1>3 DEF Claimed, TrainsTurn
    <2>3. \A x, y : Apart(x, y)' <=> Apart(x, y)
      BY <1>3 DEF Apart, TrainsTurn
    <2>4. Claimed(s)
      BY <1>12, <1>16, <2>1 DEF Claimed
    <2>5. ASSUME NEW x, Apart(b, x)
          PROVE  Apart(s, x) /\ Apart(x, s)
      BY <1>16, <2>5 DEF Apart
    <2>6. ASSUME NEW n \in DOMAIN samples
          PROVE  Apart(s, samples[n]) /\ Apart(samples[n], s)
      BY <1>12, <2>1, <2>5
    <2>7. ASSUME NEW n \in 1 .. Len(builders) - 1
          PROVE  Apart(builders'[n], s)
      <3>1. Apart(b, builders[n + 1])
        BY <1>12, <1>13, <2>1
      <3> QED
        BY <1>10, <2>5, <3>1
    <2>8. \A n \in DOMAIN builders' : Claimed(builders[n])'
      BY <1>10, <1>13, <2>1, <2>2
    <2>9. ASSUME NEW m \in 1 .. Len(builders) - 1, NEW n \in 1 .. Len(builders) - 1, m # n
          PROVE  Apart(builders'[m], builders'[n])
      <3>1. m + 1 # n + 1
        BY <1>7, <2>9
      <3>2. Apart(builders[m + 1], builders[n + 1])
        BY <1>13, <2>1, <3>1
      <3> QED
        BY <1>10, <3>2
    <2>10. \A m, n \in DOMAIN builders' : m # n => Apart(builders[m], builders[n])'
      BY <1>10, <2>3, <2>9
    <2>11. ASSUME NEW m \in 1 .. Len(builders) - 1, NEW n \in DOMAIN samples
           PROVE  Apart(builders'[m], samples[n])
      BY <1>10, <1>13, <2>1
    <2>12. CASE HasTrainedResponse(b)
      <3>1. \A n \in DOMAIN samples' : Claimed(samples[n])'
        BY <1>9, <1>17, <1>19, <2>1, <2>2, <2>4, <2>12
      <3>2. ASSUME NEW m \in 1 .. last, NEW n \in 1 .. last, m # n
            PROVE  Apart(samples'[m], samples'[n])
        <4>1. CASE m \in 1 .. Len(samples) /\ n \in 1 .. Len(samples)
          BY <1>9, <1>17, <2>1, <2>12, <3>2, <4>1
        <4>2. CASE m = last
          BY <1>9, <1>17, <1>19, <2>6, <2>12, <3>2, <4>2
        <4>3. CASE n = last
          BY <1>9, <1>17, <1>19, <2>6, <2>12, <3>2, <4>3
        <4> QED
          BY <1>19, <4>1, <4>2, <4>3
      <3>3. \A m, n \in DOMAIN samples' : m # n => Apart(samples[m], samples[n])'
        BY <1>17, <2>3, <2>12, <3>2
      <3>4. ASSUME NEW m \in 1 .. Len(builders) - 1, NEW n \in 1 .. last
            PROVE  Apart(builders'[m], samples'[n])
        BY <1>9, <1>17, <1>19, <2>7, <2>11, <2>12
      <3>5. \A m \in DOMAIN builders', n \in DOMAIN samples' : Apart(builders[m], samples[n])'
        BY <1>10, <1>17, <2>3, <2>12, <3>4
      <3> QED
        BY ONLY <2>8, <2>10, <3>1, <3>3, <3>5 DEF OnceInv
    <2>13. CASE ~HasTrainedResponse(b)
      <3>1. samples' = samples
        BY <1>18, <2>13
      <3>2. \A n \in DOMAIN samples' : Claimed(samples[n])'
        BY <2>1, <2>2, <3>1
      <3>3. \A m, n \in DOMAIN samples' : m # n => Apart(samples[m], samples[n])'
        BY <2>1, <2>3, <3>1
      <3>4. \A m \in DOMAIN builders', n \in DOMAIN samples' : Apart(builders[m], samples[n])'
        BY <1>10, <2>3, <2>11, <3>1
      <3> QED
        BY ONLY <2>8, <2>10, <3>2, <3>3, <3>4 DEF OnceInv
    <2> QED
      BY <2>12, <2>13
  <1>26. CarriedInv'
    <2> SUFFICES ASSUME NEW k \in Turn, k \in claimed, k \notin absorbed, turns[k].output # <<>>
                 PROVE  Carried(k)'
      BY <1>1, <1>3, <1>4 DEF CarriedInv, TypeOK
    <2>1. Carried(k)
      BY DEF IInv, CarriedInv
    <2>2. ASSUME NEW n \in DOMAIN samples, TrainsTurn(samples[n], k)
          PROVE  Carried(k)'
      <3>1. n \in DOMAIN samples' /\ samples'[n] = samples[n]
        BY <1>9, <1>17, <1>18, <1>20
      <3> QED
        BY <2>2, <3>1 DEF Carried, TrainsTurn
    <2>3. ASSUME TrainsTurn(b, k)
          PROVE  Carried(k)'
      <3>1. HasTrainedResponse(b) /\ TrainsTurn(s, k)
        BY <1>16, <2>3
      <3>2. last \in DOMAIN samples' /\ samples'[last] = s
        BY <1>17, <1>20, <3>1
      <3> QED
        BY <3>1, <3>2 DEF Carried, TrainsTurn
    <2>4. ASSUME NEW n \in DOMAIN builders, TrainsTurn(builders[n], k)
          PROVE  Carried(k)'
      <3>1. CASE n = 1
        BY <1>12, <2>3, <2>4, <3>1
      <3>2. CASE n # 1
        <4>1. n - 1 \in DOMAIN builders' /\ builders'[n - 1] = builders[n]
          BY <1>10, <1>14, <3>2
        <4> QED
          BY <2>4, <4>1 DEF Carried, TrainsTurn
      <3> QED
        BY <3>1, <3>2
    <2> QED
      BY <2>1, <2>2, <2>4 DEF Carried
  <1> QED
    BY <1>3, <1>21, <1>22, <1>23, <1>24, <1>25, <1>26 DEF IInv

LEMMA ReturnInv == ASSUME IInv, Return PROVE IInv'
  <1>1. /\ UNCHANGED <<args, tree, builders, claimed, samples, absorbed>>
        /\ leaves' = leaves /\ todo' = todo /\ pc = "linearise" /\ pc' = "done"
        /\ leaves = <<>> /\ todo = <<>> /\ builders = <<>>
    BY DEF Return, Between, chain
  <1>2. UNCHANGED <<args, tree>>
    BY <1>1
  <1>3. nodes' = nodes /\ turns' = turns /\ Turn' = Turn /\ Generated' = Generated
        /\ max_context' = max_context
    BY <1>2, SameTree
  <1>4. TypeOK'
    <2>1. fork_threshold' = fork_threshold
      BY <1>2 DEF args
    <2>2. builders' = builders /\ claimed' = claimed /\ samples' = samples /\ absorbed' = absorbed
      BY <1>1
    <2> QED
      BY <1>1, <1>3, <2>1, <2>2 DEF IInv, TypeOK, BuilderType, SampleType, NodeType
  <1>5. PhaseInv' /\ PendingInv'
    BY <1>1, <1>3 DEF IInv, PhaseInv, PendingInv
  <1> QED
    BY <1>1, <1>4, <1>5, SameChain DEF IInv

LEMMA StutterInv == ASSUME IInv, UNCHANGED vars PROVE IInv'
  <1>1. UNCHANGED <<args, tree, builders, claimed, samples, absorbed>>
    BY DEF vars, chain
  <1>2. leaves' = leaves /\ todo' = todo /\ pc' = pc
    BY DEF vars, chain
  <1>3. UNCHANGED <<args, tree>>
    BY <1>1
  <1>4. nodes' = nodes /\ turns' = turns /\ Turn' = Turn /\ Generated' = Generated
        /\ max_context' = max_context
    BY <1>3, SameTree
  <1>5. TypeOK'
    <2>1. fork_threshold' = fork_threshold
      BY <1>3 DEF args
    <2>2. builders' = builders /\ claimed' = claimed /\ samples' = samples /\ absorbed' = absorbed
      BY <1>1
    <2> QED
      BY <1>2, <1>4, <2>1, <2>2 DEF IInv, TypeOK, BuilderType, SampleType, NodeType
  <1>6. PhaseInv' /\ PendingInv'
    <2>1. claimed' = claimed /\ absorbed' = absorbed /\ builders' = builders /\ samples' = samples
      BY <1>1
    <2> QED
      BY <1>2, <1>4, <2>1 DEF IInv, PhaseInv, PendingInv
  <1> QED
    BY <1>1, <1>5, <1>6, SameChain DEF IInv

LEMMA Invariance == Spec => []IInv
  <1>1. Init => IInv
    BY InitInv
  <1>2. ASSUME IInv, [Next]_vars
        PROVE  IInv'
    BY <1>2, RunTurnInv, FinishSessionInv, NextChainInv, ForkInv, ExtendInv, RealignInv, EmitInv,
       ReturnInv, StutterInv DEF Next, Done
  <1> QED
    BY <1>1, <1>2, PTL DEF Spec
-----------------------------------------------------------------------------
(***************************************************************************)
(* What a session's samples train.                                         *)
(***************************************************************************)
\* The variables keep their types, the tree its order, and a builder's mask the
\* length of its tokens (trajectory.py:90-112, 184-196).
THEOREM TypeCorrect == Spec => []TypeOK
  BY Invariance, PTL DEF IInv

\* No response is trained by two samples: it is claimed by the first builder
\* that appends it (trajectory.py:80-81, 454-457).
THEOREM OnlyOnce == Spec => []TrainedAtMostOnce
  <1>1. IInv => TrainedAtMostOnce
    BY DEF IInv, OnceInv, Apart, TrainedAtMostOnce
  <1> QED
    BY <1>1, Invariance, PTL

\* A trained token is the model's, after the tokens the model saw: a builder is
\* always the last turn's prompt and output, and a realigned or forked one keeps
\* no part of a response without the rest (trajectory.py:198-286).
THEOREM InContext == Spec => []TrainedInContext
  <1>1. ASSUME IInv
        PROVE  TrainedInContext
    <2> SUFFICES ASSUME NEW n \in DOMAIN samples, NEW i \in DOMAIN samples[n].trains,
                        samples[n].trains[i] # 0
                 PROVE  LET s == samples[n]
                            k == s.trains[i]
                            p == Len(s.tokens) - Len(s.trains) + i
                        IN  /\ Len(turns[k].prompt) < p /\ p <= Len(Full(k))
                            /\ \A q \in 1 .. p : s.tokens[q] = Full(k)[q]
      BY DEF TrainedInContext
    <2> DEFINE s == samples[n]
               k == s.trains[i]
               p == Len(s.tokens) - Len(s.trains) + i
    <2>1. SampleInv(s)
      BY <1>1 DEF IInv, SamplesInv
    <2>2. /\ k \in Turn
          /\ p \in Len(turns[k].prompt) + 1 .. Len(Full(k))
          /\ \A q \in 1 .. p : s.tokens[q] = Full(k)[q]
      BY <2>1 DEF SampleInv, Carries
    <2>3. Len(turns[k].prompt) \in Nat
      BY <1>1, <2>2, FullFacts DEF IInv
    <2>4. Len(Full(k)) \in Nat
      BY <1>1, <2>2, FullFacts DEF IInv
    <2> HIDE DEF p, k
    <2>5. Len(turns[k].prompt) < p /\ p <= Len(Full(k))
      BY ONLY <2>2, <2>3, <2>4
    <2> QED
      BY <2>2, <2>5 DEF p, k
  <1> QED
    BY <1>1, Invariance, PTL

\* A sample trains something, its response_length is that of its mask, and it
\* fits the context (trajectory.py:260-286, common.py:455-465).
THEOREM Trainable == Spec => []SamplesAreTrainable
  <1>1. IInv => SamplesAreTrainable
    BY DEF IInv, SamplesInv, SampleInv, SamplesAreTrainable
  <1> QED
    BY <1>1, Invariance, PTL

\* In the end each response that was neither merged nor realigned away is
\* trained, to its last token (trajectory.py:393-470).
THEOREM NothingDropped == Spec => []NoResponseDropped
  <1>1. ASSUME IInv
        PROVE  NoResponseDropped
    <2> SUFFICES ASSUME pc = "done", NEW k \in Turn, k \notin absorbed, turns[k].output # <<>>
                 PROVE  Covered(k)
      BY DEF NoResponseDropped
    <2>1. leaves = <<>> /\ todo = <<>> /\ builders = <<>>
      BY <1>1 DEF IInv, PhaseInv
    <2>2. k \in claimed
      <3>1. ~(k \in ToSet(todo)) /\ ~\E i \in DOMAIN leaves : k \in ToSet(Generated[leaves[i]])
        BY <2>1 DEF ToSet
      <3> QED
        BY <1>1, <3>1 DEF IInv, PendingInv
    <2>3. PICK n \in DOMAIN samples : TrainsTurn(samples[n], k)
      <3>1. Carried(k)
        BY <1>1, <2>2 DEF IInv, CarriedInv
      <3> QED
        BY <2>1, <3>1 DEF Carried
    <2> DEFINE s == samples[n]
               d == Len(s.tokens) - Len(s.trains)
               p == Len(turns[k].prompt)
               o == Len(turns[k].output)
               f == Len(Full(k))
               T == {i \in DOMAIN s.trains : s.trains[i] = k}
    <2>4. SampleInv(s)
      BY <1>1 DEF IInv, SamplesInv
    <2>5. k # 0 /\ f = p + o
      BY <1>1, FullFacts DEF IInv
    <2>6. p \in Nat
      BY <1>1, FullFacts DEF IInv
    <2>7. o \in Nat
      BY <1>1, FullFacts DEF IInv
    <2>8. /\ s.tokens \in Seq(Int) /\ s.trains \in Seq(Nat)
          /\ Carries(s.tokens, s.trains, d)
      BY <2>4 DEF SampleInv, SampleType
    <2>9. d \in Int
      BY <2>8
    <2>10. DOMAIN s.trains \subseteq Int
      BY <2>8
    <2>11. ASSUME NEW i \in DOMAIN s.trains, s.trains[i] = k
           PROVE  d + i \in p + 1 .. f
      BY <2>5, <2>8, <2>11 DEF Carries
    <2>12. ASSUME NEW q \in p + 1 .. f
           PROVE  q - d \in T
      <3>1. PICK i \in DOMAIN s.trains : s.trains[i] = k
        BY <2>3 DEF TrainsTurn
      <3> QED
        BY <2>5, <2>8, <3>1 DEF Carries
    <2> HIDE DEF d, p, o, f
    <2>13. T = p + 1 - d .. f - d
      <3>1. ASSUME NEW i \in T
            PROVE  i \in p + 1 - d .. f - d
        <4>1. i \in Int
          BY <2>10
        <4>2. d + i \in p + 1 .. f
          BY <2>11
        <4> QED
          BY ONLY <2>5, <2>6, <2>7, <2>9, <4>1, <4>2
      <3>2. ASSUME NEW i \in p + 1 - d .. f - d
            PROVE  i \in T
        <4>1. i + d \in p + 1 .. f /\ (i + d) - d = i
          BY ONLY <2>5, <2>6, <2>7, <2>9, i \in p + 1 - d .. f - d
        <4> QED
          BY <2>12, <4>1
      <3> HIDE DEF T
      <3> QED
        BY <3>1, <3>2
    <2>14. Cardinality(T) = o
      <3> HIDE DEF T
      <3>1. p + 1 - d \in Int
        BY <2>6, <2>9
      <3>2. f - d \in Int
        BY <2>5, <2>6, <2>7, <2>9
      <3>3. Cardinality(T) = IF p + 1 - d > f - d THEN 0 ELSE (f - d) - (p + 1 - d) + 1
        BY <2>13, <3>1, <3>2, FS_Interval
      <3> QED
        BY ONLY <2>5, <2>6, <2>7, <2>9, <3>3
    <2> QED
      BY <2>14 DEF Covered, o
  <1> QED
    BY <1>1, Invariance, PTL
=============================================================================
