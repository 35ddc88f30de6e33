-------------------------- MODULE HttpServerProofs --------------------------
(* Proofs about the processing of node lists, for all nodes, steps and        *)
(* strategies, and about the HTTP server that renders them and the links it   *)
(* writes, for every sequence of configurations.                              *)
EXTENDS HttpServer, Processing, FiniteSetTheorems, WellFoundedInduction, TLAPS

-----------------------------------------------------------------------------
(* Induction over the natural numbers, by sets *)

\* A set of natural numbers that is not empty has a least member.
LEMMA LeastMember ==
  ASSUME NEW S \in SUBSET Nat, S # {}
  PROVE  \E n \in S : \A m \in S : n <= m
<1> DEFINE R == OpToRel(<, Nat)
<1>1. IsWellFoundedOn(R, Nat)
  BY NatLessThanWellFounded, Zenon
<1>2. \A x, y \in Nat : <<x, y>> \in R <=> x < y
  BY DEF OpToRel
<1> HIDE DEF R
<1>3. PICK n \in S : \A m \in S : ~ (<<m, n>> \in R)
  BY <1>1, WFMin, Zenon
<1>4. \A m \in S : ~ (m < n)
  BY <1>2, <1>3, Zenon
<1>5. \A m \in S : n <= m
  BY <1>4
<1> QED BY <1>5

\* A set that has 0, and with a number its successor, has all natural numbers.
LEMMA Induction ==
  ASSUME NEW S, 0 \in S, \A n \in Nat : n \in S => n + 1 \in S
  PROVE  \A n \in Nat : n \in S
<1> SUFFICES ASSUME Nat \ S # {} PROVE FALSE
  OBVIOUS
<1>1. PICK n \in Nat \ S : \A m \in Nat \ S : n <= m
  BY LeastMember, Zenon
<1>2. n # 0 /\ n - 1 \in Nat /\ n - 1 \notin Nat \ S
  BY <1>1
<1> QED BY <1>1, <1>2

\* A list is a sequence of its members.
LEMMA ListIsSeq ==
  ASSUME NEW list, IsList(list)
  PROVE  /\ list \in Seq({list[i] : i \in 1..Len(list)})
         /\ DOMAIN list = 1..Len(list) /\ Len(list) \in Nat
<1> DEFINE T == {list[i] : i \in 1..Len(list)}
<1>1. Len(list) \in Nat /\ list = [i \in 1..Len(list) |-> list[i]]
  BY DEF IsList
<1>2. \A i \in 1..Len(list) : list[i] \in T
  OBVIOUS
<1> HIDE DEF T
<1>3. list \in [1..Len(list) -> T]
  BY <1>1, <1>2, Zenon
<1>4. list \in Seq(T)
  BY <1>1, <1>3
<1>5. DOMAIN list = 1..Len(list)
  BY <1>1, Zenon
<1> QED BY <1>1, <1>4, <1>5 DEF T

\* A sequence is a list.
LEMMA SeqIsList ==
  ASSUME NEW T, NEW list \in Seq(T)
  PROVE  IsList(list)
BY DEF IsList

\* The empty list.
LEMMA EmptyList == IsList(<<>>) /\ Len(<<>>) = 0 /\ DOMAIN <<>> = {}
BY DEF IsList

\* A list with one more member.
LEMMA LongerList ==
  ASSUME NEW list, NEW x, IsList(list)
  PROVE  /\ IsList(Append(list, x)) /\ Len(Append(list, x)) = Len(list) + 1
         /\ Append(list, x)[Len(list) + 1] = x
         /\ \A i \in 1..Len(list) : Append(list, x)[i] = list[i]
<1> DEFINE T == {list[i] : i \in 1..Len(list)}
           U == T \cup {x}
<1>1. list \in Seq(T)
  BY ListIsSeq, Zenon
<1> HIDE DEF T
<1>2. list \in Seq(U) /\ x \in U
  BY <1>1
<1> HIDE DEF U
<1>3. Append(list, x) \in Seq(U)
  BY <1>2
<1>4. IsList(Append(list, x))
  BY <1>3, SeqIsList, Zenon
<1> QED BY <1>2, <1>4

\* all is two lists in a row.
InARow(list, more, all) == IsList(list) /\ IsList(more) /\ all = list \o more

\* What is where in two lists in a row.
LEMMA JoinedLists ==
  ASSUME NEW list, NEW more, NEW all, InARow(list, more, all)
  PROVE  /\ IsList(all) /\ Len(all) = Len(list) + Len(more)
         /\ \A i \in 1..Len(list) : all[i] = list[i]
         /\ \A i \in 1..Len(more) : all[Len(list) + i] = more[i]
<1> DEFINE T == {list[i] : i \in 1..Len(list)}
           V == {more[i] : i \in 1..Len(more)}
           U == T \cup V
<1>1. list \in Seq(T) /\ more \in Seq(V)
  BY ListIsSeq, Zenon DEF InARow
<1> HIDE DEF T, V
<1>2. list \in Seq(U) /\ more \in Seq(U)
  BY <1>1
<1> HIDE DEF U
<1>3. all = list \o more /\ all \in Seq(U)
  BY <1>2 DEF InARow
<1>4. IsList(all)
  BY <1>3, SeqIsList, Zenon
<1> QED BY <1>2, <1>3, <1>4

-----------------------------------------------------------------------------
(* Filters *)

\* The loop of a filter.
PickLoop(picked, list, positions) ==
  picked = [k \in 0..Len(list) |->
              IF k = 0 THEN <<>>
              ELSE IF k \in positions THEN Append(picked[k - 1], list[k]) ELSE picked[k - 1]]

\* Pick is defined by its loop.
LEMMA PickDef ==
  ASSUME NEW list, NEW positions, Len(list) \in Nat
  PROVE  \E picked : PickLoop(picked, list, positions) /\ Pick(list, positions) = picked[Len(list)]
<1> DEFINE Loop(x, k) == IF k \in positions THEN Append(x, list[k]) ELSE x
           Solves(f, n) == f = [k \in 0..n |-> IF k = 0 THEN <<>> ELSE Loop(f[k - 1], k)]
           S == {n \in Nat : \E f : Solves(f, n)}
<1>0. \A f : Solves(f, Len(list)) <=> PickLoop(f, list, positions)
  BY Zenon DEF PickLoop
<1> HIDE DEF Loop
<1>1. 0 \in S
  <2> DEFINE f == [k \in 0..0 |-> <<>>]
  <2>1. Solves(f, 0)
    OBVIOUS
  <2> QED BY <2>1, Zenon
<1>2. ASSUME NEW n \in Nat, n \in S PROVE n + 1 \in S
  <2>1. PICK f : Solves(f, n)
    BY <1>2
  <2> DEFINE g == [k \in 0..(n + 1) |-> IF k = n + 1 THEN Loop(f[n], k) ELSE f[k]]
  <2>2. ASSUME NEW k \in 0..(n + 1)
        PROVE  g[k] = IF k = 0 THEN <<>> ELSE Loop(g[k - 1], k)
    <3>1. CASE k = 0
      BY <2>1, <3>1
    <3>2. CASE k \in 1..n
      BY <2>1, <3>2
    <3>3. CASE k = n + 1
      BY <3>3
    <3> QED BY <3>1, <3>2, <3>3
  <2>3. Solves(g, n + 1)
    <3>1. g = [k \in 0..(n + 1) |-> g[k]]
      OBVIOUS
    <3> HIDE DEF g
    <3> QED BY Zenon, <2>2, <3>1
  <2> HIDE DEF g, Solves
  <2> QED BY <2>3
<1>3. \A n \in Nat : n \in S
  <2> HIDE DEF S
  <2> QED BY <1>1, <1>2, Induction
<1>4. \E f : Solves(f, Len(list))
  BY <1>3
<1> HIDE DEF Solves
<1>5. \E f : PickLoop(f, list, positions)
  BY <1>0, <1>4, Zenon
<1>6. PickLoop(CHOOSE f : PickLoop(f, list, positions), list, positions)
  BY <1>5, Zenon
<1>7. Pick(list, positions) = (CHOOSE f : PickLoop(f, list, positions))[Len(list)]
  BY Zenon DEF Pick, PickLoop
<1> QED BY <1>6, <1>7, Zenon

\* A filter leaves the members at its positions, in their order.
LEMMA PickFacts ==
  ASSUME NEW list, NEW positions, IsList(list), positions \subseteq DOMAIN list
  PROVE  Consists(Pick(list, positions), list, positions)
<1> DEFINE N == Len(list)
<1>0. N \in Nat /\ DOMAIN list = 1..N
  BY ListIsSeq
<1>1. PICK picked : PickLoop(picked, list, positions) /\ Pick(list, positions) = picked[N]
  BY <1>0, PickDef, Zenon
<1> DEFINE Left(out, h, n) ==
             /\ IsList(out) /\ h \in [1..Len(out) -> positions \cap 1..n]
             /\ \A i, j \in 1..Len(out) : i < j => h[i] < h[j]
             /\ \A j \in 1..Len(out) : out[j] = list[h[j]]
             /\ \A i \in positions \cap 1..n : \E j \in 1..Len(out) : h[j] = i
           S == {n \in Nat : n <= N => \E h : Left(picked[n], h, n)}
<1>2. picked[0] = <<>> /\ \A k \in 1..N :
        picked[k] = IF k \in positions THEN Append(picked[k - 1], list[k]) ELSE picked[k - 1]
  <2>1. \A k \in 0..N : picked[k] =
          IF k = 0 THEN <<>>
          ELSE IF k \in positions THEN Append(picked[k - 1], list[k]) ELSE picked[k - 1]
    BY <1>1, Zenon DEF PickLoop
  <2> QED BY <1>0, <2>1
<1>3. 0 \in S
  <2>1. Left(picked[0], <<>>, 0)
    BY <1>2, EmptyList
  <2> QED BY <2>1, Zenon
<1>4. ASSUME NEW n \in Nat, n \in S PROVE n + 1 \in S
  <2> SUFFICES ASSUME n + 1 <= N PROVE \E h : Left(picked[n + 1], h, n + 1)
    <3> HIDE DEF Left
    <3> QED OBVIOUS
  <2>1. n <= N /\ n + 1 \in 1..N /\ (n + 1) - 1 = n
    BY <1>0
  <2>2. PICK h : Left(picked[n], h, n)
    BY <1>4, <2>1
  <2>3. picked[n + 1] =
          IF n + 1 \in positions THEN Append(picked[n], list[n + 1]) ELSE picked[n]
    BY <1>2, <2>1
  <2>4. CASE n + 1 \notin positions
    <3>1. picked[n + 1] = picked[n]
      BY <2>3, <2>4
    <3>2. positions \cap 1..(n + 1) = positions \cap 1..n
      BY <2>4
    <3>3. Left(picked[n], h, n + 1)
      BY <2>2, <3>2, Zenon
    <3> HIDE DEF Left
    <3> QED BY <3>1, <3>3
  <2>5. CASE n + 1 \in positions
    <3> DEFINE out == picked[n]
               more == Append(out, list[n + 1])
               m == Len(out)
               g == [j \in 1..(m + 1) |-> IF j = m + 1 THEN n + 1 ELSE h[j]]
    <3>1. /\ m \in Nat /\ IsList(more) /\ Len(more) = m + 1 /\ more[m + 1] = list[n + 1]
          /\ \A i \in 1..m : more[i] = out[i]
      BY <2>2, LongerList, ListIsSeq
    <3>2. picked[n + 1] = more
      BY <2>3, <2>5
    <3>3. Left(out, h, n)
      BY <2>2
    <3> HIDE DEF more
    <3>4. g \in [1..Len(more) -> positions \cap 1..(n + 1)]
      BY <2>5, <3>1, <3>3
    <3>5. ASSUME NEW i \in 1..Len(more), NEW j \in 1..Len(more), i < j PROVE g[i] < g[j]
      <4>1. i \in 1..m /\ g[i] = h[i] /\ h[i] \in 1..n
        BY <3>1, <3>3, <3>5
      <4>2. CASE j = m + 1
        BY <3>1, <4>1, <4>2
      <4>3. CASE j \in 1..m
        <5>1. g[j] = h[j] /\ h[i] < h[j]
          BY <3>1, <3>3, <3>5, <4>1, <4>3
        <5> QED BY <4>1, <5>1
      <4> QED BY <3>1, <4>2, <4>3
    <3>6. \A j \in 1..Len(more) : more[j] = list[g[j]]
      BY <3>1, <3>3
    <3>7. \A i \in positions \cap 1..(n + 1) : \E j \in 1..Len(more) : g[j] = i
      <4> SUFFICES ASSUME NEW i \in positions \cap 1..(n + 1)
                   PROVE  \E j \in 1..Len(more) : g[j] = i
        OBVIOUS
      <4>1. CASE i = n + 1
        <5>1. m + 1 \in 1..Len(more) /\ g[m + 1] = i
          BY <3>1, <4>1
        <5> QED BY <5>1
      <4>2. CASE i \in 1..n
        <5>1. PICK j \in 1..m : h[j] = i
          BY <3>3, <4>2
        <5>2. j \in 1..Len(more) /\ g[j] = i
          BY <3>1, <5>1
        <5> QED BY <5>2
      <4> QED BY <4>1, <4>2
    <3>8. Left(more, g, n + 1)
      <4> HIDE DEF g
      <4> QED BY <3>1, <3>4, <3>5, <3>6, <3>7
    <3> HIDE DEF Left, g
    <3> QED BY <3>2, <3>8
  <2> QED BY <2>4, <2>5
<1>5. \A n \in Nat : n \in S
  <2> HIDE DEF S
  <2> QED BY <1>3, <1>4, Induction
<1>5a. \E h : Left(picked[N], h, N)
  <2> HIDE DEF Left
  <2> QED BY <1>0, <1>5
<1>6. PICK h : Left(picked[N], h, N)
  BY <1>5a, Zenon
<1> DEFINE out == picked[N]
<1>7. DOMAIN out = 1..Len(out) /\ Len(out) \in Nat
  BY <1>6, ListIsSeq
<1>8. positions \cap 1..N = positions
  BY <1>0
<1>9. Consists(out, list, positions)
  BY <1>6, <1>7, <1>8, ZenonT(120) DEF Consists
<1> QED BY <1>1, <1>9

-----------------------------------------------------------------------------
(* Pipelines *)

\* A removing step keeps the others, in order and as they are.
LEMMA KeepOthersFacts ==
  ASSUME NEW nodes, NEW step, IsList(nodes)
  PROVE  /\ IsList(KeepOthers(nodes, step))
         /\ Faithful(KeepOthers(nodes, step), nodes, <<step>>)
<1> DEFINE out == KeepOthers(nodes, step)
           others == {i \in DOMAIN nodes : ~Selected(step, nodes[i])}
<1>1. Consists(out, nodes, others)
  BY PickFacts, Zenon DEF KeepOthers
<1> HIDE DEF out
<1>2. PICK h \in [DOMAIN out -> others] :
        /\ \A i, j \in DOMAIN out : i < j => h[i] < h[j]
        /\ \A p \in others : \E j \in DOMAIN out : h[j] = p
        /\ \A j \in DOMAIN out : out[j] = nodes[h[j]]
  BY <1>1, Zenon DEF Consists
<1>3. ComesFrom(out, nodes, h)
  <2>1. \A j \in DOMAIN out : SameNode(out[j], nodes[h[j]])
    BY <1>2, Zenon DEF SameNode
  <2> QED BY <1>2, <2>1, Zenon DEF ComesFrom
<1>4. ASSUME NEW i \in DOMAIN nodes, Unselected(nodes[i], <<step>>)
      PROVE  Untouched(out, nodes, h, i)
  <2>1. ~Selected(step, nodes[i])
    BY <1>4 DEF Unselected
  <2> QED BY <1>2, <2>1, ZenonT(30) DEF Untouched
<1>5. h \in [DOMAIN out -> DOMAIN nodes]
  BY <1>2
<1>6. IsList(out) /\ Faithful(out, nodes, <<step>>)
  BY <1>1, <1>3, <1>4, <1>5, Zenon DEF Faithful, Consists
<1> QED BY <1>6, Zenon DEF out

\* A step that transforms its nodes changes name, security and packet encoding at most.
LEMMA TransformFacts ==
  ASSUME NEW step, NEW node
  PROVE  SameNode(Transform(step, node), node)
BY Zenon DEF Transform, SameNode

\* A step keeps the order, and leaves alone what it does not select.
LEMMA ApplyStepFacts ==
  ASSUME NEW nodes, NEW step, IsList(nodes)
  PROVE  IsList(ApplyStep(nodes, step)) /\ Faithful(ApplyStep(nodes, step), nodes, <<step>>)
<1>1. CASE step.remove
  BY <1>1, KeepOthersFacts, Zenon DEF ApplyStep
<1>2. CASE ~step.remove
  <2> DEFINE Made(node) == IF Selected(step, node) THEN Transform(step, node) ELSE node
             out == [i \in DOMAIN nodes |-> Made(nodes[i])]
             h == [i \in DOMAIN nodes |-> i]
             N == Len(nodes)
  <2>1. ApplyStep(nodes, step) = out
    BY <1>2, Zenon DEF ApplyStep
  <2>2. DOMAIN nodes = 1..N /\ N \in Nat
    BY ListIsSeq
  <2>3. \A node : SameNode(Made(node), node)
    <3>1. ASSUME NEW node PROVE SameNode(Made(node), node)
      <4>1. CASE Selected(step, node)
        BY <4>1, TransformFacts, Zenon
      <4>2. CASE ~Selected(step, node)
        BY <4>2, Zenon DEF SameNode
      <4> QED BY <4>1, <4>2
    <3> QED BY <3>1, Zenon
  <2>4. \A node : ~Selected(step, node) => Made(node) = node
    BY Zenon
  <2> HIDE DEF Made
  <2>5. IsList(out)
    <3> DEFINE T == {Made(nodes[i]) : i \in 1..N}
    <3>1. out \in Seq(T)
      BY <2>2
    <3> HIDE DEF T, out
    <3> QED BY <3>1, SeqIsList, Zenon
  <2>6. ComesFrom(out, nodes, h)
    BY <2>2, <2>3 DEF ComesFrom
  <2>7. ASSUME NEW i \in DOMAIN nodes, Unselected(nodes[i], <<step>>)
        PROVE  Untouched(out, nodes, h, i)
    <3>1. ~Selected(step, nodes[i])
      BY <2>7 DEF Unselected
    <3> QED BY <2>4, <3>1 DEF Untouched
  <2>8. h \in [DOMAIN out -> DOMAIN nodes]
    OBVIOUS
  <2> HIDE DEF out, h
  <2>9. Faithful(out, nodes, <<step>>)
    BY <2>6, <2>7, <2>8, Zenon DEF Faithful
  <2> QED BY <2>1, <2>5, <2>9, Zenon
<1> QED BY <1>1, <1>2

\* The loop over the steps of a pipeline.
PipelineLoop(after, nodes, steps) ==
  after = [k \in 0..Len(steps) |-> IF k = 0 THEN nodes ELSE ApplyStep(after[k - 1], steps[k])]

\* apply_pipeline is defined by its loop.
LEMMA PipelineDef ==
  ASSUME NEW nodes, NEW steps, Len(steps) \in Nat
  PROVE  \E after : PipelineLoop(after, nodes, steps) /\ ApplyPipeline(nodes, steps) = after[Len(steps)]
<1> DEFINE Loop(x, k) == ApplyStep(x, steps[k])
           Solves(f, n) == f = [k \in 0..n |-> IF k = 0 THEN nodes ELSE Loop(f[k - 1], k)]
           S == {n \in Nat : \E f : Solves(f, n)}
<1>0. \A f : Solves(f, Len(steps)) <=> PipelineLoop(f, nodes, steps)
  BY Zenon DEF PipelineLoop
<1> HIDE DEF Loop
<1>1. 0 \in S
  <2> DEFINE f == [k \in 0..0 |-> nodes]
  <2>1. Solves(f, 0)
    OBVIOUS
  <2> QED BY <2>1, Zenon
<1>2. ASSUME NEW n \in Nat, n \in S PROVE n + 1 \in S
  <2>1. PICK f : Solves(f, n)
    BY <1>2
  <2> DEFINE g == [k \in 0..(n + 1) |-> IF k = n + 1 THEN Loop(f[n], k) ELSE f[k]]
  <2>2. ASSUME NEW k \in 0..(n + 1)
        PROVE  g[k] = IF k = 0 THEN nodes ELSE Loop(g[k - 1], k)
    <3>1. CASE k = 0
      BY <2>1, <3>1
    <3>2. CASE k \in 1..n
      BY <2>1, <3>2
    <3>3. CASE k = n + 1
      BY <3>3
    <3> QED BY <3>1, <3>2, <3>3
  <2>3. Solves(g, n + 1)
    <3>1. g = [k \in 0..(n + 1) |-> g[k]]
      OBVIOUS
    <3> HIDE DEF g
    <3> QED BY <2>2, <3>1
  <2> HIDE DEF g, Solves
  <2> QED BY <2>3
<1>3. \A n \in Nat : n \in S
  <2> HIDE DEF S
  <2> QED BY <1>1, <1>2, Induction
<1>4. \E f : Solves(f, Len(steps))
  BY <1>3
<1> HIDE DEF Solves
<1>5. \E f : PipelineLoop(f, nodes, steps)
  BY <1>0, <1>4, Zenon
<1>6. PipelineLoop(CHOOSE f : PipelineLoop(f, nodes, steps), nodes, steps)
  BY <1>5, Zenon
<1>7. ApplyPipeline(nodes, steps) = (CHOOSE f : PipelineLoop(f, nodes, steps))[Len(steps)]
  BY Zenon DEF ApplyPipeline, PipelineLoop
<1> QED BY <1>6, <1>7, Zenon

\* SameNode is transitive: what two steps change is what one may change.
LEMMA SameNodeTwice ==
  ASSUME NEW a, NEW b, NEW c, SameNode(a, b), SameNode(b, c)
  PROVE  SameNode(a, c)
BY DEF SameNode

\* Whatever its steps, a pipeline keeps the order of the nodes, changes name, security
\* and packet encoding at most, and leaves the nodes that no step selects as they were:
\* apply_pipeline for all lists of nodes and all lists of steps.
THEOREM PipelinesAreFaithful ==
  ASSUME NEW nodes, NEW steps, IsList(nodes), IsList(steps)
  PROVE  /\ IsList(ApplyPipeline(nodes, steps))
         /\ Faithful(ApplyPipeline(nodes, steps), nodes, steps)
<1> DEFINE N == Len(steps)
<1>0. N \in Nat /\ DOMAIN steps = 1..N
  BY ListIsSeq
<1>1. PICK after : PipelineLoop(after, nodes, steps) /\ ApplyPipeline(nodes, steps) = after[N]
  BY <1>0, PipelineDef, Zenon
<1>2. after[0] = nodes /\ \A k \in 1..N : after[k] = ApplyStep(after[k - 1], steps[k])
  <2>1. \A k \in 0..N : after[k] = IF k = 0 THEN nodes ELSE ApplyStep(after[k - 1], steps[k])
    BY <1>1, Zenon DEF PipelineLoop
  <2> QED BY <1>0, <2>1
<1> DEFINE Spared(i, n) == \A k \in 1..n : ~Selected(steps[k], nodes[i])
           Through(out, h, n) ==
             /\ IsList(out) /\ h \in [DOMAIN out -> DOMAIN nodes] /\ ComesFrom(out, nodes, h)
             /\ \A i \in DOMAIN nodes : Spared(i, n) => Untouched(out, nodes, h, i)
           S == {n \in Nat : n <= N => \E h : Through(after[n], h, n)}
<1>3. 0 \in S
  <2> DEFINE h == [i \in DOMAIN nodes |-> i]
  <2>1. DOMAIN nodes = 1..Len(nodes) /\ Len(nodes) \in Nat
    BY ListIsSeq
  <2>2. \A j \in DOMAIN nodes : SameNode(nodes[j], nodes[h[j]])
    BY DEF SameNode
  <2>3. ComesFrom(nodes, nodes, h)
    BY <2>1, <2>2 DEF ComesFrom
  <2>4. \A i \in DOMAIN nodes : Untouched(nodes, nodes, h, i)
    BY DEF Untouched
  <2>5. h \in [DOMAIN nodes -> DOMAIN nodes]
    OBVIOUS
  <2>6. Through(nodes, h, 0)
    BY <2>3, <2>4, <2>5, Zenon
  <2> HIDE DEF Through
  <2> QED BY <1>2, <2>6
<1>4. ASSUME NEW n \in Nat, n \in S PROVE n + 1 \in S
  <2> SUFFICES ASSUME n + 1 <= N PROVE \E h : Through(after[n + 1], h, n + 1)
    <3> HIDE DEF Through
    <3> QED OBVIOUS
  <2>1. n <= N /\ n + 1 \in 1..N /\ (n + 1) - 1 = n
    BY <1>0
  <2>2. \E h : Through(after[n], h, n)
    <3> HIDE DEF Through
    <3> QED BY <1>4, <2>1
  <2>3. PICK h : Through(after[n], h, n)
    BY <2>2, Zenon
  <2> DEFINE mid == after[n]
             out == after[n + 1]
             step == steps[n + 1]
  <2>4. IsList(out) /\ Faithful(out, mid, <<step>>)
    BY <1>2, <2>1, <2>3, ApplyStepFacts
  <2>5. PICK e \in [DOMAIN out -> DOMAIN mid] :
          /\ ComesFrom(out, mid, e)
          /\ \A i \in DOMAIN mid : Unselected(mid[i], <<step>>) => Untouched(out, mid, e, i)
    BY <2>4, Zenon DEF Faithful
  <2> DEFINE g == [j \in DOMAIN out |-> h[e[j]]]
  <2>6. h \in [DOMAIN mid -> DOMAIN nodes] /\ ComesFrom(mid, nodes, h)
    BY <2>3
  <2>7. \A i \in DOMAIN nodes : Spared(i, n) => Untouched(mid, nodes, h, i)
    BY <2>3
  <2>8. DOMAIN out = 1..Len(out) /\ DOMAIN mid = 1..Len(mid)
    BY <2>3, <2>4, ListIsSeq
  <2> HIDE DEF mid, out, Spared
  <2>9. g \in [DOMAIN out -> DOMAIN nodes]
    BY <2>5, <2>6
  <2>10. ComesFrom(out, nodes, g)
    <3>1. \A i, j \in DOMAIN out : i < j => g[i] < g[j]
      BY <2>5, <2>6 DEF ComesFrom
    <3>2. ASSUME NEW j \in DOMAIN out PROVE SameNode(out[j], nodes[g[j]])
      <4>1. SameNode(out[j], mid[e[j]]) /\ e[j] \in DOMAIN mid
        BY <2>5 DEF ComesFrom
      <4>2. SameNode(mid[e[j]], nodes[h[e[j]]])
        BY <2>6, <4>1, Zenon DEF ComesFrom
      <4>3. SameNode(out[j], nodes[h[e[j]]])
        BY <4>1, <4>2, SameNodeTwice, Zenon
      <4> QED BY <4>3
    <3> QED BY <3>1, <3>2 DEF ComesFrom
  <2>11. ASSUME NEW i \in DOMAIN nodes, Spared(i, n + 1)
         PROVE  Untouched(out, nodes, g, i)
    <3>1. Spared(i, n) /\ ~Selected(step, nodes[i])
      BY <2>11, <2>1 DEF Spared
    <3>2. PICK j \in DOMAIN mid : h[j] = i /\ mid[j] = nodes[i]
      BY <2>7, <3>1, Zenon DEF Untouched
    <3>3. Unselected(mid[j], <<step>>)
      BY <3>1, <3>2 DEF Unselected
    <3>4. PICK l \in DOMAIN out : e[l] = j /\ out[l] = mid[j]
      BY <2>5, <3>2, <3>3, Zenon DEF Untouched
    <3> QED BY <3>2, <3>4 DEF Untouched
  <2>12. Through(out, g, n + 1)
    <3> HIDE DEF g
    <3> QED BY <2>4, <2>9, <2>10, <2>11, Zenon
  <2> HIDE DEF Through, g
  <2> QED BY <2>12 DEF out
<1>5. \A n \in Nat : n \in S
  <2> HIDE DEF S
  <2> QED BY <1>3, <1>4, Induction
<1>6. \E h : Through(after[N], h, N)
  <2> HIDE DEF Through
  <2> QED BY <1>0, <1>5
<1>7. PICK h : Through(after[N], h, N)
  BY <1>6, Zenon
<1>8. \A i \in DOMAIN nodes : Unselected(nodes[i], steps) => Spared(i, N)
  BY <1>0, Zenon DEF Unselected
<1>9. Faithful(after[N], nodes, steps)
  <2> HIDE DEF Spared
  <2> QED BY <1>7, <1>8, Zenon DEF Faithful
<1> QED BY <1>1, <1>7, <1>9, Zenon

-----------------------------------------------------------------------------
(* Deduplication *)

-----------------------------------------------------------------------------
(* Deduplication *)

\* The loop that numbers repeated names.
RenameLoop(after, nodes) ==
  after = [k \in 0..Len(nodes) |->
             IF k = 0 THEN [seen |-> <<>>, out |-> <<>>] ELSE RenameNext(after[k - 1], nodes[k])]

\* DedupRename is defined by its loop.
LEMMA DedupRenameDef ==
  ASSUME NEW nodes, Len(nodes) \in Nat
  PROVE  \E after : RenameLoop(after, nodes) /\ DedupRename(nodes) = after[Len(nodes)].out
<1> DEFINE start == [seen |-> <<>>, out |-> <<>>]
           Loop(x, k) == RenameNext(x, nodes[k])
           Solves(f, n) == f = [k \in 0..n |-> IF k = 0 THEN start ELSE Loop(f[k - 1], k)]
           S == {n \in Nat : \E f : Solves(f, n)}
<1>0. \A f : Solves(f, Len(nodes)) <=> RenameLoop(f, nodes)
  BY Zenon DEF RenameLoop
<1> HIDE DEF Loop, start
<1>1. 0 \in S
  <2> DEFINE f == [k \in 0..0 |-> start]
  <2>1. Solves(f, 0)
    OBVIOUS
  <2> QED BY <2>1, Zenon
<1>2. ASSUME NEW n \in Nat, n \in S PROVE n + 1 \in S
  <2>1. PICK f : Solves(f, n)
    BY <1>2
  <2> DEFINE g == [k \in 0..(n + 1) |-> IF k = n + 1 THEN Loop(f[n], k) ELSE f[k]]
  <2>2. ASSUME NEW k \in 0..(n + 1)
        PROVE  g[k] = IF k = 0 THEN start ELSE Loop(g[k - 1], k)
    <3>1. CASE k = 0
      BY <2>1, <3>1
    <3>2. CASE k \in 1..n
      BY <2>1, <3>2
    <3>3. CASE k = n + 1
      BY <3>3
    <3> QED BY <3>1, <3>2, <3>3
  <2>3. Solves(g, n + 1)
    <3>1. g = [k \in 0..(n + 1) |-> g[k]]
      OBVIOUS
    <3> HIDE DEF g
    <3> QED BY <2>2, <3>1
  <2> HIDE DEF g, Solves
  <2> QED BY <2>3
<1>3. \A n \in Nat : n \in S
  <2> HIDE DEF S
  <2> QED BY <1>1, <1>2, Induction
<1>4. \E f : Solves(f, Len(nodes))
  BY <1>3
<1> HIDE DEF Solves
<1>5. \E f : RenameLoop(f, nodes)
  BY <1>0, <1>4, Zenon
<1>6. RenameLoop(CHOOSE f : RenameLoop(f, nodes), nodes)
  BY <1>5, Zenon
<1>7. DedupRename(nodes) = (CHOOSE f : RenameLoop(f, nodes))[Len(nodes)].out
  BY Zenon DEF DedupRename, RenameLoop
<1> QED BY <1>6, <1>7, Zenon

\* The nodes of a name among the first n.
Named(nodes, tag, n) == {j \in 1..n : nodes[j].name = tag}

\* One more node is one more of its name, and none more of another.
LEMMA NamesCounted ==
  ASSUME NEW nodes, NEW tag, NEW n \in Nat
  PROVE  /\ IsFiniteSet(Named(nodes, tag, n)) /\ Cardinality(Named(nodes, tag, n)) \in Nat
         /\ Cardinality(Named(nodes, tag, n)) = 0 <=> \A j \in 1..n : nodes[j].name # tag
         /\ Cardinality(Named(nodes, tag, n + 1)) =
              IF nodes[n + 1].name = tag THEN Cardinality(Named(nodes, tag, n)) + 1
              ELSE Cardinality(Named(nodes, tag, n))
<1> DEFINE S == Named(nodes, tag, n)
<1>1. IsFiniteSet(1..n)
  BY FS_Interval
<1>2. S \subseteq 1..n
  BY DEF Named
<1>3. IsFiniteSet(S)
  BY <1>1, <1>2, FS_Subset, Zenon
<1>4. Cardinality(S) \in Nat
  BY <1>3, FS_CardinalityType, Zenon
<1>5. Cardinality(S) = 0 <=> S = {}
  BY <1>3, FS_EmptySet, Zenon
<1>6. S = {} <=> \A j \in 1..n : nodes[j].name # tag
  BY DEF Named
<1>7. CASE nodes[n + 1].name = tag
  <2>1. Named(nodes, tag, n + 1) = S \cup {n + 1} /\ n + 1 \notin S
    BY <1>7 DEF Named
  <2>2. Cardinality(S \cup {n + 1}) = Cardinality(S) + 1
    <3> HIDE DEF S
    <3>1. n + 1 \notin S
      BY <2>1
    <3> QED BY <1>3, <3>1, FS_AddElement
  <2> QED BY Zenon, <1>3, <1>4, <1>5, <1>6, <1>7, <2>1, <2>2
<1>8. CASE nodes[n + 1].name # tag
  <2>1. Named(nodes, tag, n + 1) = S
    BY <1>8 DEF Named
  <2> QED BY <1>3, <1>4, <1>5, <1>6, <1>8, <2>1
<1> QED BY <1>7, <1>8

\* The default strategy keeps all nodes and gives the k-th repetition the number k.
LEMMA DedupRenameFacts ==
  ASSUME NEW nodes, IsList(nodes)
  PROVE  DedupRename(nodes) = [i \in DOMAIN nodes |-> Numbered(nodes, i)]
<1> DEFINE N == Len(nodes)
<1>0. N \in Nat /\ DOMAIN nodes = 1..N
  BY ListIsSeq
<1>1. PICK after : RenameLoop(after, nodes) /\ DedupRename(nodes) = after[N].out
  BY <1>0, DedupRenameDef, Zenon
<1>2. /\ after[0] = [seen |-> <<>>, out |-> <<>>]
      /\ \A k \in 1..N : after[k] = RenameNext(after[k - 1], nodes[k])
  <2>1. \A k \in 0..N : after[k] =
          IF k = 0 THEN [seen |-> <<>>, out |-> <<>>] ELSE RenameNext(after[k - 1], nodes[k])
    BY <1>1, Zenon DEF RenameLoop
  <2> QED BY <1>0, <2>1
<1> DEFINE Out(acc, n) == /\ IsList(acc.out) /\ Len(acc.out) = n
                          /\ \A i \in 1..n : acc.out[i] = Numbered(nodes, i)
           Counted(acc, n) == /\ \A t : t \in DOMAIN acc.seen <=> \E i \in 1..n : nodes[i].name = t
                           /\ \A t \in DOMAIN acc.seen :
                                acc.seen[t] + 1 = Cardinality(Named(nodes, t, n)) /\ acc.seen[t] \in Nat
           S == {n \in Nat : n <= N => Out(after[n], n) /\ Counted(after[n], n)}
<1>3. 0 \in S
  <2>1. after[0].out = <<>> /\ after[0].seen = <<>>
    BY <1>2
  <2>2. Out(after[0], 0)
    BY <2>1, EmptyList
  <2>3. Counted(after[0], 0)
    BY <2>1, EmptyList
  <2> QED BY <2>2, <2>3
<1>4. ASSUME NEW n \in Nat, n \in S PROVE n + 1 \in S
  <2> SUFFICES ASSUME n + 1 <= N PROVE Out(after[n + 1], n + 1) /\ Counted(after[n + 1], n + 1)
    <3> HIDE DEF Out, Counted
    <3> QED OBVIOUS
  <2> DEFINE acc == after[n]
             tag == nodes[n + 1].name
             known == tag \in DOMAIN acc.seen
             count == IF known THEN acc.seen[tag] + 1 ELSE 0
             node == IF known THEN [nodes[n + 1] EXCEPT !.name = Append(tag, count)] ELSE nodes[n + 1]
  <2>1. n <= N /\ n + 1 \in 1..N /\ (n + 1) - 1 = n
    BY <1>0
  <2>2. Out(acc, n) /\ Counted(acc, n)
    <3> HIDE DEF Out, Counted
    <3> QED BY <1>4, <2>1
  <2>3. /\ after[n + 1].seen = [t \in DOMAIN acc.seen \cup {tag} |-> IF t = tag THEN count ELSE acc.seen[t]]
        /\ after[n + 1].out = Append(acc.out, node)
    <3>1. after[n + 1] = RenameNext(acc, nodes[n + 1])
      BY <1>2, <2>1
    <3> DEFINE seen == [t \in DOMAIN acc.seen \cup {tag} |-> IF t = tag THEN count ELSE acc.seen[t]]
               out == Append(acc.out, node)
    <3>2. after[n + 1] = [seen |-> seen, out |-> out]
      BY <3>1, Zenon DEF RenameNext
    <3> HIDE DEF seen, out
    <3>3. after[n + 1].seen = seen /\ after[n + 1].out = out
      BY <3>2
    <3> QED BY Zenon, <3>3 DEF seen, out
  <2>4. Before(nodes, n + 1) = Named(nodes, tag, n)
    BY <2>1 DEF Before, Named
  <2>5. /\ known <=> Cardinality(Named(nodes, tag, n)) # 0
        /\ count = Cardinality(Named(nodes, tag, n)) /\ count \in Nat
    <3>1. known <=> \E i \in 1..n : nodes[i].name = tag
      BY <2>2, Zenon
    <3>2. known => acc.seen[tag] + 1 = Cardinality(Named(nodes, tag, n)) /\ acc.seen[tag] \in Nat
      BY <2>2, Zenon
    <3>3. /\ Cardinality(Named(nodes, tag, n)) \in Nat
          /\ Cardinality(Named(nodes, tag, n)) = 0 <=> \A j \in 1..n : nodes[j].name # tag
      BY Zenon, NamesCounted
    <3> HIDE DEF known
    <3> QED BY <3>1, <3>2, <3>3
  <2>6. node = Numbered(nodes, n + 1)
    <3>1. CASE known
      <4>1. count # 0 /\ Cardinality(Before(nodes, n + 1)) = count
        BY Zenon, <2>4, <2>5, <3>1
      <4>2. node = [nodes[n + 1] EXCEPT !.name = Append(tag, count)]
        BY <3>1
      <4> HIDE DEF count, node, known
      <4>3. Numbered(nodes, n + 1) = [nodes[n + 1] EXCEPT !.name = Append(@, count)]
        BY <4>1, Zenon DEF Numbered
      <4> QED BY <4>2, <4>3
    <3>2. CASE ~known
      <4>1. Cardinality(Before(nodes, n + 1)) = 0
        BY <2>4, <2>5, <3>2
      <4>2. node = nodes[n + 1]
        BY <3>2
      <4> QED BY <4>1, <4>2, Zenon DEF Numbered
    <3> QED BY <3>1, <3>2
  <2> HIDE DEF node
  <2>7. Out(after[n + 1], n + 1)
    <3> DEFINE out == acc.out
               more == Append(out, node)
    <3>1. /\ IsList(more) /\ Len(more) = n + 1 /\ more[n + 1] = node
          /\ \A i \in 1..n : more[i] = out[i]
      BY <2>2, LongerList
    <3>2. \A i \in 1..n : out[i] = Numbered(nodes, i)
      BY <2>2
    <3> HIDE DEF more
    <3>3. \A i \in 1..(n + 1) : more[i] = Numbered(nodes, i)
      BY <2>6, <3>1, <3>2
    <3>4. after[n + 1].out = more
      BY <2>3 DEF more
    <3> QED BY <3>1, <3>3, <3>4
  <2>8. Counted(after[n + 1], n + 1)
    <3> DEFINE seen == after[n + 1].seen
    <3>1. DOMAIN seen = DOMAIN acc.seen \cup {tag}
      BY <2>3
    <3>2. \A t \in DOMAIN seen : seen[t] = IF t = tag THEN count ELSE acc.seen[t]
      BY Zenon, <2>3
    <3> HIDE DEF count, seen
    <3>3. \A t : t \in DOMAIN seen <=> \E i \in 1..(n + 1) : nodes[i].name = t
      <4>1. \A t : t \in DOMAIN acc.seen <=> \E i \in 1..n : nodes[i].name = t
        BY <2>2, Zenon
      <4>2. \A i : i \in 1..(n + 1) <=> i \in 1..n \/ i = n + 1
        OBVIOUS
      <4> QED BY <3>1, <4>1, <4>2, Zenon
    <3>4. ASSUME NEW t \in DOMAIN seen
          PROVE  seen[t] + 1 = Cardinality(Named(nodes, t, n + 1)) /\ seen[t] \in Nat
      <4>1. Cardinality(Named(nodes, t, n + 1)) =
              IF tag = t THEN Cardinality(Named(nodes, t, n)) + 1 ELSE Cardinality(Named(nodes, t, n))
        BY SMTT(30), NamesCounted
      <4>2. CASE t = tag
        BY <2>5, <3>2, <4>1, <4>2
      <4>3. CASE t # tag
        <5>1. t \in DOMAIN acc.seen
          BY <3>1, <4>3
        <5>2. acc.seen[t] + 1 = Cardinality(Named(nodes, t, n)) /\ acc.seen[t] \in Nat
          BY <2>2, <5>1, Zenon
        <5> QED BY <3>2, <4>1, <4>3, <5>2
      <4> QED BY <4>2, <4>3
    <3> QED BY <3>3, <3>4, Zenon DEF seen
  <2> QED BY <2>7, <2>8
<1>5. \A n \in Nat : n \in S
  <2> HIDE DEF S
  <2> QED BY <1>3, <1>4, Induction
<1>6. Out(after[N], N)
  <2> HIDE DEF Out, Counted
  <2> QED BY <1>0, <1>5
<1> DEFINE out == after[N].out
<1>7. out = [i \in 1..Len(out) |-> out[i]] /\ Len(out) = N /\ \A i \in 1..N : out[i] = Numbered(nodes, i)
  BY <1>6, Zenon DEF IsList
<1> HIDE DEF out, N
<1>8. out = [i \in 1..N |-> Numbered(nodes, i)]
  BY <1>7
<1> QED BY <1>0, <1>1, <1>8 DEF out

\* A priority is at least that of an address of no kind.
LEMMA PriorityFacts ==
  ASSUME NEW strategy, NEW server
  PROVE  Priority(strategy, server) \in Nat
<1> DEFINE ranking == Ranking(strategy)
           ranks == {r \in DOMAIN ranking : ranking[r] = AddressType(server)}
<1>1. DOMAIN ranking \subseteq 1..3
  BY DEF Ranking
<1> HIDE DEF ranking
<1>2. CASE ranks = {}
  BY <1>2 DEF Priority, ranking
<1>3. CASE ranks # {}
  <2> DEFINE rank == CHOOSE r \in ranks : TRUE
  <2>1. rank \in ranks
    BY <1>3, Zenon
  <2>2. ranks \subseteq 1..3
    BY <1>1
  <2>3. Priority(strategy, server) = 4 - rank
    BY <1>3 DEF Priority, ranking
  <2> HIDE DEF ranks, rank
  <2> QED BY <2>1, <2>2, <2>3
<1> QED BY <1>2, <1>3

\* The loop that looks for the best index.
BestLoop(best, nodes, strategy, indices) ==
  best = [k \in 0..Len(indices) |->
            IF k = 0 THEN [index |-> indices[1], priority |-> -1]
            ELSE IF Better(Priority(strategy, nodes[indices[k]].server), best[k - 1].priority)
                 THEN [index |-> indices[k], priority |-> Priority(strategy, nodes[indices[k]].server)]
                 ELSE best[k - 1]]

\* Best is defined by its loop.
LEMMA BestDef ==
  ASSUME NEW nodes, NEW strategy, NEW indices, Len(indices) \in Nat
  PROVE  \E best : /\ BestLoop(best, nodes, strategy, indices)
                   /\ Best(nodes, strategy, indices) = best[Len(indices)].index
<1> DEFINE start == [index |-> indices[1], priority |-> -1]
           Loop(x, k) ==
             IF Better(Priority(strategy, nodes[indices[k]].server), x.priority)
             THEN [index |-> indices[k], priority |-> Priority(strategy, nodes[indices[k]].server)] ELSE x
           Solves(f, n) == f = [k \in 0..n |-> IF k = 0 THEN start ELSE Loop(f[k - 1], k)]
           S == {n \in Nat : \E f : Solves(f, n)}
<1>0. \A f : Solves(f, Len(indices)) <=> BestLoop(f, nodes, strategy, indices)
  BY Zenon DEF BestLoop
<1> HIDE DEF Loop, start
<1>1. 0 \in S
  <2> DEFINE f == [k \in 0..0 |-> start]
  <2>1. Solves(f, 0)
    OBVIOUS
  <2> QED BY <2>1, Zenon
<1>2. ASSUME NEW n \in Nat, n \in S PROVE n + 1 \in S
  <2>1. PICK f : Solves(f, n)
    BY <1>2
  <2> DEFINE g == [k \in 0..(n + 1) |-> IF k = n + 1 THEN Loop(f[n], k) ELSE f[k]]
  <2>2. ASSUME NEW k \in 0..(n + 1)
        PROVE  g[k] = IF k = 0 THEN start ELSE Loop(g[k - 1], k)
    <3>1. CASE k = 0
      BY <2>1, <3>1
    <3>2. CASE k \in 1..n
      BY <2>1, <3>2
    <3>3. CASE k = n + 1
      BY <3>3
    <3> QED BY <3>1, <3>2, <3>3
  <2>3. Solves(g, n + 1)
    <3>1. g = [k \in 0..(n + 1) |-> g[k]]
      OBVIOUS
    <3> HIDE DEF g
    <3> QED BY <2>2, <3>1
  <2> HIDE DEF g, Solves
  <2> QED BY <2>3
<1>3. \A n \in Nat : n \in S
  <2> HIDE DEF S
  <2> QED BY <1>1, <1>2, Induction
<1>4. \E f : Solves(f, Len(indices))
  BY <1>3
<1> HIDE DEF Solves
<1>5. \E f : BestLoop(f, nodes, strategy, indices)
  BY <1>0, <1>4, Zenon
<1>6. BestLoop(CHOOSE f : BestLoop(f, nodes, strategy, indices), nodes, strategy, indices)
  BY <1>5, Zenon
<1>7. Best(nodes, strategy, indices) = (CHOOSE f : BestLoop(f, nodes, strategy, indices))[Len(indices)].index
  BY Zenon DEF Best, BestLoop
<1> QED BY <1>6, <1>7, Zenon

\* The scan ends with the first of the indices whose priority no other exceeds.
LEMMA BestFacts ==
  ASSUME NEW nodes, NEW strategy, NEW indices, IsList(indices), Len(indices) > 0
  PROVE  \E m \in 1..Len(indices) :
           /\ Best(nodes, strategy, indices) = indices[m]
           /\ \A l \in 1..Len(indices) :
                LET rank(i) == Priority(strategy, nodes[i].server)
                IN \/ rank(indices[m]) > rank(indices[l])
                   \/ rank(indices[m]) = rank(indices[l]) /\ m <= l
<1> DEFINE N == Len(indices)
           Rank(l) == Priority(strategy, nodes[indices[l]].server)
<1>0. N \in Nat /\ N >= 1
  BY ListIsSeq
<1>1. PICK best : BestLoop(best, nodes, strategy, indices) /\ Best(nodes, strategy, indices) = best[N].index
  BY <1>0, BestDef, Zenon
<1>2. /\ best[0] = [index |-> indices[1], priority |-> -1]
      /\ \A k \in 1..N : best[k] = IF Better(Rank(k), best[k - 1].priority)
                                   THEN [index |-> indices[k], priority |-> Rank(k)] ELSE best[k - 1]
  <2>1. \A k \in 0..N : best[k] =
          IF k = 0 THEN [index |-> indices[1], priority |-> -1]
          ELSE IF Better(Rank(k), best[k - 1].priority)
               THEN [index |-> indices[k], priority |-> Rank(k)] ELSE best[k - 1]
    BY <1>1, Zenon DEF BestLoop
  <2>2. 0 \in 0..N /\ \A k \in 1..N : k \in 0..N /\ k # 0
    BY <1>0
  <2> QED BY <2>1, <2>2, Zenon
<1>3. \A l : Rank(l) \in Nat
  BY PriorityFacts, Zenon
<1> DEFINE First(acc, m, n) ==
             /\ m \in 1..n /\ acc.index = indices[m] /\ acc.priority = Rank(m)
             /\ \A l \in 1..n : Rank(m) > Rank(l) \/ (Rank(m) = Rank(l) /\ m <= l)
           S == {n \in Nat : n + 1 <= N => \E m : First(best[n + 1], m, n + 1)}
<1> HIDE DEF Rank
<1>4. 0 \in S
  <2>1. best[0].priority = -1
    BY <1>2
  <2>2. Better(Rank(1), best[0].priority)
    BY <1>3, <2>1 DEF Better
  <2>3. best[1] = [index |-> indices[1], priority |-> Rank(1)]
    BY <1>0, <1>2, <2>2
  <2>4. First(best[1], 1, 1)
    BY <2>3
  <2> QED BY <2>4
<1>5. ASSUME NEW n \in Nat, n \in S PROVE n + 1 \in S
  <2> SUFFICES ASSUME n + 2 <= N PROVE \E m : First(best[n + 2], m, n + 2)
    <3> HIDE DEF First
    <3> QED BY (n + 1) + 1 = n + 2
  <2>1. n + 1 <= N /\ n + 2 \in 1..N /\ (n + 2) - 1 = n + 1
    BY <1>0
  <2>2. PICK m : First(best[n + 1], m, n + 1)
    <3> HIDE DEF First
    <3> QED BY <1>5, <2>1
  <2>3. best[n + 2] = IF Better(Rank(n + 2), best[n + 1].priority)
                      THEN [index |-> indices[n + 2], priority |-> Rank(n + 2)] ELSE best[n + 1]
    BY <1>2, <2>1
  <2>4. Rank(n + 2) \in Nat /\ Rank(m) \in Nat /\ \A l \in 1..(n + 2) : Rank(l) \in Nat
    BY <1>3
  <2>5. CASE Rank(n + 2) > Rank(m)
    <3>1. best[n + 2] = [index |-> indices[n + 2], priority |-> Rank(n + 2)]
      BY <2>2, <2>3, <2>5 DEF Better
    <3>2. First(best[n + 2], n + 2, n + 2)
      BY SMTT(30), <2>2, <2>4, <2>5, <3>1
    <3> QED BY <3>2
  <2>6. CASE ~(Rank(n + 2) > Rank(m))
    <3>1. best[n + 2] = best[n + 1]
      BY <2>2, <2>3, <2>6 DEF Better
    <3>2. First(best[n + 2], m, n + 2)
      BY <2>2, <2>4, <2>6, <3>1
    <3> QED BY <3>2
  <2> QED BY <2>5, <2>6
<1>6. \A n \in Nat : n \in S
  <2> HIDE DEF S
  <2> QED BY <1>4, <1>5, Induction
<1>7. PICK m : First(best[N], m, N)
  <2> HIDE DEF First
  <2>1. N - 1 \in Nat /\ (N - 1) + 1 = N
    BY <1>0
  <2> QED BY <1>6, <2>1
<1>8. /\ m \in 1..N /\ best[N].index = indices[m]
      /\ \A l \in 1..N : Rank(m) > Rank(l) \/ (Rank(m) = Rank(l) /\ m <= l)
  BY <1>7
<1> QED BY <1>1, <1>8, Zenon DEF Rank

\* Are these the indices of the nodes of one name, in their order?
IndicesOf(indices, nodes, name) ==
  /\ IsList(indices) /\ Len(indices) \in Nat
  /\ \A j \in 1..Len(indices) : indices[j] \in DOMAIN nodes /\ nodes[indices[j]].name = name
  /\ \A i, j \in 1..Len(indices) : i < j => indices[i] < indices[j]
  /\ \A i \in DOMAIN nodes : nodes[i].name = name => \E j \in 1..Len(indices) : indices[j] = i

\* The first pass collects the indices of each name.
LEMMA NameIndicesFacts ==
  ASSUME NEW nodes, NEW name, IsList(nodes)
  PROVE  IndicesOf(NameIndices(nodes, name), nodes, name)
<1> DEFINE all == [i \in DOMAIN nodes |-> i]
           S == {i \in DOMAIN nodes : nodes[i].name = name}
           indices == NameIndices(nodes, name)
           N == Len(nodes)
<1>0. N \in Nat /\ DOMAIN nodes = 1..N
  BY ListIsSeq
<1>1. IsList(all) /\ DOMAIN all = DOMAIN nodes
  <2>1. all \in Seq(Nat)
    BY <1>0
  <2> QED BY <2>1, SeqIsList
<1>2. Consists(indices, all, S)
  BY <1>1, PickFacts, Zenon DEF NameIndices
<1>3. PICK h \in [DOMAIN indices -> S] :
        /\ \A i, j \in DOMAIN indices : i < j => h[i] < h[j]
        /\ \A p \in S : \E j \in DOMAIN indices : h[j] = p
        /\ \A j \in DOMAIN indices : indices[j] = all[h[j]]
  BY <1>2, Zenon DEF Consists
<1>4. IsList(indices) /\ DOMAIN indices = 1..Len(indices) /\ Len(indices) \in Nat
  BY <1>2, ListIsSeq, Zenon DEF Consists
<1> HIDE DEF indices
<1>5. \A j \in DOMAIN indices : h[j] \in S /\ indices[j] = h[j]
  BY Zenon, <1>3
<1> QED BY <1>3, <1>4, <1>5 DEF IndicesOf, indices

\* The index kept for a name is that of its winner.
LEMMA KeptWins ==
  ASSUME NEW nodes, NEW strategy, NEW i \in DOMAIN nodes, NEW indices, IsList(nodes),
         IndicesOf(indices, nodes, nodes[i].name)
  PROVE  LET w == KeptIndex(nodes, strategy, indices)
         IN w \in DOMAIN nodes /\ nodes[w].name = nodes[i].name /\ Wins(nodes, strategy, w)
<1> DEFINE N == Len(indices)
           w == KeptIndex(nodes, strategy, indices)
           Rank(k) == Priority(strategy, nodes[k].server)
           Beats(k, l) ==
             CASE strategy = "last" -> k > l
               [] strategy = "first" -> k < l
               [] OTHER -> Rank(k) > Rank(l) \/ (Rank(k) = Rank(l) /\ k < l)
           Good == w \in DOMAIN nodes /\ nodes[w].name = nodes[i].name /\ Wins(nodes, strategy, w)
<1> SUFFICES Good
  OBVIOUS
<1>0. DOMAIN nodes \subseteq Nat
  BY SMTT(30), Zenon, ListIsSeq
<1>1. /\ IsList(indices) /\ N \in Nat
      /\ \A j \in 1..N : indices[j] \in DOMAIN nodes /\ nodes[indices[j]].name = nodes[i].name
      /\ \A j, k \in 1..N : j < k => indices[j] < indices[k]
      /\ \A k \in DOMAIN nodes : nodes[k].name = nodes[i].name => \E j \in 1..N : indices[j] = k
  BY Zenon DEF IndicesOf
<1>2. N >= 1
  BY <1>1
<1>3. ASSUME NEW m \in 1..N, w = indices[m], \A l \in 1..N \ {m} : Beats(indices[m], indices[l])
      PROVE  Good
  <2> HIDE DEF Beats, w
  <2>1. w \in DOMAIN nodes /\ nodes[w].name = nodes[i].name
    BY <1>1, <1>3
  <2>2. \A j \in DOMAIN nodes \ {w} : nodes[j].name = nodes[w].name => Beats(w, j)
    <3> SUFFICES ASSUME NEW j \in DOMAIN nodes \ {w}, nodes[j].name = nodes[w].name PROVE Beats(w, j)
      OBVIOUS
    <3>1. PICK l \in 1..N : indices[l] = j
      BY <1>1, <2>1
    <3>2. l \in 1..N \ {m}
      BY <1>3, <3>1
    <3> QED BY <1>3, <3>1, <3>2
  <2>3. Wins(nodes, strategy, w)
    BY <2>2, Zenon DEF Wins, Beats, Rank
  <2> QED BY <2>1, <2>3
<1>4. CASE N = 1
  <2>1. w = indices[1]
    <3>1. CASE strategy \in {"first", "last"}
      BY <1>4, <3>1 DEF KeptIndex
    <3>2. CASE strategy \notin {"first", "last"}
      BY <1>4, <3>2 DEF KeptIndex
    <3> QED BY <3>1, <3>2
  <2>2. 1 \in 1..N /\ 1..N \ {1} = {}
    BY <1>4
  <2> HIDE DEF Beats, w, Good
  <2> QED BY <1>3, <2>1, <2>2
<1>5. CASE N # 1 /\ strategy = "first"
  <2>1. w = indices[1]
    BY <1>5 DEF KeptIndex
  <2>2. \A l \in 1..N \ {1} : Beats(indices[1], indices[l])
    <3>1. \A l \in 1..N \ {1} : 1 \in 1..N /\ 1 < l
      BY <1>1
    <3> QED BY <1>1, <1>5, <3>1
  <2> HIDE DEF Beats, w, Good
  <2> QED BY <1>2, <1>3, <2>1, <2>2
<1>6. CASE N # 1 /\ strategy = "last"
  <2>1. w = indices[N]
    BY <1>6 DEF KeptIndex
  <2>2. \A l \in 1..N \ {N} : Beats(indices[N], indices[l])
    <3>1. \A l \in 1..N \ {N} : N \in 1..N /\ l < N /\ indices[l] \in Nat /\ indices[N] \in Nat
      BY <1>0, <1>1
    <3> QED BY <1>1, <1>6, <3>1
  <2> HIDE DEF Beats, w, Good
  <2> QED BY <1>1, <1>2, <1>3, <2>1, <2>2
<1>7. CASE N # 1 /\ strategy \notin {"first", "last"}
  <2>1. w = Best(nodes, strategy, indices)
    BY <1>7 DEF KeptIndex
  <2>2. PICK m \in 1..N :
          /\ Best(nodes, strategy, indices) = indices[m]
          /\ \A l \in 1..N : \/ Rank(indices[m]) > Rank(indices[l])
                             \/ Rank(indices[m]) = Rank(indices[l]) /\ m <= l
    BY <1>1, <1>2, BestFacts
  <2>3. \A l \in 1..N \ {m} : Beats(indices[m], indices[l])
    <3> SUFFICES ASSUME NEW l \in 1..N \ {m} PROVE Beats(indices[m], indices[l])
      BY Zenon
    <3>1. Rank(indices[m]) > Rank(indices[l]) \/ (Rank(indices[m]) = Rank(indices[l]) /\ m <= l)
      BY <2>2
    <3> HIDE DEF Rank
    <3>2. m <= l => indices[m] < indices[l]
      BY <1>1
    <3> QED BY <1>7, <3>1, <3>2
  <2> HIDE DEF Beats, w, Good
  <2> QED BY <1>3, <2>1, <2>2, <2>3
<1> HIDE DEF Good
<1> QED BY <1>4, <1>5, <1>6, <1>7

\* Two nodes of a name cannot both win.
LEMMA OneWinner ==
  ASSUME NEW nodes, NEW strategy, NEW i \in DOMAIN nodes, NEW j \in DOMAIN nodes, IsList(nodes),
         nodes[i].name = nodes[j].name, Wins(nodes, strategy, i), Wins(nodes, strategy, j)
  PROVE  i = j
<1> DEFINE Rank(k) == Priority(strategy, nodes[k].server)
<1> SUFFICES ASSUME i # j PROVE FALSE
  OBVIOUS
<1>1. i \in Nat /\ j \in Nat
  <2>1. DOMAIN nodes = 1..Len(nodes)
    BY ListIsSeq, Zenon
  <2> QED BY <2>1
<1>2. Rank(i) \in Nat /\ Rank(j) \in Nat
  BY PriorityFacts
<1>3. /\ CASE strategy = "last" -> i > j
           [] strategy = "first" -> i < j
           [] OTHER -> Rank(i) > Rank(j) \/ (Rank(i) = Rank(j) /\ i < j)
      /\ CASE strategy = "last" -> j > i
           [] strategy = "first" -> j < i
           [] OTHER -> Rank(j) > Rank(i) \/ (Rank(j) = Rank(i) /\ j < i)
  BY Zenon DEF Wins
<1> HIDE DEF Rank
<1> QED BY <1>1, <1>2, <1>3

\* deduplicate_nodes for all lists and strategies: the default keeps all and numbers the
\* repetitions, every other strategy keeps the winner of each name, in the order of the list.
THEOREM DedupKeepsTheWinners ==
  ASSUME NEW nodes, NEW strategy, IsList(nodes)
  PROVE  IF strategy = "rename"
         THEN Deduplicate(nodes, strategy) = [i \in DOMAIN nodes |-> Numbered(nodes, i)]
         ELSE Consists(Deduplicate(nodes, strategy), nodes,
                       {i \in DOMAIN nodes : Wins(nodes, strategy, i)})
<1>1. CASE strategy = "rename"
  BY <1>1, DedupRenameFacts, Zenon DEF Deduplicate
<1>2. CASE strategy # "rename"
  <2> DEFINE Kept(i) == KeptIndex(nodes, strategy, NameIndices(nodes, nodes[i].name))
             keep == {Kept(i) : i \in DOMAIN nodes}
             winners == {i \in DOMAIN nodes : Wins(nodes, strategy, i)}
  <2>1. Deduplicate(nodes, strategy) = Pick(nodes, keep)
    BY <1>2, Zenon DEF Deduplicate
  <2>2. \A i \in DOMAIN nodes :
          Kept(i) \in DOMAIN nodes /\ nodes[Kept(i)].name = nodes[i].name /\ Wins(nodes, strategy, Kept(i))
    BY NameIndicesFacts, KeptWins, Zenon
  <2> HIDE DEF Kept
  <2>3. \A i \in DOMAIN nodes : Wins(nodes, strategy, i) => Kept(i) = i
    BY <2>2, OneWinner, Zenon
  <2>4. keep = winners
    BY <2>2, <2>3, Zenon
  <2>5. Consists(Pick(nodes, winners), nodes, winners)
    BY PickFacts, Zenon
  <2> QED BY <1>2, <2>1, <2>4, <2>5
<1> QED BY <1>1, <1>2

-----------------------------------------------------------------------------
(* What subscriptions go through *)

\* What is known of the lists at every stage.
ProcInv ==
  /\ IsList(fetched) /\ IsList(pipeline) /\ policy \in Strategies
  /\ stage \in {"fetched", "processed", "merged"}
  /\ stage # "fetched" => processed = ApplyPipeline(fetched, pipeline)
  /\ stage = "merged" => merged = Deduplicate(processed, policy)

\* ProcInv holds initially, and running the pipeline or the deduplication preserves it.
THEOREM ProcInvariance == ProcSpec => []ProcInv
<1>1. ProcInit => ProcInv
  <2> SUFFICES ASSUME ProcInit PROVE ProcInv
    OBVIOUS
  <2>1. PICK c \in Cases : fetched \in c.lists /\ pipeline \in c.pipelines /\ policy \in c.strategies
    BY Zenon DEF ProcInit
  <2>2. IsList(fetched) /\ IsList(pipeline) /\ policy \in Strategies
    BY <2>1, CasesAssumption, Zenon
  <2>3. stage = "fetched"
    BY Zenon DEF ProcInit
  <2> QED BY <2>2, <2>3 DEF ProcInv
<1>2. ProcInv /\ [ProcNext]_procVars => ProcInv'
  <2> SUFFICES ASSUME ProcInv, [ProcNext]_procVars PROVE ProcInv'
    OBVIOUS
  <2>1. CASE RunPipeline
    BY <2>1 DEF RunPipeline, ProcInv
  <2>2. CASE RunDedup
    BY <2>2 DEF RunDedup, ProcInv
  <2>3. CASE UNCHANGED procVars
    BY <2>3 DEF procVars, ProcInv
  <2> QED BY <2>1, <2>2, <2>3 DEF ProcNext
<1> QED BY <1>1, <1>2, PTL DEF ProcSpec

\* apply_pipeline leaves the nodes that no step selects as they were and in order,
\* whatever is fetched and however the steps are configured.
THEOREM PipelinesSpareTheUnselected == ProcSpec => []UnselectedUntouched
<1>1. ProcInv => UnselectedUntouched
  BY PipelinesAreFaithful, Zenon DEF ProcInv, UnselectedUntouched
<1> QED BY <1>1, ProcInvariance, PTL

\* deduplicate_nodes keeps exactly the winner of each name, or with the default numbers
\* the repetitions, for every list that a pipeline can leave.
THEOREM DedupIsTheReference == ProcSpec => []DedupMatchesReference
<1>1. ProcInv => DedupMatchesReference
  <2> SUFFICES ASSUME ProcInv, stage = "merged" PROVE DedupMatchesReference
    BY Zenon DEF DedupMatchesReference
  <2>1. processed = ApplyPipeline(fetched, pipeline) /\ merged = Deduplicate(processed, policy)
    BY DEF ProcInv
  <2>2. IsList(processed)
    BY <2>1, PipelinesAreFaithful, Zenon DEF ProcInv
  <2> QED BY <2>1, <2>2, DedupKeepsTheWinners, Zenon DEF DedupMatchesReference
<1> QED BY <1>1, ProcInvariance, PTL

-----------------------------------------------------------------------------
(* Lists in a row, and the escapes of URLs *)

\* The loop that puts lists one after the other.
ConcatLoop(upTo, lists) ==
  upTo = [k \in 0..Len(lists) |-> IF k = 0 THEN <<>> ELSE upTo[k - 1] \o lists[k]]

\* Concat is defined by its loop.
LEMMA ConcatDef ==
  ASSUME NEW lists, Len(lists) \in Nat
  PROVE  \E upTo : ConcatLoop(upTo, lists) /\ Concat(lists) = upTo[Len(lists)]
<1> DEFINE Loop(x, k) == x \o lists[k]
           Solves(f, n) == f = [k \in 0..n |-> IF k = 0 THEN <<>> ELSE Loop(f[k - 1], k)]
           S == {n \in Nat : \E f : Solves(f, n)}
<1>0. \A f : Solves(f, Len(lists)) <=> ConcatLoop(f, lists)
  BY Zenon DEF ConcatLoop
<1> HIDE DEF Loop
<1>1. 0 \in S
  <2> DEFINE f == [k \in 0..0 |-> <<>>]
  <2>1. Solves(f, 0)
    OBVIOUS
  <2> QED BY <2>1, Zenon
<1>2. ASSUME NEW n \in Nat, n \in S PROVE n + 1 \in S
  <2>1. PICK f : Solves(f, n)
    BY <1>2
  <2> DEFINE g == [k \in 0..(n + 1) |-> IF k = n + 1 THEN Loop(f[n], k) ELSE f[k]]
  <2>2. ASSUME NEW k \in 0..(n + 1)
        PROVE  g[k] = IF k = 0 THEN <<>> ELSE Loop(g[k - 1], k)
    <3>1. CASE k = 0
      BY <2>1, <3>1
    <3>2. CASE k \in 1..n
      BY <2>1, <3>2
    <3>3. CASE k = n + 1
      BY <3>3
    <3> QED BY <3>1, <3>2, <3>3
  <2>3. Solves(g, n + 1)
    <3>1. g = [k \in 0..(n + 1) |-> g[k]]
      OBVIOUS
    <3> HIDE DEF g
    <3> QED BY Zenon, <2>2, <3>1
  <2> HIDE DEF g, Solves
  <2> QED BY <2>3
<1>3. \A n \in Nat : n \in S
  <2> HIDE DEF S
  <2> QED BY <1>1, <1>2, Induction
<1>4. \E f : Solves(f, Len(lists))
  BY <1>3
<1> HIDE DEF Solves
<1>5. \E f : ConcatLoop(f, lists)
  BY <1>0, <1>4, Zenon
<1>6. ConcatLoop(CHOOSE f : ConcatLoop(f, lists), lists)
  BY <1>5, Zenon
<1>7. Concat(lists) = (CHOOSE f : ConcatLoop(f, lists))[Len(lists)]
  BY Zenon DEF Concat, ConcatLoop
<1> QED BY <1>6, <1>7, Zenon

\* The lists are put together one by one.
LEMMA ConcatSteps ==
  ASSUME NEW lists, Len(lists) \in Nat
  PROVE  \E upTo : /\ upTo[0] = <<>> /\ \A k \in 1..Len(lists) : upTo[k] = upTo[k - 1] \o lists[k]
                   /\ Concat(lists) = upTo[Len(lists)]
<1>1. PICK upTo : ConcatLoop(upTo, lists) /\ Concat(lists) = upTo[Len(lists)]
  BY ConcatDef, Zenon
<1>2. \A k \in 0..Len(lists) : upTo[k] = IF k = 0 THEN <<>> ELSE upTo[k - 1] \o lists[k]
  BY <1>1, Zenon DEF ConcatLoop
<1>3. 0 \in 0..Len(lists) /\ \A k \in 1..Len(lists) : k \in 0..Len(lists) /\ k # 0
  OBVIOUS
<1>4. upTo[0] = <<>> /\ \A k \in 1..Len(lists) : upTo[k] = upTo[k - 1] \o lists[k]
  BY <1>2, <1>3, Zenon
<1> QED BY <1>1, <1>4, Zenon

\* Does all start with list?
StartsWith(all, list) ==
  IsList(all) /\ IsList(list) /\ Len(list) <= Len(all) /\ \A i \in 1..Len(list) : all[i] = list[i]

\* What is put together starts with what was put together first.
LEMMA ConcatPrefixes ==
  ASSUME NEW upTo, NEW lists, NEW N \in Nat, upTo[0] = <<>>,
         \A k \in 1..N : IsList(lists[k]) /\ upTo[k] = upTo[k - 1] \o lists[k]
  PROVE  \A k \in 0..N : StartsWith(upTo[N], upTo[k]) /\ (k > 0 => InARow(upTo[k - 1], lists[k], upTo[k]))
<1> DEFINE Whole(n) == \A k \in 0..n : StartsWith(upTo[n], upTo[k])
           S == {n \in Nat : n <= N => Whole(n)}
<1>1. 0 \in S
  <2>1. StartsWith(upTo[0], upTo[0])
    BY EmptyList DEF StartsWith
  <2> QED BY <2>1
<1>2. ASSUME NEW n \in Nat, n \in S PROVE n + 1 \in S
  <2> SUFFICES ASSUME n + 1 <= N PROVE Whole(n + 1)
    <3> HIDE DEF Whole
    <3> QED OBVIOUS
  <2>1. n <= N /\ n + 1 \in 1..N /\ (n + 1) - 1 = n
    OBVIOUS
  <2>2. Whole(n)
    <3> HIDE DEF Whole
    <3> QED BY <1>2, <2>1
  <2>3. IsList(upTo[n])
    BY <2>2 DEF StartsWith
  <2>4. InARow(upTo[n], lists[n + 1], upTo[n + 1])
    BY Zenon, <2>1, <2>3 DEF InARow
  <2>5. /\ IsList(upTo[n + 1]) /\ Len(upTo[n + 1]) = Len(upTo[n]) + Len(lists[n + 1])
        /\ \A i \in 1..Len(upTo[n]) : upTo[n + 1][i] = upTo[n][i]
    <3> DEFINE old == upTo[n]
               more == lists[n + 1]
               all == upTo[n + 1]
    <3>1. InARow(old, more, all)
      BY <2>4
    <3> HIDE DEF old, more, all
    <3>2. /\ IsList(all) /\ Len(all) = Len(old) + Len(more)
          /\ \A i \in 1..Len(old) : all[i] = old[i]
      BY ONLY <3>1, JoinedLists
    <3> QED BY <3>2, Zenon DEF old, more, all
  <2>6. Len(upTo[n]) \in Nat /\ Len(lists[n + 1]) \in Nat
    BY <2>1, <2>3, ListIsSeq
  <2>7. ASSUME NEW k \in 0..(n + 1) PROVE StartsWith(upTo[n + 1], upTo[k])
    <3>1. CASE k = n + 1
      BY <2>5, <2>6, <3>1, Len(upTo[n + 1]) <= Len(upTo[n + 1]), Zenon DEF StartsWith
    <3>2. CASE k \in 0..n
      <4>1. StartsWith(upTo[n], upTo[k])
        BY <2>2, <3>2
      <4>2. Len(upTo[k]) \in Nat
        BY <4>1, ListIsSeq DEF StartsWith
      <4>3. IsList(upTo[k]) /\ Len(upTo[k]) <= Len(upTo[n]) /\ \A i \in 1..Len(upTo[k]) : upTo[n][i] = upTo[k][i]
        BY <4>1, Zenon DEF StartsWith
      <4>4. Len(upTo[k]) <= Len(upTo[n + 1]) /\ \A i \in 1..Len(upTo[k]) : i \in 1..Len(upTo[n])
        <5>1. Len(upTo[n + 1]) = Len(upTo[n]) + Len(lists[n + 1]) /\ Len(upTo[k]) <= Len(upTo[n])
          BY <2>5, <4>3, Zenon
        <5> DEFINE a == Len(upTo[k])
                   b == Len(upTo[n])
                   d == Len(lists[n + 1])
        <5>2. a \in Nat /\ b \in Nat /\ d \in Nat /\ a <= b /\ Len(upTo[n + 1]) = b + d
          BY <2>6, <4>2, <5>1, Zenon
        <5> HIDE DEF a, b, d
        <5>3. a <= b + d /\ \A i \in 1..a : i \in 1..b
          BY ONLY <5>2
        <5> QED BY <5>2, <5>3, Zenon DEF a, b, d
      <4> QED BY <2>5, <4>3, <4>4, Zenon DEF StartsWith
    <3> QED BY <3>1, <3>2
  <2> QED BY <2>7
<1>3. \A n \in Nat : n \in S
  <2> HIDE DEF S
  <2> QED BY <1>1, <1>2, Induction
<1>4. Whole(N)
  <2> HIDE DEF Whole
  <2> QED BY <1>3
<1>5. ASSUME NEW k \in 0..N, k > 0 PROVE InARow(upTo[k - 1], lists[k], upTo[k])
  <2>1. k \in 1..N /\ k - 1 \in 0..N
    BY <1>5
  <2>2. IsList(upTo[k - 1])
    BY <1>4, <2>1 DEF StartsWith
  <2> QED BY Zenon, <2>1, <2>2 DEF InARow
<1> QED BY <1>4, <1>5

\* A list of one member.
LEMMA OneList ==
  ASSUME NEW x
  PROVE  IsList(<<x>>) /\ Len(<<x>>) = 1 /\ <<x>>[1] = x /\ DOMAIN <<x>> = 1..1
BY DEF IsList

\* Lists of one member each, put together.
LEMMA ConcatOfOnes ==
  ASSUME NEW lists, NEW out, IsList(lists), IsList(out), Len(out) = Len(lists),
         \A i \in DOMAIN lists : lists[i] = <<out[i]>>
  PROVE  Concat(lists) = out
<1> DEFINE N == Len(lists)
<1>0. N \in Nat /\ DOMAIN lists = 1..N
  BY ListIsSeq
<1>1. PICK upTo : /\ upTo[0] = <<>> /\ \A k \in 1..N : upTo[k] = upTo[k - 1] \o lists[k]
                  /\ Concat(lists) = upTo[N]
  BY <1>0, ConcatSteps, Zenon
<1>2. \A k \in 1..N : IsList(lists[k]) /\ Len(lists[k]) = 1 /\ lists[k][1] = out[k]
  BY <1>0, OneList, Zenon
<1>3. \A k \in 0..N : StartsWith(upTo[N], upTo[k]) /\ (k > 0 => InARow(upTo[k - 1], lists[k], upTo[k]))
  BY Zenon, <1>0, <1>1, <1>2, ConcatPrefixes
<1> DEFINE Same(n) == Len(upTo[n]) = n /\ \A i \in 1..n : upTo[n][i] = out[i]
           S == {n \in Nat : n <= N => Same(n)}
<1>4. 0 \in S
  BY <1>1, EmptyList
<1>5. ASSUME NEW n \in Nat, n \in S PROVE n + 1 \in S
  <2> SUFFICES ASSUME n + 1 <= N PROVE Same(n + 1)
    <3> HIDE DEF Same
    <3> QED OBVIOUS
  <2>1. n <= N /\ n + 1 \in 1..N /\ n + 1 \in 0..N /\ n + 1 > 0 /\ (n + 1) - 1 = n
    BY <1>0
  <2>2. Same(n)
    <3> HIDE DEF Same
    <3> QED BY <1>5, <2>1
  <2>3. InARow(upTo[n], lists[n + 1], upTo[n + 1])
    BY <1>3, <2>1
  <2>4. /\ Len(upTo[n + 1]) = Len(upTo[n]) + Len(lists[n + 1])
        /\ \A i \in 1..Len(upTo[n]) : upTo[n + 1][i] = upTo[n][i]
        /\ \A i \in 1..Len(lists[n + 1]) : upTo[n + 1][Len(upTo[n]) + i] = lists[n + 1][i]
    <3> DEFINE old == upTo[n]
               more == lists[n + 1]
               all == upTo[n + 1]
    <3>1. InARow(old, more, all)
      BY <2>3
    <3> HIDE DEF old, more, all
    <3>2. /\ Len(all) = Len(old) + Len(more)
          /\ \A i \in 1..Len(old) : all[i] = old[i]
          /\ \A i \in 1..Len(more) : all[Len(old) + i] = more[i]
      BY ONLY <3>1, JoinedLists
    <3> QED BY <3>2, Zenon DEF old, more, all
  <2>5. Len(lists[n + 1]) = 1 /\ lists[n + 1][1] = out[n + 1]
    BY <1>2, <2>1
  <2>6. 1 \in 1..1
    OBVIOUS
  <2>7. upTo[n + 1][n + 1] = out[n + 1]
    BY <2>2, <2>4, <2>5, <2>6
  <2> QED BY <2>2, <2>4, <2>5, <2>7
<1>6. \A n \in Nat : n \in S
  <2> HIDE DEF S
  <2> QED BY <1>4, <1>5, Induction
<1>7. Same(N)
  <2> HIDE DEF Same
  <2> QED BY <1>0, <1>6
<1>8. IsList(upTo[N])
  BY <1>0, <1>3 DEF StartsWith
<1> DEFINE all == upTo[N]
<1>9. all = [i \in 1..N |-> all[i]] /\ out = [i \in 1..N |-> out[i]] /\ \A i \in 1..N : all[i] = out[i]
  BY <1>7, <1>8, Zenon DEF IsList
<1> HIDE DEF all, N
<1>10. all = out
  BY <1>9
<1> QED BY <1>1, <1>10 DEF all

\* Empty lists, put together.
LEMMA ConcatOfNone ==
  ASSUME NEW lists, IsList(lists), \A i \in DOMAIN lists : lists[i] = <<>>
  PROVE  Concat(lists) = <<>>
<1> DEFINE N == Len(lists)
<1>0. N \in Nat /\ DOMAIN lists = 1..N
  BY ListIsSeq
<1>1. PICK upTo : /\ upTo[0] = <<>> /\ \A k \in 1..N : upTo[k] = upTo[k - 1] \o lists[k]
                  /\ Concat(lists) = upTo[N]
  BY <1>0, ConcatSteps, Zenon
<1> DEFINE S == {n \in Nat : n <= N => upTo[n] = <<>>}
<1>2. 0 \in S
  BY <1>1
<1>3. ASSUME NEW n \in Nat, n \in S PROVE n + 1 \in S
  <2> SUFFICES ASSUME n + 1 <= N PROVE upTo[n + 1] = <<>>
    OBVIOUS
  <2>1. n <= N /\ n + 1 \in 1..N /\ (n + 1) - 1 = n
    BY <1>0
  <2>2. upTo[n] = <<>>
    BY <1>3, <2>1
  <2>3. upTo[n + 1] = upTo[n] \o lists[n + 1] /\ lists[n + 1] = <<>>
    BY Zenon, <1>0, <1>1, <2>1
  <2> QED BY <2>2, <2>3
<1>4. \A n \in Nat : n \in S
  <2> HIDE DEF S
  <2> QED BY <1>2, <1>3, Induction
<1> QED BY <1>0, <1>1, <1>4

\* The loop that undoes the escapes.
DecodeLoop(after, text) ==
  after = [k \in 0..Len(text) |->
             IF k = 0 THEN [out |-> <<>>, escaped |-> FALSE] ELSE DecodeNext(after[k - 1], text[k])]

\* PercentDecode is defined by its loop.
LEMMA PercentDecodeDef ==
  ASSUME NEW text, Len(text) \in Nat
  PROVE  \E after : /\ after[0] = [out |-> <<>>, escaped |-> FALSE]
                    /\ \A k \in 1..Len(text) : after[k] = DecodeNext(after[k - 1], text[k])
                    /\ PercentDecode(text) = after[Len(text)].out
<1> DEFINE start == [out |-> <<>>, escaped |-> FALSE]
           Loop(x, k) == DecodeNext(x, text[k])
           Solves(f, n) == f = [k \in 0..n |-> IF k = 0 THEN start ELSE Loop(f[k - 1], k)]
           S == {n \in Nat : \E f : Solves(f, n)}
<1>0. \A f : Solves(f, Len(text)) <=> DecodeLoop(f, text)
  BY Zenon DEF DecodeLoop
<1> HIDE DEF Loop, start
<1>1. 0 \in S
  <2> DEFINE f == [k \in 0..0 |-> start]
  <2>1. Solves(f, 0)
    OBVIOUS
  <2> QED BY <2>1, Zenon
<1>2. ASSUME NEW n \in Nat, n \in S PROVE n + 1 \in S
  <2>1. PICK f : Solves(f, n)
    BY <1>2
  <2> DEFINE g == [k \in 0..(n + 1) |-> IF k = n + 1 THEN Loop(f[n], k) ELSE f[k]]
  <2>2. ASSUME NEW k \in 0..(n + 1)
        PROVE  g[k] = IF k = 0 THEN start ELSE Loop(g[k - 1], k)
    <3>1. CASE k = 0
      BY <2>1, <3>1
    <3>2. CASE k \in 1..n
      BY <2>1, <3>2
    <3>3. CASE k = n + 1
      BY <3>3
    <3> QED BY <3>1, <3>2, <3>3
  <2>3. Solves(g, n + 1)
    <3>1. g = [k \in 0..(n + 1) |-> g[k]]
      OBVIOUS
    <3> HIDE DEF g
    <3> QED BY <2>2, <3>1
  <2> HIDE DEF g, Solves
  <2> QED BY <2>3
<1>3. \A n \in Nat : n \in S
  <2> HIDE DEF S
  <2> QED BY <1>1, <1>2, Induction
<1>4. \E f : Solves(f, Len(text))
  BY <1>3
<1> HIDE DEF Solves
<1>5. \E f : DecodeLoop(f, text)
  BY <1>0, <1>4, Zenon
<1>6. DecodeLoop(CHOOSE f : DecodeLoop(f, text), text)
  BY <1>5, Zenon
<1>7. PercentDecode(text) = (CHOOSE f : DecodeLoop(f, text))[Len(text)].out
  BY Zenon DEF PercentDecode, DecodeLoop
<1>8. PICK after : DecodeLoop(after, text) /\ PercentDecode(text) = after[Len(text)].out
  BY <1>6, <1>7, Zenon
<1>9. \A k \in 0..Len(text) : after[k] = IF k = 0 THEN start ELSE DecodeNext(after[k - 1], text[k])
  BY <1>8, Zenon DEF DecodeLoop, start
<1>10. 0 \in 0..Len(text) /\ \A k \in 1..Len(text) : k \in 0..Len(text) /\ k # 0
  OBVIOUS
<1>11. after[0] = start /\ \A k \in 1..Len(text) : after[k] = DecodeNext(after[k - 1], text[k])
  BY <1>9, <1>10, Zenon
<1> QED BY <1>8, <1>11, Zenon DEF start

\* Reading one character of the text, escaped or not.
Decoded(acc, out) == acc = [out |-> out, escaped |-> FALSE]

\* A character that is escaped as percent_encode_query_component does is read back.
LEMMA DecodeEscaped ==
  ASSUME NEW acc, NEW out, NEW c, Decoded(acc, out)
  PROVE  /\ Decoded(DecodeNext(DecodeNext(acc, "%"), c), Append(out, c))
         /\ c \notin {"%", "+"} => Decoded(DecodeNext(acc, c), Append(out, c))
<1> DEFINE more == Append(out, c)
<1>1. acc.out = out /\ acc.escaped = FALSE
  BY DEF Decoded
<1>2. DecodeNext(acc, "%") = [out |-> out, escaped |-> TRUE]
  BY <1>1 DEF DecodeNext
<1> DEFINE seen == DecodeNext(acc, "%")
<1>3. seen.out = out /\ seen.escaped = TRUE
  BY <1>2
<1> HIDE DEF seen
<1>4. DecodeNext(seen, c) = [out |-> more, escaped |-> FALSE]
  BY Zenon, <1>3 DEF DecodeNext
<1>5. c \notin {"%", "+"} => DecodeNext(acc, c) = [out |-> more, escaped |-> FALSE]
  BY Zenon, <1>1 DEF DecodeNext
<1> HIDE DEF more
<1> QED BY <1>4, <1>5 DEF Decoded, more, seen

\* Whatever the name, the parser undoes the escapes that the server writes:
\* percent_encode_query_component and query_pairs are inverse.
THEOREM DecodingUndoesEncoding ==
  ASSUME NEW text, IsList(text)
  PROVE  PercentDecode(PercentEncode(text)) = text
<1> DEFINE reserved == {" ", "%", "+", "#", "&"}
           N == Len(text)
           Part(i) == IF text[i] \in reserved THEN <<"%", text[i]>> ELSE <<text[i]>>
           parts == [i \in DOMAIN text |-> Part(i)]
           code == PercentEncode(text)
<1>0. N \in Nat /\ DOMAIN text = 1..N
  BY ListIsSeq
<1>1. code = Concat(parts)
  BY Zenon DEF PercentEncode, Escape
<1>2. "%" \in reserved /\ "+" \in reserved
  OBVIOUS
<1> HIDE DEF reserved, code
<1>3. ASSUME NEW k \in 1..N
      PROVE  /\ IsList(parts[k])
             /\ text[k] \in reserved => Len(parts[k]) = 2 /\ parts[k][1] = "%" /\ parts[k][2] = text[k]
             /\ text[k] \notin reserved => Len(parts[k]) = 1 /\ parts[k][1] = text[k]
  <2> DEFINE c == text[k]
  <2>1. parts[k] = IF c \in reserved THEN <<"%", c>> ELSE <<c>>
    BY <1>0
  <2> HIDE DEF c
  <2>2. IsList(<<"%", c>>) /\ Len(<<"%", c>>) = 2 /\ <<"%", c>>[1] = "%" /\ <<"%", c>>[2] = c
    BY DEF IsList
  <2>3. IsList(<<c>>) /\ Len(<<c>>) = 1 /\ <<c>>[1] = c
    BY OneList
  <2>4. /\ IsList(parts[k])
        /\ c \in reserved => Len(parts[k]) = 2 /\ parts[k][1] = "%" /\ parts[k][2] = c
        /\ c \notin reserved => Len(parts[k]) = 1 /\ parts[k][1] = c
    BY ONLY <2>1, <2>2, <2>3, Zenon
  <2> QED BY <2>4 DEF c
<1>4. Len(parts) = N
  BY <1>0
<1> HIDE DEF parts
<1>5. PICK upTo : /\ upTo[0] = <<>> /\ \A k \in 1..N : upTo[k] = upTo[k - 1] \o parts[k]
                  /\ code = upTo[N]
  BY Zenon, <1>0, <1>1, <1>4, ConcatSteps
<1>6. \A k \in 0..N : StartsWith(upTo[N], upTo[k]) /\ (k > 0 => InARow(upTo[k - 1], parts[k], upTo[k]))
  BY Zenon, <1>0, <1>3, <1>5, ConcatPrefixes
<1>7. IsList(code) /\ Len(code) \in Nat
  BY <1>0, <1>5, <1>6, ListIsSeq DEF StartsWith
<1>8. PICK after : /\ after[0] = [out |-> <<>>, escaped |-> FALSE]
                   /\ \A k \in 1..Len(code) : after[k] = DecodeNext(after[k - 1], code[k])
                   /\ PercentDecode(code) = after[Len(code)].out
  BY <1>7, PercentDecodeDef, Zenon
<1> DEFINE Same(out, n) == IsList(out) /\ Len(out) = n /\ \A i \in 1..n : out[i] = text[i]
           Read(n) == \E out : Same(out, n) /\ Decoded(after[Len(upTo[n])], out)
           S == {n \in Nat : n <= N => Read(n)}
<1>9. 0 \in S
  <2>1. Same(<<>>, 0)
    BY EmptyList
  <2>2. Len(upTo[0]) = 0
    BY <1>5, EmptyList
  <2>3. Decoded(after[Len(upTo[0])], <<>>)
    BY <1>8, <2>2 DEF Decoded
  <2> QED BY <2>1, <2>3, Zenon
<1>10. ASSUME NEW n \in Nat, n \in S PROVE n + 1 \in S
  <2> SUFFICES ASSUME n + 1 <= N PROVE Read(n + 1)
    <3> HIDE DEF Read
    <3> QED OBVIOUS
  <2> DEFINE p == Len(upTo[n])
             q == Len(upTo[n + 1])
             c == text[n + 1]
             part == parts[n + 1]
  <2>1. n <= N /\ n + 1 \in 1..N /\ n \in 0..N /\ n + 1 \in 0..N /\ n + 1 > 0 /\ (n + 1) - 1 = n
    BY <1>0
  <2>2. PICK out : Same(out, n) /\ Decoded(after[p], out)
    <3>1. Read(n)
      <4> HIDE DEF Read
      <4> QED BY <1>10, <2>1
    <3> QED BY <3>1, Zenon
  <2>3. /\ p \in Nat /\ Len(part) \in Nat /\ q = p + Len(part) /\ q <= Len(code)
        /\ \A i \in 1..Len(part) : code[p + i] = part[i]
    <3> DEFINE old == upTo[n]
               all == upTo[n + 1]
    <3>1. InARow(old, part, all) /\ StartsWith(code, all)
      BY <1>5, <1>6, <2>1
    <3> HIDE DEF old, part, all
    <3>2. /\ IsList(all) /\ Len(all) = Len(old) + Len(part)
          /\ \A i \in 1..Len(part) : all[Len(old) + i] = part[i]
      BY ONLY <3>1, JoinedLists
    <3>3. IsList(old) /\ IsList(part)
      BY <3>1 DEF InARow
    <3>4. Len(old) \in Nat /\ Len(part) \in Nat
      BY <3>3, ListIsSeq
    <3>5. Len(all) <= Len(code) /\ \A i \in 1..Len(all) : code[i] = all[i]
      BY <3>1, Zenon DEF StartsWith
    <3>6. \A i \in 1..Len(part) : Len(old) + i \in 1..Len(all)
      BY <3>2, <3>4
    <3>7. \A i \in 1..Len(part) : code[Len(old) + i] = part[i]
      BY <3>2, <3>5, <3>6, Zenon
    <3> QED BY <3>2, <3>4, <3>5, <3>7, Zenon DEF old, all
  <2>4. /\ c \in reserved => Len(part) = 2 /\ part[1] = "%" /\ part[2] = c
        /\ c \notin reserved => Len(part) = 1 /\ part[1] = c
    BY <1>3, <2>1
  <2> DEFINE more == Append(out, c)
  <2>5. Same(more, n + 1)
    <3>1. IsList(out) /\ Len(out) = n /\ \A i \in 1..n : out[i] = text[i]
      BY <2>2
    <3>2. /\ IsList(more) /\ Len(more) = n + 1 /\ more[n + 1] = c
          /\ \A i \in 1..n : more[i] = out[i]
      BY <3>1, LongerList
    <3> HIDE DEF more
    <3> QED BY <3>1, <3>2
  <2> HIDE DEF p, q, part, c
  <2>6. Decoded(after[q], more)
    <3>1. CASE c \in reserved
      <4>1. Len(part) = 2 /\ part[1] = "%" /\ part[2] = c
        BY <2>4, <3>1
      <4>2. code[p + 1] = "%" /\ code[p + 2] = c /\ q = p + 2
        BY <2>3, <4>1
      <4>3. after[p + 1] = DecodeNext(after[p], code[p + 1]) /\ after[p + 2] = DecodeNext(after[p + 1], code[p + 2])
        <5>1. p + 1 \in 1..Len(code) /\ p + 2 \in 1..Len(code) /\ (p + 1) - 1 = p /\ (p + 2) - 1 = p + 1
          BY <1>7, <2>3, <4>2
        <5> QED BY SMTT(30), Zenon, <1>8, <5>1
      <4>4. Decoded(DecodeNext(DecodeNext(after[p], "%"), c), more)
        BY <2>2, DecodeEscaped, Zenon
      <4> QED BY <4>2, <4>3, <4>4
    <3>2. CASE c \notin reserved
      <4>1. Len(part) = 1 /\ part[1] = c
        BY <2>4, <3>2
      <4>2. code[p + 1] = c /\ q = p + 1
        BY <2>3, <4>1
      <4>3. after[p + 1] = DecodeNext(after[p], code[p + 1])
        <5>1. p + 1 \in 1..Len(code) /\ (p + 1) - 1 = p
          BY <1>7, <2>3, <4>2
        <5> QED BY <1>8, <5>1
      <4>4. c \notin {"%", "+"}
        BY <1>2, <3>2
      <4>5. Decoded(DecodeNext(after[p], c), more)
        BY <2>2, <4>4, DecodeEscaped, Zenon
      <4> QED BY <4>2, <4>3, <4>5
    <3> QED BY <3>1, <3>2
  <2> HIDE DEF Same, more
  <2> QED BY <2>5, <2>6, Zenon DEF q
<1>11. \A n \in Nat : n \in S
  <2> HIDE DEF S
  <2> QED BY <1>9, <1>10, Induction
<1>12. Read(N)
  <2> HIDE DEF Read
  <2> QED BY <1>0, <1>11
<1>13. PICK out : Same(out, N) /\ Decoded(after[Len(code)], out)
  BY <1>5, <1>12, Zenon
<1>14. PercentDecode(code) = out
  BY <1>8, <1>13 DEF Decoded
<1>15. out = [i \in 1..N |-> out[i]] /\ text = [i \in 1..N |-> text[i]] /\ \A i \in 1..N : out[i] = text[i]
  BY <1>13, Zenon DEF IsList
<1> HIDE DEF N
<1>16. out = text
  BY <1>15
<1> QED BY <1>14, <1>16 DEF code

-----------------------------------------------------------------------------
(* Links *)

\* A port is a number.
LEMMA MaxPortNat == MaxPort \in Nat
BY SMT DEF MaxPort

\* The ports and the alterId that build_node takes as they are.
LEMMA PortTaken ==
  ASSUME NEW port \in Nat, port <= MaxPort
  PROVE  (port <= 0 <=> port = 0) /\ ~(port > MaxPort)
BY MaxPortNat

LEMMA AlterIdTaken ==
  ASSUME NEW alterId \in Nat
  PROVE  (IF alterId > 0 THEN alterId ELSE 0) = alterId
OBVIOUS

LEMMA ZeroTaken == 0 \in Nat
OBVIOUS

\* What the parser makes of the options of a link, for a node that is reached
\* through the relay of an output.
Reached(name, server, alterId, node, output, relay) ==
  [name |-> name, server |-> server, port |-> output.port, uuid |-> node.uuid, alterId |-> alterId,
   security |-> IF node.security = "" THEN "auto" ELSE node.security,
   network |-> relay.network, tls |-> relay.network = "grpc",
   sni |-> IF relay.network = "grpc" /\ output.sni \notin {NoValue, ""} THEN output.sni ELSE server,
   service |-> IF relay.network = "grpc" THEN relay.service ELSE NoValue,
   wsPath |-> NoValue, wsHost |-> NoValue, packet |-> "default"]

\* The fields of a node that its links have.
LEMMA NodeFields ==
  ASSUME NEW node, IsNode(node)
  PROVE  /\ IsList(node.name) /\ node.uuid # "" /\ node.alterId \in Nat
         /\ node.packet \in PacketEncodings
BY Zenon DEF IsNode

\* The options of a link for a node behind the relay of an output.
Behind(opts, node, output, relay) ==
  /\ opts.add # "" /\ opts.port = output.port /\ opts.id = node.uuid /\ opts.net = relay.network
  /\ opts.host = "" /\ opts.scy = node.security /\ opts.packet = "default"
  /\ relay.network = "grpc" => opts.path = relay.service
  /\ TlsEnabled(opts.tls) = (relay.network = "grpc")
  /\ opts.sni = IF relay.network = "grpc" /\ output.sni # NoValue THEN output.sni ELSE ""

\* build_node reads the options of an output's link as the node behind the relay;
\* a port of 0 is an error.
LEMMA BuildNodeReads ==
  ASSUME NEW node, NEW output, NEW relay, NEW opts, Behind(opts, node, output, relay),
         node.uuid # "", opts.aid \in Nat,
         output.port \in Nat, output.port <= MaxPort, relay.network \in {"tcp", "grpc"}
  PROVE  BuildNode(opts) =
           IF output.port = 0 THEN <<>>
           ELSE <<Reached(opts.ps, opts.add, opts.aid, node, output, relay)>>
<1>1. (opts.port <= 0 <=> output.port = 0) /\ ~(opts.port > MaxPort)
  BY PortTaken, Zenon DEF Behind
<1>2. CASE output.port = 0
  BY <1>1, <1>2, Zenon DEF BuildNode
<1>3. CASE output.port # 0
  <2>1. ~(opts.port <= 0 \/ opts.port > MaxPort \/ opts.add = "" \/ opts.id = "")
    BY <1>1, <1>3, Zenon DEF Behind
  <2>2. (IF opts.aid > 0 THEN opts.aid ELSE 0) = opts.aid
    BY AlterIdTaken, Zenon
  <2>3. (IF opts.net = "" THEN "tcp" ELSE opts.net) = relay.network /\ relay.network # "ws"
    BY Zenon DEF Behind
  <2>4. (IF opts.sni # "" THEN opts.sni ELSE IF opts.host # "" THEN opts.host ELSE opts.add)
          = IF relay.network = "grpc" /\ output.sni \notin {NoValue, ""} THEN output.sni ELSE opts.add
    BY Zenon DEF Behind
  <2>5. (IF relay.network = "grpc" THEN opts.path ELSE NoValue)
          = IF relay.network = "grpc" THEN relay.service ELSE NoValue
    BY Zenon DEF Behind
  <2>6. TlsEnabled(opts.tls) = (relay.network = "grpc")
    BY Zenon DEF Behind
  <2>7. (IF opts.scy = "" THEN "auto" ELSE opts.scy) = IF node.security = "" THEN "auto" ELSE node.security
    BY Zenon DEF Behind
  <2>8. /\ (IF relay.network = "ws" THEN opts.path ELSE NoValue) = NoValue
        /\ (IF relay.network = "ws" /\ opts.host # "" THEN opts.host ELSE NoValue) = NoValue
    BY Zenon, <2>3
  <2>9. BuildNode(opts) = <<Reached(opts.ps, opts.add, opts.aid, node, output, relay)>>
    BY ZenonT(30), <2>1, <2>2, <2>3, <2>4, <2>5, <2>6, <2>7, <2>8, ZenonT(30) DEF BuildNode, Reached, Behind
  <2> QED BY <1>3, <2>9, Zenon
<1> QED BY <1>2, <1>3, Zenon

\* The v2rayN format has no query.
LEMMA EmptyDomain == DOMAIN <<>> = {}
BY SMTT(30), Zenon

\* The words that links have for TLS.
LEMMA TlsWords ==
  /\ TlsEnabled("tls") = TRUE /\ TlsEnabled("1") = TRUE
  /\ TlsEnabled("") = FALSE /\ TlsEnabled("none") = FALSE /\ TlsEnabled("0") = FALSE
BY DEF TlsEnabled

\* What the v2rayN link of a node is read as.
LEMMA V2raynReads ==
  ASSUME NEW node, NEW output, NEW relay, IsNode(node),
         output.port \in Nat, output.port <= MaxPort, output.host # "",
         relay.network \in {"tcp", "grpc"}
  PROVE  ParseVmessLink(BuildVmessJsonLink(node, output, relay)) =
           IF output.port = 0 THEN <<>> ELSE <<ReadBack("v2rayn", node, output, relay)>>
<1> DEFINE link == BuildVmessJsonLink(node, output, relay)
           opts == link.payload
<1>1. link.user = "" /\ link.query = <<>>
  BY Zenon DEF BuildVmessJsonLink
<1>2. DOMAIN <<>> = {}
  BY EmptyDomain, Zenon
<1>3. ParseVmessLink(link) = BuildNode(opts)
  BY <1>1, <1>2, Zenon DEF ParseVmessLink
<1>4. /\ opts.ps = node.name /\ opts.add = output.host /\ opts.port = output.port
      /\ opts.id = node.uuid /\ opts.aid = node.alterId
      /\ opts.net = IF relay.network = "grpc" THEN "grpc" ELSE "tcp"
      /\ opts.host = "" /\ opts.scy = node.security /\ opts.packet = "default"
      /\ opts.path = IF relay.network = "grpc" THEN relay.service ELSE ""
      /\ opts.tls = IF relay.network = "grpc" THEN "tls" ELSE ""
      /\ opts.sni = IF relay.network = "grpc" /\ output.sni # NoValue THEN output.sni ELSE ""
  BY Zenon DEF BuildVmessJsonLink, IsGrpc
<1> HIDE DEF link, opts
<1>5. opts.net = relay.network
  BY Zenon, <1>4
<1>6. TlsEnabled(opts.tls) = (relay.network = "grpc")
  BY Zenon, <1>4, TlsWords
<1>7. relay.network = "grpc" => opts.path = relay.service
  BY Zenon, <1>4
<1>8. node.uuid # "" /\ opts.aid \in Nat /\ opts.add # ""
  BY <1>4, NodeFields, Zenon
<1>9a. Behind(opts, node, output, relay)
  BY <1>4, <1>5, <1>6, <1>7, <1>8, Zenon DEF Behind
<1>9. BuildNode(opts) = IF output.port = 0 THEN <<>>
                        ELSE <<Reached(opts.ps, opts.add, opts.aid, node, output, relay)>>
  BY <1>8, <1>9a, BuildNodeReads, ZenonT(60)
<1>10. Reached(node.name, output.host, node.alterId, node, output, relay)
         = ReadBack("v2rayn", node, output, relay)
  BY Zenon DEF Reached, ReadBack
<1>11. ParseVmessLink(link) = IF output.port = 0 THEN <<>> ELSE <<ReadBack("v2rayn", node, output, relay)>>
  BY <1>3, <1>4, <1>9, <1>10, Zenon
<1> QED BY <1>11, Zenon DEF link

\* The query of a standard link, as the parser looks it up.
IsUrlQuery(q, node, output, relay) ==
  /\ {"remarks", "ps", "aid", "host", "path", "packetEncoding", "packetencoding"} \cap DOMAIN q = {}
  /\ {"type", "security", "encryption"} \subseteq DOMAIN q
  /\ q["type"] = IF relay.network = "grpc" THEN "grpc" ELSE "tcp"
  /\ q["security"] = IF relay.network = "grpc" THEN "tls" ELSE "none"
  /\ q["encryption"] = node.security
  /\ "serviceName" \in DOMAIN q <=> relay.network = "grpc"
  /\ relay.network = "grpc" => q["serviceName"] = relay.service
  /\ "sni" \in DOMAIN q <=> (relay.network = "grpc" /\ output.sni # NoValue)
  /\ (relay.network = "grpc" /\ output.sni # NoValue) => q["sni"] = output.sni

\* build_vmess_url_link writes such a query.
LEMMA UrlQuery ==
  ASSUME NEW node, NEW output, NEW relay, NEW q, q = BuildVmessUrlLink(node, output, relay).query
  PROVE  IsUrlQuery(q, node, output, relay)
<1> DEFINE always == [type |-> IF IsGrpc(relay) THEN "grpc" ELSE "tcp",
                      security |-> IF IsGrpc(relay) THEN "tls" ELSE "none",
                      encryption |-> node.security]
           service == AppendIf(always, IsGrpc(relay), [serviceName |-> relay.service])
<1>1. q = AppendIf(service, IsGrpc(relay) /\ output.sni # NoValue, [sni |-> output.sni])
  BY Zenon DEF BuildVmessUrlLink
<1>2. /\ DOMAIN service = {"type", "security", "encryption"} \cup (IF IsGrpc(relay) THEN {"serviceName"} ELSE {})
      /\ service["type"] = IF IsGrpc(relay) THEN "grpc" ELSE "tcp"
      /\ service["security"] = IF IsGrpc(relay) THEN "tls" ELSE "none"
      /\ service["encryption"] = node.security
      /\ IsGrpc(relay) => service["serviceName"] = relay.service
  BY Zenon DEF AppendIf
<1> HIDE DEF service
<1>3. QED
  BY <1>1, <1>2, SMTT(30) DEF AppendIf, IsGrpc, IsUrlQuery

\* The host of a URL is empty only if that of the output is.
LEMMA UrlHost ==
  ASSUME NEW host, host # ""
  PROVE  FormatUrlHost(host) # ""
BY Zenon DEF FormatUrlHost

\* What the standard link of a node is read as.
LEMMA StandardReads ==
  ASSUME NEW node, NEW output, NEW relay, IsNode(node),
         output.port \in Nat, output.port <= MaxPort, output.host # "",
         relay.network \in {"tcp", "grpc"}
  PROVE  ParseVmessLink(BuildVmessUrlLink(node, output, relay)) =
           IF output.port = 0 THEN <<>> ELSE <<ReadBack("standard", node, output, relay)>>
<1> DEFINE link == BuildVmessUrlLink(node, output, relay)
           q == link.query
           opts == [id |-> link.user, add |-> link.host, port |-> link.port, ps |-> Remarks(link),
                    aid |-> Get(q, "aid", 0), net |-> Get(q, "type", Get(q, "net", "tcp")),
                    host |-> Get(q, "host", ""), path |-> Get(q, "path", Get(q, "serviceName", "")),
                    tls |-> Get(q, "security", Get(q, "tls", "")), sni |-> Get(q, "sni", ""),
                    scy |-> Get(q, "encryption", Get(q, "scy", "")),
                    packet |-> Get(q, "packetEncoding", Get(q, "packetencoding", "default"))]
<1>1. /\ link.user = node.uuid /\ link.host = FormatUrlHost(output.host) /\ link.port = output.port
      /\ link.fragment = FragmentEncode(node.name)
  BY Zenon DEF BuildVmessUrlLink
<1>2. node.uuid # "" /\ FormatUrlHost(output.host) # ""
  BY NodeFields, UrlHost, Zenon
<1>3. ParseVmessLink(link) = BuildNode(opts)
  BY <1>1, <1>2, Zenon DEF ParseVmessLink, ParseUrlFormat
<1>4. IsUrlQuery(q, node, output, relay)
  BY UrlQuery, Zenon
<1>5. Remarks(link) = FragmentEncode(node.name)
  <2>1. {"remarks", "ps"} \cap DOMAIN q = {}
    BY Zenon, <1>4 DEF IsUrlQuery
  <2> QED BY <1>1, <2>1, Zenon DEF Remarks
<1> HIDE DEF link, q
<1>6. /\ Get(q, "aid", 0) = 0 /\ Get(q, "host", "") = ""
      /\ Get(q, "packetEncoding", Get(q, "packetencoding", "default")) = "default"
  BY Zenon, <1>4 DEF Get, IsUrlQuery
<1>7. /\ Get(q, "type", Get(q, "net", "tcp")) = relay.network
      /\ Get(q, "encryption", Get(q, "scy", "")) = node.security
  BY Zenon, <1>4 DEF Get, IsUrlQuery
<1>8. TlsEnabled(Get(q, "security", Get(q, "tls", ""))) = (relay.network = "grpc")
  BY Zenon, <1>4, TlsWords DEF Get, IsUrlQuery
<1>9. relay.network = "grpc" => Get(q, "path", Get(q, "serviceName", "")) = relay.service
  BY Zenon, <1>4 DEF Get, IsUrlQuery
<1>10. Get(q, "sni", "") = IF relay.network = "grpc" /\ output.sni # NoValue THEN output.sni ELSE ""
  BY Zenon, <1>4 DEF Get, IsUrlQuery
<1>11. /\ opts.id = node.uuid /\ opts.add = FormatUrlHost(output.host) /\ opts.port = output.port
       /\ opts.ps = FragmentEncode(node.name) /\ opts.aid = 0 /\ opts.net = relay.network
       /\ opts.host = "" /\ opts.scy = node.security /\ opts.packet = "default"
  BY Zenon, <1>1, <1>5, <1>6, <1>7
<1>12. /\ opts.path = Get(q, "path", Get(q, "serviceName", "")) /\ opts.sni = Get(q, "sni", "")
       /\ opts.tls = Get(q, "security", Get(q, "tls", ""))
  BY Zenon
<1> HIDE DEF opts
<1>13. Behind(opts, node, output, relay)
  BY <1>2, <1>8, <1>9, <1>10, <1>11, <1>12, Zenon DEF Behind
<1>14. opts.aid \in Nat
  BY <1>11, ZeroTaken, ZenonT(60)
<1>15. BuildNode(opts) = IF output.port = 0 THEN <<>>
                         ELSE <<Reached(opts.ps, opts.add, opts.aid, node, output, relay)>>
  BY <1>2, <1>13, <1>14, BuildNodeReads, ZenonT(60)
<1>16. Reached(FragmentEncode(node.name), FormatUrlHost(output.host), 0, node, output, relay)
         = ReadBack("standard", node, output, relay)
  BY Zenon DEF Reached, ReadBack
<1>17. ParseVmessLink(link) = IF output.port = 0 THEN <<>> ELSE <<ReadBack("standard", node, output, relay)>>
  BY <1>3, <1>11, <1>15, <1>16, Zenon
<1> QED BY <1>17, Zenon DEF link

\* The query of a Shadowrocket link, as the parser looks it up.
IsShadowrocketQuery(q, node, output, relay) ==
  /\ {"ps", "aid", "type", "serviceName", "security", "sni"} \cap DOMAIN q = {}
  /\ {"obfs", "tls", "udp", "alterId"} \subseteq DOMAIN q
  /\ q["obfs"] = IF relay.network = "grpc" THEN "grpc" ELSE "tcp"
  /\ q["tls"] = IF relay.network = "grpc" THEN "1" ELSE "0"
  /\ q["udp"] = ShadowrocketUdp(node.packet)
  /\ q["alterId"] = node.alterId
  /\ relay.network = "grpc" => "path" \in DOMAIN q /\ q["path"] = relay.service
  /\ "remarks" \in DOMAIN q <=> node.name # <<>>
  /\ node.name # <<>> => q["remarks"] = PercentEncode(node.name)
  /\ "peer" \in DOMAIN q <=> (relay.network = "grpc" /\ output.sni # NoValue)
  /\ (relay.network = "grpc" /\ output.sni # NoValue) => q["peer"] = output.sni
  /\ "obfsParam" \in DOMAIN q => "peer" \in DOMAIN q

\* build_shadowrocket_link writes such a query.
LEMMA ShadowrocketQuery ==
  ASSUME NEW node, NEW output, NEW relay, NEW q, q = BuildShadowrocketLink(node, output, relay).query
  PROVE  IsShadowrocketQuery(q, node, output, relay)
<1> DEFINE udp == ShadowrocketUdp(node.packet)
           text == PercentEncode(node.name)
           named == node.name # <<>>
           grpc == relay.network = "grpc"
           always == [obfs |-> IF grpc THEN "grpc" ELSE "tcp", tls |-> IF grpc THEN "1" ELSE "0",
                      udp |-> udp, alterId |-> node.alterId]
           path == AppendIf(always, grpc, [path |-> relay.service])
           remarks == AppendIf(path, named, [remarks |-> text])
<1>1. q = AppendIf(remarks, grpc /\ output.sni # NoValue, [obfsParam |-> output.sni, peer |-> output.sni])
  BY Zenon DEF BuildShadowrocketLink, IsGrpc
<1> HIDE DEF udp, text, named
<1>2. /\ DOMAIN path = {"obfs", "tls", "udp", "alterId"} \cup (IF grpc THEN {"path"} ELSE {})
      /\ path["obfs"] = IF grpc THEN "grpc" ELSE "tcp"
      /\ path["tls"] = IF grpc THEN "1" ELSE "0"
      /\ path["udp"] = udp /\ path["alterId"] = node.alterId
      /\ grpc => path["path"] = relay.service
  BY Zenon DEF AppendIf
<1> HIDE DEF path
<1>3. /\ DOMAIN remarks = DOMAIN path \cup (IF named THEN {"remarks"} ELSE {})
      /\ \A key \in DOMAIN path : remarks[key] = path[key]
      /\ named => remarks["remarks"] = text
  <2>1. "remarks" \notin DOMAIN path
    BY <1>2
  <2> QED BY <2>1, SMTT(30) DEF AppendIf
<1> HIDE DEF remarks
<1>4. /\ DOMAIN q = DOMAIN remarks \cup (IF grpc /\ output.sni # NoValue THEN {"obfsParam", "peer"} ELSE {})
      /\ \A key \in DOMAIN remarks : q[key] = remarks[key]
      /\ (grpc /\ output.sni # NoValue) => q["peer"] = output.sni
  <2>1. "peer" \notin DOMAIN remarks
    BY <1>2, <1>3
  <2> QED BY <1>1, <2>1, SMTT(30) DEF AppendIf
<1>5. /\ DOMAIN q = {"obfs", "tls", "udp", "alterId"} \cup (IF grpc THEN {"path"} ELSE {})
                      \cup (IF named THEN {"remarks"} ELSE {})
                      \cup (IF grpc /\ output.sni # NoValue THEN {"obfsParam", "peer"} ELSE {})
      /\ q["obfs"] = path["obfs"] /\ q["tls"] = path["tls"] /\ q["udp"] = udp /\ q["alterId"] = node.alterId
      /\ grpc => q["path"] = relay.service
      /\ named => q["remarks"] = text
  BY <1>2, <1>3, <1>4, SMTT(30)
<1> HIDE DEF grpc
<1>6. /\ {"ps", "aid", "type", "serviceName", "security", "sni"} \cap DOMAIN q = {}
      /\ {"obfs", "tls", "udp", "alterId"} \subseteq DOMAIN q
      /\ grpc => "path" \in DOMAIN q
      /\ "remarks" \in DOMAIN q <=> named
      /\ "peer" \in DOMAIN q <=> (grpc /\ output.sni # NoValue)
      /\ "obfsParam" \in DOMAIN q => "peer" \in DOMAIN q
  BY <1>5, SMTT(30)
<1> QED BY <1>2, <1>4, <1>5, <1>6, ZenonT(30) DEF IsShadowrocketQuery, grpc, named, text, udp

\* The udp option is read as the packet encoding it was written for.
LEMMA UdpReads ==
  ASSUME NEW packet \in PacketEncodings
  PROVE  ParseShadowrocketUdp(ShadowrocketUdp(packet)) = packet
BY DEF PacketEncodings, ShadowrocketUdp, ParseShadowrocketUdp

\* The remarks of a Shadowrocket link are read as the name they were written for.
LEMMA RemarksRead ==
  ASSUME NEW link, NEW node, NEW output, NEW relay, IsNode(node),
         link = BuildShadowrocketLink(node, output, relay)
  PROVE  Remarks(link) = node.name
<1> DEFINE q == link.query
<1>1. link.fragment = <<>>
  BY Zenon DEF BuildShadowrocketLink
<1>2. IsShadowrocketQuery(q, node, output, relay)
  BY ShadowrocketQuery, Zenon
<1>3. IsList(node.name)
  BY NodeFields, Zenon
<1> HIDE DEF q
<1>4. CASE node.name = <<>>
  <2>1. {"remarks", "ps"} \cap DOMAIN q = {}
    BY SMTT(30), <1>2, <1>4 DEF IsShadowrocketQuery
  <2> QED BY <1>1, <1>4, <2>1, Zenon DEF Remarks, q
<1>5. CASE node.name # <<>>
  <2>1. "remarks" \in DOMAIN q /\ q["remarks"] = PercentEncode(node.name)
    BY <1>2, <1>5, Zenon DEF IsShadowrocketQuery
  <2>2. {"remarks", "ps"} \cap DOMAIN q # {}
    BY <2>1
  <2>3. Get(q, "remarks", Get(q, "ps", <<>>)) = PercentEncode(node.name)
    BY <2>1, Zenon DEF Get
  <2>4. Remarks(link) = PercentDecode(PercentEncode(node.name))
    BY <2>2, <2>3, Zenon DEF Remarks, q
  <2> QED BY <1>3, <2>4, DecodingUndoesEncoding, Zenon
<1> QED BY <1>4, <1>5, Zenon

\* The packet encoding is set in the node that was read.
LEMMA PacketSet ==
  ASSUME NEW node, NEW output, NEW relay
  PROVE  [Reached(node.name, FormatUrlHost(output.host), node.alterId, node, output, relay)
            EXCEPT !.packet = node.packet] = ReadBack("shadowrocket", node, output, relay)
<1> DEFINE server == FormatUrlHost(output.host)
           security == IF node.security = "" THEN "auto" ELSE node.security
           grpc == relay.network = "grpc"
           sni == IF grpc /\ output.sni \notin {NoValue, ""} THEN output.sni ELSE server
           service == IF grpc THEN relay.service ELSE NoValue
           Read(packet) == [name |-> node.name, server |-> server, port |-> output.port, uuid |-> node.uuid,
                            alterId |-> node.alterId, security |-> security, network |-> relay.network,
                            tls |-> grpc, sni |-> sni, service |-> service,
                            wsPath |-> NoValue, wsHost |-> NoValue, packet |-> packet]
<1>1. Reached(node.name, server, node.alterId, node, output, relay) = Read("default")
  BY Zenon DEF Reached
<1>2. ReadBack("shadowrocket", node, output, relay) = Read(node.packet)
  BY Zenon DEF ReadBack
<1> HIDE DEF server, security, grpc, sni, service
<1>3. [Read("default") EXCEPT !.packet = node.packet] = Read(node.packet)
  OBVIOUS
<1> HIDE DEF Read
<1> QED BY <1>1, <1>2, <1>3, Zenon DEF server

\* What the Shadowrocket link of a node is read as.
LEMMA ShadowrocketReads ==
  ASSUME NEW node, NEW output, NEW relay, IsNode(node),
         output.port \in Nat, output.port <= MaxPort, output.host # "",
         relay.network \in {"tcp", "grpc"}
  PROVE  ParseVmessLink(BuildShadowrocketLink(node, output, relay)) =
           IF output.port = 0 THEN <<>> ELSE <<ReadBack("shadowrocket", node, output, relay)>>
<1> DEFINE link == BuildShadowrocketLink(node, output, relay)
           q == link.query
           opts == [id |-> link.payload.user, add |-> link.payload.host, port |-> link.payload.port,
                    ps |-> Remarks(link), aid |-> Get(q, "alterId", Get(q, "aid", 0)),
                    net |-> Get(q, "obfs", Get(q, "type", "tcp")), host |-> "",
                    path |-> Get(q, "path", Get(q, "serviceName", "")),
                    tls |-> Get(q, "tls", Get(q, "security", "")),
                    sni |-> Get(q, "peer", Get(q, "obfsParam", Get(q, "sni", ""))),
                    scy |-> link.payload.security, packet |-> "default"]
           packet == ParseShadowrocketUdp(Get(q, "udp", ""))
           built == BuildNode(opts)
           reached == Reached(node.name, FormatUrlHost(output.host), node.alterId, node, output, relay)
<1>1. /\ link.user = "" /\ link.payload.user = node.uuid
      /\ link.payload.host = FormatUrlHost(output.host) /\ link.payload.port = output.port
      /\ link.payload.security = node.security
  BY Zenon DEF BuildShadowrocketLink
<1>2. /\ node.uuid # "" /\ FormatUrlHost(output.host) # "" /\ node.alterId \in Nat
      /\ node.packet \in PacketEncodings
  BY NodeFields, UrlHost, Zenon
<1>3. IsShadowrocketQuery(q, node, output, relay)
  BY ShadowrocketQuery, Zenon
<1>4. Remarks(link) = node.name
  BY RemarksRead, Zenon
<1>5. DOMAIN q # {}
  BY Zenon, <1>3 DEF IsShadowrocketQuery
<1>6. ParseVmessLink(link) = [i \in DOMAIN built |-> [built[i] EXCEPT !.packet = packet]]
  BY <1>1, <1>5, Zenon DEF ParseVmessLink, ParseShadowrocketFormat
<1> HIDE DEF link, q
<1>7. /\ Get(q, "alterId", Get(q, "aid", 0)) = node.alterId
      /\ Get(q, "obfs", Get(q, "type", "tcp")) = relay.network
  BY Zenon, <1>3 DEF Get, IsShadowrocketQuery
<1>8. TlsEnabled(Get(q, "tls", Get(q, "security", ""))) = (relay.network = "grpc")
  BY Zenon, <1>3, TlsWords DEF Get, IsShadowrocketQuery
<1>9. relay.network = "grpc" => Get(q, "path", Get(q, "serviceName", "")) = relay.service
  BY Zenon, <1>3 DEF Get, IsShadowrocketQuery
<1>10. Get(q, "peer", Get(q, "obfsParam", Get(q, "sni", "")))
         = IF relay.network = "grpc" /\ output.sni # NoValue THEN output.sni ELSE ""
  BY Zenon, <1>3 DEF Get, IsShadowrocketQuery
<1>11. packet = node.packet
  <2>1. Get(q, "udp", "") = ShadowrocketUdp(node.packet)
    BY Zenon, <1>3 DEF Get, IsShadowrocketQuery
  <2> QED BY <1>2, <2>1, UdpReads, Zenon
<1>12. /\ opts.id = node.uuid /\ opts.add = FormatUrlHost(output.host) /\ opts.port = output.port
       /\ opts.ps = node.name /\ opts.aid = node.alterId /\ opts.net = relay.network
       /\ opts.host = "" /\ opts.scy = node.security /\ opts.packet = "default"
  BY Zenon, <1>1, <1>4, <1>7
<1>13. /\ opts.path = Get(q, "path", Get(q, "serviceName", ""))
       /\ opts.sni = Get(q, "peer", Get(q, "obfsParam", Get(q, "sni", "")))
       /\ opts.tls = Get(q, "tls", Get(q, "security", ""))
  BY Zenon
<1> HIDE DEF opts, packet
<1>14. Behind(opts, node, output, relay)
  BY <1>2, <1>8, <1>9, <1>10, <1>12, <1>13, Zenon DEF Behind
<1>15. opts.aid \in Nat
  BY <1>2, <1>12, ZenonT(60)
<1>16. built = IF output.port = 0 THEN <<>>
               ELSE <<Reached(opts.ps, opts.add, opts.aid, node, output, relay)>>
  BY <1>2, <1>14, <1>15, BuildNodeReads, Zenon
<1>17. built = IF output.port = 0 THEN <<>> ELSE <<reached>>
  BY <1>12, <1>16, Zenon
<1>18. [reached EXCEPT !.packet = node.packet] = ReadBack("shadowrocket", node, output, relay)
  BY PacketSet, Zenon
<1> HIDE DEF built, reached
<1>19. CASE output.port = 0
  <2>1. built = <<>>
    BY <1>17, <1>19, Zenon
  <2>2. [i \in DOMAIN built |-> [built[i] EXCEPT !.packet = packet]] = <<>>
    BY ONLY <2>1
  <2> QED BY <1>6, <1>19, <2>2, Zenon DEF link
<1>20. CASE output.port # 0
  <2>1. built = <<reached>>
    BY <1>17, <1>20, Zenon
  <2>2. [i \in DOMAIN built |-> [built[i] EXCEPT !.packet = packet]]
          = <<[reached EXCEPT !.packet = packet]>>
    BY ONLY <2>1
  <2> QED BY <1>6, <1>11, <1>18, <1>20, <2>2, Zenon DEF link
<1> QED BY <1>19, <1>20, Zenon

\* The parser reads the link of every format as the node behind the relay.
THEOREM LinkReads ==
  ASSUME NEW format \in Formats, NEW node, NEW output, NEW relay, IsNode(node),
         output.port \in Nat, output.port <= MaxPort, output.host # "",
         relay.network \in {"tcp", "grpc"}
  PROVE  ParseVmessLink(Link(format, node, output, relay)) =
           IF output.port = 0 THEN <<>> ELSE <<ReadBack(format, node, output, relay)>>
<1>1. CASE format = "v2rayn"
  <2>1. Link(format, node, output, relay) = BuildVmessJsonLink(node, output, relay)
    BY Zenon, <1>1 DEF Link
  <2> QED BY <1>1, <2>1, V2raynReads, Zenon
<1>2. CASE format = "standard"
  <2>1. Link(format, node, output, relay) = BuildVmessUrlLink(node, output, relay)
    BY Zenon, <1>2 DEF Link
  <2> QED BY <1>2, <2>1, StandardReads, Zenon
<1>3. CASE format = "shadowrocket"
  <2>1. Link(format, node, output, relay) = BuildShadowrocketLink(node, output, relay)
    BY Zenon, <1>3 DEF Link
  <2> QED BY <1>3, <2>1, ShadowrocketReads, Zenon
<1> QED BY Zenon, <1>1, <1>2, <1>3 DEF Formats

-----------------------------------------------------------------------------
(* The nodes that pipelines make *)

\* The loop over the rename rules of a step.
RulesLoop(after, name, rules) ==
  after = [k \in 0..Len(rules) |-> IF k = 0 THEN name ELSE Rename(after[k - 1], rules[k])]

\* The rename rules are applied by their loop.
LEMMA RulesDef ==
  ASSUME NEW name, NEW rules, Len(rules) \in Nat
  PROVE  \E after : RulesLoop(after, name, rules)
<1> DEFINE Loop(x, k) == Rename(x, rules[k])
           Solves(f, n) == f = [k \in 0..n |-> IF k = 0 THEN name ELSE Loop(f[k - 1], k)]
           S == {n \in Nat : \E f : Solves(f, n)}
<1>0. \A f : Solves(f, Len(rules)) <=> RulesLoop(f, name, rules)
  BY Zenon DEF RulesLoop
<1> HIDE DEF Loop
<1>1. 0 \in S
  <2> DEFINE f == [k \in 0..0 |-> name]
  <2>1. Solves(f, 0)
    OBVIOUS
  <2> QED BY <2>1, Zenon
<1>2. ASSUME NEW n \in Nat, n \in S PROVE n + 1 \in S
  <2>1. PICK f : Solves(f, n)
    BY <1>2
  <2> DEFINE g == [k \in 0..(n + 1) |-> IF k = n + 1 THEN Loop(f[n], k) ELSE f[k]]
  <2>2. ASSUME NEW k \in 0..(n + 1)
        PROVE  g[k] = IF k = 0 THEN name ELSE Loop(g[k - 1], k)
    <3>1. CASE k = 0
      BY <2>1, <3>1
    <3>2. CASE k \in 1..n
      BY <2>1, <3>2
    <3>3. CASE k = n + 1
      BY <3>3
    <3> QED BY <3>1, <3>2, <3>3
  <2>3. Solves(g, n + 1)
    <3>1. g = [k \in 0..(n + 1) |-> g[k]]
      OBVIOUS
    <3> HIDE DEF g
    <3> QED BY <2>2, <3>1
  <2> HIDE DEF g, Solves
  <2> QED BY <2>3
<1>3. \A n \in Nat : n \in S
  <2> HIDE DEF S
  <2> QED BY <1>1, <1>2, Induction
<1>4. \E f : Solves(f, Len(rules))
  BY <1>3
<1> HIDE DEF Solves
<1> QED BY <1>0, <1>4, Zenon

\* What the rename rules of a step make of a name is a name.
LEMMA RulesMakeNames ==
  ASSUME NEW step, NEW name, NEW after, IsStep(step), IsList(name), RulesLoop(after, name, step.rename)
  PROVE  IsList(after[Len(step.rename)])
<1> DEFINE rules == step.rename
           N == Len(rules)
           S == {n \in Nat : n <= N => IsList(after[n])}
<1>1. IsList(rules)
  BY Zenon DEF IsStep
<1>2. N \in Nat /\ DOMAIN rules = 1..N
  BY <1>1, ListIsSeq, Zenon
<1>3. \A k \in 0..N : after[k] = IF k = 0 THEN name ELSE Rename(after[k - 1], rules[k])
  BY Zenon DEF RulesLoop
<1>4. \A k \in DOMAIN rules : \A old : IsList(old) => IsList(Rename(old, rules[k]))
  BY Zenon DEF IsStep, Rename
<1> HIDE DEF rules, N
<1>5. 0 \in S
  <2>1. after[0] = name
    BY <1>2, <1>3
  <2> QED BY <2>1
<1>6. ASSUME NEW n \in Nat, n \in S PROVE n + 1 \in S
  <2> SUFFICES ASSUME n + 1 <= N PROVE IsList(after[n + 1])
    BY SMTT(30), Zenon
  <2>1. n <= N /\ n + 1 \in 1..N /\ n + 1 \in 0..N /\ (n + 1) - 1 = n /\ n + 1 # 0
    BY <1>2
  <2>2. IsList(after[n])
    BY <1>6, <2>1
  <2>3. after[n + 1] = Rename(after[n], rules[n + 1])
    BY <1>3, <2>1
  <2> QED BY <1>2, <1>4, <2>1, <2>2, <2>3, Zenon
<1>7. \A n \in Nat : n \in S
  <2> HIDE DEF S
  <2> QED BY <1>5, <1>6, Induction
<1>8. IsList(after[N])
  BY <1>2, <1>7
<1> QED BY <1>8, Zenon DEF N, rules

\* What is left of a name without its emoji is a name.
LEMMA StripMakesNames ==
  ASSUME NEW name, IsList(name)
  PROVE  IsList(StripEmoji(name))
<1> DEFINE kept == {i \in DOMAIN name : name[i] # Emoji}
<1>1. Consists(Pick(name, kept), name, kept)
  BY PickFacts, Zenon
<1> QED BY <1>1, Zenon DEF StripEmoji, Consists

\* A step makes nodes of nodes.
LEMMA TransformMakesNodes ==
  ASSUME NEW step, NEW node, IsStep(step), IsNode(node)
  PROVE  IsNode(Transform(step, node))
<1> DEFINE after == CHOOSE f : RulesLoop(f, node.name, step.rename)
           renamed == after[Len(step.rename)]
           name == IF step.removeEmoji THEN StripEmoji(renamed) ELSE renamed
           security == Override(step.security, node.security)
           packet == Override(step.packet, node.packet)
           made == [node EXCEPT !.name = name, !.security = security, !.packet = packet]
<1>1. Transform(step, node) = made
  BY Zenon DEF Transform, RulesLoop
<1>2. Len(step.rename) \in Nat
  BY ListIsSeq, Zenon DEF IsStep
<1>3. RulesLoop(after, node.name, step.rename)
  BY <1>2, RulesDef, Zenon
<1>4. IsList(renamed)
  BY <1>3, NodeFields, RulesMakeNames, Zenon
<1>5. IsList(name)
  BY <1>4, StripMakesNames, Zenon
<1>6. packet \in PacketEncodings
  BY NodeFields, Zenon DEF IsStep, Override
<1> HIDE DEF name, security, packet
<1>7. /\ {"name", "uuid", "alterId", "security", "packet"} \subseteq DOMAIN node
      /\ node.uuid # "" /\ node.alterId \in Nat
  BY Zenon DEF IsNode
<1>8. /\ DOMAIN made = DOMAIN node
      /\ made = [field \in DOMAIN made |-> made[field]]
      /\ made["name"] = name /\ made["uuid"] = node["uuid"] /\ made["alterId"] = node["alterId"]
      /\ made["packet"] = packet
  BY Zenon, <1>7
<1> HIDE DEF made
<1>9. IsNode(made)
  BY <1>5, <1>6, <1>7, <1>8, Zenon DEF IsNode
<1> QED BY <1>1, <1>9, Zenon

\* A pipeline makes nodes of nodes: what the HTTP server renders are nodes.
LEMMA PipelineMakesNodes ==
  ASSUME NEW nodes, NEW steps, IsList(nodes), IsList(steps),
         \A i \in DOMAIN nodes : IsNode(nodes[i]), \A k \in DOMAIN steps : IsStep(steps[k])
  PROVE  \A i \in DOMAIN ApplyPipeline(nodes, steps) : IsNode(ApplyPipeline(nodes, steps)[i])
<1> DEFINE N == Len(steps)
           Nodes(list) == IsList(list) /\ \A i \in DOMAIN list : IsNode(list[i])
<1>0. N \in Nat /\ DOMAIN steps = 1..N
  BY ListIsSeq
<1>1. PICK after : PipelineLoop(after, nodes, steps) /\ ApplyPipeline(nodes, steps) = after[N]
  BY <1>0, PipelineDef, Zenon
<1>2. after[0] = nodes /\ \A k \in 1..N : after[k] = ApplyStep(after[k - 1], steps[k])
  <2>1. \A k \in 0..N : after[k] = IF k = 0 THEN nodes ELSE ApplyStep(after[k - 1], steps[k])
    BY <1>1, Zenon DEF PipelineLoop
  <2> QED BY <1>0, <2>1
<1>3. ASSUME NEW list, NEW step, Nodes(list), IsStep(step)
      PROVE  Nodes(ApplyStep(list, step))
  <2>1. IsList(ApplyStep(list, step))
    BY <1>3, ApplyStepFacts, Zenon
  <2>2. CASE step.remove
    <3> DEFINE others == {i \in DOMAIN list : ~Selected(step, list[i])}
               out == KeepOthers(list, step)
    <3>1. Consists(out, list, others)
      BY <1>3, PickFacts, Zenon DEF KeepOthers
    <3> HIDE DEF out
    <3>2. PICK h \in [DOMAIN out -> others] : \A j \in DOMAIN out : out[j] = list[h[j]]
      BY <3>1, Zenon DEF Consists
    <3>3. \A j \in DOMAIN out : h[j] \in DOMAIN list
      BY <3>2
    <3>4. \A j \in DOMAIN out : IsNode(out[j])
      BY <1>3, <3>2, <3>3, Zenon
    <3> QED BY <2>1, <2>2, <3>4, Zenon DEF ApplyStep, out
  <2>3. CASE ~step.remove
    <3> DEFINE Made(node) == IF Selected(step, node) THEN Transform(step, node) ELSE node
    <3>1. ApplyStep(list, step) = [i \in DOMAIN list |-> Made(list[i])]
      BY <2>3, Zenon DEF ApplyStep
    <3>2. \A i \in DOMAIN list : IsNode(Made(list[i]))
      BY <1>3, TransformMakesNodes, Zenon
    <3> HIDE DEF Made
    <3> QED BY <2>1, <3>1, <3>2, Zenon
  <2> QED BY <2>2, <2>3
<1> DEFINE S == {n \in Nat : n <= N => Nodes(after[n])}
<1> HIDE DEF Nodes
<1>4. 0 \in S
  BY <1>2 DEF Nodes
<1>5. ASSUME NEW n \in Nat, n \in S PROVE n + 1 \in S
  <2> SUFFICES ASSUME n + 1 <= N PROVE Nodes(after[n + 1])
    OBVIOUS
  <2>1. n <= N /\ n + 1 \in 1..N /\ (n + 1) - 1 = n
    BY <1>0
  <2>2. Nodes(after[n])
    BY <1>5, <2>1
  <2>3. after[n + 1] = ApplyStep(after[n], steps[n + 1])
    BY <1>2, <2>1
  <2>4. IsStep(steps[n + 1])
    BY <1>0, <2>1
  <2> QED BY <1>3, <2>2, <2>3, <2>4, Zenon
<1>6. \A n \in Nat : n \in S
  <2> HIDE DEF S
  <2> QED BY <1>4, <1>5, Induction
<1>7. Nodes(after[N])
  BY <1>0, <1>6
<1> QED BY <1>1, <1>7, Zenon DEF Nodes

-----------------------------------------------------------------------------
(* Answers *)

\* What authenticate returned lets its user see the output of that name.
Lets(granted, name) == granted # <<>> /\ (granted[1] = All \/ name \in granted[1])

\* authenticate grants what the first entry with the credentials grants, and finds
\* a user whenever something is granted.
LEMMA AuthenticateFacts ==
  ASSUME NEW g, NEW auth, NEW name, IsList(g.users)
  PROVE  Granted(g, auth, name) <=> Lets(Authenticate(auth, g.users), name)
<1> DEFINE users == g.users
           Matches(i) == auth = <<users[i].username, users[i].password>>
           matching == {i \in DOMAIN users : Matches(i)}
           matched == CHOOSE i \in matching : \A j \in matching : i <= j
<1>1. Len(users) \in Nat /\ DOMAIN users = 1..Len(users)
  BY ListIsSeq
<1>2. CASE users = <<>>
  <2>1. Authenticate(auth, users) = <<All>>
    BY <1>2, Zenon DEF Authenticate
  <2>2. Granted(g, auth, name)
    BY <1>2, Zenon DEF Granted
  <2> QED BY <2>1, <2>2 DEF Lets
<1>3. CASE users # <<>> /\ matching = {}
  <2>1. Authenticate(auth, users) = <<>>
    BY <1>3, Zenon DEF Authenticate
  <2>2. ~Granted(g, auth, name)
    BY <1>3, Zenon DEF Granted
  <2> QED BY <2>1, <2>2 DEF Lets
<1>4. CASE users # <<>> /\ matching # {}
  <2>1. Authenticate(auth, users) = <<users[matched].outputs>>
    BY <1>4, Zenon DEF Authenticate
  <2>2. matching \in SUBSET Nat
    BY <1>1
  <2>3. \E i \in matching : \A j \in matching : i <= j
    <3> HIDE DEF matching
    <3> QED BY <1>4, <2>2, LeastMember
  <2>4. matched \in matching /\ \A j \in matching : matched <= j
    <3> HIDE DEF matching
    <3> QED BY <2>3, Zenon
  <2> HIDE DEF matched
  <2>5. matched \in 1..Len(users) /\ Matches(matched)
    BY <1>1, <2>4
  <2>6. \A j \in 1..Len(users) : Matches(j) => matched <= j
    BY SMTT(30), Zenon, <1>1, <2>4
  <2> DEFINE first(i) == \A j \in 1..(i - 1) : ~Matches(j)
  <2> HIDE DEF Matches
  <2>7. \A i \in 1..Len(users) : Matches(i) /\ first(i) <=> i = matched
    BY <1>1, <2>5, <2>6
  <2> HIDE DEF first
  <2>8. Granted(g, auth, name) <=>
          \E i \in 1..Len(users) :
            Matches(i) /\ first(i) /\ (users[i].outputs = All \/ name \in users[i].outputs)
    BY <1>1, <1>4, Zenon DEF Granted, Matches, first
  <2>9. Granted(g, auth, name) <=>
          (users[matched].outputs = All \/ name \in users[matched].outputs)
    BY <2>5, <2>7, <2>8, Zenon
  <2> QED BY <2>1, <2>9 DEF Lets
<1> QED BY SMTT(30), <1>2, <1>3, <1>4

\* The outputs are lists of links, and there are those that are allowed.
CanJoin(outputs, allowed, format) ==
  /\ IsList(outputs) /\ allowed \subseteq DOMAIN outputs
  /\ \A j \in DOMAIN outputs : IsList(outputs[j].links[format])

\* Where the links of a body come from; one allowed output alone gives the body.
Body(links, outputs, allowed, format) ==
  /\ \A i \in DOMAIN links : \E j \in allowed :
       \E k \in DOMAIN outputs[j].links[format] : links[i] = outputs[j].links[format][k]
  /\ \A j : allowed = {j} => links = outputs[j].links[format]

\* flat_map puts together links of allowed outputs and no others.
LEMMA LinksOfFacts ==
  ASSUME NEW outputs, NEW allowed, NEW format, CanJoin(outputs, allowed, format)
  PROVE  Body(LinksOf(outputs, allowed, format), outputs, allowed, format)
<1> DEFINE N == Len(outputs)
           L(j) == outputs[j].links[format]
<1>0. N \in Nat /\ DOMAIN outputs = 1..N /\ allowed \subseteq 1..N
  BY ListIsSeq DEF CanJoin
<1> DEFINE Part(k) == IF k \in allowed THEN L(k) ELSE <<>>
           lists == [k \in DOMAIN outputs |-> Part(k)]
<1> HIDE DEF Part
<1>1. Len(lists) = N
  BY <1>0
<1>2. PICK links : /\ \A k \in 0..N : links[k] = IF k = 0 THEN <<>> ELSE links[k - 1] \o lists[k]
                   /\ LinksOf(outputs, allowed, format) = links[N]
  <2>1. LinksOf(outputs, allowed, format) = Concat(lists)
    BY Zenon DEF LinksOf, Part
  <2> HIDE DEF lists
  <2>2. PICK links : ConcatLoop(links, lists) /\ Concat(lists) = links[N]
    BY <1>0, <1>1, ConcatDef
  <2> QED BY ZenonT(30), <1>1, <2>1, <2>2 DEF ConcatLoop
<1>3. links[0] = <<>> /\ \A k \in 1..N : links[k] = links[k - 1] \o Part(k)
  <2>1. \A k \in 1..N : lists[k] = Part(k)
    BY <1>0
  <2> HIDE DEF lists
  <2>2. \A k \in 1..N : k \in 0..N /\ k # 0
    BY <1>0
  <2>3. 0 \in 0..N
    BY <1>0
  <2>4. links[0] = <<>>
    BY <1>2, <2>3, Zenon
  <2>5. ASSUME NEW k \in 1..N PROVE links[k] = links[k - 1] \o Part(k)
    <3>1. links[k] = links[k - 1] \o lists[k]
      BY <1>2, <2>2, Zenon
    <3> QED BY <2>1, <3>1, Zenon
  <2> QED BY <2>4, <2>5, Zenon
<1> HIDE DEF lists
<1>4. \A k \in 1..N : IsList(L(k))
  BY <1>0, Zenon DEF CanJoin
<1> HIDE DEF L
<1> DEFINE Known(x) == \E j \in allowed : \E k \in DOMAIN L(j) : x = L(j)[k]
           Good(n) == IsList(links[n]) /\ \A i \in DOMAIN links[n] : Known(links[n][i])
           Single(n) == \A j \in 1..N : allowed = {j} => links[n] = IF n < j THEN <<>> ELSE L(j)
           S == {n \in Nat : n <= N => Good(n) /\ Single(n)}
<1>5. 0 \in S
  <2>1. Good(0)
    BY <1>3, EmptyList
  <2>2. Single(0)
    BY <1>0, <1>3
  <2> HIDE DEF Good, Single
  <2> QED BY <2>1, <2>2
<1>6. ASSUME NEW n \in Nat, n \in S PROVE n + 1 \in S
  <2> SUFFICES ASSUME n + 1 <= N PROVE Good(n + 1) /\ Single(n + 1)
    <3> HIDE DEF Good, Single
    <3> QED OBVIOUS
  <2>1. n <= N /\ n + 1 \in 1..N /\ (n + 1) - 1 = n
    BY <1>0
  <2>2. Good(n) /\ Single(n)
    <3> HIDE DEF Good, Single
    <3> QED BY <1>6, <2>1
  <2>3. links[n + 1] = links[n] \o Part(n + 1)
    BY ZenonT(30), <1>3, <2>1
  <2>4. CASE n + 1 \notin allowed
    <3>1. links[n + 1] = links[n]
      <4>1. Part(n + 1) = <<>>
        BY <2>4 DEF Part
      <4>2. InARow(links[n], <<>>, links[n + 1])
        BY <2>2, <2>3, <4>1, EmptyList, Zenon DEF InARow
      <4>3. /\ IsList(links[n + 1]) /\ Len(links[n + 1]) = Len(links[n]) + Len(<<>>)
            /\ \A i \in 1..Len(links[n]) : links[n + 1][i] = links[n][i]
        BY ONLY <4>2, JoinedLists
      <4>4. IsList(links[n]) /\ Len(links[n + 1]) = Len(links[n])
        BY <2>2, <4>3, EmptyList DEF IsList
      <4> QED BY <4>3, <4>4, Zenon DEF IsList
    <3>2. Good(n + 1)
      <4> HIDE DEF Known
      <4> QED BY <2>2, <3>1
    <3>3. Single(n + 1)
      BY <2>2, <2>4, <3>1
    <3> QED BY Zenon, <3>2, <3>3
  <2>5. CASE n + 1 \in allowed
    <3> DEFINE old == links[n]
               more == L(n + 1)
               all == old \o more
    <3>1. links[n + 1] = all
      BY <2>3, <2>5, Zenon DEF Part
    <3>2. IsList(old) /\ IsList(more)
      BY <1>4, <2>1, <2>2
    <3>3. /\ DOMAIN old = 1..Len(old) /\ Len(old) \in Nat
          /\ DOMAIN more = 1..Len(more) /\ Len(more) \in Nat
      BY <3>2, ListIsSeq
    <3>4. /\ IsList(all) /\ Len(all) = Len(old) + Len(more)
          /\ \A i \in 1..Len(old) : all[i] = old[i]
          /\ \A i \in 1..Len(more) : all[Len(old) + i] = more[i]
      <4>1. InARow(old, more, all)
        BY <3>2, Zenon DEF InARow
      <4> HIDE DEF old, more, all
      <4> QED BY ONLY <4>1, JoinedLists
    <3>5. DOMAIN all = 1..Len(all)
      BY <3>4, ListIsSeq
    <3>6. \A i \in DOMAIN old : Known(old[i])
      BY SMTT(30), <2>2
    <3>7. \A i \in DOMAIN more : Known(more[i])
      BY <2>5
    <3> HIDE DEF all, Known
    <3>8. ASSUME NEW i \in DOMAIN all PROVE Known(all[i])
      <4>1. CASE i \in 1..Len(old)
        BY <3>3, <3>4, <3>6, <4>1, Zenon
      <4>2. CASE i \notin 1..Len(old)
        <5>1. i - Len(old) \in 1..Len(more) /\ i = Len(old) + (i - Len(old))
          <6>1. i \in 1..(Len(old) + Len(more))
            BY <3>4, <3>5, Zenon
          <6> HIDE DEF old, more
          <6> QED BY ONLY <3>3, <4>2, <6>1
        <5>2. all[i] = more[i - Len(old)]
          BY <3>4, <5>1, Zenon
        <5> QED BY Zenon, <3>3, <3>7, <5>1, <5>2
      <4> QED BY <4>1, <4>2
    <3>9. Good(n + 1)
      BY <3>1, <3>4, <3>8, Zenon
    <3>10. ASSUME NEW j \in 1..N, allowed = {j}
           PROVE  links[n + 1] = IF n + 1 < j THEN <<>> ELSE L(j)
      <4>1. j = n + 1 /\ old = <<>>
        BY <2>2, <2>5, <3>10
      <4>2. all = more
        <5>1. Len(old) = 0
          BY SMTT(30), Zenon, <4>1, EmptyList
        <5>2. Len(all) = Len(more) /\ \A i \in 1..Len(more) : all[i] = more[i]
          BY <3>3, <3>4, <5>1
        <5> QED BY <3>2, <3>4, <5>2, Zenon DEF IsList
      <4> QED BY <3>1, <4>1, <4>2
    <3> QED BY SMTT(30), Zenon, <3>9, <3>10
  <2> QED BY SMTT(30), Zenon, <2>4, <2>5
<1>7. \A n \in Nat : n \in S
  <2> HIDE DEF S
  <2> QED BY <1>5, <1>6, Induction
<1>8. Good(N) /\ Single(N)
  <2> HIDE DEF Good, Single
  <2> QED BY <1>0, <1>7
<1>9. \A j : allowed = {j} => j \in 1..N /\ ~(N < j)
  BY <1>0
<1>10. \A j : allowed = {j} => links[N] = L(j)
  BY <1>8, <1>9
<1>11. \A i \in DOMAIN links[N] : Known(links[N][i])
  BY <1>8
<1>12. \A i \in DOMAIN links[N] : \E j \in allowed : \E k \in DOMAIN outputs[j].links[format] :
         links[N][i] = outputs[j].links[format][k]
  BY <1>11, Zenon DEF L
<1>13. \A j : allowed = {j} => links[N] = outputs[j].links[format]
  BY <1>10, Zenon DEF L
<1> DEFINE body == LinksOf(outputs, allowed, format)
<1>14. body = links[N]
  BY <1>2
<1> HIDE DEF body, N
<1>15. Body(body, outputs, allowed, format)
  BY ONLY SMTT(30), Zenon, <1>12, <1>13, <1>14 DEF Body
<1> QED BY <1>15, Zenon DEF body

\* s is the configuration c, with the links rendered.
Renders(s, c, f) ==
  /\ s.users = c.users /\ IsList(c.users)
  /\ IsList(s.outputs) /\ DOMAIN s.outputs = DOMAIN c.outputs
  /\ \A j \in DOMAIN c.outputs :
       /\ s.outputs[j].name = c.outputs[j].name
       /\ IsList(s.outputs[j].links[f])
       /\ s.outputs[j].links[f] =
            [i \in DOMAIN NodesOf(c, c.outputs[j]) |->
               Link(f, NodesOf(c, c.outputs[j])[i], c.outputs[j], c.relay)]

\* What HttpState::new renders of a configuration.
LEMMA NewStateFacts ==
  ASSUME NEW g \in 1..Len(Generations), NEW f \in Formats
  PROVE  Renders(NewState(Generations[g]), Generations[g], f)
<1> DEFINE c == Generations[g]
           s == NewState(c)
<1>1. /\ IsList(c.users) /\ IsList(c.outputs) /\ IsList(c.nodes)
      /\ \A j \in DOMAIN c.outputs : IsList(c.outputs[j].process)
  BY HttpAssumption, Zenon
<1>0. s = NewState(c)
  OBVIOUS
<1> HIDE DEF s, c
<1> DEFINE Rendered(j) == RenderOutput(c.outputs[j], c.nodes, c.relay)
<1>2. s.users = c.users /\ s.outputs = [j \in DOMAIN c.outputs |-> Rendered(j)]
  BY <1>0 DEF NewState
<1> HIDE DEF Rendered
<1>3. DOMAIN c.outputs = 1..Len(c.outputs) /\ Len(c.outputs) \in Nat
  BY <1>1, ListIsSeq
<1>4. IsList(s.outputs) /\ DOMAIN s.outputs = DOMAIN c.outputs
  <2> DEFINE T == {Rendered(j) : j \in DOMAIN c.outputs}
  <2>1. s.outputs \in Seq(T)
    BY <1>2, <1>3
  <2> HIDE DEF T
  <2>2. IsList(s.outputs)
    BY <2>1, SeqIsList, Zenon
  <2> QED BY <1>2, <2>2
<1>5. ASSUME NEW j \in DOMAIN c.outputs
      PROVE  /\ s.outputs[j].name = c.outputs[j].name
             /\ IsList(s.outputs[j].links[f])
             /\ s.outputs[j].links[f] =
                  [i \in DOMAIN NodesOf(c, c.outputs[j]) |->
                     Link(f, NodesOf(c, c.outputs[j])[i], c.outputs[j], c.relay)]
  <2> DEFINE o == c.outputs[j]
             nodes == NodesOf(c, o)
             L(form) == [i \in DOMAIN nodes |-> Link(form, nodes[i], o, c.relay)]
  <2>1. s.outputs[j] = [name |-> o.name, links |-> [form \in Formats |-> L(form)]]
    <3>1. s.outputs[j] = Rendered(j)
      BY <1>2
    <3>2. Rendered(j) = [name |-> o.name, links |-> [form \in Formats |-> L(form)]]
      BY Zenon DEF Rendered, RenderOutput, NodesOf
    <3> QED BY <3>1, <3>2, Zenon
  <2>2. IsList(nodes)
    BY <1>1, PipelinesAreFaithful, Zenon DEF NodesOf
  <2>3. DOMAIN nodes = 1..Len(nodes) /\ Len(nodes) \in Nat
    BY <2>2, ListIsSeq
  <2>4. IsList(L(f))
    <3> DEFINE M(i) == Link(f, nodes[i], o, c.relay)
               T == {M(i) : i \in DOMAIN nodes}
    <3>0. L(f) = [i \in DOMAIN nodes |-> M(i)]
      BY Zenon
    <3> HIDE DEF M, L, nodes
    <3>1. L(f) \in Seq(T)
      BY <2>3, <3>0
    <3> HIDE DEF T
    <3> QED BY <3>1, SeqIsList, Zenon
  <2> HIDE DEF L, nodes
  <2>5. s.outputs[j].name = o.name /\ s.outputs[j].links[f] = L(f)
    BY <2>1
  <2> QED BY <2>4, <2>5, Zenon DEF L, nodes
<1>6. Renders(s, c, f)
  BY <1>1, <1>2, <1>4, <1>5, Zenon DEF Renders
<1> QED BY SMTT(30), Zenon, <1>6 DEF s, c

\* resolve gives one of the three formats for every route there is.
LEMMA ResolveFacts ==
  ASSUME NEW path, NEW agent, Route(path) # NotFound
  PROVE  Resolve(Route(path).format, agent) \in Formats
<1>1. \A segment : FormatOf(segment) \in Formats \cup {"auto"}
  BY DEF FormatOf, Formats
<1>2. Route(path).format \in Formats \cup {"auto"}
  <2> HIDE DEF FormatOf
  <2> QED BY <1>1 DEF Route, NotFound
<1> QED BY <1>2 DEF Resolve, Formats

\* What an answer has links for, given one configuration.
OfOneConfiguration(c, auth, links) ==
  \A i \in DOMAIN links : \E j \in DOMAIN c.outputs :
    /\ Granted(c, auth, c.outputs[j].name)
    /\ \E k \in DOMAIN NodesOf(c, c.outputs[j]), f \in Formats :
         links[i] = Link(f, NodesOf(c, c.outputs[j])[k], c.outputs[j], c.relay)

\* a is the answer of a configuration to the request r.
AnswerOf(g, r, a) ==
  g \in 1..Len(Generations) /\ a = Dispatch(NewState(Generations[g]), r) /\ a.status = 200

\* The answer of a configuration has only links for what its user may see.
LEMMA DispatchFacts ==
  ASSUME NEW g, NEW r, NEW a, AnswerOf(g, r, a)
  PROVE  OfOneConfiguration(Generations[g], r.auth, a.links)
<1> DEFINE c == Generations[g]
           s == NewState(c)
           route == Route(r.path)
           granted == Authenticate(r.auth, s.users)
           name == route.name
           format == Resolve(route.format, r.agent)
           allowed == {i \in DOMAIN s.outputs : Allowed(s.outputs[i], name, granted[1])}
           links == LinksOf(s.outputs, allowed, format)
<1>0. granted # <<>> /\ route # NotFound
        /\ Dispatch(s, r) = BuildSubscriptionResponse(s, granted[1], name, format)
  <2>1. a = Dispatch(s, r) /\ a.status = 200
    BY Zenon DEF AnswerOf
  <2> HIDE DEF s, route
  <2>2. Dispatch(s, r) = CASE granted = <<>> -> [status |-> 401, links |-> <<>>]
                           [] granted # <<>> /\ route = NotFound -> [status |-> 404, links |-> <<>>]
                           [] OTHER -> BuildSubscriptionResponse(s, granted[1], name, format)
    BY Zenon DEF Dispatch, route
  <2> HIDE DEF granted, name, format
  <2> QED BY <2>1, <2>2
<1>1. Renders(s, c, format) /\ format \in Formats
  <2>1. g \in 1..Len(Generations)
    BY Zenon DEF AnswerOf
  <2>2. format \in Formats
    BY ONLY <1>0, ResolveFacts, Zenon
  <2> HIDE DEF format
  <2> QED BY ONLY <2>1, <2>2, NewStateFacts
<1>2. granted # <<>> /\ a.links = links
  <2>1. a = Dispatch(s, r) /\ a.status = 200
    BY Zenon DEF AnswerOf
  <2> HIDE DEF s
  <2>2. BuildSubscriptionResponse(s, granted[1], name, format) =
          IF allowed = {} THEN [status |-> 404, links |-> <<>>]
          ELSE [status |-> 200, links |-> links]
    BY Zenon DEF BuildSubscriptionResponse
  <2> HIDE DEF granted, name, format, allowed, links
  <2> QED BY <1>0, <2>1, <2>2
<1> HIDE DEF c, s, route, name, format
<1>3. s.users = c.users /\ IsList(c.users) /\ DOMAIN s.outputs = DOMAIN c.outputs
  BY <1>1, Zenon DEF Renders
<1>4. \A j \in allowed : j \in DOMAIN c.outputs /\ Lets(granted, c.outputs[j].name)
  <2>1. ASSUME NEW j \in allowed
        PROVE  j \in DOMAIN c.outputs /\ Lets(granted, c.outputs[j].name)
    <3>1. j \in DOMAIN c.outputs /\ Allowed(s.outputs[j], name, granted[1])
      BY Zenon, <1>3
    <3>2. s.outputs[j].name = c.outputs[j].name
      BY <1>1, <3>1, Zenon DEF Renders
    <3> HIDE DEF granted, allowed
    <3> QED BY <1>2, <3>1, <3>2, Zenon DEF Allowed, Lets
  <2> QED BY Zenon, <2>1
<1>5. granted = Authenticate(r.auth, c.users)
  BY SMTT(30), Zenon, <1>3
<1> HIDE DEF granted
<1>6. \A j \in allowed : Granted(c, r.auth, c.outputs[j].name)
  <2> HIDE DEF allowed
  <2>1. \A n : Granted(c, r.auth, n) <=> Lets(granted, n)
    BY Zenon, <1>3, <1>5, AuthenticateFacts
  <2> QED BY <1>4, <2>1, Zenon
<1>7. \A i \in DOMAIN links : \E j \in allowed :
        \E k \in DOMAIN s.outputs[j].links[format] : links[i] = s.outputs[j].links[format][k]
  <2>1. allowed \subseteq DOMAIN s.outputs
    OBVIOUS
  <2> HIDE DEF allowed
  <2>2. CanJoin(s.outputs, allowed, format)
    BY <1>1, <2>1, Zenon DEF CanJoin, Renders
  <2>3. Body(links, s.outputs, allowed, format)
    BY ONLY <2>2, LinksOfFacts
  <2> HIDE DEF links
  <2> QED BY <2>3, Zenon DEF Body
<1> HIDE DEF links, allowed
<1>8. ASSUME NEW i \in DOMAIN links
      PROVE  \E j \in DOMAIN c.outputs :
               /\ Granted(c, r.auth, c.outputs[j].name)
               /\ \E k \in DOMAIN NodesOf(c, c.outputs[j]), f \in Formats :
                    links[i] = Link(f, NodesOf(c, c.outputs[j])[k], c.outputs[j], c.relay)
  <2>1. PICK j \in allowed :
          \E k \in DOMAIN s.outputs[j].links[format] : links[i] = s.outputs[j].links[format][k]
    BY <1>7, Zenon
  <2>2. j \in DOMAIN c.outputs
    BY <1>4
  <2> DEFINE M(k) == Link(format, NodesOf(c, c.outputs[j])[k], c.outputs[j], c.relay)
  <2>3. s.outputs[j].links[format] = [k \in DOMAIN NodesOf(c, c.outputs[j]) |-> M(k)]
    BY <1>1, <2>2, Zenon DEF Renders
  <2> HIDE DEF M
  <2>4. \E k \in DOMAIN NodesOf(c, c.outputs[j]) : links[i] = M(k)
    BY Zenon, <2>1, <2>3
  <2> QED BY <1>1, <1>6, <2>2, <2>4, Zenon DEF M
<1>9. OfOneConfiguration(c, r.auth, links)
  BY <1>8, Zenon DEF OfOneConfiguration
<1> QED BY <1>2, <1>9 DEF c

-----------------------------------------------------------------------------
(* The inductive invariant *)

\* The state in force is the one the last reload rendered; the copy of a request is
\* that of a reload since it came.  A rendering that panics ends the daemon.
IInv ==
  /\ pc \in {"none", "wait", "serve", "done"}
  /\ gen \in 1..Len(Generations) /\ since \in 1..gen
  /\ up => state = NewState(Generations[gen]) /\ ~Panics(Generations[gen])
  /\ pc = "serve" => \E g \in since..gen : snap = NewState(Generations[g])
  /\ OneGeneration

\* IInv holds initially and every step preserves it.
THEOREM Invariance == Spec => []IInv
<1>0. Len(Generations) \in Nat /\ Len(Generations) >= 1
  <2>1. IsList(Generations) /\ Generations # <<>>
    BY Zenon, HttpAssumption
  <2>2. Generations \in Seq({Generations[i] : i \in 1..Len(Generations)})
    BY <2>1, ListIsSeq, Zenon
  <2> DEFINE T == {Generations[i] : i \in 1..Len(Generations)}
  <2> HIDE DEF T
  <2>3. Generations \in Seq(T)
    BY <2>2 DEF T
  <2> QED BY <2>1, <2>3
<1>1. Init => IInv
  BY <1>0 DEF Init, IInv, OneGeneration
<1>2. IInv /\ [Next]_vars => IInv'
  <2> SUFFICES ASSUME IInv, [Next]_vars PROVE IInv'
    OBVIOUS
  <2>1. CASE Arrive
    BY <2>1 DEF Arrive, IInv, OneGeneration
  <2>2. CASE TakeSnapshot
    BY <2>2 DEF TakeSnapshot, IInv, OneGeneration
  <2>3. CASE Respond
    BY <2>3 DEF Respond, Seen, IInv, OneGeneration
  <2>4. CASE Reload
    <3>1. /\ pc' = pc /\ since' = since /\ snap' = snap /\ request' = request
          /\ answer' = answer /\ gen' = gen + 1 /\ gen < Len(Generations)
      BY SMTT(30), Zenon, <2>4 DEF Reload
    <3>2. gen \in Nat /\ since \in Nat
      BY <1>0 DEF IInv
    <3>3. \A g \in since..gen : g \in since'..gen'
      BY <3>1, <3>2
    <3>4. up' => state' = NewState(Generations[gen']) /\ ~Panics(Generations[gen'])
      BY <2>4 DEF Reload
    <3>5. gen' \in 1..Len(Generations) /\ since' \in 1..gen'
      BY <1>0, <3>1 DEF IInv
    <3>6. OneGeneration'
      BY <3>1, <3>3, Zenon DEF IInv, OneGeneration
    <3>7. pc' = "serve" => \E g \in since'..gen' : snap' = NewState(Generations[g])
      BY <3>1, <3>3, Zenon DEF IInv
    <3> QED BY <3>1, <3>4, <3>5, <3>6, <3>7 DEF IInv
  <2>5. CASE UNCHANGED vars
    BY SMTT(30), Zenon, <2>5 DEF vars, IInv, OneGeneration
  <2> QED BY <2>1, <2>2, <2>3, <2>4, <2>5 DEF Next
<1> QED BY <1>1, <1>2, PTL DEF Spec

\* Every answer is that of one configuration in force while the request was served:
\* dispatch works on a copy of the state, whatever reloads meanwhile.
THEOREM AnswersAreOfOneGeneration == Spec => []OneGeneration
BY Invariance, PTL DEF IInv

\* A link is handed out only for an output its user may see and a node its pipeline
\* keeps: authenticate, route and build_subscription_response for all configurations.
THEOREM OnlyTheGrantedIsServed == Spec => []OnlyWhatIsGranted
<1>1. IInv => OnlyWhatIsGranted
  <2> SUFFICES ASSUME IInv, pc = "done", answer.status = 200
               PROVE  \E g \in since..gen :
                        OfOneConfiguration(Generations[g], request.auth, answer.links)
    BY Zenon DEF OnlyWhatIsGranted, OfOneConfiguration
  <2>1. PICK g \in since..gen : answer = Dispatch(NewState(Generations[g]), request)
    BY Zenon DEF IInv, OneGeneration
  <2>2. g \in 1..Len(Generations)
    <3>1. Len(Generations) \in Nat
      BY HttpAssumption, Zenon DEF IsList
    <3> QED BY <3>1 DEF IInv
  <2>3. AnswerOf(g, request, answer)
    BY <2>1, <2>2, Zenon DEF AnswerOf
  <2>4. OfOneConfiguration(Generations[g], request.auth, answer.links)
    BY ONLY <2>3, DispatchFacts
  <2> QED BY <2>1, <2>4, Zenon
<1> QED BY <1>1, Invariance, PTL

-----------------------------------------------------------------------------
(* Requests by name *)

\* The names that can be requested: no two outputs share one, none has to be escaped
\* in a URL or is a word for a format.
PlainNames ==
  \A g \in 1..Len(Generations) : \A j \in DOMAIN Generations[g].outputs :
    LET outputs == Generations[g].outputs
        name == outputs[j].name
    IN /\ Escaped[name] = name /\ FormatOf(name) = "auto"
       /\ \A i \in DOMAIN outputs : outputs[i].name = name => i = j

\* The request r names output j of configuration g, and its user may see it.
AsksFor(r, g, j) ==
  /\ g \in 1..Len(Generations) /\ j \in DOMAIN Generations[g].outputs
  /\ r.path = <<"sub", Escaped[Generations[g].outputs[j].name]>>
  /\ Granted(Generations[g], r.auth, Generations[g].outputs[j].name)

\* The whole output o of configuration c, in the format of the client.
WholeOutput(a, c, o, agent) ==
  LET format == IF agent = "shadowrocket" THEN "shadowrocket" ELSE "v2rayn"
  IN /\ a.status = 200
     /\ a.links = [i \in DOMAIN NodesOf(c, o) |-> Link(format, NodesOf(c, o)[i], o, c.relay)]

\* The answer to a request by name is the output of that name.
LEMMA NamedFacts ==
  ASSUME PlainNames, NEW r, NEW g, NEW j, AsksFor(r, g, j)
  PROVE  WholeOutput(Dispatch(NewState(Generations[g]), r), Generations[g],
                     Generations[g].outputs[j], r.agent)
<1> DEFINE c == Generations[g]
           s == NewState(c)
           n == c.outputs[j].name
           granted == Authenticate(r.auth, s.users)
           format == IF r.agent = "shadowrocket" THEN "shadowrocket" ELSE "v2rayn"
           allowed == {i \in DOMAIN s.outputs : Allowed(s.outputs[i], n, granted[1])}
           links == LinksOf(s.outputs, allowed, format)
           a == Dispatch(s, r)
<1>1. g \in 1..Len(Generations) /\ j \in DOMAIN c.outputs
  BY Zenon DEF AsksFor
<1>2. /\ Escaped[n] = n /\ n # Every /\ FormatOf(n) = "auto"
      /\ \A i \in DOMAIN c.outputs : c.outputs[i].name = n => i = j
  BY <1>1, EveryAssumption, Zenon DEF PlainNames
<1>3. format \in Formats
  BY DEF Formats
<1>4. Renders(s, c, format)
  <2> HIDE DEF format
  <2> QED BY ONLY <1>1, <1>3, NewStateFacts
<1>5. r.path = <<"sub", n>> /\ Granted(c, r.auth, n)
  BY <1>2, Zenon DEF AsksFor
<1>6. Route(r.path) = [format |-> "auto", name |-> n]
  <2> HIDE DEF n
  <2>1. /\ r.path # <<"sub">> /\ Len(r.path) = 2 /\ r.path[1] = "sub" /\ r.path[2] = n
    BY <1>5
  <2> QED BY <1>2, <2>1 DEF Route
<1>7. Resolve("auto", r.agent) = format
  BY DEF Resolve
<1> HIDE DEF c, s, n, format
<1>8. s.users = c.users /\ IsList(c.users) /\ DOMAIN s.outputs = DOMAIN c.outputs
      /\ \A i \in DOMAIN c.outputs : s.outputs[i].name = c.outputs[i].name
  BY <1>4, Zenon DEF Renders
<1>9. Lets(granted, n)
  <2>1. granted = Authenticate(r.auth, c.users)
    BY Zenon, <1>8
  <2> HIDE DEF granted
  <2> QED BY Zenon, <1>5, <1>8, <2>1, AuthenticateFacts
<1>10. a = BuildSubscriptionResponse(s, granted[1], n, format)
  <2> DEFINE route == Route(r.path)
  <2>1. a = CASE granted = <<>> -> [status |-> 401, links |-> <<>>]
              [] granted # <<>> /\ route = NotFound -> [status |-> 404, links |-> <<>>]
              [] OTHER -> BuildSubscriptionResponse(s, granted[1], route.name,
                                                    Resolve(route.format, r.agent))
    BY Zenon DEF Dispatch
  <2>2. route.name = n /\ route.format = "auto" /\ route # NotFound
    BY SMTT(30), Zenon, <1>6 DEF NotFound
  <2>3. granted # <<>>
    BY <1>9, Zenon DEF Lets
  <2> HIDE DEF route, granted, a
  <2> QED BY <1>7, <2>1, <2>2, <2>3
<1>11. allowed = {j}
  <2>1. \A i \in DOMAIN c.outputs : Allowed(s.outputs[i], n, granted[1]) <=> i = j
    <3> HIDE DEF granted
    <3>1. \A i \in DOMAIN c.outputs : s.outputs[i].name = n <=> i = j
      BY <1>1, <1>2, <1>8, Zenon DEF n
    <3>2. granted[1] = All \/ n \in granted[1]
      BY <1>9, Zenon DEF Lets
    <3>3. \A i \in DOMAIN c.outputs :
            Allowed(s.outputs[i], n, granted[1]) <=> s.outputs[i].name = n
      BY SMTT(30), <1>2, <3>2 DEF Allowed
    <3> QED BY <3>1, <3>3, Zenon
  <2> HIDE DEF granted
  <2> QED BY SMTT(30), <1>1, <1>8, <2>1
<1>12. a = [status |-> 200, links |-> links]
  <2>1. BuildSubscriptionResponse(s, granted[1], n, format) =
          IF allowed = {} THEN [status |-> 404, links |-> <<>>]
          ELSE [status |-> 200, links |-> links]
    BY Zenon DEF BuildSubscriptionResponse
  <2> HIDE DEF granted, allowed, links, a
  <2> QED BY SMTT(30), <1>10, <1>11, <2>1
<1>13. links = s.outputs[j].links[format]
  <2>1. allowed \subseteq DOMAIN s.outputs
    BY Zenon, <1>1, <1>8, <1>11
  <2> HIDE DEF allowed
  <2>2. CanJoin(s.outputs, allowed, format)
    BY <1>4, <2>1, Zenon DEF CanJoin, Renders
  <2>3. Body(links, s.outputs, allowed, format)
    BY ONLY <2>2, LinksOfFacts
  <2> HIDE DEF links
  <2> QED BY <1>11, <2>3, Zenon DEF Body
<1> HIDE DEF links, a
<1>14. a.status = 200 /\ a.links = s.outputs[j].links[format]
  BY <1>12, <1>13
<1>15. s.outputs[j].links[format] =
         [i \in DOMAIN NodesOf(c, c.outputs[j]) |->
            Link(format, NodesOf(c, c.outputs[j])[i], c.outputs[j], c.relay)]
  BY <1>1, <1>4, Zenon DEF Renders
<1>16. WholeOutput(a, c, c.outputs[j], r.agent)
  BY <1>14, <1>15, ZenonT(60) DEF WholeOutput, format
<1> QED BY <1>16, Zenon DEF a, c, s

\* /sub/<name> is answered with all nodes of the output of that name and no others, for
\* every configuration whose outputs have names that can be requested: route does not
\* decode escapes and takes a word for a format as such.
THEOREM NamedOutputsAreServed ==
  ASSUME PlainNames
  PROVE  Spec => []NamedOutputServed
<1>1. IInv => NamedOutputServed
  <2> SUFFICES ASSUME IInv, pc = "done", since = gen,
                      NEW j \in DOMAIN Generations[gen].outputs,
                      request.path = <<"sub", Escaped[Generations[gen].outputs[j].name]>>,
                      Granted(Generations[gen], request.auth, Generations[gen].outputs[j].name)
               PROVE  WholeOutput(answer, Generations[gen], Generations[gen].outputs[j], request.agent)
    BY Zenon DEF NamedOutputServed, WholeOutput
  <2>1. PICK g \in since..gen : answer = Dispatch(NewState(Generations[g]), request)
    BY Zenon DEF IInv, OneGeneration
  <2>2. gen \in 1..Len(Generations) /\ g = gen
    <3>1. Len(Generations) \in Nat
      BY HttpAssumption, Zenon DEF IsList
    <3> QED BY SMTT(30), <3>1 DEF IInv
  <2>3. AsksFor(request, gen, j)
    BY <2>2, Zenon DEF AsksFor
  <2>4. WholeOutput(Dispatch(NewState(Generations[gen]), request), Generations[gen],
                    Generations[gen].outputs[j], request.agent)
    BY ONLY SMTT(30), Zenon, PlainNames, <2>3, NamedFacts
  <2> QED BY Zenon, <2>1, <2>2, <2>4
<1> QED BY <1>1, Invariance, PTL

-----------------------------------------------------------------------------
(* Reading back what was written *)

\* A function over the positions of a list is a list of the same length.
LEMMA MappedList ==
  ASSUME NEW list, NEW out, IsList(list), out = [i \in DOMAIN list |-> out[i]]
  PROVE  IsList(out) /\ Len(out) = Len(list) /\ DOMAIN out = DOMAIN list
<1> DEFINE T == {out[i] : i \in DOMAIN list}
<1>1. DOMAIN list = 1..Len(list) /\ Len(list) \in Nat
  BY ListIsSeq, Zenon
<1>2. \A i \in DOMAIN list : out[i] \in T
  OBVIOUS
<1> HIDE DEF T
<1>3. out \in [1..Len(list) -> T]
  BY <1>1, <1>2, Zenon
<1>4. out \in Seq(T) /\ Len(out) = Len(list) /\ DOMAIN out = DOMAIN list
  BY <1>1, <1>3
<1> QED BY <1>4, SeqIsList, Zenon

\* The links of an output of configuration g, and the nodes they were written for.
WrittenFor(links, nodes, f, g, j) ==
  LET c == Generations[g]
  IN /\ g \in 1..Len(Generations) /\ ~Panics(c) /\ j \in DOMAIN c.outputs /\ f \in Formats
     /\ nodes = NodesOf(c, c.outputs[j])
     /\ links = [i \in DOMAIN nodes |-> Link(f, nodes[i], c.outputs[j], c.relay)]

\* read is what the nodes of output j become on the way through a link of the format f.
ReadAs(read, nodes, f, c, j) ==
  read = IF c.outputs[j].port = 0 THEN <<>>
         ELSE [i \in DOMAIN nodes |-> ReadBack(f, nodes[i], c.outputs[j], c.relay)]

\* The parser makes one node of each link, or nothing of all of them.
LEMMA LinksRead ==
  ASSUME NEW links, NEW nodes, NEW f, NEW g, NEW j, WrittenFor(links, nodes, f, g, j)
  PROVE  ReadAs(ParseSubscription(links), nodes, f, Generations[g], j)
<1> DEFINE c == Generations[g]
           o == c.outputs[j]
           parsed == [i \in DOMAIN links |-> ParseVmessLink(links[i])]
           Read(i) == ReadBack(f, nodes[i], o, c.relay)
           out == [i \in DOMAIN nodes |-> Read(i)]
<1>1. g \in 1..Len(Generations) /\ ~Panics(c) /\ j \in DOMAIN c.outputs /\ f \in Formats
  BY Zenon DEF WrittenFor
<1>2. /\ nodes = ApplyPipeline(c.nodes, o.process)
      /\ DOMAIN links = DOMAIN nodes
      /\ \A i \in DOMAIN nodes : links[i] = Link(f, nodes[i], o, c.relay)
  BY Zenon DEF WrittenFor, NodesOf
<1>3. /\ IsList(c.nodes) /\ \A i \in DOMAIN c.nodes : IsNode(c.nodes[i])
      /\ IsList(o.process) /\ \A k \in DOMAIN o.process : IsStep(o.process[k])
      /\ o.port \in Nat /\ o.port <= MaxPort
      /\ c.relay.network \in {"tcp", "grpc"}
      /\ "" \in BadHosts
  BY <1>1, HttpAssumption, Zenon
<1> HIDE DEF c, o
<1>4. IsList(nodes) /\ \A i \in DOMAIN nodes : IsNode(nodes[i])
  BY <1>2, <1>3, PipelinesAreFaithful, PipelineMakesNodes, Zenon
<1>5. ASSUME NEW i \in DOMAIN nodes PROVE o.host # ""
  <2>1. nodes # <<>>
    BY EmptyList, Zenon
  <2> QED BY <1>1, <1>2, <1>3, <2>1, ZenonT(30) DEF Panics, o
<1>6. ASSUME NEW i \in DOMAIN nodes
      PROVE  parsed[i] = IF o.port = 0 THEN <<>> ELSE <<Read(i)>>
  <2> DEFINE node == nodes[i]
             relay == c.relay
  <2>1. o.host # "" /\ IsNode(node)
    BY <1>4, <1>5, Zenon
  <2>2. parsed[i] = ParseVmessLink(Link(f, node, o, relay))
    BY <1>2, Zenon
  <2>3. relay.network \in {"tcp", "grpc"}
    BY <1>3, Zenon
  <2> HIDE DEF node, relay, parsed
  <2>4. ParseVmessLink(Link(f, node, o, relay)) =
          IF o.port = 0 THEN <<>> ELSE <<ReadBack(f, node, o, relay)>>
    BY <1>1, <1>3, <2>1, <2>3, LinkReads, Zenon
  <2> QED BY <2>2, <2>4, Zenon DEF node, relay
<1>7. IsList(parsed) /\ Len(parsed) = Len(nodes) /\ DOMAIN parsed = DOMAIN nodes
  <2>1. parsed = [i \in DOMAIN nodes |-> parsed[i]]
    BY <1>2, Zenon
  <2> HIDE DEF parsed
  <2> QED BY <1>4, <2>1, MappedList, ZenonT(30)
<1>8. IsList(out) /\ Len(out) = Len(nodes) /\ \A i \in DOMAIN nodes : out[i] = Read(i)
  <2> HIDE DEF Read
  <2>1. out = [i \in DOMAIN nodes |-> out[i]] /\ \A i \in DOMAIN nodes : out[i] = Read(i)
    BY Zenon
  <2> HIDE DEF out
  <2> QED BY <1>4, <2>1, MappedList, Zenon
<1>9. ParseSubscription(links) = Concat(parsed)
  BY Zenon DEF ParseSubscription
<1> HIDE DEF parsed, out, Read
<1>10. CASE o.port = 0
  <2>1. \A i \in DOMAIN parsed : parsed[i] = <<>>
    BY <1>6, <1>7, <1>10, ZenonT(60)
  <2>2. Concat(parsed) = <<>>
    BY <1>7, <2>1, ConcatOfNone, ZenonT(60)
  <2> QED BY <1>9, <1>10, <2>2, Zenon DEF ReadAs, o, c
<1>11. CASE o.port # 0
  <2>1. \A i \in DOMAIN parsed : parsed[i] = <<out[i]>>
    BY <1>6, <1>7, <1>8, <1>11, Zenon
  <2>2. Len(out) = Len(parsed)
    BY <1>7, <1>8, Zenon
  <2>3. Concat(parsed) = out
    BY ONLY <1>7, <1>8, <2>1, <2>2, ConcatOfOnes, Zenon
  <2> QED BY <1>9, <1>11, <2>3, ZenonT(60) DEF ReadAs, o, c, out, Read
<1> QED BY <1>10, <1>11, Zenon

\* The parser reads back what the server writes, in all three formats and for every
\* configuration: render_output, the pipelines before it and parse_subscription.
THEOREM LinksAreReadBack == Spec => []LinksParseBack
<1>1. IInv => LinksParseBack
  <2> SUFFICES ASSUME IInv, up, NEW j \in DOMAIN Generations[gen].outputs, NEW f \in Formats
               PROVE  LET c == Generations[gen] IN
                      ParseSubscription(state.outputs[j].links[f]) =
                        IF c.outputs[j].port = 0 THEN <<>>
                        ELSE [i \in DOMAIN NodesOf(c, c.outputs[j]) |->
                                ReadBack(f, NodesOf(c, c.outputs[j])[i], c.outputs[j], c.relay)]
    BY Zenon DEF LinksParseBack
  <2> DEFINE c == Generations[gen]
             nodes == NodesOf(c, c.outputs[j])
             links == state.outputs[j].links[f]
  <2>1. gen \in 1..Len(Generations) /\ state = NewState(c) /\ ~Panics(c)
    BY Zenon DEF IInv
  <2>2. Renders(NewState(c), c, f)
    BY ONLY <2>1, f \in Formats, NewStateFacts
  <2>3. links = [i \in DOMAIN nodes |-> Link(f, nodes[i], c.outputs[j], c.relay)]
    BY <2>1, <2>2, Zenon DEF Renders
  <2>4. WrittenFor(links, nodes, f, gen, j)
    BY <2>1, <2>3, Zenon DEF WrittenFor
  <2>5. ReadAs(ParseSubscription(links), nodes, f, c, j)
    BY ONLY Zenon, <2>4, LinksRead
  <2> QED BY <2>5, Zenon DEF ReadAs
<1> QED BY <1>1, Invariance, PTL
=============================================================================
