---------------------------- MODULE PlanningProof ----------------------------
(***************************************************************************)
(* What is settled before any block is placed: the order of features, and  *)
(* the structures that are planned directly.                               *)
(*                                                                         *)
(* For any biomes and any lists: the sort of buildStepFeatureData panics   *)
(* only when the lists contradict each other, and what a chunk runs of the *)
(* lists it leaves is what its biomes list, in the order of each of them.  *)
(* Why: a node is finished after everything that some biome lists right    *)
(* after it, because the search goes through those first and never comes   *)
(* back to a call that is still open. So the reversed order agrees with    *)
(* each pair of neighbours, hence with each list as a whole; and a call    *)
(* that comes back to an open one has found a circle, which the open calls *)
(* from there on spell out.                                                *)
(*                                                                         *)
(* On any ground: the box of a directly planned structure has all of its   *)
(* pieces and stays within its estimate, and igloos, portals, treasures    *)
(* and cities stand where the ground was measured. Why: wherever a template is turned about a     *)
(* pivot, its box and its positions are one of four shifts of what they    *)
(* were (TurnedBox, Turned); so each builder's pieces have bounds, and the *)
(* box around several attains its sides in some of them (AroundHolds).     *)
(***************************************************************************)
EXTENDS FeatureOrder, DirectStructures, SequenceLemmas, FiniteSetTheorems

-----------------------------------------------------------------------------
\* The neighbours of each node.
Graph == [n \in Nodes |-> Neighbours(n)]

\* Every node that is finished comes after all its neighbours.
NeighboursFirst ==
  \A p \in 1 .. Len(sortedNodes) : \A m \in Graph[sortedNodes[p]] :
    \E q \in 1 .. Len(sortedNodes) : q < p /\ sortedNodes[q] = m

\* The open calls are a path: each but the last is inside the visit of one of
\* its neighbours, none is open twice, and what they are through with is finished.
OpenCalls ==
  /\ \A i \in 1 .. Len(stack) :
       /\ stack[i].node \notin visited
       /\ stack[i].rest \subseteq Graph[stack[i].node]
       /\ \A m \in Graph[stack[i].node] \ stack[i].rest :
            m \in visited \/ (i < Len(stack) /\ m = stack[i + 1].node)
       /\ i < Len(stack) => stack[i + 1].node \in Graph[stack[i].node]
  /\ \A i, j \in 1 .. Len(stack) : stack[i].node = stack[j].node => i = j

\* The outer loop is through with what is finished or open.
RootsLeft == \A n \in Nodes \ roots : n \in visited \cup Visiting

\* The inductive invariant.
IInv ==
  /\ OrderTypeOK
  /\ NeighboursFirst
  /\ orderStage = "sort" => OpenCalls /\ RootsLeft
  /\ orderStage = "panic" => Contradictory
  /\ orderStage = "done" =>
       /\ visited = Nodes
       /\ stepFeatures = [s \in Steps |-> NamesOfStep(s)]

-----------------------------------------------------------------------------
\* What the lists are made of.
ListsType == featureSteps \in [Biomes -> [Steps -> Seq(Names)]]

\* The nodes of one step of a biome.
OfStep(b, s) == [j \in DOMAIN featureSteps[b][s] |-> <<s, featureSteps[b][s][j]>>]

\* They are a sequence, as long as the list.
LEMMA OfStepType ==
  ASSUME ListsType, NEW b \in Biomes, NEW s \in Steps
  PROVE  /\ OfStep(b, s) \in Seq(Steps \X Names)
         /\ DOMAIN featureSteps[b][s] = 1 .. Len(featureSteps[b][s])
         /\ Len(OfStep(b, s)) = Len(featureSteps[b][s])
         /\ \A k \in 1 .. Len(featureSteps[b][s]) :
              OfStep(b, s)[k] = <<s, featureSteps[b][s][k]>> /\ featureSteps[b][s][k] \in Names
<1> DEFINE list == featureSteps[b][s]
<1>1. list \in Seq(Names)
  BY DEF ListsType
<1>2. DOMAIN list = 1 .. Len(list) /\ Len(list) \in Nat /\ \A k \in 1 .. Len(list) : list[k] \in Names
  BY <1>1, LenProperties
<1>3. OfStep(b, s) = [j \in 1 .. Len(list) |-> <<s, list[j]>>]
  BY <1>2 DEF OfStep
<1> HIDE DEF list
<1>4. OfStep(b, s) \in [1 .. Len(list) -> Steps \X Names]
  BY <1>2, <1>3
<1>5. OfStep(b, s) \in Seq(Steps \X Names) /\ Len(OfStep(b, s)) = Len(list)
  BY <1>2, <1>4, FunctionAsSeq
<1> QED
  BY <1>2, <1>3, <1>5 DEF list

\* All nodes of a biome come in the order of its lists.
LEMMA SourceProperties ==
  ASSUME ListsType, NEW b \in Biomes
  PROVE  /\ SourceFeatures(b) \in Seq(Steps \X Names)
         /\ ToSet(SourceFeatures(b)) = UNION {ToSet(OfStep(b, s)) : s \in Steps}
         /\ \E off : Standing([s \in Steps |-> OfStep(b, s)], StepCount, SourceFeatures(b), off)
<1> DEFINE ss == [s \in Steps |-> OfStep(b, s)]
<1>1. \A s \in Steps : OfStep(b, s) \in Seq(Steps \X Names)
  BY OfStepType
<1>2. Steps = 1 .. StepCount /\ StepCount \in Nat
  BY StepsAssumption DEF Steps
<1>3. ss \in [1 .. StepCount -> Seq(Steps \X Names)] /\ \A s \in Steps : ss[s] = OfStep(b, s)
  BY <1>1, <1>2
<1>4. SourceFeatures(b) = FlattenSeq(ss)
  BY DEF SourceFeatures, OfStep
<1> HIDE DEF ss
<1>5. ss \in Seq(Seq(Steps \X Names)) /\ Len(ss) = StepCount
  BY <1>2, <1>3, FunctionAsSeq
<1>6. /\ FlattenSeq(ss) \in Seq(Steps \X Names)
      /\ ToSet(FlattenSeq(ss)) = UNION {ToSet(ss[i]) : i \in 1 .. Len(ss)}
  BY <1>5, FlattenSeqProperties
<1>7. \E off : Standing(ss, Len(ss), FlattenSeq(ss), off)
  BY <1>5, FlattenSeqPlaces
<1>8. UNION {ToSet(ss[i]) : i \in 1 .. Len(ss)} = UNION {ToSet(OfStep(b, s)) : s \in Steps}
  BY <1>2, <1>3, <1>5
<1> QED
  BY <1>4, <1>5, <1>6, <1>7, <1>8 DEF ss

\* A node says that some biome lists the feature in the step.
LEMMA NodeListed ==
  ASSUME ListsType
  PROVE  /\ Nodes \subseteq Steps \X Names
         /\ \A s \in Steps, f \in Names :
              <<s, f>> \in Nodes <=> \E b \in Biomes : f \in ToSet(featureSteps[b][s])
<1>1. ASSUME NEW b \in Biomes, NEW n, n \in ToSet(SourceFeatures(b))
      PROVE  \E s \in Steps : \E f \in ToSet(featureSteps[b][s]) : n = <<s, f>> /\ f \in Names
  <2>1. PICK s \in Steps : n \in ToSet(OfStep(b, s))
    BY <1>1, SourceProperties
  <2>2. PICK k \in DOMAIN OfStep(b, s) : n = OfStep(b, s)[k]
    BY <2>1 DEF ToSet
  <2>3. k \in DOMAIN featureSteps[b][s] /\ k \in 1 .. Len(featureSteps[b][s])
    BY <2>2, OfStepType DEF OfStep
  <2>4. n = <<s, featureSteps[b][s][k]>> /\ featureSteps[b][s][k] \in Names
    BY <2>2, <2>3, OfStepType
  <2>5. featureSteps[b][s][k] \in ToSet(featureSteps[b][s])
    BY <2>3 DEF ToSet
  <2> QED
    BY <2>4, <2>5
<1>2. ASSUME NEW b \in Biomes, NEW s \in Steps, NEW f \in ToSet(featureSteps[b][s])
      PROVE  <<s, f>> \in ToSet(SourceFeatures(b))
  <2>1. PICK k \in DOMAIN featureSteps[b][s] : f = featureSteps[b][s][k]
    BY DEF ToSet
  <2>2. k \in DOMAIN OfStep(b, s) /\ OfStep(b, s)[k] = <<s, f>>
    BY <2>1 DEF OfStep
  <2>3. <<s, f>> \in ToSet(OfStep(b, s))
    BY <2>2 DEF ToSet
  <2> QED
    BY <2>3, SourceProperties
<1>3. Nodes \subseteq Steps \X Names
  BY <1>1 DEF Nodes
<1>4. ASSUME NEW s \in Steps, NEW f \in Names, <<s, f>> \in Nodes
      PROVE  \E b \in Biomes : f \in ToSet(featureSteps[b][s])
  <2>1. PICK b \in Biomes : <<s, f>> \in ToSet(SourceFeatures(b))
    BY <1>4 DEF Nodes
  <2>2. PICK t \in Steps : \E e \in ToSet(featureSteps[b][t]) : <<s, f>> = <<t, e>> /\ e \in Names
    BY <1>1, <2>1
  <2> QED
    BY <2>2
<1>5. ASSUME NEW s \in Steps, NEW f \in Names, \E b \in Biomes : f \in ToSet(featureSteps[b][s])
      PROVE  <<s, f>> \in Nodes
  BY <1>2, <1>5 DEF Nodes
<1> QED
  BY <1>3, <1>4, <1>5

\* What a list has in an order, the nodes of the biome have in that order.
LEMMA ListInSource ==
  ASSUME ListsType, NEW b \in Biomes, NEW s \in Steps,
         NEW k \in 1 .. Len(featureSteps[b][s]), NEW l \in 1 .. Len(featureSteps[b][s]), k < l
  PROVE  \E p, q \in 1 .. Len(SourceFeatures(b)) :
           /\ p < q
           /\ SourceFeatures(b)[p] = <<s, featureSteps[b][s][k]>>
           /\ SourceFeatures(b)[q] = <<s, featureSteps[b][s][l]>>
<1> DEFINE ss == [t \in Steps |-> OfStep(b, t)]
<1>1. PICK off : Standing(ss, StepCount, SourceFeatures(b), off)
  BY SourceProperties
<1>2. s \in 1 .. StepCount /\ ss[s] = OfStep(b, s)
  BY DEF Steps
<1> HIDE DEF ss
<1>3. /\ Len(ss[s]) = Len(featureSteps[b][s])
      /\ ss[s][k] = <<s, featureSteps[b][s][k]>>
      /\ ss[s][l] = <<s, featureSteps[b][s][l]>>
  BY <1>2, OfStepType
<1>4. /\ off[s] \in Nat
      /\ off[s] + Len(ss[s]) <= Len(SourceFeatures(b))
      /\ SourceFeatures(b)[off[s] + k] = ss[s][k]
      /\ SourceFeatures(b)[off[s] + l] = ss[s][l]
  BY <1>1, <1>2, <1>3 DEF Standing
<1>5. Len(featureSteps[b][s]) \in Nat /\ Len(SourceFeatures(b)) \in Nat
  BY SourceProperties, LenProperties DEF ListsType
<1>6. /\ off[s] + k \in 1 .. Len(SourceFeatures(b))
      /\ off[s] + l \in 1 .. Len(SourceFeatures(b))
      /\ off[s] + k < off[s] + l
  <2> DEFINE n == Len(featureSteps[b][s])
             m == Len(SourceFeatures(b))
             o == off[s]
  <2>1. n \in Nat /\ m \in Nat /\ o \in Nat /\ o + n <= m
    BY <1>3, <1>4, <1>5
  <2>2. k \in 1 .. n /\ l \in 1 .. n /\ k < l
    OBVIOUS
  <2> HIDE DEF n, m, o
  <2>3. o + k \in 1 .. m /\ o + l \in 1 .. m /\ o + k < o + l
    BY <2>1, <2>2
  <2> QED
    BY <2>3 DEF n, m, o
<1> QED
  BY <1>3, <1>4, <1>6

-----------------------------------------------------------------------------
\* All nodes are mentioned, and nothing else is.
LEMMA MentionsAll ==
  ASSUME ListsType
  PROVE  /\ Mentions \in Seq(Steps \X Names)
         /\ ToSet(Mentions) = Nodes
<1> DEFINE ss == [i \in DOMAIN PossibleBiomes |-> SourceFeatures(PossibleBiomes[i])]
<1>1. DOMAIN PossibleBiomes = 1 .. Len(PossibleBiomes) /\ Len(PossibleBiomes) \in Nat
  BY BiomesAssumption, LenProperties
<1>2. Biomes = {PossibleBiomes[i] : i \in 1 .. Len(PossibleBiomes)}
  BY <1>1 DEF Biomes, ToSet
<1>3. ss \in [1 .. Len(PossibleBiomes) -> Seq(Steps \X Names)]
  BY <1>1, <1>2, SourceProperties
<1>4. \A i \in 1 .. Len(PossibleBiomes) : ss[i] = SourceFeatures(PossibleBiomes[i])
  BY <1>1
<1>5. Mentions = FlattenSeq(ss)
  BY DEF Mentions
<1> HIDE DEF ss
<1>6. ss \in Seq(Seq(Steps \X Names)) /\ Len(ss) = Len(PossibleBiomes)
  BY <1>1, <1>3, FunctionAsSeq
<1>7. /\ Mentions \in Seq(Steps \X Names)
      /\ ToSet(Mentions) = UNION {ToSet(ss[i]) : i \in 1 .. Len(ss)}
  BY <1>5, <1>6, FlattenSeqProperties
<1>8. UNION {ToSet(ss[i]) : i \in 1 .. Len(ss)} = Nodes
  BY <1>2, <1>4, <1>6 DEF Nodes
<1> QED
  BY <1>7, <1>8

\* What a node names has a first mention.
LEMMA FirstMentionProperties ==
  ASSUME ListsType, NEW n \in Nodes
  PROVE  /\ FirstMention(n[2]) \in Nat
         /\ Mentions[FirstMention(n[2])][2] = n[2]
<1> DEFINE f == n[2]
           T == {i \in 1 .. Len(Mentions) : Mentions[i][2] = f}
<1>1. DOMAIN Mentions = 1 .. Len(Mentions) /\ Len(Mentions) \in Nat
  BY MentionsAll, LenProperties
<1>2. \E i \in DOMAIN Mentions : Mentions[i] = n
  BY MentionsAll DEF ToSet
<1>3. T # {} /\ T \in SUBSET Nat
  BY <1>1, <1>2
<1> HIDE DEF T
<1>4. PICK i \in T : \A j \in T : i <= j
  BY <1>3, LeastOfSet
<1>5. i \in DOMAIN Mentions /\ i \in Nat /\ Mentions[i][2] = f
  BY <1>1, <1>4 DEF T
<1>6. ASSUME NEW j \in 1 .. i - 1 PROVE Mentions[j][2] # f
  <2>1. j \in 1 .. Len(Mentions) /\ ~ (i <= j)
    BY <1>1, <1>5
  <2>2. j \notin T
    BY <2>1, <1>4
  <2> QED
    BY <2>1, <2>2 DEF T
<1>7. \E k \in DOMAIN Mentions : Mentions[k][2] = f /\ \A j \in 1 .. k - 1 : Mentions[j][2] # f
  BY <1>5, <1>6
<1> HIDE DEF f
<1>8. FirstMention(f) \in DOMAIN Mentions /\ Mentions[FirstMention(f)][2] = f
  BY <1>7 DEF FirstMention
<1> QED
  BY <1>1, <1>8 DEF f

\* Among some nodes one comes first.
LEMMA LeastExists ==
  ASSUME ListsType, NEW S \in SUBSET Nodes, S # {}
  PROVE  Least(S) \in S
<1>1. \A n \in S : /\ n[1] \in Nat
                   /\ n[2] \in Names
                   /\ n = <<n[1], n[2]>>
                   /\ FirstMention(n[2]) \in Nat
                   /\ Mentions[FirstMention(n[2])][2] = n[2]
  BY NodeListed, FirstMentionProperties, StepsAssumption DEF Steps
<1> DEFINE T == {n[1] : n \in S}
<1>2. T # {} /\ T \in SUBSET Nat
  BY <1>1
<1>3. PICK s \in T : \A t \in T : s <= t
  BY <1>2, LeastOfSet
<1>4. \A m \in S : m[1] \in T /\ s <= m[1]
  BY <1>3
<1> DEFINE U == {FirstMention(n[2]) : n \in {m \in S : m[1] = s}}
<1>5. U # {} /\ U \in SUBSET Nat
  BY <1>1, <1>3
<1>6. PICK u \in U : \A v \in U : u <= v
  BY <1>5, LeastOfSet
<1>7. PICK n \in S : n[1] = s /\ FirstMention(n[2]) = u
  BY <1>6
<1>8. ASSUME NEW m \in S \ {n} PROVE Precedes(n, m)
  <2>1. s \in Nat /\ m[1] \in Nat /\ s <= m[1]
    BY <1>1, <1>2, <1>3, <1>4
  <2>2. CASE s < m[1]
    BY <2>2, <1>7 DEF Precedes
  <2>3. CASE m[1] = s
    <3>1. u <= FirstMention(m[2])
      BY <2>3, <1>6
    <3>2. FirstMention(m[2]) # u
      <4>1. SUFFICES ASSUME FirstMention(m[2]) = u PROVE FALSE
        OBVIOUS
      <4>2. m[2] = n[2]
        BY <4>1, <1>1, <1>7
      <4>3. m = n
        BY <4>2, <2>3, <1>1, <1>7
      <4> QED
        BY <4>3
    <3>3. u \in Nat /\ FirstMention(m[2]) \in Nat
      BY <1>1, <1>5
    <3>4. u < FirstMention(m[2])
      BY <3>1, <3>2, <3>3
    <3> QED
      BY <3>4, <2>3, <1>7 DEF Precedes
  <2> QED
    BY <2>1, <2>2, <2>3
<1> QED
  BY <1>7, <1>8 DEF Least

\* The names of a step are those of its nodes, each once, in the order of the nodes.
LEMMA NamesInOrder ==
  ASSUME NEW nodes \in Seq(Steps \X Names), IsInjective(nodes), NEW s \in Steps
  PROVE  /\ NamesIn(nodes, s) \in Seq(Names)
         /\ IsInjective(NamesIn(nodes, s))
         /\ \A i, j \in 1 .. Len(nodes) : nodes[i][1] = s /\ nodes[j][1] = s /\ i < j =>
              \E p, q \in 1 .. Len(NamesIn(nodes, s)) :
                p < q /\ NamesIn(nodes, s)[p] = nodes[i][2] /\ NamesIn(nodes, s)[q] = nodes[j][2]
         /\ ToSet(NamesIn(nodes, s)) = {f \in Names : <<s, f>> \in ToSet(nodes)}
<1> DEFINE ss == [i \in DOMAIN nodes |-> IF nodes[i][1] = s THEN <<nodes[i][2]>> ELSE <<>>]
           F == NamesIn(nodes, s)
           m == Len(nodes)
<1>1. /\ DOMAIN nodes = 1 .. m
      /\ m \in Nat
      /\ \A i \in 1 .. m : /\ nodes[i][2] \in Names
                           /\ nodes[i] = <<nodes[i][1], nodes[i][2]>>
  BY LenProperties
<1>2. \A i \in 1 .. m :
        /\ nodes[i][1] = s => ss[i] = <<nodes[i][2]>>
        /\ nodes[i][1] # s => ss[i] = <<>>
  BY <1>1
<1>3. ss \in [1 .. m -> Seq(Names)]
  BY <1>1
<1>4. F = FlattenSeq(ss)
  BY DEF NamesIn
<1> HIDE DEF ss, F, m
<1>5. ss \in Seq(Seq(Names)) /\ Len(ss) = m
  BY <1>1, <1>3, FunctionAsSeq
<1>6. F \in Seq(Names) /\ ToSet(F) = UNION {ToSet(ss[i]) : i \in 1 .. m}
  BY <1>4, <1>5, FlattenSeqProperties
<1>7. PICK off : Standing(ss, m, F, off)
  BY <1>4, <1>5, FlattenSeqPlaces
<1>8. DOMAIN F = 1 .. Len(F) /\ Len(F) \in Nat
  BY <1>6, LenProperties
<1>0. \A x : Len(<<x>>) = 1 /\ <<x>>[1] = x
  OBVIOUS
<1>9. ASSUME NEW i \in 1 .. m, nodes[i][1] = s
      PROVE  /\ off[i] + 1 \in 1 .. Len(F)
             /\ F[off[i] + 1] = nodes[i][2]
             /\ \A j \in 1 .. m : i < j => off[i] + 1 <= off[j]
  <2>1. Len(ss[i]) = 1 /\ ss[i][1] = nodes[i][2] /\ 1 \in 1 .. Len(ss[i])
    <3>1. ss[i] = <<nodes[i][2]>>
      BY <1>2, <1>9
    <3>2. Len(ss[i]) = 1 /\ ss[i][1] = nodes[i][2]
      BY <3>1, <1>0, Zenon
    <3> QED
      BY <3>2
  <2>2. off[i] \in Nat /\ off[i] + 1 <= Len(F) /\ F[off[i] + 1] = ss[i][1]
    BY <2>1, <1>7 DEF Standing
  <2>3. \A j \in 1 .. m : i < j => off[i] + 1 <= off[j]
    BY <2>1, <1>7 DEF Standing
  <2> QED
    BY <2>1, <2>2, <2>3, <1>8
<1>10. ASSUME NEW p \in 1 .. Len(F)
       PROVE  \E i \in 1 .. m : nodes[i][1] = s /\ p = off[i] + 1 /\ F[p] = nodes[i][2]
  <2>1. PICK i \in 1 .. m : \E k \in 1 .. Len(ss[i]) : p = off[i] + k
    BY <1>7 DEF Standing
  <2>2. nodes[i][1] = s
    <3>1. Len(<<>>) = 0 /\ 1 .. 0 = {}
      OBVIOUS
    <3> QED
      BY <2>1, <3>1, <1>2
  <2>3. Len(ss[i]) = 1 /\ 1 .. 1 = {1}
    <3>1. ss[i] = <<nodes[i][2]>>
      BY <1>2, <2>2
    <3>2. Len(ss[i]) = 1
      BY <3>1, <1>0, Zenon
    <3> QED
      BY <3>2
  <2>4. p = off[i] + 1
    BY <2>1, <2>3
  <2> QED
    BY <2>2, <2>4, <1>9
<1>11. IsInjective(F)
  <2> SUFFICES ASSUME NEW p \in 1 .. Len(F), NEW q \in 1 .. Len(F), F[p] = F[q]
               PROVE  p = q
    BY <1>8 DEF IsInjective
  <2>1. PICK i \in 1 .. m : nodes[i][1] = s /\ p = off[i] + 1 /\ F[p] = nodes[i][2]
    BY <1>10
  <2>2. PICK j \in 1 .. m : nodes[j][1] = s /\ q = off[j] + 1 /\ F[q] = nodes[j][2]
    BY <1>10
  <2>3. nodes[i] = nodes[j]
    BY <2>1, <2>2, <1>1
  <2>4. i = j
    BY <2>3, <1>1 DEF IsInjective
  <2> QED
    BY <2>1, <2>2, <2>4
<1>12. ASSUME NEW i \in 1 .. m, NEW j \in 1 .. m, nodes[i][1] = s, nodes[j][1] = s, i < j
       PROVE  \E p, q \in 1 .. Len(F) : p < q /\ F[p] = nodes[i][2] /\ F[q] = nodes[j][2]
  <2>1. off[i] \in Nat /\ off[j] \in Nat
    BY <1>7 DEF Standing
  <2>2. off[i] + 1 < off[j] + 1
    BY <2>1, <1>9, <1>12
  <2>3. /\ off[i] + 1 \in 1 .. Len(F) /\ F[off[i] + 1] = nodes[i][2]
        /\ off[j] + 1 \in 1 .. Len(F) /\ F[off[j] + 1] = nodes[j][2]
    BY <1>9, <1>12
  <2> QED
    BY <2>2, <2>3
<1>13. ToSet(F) = {f \in Names : <<s, f>> \in ToSet(nodes)}
  <2>1. ASSUME NEW f, f \in ToSet(F) PROVE f \in Names /\ <<s, f>> \in ToSet(nodes)
    <3>1. PICK p \in 1 .. Len(F) : f = F[p]
      BY <2>1, <1>8 DEF ToSet
    <3>2. PICK i \in 1 .. m : nodes[i][1] = s /\ p = off[i] + 1 /\ F[p] = nodes[i][2]
      BY <1>10
    <3>3. nodes[i] = <<s, f>>
      BY <3>1, <3>2, <1>1
    <3> QED
      BY <3>1, <3>2, <3>3, <1>1 DEF ToSet
  <2>2. ASSUME NEW f \in Names, <<s, f>> \in ToSet(nodes) PROVE f \in ToSet(F)
    <3>1. PICK i \in 1 .. m : nodes[i] = <<s, f>>
      BY <2>2, <1>1 DEF ToSet
    <3>2. nodes[i][1] = s /\ nodes[i][2] = f
      BY <3>1
    <3>3. off[i] + 1 \in 1 .. Len(F) /\ F[off[i] + 1] = f
      BY <3>2, <1>9
    <3> QED
      BY <3>3, <1>8 DEF ToSet
  <2> QED
    BY <2>1, <2>2
<1> QED
  BY <1>6, <1>11, <1>12, <1>13 DEF F, m

\* The finished nodes in reverse: each once, and earlier what was later.
LEMMA ReversedNodes ==
  ASSUME ListsType, sortedNodes \in Seq(Nodes), IsInjective(sortedNodes)
  PROVE  /\ Reverse(sortedNodes) \in Seq(Steps \X Names)
         /\ IsInjective(Reverse(sortedNodes))
         /\ ToSet(Reverse(sortedNodes)) = ToSet(sortedNodes)
         /\ \A p, q \in 1 .. Len(sortedNodes) : p < q =>
              \E i, j \in 1 .. Len(Reverse(sortedNodes)) :
                i < j /\ Reverse(sortedNodes)[i] = sortedNodes[q] /\ Reverse(sortedNodes)[j] = sortedNodes[p]
<1> DEFINE l == Len(sortedNodes)
           r == Reverse(sortedNodes)
           P == Steps \X Names
<1>1. /\ l \in Nat /\ DOMAIN sortedNodes = 1 .. l
      /\ \A p \in 1 .. l : sortedNodes[p] \in P
  BY NodeListed, LenProperties
<1>2. \A i \in 1 .. l : (l - i) + 1 \in 1 .. l /\ (l - ((l - i) + 1)) + 1 = i
  BY <1>1
<1>3. r = [i \in 1 .. l |-> sortedNodes[(l - i) + 1]]
  BY DEF Reverse
<1> HIDE DEF l, r, P
<1>4. r \in [1 .. l -> P] /\ \A i \in 1 .. l : r[i] = sortedNodes[(l - i) + 1]
  BY <1>1, <1>2, <1>3
<1>5. r \in Seq(P) /\ Len(r) = l /\ DOMAIN r = 1 .. l
  BY <1>1, <1>4, FunctionAsSeq
<1>6. IsInjective(r)
  <2> SUFFICES ASSUME NEW i \in 1 .. l, NEW j \in 1 .. l, r[i] = r[j] PROVE i = j
    BY <1>5 DEF IsInjective
  <2>1. (l - i) + 1 = (l - j) + 1
    BY <1>1, <1>2, <1>4 DEF IsInjective
  <2> QED
    BY <2>1, <1>1
<1>7. ToSet(r) = ToSet(sortedNodes)
  <2>1. ASSUME NEW h, h \in ToSet(r) PROVE h \in ToSet(sortedNodes)
    BY <2>1, <1>1, <1>2, <1>4, <1>5 DEF ToSet
  <2>2. ASSUME NEW h, h \in ToSet(sortedNodes) PROVE h \in ToSet(r)
    <3>1. PICK p \in 1 .. l : h = sortedNodes[p]
      BY <2>2, <1>1 DEF ToSet
    <3>2. (l - p) + 1 \in 1 .. l /\ r[(l - p) + 1] = sortedNodes[p]
      BY <1>2, <1>4
    <3> QED
      BY <3>1, <3>2, <1>5 DEF ToSet
  <2> QED
    BY <2>1, <2>2
<1>8. ASSUME NEW p \in 1 .. l, NEW q \in 1 .. l, p < q
      PROVE  \E i, j \in 1 .. l : i < j /\ r[i] = sortedNodes[q] /\ r[j] = sortedNodes[p]
  <2>1. (l - q) + 1 < (l - p) + 1
    BY <1>1, <1>8
  <2>2. r[(l - q) + 1] = sortedNodes[q] /\ r[(l - p) + 1] = sortedNodes[p]
    BY <1>2, <1>4
  <2> QED
    BY <2>1, <2>2, <1>2
<1> QED
  BY <1>5, <1>6, <1>7, <1>8 DEF l, r, P

-----------------------------------------------------------------------------
\* The lists are never written, so what follows from them alone stays.
LEMMA GraphSame ==
  ASSUME featureSteps' = featureSteps
  PROVE  /\ Nodes' = Nodes
         /\ Graph' = Graph
         /\ Contradictory' = Contradictory
<1>1. \A b : SourceFeatures(b)' = SourceFeatures(b)
  BY DEF SourceFeatures
<1>2. Nodes' = Nodes
  BY <1>1 DEF Nodes
<1>3. \A n : Neighbours(n)' = Neighbours(n)
  BY <1>1, <1>2 DEF Neighbours, Edge
<1>5. Graph' = Graph
  BY <1>2, <1>3 DEF Graph
<1>4. Contradictory' = Contradictory
  <2> DEFINE Before(b, n, m) == \E i \in 2 .. Len(SourceFeatures(b)) :
                                  SourceFeatures(b)[i - 1] = n /\ SourceFeatures(b)[i] = m
  <2>1. \A b, n, m : Before(b, n, m)' = Before(b, n, m)
    BY <1>1
  <2>2. Contradictory = \E S \in (SUBSET Nodes) \ {{}} : \A n \in S : \E m \in S :
                          \E b \in Biomes : Before(b, n, m)
    BY DEF Contradictory
  <2>3. Contradictory' = \E S \in (SUBSET Nodes') \ {{}} : \A n \in S : \E m \in S :
                          \E b \in Biomes : Before(b, n, m)'
    BY DEF Contradictory
  <2> HIDE DEF Before
  <2> QED
    BY <1>2, <2>1, <2>2, <2>3
<1> QED
  BY <1>2, <1>4, <1>5

\* The calls below a call of visit(n): as OpenCalls, with n inside the last.
Calls == Seq([node : Nodes, rest : SUBSET Nodes])
Following(calls, n, i) == IF i < Len(calls) THEN calls[i + 1].node ELSE n
Path(calls, n) ==
  /\ \A i \in 1 .. Len(calls) :
       /\ calls[i].node \notin visited
       /\ calls[i].rest \subseteq Graph[calls[i].node]
       /\ \A m \in Graph[calls[i].node] \ calls[i].rest :
            m \in visited \/ m = Following(calls, n, i)
       /\ Following(calls, n, i) \in Graph[calls[i].node]
  /\ \A i, j \in 1 .. Len(calls) : calls[i].node = calls[j].node => i = j

\* Of a call.
LEMMA CallsType ==
  ASSUME NEW calls \in Calls
  PROVE  /\ DOMAIN calls = 1 .. Len(calls) /\ Len(calls) \in Nat
         /\ \A i \in 1 .. Len(calls) : calls[i].node \in Nodes /\ calls[i].rest \subseteq Nodes
<1>1. calls \in Seq([node : Nodes, rest : SUBSET Nodes])
  BY DEF Calls
<1>2. /\ DOMAIN calls = 1 .. Len(calls) /\ Len(calls) \in Nat
      /\ \A i \in 1 .. Len(calls) : calls[i] \in [node : Nodes, rest : SUBSET Nodes]
  BY <1>1, LenProperties
<1> QED
  BY <1>2

\* A call of a node that is finished returns at once.
LEMMA VisitFinished ==
  ASSUME NEW calls \in Calls, NEW n, Path(calls, n), n \in visited,
         stack' = calls, visited' = visited, featureSteps' = featureSteps
  PROVE  OpenCalls'
<1>1. Len(calls) \in Nat
  BY CallsType
<1>2. ASSUME NEW i \in 1 .. Len(calls)
      PROVE  /\ calls[i].node \notin visited
             /\ calls[i].rest \subseteq Graph[calls[i].node]
             /\ \A m \in Graph[calls[i].node] \ calls[i].rest :
                  m \in visited \/ (i < Len(calls) /\ m = calls[i + 1].node)
             /\ i < Len(calls) => calls[i + 1].node \in Graph[calls[i].node]
  BY DEF Path, Following
<1>3. \A i, j \in 1 .. Len(calls) : calls[i].node = calls[j].node => i = j
  BY DEF Path
<1> QED
  BY <1>2, <1>3, GraphSame DEF OpenCalls

\* A call of a node that nobody has come to opens.
LEMMA VisitOpens ==
  ASSUME NEW calls \in Calls, NEW n \in Nodes, Path(calls, n), n \notin visited,
         \A i \in 1 .. Len(calls) : calls[i].node # n,
         stack' = Append(calls, [node |-> n, rest |-> Neighbours(n)]),
         visited' = visited, featureSteps' = featureSteps
  PROVE  /\ OpenCalls'
         /\ stack' \in Calls
         /\ {calls[i].node : i \in 1 .. Len(calls)} \cup {n} \subseteq Visiting'
<1> DEFINE c == [node |-> n, rest |-> Neighbours(n)]
           t == Append(calls, c)
           l == Len(calls)
<1>1. l \in Nat
  BY CallsType
<1>2. c \in [node : Nodes, rest : SUBSET Nodes] /\ c.node = n /\ c.rest = Graph[n]
  BY DEF Neighbours, Graph
<1> HIDE DEF c
<1>3. /\ t \in Calls
      /\ Len(t) = l + 1
      /\ \A i \in 1 .. l : t[i] = calls[i]
      /\ t[l + 1] = c
  BY <1>2, AppendProperties DEF Calls
<1>4. stack' = t
  BY DEF c
<1> HIDE DEF t
<1>5. \A i \in 1 .. l + 1 : i \in 1 .. l \/ i = l + 1
  BY <1>1
<1>6. \A i \in 1 .. l : i + 1 \in 1 .. l + 1 /\ (i < l => i + 1 \in 1 .. l) /\ i < l + 1 /\ (~ (i < l) => i = l)
  BY <1>1
<1>7. \A i \in 1 .. l : t[i + 1].node = Following(calls, n, i)
  BY <1>2, <1>3, <1>6 DEF Following
<1>8. ASSUME NEW i \in 1 .. Len(t)
      PROVE  /\ t[i].node \notin visited
             /\ t[i].rest \subseteq Graph[t[i].node]
             /\ \A m \in Graph[t[i].node] \ t[i].rest :
                  m \in visited \/ (i < Len(t) /\ m = t[i + 1].node)
             /\ i < Len(t) => t[i + 1].node \in Graph[t[i].node]
  <2>1. CASE i \in 1 .. l
    BY <2>1, <1>3, <1>6, <1>7 DEF Path
  <2>2. CASE i = l + 1
    BY <2>2, <1>1, <1>2, <1>3
  <2> QED
    BY <2>1, <2>2, <1>3, <1>5
<1>9. \A i, j \in 1 .. Len(t) : t[i].node = t[j].node => i = j
  BY <1>2, <1>3, <1>5 DEF Path
<1>10. OpenCalls'
  BY <1>4, <1>8, <1>9, GraphSame DEF OpenCalls
<1>11. DOMAIN t = 1 .. l + 1 /\ l + 1 \in 1 .. l + 1
  BY <1>1, <1>3, CallsType
<1>12. {calls[i].node : i \in 1 .. l} \cup {n} \subseteq {t[i].node : i \in DOMAIN t}
  <2>1. n \in {t[i].node : i \in DOMAIN t}
    BY <1>2, <1>3, <1>11
  <2>2. ASSUME NEW i \in 1 .. l PROVE calls[i].node \in {t[j].node : j \in DOMAIN t}
    BY <1>3, <1>6, <1>11
  <2> QED
    BY <2>1, <2>2
<1>13. Visiting' = {t[i].node : i \in DOMAIN t}
  BY <1>4 DEF Visiting
<1> QED
  BY <1>3, <1>4, <1>10, <1>12, <1>13

\* A call of a node that is open has found a circle: the calls from there on.
LEMMA VisitFindsCircle ==
  ASSUME NEW calls \in Calls, NEW n, Path(calls, n),
         NEW k \in 1 .. Len(calls), calls[k].node = n
  PROVE  Contradictory
<1> DEFINE l == Len(calls)
           S == {calls[i].node : i \in k .. l}
<1>1. l \in Nat /\ \A i \in k .. l : i \in 1 .. l /\ calls[i].node \in Nodes
  BY CallsType
<1>2. S \in (SUBSET Nodes) \ {{}}
  <2>1. k \in k .. l
    BY <1>1
  <2>2. calls[k].node \in S
    BY <2>1
  <2>3. S \subseteq Nodes
    BY <1>1
  <2> HIDE DEF S
  <2> QED
    BY <2>2, <2>3
<1>3. ASSUME NEW i \in k .. l
      PROVE  Following(calls, n, i) \in S /\ Edge(calls[i].node, Following(calls, n, i))
  <2>1. Following(calls, n, i) \in Graph[calls[i].node]
    BY <1>1 DEF Path
  <2>2. i < l => i + 1 \in k .. l
    BY <1>1
  <2>3. k \in k .. l
    BY <1>1
  <2> QED
    BY <1>1, <2>1, <2>2, <2>3 DEF Following, Neighbours, Graph
<1>4. ASSUME NEW x, NEW y, Edge(x, y)
      PROVE  \E b \in Biomes : \E i \in 2 .. Len(SourceFeatures(b)) :
               SourceFeatures(b)[i - 1] = x /\ SourceFeatures(b)[i] = y
  <2>1. PICK b \in Biomes : \E i \in 1 .. Len(SourceFeatures(b)) - 1 :
          SourceFeatures(b)[i] = x /\ SourceFeatures(b)[i + 1] = y
    BY <1>4 DEF Edge
  <2>2. PICK i \in 1 .. Len(SourceFeatures(b)) - 1 :
          SourceFeatures(b)[i] = x /\ SourceFeatures(b)[i + 1] = y
    BY <2>1
  <2>3. i + 1 \in 2 .. Len(SourceFeatures(b)) /\ (i + 1) - 1 = i
    OBVIOUS
  <2> QED
    BY <2>2, <2>3
<1> HIDE DEF l
<1>5. \A x \in S : \E y \in S : \E b \in Biomes : \E i \in 2 .. Len(SourceFeatures(b)) :
        SourceFeatures(b)[i - 1] = x /\ SourceFeatures(b)[i] = y
  <2> SUFFICES ASSUME NEW x \in S
               PROVE  \E y \in S : \E b \in Biomes : \E i \in 2 .. Len(SourceFeatures(b)) :
                        SourceFeatures(b)[i - 1] = x /\ SourceFeatures(b)[i] = y
    OBVIOUS
  <2>1. PICK i \in k .. l : x = calls[i].node
    OBVIOUS
  <2> DEFINE y == Following(calls, n, i)
  <2>2. y \in S /\ Edge(x, y)
    BY <1>3, <2>1
  <2> HIDE DEF S, y
  <2> QED
    BY <1>4, <2>2
<1> HIDE DEF S
<1> QED
  BY <1>2, <1>5 DEF Contradictory

-----------------------------------------------------------------------------
\* What a step needs of the invariant: the search is on, with its lists typed.
LEMMA SearchIsOn ==
  ASSUME IInv, orderStage = "sort"
  PROVE  /\ ListsType
         /\ stack \in Calls
         /\ OpenCalls
         /\ RootsLeft
         /\ roots \subseteq Nodes
         /\ visited \subseteq Nodes
         /\ sortedNodes \in Seq(Nodes)
         /\ ToSet(sortedNodes) = visited
         /\ IsInjective(sortedNodes)
BY DEF IInv, OrderTypeOK, ListsType, Calls

\* The invariant holds at first.
LEMMA InitHolds ==
  ASSUME OrderInit
  PROVE  IInv
<1>1. featureSteps \in [Biomes -> [Steps -> Seq(Names)]]
  BY RegistriesAssumption DEF OrderInit
<1>2. /\ <<>> \in Seq([node : Nodes, rest : SUBSET Nodes])
      /\ <<>> \in Seq(Nodes) /\ ToSet(<<>>) = {} /\ IsInjective(<<>>)
      /\ <<>> \in Seq(Names)
      /\ 1 .. Len(<<>>) = {}
  BY EmptySeq DEF ToSet, IsInjective
<1>3. OrderTypeOK
  BY <1>1, <1>2 DEF OrderInit, OrderTypeOK
<1>4. NeighboursFirst /\ OpenCalls
  BY <1>2 DEF OrderInit, NeighboursFirst, OpenCalls
<1>5. RootsLeft
  BY DEF OrderInit, RootsLeft
<1> QED
  BY <1>3, <1>4, <1>5 DEF IInv, OrderInit

\* A call of visit: by then n is a neighbour of the call it is made from, and no root.
LEMMA VisitKeeps ==
  ASSUME IInv, orderStage = "sort",
         NEW calls \in Calls, NEW n \in Nodes, Path(calls, n),
         {calls[i].node : i \in 1 .. Len(calls)} = Visiting,
         Visit(n, calls),
         roots \ {n} \subseteq roots', roots' \subseteq Nodes,
         UNCHANGED <<featureSteps, visited, sortedNodes, stepFeatures>>
  PROVE  IInv'
<1>1. /\ Nodes' = Nodes
      /\ Graph' = Graph
      /\ Contradictory' = Contradictory
      /\ visited' = visited
  BY GraphSame
<1>2. /\ ListsType
      /\ RootsLeft
      /\ visited \subseteq Nodes
  BY SearchIsOn
<1>3. NeighboursFirst'
  <2>1. NeighboursFirst
    BY DEF IInv
  <2>2. sortedNodes' = sortedNodes /\ Graph' = Graph
    BY <1>1
  <2> QED
    BY <2>1, <2>2 DEF NeighboursFirst
<1>4. ASSUME stack' \in Calls, orderStage' \in {"sort", "panic"} PROVE OrderTypeOK'
  BY <1>1, <1>4 DEF IInv, OrderTypeOK, Calls
<1>5. ASSUME OpenCalls', stack' \in Calls, orderStage' = "sort",
             Visiting \cup {n} \subseteq visited \cup Visiting'
      PROVE  IInv'
  <2>1. RootsLeft'
    BY <1>1, <1>2, <1>5 DEF RootsLeft
  <2> QED
    BY <1>3, <1>4, <1>5, <2>1 DEF IInv
<1>6. CASE n \in visited /\ stack' = calls /\ UNCHANGED orderStage
  <2>1. OpenCalls'
    BY <1>6, VisitFinished
  <2>2. Visiting' = Visiting
    BY <1>6, CallsType DEF Visiting
  <2> QED
    BY <1>5, <1>6, <2>1, <2>2
<1>7. CASE n \notin visited /\ n \in Visiting /\ stack' = calls /\ orderStage' = "panic"
  <2>1. PICK k \in 1 .. Len(calls) : calls[k].node = n
    BY <1>7
  <2>2. Contradictory
    BY <2>1, VisitFindsCircle
  <2>3. OrderTypeOK'
    BY <1>4, <1>7
  <2> QED
    BY <1>1, <1>3, <1>7, <2>2, <2>3 DEF IInv
<1>8. CASE /\ n \notin visited /\ n \notin Visiting
           /\ stack' = Append(calls, [node |-> n, rest |-> Neighbours(n)])
           /\ UNCHANGED orderStage
  <2>1. \A i \in 1 .. Len(calls) : calls[i].node # n
    BY <1>8
  <2>2. OpenCalls' /\ stack' \in Calls /\ Visiting \cup {n} \subseteq Visiting'
    BY <1>8, <2>1, VisitOpens
  <2> QED
    BY <1>5, <1>8, <2>2
<1> QED
  BY <1>6, <1>7, <1>8 DEF Visit

\* The outer loop visits its next node.
LEMMA VisitRootKeeps ==
  ASSUME IInv, VisitRoot
  PROVE  IInv'
<1> DEFINE n == Least(roots)
<1>1. /\ orderStage = "sort" /\ stack = <<>> /\ roots # {}
      /\ roots' = roots \ {n} /\ Visit(n, <<>>)
      /\ UNCHANGED <<featureSteps, visited, sortedNodes, stepFeatures>>
  BY DEF VisitRoot
<1>2. n \in roots /\ n \in Nodes
  BY <1>1, SearchIsOn, LeastExists
<1>3. /\ <<>> \in Calls
      /\ 1 .. Len(<<>>) = {}
      /\ DOMAIN <<>> = {}
  BY EmptySeq DEF Calls
<1> HIDE DEF n
<1>4. Path(<<>>, n)
  BY <1>3 DEF Path
<1>5. {<<>>[i].node : i \in 1 .. Len(<<>>)} = Visiting
  BY <1>1, <1>3 DEF Visiting
<1>6. roots \ {n} \subseteq roots' /\ roots' \subseteq Nodes
  BY <1>1, SearchIsOn
<1> DEFINE calls == <<>>
<1>7. calls \in Calls /\ Path(calls, n) /\ {calls[i].node : i \in 1 .. Len(calls)} = Visiting /\ Visit(n, calls)
  BY <1>1, <1>3, <1>4, <1>5
<1> HIDE DEF calls
<1> QED
  BY <1>1, <1>2, <1>6, <1>7, VisitKeeps

\* A call goes on to its next neighbour.
LEMMA VisitNeighbourKeeps ==
  ASSUME IInv, VisitNeighbour
  PROVE  IInv'
<1> DEFINE l == Len(stack)
           top == stack[l]
           n == Least(top.rest)
           c == [top EXCEPT !.rest = @ \ {n}]
           calls == [stack EXCEPT ![l] = c]
<1>1. /\ orderStage = "sort" /\ stack # <<>> /\ top.rest # {}
      /\ Visit(n, calls)
      /\ UNCHANGED <<featureSteps, roots, visited, sortedNodes, stepFeatures>>
  BY DEF VisitNeighbour, Last
<1>2. /\ ListsType /\ stack \in Calls /\ OpenCalls /\ roots \subseteq Nodes
      /\ stack \in Seq([node : Nodes, rest : SUBSET Nodes])
  BY <1>1, SearchIsOn DEF Calls
<1>3. l \in Nat \ {0} /\ l \in 1 .. l /\ DOMAIN stack = 1 .. l
  BY <1>1, <1>2, EmptySeq, CallsType
<1>4. top \in [node : Nodes, rest : SUBSET Nodes]
  <2> DEFINE Call == [node : Nodes, rest : SUBSET Nodes]
  <2>1. stack \in Seq(Call)
    BY <1>2
  <2> HIDE DEF Call
  <2>2. top \in Call
    BY <1>3, <2>1, LenProperties
  <2> QED
    BY <2>2 DEF Call
<1>5. n \in top.rest /\ n \in Nodes
  BY <1>1, <1>2, <1>4, LeastExists
<1>6. /\ c \in [node : Nodes, rest : SUBSET Nodes]
      /\ c.node = top.node
      /\ c.rest = top.rest \ {n}
  BY <1>4
<1> HIDE DEF c, n, l
<1>7. /\ calls \in Seq([node : Nodes, rest : SUBSET Nodes])
      /\ Len(calls) = l
      /\ calls[l] = c
      /\ \A i \in 1 .. l : i # l => calls[i] = stack[i]
  <2> DEFINE Call == [node : Nodes, rest : SUBSET Nodes]
  <2>1. stack \in Seq(Call) /\ l \in 1 .. Len(stack) /\ c \in Call /\ Len(stack) = l
    BY <1>2, <1>3, <1>6 DEF l
  <2> HIDE DEF Call
  <2>2. /\ calls \in Seq(Call)
        /\ Len(calls) = Len(stack)
        /\ calls[l] = c
        /\ \A i \in 1 .. Len(stack) : i # l => calls[i] = stack[i]
    BY <2>1, ElementReplaced
  <2> QED
    BY <2>1, <2>2 DEF Call
<1> HIDE DEF calls
<1>8. \A i \in 1 .. l : calls[i].node = stack[i].node
  BY <1>6, <1>7
<1>9. \A i \in 1 .. l : /\ i # l => i < l /\ i + 1 \in 1 .. l
                       /\ ~ (l < l)
  BY <1>3
<1>10. Path(calls, n)
  <2>1. ASSUME NEW i \in 1 .. l
        PROVE  /\ calls[i].node \notin visited
               /\ calls[i].rest \subseteq Graph[calls[i].node]
               /\ \A m \in Graph[calls[i].node] \ calls[i].rest :
                    m \in visited \/ m = Following(calls, n, i)
               /\ Following(calls, n, i) \in Graph[calls[i].node]
    <3>1. /\ stack[i].node \notin visited
          /\ stack[i].rest \subseteq Graph[stack[i].node]
          /\ \A m \in Graph[stack[i].node] \ stack[i].rest :
               m \in visited \/ (i < l /\ m = stack[i + 1].node)
          /\ i < l => stack[i + 1].node \in Graph[stack[i].node]
      BY <1>2 DEF OpenCalls, l
    <3>2. CASE i = l
      <4>1. Following(calls, n, i) = n /\ ~ (i < l)
        BY <3>2, <1>7, <1>9 DEF Following
      <4> QED
        BY <3>1, <3>2, <4>1, <1>5, <1>6, <1>7, <1>8
    <3>3. CASE i # l
      <4>1. Following(calls, n, i) = stack[i + 1].node /\ i < l
        BY <3>3, <1>7, <1>8, <1>9 DEF Following
      <4> QED
        BY <3>1, <3>3, <4>1, <1>7
    <3> QED
      BY <3>2, <3>3
  <2>2. \A i, j \in 1 .. l : calls[i].node = calls[j].node => i = j
    BY <1>2, <1>8 DEF OpenCalls, l
  <2> QED
    BY <2>1, <2>2, <1>7 DEF Path
<1>11. {calls[i].node : i \in 1 .. Len(calls)} = Visiting
  BY <1>3, <1>7, <1>8 DEF Visiting
<1>12. calls \in Calls
  BY <1>7 DEF Calls
<1>13. roots \ {n} \subseteq roots' /\ roots' \subseteq Nodes
  BY <1>1, <1>2
<1> QED
  BY <1>1, <1>5, <1>10, <1>11, <1>12, <1>13, VisitKeeps

\* A call ends: its neighbours are all finished, and now it is.
LEMMA LeaveKeeps ==
  ASSUME IInv, Leave
  PROVE  IInv'
<1> DEFINE l == Len(stack)
           top == stack[l]
           done == Append(sortedNodes, top.node)
           calls == Front(stack)
<1>1. /\ orderStage = "sort" /\ stack # <<>> /\ top.rest = {}
      /\ visited' = visited \cup {top.node}
      /\ sortedNodes' = done
      /\ stack' = calls
      /\ UNCHANGED <<featureSteps, roots, stepFeatures, orderStage>>
  BY DEF Leave, Last
<1>2. /\ stack \in Calls /\ OpenCalls /\ RootsLeft
      /\ roots \subseteq Nodes /\ visited \subseteq Nodes
      /\ sortedNodes \in Seq(Nodes) /\ ToSet(sortedNodes) = visited /\ IsInjective(sortedNodes)
  BY <1>1, SearchIsOn
<1>3. l \in Nat \ {0} /\ l \in 1 .. l /\ DOMAIN stack = 1 .. l
  <2>1. stack \in Seq([node : Nodes, rest : SUBSET Nodes])
    BY <1>2 DEF Calls
  <2> QED
    BY <1>1, <1>2, <2>1, EmptySeq, CallsType
<1>4. top.node \in Nodes /\ top.node \notin visited
  BY <1>2, <1>3, CallsType DEF OpenCalls
<1>5. Graph' = Graph /\ Nodes' = Nodes
  BY <1>1, GraphSame
<1>6. /\ done \in Seq(Nodes)
      /\ Len(done) = Len(sortedNodes) + 1
      /\ done[Len(sortedNodes) + 1] = top.node
      /\ IsInjective(done)
      /\ ToSet(done) = visited \cup {top.node}
      /\ \A p \in 1 .. Len(sortedNodes) : done[p] = sortedNodes[p]
  BY <1>2, <1>4, Appended, AppendProperties
<1>7. /\ calls \in Calls
      /\ Len(calls) = l - 1
      /\ \A i \in 1 .. l - 1 : calls[i] = stack[i]
  <2>1. stack \in Seq([node : Nodes, rest : SUBSET Nodes])
    BY <1>2 DEF Calls
  <2> QED
    BY <1>1, <2>1, TopPopped DEF Calls
<1>8. DOMAIN calls = 1 .. l - 1
  BY <1>7, CallsType
<1>9. Len(sortedNodes) \in Nat /\ DOMAIN sortedNodes = 1 .. Len(sortedNodes)
  BY <1>2, LenProperties
<1> HIDE DEF done, calls
<1>10. OrderTypeOK'
  <2>1. /\ visited' \subseteq Nodes'
        /\ ToSet(sortedNodes)' = visited'
        /\ sortedNodes' \in Seq(Nodes') /\ IsInjective(sortedNodes)'
        /\ stack' \in Seq([node : Nodes', rest : SUBSET Nodes'])
        /\ roots' \subseteq Nodes'
    <3>1. visited' \subseteq Nodes' /\ roots' \subseteq Nodes' /\ sortedNodes' \in Seq(Nodes')
      BY <1>1, <1>2, <1>4, <1>5, <1>6
    <3>2. ToSet(sortedNodes)' = visited'
      BY <1>1, <1>6 DEF ToSet
    <3>3. IsInjective(sortedNodes)'
      BY <1>1, <1>6 DEF IsInjective
    <3>4. stack' \in Seq([node : Nodes', rest : SUBSET Nodes'])
      BY <1>1, <1>5, <1>7 DEF Calls
    <3> QED
      BY <3>1, <3>2, <3>3, <3>4
  <2> QED
    BY <1>1, <2>1 DEF IInv, OrderTypeOK
<1>11. NeighboursFirst'
  <2> SUFFICES ASSUME NEW p \in 1 .. Len(sortedNodes) + 1, NEW m \in Graph[done[p]]
               PROVE  \E q \in 1 .. Len(sortedNodes) + 1 : q < p /\ done[q] = m
    BY <1>1, <1>5, <1>6 DEF NeighboursFirst
  <2>1. \A q \in 1 .. Len(sortedNodes) : q \in 1 .. Len(sortedNodes) + 1
    BY <1>9
  <2>2. CASE p \in 1 .. Len(sortedNodes)
    <3>1. PICK q \in 1 .. Len(sortedNodes) : q < p /\ sortedNodes[q] = m
      BY <2>2, <1>6 DEF IInv, NeighboursFirst
    <3> QED
      BY <3>1, <2>1, <1>6
  <2>3. CASE p = Len(sortedNodes) + 1
    <3>1. m \in Graph[top.node]
      BY <2>3, <1>6
    <3>2. m \in visited
      BY <3>1, <1>1, <1>2, <1>3 DEF OpenCalls
    <3>3. PICK q \in 1 .. Len(sortedNodes) : sortedNodes[q] = m
      BY <3>2, <1>2, <1>9 DEF ToSet
    <3>4. q < p
      BY <2>3, <1>9
    <3> QED
      BY <3>3, <3>4, <2>1, <1>6
  <2> QED
    BY <2>2, <2>3, <1>9
<1>12. OpenCalls'
  <2>1. ASSUME NEW i \in 1 .. l - 1
        PROVE  /\ calls[i].node \notin visited \cup {top.node}
               /\ calls[i].rest \subseteq Graph[calls[i].node]
               /\ \A m \in Graph[calls[i].node] \ calls[i].rest :
                    m \in visited \cup {top.node} \/ (i < l - 1 /\ m = calls[i + 1].node)
               /\ i < l - 1 => calls[i + 1].node \in Graph[calls[i].node]
    <3> HIDE DEF l
    <3>1. i \in 1 .. l /\ i # l /\ i < l /\ (i < l - 1 => i + 1 \in 1 .. l - 1) /\ (~ (i < l - 1) => i + 1 = l)
      BY <1>3
    <3>2. calls[i] = stack[i] /\ (i < l - 1 => calls[i + 1] = stack[i + 1])
      BY <1>7, <3>1
    <3>3. /\ stack[i].node \notin visited
          /\ stack[i].rest \subseteq Graph[stack[i].node]
          /\ \A m \in Graph[stack[i].node] \ stack[i].rest :
               m \in visited \/ (i < l /\ m = stack[i + 1].node)
          /\ i < l => stack[i + 1].node \in Graph[stack[i].node]
          /\ stack[i].node # top.node
      BY <1>2, <1>3, <3>1 DEF OpenCalls, l
    <3> QED
      BY <3>1, <3>2, <3>3
  <2>2. \A i, j \in 1 .. l - 1 : calls[i].node = calls[j].node => i = j
    <3>1. \A i \in 1 .. l - 1 : i \in 1 .. l
      BY <1>3
    <3> QED
      BY <3>1, <1>2, <1>7 DEF OpenCalls
  <2>3. /\ stack' = calls /\ visited' = visited \cup {top.node} /\ Graph' = Graph /\ Len(calls) = l - 1
    BY <1>1, <1>5, <1>7
  <2> HIDE DEF l, top
  <2> QED
    BY <2>1, <2>2, <2>3 DEF OpenCalls
<1>13. RootsLeft'
  <2>1. ASSUME NEW m \in Visiting PROVE m \in (visited \cup {top.node}) \cup {calls[i].node : i \in DOMAIN calls}
    <3>1. PICK i \in 1 .. l : m = stack[i].node
      BY <1>3 DEF Visiting
    <3> HIDE DEF l
    <3>2. i = l \/ i \in 1 .. l - 1
      BY <1>3
    <3> QED
      BY <3>1, <3>2, <1>7, <1>8
  <2> QED
    BY <2>1, <1>1, <1>2, <1>5 DEF RootsLeft, Visiting
<1> QED
  BY <1>1, <1>10, <1>11, <1>12, <1>13 DEF IInv

\* The lists of the steps are made.
LEMMA SplitKeeps ==
  ASSUME IInv, Split
  PROVE  IInv'
<1>1. /\ orderStage = "sort" /\ stack = <<>> /\ roots = {}
      /\ stepFeatures' = [s \in Steps |-> NamesOfStep(s)]
      /\ orderStage' = "done"
      /\ UNCHANGED <<featureSteps, roots, stack, visited, sortedNodes>>
  BY DEF Split
<1>2. Nodes' = Nodes /\ Graph' = Graph
  BY <1>1, GraphSame
<1>3. ListsType /\ RootsLeft /\ visited \subseteq Nodes /\ sortedNodes \in Seq(Nodes) /\ IsInjective(sortedNodes)
  BY <1>1, SearchIsOn
<1>4. visited = Nodes
  <2>1. Visiting = {}
    BY <1>1 DEF Visiting
  <2> QED
    BY <2>1, <1>1, <1>3 DEF RootsLeft
<1>5. \A s \in Steps : NamesOfStep(s) \in Seq(Names)
  BY <1>3, ReversedNodes, NamesInOrder DEF NamesOfStep
<1>6. \A s : NamesOfStep(s)' = NamesOfStep(s)
  BY <1>1 DEF NamesOfStep
<1>7. OrderTypeOK'
  <2>1. stepFeatures' \in [Steps -> Seq(Names)]
    BY <1>1, <1>5
  <2> QED
    BY <1>1, <1>2, <2>1 DEF IInv, OrderTypeOK
<1>8. NeighboursFirst'
  BY <1>1, <1>2 DEF IInv, NeighboursFirst
<1> QED
  BY <1>1, <1>2, <1>4, <1>6, <1>7, <1>8 DEF IInv

\* Nothing moves.
LEMMA StutterKeeps ==
  ASSUME IInv, UNCHANGED orderVars
  PROVE  IInv'
<1>1. /\ UNCHANGED <<featureSteps, roots, stack, visited, sortedNodes, stepFeatures, orderStage>>
      /\ Nodes' = Nodes /\ Graph' = Graph /\ Contradictory' = Contradictory
  BY GraphSame DEF orderVars
<1>2. \A s : NamesOfStep(s)' = NamesOfStep(s)
  BY <1>1 DEF NamesOfStep
<1>3. Visiting' = Visiting
  BY <1>1 DEF Visiting
<1>4. OrderTypeOK'
  BY <1>1 DEF IInv, OrderTypeOK
<1>5. NeighboursFirst' /\ (OpenCalls => OpenCalls') /\ (RootsLeft => RootsLeft')
  BY <1>1, <1>3 DEF IInv, NeighboursFirst, OpenCalls, RootsLeft
<1> QED
  BY <1>1, <1>2, <1>4, <1>5 DEF IInv

\* The invariant holds in every state of the sort, for all lists that biomes may
\* have.
THEOREM IInvAlways == OrderSpec => []IInv
<1>1. OrderInit => IInv
  BY InitHolds
<1>2. IInv /\ [OrderNext]_orderVars => IInv'
  BY VisitRootKeeps, VisitNeighbourKeeps, LeaveKeeps, SplitKeeps, StutterKeeps
     DEF OrderNext, OrderBuilt
<1> QED
  BY <1>1, <1>2, PTL DEF OrderSpec

\* The state of the sort is typed and no node is sorted twice.
THEOREM OrderTypeCorrect == OrderSpec => []OrderTypeOK
<1>1. IInv => OrderTypeOK
  BY DEF IInv
<1> QED
  BY <1>1, IInvAlways, PTL

-----------------------------------------------------------------------------
\* What a biome lists later was finished earlier.
LEMMA LaterFinishedFirst ==
  ASSUME IInv, orderStage = "done", NEW b \in Biomes,
         NEW p \in 1 .. Len(SourceFeatures(b)), NEW q \in 1 .. Len(SourceFeatures(b)), p < q,
         NEW x \in 1 .. Len(sortedNodes), NEW y \in 1 .. Len(sortedNodes),
         sortedNodes[x] = SourceFeatures(b)[p], sortedNodes[y] = SourceFeatures(b)[q]
  PROVE  y < x
<1> DEFINE src == SourceFeatures(b)
           l == Len(src)
           k == Len(sortedNodes)
           D == {d \in Nat : \A i \in 1 .. l, u, v \in 1 .. k :
                   i + d + 1 \in 1 .. l /\ sortedNodes[u] = src[i] /\ sortedNodes[v] = src[i + d + 1]
                     => v < u}
<1>1. /\ ListsType /\ visited = Nodes /\ ToSet(sortedNodes) = visited
      /\ sortedNodes \in Seq(Nodes) /\ IsInjective(sortedNodes) /\ NeighboursFirst
  BY DEF IInv, OrderTypeOK, ListsType
<1>2. src \in Seq(Steps \X Names) /\ DOMAIN src = 1 .. l /\ l \in Nat
  BY <1>1, SourceProperties, LenProperties
<1>3. k \in Nat /\ DOMAIN sortedNodes = 1 .. k
  BY <1>1, LenProperties
<1>4. \A i \in 1 .. l : src[i] \in Nodes
  BY <1>2 DEF Nodes, ToSet
<1>5. \A i \in 1 .. l : \E v \in 1 .. k : sortedNodes[v] = src[i]
  BY <1>1, <1>3, <1>4 DEF ToSet
<1>6. ASSUME NEW i \in 1 .. l, i + 1 \in 1 .. l, NEW u \in 1 .. k, NEW v \in 1 .. k,
             sortedNodes[u] = src[i], sortedNodes[v] = src[i + 1]
      PROVE  v < u
  <2>1. i \in 1 .. l - 1
    BY <1>2, <1>6
  <2>2. Edge(src[i], src[i + 1])
    BY <2>1 DEF Edge
  <2>3. src[i + 1] \in Graph[sortedNodes[u]]
    BY <2>2, <1>4, <1>6 DEF Graph, Neighbours
  <2>4. PICK z \in 1 .. k : z < u /\ sortedNodes[z] = src[i + 1]
    BY <2>3, <1>1 DEF NeighboursFirst
  <2>5. z = v
    BY <2>4, <1>1, <1>3, <1>6 DEF IsInjective
  <2> QED
    BY <2>4, <2>5
<1> HIDE DEF src, l, k
<1>7. 0 \in D
  BY <1>2, <1>6
<1>8. ASSUME NEW d \in Nat, d \in D PROVE d + 1 \in D
  <2> SUFFICES ASSUME NEW i \in 1 .. l, NEW u \in 1 .. k, NEW v \in 1 .. k,
                      i + (d + 1) + 1 \in 1 .. l,
                      sortedNodes[u] = src[i], sortedNodes[v] = src[i + (d + 1) + 1]
               PROVE  v < u
    OBVIOUS
  <2>1. /\ i + d + 1 \in 1 .. l
        /\ (i + d + 1) + 1 = i + (d + 1) + 1
    BY <1>2
  <2>2. PICK z \in 1 .. k : sortedNodes[z] = src[i + d + 1]
    BY <2>1, <1>5
  <2>3. z < u
    BY <2>1, <2>2, <1>8
  <2>4. v < z
    BY <2>1, <2>2, <1>6
  <2> QED
    BY <2>3, <2>4, <1>3
<1> HIDE DEF D
<1>9. Nat \subseteq D
  BY <1>7, <1>8, Induction
<1>10. (q - p) - 1 \in D /\ p + ((q - p) - 1) + 1 = q
  <2>1. p \in Nat /\ q \in Nat /\ p < q
    BY <1>2 DEF l, src
  <2>2. (q - p) - 1 \in Nat /\ p + ((q - p) - 1) + 1 = q
    BY <2>1
  <2> QED
    BY <2>2, <1>9
<1>11. \A i \in 1 .. l, u, v \in 1 .. k :
         i + ((q - p) - 1) + 1 \in 1 .. l /\ sortedNodes[u] = src[i] /\ sortedNodes[v] = src[i + ((q - p) - 1) + 1]
           => v < u
  BY <1>10 DEF D
<1>12. p \in 1 .. l /\ q \in 1 .. l /\ x \in 1 .. k /\ y \in 1 .. k
       /\ sortedNodes[x] = src[p] /\ sortedNodes[y] = src[q]
  BY DEF l, k, src
<1> QED
  BY <1>10, <1>11, <1>12

\* A step's list has what some biome lists, each once, and in the order of each biome.
LEMMA ListOfStep ==
  ASSUME IInv, orderStage = "done", NEW s \in Steps
  PROVE  /\ stepFeatures[s] \in Seq(Names)
         /\ IsInjective(stepFeatures[s])
         /\ \A b \in Biomes : ToSet(featureSteps[b][s]) \subseteq ToSet(stepFeatures[s])
         /\ \A b \in Biomes : \A k, l \in 1 .. Len(featureSteps[b][s]) : k < l =>
              \E i, j \in 1 .. Len(stepFeatures[s]) :
                /\ i < j
                /\ stepFeatures[s][i] = featureSteps[b][s][k]
                /\ stepFeatures[s][j] = featureSteps[b][s][l]
<1> DEFINE F == stepFeatures[s]
           r == Reverse(sortedNodes)
<1>1. /\ ListsType /\ visited = Nodes /\ ToSet(sortedNodes) = visited
      /\ sortedNodes \in Seq(Nodes) /\ IsInjective(sortedNodes)
  BY DEF IInv, OrderTypeOK, ListsType
<1>2. F = NamesIn(r, s)
  BY DEF IInv, NamesOfStep
<1>3. r \in Seq(Steps \X Names) /\ IsInjective(r) /\ ToSet(r) = Nodes
  BY <1>1, ReversedNodes
<1> HIDE DEF F, r
<1>4. /\ F \in Seq(Names)
      /\ IsInjective(F)
      /\ ToSet(F) = {f \in Names : <<s, f>> \in Nodes}
      /\ \A i, j \in 1 .. Len(r) : r[i][1] = s /\ r[j][1] = s /\ i < j =>
           \E p, q \in 1 .. Len(F) : p < q /\ F[p] = r[i][2] /\ F[q] = r[j][2]
  BY <1>2, <1>3, NamesInOrder, SMTT(30)
<1>5. ASSUME NEW b \in Biomes, NEW f \in ToSet(featureSteps[b][s]) PROVE f \in ToSet(F)
  <2>1. f \in Names
    BY <1>1, LenProperties DEF ListsType, ToSet
  <2> QED
    BY <2>1, <1>1, <1>4, NodeListed
<1>6. ASSUME NEW b \in Biomes, NEW k \in 1 .. Len(featureSteps[b][s]),
             NEW l \in 1 .. Len(featureSteps[b][s]), k < l
      PROVE  \E i, j \in 1 .. Len(F) :
               i < j /\ F[i] = featureSteps[b][s][k] /\ F[j] = featureSteps[b][s][l]
  <2> DEFINE n == <<s, featureSteps[b][s][k]>>
             m == <<s, featureSteps[b][s][l]>>
  <2>0. n[1] = s /\ m[1] = s /\ n[2] = featureSteps[b][s][k] /\ m[2] = featureSteps[b][s][l]
    OBVIOUS
  <2> HIDE DEF n, m
  <2>1. PICK p, q \in 1 .. Len(SourceFeatures(b)) :
          p < q /\ SourceFeatures(b)[p] = n /\ SourceFeatures(b)[q] = m
    BY <1>1, <1>6, ListInSource DEF n, m
  <2>2. n \in Nodes /\ m \in Nodes
    <3>1. DOMAIN SourceFeatures(b) = 1 .. Len(SourceFeatures(b))
      BY <1>1, SourceProperties, LenProperties
    <3> QED
      BY <2>1, <3>1 DEF Nodes, ToSet
  <2>3. DOMAIN sortedNodes = 1 .. Len(sortedNodes)
    BY <1>1, LenProperties
  <2>4. PICK x \in 1 .. Len(sortedNodes) : sortedNodes[x] = n
    BY <2>2, <2>3, <1>1 DEF ToSet
  <2>5. PICK y \in 1 .. Len(sortedNodes) : sortedNodes[y] = m
    BY <2>2, <2>3, <1>1 DEF ToSet
  <2>6. y < x
    BY <2>1, <2>4, <2>5, LaterFinishedFirst
  <2>7. PICK i, j \in 1 .. Len(r) : i < j /\ r[i] = n /\ r[j] = m
    BY <2>4, <2>5, <2>6, <1>1, ReversedNodes DEF r
  <2>8. \E u, v \in 1 .. Len(F) : u < v /\ F[u] = n[2] /\ F[v] = m[2]
    BY <2>0, <2>7, <1>4
  <2> QED
    BY <2>0, <2>8
<1>7. \A b \in Biomes : ToSet(featureSteps[b][s]) \subseteq ToSet(F)
  BY <1>5, Zenon
<1>8. \A b \in Biomes : \A k, l \in 1 .. Len(featureSteps[b][s]) : k < l =>
        \E i, j \in 1 .. Len(F) :
          /\ i < j
          /\ F[i] = featureSteps[b][s][k]
          /\ F[j] = featureSteps[b][s][l]
  BY <1>6, ZenonT(40)
<1>9. F \in Seq(Names) /\ IsInjective(F)
  BY <1>4, Zenon
<1> QED
  BY <1>7, <1>8, <1>9, Zenon DEF F

\* What a chunk runs of it.
LEMMA RunsWhatIsListed ==
  ASSUME IInv, orderStage = "done", NEW B \in SUBSET Biomes, NEW s \in Steps
  PROVE  RunsWhatBiomesList(B, s)
<1> DEFINE F == stepFeatures[s]
           run == FeatureIndexesForStep(B, s)
<1>1. /\ F \in Seq(Names) /\ IsInjective(F)
      /\ \A b \in Biomes : ToSet(featureSteps[b][s]) \subseteq ToSet(F)
      /\ \A b \in Biomes : \A k, l \in 1 .. Len(featureSteps[b][s]) : k < l =>
           \E i, j \in 1 .. Len(F) :
             /\ i < j
             /\ F[i] = featureSteps[b][s][k]
             /\ F[j] = featureSteps[b][s][l]
  BY ListOfStep, Zenon
<1>2. DOMAIN F = 1 .. Len(F) /\ Len(F) \in Nat
  BY <1>1, LenProperties
<1>3. \A b \in Biomes : DOMAIN featureSteps[b][s] = 1 .. Len(featureSteps[b][s])
  BY LenProperties DEF IInv, OrderTypeOK
<1>4. \A i, j \in 1 .. Len(F) : F[i] = F[j] => i = j
  BY <1>1, <1>2 DEF IsInjective
<1>5. ASSUME NEW b \in B
      PROVE  FeatureIndexes(b, s) = {i \in 1 .. Len(F) : F[i] \in ToSet(featureSteps[b][s])}
  <2>1. ASSUME NEW i \in 1 .. Len(F) PROVE \A j \in i + 1 .. Len(F) : F[j] # F[i]
    <3>1. \A j \in i + 1 .. Len(F) : j \in 1 .. Len(F) /\ j # i
      BY <1>2
    <3> QED
      BY <3>1, <1>4
  <2> QED
    BY <2>1, <1>2 DEF FeatureIndexes
<1> HIDE DEF F
<1>6. run = {i \in 1 .. Len(F) : \E b \in B : F[i] \in ToSet(featureSteps[b][s])}
  BY <1>5 DEF FeatureIndexesForStep
<1> HIDE DEF run
<1>7. \A i, j \in run : F[i] = F[j] => i = j
  BY <1>4, <1>6
<1>8. {F[i] : i \in run} = UNION {ToSet(featureSteps[b][s]) : b \in B}
  <2>1. ASSUME NEW i \in run PROVE F[i] \in UNION {ToSet(featureSteps[b][s]) : b \in B}
    BY <1>6
  <2>2. ASSUME NEW b \in B, NEW f \in ToSet(featureSteps[b][s]) PROVE \E i \in run : f = F[i]
    <3>1. f \in ToSet(F)
      BY <1>1
    <3>2. PICK i \in 1 .. Len(F) : f = F[i]
      BY <3>1, <1>2 DEF ToSet
    <3> QED
      BY <3>2, <1>6
  <2> QED
    BY <2>1, <2>2
<1>9. ASSUME NEW b \in B, NEW k \in DOMAIN featureSteps[b][s], NEW l \in DOMAIN featureSteps[b][s], k < l
      PROVE  \E i, j \in run : i < j /\ F[i] = featureSteps[b][s][k] /\ F[j] = featureSteps[b][s][l]
  <2>1. PICK i, j \in 1 .. Len(F) : i < j /\ F[i] = featureSteps[b][s][k] /\ F[j] = featureSteps[b][s][l]
    <3>1. k \in 1 .. Len(featureSteps[b][s]) /\ l \in 1 .. Len(featureSteps[b][s])
      BY <1>3
    <3> QED
      BY <3>1, <1>1, <1>9
  <2>2. F[i] \in ToSet(featureSteps[b][s]) /\ F[j] \in ToSet(featureSteps[b][s])
    BY <2>1 DEF ToSet
  <2> QED
    BY <2>1, <2>2, <1>6
<1> QED
  BY <1>7, <1>8, <1>9 DEF RunsWhatBiomesList, F, run

\* For any dimension and any lists: construction panics only over lists that
\* contradict each other, and otherwise every chunk, whichever biomes it has,
\* runs the features they list, each once and in the order of each of them.
THEOREM FeatureOrderAgrees == OrderSpec => []BiomesAgree
<1>1. IInv => BiomesAgree
  <2>1. IInv /\ orderStage = "panic" => Contradictory
    BY DEF IInv
  <2> QED
    BY <2>1, RunsWhatIsListed DEF BiomesAgree
<1> QED
  BY <1>1, IInvAlways, PTL
-----------------------------------------------------------------------------
\* The least and the greatest of a set are what they are called.
LEMMA LeastIs ==
  ASSUME NEW S, NEW x \in S, S \subseteq Int, \A y \in S : x <= y
  PROVE  Min(S) = x
<1>1. Min(S) \in S /\ \A y \in S : Min(S) <= y
  BY DEF Min
<1>2. Min(S) \in Int /\ x \in Int /\ Min(S) <= x /\ x <= Min(S)
  BY <1>1
<1> QED
  BY <1>2

LEMMA GreatestIs ==
  ASSUME NEW S, NEW x \in S, S \subseteq Int, \A y \in S : y <= x
  PROVE  Max(S) = x
<1>1. Max(S) \in S /\ \A y \in S : Max(S) >= y
  <2>1. \A y \in S : x >= y
    OBVIOUS
  <2> QED
    BY <2>1 DEF Max
<1>2. Max(S) \in Int /\ x \in Int /\ Max(S) <= x /\ x <= Max(S)
  BY <1>1
<1> QED
  BY <1>2

LEMMA OfTwo ==
  ASSUME NEW a \in Int, NEW b \in Int
  PROVE  /\ Min({a, b}) \in Int /\ Min({a, b}) = (IF a <= b THEN a ELSE b)
         /\ Max({a, b}) \in Int /\ Max({a, b}) = (IF a <= b THEN b ELSE a)
<1>1. CASE a <= b
  <2>1. Min({a, b}) = a /\ Max({a, b}) = b
    BY <1>1, LeastIs, GreatestIs
  <2> QED
    BY <1>1, <2>1
<1>2. CASE ~ (a <= b)
  <2>1. Min({a, b}) = b /\ Max({a, b}) = a
    BY <1>2, LeastIs, GreatestIs
  <2> QED
    BY <1>2, <2>1
<1> QED
  BY <1>1, <1>2

\* Of finitely many numbers one is the least and one the greatest.
LEMMA OneIsLeast ==
  ASSUME NEW n \in Nat \ {0}, NEW f \in [1 .. n -> Int]
  PROVE  \E i \in 1 .. n : \A j \in 1 .. n : f[i] <= f[j]
<1> DEFINE S == {k \in Nat : k \in 1 .. n => \E i \in 1 .. k : \A j \in 1 .. k : f[i] <= f[j]}
<1>1. 0 \in S
  OBVIOUS
<1>2. ASSUME NEW k \in Nat, k \in S PROVE k + 1 \in S
  <2> SUFFICES ASSUME k + 1 \in 1 .. n
               PROVE  \E i \in 1 .. k + 1 : \A j \in 1 .. k + 1 : f[i] <= f[j]
    OBVIOUS
  <2>1. CASE k = 0
    BY <2>1
  <2>2. CASE k # 0
    <3>1. PICK i \in 1 .. k : \A j \in 1 .. k : f[i] <= f[j]
      BY <1>2, <2>2
    <3>2. /\ i \in 1 .. n /\ i \in 1 .. k + 1 /\ k + 1 \in 1 .. k + 1
          /\ \A j \in 1 .. k + 1 : j \in 1 .. n /\ (j \in 1 .. k \/ j = k + 1)
      OBVIOUS
    <3>3. f[i] \in Int /\ f[k + 1] \in Int /\ \A j \in 1 .. k + 1 : f[j] \in Int
      BY <3>2
    <3>4. CASE f[i] <= f[k + 1]
      BY <3>1, <3>2, <3>4
    <3>5. CASE ~ (f[i] <= f[k + 1])
      <4>1. \A j \in 1 .. k + 1 : f[k + 1] <= f[j]
        BY <3>1, <3>2, <3>3, <3>5
      <4> QED
        BY <3>2, <4>1
    <3> QED
      BY <3>4, <3>5
  <2> QED
    BY <2>1, <2>2
<1> HIDE DEF S
<1>3. n \in S
  BY <1>1, <1>2, Induction
<1> QED
  BY <1>3 DEF S

LEMMA OneIsGreatest ==
  ASSUME NEW n \in Nat \ {0}, NEW f \in [1 .. n -> Int]
  PROVE  \E i \in 1 .. n : \A j \in 1 .. n : f[j] <= f[i]
<1> DEFINE g == [i \in 1 .. n |-> - f[i]]
<1>1. g \in [1 .. n -> Int] /\ \A i \in 1 .. n : g[i] = - f[i] /\ f[i] \in Int
  OBVIOUS
<1> HIDE DEF g
<1>2. PICK i \in 1 .. n : \A j \in 1 .. n : g[i] <= g[j]
  BY <1>1, OneIsLeast
<1>3. \A j \in 1 .. n : f[j] <= f[i]
  BY <1>1, <1>2
<1> QED
  BY <1>3

LEMMA LeastOfFew ==
  ASSUME NEW n \in Nat \ {0}, NEW f \in [1 .. n -> Int]
  PROVE  /\ \E i \in 1 .. n : Min({f[j] : j \in 1 .. n}) = f[i] /\ Max({f[j] : j \in 1 .. n}) \in Int
         /\ \E i \in 1 .. n : Max({f[j] : j \in 1 .. n}) = f[i]
         /\ \A j \in 1 .. n : Min({f[k] : k \in 1 .. n}) <= f[j] /\ f[j] <= Max({f[k] : k \in 1 .. n})
<1> DEFINE S == {f[j] : j \in 1 .. n}
<1>1. S \subseteq Int /\ \A j \in 1 .. n : f[j] \in S
  OBVIOUS
<1>2. PICK i \in 1 .. n : \A j \in 1 .. n : f[i] <= f[j]
  BY OneIsLeast
<1>3. PICK k \in 1 .. n : \A j \in 1 .. n : f[j] <= f[k]
  BY OneIsGreatest
<1>4. \A y \in S : f[i] <= y /\ y <= f[k]
  BY <1>2, <1>3
<1> HIDE DEF S
<1>5. Min(S) = f[i] /\ Max(S) = f[k]
  BY <1>1, <1>4, LeastIs, GreatestIs
<1>6. f[k] \in Int
  OBVIOUS
<1> QED
  BY <1>2, <1>3, <1>5, <1>6 DEF S

-----------------------------------------------------------------------------
\* Boxes, and what is inside of them.
Boxes == [x0 : Int, z0 : Int, x1 : Int, z1 : Int, y0 : Int, y1 : Int]
Inside(b, a) ==
  /\ a.x0 <= b.x0 /\ b.x1 <= a.x1
  /\ a.y0 <= b.y0 /\ b.y1 <= a.y1
  /\ a.z0 <= b.z0 /\ b.z1 <= a.z1
\* The box goes no further than r chunks.
Near(b, r) == \A v \in {b.x0, b.x1, b.z0, b.z1} : v \in -16 * r .. 16 * r + 15

\* a is the box around all of b[1] to b[n].
BoxAround(n, b, a) ==
  /\ a \in Boxes
  /\ \A i \in 1 .. n : Inside(b[i], a)
  /\ \E i \in 1 .. n : a.x0 = b[i].x0
  /\ \E i \in 1 .. n : a.x1 = b[i].x1
  /\ \E i \in 1 .. n : a.z0 = b[i].z0
  /\ \E i \in 1 .. n : a.z1 = b[i].z1
  /\ \E i \in 1 .. n : a.y0 = b[i].y0
  /\ \E i \in 1 .. n : a.y1 = b[i].y1
LEMMA AroundHolds ==
  ASSUME NEW n \in Nat \ {0}, NEW b, \A i \in 1 .. n : b[i] \in Boxes,
         NEW B, \A i \in 1 .. n : b[i] \in B, \A c \in B : \E i \in 1 .. n : c = b[i],
         NEW a, a = Around(B)
  PROVE  BoxAround(n, b, a)
<1> DEFINE x0 == Min({c.x0 : c \in B})
           x1 == Max({c.x1 : c \in B})
           y0 == Min({c.y0 : c \in B})
           y1 == Max({c.y1 : c \in B})
           z0 == Min({c.z0 : c \in B})
           z1 == Max({c.z1 : c \in B})
<1>1. x0 \in Int /\ (\E i \in 1 .. n : x0 = b[i].x0) /\ \A j \in 1 .. n : x0 <= b[j].x0
  <2> DEFINE f == [i \in 1 .. n |-> b[i].x0]
  <2>1. f \in [1 .. n -> Int] /\ \A i \in 1 .. n : f[i] = b[i].x0
    BY DEF Boxes
  <2> HIDE DEF f
  <2>2. {c.x0 : c \in B} = {f[i] : i \in 1 .. n}
    <3>1. \A c \in B : \E i \in 1 .. n : c.x0 = f[i]
      BY <2>1
    <3>2. \A i \in 1 .. n : \E c \in B : f[i] = c.x0
      BY <2>1
    <3> QED
      BY <3>1, <3>2
  <2>3. /\ \E i \in 1 .. n : Min({f[k] : k \in 1 .. n}) = f[i]
        /\ \A j \in 1 .. n : Min({f[k] : k \in 1 .. n}) <= f[j]
    BY <2>1, LeastOfFew
  <2>4. (\E i \in 1 .. n : x0 = f[i]) /\ \A j \in 1 .. n : x0 <= f[j]
    BY <2>2, <2>3
  <2> HIDE DEF x0
  <2> QED
    BY <2>1, <2>4
<1>2. x1 \in Int /\ (\E i \in 1 .. n : x1 = b[i].x1) /\ \A j \in 1 .. n : b[j].x1 <= x1
  <2> DEFINE f == [i \in 1 .. n |-> b[i].x1]
  <2>1. f \in [1 .. n -> Int] /\ \A i \in 1 .. n : f[i] = b[i].x1
    BY DEF Boxes
  <2> HIDE DEF f
  <2>2. {c.x1 : c \in B} = {f[i] : i \in 1 .. n}
    <3>1. \A c \in B : \E i \in 1 .. n : c.x1 = f[i]
      BY <2>1
    <3>2. \A i \in 1 .. n : \E c \in B : f[i] = c.x1
      BY <2>1
    <3> QED
      BY <3>1, <3>2
  <2>3. /\ \E i \in 1 .. n : Max({f[k] : k \in 1 .. n}) = f[i]
        /\ \A j \in 1 .. n : f[j] <= Max({f[k] : k \in 1 .. n})
    BY <2>1, LeastOfFew
  <2>4. (\E i \in 1 .. n : x1 = f[i]) /\ \A j \in 1 .. n : f[j] <= x1
    BY <2>2, <2>3
  <2> HIDE DEF x1
  <2> QED
    BY <2>1, <2>4
<1>3. y0 \in Int /\ (\E i \in 1 .. n : y0 = b[i].y0) /\ \A j \in 1 .. n : y0 <= b[j].y0
  <2> DEFINE f == [i \in 1 .. n |-> b[i].y0]
  <2>1. f \in [1 .. n -> Int] /\ \A i \in 1 .. n : f[i] = b[i].y0
    BY DEF Boxes
  <2> HIDE DEF f
  <2>2. {c.y0 : c \in B} = {f[i] : i \in 1 .. n}
    <3>1. \A c \in B : \E i \in 1 .. n : c.y0 = f[i]
      BY <2>1
    <3>2. \A i \in 1 .. n : \E c \in B : f[i] = c.y0
      BY <2>1
    <3> QED
      BY <3>1, <3>2
  <2>3. /\ \E i \in 1 .. n : Min({f[k] : k \in 1 .. n}) = f[i]
        /\ \A j \in 1 .. n : Min({f[k] : k \in 1 .. n}) <= f[j]
    BY <2>1, LeastOfFew
  <2>4. (\E i \in 1 .. n : y0 = f[i]) /\ \A j \in 1 .. n : y0 <= f[j]
    BY <2>2, <2>3
  <2> HIDE DEF y0
  <2> QED
    BY <2>1, <2>4
<1>4. y1 \in Int /\ (\E i \in 1 .. n : y1 = b[i].y1) /\ \A j \in 1 .. n : b[j].y1 <= y1
  <2> DEFINE f == [i \in 1 .. n |-> b[i].y1]
  <2>1. f \in [1 .. n -> Int] /\ \A i \in 1 .. n : f[i] = b[i].y1
    BY DEF Boxes
  <2> HIDE DEF f
  <2>2. {c.y1 : c \in B} = {f[i] : i \in 1 .. n}
    <3>1. \A c \in B : \E i \in 1 .. n : c.y1 = f[i]
      BY <2>1
    <3>2. \A i \in 1 .. n : \E c \in B : f[i] = c.y1
      BY <2>1
    <3> QED
      BY <3>1, <3>2
  <2>3. /\ \E i \in 1 .. n : Max({f[k] : k \in 1 .. n}) = f[i]
        /\ \A j \in 1 .. n : f[j] <= Max({f[k] : k \in 1 .. n})
    BY <2>1, LeastOfFew
  <2>4. (\E i \in 1 .. n : y1 = f[i]) /\ \A j \in 1 .. n : f[j] <= y1
    BY <2>2, <2>3
  <2> HIDE DEF y1
  <2> QED
    BY <2>1, <2>4
<1>5. z0 \in Int /\ (\E i \in 1 .. n : z0 = b[i].z0) /\ \A j \in 1 .. n : z0 <= b[j].z0
  <2> DEFINE f == [i \in 1 .. n |-> b[i].z0]
  <2>1. f \in [1 .. n -> Int] /\ \A i \in 1 .. n : f[i] = b[i].z0
    BY DEF Boxes
  <2> HIDE DEF f
  <2>2. {c.z0 : c \in B} = {f[i] : i \in 1 .. n}
    <3>1. \A c \in B : \E i \in 1 .. n : c.z0 = f[i]
      BY <2>1
    <3>2. \A i \in 1 .. n : \E c \in B : f[i] = c.z0
      BY <2>1
    <3> QED
      BY <3>1, <3>2
  <2>3. /\ \E i \in 1 .. n : Min({f[k] : k \in 1 .. n}) = f[i]
        /\ \A j \in 1 .. n : Min({f[k] : k \in 1 .. n}) <= f[j]
    BY <2>1, LeastOfFew
  <2>4. (\E i \in 1 .. n : z0 = f[i]) /\ \A j \in 1 .. n : z0 <= f[j]
    BY <2>2, <2>3
  <2> HIDE DEF z0
  <2> QED
    BY <2>1, <2>4
<1>6. z1 \in Int /\ (\E i \in 1 .. n : z1 = b[i].z1) /\ \A j \in 1 .. n : b[j].z1 <= z1
  <2> DEFINE f == [i \in 1 .. n |-> b[i].z1]
  <2>1. f \in [1 .. n -> Int] /\ \A i \in 1 .. n : f[i] = b[i].z1
    BY DEF Boxes
  <2> HIDE DEF f
  <2>2. {c.z1 : c \in B} = {f[i] : i \in 1 .. n}
    <3>1. \A c \in B : \E i \in 1 .. n : c.z1 = f[i]
      BY <2>1
    <3>2. \A i \in 1 .. n : \E c \in B : f[i] = c.z1
      BY <2>1
    <3> QED
      BY <3>1, <3>2
  <2>3. /\ \E i \in 1 .. n : Max({f[k] : k \in 1 .. n}) = f[i]
        /\ \A j \in 1 .. n : f[j] <= Max({f[k] : k \in 1 .. n})
    BY <2>1, LeastOfFew
  <2>4. (\E i \in 1 .. n : z1 = f[i]) /\ \A j \in 1 .. n : f[j] <= z1
    BY <2>2, <2>3
  <2> HIDE DEF z1
  <2> QED
    BY <2>1, <2>4
<1>7. a = [x0 |-> x0, y0 |-> y0, z0 |-> z0, x1 |-> x1, y1 |-> y1, z1 |-> z1]
  BY DEF Around
<1> HIDE DEF x0, x1, y0, y1, z0, z1
<1>8. a.x0 = x0 /\ a.x1 = x1 /\ a.y0 = y0 /\ a.y1 = y1 /\ a.z0 = z0 /\ a.z1 = z1
  BY <1>7
<1>9. a \in Boxes
  BY <1>1, <1>2, <1>3, <1>4, <1>5, <1>6, <1>7 DEF Boxes
<1>10. \A i \in 1 .. n : Inside(b[i], a)
  BY <1>1, <1>2, <1>3, <1>4, <1>5, <1>6, <1>8 DEF Inside
<1> QED
  BY <1>1, <1>2, <1>3, <1>4, <1>5, <1>6, <1>8, <1>9, <1>10 DEF BoxAround

\* A box and one inside of it: together they are the one around.
LEMMA InsideAdds ==
  ASSUME NEW a \in Boxes, NEW b \in Boxes, Inside(b, a)
  PROVE  Union(a, b) = a
<1>1. /\ {c.x0 : c \in {a, b}} = {a.x0, b.x0} /\ {c.x1 : c \in {a, b}} = {a.x1, b.x1}
      /\ {c.y0 : c \in {a, b}} = {a.y0, b.y0} /\ {c.y1 : c \in {a, b}} = {a.y1, b.y1}
      /\ {c.z0 : c \in {a, b}} = {a.z0, b.z0} /\ {c.z1 : c \in {a, b}} = {a.z1, b.z1}
  OBVIOUS
<1>2. /\ a.x0 \in Int /\ a.x1 \in Int /\ a.y0 \in Int /\ a.y1 \in Int /\ a.z0 \in Int /\ a.z1 \in Int
      /\ b.x0 \in Int /\ b.x1 \in Int /\ b.y0 \in Int /\ b.y1 \in Int /\ b.z0 \in Int /\ b.z1 \in Int
  BY DEF Boxes
<1>3. /\ a.x0 <= b.x0 /\ b.x1 <= a.x1 /\ a.y0 <= b.y0 /\ b.y1 <= a.y1 /\ a.z0 <= b.z0 /\ b.z1 <= a.z1
  BY DEF Inside
<1>4. /\ Min({a.x0, b.x0}) = a.x0 /\ Min({a.y0, b.y0}) = a.y0 /\ Min({a.z0, b.z0}) = a.z0
      /\ Max({a.x1, b.x1}) = a.x1 /\ Max({a.y1, b.y1}) = a.y1 /\ Max({a.z1, b.z1}) = a.z1
  <2>1. \A v, w \in Int : v <= w => Min({v, w}) = v
    BY OfTwo
  <2>2. \A v, w \in Int : w <= v => Max({v, w}) = v
    BY OfTwo
  <2> QED
    BY <1>2, <1>3, <2>1, <2>2
<1>5. a = [x0 |-> a.x0, y0 |-> a.y0, z0 |-> a.z0, x1 |-> a.x1, y1 |-> a.y1, z1 |-> a.z1]
  BY DEF Boxes
<1> QED
  BY <1>1, <1>4, <1>5 DEF Union, Around
-----------------------------------------------------------------------------
\* What newTemplateStructurePiece makes, and what its callers change.
Rotations == 0 .. 3
Places == Int \X Int
Sizes == (Nat \ {0}) \X (Nat \ {0})
Templates ==
  {"top", "bottom", "middle", "ship", "ruin", "portal", "chest", "hut", "fossil", "city"}
TemplatePieces ==
  [what : Templates, origin : Places, y : Int, size : Sizes, h : Nat \ {0}, rotation : Rotations,
   mirror : {"none", "front_back"}, pivot : Places, useTemplateTransform : {TRUE}, legs : {{}}]

\* Where a position of a template goes whose x is e when it is mirrored.
Goes(p, q, e, z) ==
  \/ p.rotation = 0 /\ q[1] = p.origin[1] + e /\ q[2] = p.origin[2] + z
  \/ /\ p.rotation = 1
     /\ q[1] = p.origin[1] + p.pivot[1] + p.pivot[2] - z /\ q[2] = p.origin[2] + p.pivot[2] - p.pivot[1] + e
  \/ p.rotation = 2 /\ q[1] = p.origin[1] + 2 * p.pivot[1] - e /\ q[2] = p.origin[2] + 2 * p.pivot[2] - z
  \/ /\ p.rotation = 3
     /\ q[1] = p.origin[1] + p.pivot[1] - p.pivot[2] + z /\ q[2] = p.origin[2] + p.pivot[1] + p.pivot[2] - e
Mirrored(p, x, e) == (p.mirror = "none" /\ e = x) \/ (p.mirror = "front_back" /\ e + x = 0)

LEMMA Turned ==
  ASSUME NEW p \in TemplatePieces, NEW x \in Int, NEW z \in Int
  PROVE  \E e \in Int : Mirrored(p, x, e) /\ Goes(p, WorldPos(p, <<x, z>>), e, z)
<1>1. /\ p.useTemplateTransform = TRUE /\ p.mirror \in {"none", "front_back"} /\ p.rotation \in Rotations
      /\ p.origin[1] \in Int /\ p.origin[2] \in Int /\ p.pivot[1] \in Int /\ p.pivot[2] \in Int
  BY DEF TemplatePieces, Places
<1>2. PICK e \in Int : Mirrored(p, x, e) /\ MirroredPos(<<x, z>>, p.mirror) = <<e, z>>
  <2>1. CASE p.mirror = "none"
    BY <2>1 DEF MirroredPos, Mirrored
  <2>2. CASE p.mirror = "front_back"
    <3> DEFINE e == -x
    <3>1. e \in Int /\ e + x = 0
      OBVIOUS
    <3>2. MirroredPos(<<x, z>>, p.mirror) = <<e, z>>
      BY <2>2 DEF MirroredPos
    <3> HIDE DEF e
    <3> QED
      BY <2>2, <3>1, <3>2 DEF Mirrored
  <2> QED
    BY <1>1, <2>1, <2>2
<1> DEFINE q == WorldPos(p, <<x, z>>)
<1>3. q = Plus(p.origin, AroundPivot(<<e, z>>, p.rotation, p.pivot))
  BY <1>1, <1>2 DEF WorldPos
<1> HIDE DEF q
<1>4. Goes(p, q, e, z)
  BY <1>1, <1>3 DEF Goes, Plus, AroundPivot, Rotations
<1> QED
  BY <1>2, <1>4 DEF q

\* The box around a template of which x goes from lo to hi when it is mirrored.
Spans(p, b, lo, hi) ==
  LET l == p.size[2] - 1
  IN  \/ /\ p.rotation = 0
         /\ b.x0 = p.origin[1] + lo /\ b.x1 = p.origin[1] + hi
         /\ b.z0 = p.origin[2] /\ b.z1 = p.origin[2] + l
      \/ /\ p.rotation = 1
         /\ b.x0 = p.origin[1] + p.pivot[1] + p.pivot[2] - l /\ b.x1 = p.origin[1] + p.pivot[1] + p.pivot[2]
         /\ b.z0 = p.origin[2] + p.pivot[2] - p.pivot[1] + lo /\ b.z1 = p.origin[2] + p.pivot[2] - p.pivot[1] + hi
      \/ /\ p.rotation = 2
         /\ b.x0 = p.origin[1] + 2 * p.pivot[1] - hi /\ b.x1 = p.origin[1] + 2 * p.pivot[1] - lo
         /\ b.z0 = p.origin[2] + 2 * p.pivot[2] - l /\ b.z1 = p.origin[2] + 2 * p.pivot[2]
      \/ /\ p.rotation = 3
         /\ b.x0 = p.origin[1] + p.pivot[1] - p.pivot[2] /\ b.x1 = p.origin[1] + p.pivot[1] - p.pivot[2] + l
         /\ b.z0 = p.origin[2] + p.pivot[1] + p.pivot[2] - hi /\ b.z1 = p.origin[2] + p.pivot[1] + p.pivot[2] - lo
Width(p, lo, hi) ==
  \/ p.mirror = "none" /\ lo = 0 /\ hi = p.size[1] - 1
  \/ p.mirror = "front_back" /\ lo = 0 - (p.size[1] - 1) /\ hi = 0

LEMMA TurnedBox ==
  ASSUME NEW p \in TemplatePieces
  PROVE  \E lo, hi \in Int : lo <= hi /\ Width(p, lo, hi) /\ Spans(p, WorldBox(p), lo, hi)
<1> DEFINE b == WorldBox(p)
           w == p.size[1] - 1
           l == p.size[2] - 1
           first == WorldPos(p, <<0, 0>>)
           last == WorldPos(p, <<w, l>>)
<1>1. /\ p.mirror \in {"none", "front_back"} /\ p.rotation \in Rotations
      /\ p.origin[1] \in Int /\ p.origin[2] \in Int /\ p.pivot[1] \in Int /\ p.pivot[2] \in Int
      /\ w \in Int /\ w >= 0 /\ l \in Int /\ l >= 0
  BY DEF TemplatePieces, Places, Sizes
<1>2. /\ b.x0 = Min({first[1], last[1]}) /\ b.x1 = Max({first[1], last[1]})
      /\ b.z0 = Min({first[2], last[2]}) /\ b.z1 = Max({first[2], last[2]})
  BY DEF WorldBox
<1>3. PICK e \in Int : Mirrored(p, 0, e) /\ Goes(p, first, e, 0)
  BY Turned
<1>4. PICK f \in Int : Mirrored(p, w, f) /\ Goes(p, last, f, l)
  BY <1>1, Turned
<1>5. w = p.size[1] - 1 /\ l = p.size[2] - 1
  OBVIOUS
<1> HIDE DEF first, last, w, l, b
<1>6. e = 0
  BY <1>1, <1>3 DEF Mirrored
<1>7. PICK lo \in Int, hi \in Int : lo <= hi /\ Width(p, lo, hi) /\ ((f = hi /\ lo = 0) \/ (f = lo /\ hi = 0))
  <2>1. CASE p.mirror = "none"
    BY <2>1, <1>1, <1>4, <1>5 DEF Mirrored, Width
  <2>2. CASE p.mirror = "front_back"
    <3>1. f = 0 - w /\ 0 - w <= 0
      BY <2>2, <1>1, <1>4 DEF Mirrored
    <3> QED
      BY <2>2, <3>1, <1>5 DEF Width
  <2> QED
    BY <1>1, <2>1, <2>2
<1>8. /\ first[1] \in Int /\ first[2] \in Int /\ last[1] \in Int /\ last[2] \in Int
  BY <1>1, <1>3, <1>4 DEF Goes
<1>9. /\ b.x0 = (IF first[1] <= last[1] THEN first[1] ELSE last[1])
      /\ b.x1 = (IF first[1] <= last[1] THEN last[1] ELSE first[1])
      /\ b.z0 = (IF first[2] <= last[2] THEN first[2] ELSE last[2])
      /\ b.z1 = (IF first[2] <= last[2] THEN last[2] ELSE first[2])
  BY <1>2, <1>8, OfTwo
<1>10. Spans(p, b, lo, hi)
  BY <1>1, <1>3, <1>4, <1>5, <1>6, <1>7, <1>9 DEF Goes, Spans
<1> QED
  BY <1>7, <1>10 DEF b

-----------------------------------------------------------------------------
\* Heights.
LEMMA LeastAbove ==
  ASSUME NEW S, S # {}, S \subseteq Int, NEW low \in Int, \A y \in S : low <= y
  PROVE  /\ Min(S) \in S /\ \A y \in S : Min(S) <= y
<1> DEFINE T == {n \in Nat : low + n \in S}
<1>1. \A y \in S : y - low \in T
  OBVIOUS
<1>2. T # {} /\ T \in SUBSET Nat
  BY <1>1
<1> HIDE DEF T
<1>3. PICK n \in T : \A m \in T : n <= m
  BY <1>2, LeastOfSet
<1>4. n \in Nat /\ low + n \in S
  BY <1>3 DEF T
<1>5. \A y \in S : low + n <= y
  BY <1>1, <1>3, <1>4
<1>6. Min(S) = low + n
  BY <1>4, <1>5, LeastIs
<1> QED
  BY <1>4, <1>5, <1>6

LEMMA GreatestBelow ==
  ASSUME NEW S, S # {}, S \subseteq Int, NEW top \in Int, \A y \in S : y <= top
  PROVE  Max(S) \in S /\ \A y \in S : y <= Max(S)
<1> DEFINE T == {n \in Nat : top - n \in S}
<1>1. \A y \in S : top - y \in T
  OBVIOUS
<1>2. T # {} /\ T \in SUBSET Nat
  BY <1>1
<1> HIDE DEF T
<1>3. PICK n \in T : \A m \in T : n <= m
  BY <1>2, LeastOfSet
<1>4. n \in Nat /\ top - n \in S
  BY <1>3 DEF T
<1>5. \A y \in S : y <= top - n
  BY <1>1, <1>3, <1>4
<1>6. Max(S) = top - n
  BY <1>4, <1>5, GreatestIs
<1> QED
  BY <1>4, <1>5, <1>6

LEMMA WithinWorld ==
  ASSUME NEW y \in Int
  PROVE  Within(y) \in MinY .. MaxY
<1>1. MinY \in Int /\ MaxY \in Int /\ MinY < MaxY
  BY DirectAssumption
<1> DEFINE m == Min({MaxY, y})
<1>2. m \in Int /\ m <= MaxY
  BY <1>1, OfTwo
<1> HIDE DEF m
<1>3. /\ Max({MinY, m}) \in Int
      /\ Max({MinY, m}) = (IF MinY <= m THEN m ELSE MinY)
  BY <1>1, <1>2, OfTwo
<1>4. Max({MinY, m}) \in MinY .. MaxY
  BY <1>1, <1>2, <1>3
<1> QED
  BY <1>4 DEF Within, m

LEMMA GroundInWorld ==
  ASSUME ground \in Grounds, NEW c, c[1] \in Int, c[2] \in Int
  PROVE  GroundAt(c) \in Int /\ GroundAt(c) \in MinY .. MaxY
<1>1. ground.base \in Int /\ ground.dx \in Int /\ ground.dz \in Int
  BY DirectAssumption
<1>2. ground.dx * c[1] \in Int /\ ground.dz * c[2] \in Int
  BY <1>1
<1>3. ground.base + ((ground.dx * c[1] + ground.dz * c[2]) \div 8) \in Int
  BY <1>1, <1>2
<1>4. GroundAt(c) \in MinY .. MaxY
  BY <1>3, WithinWorld DEF GroundAt
<1> QED
  BY <1>4, DirectAssumption

\* Flat boxes: those of which columns are taken.
Flat(b) == b.x0 \in Int /\ b.x1 \in Int /\ b.z0 \in Int /\ b.z1 \in Int /\ b.x0 <= b.x1 /\ b.z0 <= b.z1

LEMMA LowestInWorld ==
  ASSUME ground \in Grounds, NEW b, Flat(b)
  PROVE  LowestY(b) \in Int /\ FloorY(b) \in Int
<1> DEFINE S == {GroundAt(c) : c \in Columns(b)}
<1>1. \A c \in Columns(b) : c[1] \in Int /\ c[2] \in Int
  BY DEF Columns, Flat
<1>2. \A c \in Columns(b) : GroundAt(c) \in Int /\ MinY <= GroundAt(c)
  BY <1>1, GroundInWorld, DirectAssumption
<1>3. <<b.x0, b.z0>> \in Columns(b)
  BY DEF Columns, Flat
<1>4. S # {} /\ S \subseteq Int /\ \A y \in S : MinY <= y
  BY <1>2, <1>3
<1>5. MinY \in Int
  BY DirectAssumption
<1> HIDE DEF S
<1>6. Min(S) \in S
  BY <1>4, <1>5, LeastAbove
<1>7. LowestY(b) \in Int
  BY <1>4, <1>6 DEF LowestY, S
<1> QED
  BY <1>5, <1>7 DEF FloorY

\* Numbers that are added up give a number.
Summed(f, first, n, s) ==
  s = [i \in first - 1 .. first - 1 + n |-> IF i < first THEN 0 ELSE s[i - 1] + f[i]]
LEMMA SummedExists ==
  ASSUME NEW f, NEW first \in Int, NEW m \in Nat
  PROVE  \E s : Summed(f, first, m, s)
<1> DEFINE S == {n \in Nat : \E s : Summed(f, first, n, s)}
<1>1. 0 \in S
  <2> DEFINE s == [i \in first - 1 .. first - 1 + 0 |-> 0]
  <2>1. \A i \in first - 1 .. first - 1 + 0 : i < first
    OBVIOUS
  <2>2. s = [i \in first - 1 .. first - 1 + 0 |-> IF i < first THEN 0 ELSE s[i - 1] + f[i]]
    BY <2>1
  <2> QED
    BY <2>2 DEF Summed
<1>2. ASSUME NEW n \in Nat, n \in S PROVE n + 1 \in S
  <2>1. PICK s : Summed(f, first, n, s)
    BY <1>2
  <2> DEFINE last == first + n
             g == [i \in first - 1 .. last |-> IF i = last THEN s[last - 1] + f[last] ELSE s[i]]
  <2>2. ASSUME NEW i \in first - 1 .. last
        PROVE  g[i] = IF i < first THEN 0 ELSE g[i - 1] + f[i]
    <3>1. CASE i = last
      <4>1. ~ (i < first) /\ i - 1 \in first - 1 .. last /\ i - 1 # last
        BY <3>1
      <4>2. g[i - 1] = s[i - 1] /\ g[i] = s[last - 1] + f[last]
        BY <3>1, <4>1
      <4> QED
        BY <3>1, <4>1, <4>2
    <3>2. CASE i # last
      <4>1. i \in first - 1 .. first - 1 + n /\ (~ (i < first) => i - 1 \in first - 1 .. last /\ i - 1 # last)
        BY <3>2
      <4>2. g[i] = s[i] /\ (~ (i < first) => g[i - 1] = s[i - 1])
        BY <3>2, <4>1
      <4>3. s[i] = IF i < first THEN 0 ELSE s[i - 1] + f[i]
        BY <2>1, <4>1 DEF Summed
      <4> QED
        BY <4>2, <4>3
    <3> QED
      BY <3>1, <3>2
  <2>3. Summed(f, first, n + 1, g)
    <3>1. g = [i \in first - 1 .. last |-> g[i]]
      OBVIOUS
    <3>2. first - 1 + (n + 1) = last
      OBVIOUS
    <3> HIDE DEF g, last
    <3>3. g = [i \in first - 1 .. last |-> IF i < first THEN 0 ELSE g[i - 1] + f[i]]
      BY <2>2, <3>1
    <3> QED
      BY <3>2, <3>3 DEF Summed
  <2> QED
    BY <2>3
<1> HIDE DEF S
<1>3. m \in S
  BY <1>1, <1>2, Induction
<1> QED
  BY <1>3 DEF S

LEMMA SumIsNumber ==
  ASSUME NEW first \in Int, NEW last \in Int, first <= last, NEW f, \A i \in first .. last : f[i] \in Int
  PROVE  SumOf(f, first, last) \in Int
<1> DEFINE m == last - first + 1
           sum == CHOOSE s : Summed(f, first, m, s)
           S == {n \in Nat : n <= m => sum[first - 1 + n] \in Int}
<1>1. m \in Nat /\ first - 1 + m = last
  OBVIOUS
<1>2. SumOf(f, first, last) = sum[last]
  BY <1>1 DEF SumOf, Summed
<1>3. Summed(f, first, m, sum)
  BY <1>1, SummedExists
<1> HIDE DEF sum
<1>4. \A i \in first - 1 .. last : sum[i] = IF i < first THEN 0 ELSE sum[i - 1] + f[i]
  BY <1>1, <1>3 DEF Summed
<1>5. 0 \in S
  BY <1>1, <1>4
<1>6. ASSUME NEW n \in Nat, n \in S PROVE n + 1 \in S
  <2> SUFFICES ASSUME n + 1 <= m PROVE sum[first - 1 + (n + 1)] \in Int
    OBVIOUS
  <2> DEFINE i == first - 1 + (n + 1)
  <2>1. i \in first .. last /\ i \in first - 1 .. last /\ ~ (i < first) /\ i - 1 = first - 1 + n /\ n <= m
    OBVIOUS
  <2>2. sum[i - 1] \in Int
    BY <1>6, <2>1
  <2> HIDE DEF i
  <2>3. sum[i] = sum[i - 1] + f[i]
    BY <1>4, <2>1
  <2> QED
    BY <2>1, <2>2, <2>3 DEF i
<1> HIDE DEF S
<1>7. m \in S
  BY <1>1, <1>5, <1>6, Induction
<1> QED
  BY <1>1, <1>2, <1>7 DEF S

LEMMA MeanIsNumber ==
  ASSUME ground \in Grounds, NEW b, Flat(b)
  PROVE  MeanY(b) \in Int
<1> DEFINE n == (b.x1 - b.x0 + 1) * (b.z1 - b.z0 + 1)
           Row(x) == SumOf([z \in b.z0 .. b.z1 |-> GroundAt(<<x, z>>)], b.z0, b.z1)
<1>1. b.x1 - b.x0 + 1 \in Nat \ {0} /\ b.z1 - b.z0 + 1 \in Nat \ {0}
  BY DEF Flat
<1>2. n \in Nat \ {0}
  <2>1. \A v, w \in Nat \ {0} : v * w \in Nat \ {0}
    OBVIOUS
  <2> QED
    BY <1>1, <2>1
<1>3. ASSUME NEW x \in b.x0 .. b.x1 PROVE Row(x) \in Int
  <2> DEFINE f == [z \in b.z0 .. b.z1 |-> GroundAt(<<x, z>>)]
  <2>1. x \in Int /\ \A z \in b.z0 .. b.z1 : z \in Int
    BY DEF Flat
  <2>2. \A z \in b.z0 .. b.z1 : GroundAt(<<x, z>>) \in Int
    <3>1. ASSUME NEW z \in b.z0 .. b.z1 PROVE GroundAt(<<x, z>>) \in Int
      <4> DEFINE c == <<x, z>>
      <4>1. c[1] \in Int /\ c[2] \in Int
        BY <2>1
      <4> HIDE DEF c
      <4>2. GroundAt(c) \in Int
        BY <4>1, GroundInWorld
      <4> QED
        BY <4>2 DEF c
    <3> QED
      BY <3>1
  <2>3. \A z \in b.z0 .. b.z1 : f[z] \in Int
    BY <2>2
  <2> HIDE DEF f
  <2>4. SumOf(f, b.z0, b.z1) \in Int
    BY <2>3, SumIsNumber DEF Flat
  <2> QED
    BY <2>4 DEF f
<1> DEFINE r == [x \in b.x0 .. b.x1 |-> Row(x)]
<1>4. \A x \in b.x0 .. b.x1 : r[x] \in Int
  BY <1>3
<1>5. Total(b) = SumOf(r, b.x0, b.x1)
  BY DEF Total
<1> HIDE DEF r, n
<1>6. Total(b) \in Int
  BY <1>4, <1>5, SumIsNumber DEF Flat
<1> DEFINE t == Total(b)
<1>7. t \div n \in Int /\ (-t) \div n \in Int
  BY <1>2, <1>6
<1>8. MeanY(b) = IF t >= 0 THEN t \div n ELSE -((-t) \div n)
  BY DEF MeanY, n
<1> HIDE DEF t
<1> QED
  BY <1>7, <1>8
-----------------------------------------------------------------------------
\* The box of a piece that has no legs.
LEMMA PlainBox ==
  ASSUME NEW p \in TemplatePieces
  PROVE  /\ BoxOf(p) \in Boxes
         /\ BoxOf(p).y0 = p.y /\ BoxOf(p).y1 = p.y + p.h - 1
         /\ BoxOf(p).x0 = WorldBox(p).x0 /\ BoxOf(p).x1 = WorldBox(p).x1
         /\ BoxOf(p).z0 = WorldBox(p).z0 /\ BoxOf(p).z1 = WorldBox(p).z1
         /\ Flat(WorldBox(p))
<1>1. /\ p.useTemplateTransform = TRUE /\ p.mirror \in {"none", "front_back"} /\ p.rotation \in Rotations
      /\ p.origin \in Places /\ p.pivot \in Places /\ p.size \in Sizes
      /\ p.y \in Int /\ p.h \in Nat /\ p.legs = {}
  BY DEF TemplatePieces
<1>2. Flat(WorldBox(p))
  <2> DEFINE b == WorldBox(p)
  <2>1. PICK lo \in Int, hi \in Int : lo <= hi /\ Width(p, lo, hi) /\ Spans(p, b, lo, hi)
    BY TurnedBox
  <2>2. /\ p.origin[1] \in Int /\ p.origin[2] \in Int /\ p.pivot[1] \in Int /\ p.pivot[2] \in Int
        /\ p.size[2] \in Int /\ p.size[2] > 0
    BY <1>1 DEF Places, Sizes
  <2> HIDE DEF b
  <2>3. Flat(b)
    BY <2>1, <2>2 DEF Spans, Flat
  <2> QED
    BY <2>3 DEF b
<1>3. LegBlocks(p) = {}
  BY <1>1 DEF LegBlocks
<1>4. {p.y} \cup {c[2] : c \in LegBlocks(p)} = {p.y}
  BY <1>3
<1>5. Min({p.y}) = p.y
  BY <1>1, LeastIs
<1>6. BoxOf(p) = [x0 |-> WorldBox(p).x0, z0 |-> WorldBox(p).z0, x1 |-> WorldBox(p).x1, z1 |-> WorldBox(p).z1,
                  y0 |-> p.y, y1 |-> p.y + p.h - 1]
  BY <1>4, <1>5 DEF BoxOf
<1> QED
  BY <1>1, <1>2, <1>6 DEF Flat, Boxes

\* What is planned is found.
Found(ps, box, r) ==
  /\ box \in Boxes /\ Near(box, r)
  /\ \A i \in DOMAIN ps : BoxOf(ps[i]) \in Boxes /\ Inside(BoxOf(ps[i]), box)

LEMMA UnionFound ==
  ASSUME NEW n \in Nat \ {0}, NEW r, NEW ps, DOMAIN ps = 1 .. n,
         \A i \in 1 .. n : BoxOf(ps[i]) \in Boxes /\ Near(BoxOf(ps[i]), r)
  PROVE  /\ Found(ps, UnionOf(ps), r)
         /\ \E i \in 1 .. n : UnionOf(ps).y0 = BoxOf(ps[i]).y0
         /\ \E i \in 1 .. n : UnionOf(ps).y1 = BoxOf(ps[i]).y1
<1> DEFINE b == [i \in 1 .. n |-> BoxOf(ps[i])]
           B == {BoxOf(ps[i]) : i \in DOMAIN ps}
           a == UnionOf(ps)
<1>1. \A i \in 1 .. n : b[i] = BoxOf(ps[i]) /\ b[i] \in Boxes /\ Near(b[i], r)
  OBVIOUS
<1>2. a = Around(B)
  BY DEF UnionOf
<1>5. /\ \A i \in 1 .. n : b[i] \in Boxes
      /\ \A i \in 1 .. n : b[i] \in B
      /\ \A c \in B : \E i \in 1 .. n : c = b[i]
  BY <1>1
<1> HIDE DEF a, b, B
<1>3. BoxAround(n, b, a)
  BY <1>2, <1>5, AroundHolds
<1>4. Near(a, r)
  BY <1>1, <1>3 DEF Near, BoxAround
<1>6. Found(ps, a, r)
  BY <1>1, <1>3, <1>4 DEF Found, BoxAround
<1> QED
  BY <1>1, <1>3, <1>6 DEF a, BoxAround

-----------------------------------------------------------------------------
\* The inductive invariant. What is planned is found; a cluster is one of ruins
\* around a large one, at its corner.
DirectInv ==
  /\ kind \in DirectKinds /\ ground \in Grounds
  /\ planStage \in {"plan", "cluster", "built", "none"}
  /\ planStage \in {"cluster", "built"} => Found(pieces, overall, Backreach[kind])
  /\ planStage = "cluster" =>
       /\ kind = "ocean_ruin" /\ slots \subseteq Slots
       /\ pieces \in Seq(TemplatePieces) /\ pieces # <<>>
       /\ pieces[1].origin = <<8, 8>> /\ pieces[1].pivot = <<0, 0>> /\ pieces[1].mirror = "none"
  /\ StandsOnGround

\* What a plan that is finished at once has to show.
LEMMA PlanHolds ==
  ASSUME DirectInv, NEW n \in Nat \ {0}, NEW ps, NEW columns, Built(ps, columns), DOMAIN ps = 1 .. n,
         \A i \in 1 .. n : BoxOf(ps[i]) \in Boxes /\ Near(BoxOf(ps[i]), Backreach[kind]),
         StandsOnGround'
  PROVE  DirectInv'
<1>1. /\ pieces' = ps /\ overall' = UnionOf(ps) /\ planStage' = "built"
      /\ kind' = kind /\ ground' = ground
  BY DEF Built, Plan
<1>2. Found(ps, UnionOf(ps), Backreach[kind])
  BY UnionFound
<1>3. Found(pieces', overall', Backreach[kind'])
  BY <1>1, <1>2
<1> QED
  BY <1>1, <1>3 DEF DirectInv

\* The structure of one piece.
LEMMA SingleHolds ==
  ASSUME DirectInv, NEW p \in TemplatePieces, NEW columns, Built(<<p>>, columns),
         Near(WorldBox(p), Backreach[kind]), kind \notin {"igloo", "swamp_hut"},
         kind \in {"ruined_portal", "buried_treasure", "end_city"} => columns \subseteq Columns(WorldBox(p))
  PROVE  DirectInv'
<1>1. DOMAIN <<p>> = 1 .. 1 /\ <<p>>[1] = p
  OBVIOUS
<1>2. BoxOf(p) \in Boxes /\ Near(BoxOf(p), Backreach[kind])
  BY PlainBox DEF Near
<1>3. pieces' = <<p>> /\ kind' = kind /\ planStage' = "built" /\ measured' = columns
  BY DEF Built, Plan
<1>4. StandsOnGround'
  BY <1>1, <1>3 DEF StandsOnGround
<1> DEFINE ps == <<p>>
<1>5. /\ Built(ps, columns) /\ DOMAIN ps = 1 .. 1 /\ 1 \in Nat \ {0}
      /\ \A i \in 1 .. 1 : BoxOf(ps[i]) \in Boxes /\ Near(BoxOf(ps[i]), Backreach[kind])
  BY <1>1, <1>2
<1> HIDE DEF ps
<1> QED
  BY <1>4, <1>5, PlanHolds
-----------------------------------------------------------------------------
\* Each builder keeps the invariant: first the structures of one template.
LEMMA GroundIsNumber ==
  ASSUME ground \in Grounds, NEW x \in Int, NEW z \in Int
  PROVE  GroundAt(<<x, z>>) \in Int /\ MinY <= GroundAt(<<x, z>>) /\ GroundAt(<<x, z>>) <= MaxY
<1> DEFINE c == <<x, z>>
<1>1. c[1] \in Int /\ c[2] \in Int
  OBVIOUS
<1> HIDE DEF c
<1>2. GroundAt(c) \in Int /\ GroundAt(c) \in MinY .. MaxY
  BY <1>1, GroundInWorld
<1> QED
  BY <1>2, DirectAssumption DEF c

LEMMA TreasureHolds ==
  ASSUME DirectInv, BuildTreasure
  PROVE  DirectInv'
<1> DEFINE y == Max({MinY + 1, GroundAt(<<9, 9>>) - 1})
           p == Piece("chest", <<8, 8>>, y - 1, <<3, 3>>, 2, 0, <<0, 0>>)
<1>1. Built(<<p>>, {<<9, 9>>}) /\ kind = "buried_treasure"
  BY DEF BuildTreasure
<1>2. y - 1 \in Int
  <2>1. MinY + 1 \in Int /\ GroundAt(<<9, 9>>) - 1 \in Int
    BY GroundIsNumber, DirectAssumption DEF DirectInv
  <2>2. y \in Int
    BY <2>1, OfTwo
  <2> QED
    BY <2>2
<1>3. p = Piece("chest", <<8, 8>>, y - 1, <<3, 3>>, 2, 0, <<0, 0>>)
  OBVIOUS
<1> HIDE DEF p, y
<1>4. /\ p \in TemplatePieces
      /\ p.origin = <<8, 8>> /\ p.size = <<3, 3>> /\ p.rotation = 0 /\ p.mirror = "none" /\ p.pivot = <<0, 0>>
  BY <1>2, <1>3 DEF Piece, TemplatePieces, Places, Sizes, Templates, Rotations
<1> DEFINE b == WorldBox(p)
<1>8. PICK lo \in Int, hi \in Int : lo <= hi /\ Width(p, lo, hi) /\ Spans(p, b, lo, hi)
  BY <1>4, TurnedBox
<1> HIDE DEF b
<1>9. b.x0 = 8 /\ b.x1 = 10 /\ b.z0 = 8 /\ b.z1 = 10
  BY <1>4, <1>8 DEF Width, Spans
<1>5. WorldBox(p).x0 = 8 /\ WorldBox(p).x1 = 10 /\ WorldBox(p).z0 = 8 /\ WorldBox(p).z1 = 10
  BY <1>9 DEF b
<1>6. {<<9, 9>>} \subseteq Columns(WorldBox(p))
  BY <1>5 DEF Columns
<1>7. Near(WorldBox(p), Backreach[kind])
  BY <1>1, <1>5 DEF Near, Backreach
<1> QED
  BY <1>1, <1>4, <1>6, <1>7, SingleHolds

LEMMA ShipwreckHolds ==
  ASSUME DirectInv, BuildShipwreck
  PROVE  DirectInv'
<1>1. PICK n \in 0 .. 3, hull \in Hulls, beached \in BOOLEAN, sunk \in 0 .. 2 :
        LET ship == Piece("ship", <<0, 0>>, 90, <<hull[1], hull[2]>>, hull[3], n, <<4, 15>>)
            box == WorldBox(ship)
        IN  Built(<<Raised(ship, IF beached THEN LowestY(box) - (hull[3] \div 2) - sunk ELSE MeanY(box))>>,
                  Columns(box))
  BY DEF BuildShipwreck
<1> DEFINE ship == Piece("ship", <<0, 0>>, 90, <<hull[1], hull[2]>>, hull[3], n, <<4, 15>>)
           box == WorldBox(ship)
           y == IF beached THEN LowestY(box) - (hull[3] \div 2) - sunk ELSE MeanY(box)
           p == Raised(ship, y)
<1>2. Built(<<p>>, Columns(box)) /\ kind = "shipwreck"
  BY <1>1 DEF BuildShipwreck
<1>3. hull[1] = 9 /\ hull[2] \in Nat \ {0} /\ hull[2] <= 28 /\ hull[3] \in Nat \ {0}
  BY DEF Hulls
<1>4. ship = Piece("ship", <<0, 0>>, 90, <<hull[1], hull[2]>>, hull[3], n, <<4, 15>>)
  OBVIOUS
<1> HIDE DEF ship
<1>5. /\ ship \in TemplatePieces /\ ship.origin = <<0, 0>> /\ ship.size = <<hull[1], hull[2]>>
      /\ ship.mirror = "none" /\ ship.pivot = <<4, 15>>
  BY <1>3, <1>4 DEF Piece, TemplatePieces, Places, Sizes, Templates, Rotations
<1>6. Flat(box)
  BY <1>5, PlainBox
<1>7. LowestY(box) \in Int /\ MeanY(box) \in Int
  BY <1>6, LowestInWorld, MeanIsNumber DEF DirectInv
<1>8. y \in Int
  BY <1>3, <1>7
<1> HIDE DEF y
<1>9. /\ p \in TemplatePieces /\ p.origin = <<0, 0>> /\ p.size = <<hull[1], hull[2]>>
      /\ p.mirror = "none" /\ p.pivot = <<4, 15>>
  BY <1>5, <1>8 DEF Raised, TemplatePieces
<1> HIDE DEF p
<1>10. Near(WorldBox(p), 2)
  <2> DEFINE b == WorldBox(p)
  <2>1. PICK lo \in Int, hi \in Int : lo <= hi /\ Width(p, lo, hi) /\ Spans(p, b, lo, hi)
    BY <1>9, TurnedBox
  <2> HIDE DEF b
  <2>2. Near(b, 2)
    BY <1>3, <1>9, <2>1 DEF Width, Spans, Near
  <2> QED
    BY <2>2 DEF b

<1>11. Near(WorldBox(p), Backreach[kind])
  BY <1>2, <1>10 DEF Backreach
<1> QED
  BY <1>2, <1>9, <1>11, SingleHolds

LEMMA PortalHolds ==
  ASSUME DirectInv, BuildRuinedPortal
  PROVE  DirectInv'
<1> DEFINE Portal(n, m, d) ==
             [Piece("portal", <<0, 0>>, 0, <<d[1], d[2]>>, d[3], n, <<d[1] \div 2, d[2] \div 2>>) EXCEPT !.mirror = m]
           Centre(b, up) == <<(b.x0 + b.x1 + up[1]) \div 2, (b.z0 + b.z1 + up[2]) \div 2>>
<1>1. PICK n \in 0 .. 3, m \in {"none", "front_back"}, d \in Doorways, up \in (0 .. 1) \X (0 .. 1) :
        \E y \in PortalHeights(GroundAt(Centre(WorldBox(Portal(n, m, d)), up)) - 1, d[3]) :
          Built(<<Raised(Portal(n, m, d), y)>>, {Centre(WorldBox(Portal(n, m, d)), up)})
  BY DEF BuildRuinedPortal
<1> DEFINE portal == Portal(n, m, d)
           b == WorldBox(portal)
           surface == GroundAt(Centre(b, up)) - 1
<1>2. PICK y \in PortalHeights(surface, d[3]) : Built(<<Raised(portal, y)>>, {Centre(b, up)})
  BY <1>1
<1>3. /\ d[1] \in Nat \ {0} /\ d[2] \in Nat \ {0} /\ d[3] \in Nat \ {0}
      /\ d[1] <= 16 /\ d[2] <= 16
  BY DEF Doorways
<1>4. d[1] \div 2 \in Nat /\ d[2] \div 2 \in Nat /\ d[1] \div 2 <= 8 /\ d[2] \div 2 <= 8
  BY <1>3
<1> DEFINE base == Piece("portal", <<0, 0>>, 0, <<d[1], d[2]>>, d[3], n, <<d[1] \div 2, d[2] \div 2>>)
<1>5. base = Piece("portal", <<0, 0>>, 0, <<d[1], d[2]>>, d[3], n, <<d[1] \div 2, d[2] \div 2>>)
  OBVIOUS
<1>7. portal = [base EXCEPT !.mirror = m]
  OBVIOUS
<1> HIDE DEF base, portal
<1>6. /\ base \in TemplatePieces /\ base.origin = <<0, 0>> /\ base.size = <<d[1], d[2]>>
      /\ base.pivot = <<d[1] \div 2, d[2] \div 2>>
  BY <1>3, <1>4, <1>5 DEF Piece, TemplatePieces, Places, Sizes, Templates, Rotations
<1>8. /\ portal \in TemplatePieces /\ portal.origin = <<0, 0>> /\ portal.size = <<d[1], d[2]>>
      /\ portal.pivot = <<d[1] \div 2, d[2] \div 2>>
  BY <1>6, <1>7 DEF TemplatePieces
<1>9. Flat(b)
  BY <1>8, PlainBox
<1>10. \A v, w \in Int, u \in 0 .. 1 : v <= w => (v + w + u) \div 2 \in v .. w
  OBVIOUS
<1>11. /\ (b.x0 + b.x1 + up[1]) \div 2 \in b.x0 .. b.x1
       /\ (b.z0 + b.z1 + up[2]) \div 2 \in b.z0 .. b.z1
       /\ (b.x0 + b.x1 + up[1]) \div 2 \in Int /\ (b.z0 + b.z1 + up[2]) \div 2 \in Int
  <2>1. up[1] \in 0 .. 1 /\ up[2] \in 0 .. 1
    OBVIOUS
  <2> DEFINE x0 == b.x0
             x1 == b.x1
             z0 == b.z0
             z1 == b.z1
  <2>2. x0 \in Int /\ x1 \in Int /\ z0 \in Int /\ z1 \in Int /\ x0 <= x1 /\ z0 <= z1
    BY <1>9 DEF Flat
  <2> HIDE DEF x0, x1, z0, z1
  <2>3. (x0 + x1 + up[1]) \div 2 \in x0 .. x1
    BY <1>10, <2>1, <2>2
  <2>4. (z0 + z1 + up[2]) \div 2 \in z0 .. z1
    BY <1>10, <2>1, <2>2
  <2>5. /\ (x0 + x1 + up[1]) \div 2 \in Int /\ (z0 + z1 + up[2]) \div 2 \in Int
    BY <2>2, <2>3, <2>4
  <2> QED
    BY <2>3, <2>4, <2>5 DEF x0, x1, z0, z1
<1>18. {Centre(b, up)} \subseteq Columns(b)
  BY <1>11 DEF Columns
<1>12. surface \in Int
  <2>1. GroundAt(Centre(b, up)) \in Int
    BY <1>11, GroundIsNumber DEF DirectInv
  <2> QED
    BY <2>1
<1> HIDE DEF surface, Centre
<1>13. y \in Int
  <2>1. MinY \in Int /\ MaxY \in Int
    BY DirectAssumption
  <2>2. Within(surface) \in Int
    BY <1>12, <2>1, WithinWorld
  <2>3. \A v, w \in Int : Max({v, w}) \in Int
    BY OfTwo
  <2>4. Max({70, surface - d[3]}) \in Int /\ Max({MinY + 15, surface - d[3]}) \in Int
    BY <1>3, <1>12, <2>1, <2>3
  <2>5. \A r \in {2, 8} : surface - d[3] + r \in Int
    BY <1>3, <1>12
  <2> QED
    BY <2>1, <2>2, <2>4, <2>5 DEF PortalHeights
<1> DEFINE p == Raised(portal, y)
<1>14. /\ p \in TemplatePieces /\ p.origin = <<0, 0>> /\ p.size = <<d[1], d[2]>>
       /\ p.pivot = <<d[1] \div 2, d[2] \div 2>>
  BY <1>8, <1>13 DEF Raised, TemplatePieces
<1>15. Built(<<p>>, {Centre(b, up)}) /\ kind = "ruined_portal"
  BY <1>2 DEF BuildRuinedPortal
<1>19. WorldBox(p) = WorldBox(portal)
  <2>1. /\ p.origin = portal.origin /\ p.size = portal.size /\ p.rotation = portal.rotation
        /\ p.mirror = portal.mirror /\ p.pivot = portal.pivot
        /\ p.useTemplateTransform = portal.useTemplateTransform
    BY <1>8 DEF Raised, TemplatePieces
  <2> HIDE DEF p
  <2>2. \A f : WorldPos(p, f) = WorldPos(portal, f)
    BY <2>1 DEF WorldPos
  <2> QED
    BY <2>1, <2>2 DEF WorldBox
<1> HIDE DEF p
<1>16. Near(WorldBox(p), 2)
  <2> DEFINE c == WorldBox(p)
  <2>1. PICK lo \in Int, hi \in Int : lo <= hi /\ Width(p, lo, hi) /\ Spans(p, c, lo, hi)
    BY <1>14, TurnedBox
  <2> HIDE DEF c
  <2>2. /\ p.origin[1] = 0 /\ p.origin[2] = 0 /\ p.size[1] = d[1] /\ p.size[2] = d[2]
        /\ p.pivot[1] = d[1] \div 2 /\ p.pivot[2] = d[2] \div 2
    BY <1>14
  <2>3. /\ -15 <= lo /\ lo <= 0 /\ 0 <= hi /\ hi <= 15
    BY <1>3, <2>1, <2>2 DEF Width
  <2>4. /\ p.pivot[1] \in 0 .. 8 /\ p.pivot[2] \in 0 .. 8 /\ p.size[2] \in 1 .. 16
        /\ p.origin[1] = 0 /\ p.origin[2] = 0
    BY <1>3, <1>4, <2>2
  <2> DEFINE v == p.pivot[1]
             u == p.pivot[2]
             l == p.size[2] - 1
  <2>7. /\ v \in 0 .. 8 /\ u \in 0 .. 8 /\ l \in 0 .. 15
    BY <2>4
  <2>8. \/ c.x0 = 0 + lo /\ c.x1 = 0 + hi /\ c.z0 = 0 /\ c.z1 = 0 + l
        \/ c.x0 = 0 + v + u - l /\ c.x1 = 0 + v + u /\ c.z0 = 0 + u - v + lo /\ c.z1 = 0 + u - v + hi
        \/ c.x0 = 0 + 2 * v - hi /\ c.x1 = 0 + 2 * v - lo /\ c.z0 = 0 + 2 * u - l /\ c.z1 = 0 + 2 * u
        \/ c.x0 = 0 + v - u /\ c.x1 = 0 + v - u + l /\ c.z0 = 0 + v + u - hi /\ c.z1 = 0 + v + u - lo
    BY <2>1, <2>2 DEF Spans
  <2> HIDE DEF v, u, l
  <2>9. c.x0 \in -32 .. 47 /\ c.x1 \in -32 .. 47
    BY <2>3, <2>7, <2>8
  <2>10. c.z0 \in -32 .. 47 /\ c.z1 \in -32 .. 47
    BY <2>3, <2>7, <2>8
  <2>5. /\ c.x0 \in -32 .. 47 /\ c.x1 \in -32 .. 47 /\ c.z0 \in -32 .. 47 /\ c.z1 \in -32 .. 47
    BY <2>9, <2>10
  <2>6. Near(c, 2)
    BY <2>5 DEF Near
  <2> QED
    BY <2>6 DEF c
<1>17. Near(WorldBox(p), Backreach[kind])
  BY <1>15, <1>16 DEF Backreach
<1> QED
  BY <1>14, <1>15, <1>17, <1>18, <1>19, SingleHolds

LEMMA FossilHolds ==
  ASSUME DirectInv, BuildNetherFossil
  PROVE  DirectInv'
<1>1. PICK at \in {0, 15} \X {0, 15}, top \in {MinY + 1, Sea + 4, MaxY}, n \in 0 .. 3, f \in Fossils :
        IF FloorsBelow(at, top) = {}
        THEN /\ planStage' = "none"
             /\ UNCHANGED <<kind, ground, pieces, overall, measured, slots>>
        ELSE Built(<<Piece("fossil", at, Max(FloorsBelow(at, top)), <<f[1], f[2]>>, f[3], n, <<0, 0>>)>>, {at})
  BY DEF BuildNetherFossil
<1>2. CASE FloorsBelow(at, top) = {}
  <2>1. planStage' = "none" /\ UNCHANGED <<kind, ground, pieces, overall, measured, slots>>
    BY <1>1, <1>2
  <2> QED
    BY <2>1 DEF DirectInv, StandsOnGround
<1>3. CASE FloorsBelow(at, top) # {}
  <2> DEFINE y == Max(FloorsBelow(at, top))
             p == Piece("fossil", at, y, <<f[1], f[2]>>, f[3], n, <<0, 0>>)
  <2>1. Built(<<p>>, {at}) /\ kind = "nether_fossil"
    BY <1>1, <1>3 DEF BuildNetherFossil
  <2>2. y \in Int
    <3>1. top \in Int
      BY DirectAssumption
    <3>2. FloorsBelow(at, top) \subseteq Int /\ \A v \in FloorsBelow(at, top) : v <= top
      BY <3>1, DirectAssumption DEF FloorsBelow
    <3>3. y \in FloorsBelow(at, top)
      BY <1>3, <3>1, <3>2, GreatestBelow
    <3> QED
      BY <3>2, <3>3
  <2>3. /\ f[1] \in Nat \ {0} /\ f[2] \in Nat \ {0} /\ f[3] \in Nat \ {0} /\ f[1] <= 7 /\ f[2] <= 7
        /\ at[1] \in {0, 15} /\ at[2] \in {0, 15} /\ at \in Places
    BY DEF Fossils, Places
  <2>4. p = Piece("fossil", at, y, <<f[1], f[2]>>, f[3], n, <<0, 0>>)
    OBVIOUS
  <2> HIDE DEF p, y
  <2>5. /\ p \in TemplatePieces /\ p.origin = at /\ p.size = <<f[1], f[2]>> /\ p.mirror = "none" /\ p.pivot = <<0, 0>>
    BY <2>2, <2>3, <2>4 DEF Piece, TemplatePieces, Places, Sizes, Templates, Rotations
  <2>6. Near(WorldBox(p), 2)
    <3> DEFINE b == WorldBox(p)
    <3>1. PICK lo \in Int, hi \in Int : lo <= hi /\ Width(p, lo, hi) /\ Spans(p, b, lo, hi)
      BY <2>5, TurnedBox
    <3> HIDE DEF b
    <3>2. Near(b, 2)
      BY <2>3, <2>5, <3>1 DEF Width, Spans, Near
    <3> QED
      BY <3>2 DEF b
  <2>7. Near(WorldBox(p), Backreach[kind])
    BY <2>1, <2>6 DEF Backreach
  <2> QED
    BY <2>1, <2>5, <2>7, SingleHolds
<1> QED
  BY <1>2, <1>3
-----------------------------------------------------------------------------
\* Ruins.
LEMMA RuinMade ==
  ASSUME ground \in Grounds, NEW x \in Int, NEW z \in Int, NEW n \in Rotations, NEW large \in BOOLEAN,
         NEW r, r = Ruin(<<x, z>>, n, large)
  PROVE  /\ r \in TemplatePieces /\ r.origin = <<x, z>> /\ r.pivot = <<0, 0>> /\ r.mirror = "none"
         /\ r.size = (IF large THEN <<16, 16>> ELSE <<6, 7>>)
<1> DEFINE size == IF large THEN <<16, 16>> ELSE <<6, 7>>
           h == IF large THEN 16 ELSE 7
           p == Piece("ruin", <<x, z>>, 90, size, h, n, <<0, 0>>)
           y == FloorY(WorldBox(p))
<1>1. r = Raised(p, y)
  BY DEF Ruin
<1>2. size \in Sizes /\ h \in Nat \ {0}
  BY DEF Sizes
<1> HIDE DEF size, h
<1>3. p = Piece("ruin", <<x, z>>, 90, size, h, n, <<0, 0>>)
  OBVIOUS
<1> HIDE DEF p
<1>4. p \in TemplatePieces /\ p.origin = <<x, z>> /\ p.pivot = <<0, 0>> /\ p.mirror = "none" /\ p.size = size
  BY <1>2, <1>3 DEF Piece, TemplatePieces, Places, Templates
<1>5. y \in Int
  BY <1>4, PlainBox, LowestInWorld
<1> HIDE DEF y
<1>6. r \in TemplatePieces /\ r.origin = <<x, z>> /\ r.pivot = <<0, 0>> /\ r.mirror = "none" /\ r.size = size
  BY <1>1, <1>4, <1>5 DEF Raised, TemplatePieces
<1> QED
  BY <1>6 DEF size

\* A piece that is turned about its origin goes no further from there than it
\* is long.
Reaches(p, b, d) ==
  /\ b.x0 \in Int /\ b.x1 \in Int /\ b.z0 \in Int /\ b.z1 \in Int
  /\ p.origin[1] - d <= b.x0 /\ b.x0 <= b.x1 /\ b.x1 <= p.origin[1] + d
  /\ p.origin[2] - d <= b.z0 /\ b.z0 <= b.z1 /\ b.z1 <= p.origin[2] + d
LEMMA PlainReach ==
  ASSUME NEW p \in TemplatePieces, p.mirror = "none", p.pivot = <<0, 0>>,
         NEW d \in Nat, p.size[1] <= d + 1, p.size[2] <= d + 1
  PROVE  Reaches(p, WorldBox(p), d)
<1> DEFINE b == WorldBox(p)
           x == p.origin[1]
           z == p.origin[2]
           l == p.size[2] - 1
<1>1. PICK lo \in Int, hi \in Int : lo <= hi /\ Width(p, lo, hi) /\ Spans(p, b, lo, hi)
  BY TurnedBox
<1>2. x \in Int /\ z \in Int /\ l \in 0 .. d /\ p.size[1] - 1 \in 0 .. d
  BY DEF TemplatePieces, Places, Sizes
<1>3. lo = 0 /\ hi \in 0 .. d
  BY <1>1, <1>2 DEF Width
<1> DEFINE u == p.pivot[1]
           v == p.pivot[2]
<1>4. \/ b.x0 = x + lo /\ b.x1 = x + hi /\ b.z0 = z /\ b.z1 = z + l
      \/ b.x0 = x + u + v - l /\ b.x1 = x + u + v /\ b.z0 = z + v - u + lo /\ b.z1 = z + v - u + hi
      \/ b.x0 = x + 2 * u - hi /\ b.x1 = x + 2 * u - lo /\ b.z0 = z + 2 * v - l /\ b.z1 = z + 2 * v
      \/ b.x0 = x + u - v /\ b.x1 = x + u - v + l /\ b.z0 = z + u + v - hi /\ b.z1 = z + u + v - lo
  BY <1>1 DEF Spans
<1>5. u = 0 /\ v = 0
  OBVIOUS
<1> HIDE DEF b, x, z, l, u, v
<1>6. \/ b.x0 = x /\ b.x1 = x + hi /\ b.z0 = z /\ b.z1 = z + l
      \/ b.x0 = x - l /\ b.x1 = x /\ b.z0 = z /\ b.z1 = z + hi
      \/ b.x0 = x - hi /\ b.x1 = x /\ b.z0 = z - l /\ b.z1 = z
      \/ b.x0 = x /\ b.x1 = x + l /\ b.z0 = z - hi /\ b.z1 = z
  BY <1>2, <1>3, <1>4, <1>5
<1>7. /\ b.x0 \in Int /\ b.x1 \in Int /\ x - d <= b.x0 /\ b.x0 <= b.x1 /\ b.x1 <= x + d
  BY <1>2, <1>3, <1>6
<1>8. /\ b.z0 \in Int /\ b.z1 \in Int /\ z - d <= b.z0 /\ b.z0 <= b.z1 /\ b.z1 <= z + d
  BY <1>2, <1>3, <1>6
<1> QED
  BY <1>7, <1>8 DEF Reaches, b, x, z

\* A ruin goes no further than its length from where it is put.
LEMMA RuinNear ==
  ASSUME NEW r \in TemplatePieces, NEW x \in -32 .. 47, NEW z \in -32 .. 47, r.origin = <<x, z>>,
         r.pivot = <<0, 0>>, r.mirror = "none", r.size \in {<<16, 16>>, <<6, 7>>}
  PROVE  BoxOf(r) \in Boxes /\ Near(BoxOf(r), 3)
<1> DEFINE b == WorldBox(r)
<1>1. r.size[1] <= 15 + 1 /\ r.size[2] <= 15 + 1
  OBVIOUS
<1>2. Reaches(r, b, 15)
  BY <1>1, PlainReach
<1>3. r.origin[1] = x /\ r.origin[2] = z
  OBVIOUS
<1> HIDE DEF b
<1>4. b.x0 \in -48 .. 63 /\ b.x1 \in -48 .. 63
  BY <1>2, <1>3 DEF Reaches
<1>5. b.z0 \in -48 .. 63 /\ b.z1 \in -48 .. 63
  BY <1>2, <1>3 DEF Reaches
<1>6. Near(b, 3)
  BY <1>4, <1>5 DEF Near
<1> QED
  BY <1>6, PlainBox DEF Near, b

LEMMA OceanRuinHolds ==
  ASSUME DirectInv, BuildOceanRuin
  PROVE  DirectInv'
<1>1. PICK n \in 0 .. 3, large \in BOOLEAN, cold \in BOOLEAN, cluster \in BOOLEAN :
        LET ruin == Ruin(<<8, 8>>, n, large)
        IN  /\ cluster => large
            /\ Plan([i \in 1 .. Layers(cold) |-> ruin], Columns(WorldBox(ruin)),
                    IF cluster THEN Slots ELSE {}, IF cluster THEN "cluster" ELSE "built")
  BY DEF BuildOceanRuin
<1> DEFINE ruin == Ruin(<<8, 8>>, n, large)
           m == Layers(cold)
           ps == [i \in 1 .. m |-> ruin]
<1>2. /\ pieces' = ps /\ overall' = UnionOf(ps)
      /\ slots' = (IF cluster THEN Slots ELSE {})
      /\ planStage' = (IF cluster THEN "cluster" ELSE "built")
      /\ kind' = kind /\ ground' = ground /\ kind = "ocean_ruin"
  BY <1>1 DEF Plan, BuildOceanRuin
<1>3. m \in Nat \ {0}
  BY DEF Layers
<1>4. /\ ruin \in TemplatePieces /\ ruin.origin = <<8, 8>> /\ ruin.pivot = <<0, 0>> /\ ruin.mirror = "none"
      /\ ruin.size = (IF large THEN <<16, 16>> ELSE <<6, 7>>)
  <2>1. n \in Rotations /\ 8 \in Int /\ ruin = Ruin(<<8, 8>>, n, large) /\ ground \in Grounds
    BY DEF Rotations, DirectInv
  <2> HIDE DEF ruin
  <2> QED
    BY <2>1, RuinMade
<1> HIDE DEF ruin, m
<1>5. BoxOf(ruin) \in Boxes /\ Near(BoxOf(ruin), 3)
  <2>1. 8 \in -32 .. 47 /\ ruin.size \in {<<16, 16>>, <<6, 7>>}
    BY <1>4
  <2> QED
    BY <1>4, <2>1, RuinNear
<1>6. DOMAIN ps = 1 .. m /\ \A i \in 1 .. m : ps[i] = ruin
  OBVIOUS
<1>7. ps \in Seq(TemplatePieces) /\ ps # <<>> /\ ps[1] = ruin
  <2>1. ps \in [1 .. m -> TemplatePieces] /\ 1 \in 1 .. m
    BY <1>3, <1>4
  <2>2. ps \in Seq(TemplatePieces) /\ Len(ps) = m
    BY <1>3, <2>1, FunctionAsSeq
  <2> QED
    BY <1>3, <1>6, <2>1, <2>2
<1> HIDE DEF ps
<1>8. Found(ps, UnionOf(ps), 3)
  BY <1>3, <1>5, <1>6, UnionFound
<1>9. Found(pieces', overall', Backreach[kind'])
  BY <1>2, <1>8 DEF Backreach
<1>10. StandsOnGround'
  BY <1>2 DEF StandsOnGround
<1> QED
  BY <1>2, <1>4, <1>7, <1>9, <1>10 DEF DirectInv

\* Two boxes are in the one around both.
LEMMA UnionHolds ==
  ASSUME NEW a \in Boxes, NEW b \in Boxes, NEW r, Near(a, r), Near(b, r)
  PROVE  /\ Union(a, b) \in Boxes /\ Inside(a, Union(a, b)) /\ Inside(b, Union(a, b))
         /\ Near(Union(a, b), r)
<1> DEFINE f == [i \in 1 .. 2 |-> IF i = 1 THEN a ELSE b]
           u == Union(a, b)
           B == {a, b}
<1>1. f[1] = a /\ f[2] = b /\ 1 .. 2 = {1, 2} /\ 2 \in Nat \ {0}
  OBVIOUS
<1>2. /\ \A i \in 1 .. 2 : f[i] \in Boxes
      /\ \A i \in 1 .. 2 : f[i] \in B
      /\ \A c \in B : \E i \in 1 .. 2 : c = f[i]
  BY <1>1
<1>3. u = Around(B)
  BY DEF Union
<1> HIDE DEF f, u, B
<1>4. BoxAround(2, f, u)
  BY <1>1, <1>2, <1>3, AroundHolds
<1>5. Near(u, r)
  BY <1>1, <1>4 DEF Near, BoxAround
<1> QED
  BY <1>1, <1>4, <1>5 DEF u, BoxAround

LEMMA InsideBoth ==
  ASSUME NEW a \in Boxes, NEW b \in Boxes, NEW c \in Boxes, Inside(a, b), Inside(b, c)
  PROVE  Inside(a, c)
BY DEF Inside, Boxes

LEMMA AddRuinHolds ==
  ASSUME DirectInv, AddRuin
  PROVE  DirectInv'
<1>1. PICK slot \in slots, n \in Turns : \E d \in Shift(slot) :
        LET ruin == Ruin(Plus(Plus(Corner, <<16 * slot[1], 16 * slot[2]>>), d), n, FALSE)
            kept == ~ Overlap(BoxOf(ruin), overall)
        IN  /\ pieces' = IF kept THEN Append(pieces, ruin) ELSE pieces
            /\ overall' = IF kept THEN Union(overall, BoxOf(ruin)) ELSE overall
            /\ slots' = slots \ {slot}
  BY DEF AddRuin
<1> DEFINE Put(d) == Ruin(Plus(Plus(Corner, <<16 * slot[1], 16 * slot[2]>>), d), n, FALSE)
<1>2. PICK d \in Shift(slot) :
        /\ pieces' = IF ~ Overlap(BoxOf(Put(d)), overall) THEN Append(pieces, Put(d)) ELSE pieces
        /\ overall' = IF ~ Overlap(BoxOf(Put(d)), overall) THEN Union(overall, BoxOf(Put(d))) ELSE overall
        /\ slots' = slots \ {slot}
  BY <1>1
<1>3. /\ planStage = "cluster" /\ kind = "ocean_ruin" /\ slots \subseteq Slots
      /\ pieces \in Seq(TemplatePieces) /\ pieces # <<>>
      /\ pieces[1].origin = <<8, 8>> /\ pieces[1].pivot = <<0, 0>> /\ pieces[1].mirror = "none"
      /\ Found(pieces, overall, 3)
      /\ kind' = kind /\ ground' = ground /\ planStage' = planStage /\ ground \in Grounds
  BY DEF DirectInv, AddRuin, Backreach
<1>4. slot[1] \in {-1, 0, 1} /\ slot[2] \in {-1, 0, 1}
  <2>1. \A v \in -1 .. 1 : v \in {-1, 0, 1}
    OBVIOUS
  <2> QED
    BY <1>3, <2>1 DEF Slots
<1>5. d[1] \in 1 .. 8 /\ d[2] \in 1 .. 8
  BY DEF Shift
<1>6. /\ Len(pieces) \in Nat \ {0} /\ 1 \in 1 .. Len(pieces) /\ pieces[1] \in TemplatePieces
      /\ DOMAIN pieces = 1 .. Len(pieces)
  BY <1>3, EmptySeq, LenProperties
<1>7. PICK far \in Places : Corner = <<Min({8, far[1]}), Min({8, far[2]})>> /\ far[1] \in {-7, 8, 23} /\ far[2] \in {-7, 8, 23}
  <2> DEFINE q == WorldPos(pieces[1], <<15, 15>>)
  <2>1. PICK e \in Int : Mirrored(pieces[1], 15, e) /\ Goes(pieces[1], q, e, 15)
    BY <1>6, Turned
  <2>2. Corner = <<Min({8, q[1]}), Min({8, q[2]})>>
    BY DEF Corner
  <2> HIDE DEF q
  <2>3. e = 15
    BY <1>3, <2>1 DEF Mirrored
  <2>4. q[1] \in {-7, 8, 23} /\ q[2] \in {-7, 8, 23}
    BY <1>3, <2>1, <2>3 DEF Goes
  <2> DEFINE far == <<q[1], q[2]>>
  <2>5. far \in Places /\ far[1] = q[1] /\ far[2] = q[2]
    BY <2>4 DEF Places
  <2> QED
    BY <2>2, <2>4, <2>5
<1>8. Corner[1] \in {-7, 8} /\ Corner[2] \in {-7, 8} /\ Corner = <<Corner[1], Corner[2]>>
  <2>1. \A v \in {-7, 8, 23} : Min({8, v}) \in {-7, 8}
    BY OfTwo
  <2> QED
    BY <1>7, <2>1
<1> DEFINE x == Corner[1] + 16 * slot[1] + d[1]
           z == Corner[2] + 16 * slot[2] + d[2]
           r == Put(d)
<1>9. x \in -32 .. 47 /\ z \in -32 .. 47
  BY <1>4, <1>5, <1>8
<1>10. r = Ruin(<<x, z>>, n, FALSE)
  <2>1. Plus(Plus(Corner, <<16 * slot[1], 16 * slot[2]>>), d) = <<x, z>>
    BY DEF Plus
  <2> QED
    BY <2>1
<1> HIDE DEF r, x, z
<1>11. /\ r \in TemplatePieces /\ r.origin = <<x, z>> /\ r.pivot = <<0, 0>> /\ r.mirror = "none"
       /\ r.size = <<6, 7>>
  <2> DEFINE large == FALSE
  <2>1. n \in Rotations /\ x \in Int /\ z \in Int /\ large \in BOOLEAN /\ ~ large
    BY <1>9, DirectAssumption DEF Rotations
  <2>2. r = Ruin(<<x, z>>, n, large)
    BY <1>10
  <2> HIDE DEF large
  <2>3. /\ r \in TemplatePieces /\ r.origin = <<x, z>> /\ r.pivot = <<0, 0>> /\ r.mirror = "none"
        /\ r.size = (IF large THEN <<16, 16>> ELSE <<6, 7>>)
    BY <1>3, <2>1, <2>2, RuinMade
  <2> QED
    BY <2>1, <2>3
<1>12. BoxOf(r) \in Boxes /\ Near(BoxOf(r), 3)
  <2>1. r.size \in {<<16, 16>>, <<6, 7>>}
    BY <1>11
  <2> QED
    BY <1>9, <1>11, <2>1, RuinNear
<1>13. slots' \subseteq Slots
  BY <1>2, <1>3
<1>14. StandsOnGround'
  BY <1>3 DEF StandsOnGround
<1>15. CASE Overlap(BoxOf(r), overall)
  <2>1. pieces' = pieces /\ overall' = overall
    BY <1>2, <1>15 DEF r
  <2> QED
    BY <1>3, <1>13, <1>14, <2>1 DEF DirectInv, Backreach
<1>16. CASE ~ Overlap(BoxOf(r), overall)
  <2> DEFINE b == BoxOf(r)
             u == Union(overall, b)
  <2>1. pieces' = Append(pieces, r) /\ overall' = u
    BY <1>2, <1>16 DEF r
  <2>2. /\ Append(pieces, r) \in Seq(TemplatePieces)
        /\ Len(Append(pieces, r)) = Len(pieces) + 1
        /\ \A i \in 1 .. Len(pieces) : Append(pieces, r)[i] = pieces[i]
        /\ Append(pieces, r)[Len(pieces) + 1] = r
    BY <1>3, <1>11, AppendProperties
  <2>3. DOMAIN Append(pieces, r) = 1 .. Len(pieces) + 1
    BY <2>2, LenProperties
  <2>4. overall \in Boxes /\ Near(overall, 3) /\ \A i \in 1 .. Len(pieces) : BoxOf(pieces[i]) \in Boxes /\ Inside(BoxOf(pieces[i]), overall)
    BY <1>3, <1>6 DEF Found
  <2>5. u \in Boxes /\ Inside(overall, u) /\ Inside(b, u) /\ Near(u, 3)
    BY <1>12, <2>4, UnionHolds
  <2> DEFINE ps == Append(pieces, r)
  <2> HIDE DEF u, b, ps
  <2>6. ASSUME NEW i \in 1 .. Len(pieces) + 1 PROVE BoxOf(ps[i]) \in Boxes /\ Inside(BoxOf(ps[i]), u)
    <3>1. CASE i = Len(pieces) + 1
      BY <1>12, <2>2, <2>5, <3>1 DEF b, ps
    <3>2. CASE i # Len(pieces) + 1
      <4>1. i \in 1 .. Len(pieces)
        BY <1>6, <3>2
      <4>2. ps[i] = pieces[i] /\ BoxOf(pieces[i]) \in Boxes /\ Inside(BoxOf(pieces[i]), overall)
        BY <2>2, <2>4, <4>1 DEF ps
      <4>3. Inside(BoxOf(pieces[i]), u)
        BY <2>4, <2>5, <4>2, InsideBoth
      <4> QED
        BY <4>2, <4>3
    <3> QED
      BY <3>1, <3>2
  <2>7. Found(ps, u, 3)
    BY <2>3, <2>5, <2>6 DEF Found, ps
  <2>8. Found(pieces', overall', Backreach[kind'])
    BY <1>3, <2>1, <2>7 DEF Backreach, ps
  <2>9. pieces' \in Seq(TemplatePieces) /\ pieces'[1] = pieces[1] /\ pieces' # <<>>
    BY <1>6, <2>1, <2>2
  <2> QED
    BY <1>3, <1>13, <1>14, <2>8, <2>9 DEF DirectInv
<1> QED
  BY <1>15, <1>16

LEMMA EndClusterHolds ==
  ASSUME DirectInv, EndCluster
  PROVE  DirectInv'
BY DEF DirectInv, EndCluster, StandsOnGround
-----------------------------------------------------------------------------
\* Huts and igloos. A position of a template is in its box.
LEMMA PositionInBox ==
  ASSUME NEW p \in TemplatePieces, NEW x \in Int, NEW z \in Int, 0 <= x, x < p.size[1], 0 <= z, z < p.size[2]
  PROVE  WorldPos(p, <<x, z>>) \in Columns(WorldBox(p))
<1> DEFINE q == WorldPos(p, <<x, z>>)
           b == WorldBox(p)
<1>1. PICK e \in Int : Mirrored(p, x, e) /\ Goes(p, q, e, z)
  BY Turned
<1>2. PICK lo \in Int, hi \in Int : lo <= hi /\ Width(p, lo, hi) /\ Spans(p, b, lo, hi)
  BY TurnedBox
<1>3. /\ p.origin[1] \in Int /\ p.origin[2] \in Int /\ p.pivot[1] \in Int /\ p.pivot[2] \in Int
      /\ p.size[1] \in Int /\ p.size[2] \in Int
  BY DEF TemplatePieces, Places, Sizes
<1>4. q = <<q[1], q[2]>>
  BY DEF WorldPos, Plus
<1> HIDE DEF q, b
<1>5. lo <= e /\ e <= hi
  BY <1>1, <1>2, <1>3 DEF Mirrored, Width
<1>6. /\ b.x0 <= q[1] /\ q[1] <= b.x1 /\ b.z0 <= q[2] /\ q[2] <= b.z1
      /\ q[1] \in Int /\ q[2] \in Int /\ b.x0 \in Int /\ b.x1 \in Int /\ b.z0 \in Int /\ b.z1 \in Int
  BY <1>1, <1>2, <1>3, <1>5 DEF Goes, Spans
<1>7. q[1] \in b.x0 .. b.x1 /\ q[2] \in b.z0 .. b.z1
  BY <1>6
<1>8. q \in Columns(b)
  BY <1>4, <1>7 DEF Columns
<1> QED
  BY <1>8 DEF q, b

LEMMA PositionIsPlace ==
  ASSUME NEW p \in TemplatePieces, NEW x \in Int, NEW z \in Int
  PROVE  /\ WorldPos(p, <<x, z>>) = <<WorldPos(p, <<x, z>>)[1], WorldPos(p, <<x, z>>)[2]>>
         /\ WorldPos(p, <<x, z>>)[1] \in Int /\ WorldPos(p, <<x, z>>)[2] \in Int
<1> DEFINE q == WorldPos(p, <<x, z>>)
<1>1. PICK e \in Int : Mirrored(p, x, e) /\ Goes(p, q, e, z)
  BY Turned
<1>2. /\ p.origin[1] \in Int /\ p.origin[2] \in Int /\ p.pivot[1] \in Int /\ p.pivot[2] \in Int
  BY DEF TemplatePieces, Places
<1>3. q = <<q[1], q[2]>>
  BY DEF WorldPos, Plus
<1> HIDE DEF q
<1>4. q[1] \in Int /\ q[2] \in Int
  BY <1>1, <1>2 DEF Goes
<1> QED
  BY <1>3, <1>4 DEF q

LEMMA SwampHutHolds ==
  ASSUME DirectInv, BuildSwampHut
  PROVE  DirectInv'
<1> DEFINE y == Max({MinY + 1, Within(ground.top - 1)})
           Hut(n) == Piece("hut", <<0, 0>>, y, <<7, 9>>, 5, n, <<0, 0>>)
<1>1. PICK n \in 0 .. 3 : Built(<<[Hut(n) EXCEPT !.legs = Legs(Hut(n))]>>, {<<8, 8>>})
  BY DEF BuildSwampHut
<1> DEFINE hut == Hut(n)
           p == [hut EXCEPT !.legs = Legs(hut)]
           ps == <<p>>
<1>2. Built(ps, {<<8, 8>>}) /\ kind = "swamp_hut" /\ ground \in Grounds
  BY <1>1 DEF BuildSwampHut, DirectInv
<1>3. y \in Int
  <2>1. MinY + 1 \in Int /\ ground.top - 1 \in Int
    BY <1>2, DirectAssumption
  <2>2. Within(ground.top - 1) \in Int
    BY <2>1, WithinWorld
  <2> QED
    BY <2>1, <2>2, OfTwo
<1>4. hut = Piece("hut", <<0, 0>>, y, <<7, 9>>, 5, n, <<0, 0>>)
  OBVIOUS
<1> HIDE DEF hut, y
<1>5. /\ hut \in TemplatePieces /\ hut.origin = <<0, 0>> /\ hut.size = <<7, 9>> /\ hut.mirror = "none"
      /\ hut.pivot = <<0, 0>> /\ hut.y = y /\ hut.h = 5
  BY <1>3, <1>4 DEF Piece, TemplatePieces, Places, Sizes, Templates, Rotations
<1>6. /\ p.y = y /\ p.h = 5 /\ p.legs = Legs(hut)
      /\ \A f : WorldPos(p, f) = WorldPos(hut, f)
      /\ WorldBox(p) = WorldBox(hut)
  <2>1. /\ p.origin = hut.origin /\ p.size = hut.size /\ p.rotation = hut.rotation /\ p.mirror = hut.mirror
        /\ p.pivot = hut.pivot /\ p.useTemplateTransform = hut.useTemplateTransform
        /\ p.y = y /\ p.h = 5 /\ p.legs = Legs(hut)
    BY <1>5 DEF TemplatePieces
  <2> HIDE DEF p
  <2>2. \A f : WorldPos(p, f) = WorldPos(hut, f)
    BY <2>1 DEF WorldPos
  <2>3. WorldBox(p) = WorldBox(hut)
    BY <2>1, <2>2 DEF WorldBox
  <2> QED
    BY <2>1, <2>2, <2>3
<1>7. DOMAIN ps = 1 .. 1 /\ ps[1] = p /\ 1 \in Nat \ {0}
  OBVIOUS
<1> HIDE DEF p, ps
<1>8. \A f \in Feet : /\ WorldPos(hut, f) \in Columns(WorldBox(hut))
                      /\ WorldPos(hut, f)[1] \in Int /\ WorldPos(hut, f)[2] \in Int
  <2>1. ASSUME NEW x \in {1, 5}, NEW z \in {2, 7}
        PROVE  /\ WorldPos(hut, <<x, z>>) \in Columns(WorldBox(hut))
               /\ WorldPos(hut, <<x, z>>)[1] \in Int /\ WorldPos(hut, <<x, z>>)[2] \in Int
    <3>1. x \in Int /\ z \in Int /\ 0 <= x /\ x < hut.size[1] /\ 0 <= z /\ z < hut.size[2]
      BY <1>5
    <3> QED
      BY <1>5, <3>1, PositionInBox, PositionIsPlace
  <2> QED
    BY <2>1 DEF Feet
<1> DEFINE S == {p.y} \cup {c[2] : c \in LegBlocks(p)}
<1>9. S # {} /\ S \subseteq Int /\ Min(S) \in Int
  <2>1. \A f \in Feet : GroundAt(WorldPos(hut, f)) \in Int /\ MinY <= GroundAt(WorldPos(hut, f))
    BY <1>2, <1>8, GroundInWorld, DirectAssumption
  <2>2. \A l \in p.legs : l.y0 \in Int /\ l.y1 \in Int /\ MinY - 1 <= l.y0
    <3>1. MinY \in Int
      BY DirectAssumption
    <3>2. hut.y - 1 \in Int
      BY <1>3, <1>5
    <3>3. ASSUME NEW l \in Legs(hut) PROVE l.y0 \in Int /\ l.y1 \in Int /\ MinY - 1 <= l.y0
      <4>1. PICK f \in Feet : l = [at |-> WorldPos(hut, f), y0 |-> GroundAt(WorldPos(hut, f)) - 1, y1 |-> hut.y - 1]
        BY DEF Legs
      <4>2. l.y0 = GroundAt(WorldPos(hut, f)) - 1 /\ l.y1 = hut.y - 1
        BY <4>1
      <4> QED
        BY <2>1, <3>1, <3>2, <4>2
    <3> QED
      BY <1>6, <3>3
  <2>3. \A c \in LegBlocks(p) : c[2] \in Int /\ MinY - 1 <= c[2]
    <3>1. ASSUME NEW c \in LegBlocks(p) PROVE c[2] \in Int /\ MinY - 1 <= c[2]
      <4>1. PICK l \in p.legs : c \in {<<l.at[1], v, l.at[2]>> : v \in l.y0 .. l.y1}
        BY DEF LegBlocks
      <4>2. PICK v \in l.y0 .. l.y1 : c = <<l.at[1], v, l.at[2]>>
        BY <4>1
      <4>3. c[2] = v /\ MinY \in Int
        BY <4>2, DirectAssumption
      <4> QED
        BY <2>2, <4>3
    <3> QED
      BY <3>1
  <2>4. MinY \in Int
    BY DirectAssumption
  <2>5. S # {} /\ S \subseteq Int
    BY <1>3, <1>6, <2>3
  <2>6. PICK low \in Int : low <= MinY - 1 /\ low <= y
    <3>1. MinY - 1 <= y \/ y <= MinY - 1
      BY <1>3, <2>4
    <3> QED
      BY <1>3, <2>4, <3>1
  <2>7. \A v \in S : low <= v
    BY <1>3, <1>6, <2>3, <2>4, <2>6
  <2> HIDE DEF S
  <2>8. Min(S) \in S
    BY <2>5, <2>6, <2>7, LeastAbove
  <2> QED
    BY <2>5, <2>8
<1>10. BoxOf(p) \in Boxes /\ Near(BoxOf(p), 1)
  <2> DEFINE b == WorldBox(hut)
  <2>1. PICK lo \in Int, hi \in Int : lo <= hi /\ Width(hut, lo, hi) /\ Spans(hut, b, lo, hi)
    BY <1>5, TurnedBox
  <2>2. BoxOf(p) = [x0 |-> b.x0, z0 |-> b.z0, x1 |-> b.x1, z1 |-> b.z1, y0 |-> Min(S), y1 |-> p.y + p.h - 1]
    BY <1>6 DEF BoxOf
  <2> HIDE DEF b, S
  <2>3. /\ b.x0 \in -16 .. 31 /\ b.x1 \in -16 .. 31 /\ b.z0 \in -16 .. 31 /\ b.z1 \in -16 .. 31
    BY <1>5, <2>1 DEF Width, Spans
  <2>4. p.y + p.h - 1 \in Int
    BY <1>3, <1>6
  <2>5. BoxOf(p) \in Boxes
    BY <1>9, <2>2, <2>3, <2>4 DEF Boxes
  <2>6. Near(BoxOf(p), 1)
    BY <2>2, <2>3 DEF Near
  <2> QED
    BY <2>5, <2>6
<1>11. /\ pieces' = ps /\ kind' = "swamp_hut" /\ ground' = ground
  BY <1>2 DEF Built, Plan
<1>14. StandsOnGround'
  BY <1>11 DEF StandsOnGround
<1>15. \A i \in 1 .. 1 : BoxOf(ps[i]) \in Boxes /\ Near(BoxOf(ps[i]), Backreach[kind])
  BY <1>2, <1>7, <1>10 DEF Backreach
<1> QED
  BY <1>2, <1>7, <1>14, <1>15, PlanHolds
\* A piece of an igloo: its floor, the laboratory, or what is between.
IglooPiece(p, what, y, h) ==
  /\ p \in TemplatePieces /\ p.mirror = "none"
  /\ p.what = what /\ p.y = y /\ p.h = h
  /\ \/ what = "top" /\ p.origin = <<0, 0>> /\ p.size = <<7, 8>> /\ p.pivot = <<3, 5>>
     \/ what = "bottom" /\ p.origin = <<0, -2>> /\ p.size = <<7, 9>> /\ p.pivot = <<3, 7>>
     \/ what = "middle" /\ p.origin = <<2, 4>> /\ p.size = <<3, 3>> /\ p.pivot = <<1, 1>>
IglooPieces(ps, depth, sink) ==
  /\ DOMAIN ps = 1 .. depth + 1
  /\ IglooPiece(ps[1], "top", 90 + sink, 5)
  /\ depth # 0 => IglooPiece(ps[2], "bottom", 87 - 3 * depth + sink, 6)
  /\ \A i \in 3 .. depth + 1 : IglooPiece(ps[i], "middle", 87 - 3 * (i - 3) + sink, 3)

LEMMA IglooMade ==
  ASSUME NEW n \in Rotations, NEW depth \in {0} \cup 4 .. 11, NEW sink \in Int,
         NEW ps, ps = <<Raised(IglooTop(n), 90 + sink)>> \o (IF depth = 0 THEN <<>> ELSE Laboratory(depth, sink, n))
  PROVE  IglooPieces(ps, depth, sink)
<1> DEFINE plain == IglooTop(n)
           top == Raised(plain, 90 + sink)
           bottom == Piece("bottom", <<0, -2>>, 90 - 3 * depth - 3 + sink, <<7, 9>>, 6, n, <<3, 7>>)
           Middle(i) == Piece("middle", <<2, 4>>, 90 - 3 * (i - 1) - 3 + sink, <<3, 3>>, 3, n, <<1, 1>>)
           middles == [i \in 1 .. depth - 1 |-> Middle(i)]
<1>1. IglooPiece(top, "top", 90 + sink, 5)
  <2>1. plain = Piece("top", <<0, 0>>, 90, <<7, 8>>, 5, n, <<3, 5>>)
    BY DEF IglooTop
  <2> HIDE DEF plain
  <2>2. /\ plain \in TemplatePieces /\ plain.mirror = "none" /\ plain.what = "top" /\ plain.h = 5
        /\ plain.origin = <<0, 0>> /\ plain.size = <<7, 8>> /\ plain.pivot = <<3, 5>>
    BY <2>1 DEF Piece, TemplatePieces, Places, Sizes, Templates
  <2> DEFINE y == 90 + sink
  <2>3. top = Raised(plain, y) /\ y \in Int
    OBVIOUS
  <2> HIDE DEF top, plain, y
  <2>4. /\ top \in TemplatePieces /\ top.mirror = "none" /\ top.what = "top" /\ top.y = y /\ top.h = 5
        /\ top.origin = <<0, 0>> /\ top.size = <<7, 8>> /\ top.pivot = <<3, 5>>
    BY <2>2, <2>3 DEF Raised, TemplatePieces
  <2>5. y = 90 + sink
    BY DEF y
  <2> QED
    BY <2>4, <2>5 DEF IglooPiece
<1>2. IglooPiece(bottom, "bottom", 87 - 3 * depth + sink, 6)
  <2>1. bottom = Piece("bottom", <<0, -2>>, 90 - 3 * depth - 3 + sink, <<7, 9>>, 6, n, <<3, 7>>)
    OBVIOUS
  <2> HIDE DEF bottom
  <2>2. /\ bottom \in TemplatePieces /\ bottom.mirror = "none" /\ bottom.what = "bottom" /\ bottom.h = 6
        /\ bottom.y = 90 - 3 * depth - 3 + sink
        /\ bottom.origin = <<0, -2>> /\ bottom.size = <<7, 9>> /\ bottom.pivot = <<3, 7>>
    BY <2>1 DEF Piece, TemplatePieces, Places, Sizes, Templates
  <2> QED
    BY <2>2 DEF IglooPiece
<1>3. ASSUME NEW i \in Nat PROVE IglooPiece(Middle(i), "middle", 87 - 3 * (i - 1) + sink, 3)
  <2> DEFINE p == Middle(i)
  <2>1. p = Piece("middle", <<2, 4>>, 90 - 3 * (i - 1) - 3 + sink, <<3, 3>>, 3, n, <<1, 1>>)
    OBVIOUS
  <2> HIDE DEF p
  <2>2. /\ p \in TemplatePieces /\ p.mirror = "none" /\ p.what = "middle" /\ p.h = 3
        /\ p.y = 90 - 3 * (i - 1) - 3 + sink
        /\ p.origin = <<2, 4>> /\ p.size = <<3, 3>> /\ p.pivot = <<1, 1>>
    BY <2>1 DEF Piece, TemplatePieces, Places, Sizes, Templates
  <2>3. IglooPiece(p, "middle", 87 - 3 * (i - 1) + sink, 3)
    BY <2>2 DEF IglooPiece
  <2> QED
    BY <2>3 DEF p
<1>4. Laboratory(depth, sink, n) = <<bottom>> \o middles
  BY DEF Laboratory
<1>5. /\ DOMAIN middles = 1 .. depth - 1
      /\ \A i \in 1 .. depth - 1 : middles[i] = Middle(i)
  OBVIOUS
<1> DEFINE S == {top, bottom} \cup {middles[i] : i \in 1 .. depth - 1}
<1>6. middles \in [1 .. depth - 1 -> S] /\ top \in S /\ bottom \in S
  OBVIOUS
<1> HIDE DEF top, bottom, middles, Middle, S
<1>7. CASE depth = 0
  <2>1. ps = <<top>> \o <<>>
    BY <1>7 DEF top
  <2>3. <<top>> \in Seq(S)
    BY <1>6
  <2>2. ps = <<top>>
    BY <2>1, <2>3, ConcatEmptySeq
  <2> QED
    BY <1>1, <1>7, <2>2 DEF IglooPieces
<1>8. CASE depth # 0
  <2> DEFINE lab == <<bottom>> \o middles
  <2>1. ps = <<top>> \o lab /\ depth - 1 \in Nat
    BY <1>4, <1>8 DEF top
  <2>2. middles \in Seq(S) /\ Len(middles) = depth - 1
    BY <1>6, <2>1, FunctionAsSeq
  <2>3. <<bottom>> \in Seq(S) /\ Len(<<bottom>>) = 1 /\ <<bottom>>[1] = bottom
    BY <1>6
  <2>4. <<top>> \in Seq(S) /\ Len(<<top>>) = 1 /\ <<top>>[1] = top
    BY <1>6
  <2>5. /\ lab \in Seq(S) /\ Len(lab) = depth
        /\ \A i \in 1 .. depth : lab[i] = IF i <= 1 THEN <<bottom>>[i] ELSE middles[i - 1]
    BY <2>2, <2>3, ConcatProperties
  <2> HIDE DEF lab
  <2>6. /\ ps \in Seq(S) /\ Len(ps) = depth + 1
        /\ ps[1] = top /\ \A i \in 2 .. depth + 1 : ps[i] = lab[i - 1]
    <3> DEFINE first == <<top>>
    <3> HIDE DEF first
    <3>1. /\ first \o lab \in Seq(S)
          /\ Len(first \o lab) = Len(first) + Len(lab)
          /\ \A i \in 1 .. Len(first) + Len(lab) :
               (first \o lab)[i] = IF i <= Len(first) THEN first[i] ELSE lab[i - Len(first)]
      BY <2>4, <2>5, ConcatProperties DEF first
    <3>2. Len(first) = 1 /\ first[1] = top /\ Len(lab) = depth /\ 1 + depth = depth + 1 /\ ps = first \o lab
      <4>1. Len(first) = 1 /\ first[1] = top
        BY <2>4 DEF first
      <4>2. ps = first \o lab
        BY <2>1 DEF first
      <4>3. Len(lab) = depth /\ 1 + depth = depth + 1
        BY <2>5
      <4> QED
        BY <4>1, <4>2, <4>3
    <3>3. /\ \A i \in 2 .. depth + 1 : i \in 1 .. Len(first) + Len(lab) /\ ~ (i <= Len(first))
          /\ 1 \in 1 .. Len(first) + Len(lab) /\ 1 <= Len(first)
      BY <3>2
    <3>4. /\ (first \o lab)[1] = first[1]
          /\ \A i \in 2 .. depth + 1 : (first \o lab)[i] = lab[i - Len(first)]
      BY <3>1, <3>3
    <3> QED
      BY <3>1, <3>2, <3>4
  <2>8. ps[2] = bottom
    BY <1>8, <2>3, <2>5, <2>6
  <2>9. ASSUME NEW i \in 3 .. depth + 1 PROVE IglooPiece(ps[i], "middle", 87 - 3 * (i - 3) + sink, 3)
    <3>1. /\ i - 2 \in 1 .. depth - 1 /\ i - 1 \in 1 .. depth /\ i \in 1 .. depth + 1
          /\ ~ (i - 1 <= 1) /\ ~ (i <= 1) /\ (i - 1) - 1 = i - 2 /\ (i - 2) - 1 = i - 3 /\ i - 2 \in Nat
      OBVIOUS
    <3>2. ps[i] = Middle(i - 2)
      <4>1. ps[i] = lab[i - 1]
        BY <2>6
      <4>2. lab[i - 1] = middles[(i - 1) - 1]
        BY <2>5, <3>1
      <4> QED
        BY <1>5, <3>1, <4>1, <4>2
    <3>3. IglooPiece(Middle(i - 2), "middle", 87 - 3 * ((i - 2) - 1) + sink, 3)
      BY <1>3, <3>1
    <3> QED
      BY <3>1, <3>2, <3>3
  <2>10. DOMAIN ps = 1 .. depth + 1
    BY <2>6, LenProperties
  <2> QED
    BY <1>1, <1>2, <2>6, <2>8, <2>9, <2>10 DEF IglooPieces
<1> QED
  BY <1>7, <1>8

\* Wherever its pieces are turned, the ladder of an igloo is in one column.
OnLadder(p) ==
  /\ BoxOf(p) \in Boxes /\ Near(BoxOf(p), 1)
  /\ WorldPos(p, LadderIn[p.what]) = <<3, 5>>
  /\ BoxOf(p).y0 = p.y /\ BoxOf(p).y1 = p.y + p.h - 1

LEMMA LadderHolds ==
  ASSUME NEW what, NEW y, NEW h, NEW p, IglooPiece(p, what, y, h)
  PROVE  OnLadder(p)
<1>1. /\ p \in TemplatePieces /\ p.mirror = "none"
      /\ \/ /\ p.what = "top" /\ p.origin = <<0, 0>> /\ p.size = <<7, 8>> /\ p.pivot = <<3, 5>>
         \/ /\ p.what = "bottom" /\ p.origin = <<0, -2>> /\ p.size = <<7, 9>> /\ p.pivot = <<3, 7>>
         \/ /\ p.what = "middle" /\ p.origin = <<2, 4>> /\ p.size = <<3, 3>> /\ p.pivot = <<1, 1>>
  BY DEF IglooPiece
<1>2. PICK x \in Int, z \in Int :
        /\ LadderIn[p.what] = <<x, z>>
        /\ \/ p.what = "top" /\ x = 3 /\ z = 5
           \/ p.what = "bottom" /\ x = 3 /\ z = 7
           \/ p.what = "middle" /\ x = 1 /\ z = 1
  BY <1>1 DEF LadderIn
<1> DEFINE q == WorldPos(p, <<x, z>>)
           b == WorldBox(p)
<1>3. PICK e \in Int : Mirrored(p, x, e) /\ Goes(p, q, e, z)
  BY <1>1, Turned
<1>4. q = <<q[1], q[2]>>
  BY <1>1, PositionIsPlace
<1>5. PICK lo \in Int, hi \in Int : lo <= hi /\ Width(p, lo, hi) /\ Spans(p, b, lo, hi)
  BY <1>1, TurnedBox
<1> HIDE DEF q, b
<1>6. e = x
  BY <1>1, <1>3 DEF Mirrored
<1>7. q[1] = 3 /\ q[2] = 5
  BY <1>1, <1>2, <1>3, <1>6 DEF Goes
<1>8. WorldPos(p, LadderIn[p.what]) = <<3, 5>>
  BY <1>2, <1>4, <1>7 DEF q
<1>9. /\ b.x0 \in -16 .. 31 /\ b.x1 \in -16 .. 31 /\ b.z0 \in -16 .. 31 /\ b.z1 \in -16 .. 31
  <2>1. lo = 0 /\ hi = p.size[1] - 1
    BY <1>1, <1>5 DEF Width
  <2> DEFINE ox == p.origin[1]
             oz == p.origin[2]
             px == p.pivot[1]
             pz == p.pivot[2]
             l == p.size[2] - 1
  <2>2. \/ ox = 0 /\ oz = 0 /\ px = 3 /\ pz = 5 /\ hi = 6 /\ l = 7
        \/ ox = 0 /\ oz = -2 /\ px = 3 /\ pz = 7 /\ hi = 6 /\ l = 8
        \/ ox = 2 /\ oz = 4 /\ px = 1 /\ pz = 1 /\ hi = 2 /\ l = 2
    BY <1>1, <2>1
  <2>3. \/ b.x0 = ox + lo /\ b.x1 = ox + hi /\ b.z0 = oz /\ b.z1 = oz + l
        \/ b.x0 = ox + px + pz - l /\ b.x1 = ox + px + pz /\ b.z0 = oz + pz - px + lo /\ b.z1 = oz + pz - px + hi
        \/ b.x0 = ox + 2 * px - hi /\ b.x1 = ox + 2 * px - lo /\ b.z0 = oz + 2 * pz - l /\ b.z1 = oz + 2 * pz
        \/ b.x0 = ox + px - pz /\ b.x1 = ox + px - pz + l /\ b.z0 = oz + px + pz - hi /\ b.z1 = oz + px + pz - lo
    BY <1>5 DEF Spans
  <2> HIDE DEF ox, oz, px, pz, l
  <2>4. ox \in Int /\ oz \in Int /\ px \in Int /\ pz \in Int /\ l \in Int
    BY <2>2
  <2>5. /\ ox \in 0 .. 2 /\ oz \in -2 .. 4 /\ px \in 1 .. 3 /\ pz \in 1 .. 7 /\ lo = 0 /\ hi \in 0 .. 6 /\ l \in 0 .. 8
    BY <2>1, <2>2
  <2> QED
    BY <2>3, <2>4, <2>5
<1>10. /\ BoxOf(p) \in Boxes
       /\ BoxOf(p).y0 = p.y /\ BoxOf(p).y1 = p.y + p.h - 1
       /\ BoxOf(p).x0 = WorldBox(p).x0 /\ BoxOf(p).x1 = WorldBox(p).x1
       /\ BoxOf(p).z0 = WorldBox(p).z0 /\ BoxOf(p).z1 = WorldBox(p).z1
       /\ Flat(WorldBox(p))
  BY <1>1, PlainBox
<1>11. Near(BoxOf(p), 1)
  <2>1. \A v \in {b.x0, b.x1, b.z0, b.z1} : v \in -16 * 1 .. 16 * 1 + 15
    BY <1>9
  <2> QED
    BY <1>10, <2>1 DEF Near, b
<1> QED
  BY <1>8, <1>10, <1>11 DEF OnLadder
\* From the lowest block of the laboratory to the roof there is a piece at every
\* height.
LEMMA HeightsCovered ==
  ASSUME NEW depth \in {0} \cup 4 .. 11, NEW sink \in Int, NEW ps, IglooPieces(ps, depth, sink),
         \A i \in 1 .. depth + 1 : OnLadder(ps[i]),
         NEW box, box \in Boxes,
         \A i \in 1 .. depth + 1 : box.y0 <= BoxOf(ps[i]).y0 /\ BoxOf(ps[i]).y1 <= box.y1,
         \E i \in 1 .. depth + 1 : box.y0 = BoxOf(ps[i]).y0,
         \E i \in 1 .. depth + 1 : box.y1 = BoxOf(ps[i]).y1
  PROVE  UNION {BoxOf(ps[i]).y0 .. BoxOf(ps[i]).y1 : i \in DOMAIN ps} = box.y0 .. box.y1
<1>1. /\ DOMAIN ps = 1 .. depth + 1 /\ depth \in Nat
      /\ BoxOf(ps[1]).y0 = 90 + sink /\ BoxOf(ps[1]).y1 = 94 + sink
  <2>1. OnLadder(ps[1]) /\ IglooPiece(ps[1], "top", 90 + sink, 5)
    BY DEF IglooPieces
  <2> QED
    BY <2>1 DEF IglooPieces, IglooPiece, OnLadder
<1>2. depth # 0 => BoxOf(ps[2]).y0 = 87 - 3 * depth + sink /\ BoxOf(ps[2]).y1 = 92 - 3 * depth + sink
  <2> SUFFICES ASSUME depth # 0
               PROVE  BoxOf(ps[2]).y0 = 87 - 3 * depth + sink /\ BoxOf(ps[2]).y1 = 92 - 3 * depth + sink
    OBVIOUS
  <2>1. 2 \in 1 .. depth + 1 /\ IglooPiece(ps[2], "bottom", 87 - 3 * depth + sink, 6)
    BY DEF IglooPieces
  <2>2. OnLadder(ps[2])
    BY <2>1
  <2> QED
    BY <2>1, <2>2 DEF IglooPiece, OnLadder
<1>3. ASSUME NEW i \in 3 .. depth + 1
      PROVE  BoxOf(ps[i]).y0 = 87 - 3 * (i - 3) + sink /\ BoxOf(ps[i]).y1 = 89 - 3 * (i - 3) + sink
  <2>1. i \in 1 .. depth + 1 /\ IglooPiece(ps[i], "middle", 87 - 3 * (i - 3) + sink, 3)
    BY DEF IglooPieces
  <2>2. OnLadder(ps[i])
    BY <2>1
  <2> QED
    BY <2>1, <2>2 DEF IglooPiece, OnLadder
<1> DEFINE low(i) == BoxOf(ps[i]).y0
           high(i) == BoxOf(ps[i]).y1
<1>4. \A i \in 1 .. depth + 1 : low(i) \in Int /\ high(i) \in Int /\ box.y0 \in Int /\ box.y1 \in Int
  BY DEF OnLadder, Boxes
<1>5. ASSUME NEW v \in box.y0 .. box.y1 PROVE \E i \in 1 .. depth + 1 : v \in low(i) .. high(i)
  <2>0. 1 \in 1 .. depth + 1 /\ v \in Int
    BY <1>1
  <2>1. box.y1 = 94 + sink
    <3>1. PICK i \in 1 .. depth + 1 : box.y1 = high(i)
      OBVIOUS
    <3>2. high(1) <= box.y1
      BY <2>0
    <3>3. i = 1 \/ (i = 2 /\ depth # 0) \/ i \in 3 .. depth + 1
      BY <1>1
    <3>4. high(i) <= 94 + sink
      <4>1. CASE i = 1
        BY <1>1, <4>1
      <4>2. CASE i = 2 /\ depth # 0
        BY <1>1, <1>2, <4>2
      <4>3. CASE i \in 3 .. depth + 1
        BY <1>3, <4>3
      <4> QED
        BY <3>3, <4>1, <4>2, <4>3
    <3> QED
      BY <1>1, <1>4, <2>0, <3>1, <3>2, <3>4
  <2>2. CASE v >= 90 + sink
    BY <1>1, <2>0, <2>1, <2>2
  <2>3. CASE v < 90 + sink
    <3>1. PICK i \in 1 .. depth + 1 : box.y0 = low(i)
      OBVIOUS
    <3>2. i # 1 /\ depth # 0
      <4>1. low(i) <= v
        BY <1>4, <3>1
      <4>2. i # 1
        BY <1>1, <1>4, <2>0, <2>3, <4>1
      <4> QED
        BY <4>2
    <3>3. 2 \in 1 .. depth + 1 /\ depth \in 4 .. 11
      BY <3>2
    <3>4. v >= 87 - 3 * depth + sink
      <4>1. i = 2 \/ i \in 3 .. depth + 1
        BY <3>2
      <4>2. low(i) >= 87 - 3 * depth + sink
        <5>1. CASE i = 2
          BY <1>2, <3>2, <5>1
        <5>2. CASE i \in 3 .. depth + 1
          BY <1>3, <5>2
        <5> QED
          BY <4>1, <5>1, <5>2
      <4> QED
        BY <1>4, <3>1, <3>3, <4>2
    <3>5. CASE v <= 92 - 3 * depth + sink
      BY <1>2, <2>0, <3>2, <3>3, <3>4, <3>5
    <3>6. CASE v > 92 - 3 * depth + sink
      <4> DEFINE m == (92 + sink - v) \div 3
      <4>1. m \in Int /\ 3 * m <= 92 + sink - v /\ 92 + sink - v <= 3 * m + 2
        BY <2>0
      <4> HIDE DEF m
      <4>2. m + 2 \in 3 .. depth + 1 /\ m + 2 \in 1 .. depth + 1 /\ (m + 2) - 3 = m - 1
        BY <2>0, <2>3, <3>3, <3>6, <4>1
      <4>3. low(m + 2) = 87 - 3 * ((m + 2) - 3) + sink /\ high(m + 2) = 89 - 3 * ((m + 2) - 3) + sink
        BY <1>3, <4>2
      <4>4. v \in low(m + 2) .. high(m + 2)
        BY <2>0, <4>1, <4>2, <4>3
      <4> QED
        BY <4>2, <4>4
    <3> QED
      BY <2>0, <3>5, <3>6
  <2> QED
    BY <2>0, <2>2, <2>3
<1>6. ASSUME NEW i \in 1 .. depth + 1, NEW v \in low(i) .. high(i) PROVE v \in box.y0 .. box.y1
  BY <1>4
<1> QED
  BY <1>1, <1>5, <1>6

LEMMA IglooHolds ==
  ASSUME DirectInv, BuildIgloo
  PROVE  DirectInv'
<1> DEFINE Sink(n) == GroundAt(Entrance(n)) - 91
           Parts(n, depth) ==
             <<Raised(IglooTop(n), 90 + Sink(n))>> \o (IF depth = 0 THEN <<>> ELSE Laboratory(depth, Sink(n), n))
<1>1. PICK n \in 0 .. 3, depth \in {0} \cup 4 .. 11 : Built(Parts(n, depth), {Entrance(n)})
  BY DEF BuildIgloo
<1> DEFINE ps == Parts(n, depth)
           sink == Sink(n)
<1>2. kind = "igloo" /\ ground \in Grounds /\ n \in Rotations /\ Built(ps, {Entrance(n)})
  BY <1>1 DEF BuildIgloo, DirectInv, Rotations
<1>3. ps = <<Raised(IglooTop(n), 90 + sink)>> \o (IF depth = 0 THEN <<>> ELSE Laboratory(depth, sink, n))
  OBVIOUS
<1> DEFINE plain == IglooTop(n)
           e == Entrance(n)
<1>4. /\ plain \in TemplatePieces /\ plain.origin = <<0, 0>> /\ plain.size = <<7, 8>> /\ plain.mirror = "none"
      /\ plain.pivot = <<3, 5>> /\ plain.rotation = n
  <2>1. plain = Piece("top", <<0, 0>>, 90, <<7, 8>>, 5, n, <<3, 5>>)
    BY DEF IglooTop
  <2> HIDE DEF plain
  <2> QED
    BY <1>2, <2>1 DEF Piece, TemplatePieces, Places, Sizes, Templates
<1>5. e = WorldPos(plain, <<3, 5>>)
  BY DEF Entrance
<1> HIDE DEF plain, e
<1>6. /\ e \in Columns(WorldBox(plain)) /\ e[1] \in Int /\ e[2] \in Int
  BY <1>4, <1>5, PositionInBox, PositionIsPlace
<1>7. sink \in Int
  <2>1. sink = GroundAt(e) - 91
    BY DEF e
  <2> HIDE DEF sink
  <2>2. GroundAt(e) \in Int
    BY <1>2, <1>6, GroundInWorld
  <2> QED
    BY <2>1, <2>2
<1> HIDE DEF sink, ps
<1>8. IglooPieces(ps, depth, sink)
  BY <1>2, <1>3, <1>7, IglooMade
<1>9. \A i \in 1 .. depth + 1 : OnLadder(ps[i])
  <2>1. ASSUME NEW i \in 1 .. depth + 1
        PROVE  \E what, y, h : IglooPiece(ps[i], what, y, h)
    <3>1. i = 1 \/ (i = 2 /\ depth # 0) \/ i \in 3 .. depth + 1
      OBVIOUS
    <3> QED
      BY <1>8, <3>1 DEF IglooPieces
  <2> QED
    BY <2>1, LadderHolds
<1>10. DOMAIN ps = 1 .. depth + 1 /\ depth + 1 \in Nat \ {0}
  BY <1>8 DEF IglooPieces
<1> DEFINE m == depth + 1
           box == UnionOf(ps)
<1>11. DOMAIN ps = 1 .. m /\ m \in Nat \ {0} /\ \A i \in 1 .. m : BoxOf(ps[i]) \in Boxes /\ Near(BoxOf(ps[i]), 1)
  BY <1>9, <1>10 DEF OnLadder
<1> HIDE DEF m
<1>12. /\ Found(ps, UnionOf(ps), 1)
       /\ \E i \in 1 .. m : UnionOf(ps).y0 = BoxOf(ps[i]).y0
       /\ \E i \in 1 .. m : UnionOf(ps).y1 = BoxOf(ps[i]).y1
  BY <1>11, UnionFound
<1>13. /\ box \in Boxes
       /\ \A i \in 1 .. depth + 1 : box.y0 <= BoxOf(ps[i]).y0 /\ BoxOf(ps[i]).y1 <= box.y1
       /\ \E i \in 1 .. depth + 1 : box.y0 = BoxOf(ps[i]).y0
       /\ \E i \in 1 .. depth + 1 : box.y1 = BoxOf(ps[i]).y1
  BY <1>10, <1>12 DEF Found, Inside, m
<1> HIDE DEF box
<1>14. UNION {BoxOf(ps[i]).y0 .. BoxOf(ps[i]).y1 : i \in DOMAIN ps} = box.y0 .. box.y1
  BY <1>7, <1>8, <1>9, <1>13, HeightsCovered
<1>15. pieces' = ps /\ overall' = box /\ measured' = {e} /\ kind' = "igloo" /\ planStage' = "built"
  BY <1>2 DEF Built, Plan, e, box
<1>16. LadderUnbroken'
  <2> DEFINE S == {WorldPos(ps[i], LadderIn[ps[i].what]) : i \in DOMAIN ps}
  <2>1. \A i \in DOMAIN ps : WorldPos(ps[i], LadderIn[ps[i].what]) = <<3, 5>>
    BY <1>9, <1>10 DEF OnLadder
  <2>2. 1 \in DOMAIN ps
    BY <1>10
  <2>3. S = {<<3, 5>>}
    BY <2>1, <2>2
  <2>4. Cardinality(S) = 1
    BY <2>3, FS_Singleton
  <2> QED
    BY <1>14, <1>15, <2>4 DEF LadderUnbroken
<1>17. {e} \subseteq Columns(WorldBox(ps[1]))
  <2>1. ps[1] \in TemplatePieces /\ ps[1].size = <<7, 8>> /\ WorldPos(ps[1], <<3, 5>>) = <<3, 5>>
    <3>1. 1 \in 1 .. depth + 1 /\ IglooPiece(ps[1], "top", 90 + sink, 5)
      BY <1>8, <1>10 DEF IglooPieces
    <3>2. OnLadder(ps[1])
      BY <1>9, <3>1
    <3>3. LadderIn[ps[1].what] = <<3, 5>>
      BY <3>1 DEF IglooPiece, LadderIn
    <3> QED
      BY <3>1, <3>2, <3>3 DEF OnLadder, IglooPiece
  <2>2. <<3, 5>> \in Columns(WorldBox(ps[1]))
    <3>1. 3 < ps[1].size[1] /\ 5 < ps[1].size[2]
      BY <2>1
    <3>2. WorldPos(ps[1], <<3, 5>>) \in Columns(WorldBox(ps[1]))
      BY <2>1, <3>1, PositionInBox
    <3> QED
      BY <2>1, <3>2
  <2>3. e = <<3, 5>>
    <3>1. PICK f \in Int : Mirrored(plain, 3, f) /\ Goes(plain, e, f, 5)
      BY <1>4, <1>5, Turned
    <3>2. f = 3
      BY <1>4, <3>1 DEF Mirrored
    <3>3. e[1] = 3 /\ e[2] = 5
      BY <1>4, <3>1, <3>2 DEF Goes
    <3>4. e = <<e[1], e[2]>>
      BY <1>4, <1>5, PositionIsPlace
    <3> QED
      BY <3>3, <3>4
  <2> QED
    BY <2>2, <2>3
<1>18. StandsOnGround'
  BY <1>15, <1>16, <1>17 DEF StandsOnGround
<1>19. Built(ps, {e}) /\ \A i \in 1 .. m : BoxOf(ps[i]) \in Boxes /\ Near(BoxOf(ps[i]), Backreach[kind])
  BY <1>2, <1>11 DEF Backreach, e
<1> QED
  BY <1>11, <1>18, <1>19, PlanHolds-----------------------------------------------------------------------------
\* End cities. Each piece is made from the one before it.
Grown(base, floors, m, c) ==
  c = [i \in 1 .. m + 1 |-> IF i = 1 THEN base ELSE CityPiece(c[i - 1], floors[i - 1])]
LEMMA GrownExists ==
  ASSUME NEW base, NEW floors, NEW m \in Nat
  PROVE  \E c : Grown(base, floors, m, c)
<1> DEFINE S == {n \in Nat : \E c : Grown(base, floors, n, c)}
<1>1. 0 \in S
  <2> DEFINE c == [i \in 1 .. 0 + 1 |-> base]
  <2>1. \A i \in 1 .. 0 + 1 : i = 1
    OBVIOUS
  <2>2. c = [i \in 1 .. 0 + 1 |-> IF i = 1 THEN base ELSE CityPiece(c[i - 1], floors[i - 1])]
    BY <2>1
  <2> QED
    BY <2>2 DEF Grown
<1>2. ASSUME NEW n \in Nat, n \in S PROVE n + 1 \in S
  <2>1. PICK c : Grown(base, floors, n, c)
    BY <1>2
  <2> DEFINE last == n + 2
             next == CityPiece(c[last - 1], floors[last - 1])
             g == [i \in 1 .. last |-> IF i = last THEN next ELSE c[i]]
  <2>2. ASSUME NEW i \in 1 .. last
        PROVE  g[i] = IF i = 1 THEN base ELSE CityPiece(g[i - 1], floors[i - 1])
    <3>1. CASE i = last
      <4>1. i # 1 /\ i - 1 \in 1 .. last /\ i - 1 # last
        BY <3>1
      <4>2. g[i - 1] = c[i - 1] /\ g[i] = next
        BY <3>1, <4>1
      <4> HIDE DEF g
      <4> QED
        BY <3>1, <4>1, <4>2
    <3>2. CASE i # last
      <4>1. i \in 1 .. n + 1 /\ (i # 1 => i - 1 \in 1 .. last /\ i - 1 # last)
        BY <3>2
      <4>2. g[i] = c[i] /\ (i # 1 => g[i - 1] = c[i - 1])
        BY <3>2, <4>1
      <4>3. c[i] = IF i = 1 THEN base ELSE CityPiece(c[i - 1], floors[i - 1])
        BY <2>1, <4>1 DEF Grown
      <4> HIDE DEF g
      <4> QED
        BY <4>2, <4>3
    <3> QED
      BY <3>1, <3>2
  <2>3. Grown(base, floors, n + 1, g)
    <3>1. g = [i \in 1 .. last |-> g[i]]
      OBVIOUS
    <3>2. (n + 1) + 1 = last
      OBVIOUS
    <3> HIDE DEF g, last
    <3>3. g = [i \in 1 .. last |-> IF i = 1 THEN base ELSE CityPiece(g[i - 1], floors[i - 1])]
      BY <2>2, <3>1
    <3> QED
      BY <3>2, <3>3 DEF Grown
  <2> QED
    BY <2>3
<1> HIDE DEF S
<1>3. m \in S
  BY <1>1, <1>2, Induction
<1> QED
  BY <1>3 DEF S

\* A piece of a city, no further than r steps of four blocks from the first.
CityPieceAt(p, r) ==
  /\ p \in TemplatePieces /\ p.mirror = "none" /\ p.pivot = <<0, 0>>
  /\ p.size[1] \in 1 .. 16 /\ p.size[2] \in 1 .. 16
  /\ p.origin[1] \in 7 - 4 * r .. 7 + 4 * r /\ p.origin[2] \in 7 - 4 * r .. 7 + 4 * r
IsFloor(f) ==
  /\ f[1] = <<f[1][1], f[1][2]>> /\ f[1][1] \in -1 .. 4 /\ f[1][2] \in -1 .. 4
  /\ f[2] \in Int /\ f[3] \in 1 .. 16 /\ f[4] \in Nat \ {0}

LEMMA NextFloor ==
  ASSUME NEW r \in Nat, NEW p, CityPieceAt(p, r), NEW f, IsFloor(f)
  PROVE  CityPieceAt(CityPiece(p, f), r + 1)
<1> DEFINE q == [p EXCEPT !.pivot = <<0, 0>>]
           x == f[1][1]
           z == f[1][2]
           at == WorldPos(q, f[1])
           c == CityPiece(p, f)
<1>1. /\ q \in TemplatePieces /\ q.origin = p.origin /\ q.mirror = "none" /\ q.pivot = <<0, 0>>
  BY DEF CityPieceAt, TemplatePieces, Places
<1>2. x \in -1 .. 4 /\ z \in -1 .. 4 /\ f[1] = <<x, z>>
  BY DEF IsFloor
<1>3. c = Piece("city", at, p.y + f[2], <<f[3], f[3]>>, f[4], p.rotation, <<0, 0>>)
  BY DEF CityPiece
<1> HIDE DEF q, x, z, c
<1>4. PICK e \in Int : Mirrored(q, x, e) /\ Goes(q, at, e, z)
  BY <1>1, <1>2, Turned
<1>5. e = x
  BY <1>1, <1>4 DEF Mirrored
<1>6. at = <<at[1], at[2]>>
  BY <1>1, <1>2, PositionIsPlace
<1> HIDE DEF at
<1>7. at[1] \in 7 - 4 * (r + 1) .. 7 + 4 * (r + 1) /\ at[2] \in 7 - 4 * (r + 1) .. 7 + 4 * (r + 1)
  <2>1. /\ q.origin[1] \in 7 - 4 * r .. 7 + 4 * r /\ q.origin[2] \in 7 - 4 * r .. 7 + 4 * r
        /\ q.pivot[1] = 0 /\ q.pivot[2] = 0
    BY <1>1 DEF CityPieceAt
  <2> QED
    BY <1>2, <1>4, <1>5, <2>1 DEF Goes
<1>8. at \in Places
  BY <1>6, <1>7 DEF Places
<1>9. /\ p.y + f[2] \in Int /\ f[3] \in 1 .. 16 /\ <<f[3], f[3]>> \in Sizes /\ f[4] \in Nat \ {0}
      /\ p.rotation \in Rotations
  BY DEF CityPieceAt, IsFloor, TemplatePieces, Sizes
<1> DEFINE y == p.y + f[2]
           w == f[3]
           h == f[4]
           n == p.rotation
<1>10. c = Piece("city", at, y, <<w, w>>, h, n, <<0, 0>>) /\ y \in Int /\ w \in 1 .. 16 /\ h \in Nat \ {0} /\ n \in Rotations
  BY <1>3, <1>9
<1> HIDE DEF y, w, h, n
<1>11. c \in TemplatePieces /\ c.mirror = "none" /\ c.pivot = <<0, 0>> /\ c.size = <<w, w>> /\ c.origin = at
  BY <1>8, <1>10 DEF Piece, TemplatePieces, Places, Sizes, Templates
<1>12. c.size[1] = w /\ c.size[2] = w
  BY <1>11
<1>13. CityPieceAt(c, r + 1)
  BY <1>7, <1>10, <1>11, <1>12 DEF CityPieceAt
<1> QED
  BY <1>13 DEF c

LEMMA CityGrows ==
  ASSUME NEW m \in Nat, NEW floors, Len(floors) = m, \A i \in 1 .. m : IsFloor(floors[i]),
         NEW base, CityPieceAt(base, 0), NEW c, c = City(base, floors)
  PROVE  /\ DOMAIN c = 1 .. m + 1 /\ c[1] = base
         /\ \A i \in 1 .. m + 1 : CityPieceAt(c[i], i - 1)
<1> DEFINE d == CHOOSE s : Grown(base, floors, m, s)
           S == {n \in Nat : n + 1 \in 1 .. m + 1 => CityPieceAt(c[n + 1], n)}
<1>1. c = d
  BY DEF City, Grown
<1>2. Grown(base, floors, m, c)
  BY <1>1, GrownExists
<1> HIDE DEF d
<1>3. /\ DOMAIN c = 1 .. m + 1
      /\ \A i \in 1 .. m + 1 : c[i] = IF i = 1 THEN base ELSE CityPiece(c[i - 1], floors[i - 1])
  BY <1>2 DEF Grown
<1>4. c[1] = base
  BY <1>3
<1>5. 0 \in S
  BY <1>4
<1>6. ASSUME NEW n \in Nat, n \in S PROVE n + 1 \in S
  <2> SUFFICES ASSUME (n + 1) + 1 \in 1 .. m + 1 PROVE CityPieceAt(c[(n + 1) + 1], n + 1)
    OBVIOUS
  <2> DEFINE i == (n + 1) + 1
  <2>1. i \in 1 .. m + 1 /\ i # 1 /\ i - 1 = n + 1 /\ n + 1 \in 1 .. m + 1 /\ n + 1 \in 1 .. m
    OBVIOUS
  <2> HIDE DEF i
  <2>2. c[i] = CityPiece(c[n + 1], floors[n + 1])
    BY <1>3, <2>1
  <2>3. CityPieceAt(c[n + 1], n) /\ IsFloor(floors[n + 1])
    BY <1>6, <2>1
  <2>4. CityPieceAt(CityPiece(c[n + 1], floors[n + 1]), n + 1)
    BY <2>3, NextFloor
  <2> QED
    BY <2>2, <2>4 DEF i
<1> HIDE DEF S
<1>7. Nat \subseteq S
  BY <1>5, <1>6, Induction
<1>8. ASSUME NEW i \in 1 .. m + 1 PROVE CityPieceAt(c[i], i - 1)
  <2>1. i - 1 \in Nat /\ (i - 1) + 1 = i
    OBVIOUS
  <2>2. i - 1 \in S
    BY <1>7, <2>1
  <2> QED
    BY <2>1, <2>2 DEF S
<1> QED
  BY <1>3, <1>4, <1>8
LEMMA FloorsMade ==
  ASSUME NEW k \in 1 .. 2, NEW turret \in {3, 4} \X {3, 4}, NEW floors, floors = Floors(k, turret)
  PROVE  Len(floors) = 6 + k /\ \A i \in 1 .. 6 + k : IsFloor(floors[i])
<1> DEFINE S == ((-1 .. 4) \X (-1 .. 4)) \X Int \X (1 .. 16) \X (Nat \ {0})
           low == <<<<<<-1, -1>>, 0, 12, 8>>, <<<<-1, -1>>, 4, 14, 8>>, <<<<-1, -1>>, 8, 16, 2>>, <<turret, -3, 7, 7>>,
                    <<<<0, 0>>, 7, 7, 4>>>>
           middle == [i \in 1 .. k |-> <<<<0, 0>>, 4, 7, 4>>]
           top == <<<<<<-1, -1>>, 4, 9, 5>>>>
<1>1. low \in Seq(S) /\ Len(low) = 5
  <2>1. turret \in (-1 .. 4) \X (-1 .. 4)
    OBVIOUS
  <2>2. \A f \in {<<<<-1, -1>>, 0, 12, 8>>, <<<<-1, -1>>, 4, 14, 8>>, <<<<-1, -1>>, 8, 16, 2>>, <<turret, -3, 7, 7>>,
                  <<<<0, 0>>, 7, 7, 4>>} : f \in S
    BY <2>1
  <2> HIDE DEF S
  <2> QED
    BY <2>2
<1>2. middle \in Seq(S) /\ Len(middle) = k
  <2>1. <<<<0, 0>>, 4, 7, 4>> \in S /\ k \in Nat
    OBVIOUS
  <2>2. middle \in [1 .. k -> S]
    BY <2>1
  <2> HIDE DEF S, middle
  <2> QED
    BY <2>1, <2>2, FunctionAsSeq
<1>3. top \in Seq(S) /\ Len(top) = 1
  <2>1. <<<<-1, -1>>, 4, 9, 5>> \in S
    OBVIOUS
  <2> HIDE DEF S
  <2> QED
    BY <2>1
<1>4. floors = (low \o middle) \o top
  BY DEF Floors
<1> HIDE DEF S, low, middle, top
<1>5. low \o middle \in Seq(S) /\ Len(low \o middle) = 5 + k
  <2>1. /\ low \o middle \in Seq(S)
        /\ Len(low \o middle) = Len(low) + Len(middle)
        /\ \A i \in 1 .. Len(low) + Len(middle) :
             (low \o middle)[i] = IF i <= Len(low) THEN low[i] ELSE middle[i - Len(low)]
    BY <1>1, <1>2, ConcatProperties
  <2>2. Len(low) + Len(middle) = 5 + k
    BY <1>1, <1>2
  <2> QED
    BY <2>1, <2>2
<1> DEFINE most == low \o middle
<1> HIDE DEF most
<1>6. most \o top \in Seq(S) /\ Len(most \o top) = 6 + k
  <2>1. /\ most \o top \in Seq(S)
        /\ Len(most \o top) = Len(most) + Len(top)
        /\ \A i \in 1 .. Len(most) + Len(top) :
             (most \o top)[i] = IF i <= Len(most) THEN most[i] ELSE top[i - Len(most)]
    <3>1. most \in Seq(S) /\ top \in Seq(S)
      BY <1>3, <1>5 DEF most
    <3> QED
      BY <3>1, ConcatProperties
  <2>2. Len(most) + Len(top) = 6 + k
    <3>1. Len(most) = 5 + k /\ Len(top) = 1
      BY <1>3, <1>5 DEF most
    <3> QED
      BY <3>1
  <2> QED
    BY <2>1, <2>2
<1>7. floors \in Seq(S) /\ Len(floors) = 6 + k
  BY <1>4, <1>6 DEF most
<1>8. ASSUME NEW f \in S PROVE IsFloor(f)
  BY DEF IsFloor, S
<1>9. \A i \in 1 .. 6 + k : floors[i] \in S
  BY <1>7
<1> QED
  BY <1>7, <1>8, <1>9

\* The height of a city is taken from columns on which its first piece stands.
LEMMA CityStands ==
  ASSUME ground \in Grounds, NEW n \in Rotations, NEW base,
         base = Piece("city", <<7, 7>>, CityY(n), <<10, 10>>, 4, n, <<0, 0>>)
  PROVE  CityPieceAt(base, 0) /\ CityCorners(n) \subseteq Columns(WorldBox(base))
<1>1. MinY \in Int /\ MinY + 1 \in Int
  BY DirectAssumption
<1>2. \A c \in CityCorners(n) : c[1] \in Int /\ c[2] \in Int /\ c = <<c[1], c[2]>>
  BY DEF CityCorners, CityOffset
<1>3. CityY(n) \in Int
  <2> DEFINE S == {SolidAt(c) : c \in CityCorners(n)}
             solid == Min(S)
             guess == Max({MinY + 1, GroundAt(<<7, 7>>)})
  <2>1. \A c \in CityCorners(n) : SolidAt(c) \in Int /\ MinY <= SolidAt(c)
    <3>1. \A c \in CityCorners(n) : GroundAt(c) \in Int /\ MinY <= GroundAt(c)
      BY <1>1, <1>2, GroundInWorld
    <3> QED
      BY <1>1, <3>1 DEF SolidAt
  <2>2. CityCorners(n) # {}
    BY DEF CityCorners
  <2>3. S # {} /\ S \subseteq Int /\ \A y \in S : MinY <= y
    BY <2>1, <2>2
  <2>4. CityY(n) = IF solid > MinY THEN solid ELSE guess
    BY DEF CityY
  <2> HIDE DEF S
  <2>5. Min(S) \in S
    BY <1>1, <2>3, LeastAbove
  <2>6. guess \in Int
    <3>1. GroundAt(<<7, 7>>) \in Int
      BY GroundIsNumber
    <3> QED
      BY <1>1, <3>1, OfTwo
  <2> HIDE DEF guess
  <2> QED
    BY <2>3, <2>4, <2>5, <2>6
<1> DEFINE y == CityY(n)
<1> HIDE DEF y
<1>4. /\ base \in TemplatePieces /\ base.origin = <<7, 7>> /\ base.size = <<10, 10>> /\ base.mirror = "none"
      /\ base.pivot = <<0, 0>> /\ base.rotation = n
  <2>1. y \in Int /\ base = Piece("city", <<7, 7>>, y, <<10, 10>>, 4, n, <<0, 0>>)
    BY <1>3 DEF y
  <2> QED
    BY <2>1 DEF Piece, TemplatePieces, Places, Sizes, Templates
<1>5. CityPieceAt(base, 0)
  BY <1>4 DEF CityPieceAt
<1>6. CityCorners(n) \subseteq Columns(WorldBox(base))
  <2> DEFINE b == WorldBox(base)
             dx == CityOffset(n)[1]
             dz == CityOffset(n)[2]
  <2>1. PICK lo \in Int, hi \in Int : lo <= hi /\ Width(base, lo, hi) /\ Spans(base, b, lo, hi)
    BY <1>4, TurnedBox
  <2>2. \A c \in CityCorners(n) : c[1] \in {7, 7 + dx} /\ c[2] \in {7, 7 + dz}
    BY DEF CityCorners
  <2>3. /\ dx = IF n \in {1, 2} THEN -5 ELSE 5
        /\ dz = IF n \in {2, 3} THEN -5 ELSE 5
    BY DEF CityOffset
  <2> HIDE DEF b, dx, dz
  <2>4. lo = 0 /\ hi = 9
    BY <1>4, <2>1 DEF Width
  <2>5. \/ n = 0 /\ b.x0 = 7 /\ b.x1 = 16 /\ b.z0 = 7 /\ b.z1 = 16 /\ dx = 5 /\ dz = 5
        \/ n = 1 /\ b.x0 = -2 /\ b.x1 = 7 /\ b.z0 = 7 /\ b.z1 = 16 /\ dx = -5 /\ dz = 5
        \/ n = 2 /\ b.x0 = -2 /\ b.x1 = 7 /\ b.z0 = -2 /\ b.z1 = 7 /\ dx = -5 /\ dz = -5
        \/ n = 3 /\ b.x0 = 7 /\ b.x1 = 16 /\ b.z0 = -2 /\ b.z1 = 7 /\ dx = 5 /\ dz = -5
    BY <1>4, <2>1, <2>3, <2>4 DEF Spans
  <2>6. {7, 7 + dx} \subseteq b.x0 .. b.x1 /\ {7, 7 + dz} \subseteq b.z0 .. b.z1
    BY <2>5
  <2>7. \A c \in CityCorners(n) : c \in Columns(b)
    BY <1>2, <2>2, <2>6 DEF Columns
  <2> QED
    BY <2>7 DEF b
<1> QED
  BY <1>5, <1>6

LEMMA EndCityHolds ==
  ASSUME DirectInv, BuildEndCity
  PROVE  DirectInv'
<1> DEFINE Base(n) == Piece("city", <<7, 7>>, CityY(n), <<10, 10>>, 4, n, <<0, 0>>)
<1>1. PICK n \in 0 .. 3, k \in 1 .. 2, turret \in {3, 4} \X {3, 4} :
        Built(City(Base(n), Floors(k, turret)), CityCorners(n))
  BY DEF BuildEndCity
<1> DEFINE base == Base(n)
           floors == Floors(k, turret)
           ps == City(base, floors)
           m == 6 + k
           count == m + 1
<1>2. kind = "end_city" /\ ground \in Grounds /\ n \in Rotations /\ Built(ps, CityCorners(n)) /\ m \in {7, 8}
  BY <1>1 DEF BuildEndCity, DirectInv, Rotations
<1>3. Len(floors) = m /\ \A i \in 1 .. m : IsFloor(floors[i])
  BY FloorsMade
<1>4. CityPieceAt(base, 0) /\ CityCorners(n) \subseteq Columns(WorldBox(base))
  BY <1>2, CityStands
<1>5. ps = City(base, floors)
  OBVIOUS
<1> HIDE DEF base, floors, ps, m
<1>6. /\ DOMAIN ps = 1 .. m + 1 /\ ps[1] = base
      /\ \A i \in 1 .. m + 1 : CityPieceAt(ps[i], i - 1)
  BY <1>2, <1>3, <1>4, <1>5, CityGrows
<1>7. ASSUME NEW i \in 1 .. m + 1 PROVE BoxOf(ps[i]) \in Boxes /\ Near(BoxOf(ps[i]), 16)
  <2> DEFINE p == ps[i]
             b == WorldBox(p)
  <2>1. CityPieceAt(p, i - 1)
    BY <1>6
  <2>2. Reaches(p, b, 15)
    <3>1. /\ p \in TemplatePieces /\ p.mirror = "none" /\ p.pivot = <<0, 0>>
          /\ p.size[1] <= 15 + 1 /\ p.size[2] <= 15 + 1
      BY <2>1 DEF CityPieceAt
    <3> HIDE DEF p
    <3> QED
      BY <3>1, PlainReach
  <2>3. /\ BoxOf(p) \in Boxes
        /\ BoxOf(p).x0 = b.x0 /\ BoxOf(p).x1 = b.x1 /\ BoxOf(p).z0 = b.z0 /\ BoxOf(p).z1 = b.z1
    BY <2>1, PlainBox DEF CityPieceAt
  <2> HIDE DEF p, b
  <2>4. i - 1 \in 0 .. 8
    BY <1>2
  <2>5. p.origin[1] \in -25 .. 39 /\ p.origin[2] \in -25 .. 39
    BY <2>1, <2>4 DEF CityPieceAt
  <2>6. b.x0 \in -256 .. 271 /\ b.x1 \in -256 .. 271 /\ b.z0 \in -256 .. 271 /\ b.z1 \in -256 .. 271
    <3>1. b.x0 \in -40 .. 54 /\ b.x1 \in -40 .. 54
      BY <2>2, <2>5 DEF Reaches
    <3>2. b.z0 \in -40 .. 54 /\ b.z1 \in -40 .. 54
      BY <2>2, <2>5 DEF Reaches
    <3> QED
      BY <3>1, <3>2
  <2>7. Near(BoxOf(p), 16)
    BY <2>3, <2>6 DEF Near
  <2> QED
    BY <2>3, <2>7 DEF p
<1>8. /\ DOMAIN ps = 1 .. count /\ count \in Nat \ {0}
      /\ \A i \in 1 .. count : BoxOf(ps[i]) \in Boxes /\ Near(BoxOf(ps[i]), Backreach[kind])
  BY <1>2, <1>6, <1>7 DEF Backreach
<1>9. StandsOnGround'
  <2>1. pieces' = ps /\ measured' = CityCorners(n) /\ kind' = "end_city"
    BY <1>2 DEF Built, Plan
  <2>2. measured' \subseteq Columns(WorldBox(pieces'[1]))
    BY <1>4, <1>6, <2>1
  <2> QED
    BY <2>1, <2>2 DEF StandsOnGround
<1> HIDE DEF count
<1> QED
  BY <1>2, <1>8, <1>9, PlanHolds

-----------------------------------------------------------------------------
\* The invariant holds, and what it says of the box says that it is found.
LEMMA NothingPlanned == DirectInit => DirectInv
BY DEF DirectInit, DirectInv, StandsOnGround

LEMMA DirectStepHolds == DirectInv /\ [DirectNext]_directVars => DirectInv'
<1> SUFFICES ASSUME DirectInv, [DirectNext]_directVars PROVE DirectInv'
  OBVIOUS
<1>1. CASE DirectNext
  BY <1>1, IglooHolds, ShipwreckHolds, OceanRuinHolds, AddRuinHolds, EndClusterHolds, PortalHolds, TreasureHolds,
     SwampHutHolds, FossilHolds, EndCityHolds DEF DirectNext
<1>2. CASE UNCHANGED directVars
  <2>1. StandsOnGround' = StandsOnGround
    BY <1>2 DEF directVars, StandsOnGround, LadderUnbroken
  <2> QED
    BY <1>2, <2>1 DEF directVars, DirectInv
<1> QED
  BY <1>1, <1>2

LEMMA FoundMeans == DirectInv => DirectFound
<1> SUFFICES ASSUME DirectInv, planStage \in {"cluster", "built"}
             PROVE  /\ \A i \in DOMAIN pieces : Union(overall, BoxOf(pieces[i])) = overall
                    /\ \A v \in {overall.x0, overall.x1, overall.z0, overall.z1} :
                         v \div 16 \in -Backreach[kind] .. Backreach[kind]
  BY DEF DirectFound
<1>1. Found(pieces, overall, Backreach[kind])
  BY DEF DirectInv
<1>2. \A i \in DOMAIN pieces : Union(overall, BoxOf(pieces[i])) = overall
  BY <1>1, InsideAdds DEF Found
<1>3. Backreach[kind] \in Nat
  BY DirectAssumption DEF DirectInv, Backreach
<1> DEFINE r == Backreach[kind]
<1>4. \A v \in {overall.x0, overall.x1, overall.z0, overall.z1} : v \in -16 * r .. 16 * r + 15
  BY <1>1 DEF Found, Near
<1> HIDE DEF r
<1>5. ASSUME NEW v \in -16 * r .. 16 * r + 15 PROVE v \div 16 \in -r .. r
  <2>1. r \in Nat
    BY <1>3 DEF r
  <2> QED
    BY <2>1
<1>6. \A v \in {overall.x0, overall.x1, overall.z0, overall.z1} : v \div 16 \in -r .. r
  BY <1>4, <1>5
<1> QED
  BY <1>2, <1>6 DEF r

(***************************************************************************)
(* Whatever ground a structure is planned on and however it is turned, its *)
(* box has all of its pieces and goes no further than its estimate, and    *)
(* its clusters grow around the ruin they began with.                      *)
(***************************************************************************)
THEOREM PlansAlwaysHold == DirectSpec => []DirectInv
<1>1. DirectInit => DirectInv
  BY NothingPlanned
<1>2. DirectInv /\ [DirectNext]_directVars => DirectInv'
  BY DirectStepHolds
<1> QED
  BY <1>1, <1>2, PTL DEF DirectSpec

(***************************************************************************)
(* Every chunk that gets a block of a directly planned structure finds it  *)
(* (structure_direct.go:11-49, structures.go:858-867).                     *)
(***************************************************************************)
THEOREM PlansAlwaysFound == DirectSpec => []DirectFound
<1>1. DirectInv => DirectFound
  BY FoundMeans
<1> QED
  BY <1>1, PlansAlwaysHold, PTL

(***************************************************************************)
(* The ladder of an igloo is in one column, unbroken, and the ground that  *)
(* igloos, portals, treasures and cities measured is that under their      *)
(* first piece, however it is turned (structure_direct.go:323-362,         *)
(* 455-462, structure_end_city.go:95-121).                                 *)
(***************************************************************************)
THEOREM PlansAlwaysStand == DirectSpec => []StandsOnGround
<1>1. DirectInv => StandsOnGround
  BY DEF DirectInv
<1> QED
  BY <1>1, PlansAlwaysHold, PTL
=============================================================================
