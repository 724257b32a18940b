---------------------------- MODULE FeatureOrder ----------------------------
(***************************************************************************)
(* The order in which features are placed (feature_order.go). Each biome   *)
(* lists its features for every step of decoration, and biomes share       *)
(* features; buildStepFeatureData sorts all of them into one list for each *)
(* step, that no biome disagrees with, by a depth-first search, and panics *)
(* if there is none. A feature's place in its list seeds its random        *)
(* numbers, and featureIndexesForStep picks what a chunk runs from it.     *)
(*                                                                         *)
(* The recursion of visit is an explicit stack here. Sorting a set of      *)
(* nodes to go through it in order is taking its least node each time.     *)
(***************************************************************************)
EXTENDS Naturals, Sequences, FiniteSets, SequencesExt

CONSTANTS
  PossibleBiomes,   \* gen.PossibleBiomes of the dimension, in its order
  StepCount,        \* featureStepCount
  Names,            \* placed features
  Registries        \* what the feature registry may list

Steps == 1 .. StepCount
Biomes == ToSet(PossibleBiomes)

ASSUME StepsAssumption == StepCount \in Nat
ASSUME BiomesAssumption == PossibleBiomes \in Seq(Biomes)
ASSUME RegistriesAssumption == Registries \subseteq [Biomes -> [Steps -> Seq(Names)]]

VARIABLES
  featureSteps,     \* biomeGenerationIndex.featureSteps: what a biome lists
  roots,            \* nodes the outer loop has not come to
  stack,            \* the calls of visit, each with the neighbours left to it
  visited,          \* nodes that are finished
  sortedNodes,      \* nodes in the order they were finished
  stepFeatures,     \* biomeGenerationIndex.stepFeatures: the list of each step
  orderStage        \* "sort", "done" or "panic"

orderVars == <<featureSteps, roots, stack, visited, sortedNodes, stepFeatures, orderStage>>

-----------------------------------------------------------------------------
\* A node is a feature in a step. sourceFeatures: all a biome lists, in order.
SourceFeatures(b) ==
  FlattenSeq([s \in Steps |->
    [j \in DOMAIN featureSteps[b][s] |-> <<s, featureSteps[b][s][j]>>]])

Nodes == UNION {ToSet(SourceFeatures(b)) : b \in Biomes}

\* All lists in a row.
Mentions == FlattenSeq([i \in DOMAIN PossibleBiomes |-> SourceFeatures(PossibleBiomes[i])])

\* n comes right before m in the list of some biome.
Edge(n, m) ==
  \E b \in Biomes : \E i \in 1 .. Len(SourceFeatures(b)) - 1 :
    SourceFeatures(b)[i] = n /\ SourceFeatures(b)[i + 1] = m

Neighbours(n) == {m \in Nodes : Edge(n, m)}

\* featureIndex numbers features by their first mention; the place of the
\* mention orders them in the same way.
FirstMention(f) ==
  CHOOSE i \in DOMAIN Mentions :
    Mentions[i][2] = f /\ \A j \in 1 .. i - 1 : Mentions[j][2] # f

\* compareFeatureNode.
Precedes(n, m) ==
  \/ n[1] < m[1]
  \/ n[1] = m[1] /\ FirstMention(n[2]) < FirstMention(m[2])

Least(S) == CHOOSE n \in S : \A m \in S \ {n} : Precedes(n, m)

Visiting == {stack[i].node : i \in DOMAIN stack}

-----------------------------------------------------------------------------
\* The type invariant; no node is sorted twice.
OrderTypeOK ==
  /\ featureSteps \in [Biomes -> [Steps -> Seq(Names)]]
  /\ roots \subseteq Nodes
  /\ stack \in Seq([node : Nodes, rest : SUBSET Nodes])
  /\ visited \subseteq Nodes
  /\ sortedNodes \in Seq(Nodes) /\ ToSet(sortedNodes) = visited /\ IsInjective(sortedNodes)
  /\ stepFeatures \in [Steps -> Seq(Names)]
  /\ orderStage \in {"sort", "done", "panic"}

OrderInit ==
  /\ featureSteps \in Registries
  /\ roots = Nodes
  /\ stack = <<>>
  /\ visited = {}
  /\ sortedNodes = <<>>
  /\ stepFeatures = [s \in Steps |-> <<>>]
  /\ orderStage = "sort"

\* A call of visit, by the calls that are in callers.
Visit(n, callers) ==
  \/ /\ n \in visited
     /\ stack' = callers
     /\ UNCHANGED orderStage
  \/ /\ n \notin visited /\ n \in Visiting
     /\ stack' = callers
     /\ orderStage' = "panic"
  \/ /\ n \notin visited /\ n \notin Visiting
     /\ stack' = Append(callers, [node |-> n, rest |-> Neighbours(n)])
     /\ UNCHANGED orderStage

VisitRoot ==
  /\ orderStage = "sort"
  /\ stack = <<>>
  /\ roots # {}
  /\ LET n == Least(roots) IN
       /\ roots' = roots \ {n}
       /\ Visit(n, <<>>)
  /\ UNCHANGED <<featureSteps, visited, sortedNodes, stepFeatures>>

VisitNeighbour ==
  /\ orderStage = "sort"
  /\ stack # <<>>
  /\ Last(stack).rest # {}
  /\ LET n == Least(Last(stack).rest) IN
       Visit(n, [stack EXCEPT ![Len(stack)].rest = @ \ {n}])
  /\ UNCHANGED <<featureSteps, roots, visited, sortedNodes, stepFeatures>>

\* The end of a call of visit.
Leave ==
  /\ orderStage = "sort"
  /\ stack # <<>>
  /\ Last(stack).rest = {}
  /\ visited' = visited \cup {Last(stack).node}
  /\ sortedNodes' = Append(sortedNodes, Last(stack).node)
  /\ stack' = Front(stack)
  /\ UNCHANGED <<featureSteps, roots, stepFeatures, orderStage>>

\* The names of a step, the nodes taken in this order.
NamesIn(nodes, s) ==
  FlattenSeq([i \in DOMAIN nodes |-> IF nodes[i][1] = s THEN <<nodes[i][2]>> ELSE <<>>])

\* The nodes of a step, in reverse of the order they were finished.
NamesAsFinished(s) == NamesIn(sortedNodes, s)
NamesOfStep(s) == NamesIn(Reverse(sortedNodes), s)

Split ==
  /\ orderStage = "sort"
  /\ stack = <<>>
  /\ roots = {}
  /\ stepFeatures' = [s \in Steps |-> NamesOfStep(s)]
  /\ orderStage' = "done"
  /\ UNCHANGED <<featureSteps, roots, stack, visited, sortedNodes>>

\* The index is never written again, or the panic has ended New.
OrderBuilt == orderStage # "sort" /\ UNCHANGED orderVars

OrderNext == VisitRoot \/ VisitNeighbour \/ Leave \/ Split \/ OrderBuilt

OrderSpec == OrderInit /\ [][OrderNext]_orderVars

-----------------------------------------------------------------------------
\* featureIndexes: where the features of a biome stand in the list of the step;
\* indexByName keeps the last place of a name.
FeatureIndexes(b, s) ==
  {i \in DOMAIN stepFeatures[s] :
     /\ stepFeatures[s][i] \in ToSet(featureSteps[b][s])
     /\ \A j \in i + 1 .. Len(stepFeatures[s]) : stepFeatures[s][j] # stepFeatures[s][i]}

\* What a chunk with the biomes of B runs in a step, in increasing order.
FeatureIndexesForStep(B, s) == UNION {FeatureIndexes(b, s) : b \in B}

(***************************************************************************)
(* A chunk with several biomes runs all features of all of them and no     *)
(* others, each once, and those of one biome in the order the biome lists  *)
(* them (features.go:112); and construction panics with "feature order     *)
(* cycle found" only when the lists contradict each other: when some       *)
(* features come each right before another one of them, in one list or     *)
(* another (feature_order.go:76-78).                                       *)
(***************************************************************************)
Contradictory ==
  \E S \in (SUBSET Nodes) \ {{}} : \A n \in S : \E m \in S : \E b \in Biomes :
    \E i \in 2 .. Len(SourceFeatures(b)) :
      SourceFeatures(b)[i - 1] = n /\ SourceFeatures(b)[i] = m

RunsWhatBiomesList(B, s) ==
  LET run == FeatureIndexesForStep(B, s)
      Name(i) == stepFeatures[s][i]
  IN  /\ \A i, j \in run : Name(i) = Name(j) => i = j
      /\ {Name(i) : i \in run} = UNION {ToSet(featureSteps[b][s]) : b \in B}
      /\ \A b \in B : \A k, l \in DOMAIN featureSteps[b][s] : k < l =>
           \E i, j \in run :
             i < j /\ Name(i) = featureSteps[b][s][k] /\ Name(j) = featureSteps[b][s][l]

BiomesAgree ==
  /\ orderStage = "panic" => Contradictory
  /\ orderStage = "done" => \A B \in SUBSET Biomes, s \in Steps : RunsWhatBiomesList(B, s)
=============================================================================
