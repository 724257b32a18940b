----------------------------- MODULE ClimateTree ------------------------------
(***************************************************************************)
(* The biome of a climate: the point of the preset that is nearest to it.  *)
(* The overworld searches a tree of boxes (gen/climate_rtree.go), the      *)
(* nether all points (lookupPresetBiome), and the device the same tree in  *)
(* arrays and without recursion (packOpenCLClimateTree and                 *)
(* vg_biome_kernel); which point of several that are equally near it finds *)
(* must not depend on the device.                                          *)
(*                                                                         *)
(* Nodes of the tree have at most Fan children, in the code 6; a climate   *)
(* has one dimension more than measured, for the offset of a point.        *)
(***************************************************************************)
EXTENDS Integers, Sequences, SequencesExt, FiniteSetsExt, TLC

CONSTANTS
  Dimensions,
  Fan,
  StackSize,    \* of the kernel
  Presets,      \* lists of points: their spans, the offset last, and biome
  Climates      \* targets

ASSUME TreeAssumption == Dimensions \in Nat \ {0} /\ Fan \in Nat \ {0, 1} /\ StackSize \in Nat \ {0}

VARIABLES
  preset,
  target,
  tree,         \* rtree
  packed,       \* its nodes in the order of the arrays
  calls,        \* calls of search that have not returned
  leafFound,    \* what the search has found
  kernelStack,  \* node_stack and child_stack
  kernelBest,   \* best_distance and best_biome
  lookupStage   \* "build", "search", "kernel", "found" or "refused"

treeVars == <<preset, target, tree, packed, calls, leafFound, kernelStack, kernelBest, lookupStage>>

Every == 1 .. Dimensions
Far == 2147483647
TotalOf(f) == FoldFunction(+, 0, f)
Absolute(n) == IF n < 0 THEN -n ELSE n
\* Go's division rounds towards zero.
Midpoint(p) == IF p.min + p.max >= 0 THEN (p.min + p.max) \div 2 ELSE -((-p.min - p.max) \div 2)

\* climateParameter.distance, and climateRTreeNode.distance, the sum of squares.
Gap(p, v) == Max({0, p.min - v, v - p.max})
Fitness(node) == TotalOf([d \in Every |-> Gap(node.space[d], target[d]) * Gap(node.space[d], target[d])])

-----------------------------------------------------------------------------
\* Building.

Leaf(point) == [space |-> point.spans, children |-> <<>>, biome |-> point.biome]

\* newClimateSubTree. (HullOfFirst forgets that later children may go farther.)
HullOfFirst(children) ==
  [space |-> [d \in Every |->
     [min |-> Min({children[i].space[d].min : i \in DOMAIN children}), max |-> children[1].space[d].max]],
   children |-> children, biome |-> 0]
Hull(children) ==
  [space |-> [d \in Every |->
     [min |-> Min({children[i].space[d].min : i \in DOMAIN children}),
      max |-> Max({children[i].space[d].max : i \in DOMAIN children})]],
   children |-> children, biome |-> 0]

\* Stable sorts: by the magnitude of the centres, and by the centre in one
\* dimension and the others after it.
Magnitude(node) == TotalOf([d \in Every |-> Absolute(Midpoint(node.space[d]))])
ByMagnitude(nodes) ==
  LET Before(i, j) == \/ Magnitude(nodes[i]) < Magnitude(nodes[j])
                      \/ Magnitude(nodes[i]) = Magnitude(nodes[j]) /\ i < j
      order == SortSeq([n \in DOMAIN nodes |-> n], Before)
  IN  [n \in DOMAIN nodes |-> nodes[order[n]]]
Centres(node, dimension, absolute) ==
  [n \in Every |->
     LET middle == Midpoint(node.space[((dimension + n - 2) % Dimensions) + 1])
     IN  IF absolute THEN Absolute(middle) ELSE middle]
Lexically(u, v) == \E n \in Every : u[n] < v[n] /\ \A m \in 1 .. n - 1 : u[m] = v[m]
ByCentre(nodes, dimension, absolute) ==
  LET centres == [i \in DOMAIN nodes |-> Centres(nodes[i], dimension, absolute)]
      Before(i, j) == Lexically(centres[i], centres[j]) \/ (centres[i] = centres[j] /\ i < j)
      order == SortSeq([n \in DOMAIN nodes |-> n], Before)
  IN  [n \in DOMAIN nodes |-> nodes[order[n]]]

\* bucketizeClimateNodes: runs as long as the greatest power of Fan below the
\* number of nodes.
Bucketized(nodes) ==
  LET size == Max({m \in 1 .. Len(nodes) - 1 : \E k \in 0 .. Len(nodes) : m = Fan ^ k})
  IN  [b \in 1 .. (Len(nodes) + size - 1) \div size |->
         Hull(SubSeq(nodes, (b - 1) * size + 1, Min({b * size, Len(nodes)})))]
Cost(buckets) ==
  TotalOf([b \in DOMAIN buckets |->
    TotalOf([d \in Every |-> Absolute(buckets[b].space[d].max - buckets[b].space[d].min)])])
RECURSIVE BuildNode(_)
BuildNode(nodes) ==
  LET split == [d \in Every |-> Bucketized(ByCentre(nodes, d, FALSE))]
      cost == [d \in Every |-> Cost(split[d])]
      best == Min({d \in Every : \A e \in Every : cost[d] <= cost[e]})
      buckets == ByCentre(split[best], best, TRUE)
  IN  IF Len(nodes) = 1 THEN nodes[1]
      ELSE IF Len(nodes) <= Fan THEN Hull(ByMagnitude(nodes))
      ELSE Hull([b \in DOMAIN buckets |-> BuildNode(buckets[b].children)])

\* packOpenCLClimateTree: breadth first, children beside each other.
RECURSIVE Pack(_, _, _)
Pack(queue, index, data) ==
  IF index > Len(queue) THEN data
  ELSE LET entry == queue[index]
           below == [i \in DOMAIN entry.node.children |-> [node |-> entry.node.children[i], depth |-> entry.depth + 1]]
       IN  Pack(queue \o below, index + 1,
                Append(data, [first |-> IF below = <<>> THEN 1 ELSE Len(queue) + 1, count |-> Len(below),
                              space |-> entry.node.space, biome |-> entry.node.biome, depth |-> entry.depth]))
MaxDepth == Max({packed[i].depth : i \in DOMAIN packed})

-----------------------------------------------------------------------------
\* search(target, candidate): what is closest is a sequence of one leaf or none.
Call(node, candidate) ==
  [node |-> node, next |-> 1, closest |-> candidate,
   least |-> IF candidate = <<>> THEN Far ELSE Fitness(candidate[1])]
Better(call, leaf) ==
  [call EXCEPT !.next = @ + 1,
               !.closest = IF call.least > Fitness(leaf) THEN <<leaf>> ELSE @,
               !.least = Min({@, Fitness(leaf)})]

TreeInit ==
  /\ preset \in Presets
  /\ target \in Climates
  /\ tree = <<>> /\ packed = <<>> /\ calls = <<>> /\ leafFound = <<>> /\ kernelStack = <<>>
  /\ kernelBest = [distance |-> Far, biome |-> 1]
  /\ lookupStage = "build"

\* newClimateRTree and Lookup, that does not call for a single leaf.
Build ==
  /\ lookupStage = "build"
  /\ tree' = BuildNode([i \in DOMAIN preset |-> Leaf(preset[i])])
  /\ packed' = Pack(<<[node |-> tree', depth |-> 1]>>, 1, <<>>)
  /\ IF tree'.children = <<>>
     THEN leafFound' = <<tree'>> /\ calls' = <<>>
     ELSE leafFound' = <<>> /\ calls' = <<Call(tree', <<>>)>>
  /\ lookupStage' = "search"
  /\ UNCHANGED <<preset, target, kernelStack, kernelBest>>

Caller == Last(calls)
Considering == lookupStage = "search" /\ calls # <<>> /\ Caller.next <= Len(Caller.node.children)
Candidate == Caller.node.children[Caller.next]
Searched(stack, leaf) ==
  /\ calls' = stack
  /\ leafFound' = leaf
  /\ UNCHANGED <<preset, target, tree, packed, kernelStack, kernelBest, lookupStage>>
PassOver ==
  /\ Considering /\ Caller.least <= Fitness(Candidate)
  /\ Searched(Front(calls) \o <<[Caller EXCEPT !.next = @ + 1]>>, <<>>)
TakeLeaf ==
  /\ Considering /\ Caller.least > Fitness(Candidate) /\ Candidate.children = <<>>
  /\ Searched(Front(calls) \o <<Better(Caller, Candidate)>>, <<>>)
SearchBelow ==
  /\ Considering /\ Caller.least > Fitness(Candidate) /\ Candidate.children # <<>>
  /\ Searched(Append(calls, Call(Candidate, Caller.closest)), <<>>)
ReturnLeaf ==
  /\ lookupStage = "search" /\ calls # <<>> /\ ~ Considering
  /\ IF Len(calls) = 1 THEN Searched(<<>>, Caller.closest)
     ELSE Searched(Append(SubSeq(calls, 1, Len(calls) - 2),
                          Better(calls[Len(calls) - 1], Caller.closest[1])), <<>>)

\* NewOpenCLAccelerator refuses a tree that is too deep for the kernel.
StartKernel ==
  /\ lookupStage = "search" /\ calls = <<>>
  /\ IF MaxDepth > StackSize
     THEN lookupStage' = "refused" /\ UNCHANGED kernelStack
     ELSE lookupStage' = "kernel" /\ kernelStack' = <<[node |-> 1, next |-> 1]>>
  /\ UNCHANGED <<preset, target, tree, packed, calls, leafFound, kernelBest>>

\* vg_biome_kernel: a turn of its loop.
KernelTop == Last(kernelStack)
KernelNode == packed[KernelTop.node]
KernelChild == KernelNode.first + KernelTop.next - 1
KernelTurn(stack, best) ==
  /\ kernelStack' = stack
  /\ kernelBest' = best
  /\ UNCHANGED <<preset, target, tree, packed, calls, leafFound, lookupStage>>
BestWith(n) ==
  IF kernelBest.distance > Fitness(packed[n])
  THEN [distance |-> Fitness(packed[n]), biome |-> packed[n].biome] ELSE kernelBest
InKernel == lookupStage = "kernel" /\ kernelStack # <<>>
KernelGoesOn == InKernel /\ KernelNode.count > 0 /\ KernelTop.next <= KernelNode.count
Onward == Front(kernelStack) \o <<[KernelTop EXCEPT !.next = @ + 1]>>
KernelRoot ==
  /\ InKernel /\ KernelNode.count = 0
  /\ KernelTurn(Front(kernelStack), BestWith(KernelTop.node))
KernelPop ==
  /\ InKernel /\ KernelNode.count > 0 /\ KernelTop.next > KernelNode.count
  /\ KernelTurn(Front(kernelStack), kernelBest)
KernelPassOver ==
  /\ KernelGoesOn /\ kernelBest.distance <= Fitness(packed[KernelChild])
  /\ KernelTurn(Onward, kernelBest)
KernelTake ==
  /\ KernelGoesOn /\ kernelBest.distance > Fitness(packed[KernelChild]) /\ packed[KernelChild].count = 0
  /\ KernelTurn(Onward, BestWith(KernelChild))
KernelPush ==
  /\ KernelGoesOn /\ kernelBest.distance > Fitness(packed[KernelChild]) /\ packed[KernelChild].count > 0
  /\ KernelTurn(Append(Onward, [node |-> KernelChild, next |-> 1]), kernelBest)
EndKernel ==
  /\ lookupStage = "kernel" /\ kernelStack = <<>>
  /\ lookupStage' = "found"
  /\ UNCHANGED <<preset, target, tree, packed, calls, leafFound, kernelStack, kernelBest>>

TreeNext ==
  \/ Build
  \/ PassOver \/ TakeLeaf \/ SearchBelow \/ ReturnLeaf
  \/ StartKernel
  \/ KernelRoot \/ KernelPop \/ KernelPassOver \/ KernelTake \/ KernelPush
  \/ EndKernel
TreeSpec == TreeInit /\ [][TreeNext]_treeVars

-----------------------------------------------------------------------------
\* lookupPresetBiome: the first of the nearest points of a list.
NearestOf(points) ==
  FoldLeft(LAMBDA best, p : IF Fitness(Leaf(p)) < Fitness(best) THEN Leaf(p) ELSE best,
           Leaf(points[1]), points)

(***************************************************************************)
(* The search prunes no box that holds a nearer point: what it finds is as *)
(* near as what a look at every point finds. The kernel finds the very     *)
(* same point, also among points equally near, and never leaves its stack  *)
(* (climate_rtree.go:177-201, opencl_overworld.cl:443-514).                *)
(***************************************************************************)
NearestBiome ==
  /\ Len(kernelStack) <= StackSize
  /\ leafFound # <<>> => Fitness(leafFound[1]) = Fitness(NearestOf(preset))
  /\ lookupStage = "found" => kernelBest.biome = leafFound[1].biome
=============================================================================
