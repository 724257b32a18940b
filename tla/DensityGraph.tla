---------------------------- MODULE DensityGraph ----------------------------
(***************************************************************************)
(* The density graph (gen/runtime.go): nodes that are evaluated at a       *)
(* position, with four memories between them. A grid holds the flat nodes  *)
(* of a chunk at the corners of its quarts, a column context the Cache2D   *)
(* nodes of one column, and a scratch every node of the current position,  *)
(* told from older ones by a mark; scratches are kept in a pool with all   *)
(* they held. Answers must be what the graph says, as if nothing were ever *)
(* remembered: "values are position-pure".                                 *)
(*                                                                         *)
(* A position is a pair of one horizontal coordinate and a height, values  *)
(* are integers, the mark counts modulo Marks and not 2^32, and operations *)
(* are told apart by what they ask for: nothing, all of their operands, or *)
(* operands that others select.                                            *)
(* The pools of the graph and of the biome source are one, and the scratch *)
(* of an aquifer is one that is never put back for others.                 *)
(***************************************************************************)
EXTENDS Integers, Sequences, SequencesExt, FiniteSetsExt, TLC

CONSTANTS
  Nodes,        \* Graph.Nodes: operation, operands and parameters
  Marks,        \* marks before the count wraps around
  Inquiries,    \* what callers ask: grid, column context, roots and position
  MaxInquiries, \* bound
  NoGrid

ASSUME GraphAssumption ==
  /\ Marks \in Nat \ {0, 1} /\ MaxInquiries \in Nat
  /\ \A n \in DOMAIN Nodes : \A i \in DOMAIN Nodes[n].deps : Nodes[n].deps[i] \in 1 .. n - 1

VARIABLES
  scratches,   \* scratchPool
  inquiries,   \* how many have been answered
  answer       \* the last inquiry and its values

graphVars == <<scratches, inquiries, answer>>

NodesOf(op) == {n \in DOMAIN Nodes : Nodes[n].op = op}
\* FlatCacheOrder and Cache2DOrder: operands first. (WrappersFirst has them last.)
WrappersFirst == SetToSortSeq(NodesOf("flat"), >)
FlatCacheOrder == SetToSortSeq(NodesOf("flat"), <)
Cache2DOrder == SetToSortSeq(NodesOf("column"), <)

-----------------------------------------------------------------------------
\* What evalCommon makes of operands that are values already. Flat nodes, Cache2D,
\* CacheOnce, interpolated and blended nodes are their operand.

Made(n, at, operands) ==
  LET node == Nodes[n]
      Sample(x, y) == ((5 * node.noise + 3 * x + (IF node.tall THEN 4 * y ELSE 0)) % 9) - 4 IN
  CASE node.op = "constant" -> node.value
    [] node.op = "noise" -> IF operands = <<>> THEN Sample(at.x, at.y) ELSE Sample(at.x + operands[1], at.y)
    [] node.op = "gradient" -> Max({-node.value, Min({node.value, node.value - at.y})})
    [] node.op = "add" -> operands[1] + operands[2]
    [] node.op = "max" -> Max({operands[1], operands[2]})
    [] OTHER -> operands[1]

\* OpRangeChoice, and OpSpline between its points: which operand the first selects.
Selected(n, input) == Nodes[n].deps[IF input >= Nodes[n].min /\ input < Nodes[n].max THEN 2 ELSE 3]

\* FindTopSurface: where the search begins; Go's division rounds towards zero.
SearchFrom(n, upper) ==
  LET cell == Nodes[n].cell IN
  IF upper >= 0 THEN (upper \div cell) * cell ELSE -((-upper) \div cell) * cell

-----------------------------------------------------------------------------
\* EvalScratch. (ResetOnly does not clear what an earlier lap of the mark has seen.)
NewEvalScratch == [mark |-> 1, seen |-> [n \in DOMAIN Nodes |-> 0], values |-> [n \in DOMAIN Nodes |-> 0]]
ResetOnly(s) == [s EXCEPT !.mark = IF s.mark + 1 = Marks THEN 1 ELSE s.mark + 1]
Reset(s) ==
  LET mark == (s.mark + 1) % Marks IN
  IF mark # 0 THEN [s EXCEPT !.mark = mark]
  ELSE [s EXCEPT !.seen = [n \in DOMAIN Nodes |-> 0], !.mark = 1]
SetIn(s, n, value) == [s EXCEPT !.values[n] = value, !.seen[n] = s.mark]

\* pooledScratch, and putting it back for the next one.
PooledScratch(pool) ==
  [value |-> 0, scratch |-> IF pool = <<>> THEN NewEvalScratch ELSE Head(pool),
   pool |-> IF pool = <<>> THEN <<>> ELSE Tail(pool)]
PutBack(found) == [value |-> found.value, pool |-> <<found.scratch>> \o found.pool]
\* A scratch on which something begins, with nothing found yet.
Begun(value, taken) == [taken EXCEPT !.value = value, !.scratch = Reset(@)]
Remembered(n, found) == [found EXCEPT !.scratch = SetIn(@, n, found.value)]

-----------------------------------------------------------------------------
\* What is at hand besides the scratch: the grid of a chunk, the Cache2D nodes of a
\* column as far as they are computed, and, while a grid is filled, flatValues.

NothingAtHand == [grid |-> NoGrid, column |-> <<>>, flatValues |-> <<>>]

\* FlatCacheGrid.Lookup
Lookup(grid, n, x) == grid.values[Min({4, Max({0, x \div 4 - grid.firstQuart})})][n]
\* InnerToCache2D: the node wrapped stands for its wrapper.
Wrappers(n) == {w \in NodesOf("column") : Nodes[w].deps[1] = n}

AtHand(n, at, hand) ==
  IF n \in DOMAIN hand.flatValues THEN {hand.flatValues[n]}
  ELSE LET wrappers == Wrappers(n) \cap DOMAIN hand.column IN
       IF wrappers # {} THEN {hand.column[w] : w \in wrappers}
       ELSE IF n \in DOMAIN hand.column THEN {hand.column[n]}
       ELSE IF hand.grid # NoGrid /\ Nodes[n].op = "flat" THEN {Lookup(hand.grid, n, at.x)}
       ELSE {}

\* evalNormal, evalFlat and evalColumn, with the scratch and the pool threaded through.
RECURSIVE Evaluated(_, _, _, _, _), Computed(_, _, _, _, _), TopFrom(_, _, _, _, _, _)
Evaluated(n, at, hand, scratch, pool) ==
  IF AtHand(n, at, hand) # {}
    THEN [value |-> CHOOSE v \in AtHand(n, at, hand) : TRUE, scratch |-> scratch, pool |-> pool]
  ELSE IF scratch.seen[n] = scratch.mark
    THEN [value |-> scratch.values[n], scratch |-> scratch, pool |-> pool]
  ELSE Remembered(n, Computed(n, at, hand, scratch, pool))

Computed(n, at, hand, scratch, pool) ==
  LET node == Nodes[n] IN
  CASE node.op = "choice" ->
         LET input == Evaluated(node.deps[1], at, hand, scratch, pool) IN
         Evaluated(Selected(n, input.value), at, hand, input.scratch, input.pool)
    [] node.op = "top" ->
         LET upper == Evaluated(node.deps[2], at, hand, scratch, pool)
             inner == PooledScratch(upper.pool)
             y == SearchFrom(n, upper.value)
             found == IF y <= node.lower THEN [inner EXCEPT !.value = node.lower]
                      ELSE TopFrom(n, y, at, hand, inner.scratch, inner.pool) IN
         [value |-> found.value, scratch |-> upper.scratch, pool |-> <<found.scratch>> \o found.pool]
    [] OTHER ->
         LET Operand(done, dep) ==
               LET v == Evaluated(dep, at, hand, done.scratch, done.pool) IN
               [v EXCEPT !.value = Append(done.value, v.value)]
             operands == FoldLeft(Operand, [value |-> <<>>, scratch |-> scratch, pool |-> pool], node.deps) IN
         [operands EXCEPT !.value = Made(n, at, operands.value)]

TopFrom(n, y, at, hand, inner, pool) ==
  LET node == Nodes[n] IN
  IF y < node.lower THEN [value |-> node.lower, scratch |-> inner, pool |-> pool]
  ELSE LET density == Evaluated(node.deps[1], [at EXCEPT !.y = y], hand, Reset(inner), pool) IN
       IF density.value > 0 THEN [density EXCEPT !.value = y]
       ELSE TopFrom(n, y - node.cell, at, hand, density.scratch, density.pool)

-----------------------------------------------------------------------------
\* NewFlatCacheGrid, quart after quart with one scratch; flatValues keeps what the
\* quart before left in it.
FlatSlot(quart, done, n) ==
  [Evaluated(Nodes[n].deps[1], [x |-> 4 * quart, y |-> 0], [NothingAtHand EXCEPT !.flatValues = done.value],
             done.scratch, done.pool)
     EXCEPT !.value = (n :> @) @@ done.value]
FlatQuart(first, done, q) ==
  [FoldLeft(LAMBDA slots, n : FlatSlot(first + q, slots, n), Begun(done.value[q - 1], done), FlatCacheOrder)
     EXCEPT !.value = (q :> @) @@ done.value]
NewFlatCacheGrid(first, pool) ==
  PutBack(FoldLeft(LAMBDA done, q : FlatQuart(first, done, q),
                   [PooledScratch(pool) EXCEPT !.value = -1 :> [n \in NodesOf("flat") |-> 0]], <<0, 1, 2, 3, 4>>))

\* NewColumnContext
ColumnSlot(x, grid, done, n) ==
  [Evaluated(Nodes[n].deps[1], [x |-> x, y |-> 0], [NothingAtHand EXCEPT !.grid = grid, !.column = done.value],
             done.scratch, done.pool)
     EXCEPT !.value = (n :> @) @@ done.value]
NewColumnContext(x, grid, pool) ==
  PutBack(FoldLeft(LAMBDA done, n : ColumnSlot(x, grid, done, n), Begun(<<>>, PooledScratch(pool)), Cache2DOrder))

\* Eval of one root, EvalMulti of several and SampleClimate of six: a scratch is reset
\* once and shared by the roots.
Root(at, hand, done, n) ==
  [Evaluated(n, at, hand, done.scratch, done.pool) EXCEPT !.value = Append(done.value, @)]
EvalMulti(roots, at, hand, pool) ==
  PutBack(FoldLeft(LAMBDA done, n : Root(at, hand, done, n), Begun(<<>>, PooledScratch(pool)), roots))

\* What a caller asks: with the grid of a chunk or none, and with a column context or none.
OnColumn(inquiry, grid, column) ==
  EvalMulti(inquiry.roots, inquiry.at, [NothingAtHand EXCEPT !.grid = grid, !.column = column.value], column.pool)
OnGrid(inquiry, grid, pool) ==
  OnColumn(inquiry, grid, IF inquiry.column THEN NewColumnContext(inquiry.at.x, grid, pool)
                          ELSE [value |-> <<>>, pool |-> pool])
GridOf(first, filled) == [firstQuart |-> first, values |-> filled.value]
OnFilled(inquiry, filled) == OnGrid(inquiry, GridOf(4 * inquiry.chunk, filled), filled.pool)
Answered(inquiry) ==
  IF inquiry.chunk = NoGrid THEN OnGrid(inquiry, NoGrid, scratches)
  ELSE OnFilled(inquiry, NewFlatCacheGrid(4 * inquiry.chunk, scratches))

-----------------------------------------------------------------------------
GraphInit == scratches = <<>> /\ inquiries = 0 /\ answer = <<>>

Inquire ==
  /\ inquiries < MaxInquiries
  /\ \E inquiry \in Inquiries : \E found \in {Answered(inquiry)} :
       /\ scratches' = found.pool
       /\ answer' = [inquiry |-> inquiry, values |-> found.value]
  /\ inquiries' = inquiries + 1

\* A sync.Pool may drop what it holds.
ScratchDropped ==
  /\ \E i \in DOMAIN scratches : scratches' = RemoveAt(scratches, i)
  /\ UNCHANGED <<inquiries, answer>>

GraphNext == Inquire \/ ScratchDropped

-----------------------------------------------------------------------------
\* What a node is worth: a flat node counts at the corner of its quart when a grid is
\* used, and nothing is remembered.
RECURSIVE Worth(_, _, _), TopBelow(_, _, _, _)
Worth(n, at, snapped) ==
  LET node == Nodes[n] IN
  CASE node.op = "flat" -> Worth(node.deps[1], IF snapped THEN [x |-> 4 * (at.x \div 4), y |-> 0] ELSE at, snapped)
    [] node.op = "choice" -> Worth(Selected(n, Worth(node.deps[1], at, snapped)), at, snapped)
    [] node.op = "top" -> TopBelow(n, SearchFrom(n, Worth(node.deps[2], at, snapped)), at, snapped)
    [] OTHER -> Made(n, at, [i \in DOMAIN node.deps |-> Worth(node.deps[i], at, snapped)])
TopBelow(n, y, at, snapped) ==
  IF y < Nodes[n].lower THEN Nodes[n].lower
  ELSE IF Worth(Nodes[n].deps[1], [at EXCEPT !.y = y], snapped) > 0 THEN y
  ELSE TopBelow(n, y - Nodes[n].cell, at, snapped)

\* Whatever a scratch of the pool was used for before, and however roots, columns and
\* chunks share what they have computed, an answer is what the graph is worth there.
MemoriesExact ==
  answer # <<>> =>
    \A i \in DOMAIN answer.values :
      answer.values[i] = Worth(answer.inquiry.roots[i], answer.inquiry.at, answer.inquiry.chunk # NoGrid)
=============================================================================
