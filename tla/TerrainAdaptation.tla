-------------------------- MODULE TerrainAdaptation --------------------------
(***************************************************************************)
(* Terrain that makes room for structures (structure_terrain_adaptation.go *)
(* and gen/density_chunk.go). Density is computed at the corners of cells, *)
(* 4 blocks wide and 8 high; each corner gets what the noise says and what *)
(* the planned structures near it add. A chunk computes its own corners,   *)
(* those it shares with its neighbours too, from the starts it finds.      *)
(*                                                                         *)
(* There is one horizontal axis. A corner is the list of what was added up *)
(* there: only whether a structure is felt matters, not how much.          *)
(***************************************************************************)
EXTENDS Integers, Sequences, SequencesExt

CONSTANTS
  Towns,        \* lists of planned starts
  BuiltChunks,  \* the chunks that are built
  CellCount,    \* cellCountY
  LowestCorner, \* minY
  NoChunk,
  MayAccelerate \* whether final density may come from the accelerator

ASSUME CornersAssumption == CellCount \in Nat \ {0} /\ LowestCorner \in Int

VARIABLES
  town,         \* the starts, in the order they are found
  built,        \* the corners of the chunks built
  building,     \* the chunk that is being built, or NoChunk
  sampler,      \* what it found near it
  corners,      \* its corners
  cornerX, cornerY,
  accelerated

terrainVars == <<town, built, building, sampler, corners, cornerX, cornerY, accelerated>>

Noise == [kind |-> "noise"]
Corners == (0 .. 4) \X (0 .. CellCount)
CornerAt(c, k) == <<16 * c + 4 * k[1], LowestCorner + 8 * k[2]>>

-----------------------------------------------------------------------------
\* newStructureTerrainSampler: starts one chunk farther than they reach
\* (NearWithin: as far as they reach), for the sake of the margin.
Margin == 12
MeetsChunk(c, min, max) == max >= 16 * c - Margin /\ min <= 16 * c + 15 + Margin
Reach(start) ==
  [min |-> Min({start.pieces[i].min : i \in DOMAIN start.pieces}),
   max |-> Max({start.pieces[i].max : i \in DOMAIN start.pieces})]
NearWithin(start, c) == start.chunk - c \in -start.backreach .. start.backreach
Near(start, c) == start.chunk - c \in -(start.backreach + 1) .. start.backreach + 1
Considered(start, c) ==
  /\ Near(start, c)
  /\ start.adaptation # "none"
  /\ MeetsChunk(c, Reach(start).min, Reach(start).max)

\* appendStart: rigid pieces, and pieces of no pool, shape the ground; junctions
\* do by themselves.
Term(piece, start) ==
  [kind |-> start.adaptation, min |-> piece.min, max |-> piece.max,
   low |-> piece.low, high |-> piece.high, ground |-> piece.low + piece.delta]
PieceTerms(start, pieces) ==
  LET rigid == SelectSeq(pieces, LAMBDA p : p.projection # "terrain_matching")
  IN  [i \in DOMAIN rigid |-> Term(rigid[i], start)]
Junctions(pieces) == FlattenSeq([i \in DOMAIN pieces |-> pieces[i].junctions])
Met(start, c) == SelectSeq(start.pieces, LAMBDA p : MeetsChunk(c, p.min, p.max))
JunctionInside(c, j) == j.x > 16 * c - Margin /\ j.x < 16 * c + 15 + Margin
Sampled(c) ==
  LET found == SelectSeq(town, LAMBDA s : Considered(s, c))
      joined == FlattenSeq([i \in DOMAIN found |-> Junctions(Met(found[i], c))])
  IN  FlattenSeq([i \in DOMAIN found |-> PieceTerms(found[i], Met(found[i], c))])
      \o SelectSeq(joined, LAMBDA j : JunctionInside(c, j))

\* sample: where a term weighs anything. The table of weights ends sooner on
\* one side than on the other.
InTable(n) == n \in -12 .. 11
Outside(n, min, max) == Max({0, min - n, n - max})
Felt(t, x, y) ==
  LET d == Outside(x, t.min, t.max)
      v == Outside(y, t.low, t.high)
  IN  CASE t.kind = "bury" -> 4 * d * d + (y - t.ground) * (y - t.ground) < 144
        [] t.kind = "encapsulate" -> d * d + v * v < 144
        [] t.kind = "beard_thin" -> InTable(d) /\ InTable(y - t.ground)
        [] t.kind = "beard_box" -> InTable(d) /\ InTable(Outside(y, t.ground, t.high))
        [] t.kind = "junction" -> InTable(x - t.x) /\ InTable(y - t.y)
        [] OTHER -> FALSE
FeltAt(terms, at) == SelectSeq(terms, LAMBDA t : Felt(t, at[1], at[2]))

-----------------------------------------------------------------------------
TerrainInit ==
  /\ town \in Towns
  /\ built = [c \in BuiltChunks |-> <<>>]
  /\ building = NoChunk /\ sampler = <<>> /\ corners = <<>> /\ cornerX = 0 /\ cornerY = 0
  /\ accelerated = MayAccelerate

StartChunk(c) ==
  /\ building = NoChunk
  /\ built[c] = <<>>
  /\ building' = c
  /\ sampler' = Sampled(c)
  /\ corners' = [k \in Corners |-> <<>>]
  /\ cornerX' = 0 /\ cornerY' = 0
  /\ UNCHANGED <<town, built, accelerated>>

\* FinalDensity: all corners at once, and AddCornerDensity after it; or an error,
\* that ends the acceleration and leaves the chunk to the evaluators.
Accelerate ==
  /\ building # NoChunk /\ accelerated /\ cornerX = 0 /\ cornerY = 0
  /\ corners' = [k \in Corners |-> <<Noise>> \o FeltAt(sampler, CornerAt(building, k))]
  /\ cornerX' = 5
  /\ UNCHANGED <<town, built, building, sampler, cornerY, accelerated>>
LoseAcceleration ==
  /\ building # NoChunk /\ accelerated /\ cornerX = 0 /\ cornerY = 0
  /\ accelerated' = FALSE
  /\ UNCHANGED <<town, built, building, sampler, corners, cornerX, cornerY>>

\* NewFinalDensityChunkWithEvaluator: columns from below, four corners at a time
\* while there are four.
Evaluate(count) ==
  /\ building # NoChunk /\ ~ accelerated /\ cornerX <= 4 /\ cornerY <= CellCount
  /\ corners' = [k \in Corners |->
       IF k[1] = cornerX /\ k[2] \in cornerY .. cornerY + count - 1
       THEN <<Noise>> \o FeltAt(sampler, CornerAt(building, k)) ELSE corners[k]]
  /\ cornerY' = cornerY + count
  /\ UNCHANGED <<town, built, building, sampler, cornerX, accelerated>>
VectorEvaluator == cornerY + 3 <= CellCount /\ Evaluate(4)
ScalarEvaluator == cornerY + 3 > CellCount /\ Evaluate(1)
NextColumn ==
  /\ building # NoChunk /\ cornerX <= 4 /\ cornerY > CellCount
  /\ cornerX' = cornerX + 1 /\ cornerY' = 0
  /\ UNCHANGED <<town, built, building, sampler, corners, accelerated>>

EndChunk ==
  /\ building # NoChunk /\ cornerX = 5
  /\ built' = [built EXCEPT ![building] = corners]
  /\ building' = NoChunk
  /\ sampler' = <<>> /\ corners' = <<>> /\ cornerX' = 0 /\ cornerY' = 0
  /\ UNCHANGED <<town, accelerated>>

TerrainNext ==
  \/ \E c \in BuiltChunks : StartChunk(c)
  \/ Accelerate \/ LoseAcceleration
  \/ VectorEvaluator \/ ScalarEvaluator \/ NextColumn
  \/ EndChunk
TerrainSpec == TerrainInit /\ [][TerrainNext]_terrainVars

-----------------------------------------------------------------------------
(***************************************************************************)
(* Every corner of a chunk feels each structure of the world that is near  *)
(* enough to be felt there, once, wherever the structure started and in    *)
(* whichever way the density was computed; so two chunks give the corners  *)
(* between them the same density and the ground has no seam. But junctions *)
(* 11 and 12 blocks past the last corner are left out: the window of a     *)
(* chunk ends with its last block (structure_terrain_adaptation.go:41-93). *)
(***************************************************************************)
EveryTerm ==
  LET all == SelectSeq(town, LAMBDA s : s.adaptation # "none")
  IN  FlattenSeq([i \in DOMAIN all |-> PieceTerms(all[i], all[i].pieces)])
      \o FlattenSeq([i \in DOMAIN all |-> Junctions(all[i].pieces)])
PastTheWindow(t, c) == t.kind = "junction" /\ t.x >= 16 * c + 27
CornersWhole ==
  \A c \in BuiltChunks : built[c] # <<>> =>
    \A k \in Corners : built[c][k] =
      <<Noise>> \o FeltAt(SelectSeq(EveryTerm, LAMBDA t : ~ PastTheWindow(t, c)), CornerAt(c, k))
=============================================================================
