------------------------- MODULE StructurePlacement -------------------------
(***************************************************************************)
(* How a planned structure gets into the world (placePlannedStructure,     *)
(* structure_processors.go, structure_transform.go). The pieces of a start *)
(* may lie across chunks. Each chunk turns and processes the whole template *)
(* of a piece that meets it and writes the blocks that fall into it, in any *)
(* order of the chunks and with nothing remembered from one to the next.   *)
(*                                                                         *)
(* Heights are left out: a position has x and z. The random numbers a      *)
(* processor draws are seeded by the position of the block, those of a cap *)
(* by the reference of the piece: they are the constants luck and shuffle  *)
(* of a behaviour.                                                         *)
(***************************************************************************)
EXTENDS StructureTransform, FiniteSets

CONSTANTS
  Cells,        \* positions of the world
  Natural,      \* the names of the blocks before the structure, by position
  Starts,       \* the starts: sequences of pieces
  Lucks,        \* draws: functions from Cells to 0 .. 9
  Shuffles,     \* permutations of 1 .. n, n as large as a template
  Borders       \* where chunk 2 begins, in x

Anywhere == [kind |-> "always_true"]

\* Where a list reads the world, no processor that is capped depends on it: of
\* the lists that ship, only those of streets test a location, without a cap.
ReadsWorld(proc) ==
  CASE proc.kind = "protected_blocks" -> TRUE
    [] proc.kind = "rule" -> \E i \in DOMAIN proc.rules : proc.rules[i].location # Anywhere
    [] OTHER -> FALSE
ListAllowed(list) ==
  \A i \in DOMAIN list : list[i].kind = "capped" =>
    ~ ReadsWorld(list[i].delegate) /\ \A j \in 1 .. i - 1 : ~ ReadsWorld(list[j])
ASSUME ListsAssumption == \A s \in Starts : \A i \in DOMAIN s : ListAllowed(s[i].processors)

VARIABLES
  start,        \* the pieces of the start, in order
  luck,         \* newStructureSeededRNG, by position
  shuffle,      \* shuffleWithRNG of the indices a cap goes through
  border,       \* the first x of chunk 2
  land,         \* the blocks of the world: name and state, by position
  unplaced      \* the chunks that have not placed their part

placementVars == <<start, luck, shuffle, border, land, unplaced>>

-----------------------------------------------------------------------------
\* Processors, applied to a block b with the fields pos, at (its position in the
\* world), was, name and state (of the template, and now). The part of the world
\* that is at hand, here, has its cells and what is seen there.
Here(world, cells) ==
  [cells |-> cells, name |-> [c \in Cells |-> IF c \in cells THEN world[c].name ELSE "air"]]

\* A position's draws begin anew in each test.
TestHolds(name, test, at) ==
  CASE test.kind = "always_true" -> TRUE
    [] test.kind = "block_match" -> name = test.block
    [] test.kind = "random_block_match" -> name = test.block /\ luck[at] < test.probability
    [] test.kind = "tag_match" -> name \in test.tag
PositionHolds(b, p, test) ==
  \/ test = Anywhere
  \/ /\ test # Anywhere /\ test.maxDist > test.minDist
     /\ LET d == b.at[test.axis] - p.origin[test.axis]
            far == (IF d < 0 THEN -d ELSE d) >= test.maxDist
        IN  luck[b.at] <= IF far THEN test.maxChance ELSE test.minChance

Fires(here, p, b, rule) ==
  /\ TestHolds(b.name, rule.input, b.at)
  /\ TestHolds(here.name[b.at], rule.location, b.at)
  /\ PositionHolds(b, p, rule.position)
Ruled(here, p, b, rules) ==
  LET firing == {i \in DOMAIN rules : Fires(here, p, b, rules[i])}
  IN  IF firing = {} THEN b
      ELSE [b EXCEPT !.name = rules[Min(firing)].output, !.state = [key |-> "none"]]

Keeps(here, b, proc) ==
  CASE proc.kind = "block_rot" -> b.was \notin proc.rottable \/ luck[b.at] <= proc.integrity
    [] proc.kind = "protected_blocks" -> here.name[b.at] \notin proc.tag
    [] OTHER -> TRUE
\* A processor on its own: the blocks it keeps, as it leaves them.
Simple(here, p, blocks, proc) ==
  LET kept == SelectSeq(blocks, LAMBDA b : Keeps(here, b, proc))
  IN  IF proc.kind = "rule" THEN [i \in DOMAIN kept |-> Ruled(here, p, kept[i], proc.rules)] ELSE kept

\* applyStructureCappedProcessor goes through all blocks of the piece in the
\* shuffled order until it has changed as many as the limit says. (CountedHere
\* goes through those of the chunk alone.)
CountedHere(here, blocks) == {i \in DOMAIN blocks : blocks[i].at \in here.cells}
Counted(here, blocks) == DOMAIN blocks
Capped(here, p, blocks, proc) ==
  LET order == SelectSeq(shuffle, LAMBDA i : i \in Counted(here, blocks))
      Replace(acc, i) ==
        LET updated == Simple(here, p, <<acc.out[i]>>, proc.delegate)
        IN  IF acc.replaced >= proc.limit \/ Len(updated) # 1 \/ updated = <<acc.out[i]>> THEN acc
            ELSE [out |-> [acc.out EXCEPT ![i] = updated[1]], replaced |-> acc.replaced + 1]
  IN  IF proc.limit <= 0 THEN blocks ELSE FoldLeft(Replace, [out |-> blocks, replaced |-> 0], order).out

\* processStructureTemplatePlacement.
TemplateBlocks(p) ==
  [i \in DOMAIN p.blocks |->
     [pos |-> p.blocks[i].pos, at |-> WorldPos(p, p.blocks[i].pos), was |-> p.blocks[i].name,
      name |-> p.blocks[i].name, state |-> p.blocks[i].state]]
Processed(here, p) ==
  FoldLeft(LAMBDA blocks, proc : IF proc.kind = "capped" THEN Capped(here, p, blocks, proc)
                                 ELSE Simple(here, p, blocks, proc),
           TemplateBlocks(p), p.processors)

-----------------------------------------------------------------------------
\* placePlannedStructure with cells for the chunk. A piece is passed over if its
\* box does not meet the chunk. A feature of the piece runs in the chunk of the
\* origin and writes there alone.
NeverPlaced == {"structure_void", "jigsaw", "structure_block"}
Placeable(here, p, b) ==
  /\ b.at \in here.cells
  /\ b.name \notin NeverPlaced
  /\ ~ (b.name = "air" /\ p.ignoreAir /\ b.was = "air")
Meets(cells, p) == \E c \in cells : WorldBox(p).x0 <= c[1] /\ c[1] <= WorldBox(p).x1
FeatureCells(p) == {<<p.origin[1] + d[1], p.origin[2] + d[2]>> : d \in p.features}

WithBlock(world, p, b) ==
  [world EXCEPT ![b.at] = [name |-> b.name, state |-> PlacedState(b.state, p.mirror, p.rotation)]]
WithFeatures(world, p, cells) ==
  [c \in Cells |-> IF p.origin \in cells /\ c \in cells \cap FeatureCells(p)
                   THEN [name |-> "feature", state |-> [key |-> "none"]] ELSE world[c]]
WithPiece(world, p, cells) ==
  LET here == Here(world, cells)
      blocks == SelectSeq(Processed(here, p), LAMBDA b : Placeable(here, p, b))
  IN  IF ~ Meets(cells, p) THEN world
      ELSE WithFeatures(FoldLeft(LAMBDA w, b : WithBlock(w, p, b), world, blocks), p, cells)

\* All pieces in order: a later one sees and replaces what an earlier one placed.
WithStart(world, cells) == FoldLeft(LAMBDA w, p : WithPiece(w, p, cells), world, start)

Untouched == [c \in Cells |-> [name |-> Natural[c], state |-> [key |-> "none"]]]
ChunkCells(chunk) == {c \in Cells : (c[1] < border) = (chunk = 1)}

PlacementInit ==
  /\ start \in Starts
  /\ luck \in Lucks
  /\ shuffle \in Shuffles
  /\ border \in Borders
  /\ land = Untouched
  /\ unplaced = {1, 2}

PlaceInChunk(chunk) ==
  /\ chunk \in unplaced
  /\ land' = WithStart(land, ChunkCells(chunk))
  /\ unplaced' = unplaced \ {chunk}
  /\ UNCHANGED <<start, luck, shuffle, border>>

PlacementDone == unplaced = {}
PlacementNext == \E chunk \in {1, 2} : PlaceInChunk(chunk)
PlacementSpec == PlacementInit /\ [][PlacementNext]_placementVars

-----------------------------------------------------------------------------
(***************************************************************************)
(* The chunks that a structure spans place parts of one structure: each    *)
(* places what a single pass over the whole world would place in it,       *)
(* whichever comes first. Processors with a cap count across the border.   *)
(* What a feature of a piece would write beyond the chunk of the origin is *)
(* missing (placePlannedStructure, applyStructureCappedProcessor).         *)
(***************************************************************************)
ChunkOf(c) == IF c[1] < border THEN 1 ELSE 2
PartsAgree ==
  LET whole == WithStart(Untouched, Cells)
      cut == UNION {{c \in FeatureCells(start[i]) : ChunkOf(c) # ChunkOf(start[i].origin)} :
                    i \in DOMAIN start}
  IN  \A c \in Cells \ cut : land[c] = IF ChunkOf(c) \in unplaced THEN Untouched[c] ELSE whole[c]

(***************************************************************************)
(* What a block of a template points to or connects to, it points to in    *)
(* the world: states are turned and mirrored as positions are              *)
(* (applyPlacedStructureStateTransform, transformStructurePos,             *)
(* rotateStructurePos).                                                    *)
(***************************************************************************)
StepOf == [north |-> <<0, -1>>, east |-> <<1, 0>>, south |-> <<0, 1>>, west |-> <<-1, 0>>]
Compass ==
  <<<<0, 1>>, <<-1, 2>>, <<-1, 1>>, <<-2, 1>>, <<-1, 0>>, <<-2, -1>>, <<-1, -1>>, <<-1, -2>>,
    <<0, -1>>, <<1, -2>>, <<1, -1>>, <<2, -1>>, <<1, 0>>, <<2, 1>>, <<1, 1>>, <<1, 2>>>>
PointsTo(s) ==
  CASE s.key = "facing" -> {StepOf[s.of]}
    [] s.key \in {"sides", "rail"} -> {StepOf[d] : d \in s.of}
    [] s.key = "axis" -> IF s.of = "x" THEN {<<1, 0>>, <<-1, 0>>} ELSE {<<0, 1>>, <<0, -1>>}
    [] s.key = "rotation" -> {Compass[s.of + 1]}
    [] OTHER -> {}
StatesTurnWithPositions ==
  \A i \in DOMAIN start : \A j \in DOMAIN start[i].blocks :
    LET p == start[i]
        b == p.blocks[j]
        at == WorldPos(p, b.pos)
        Seen(v) == LET to == WorldPos(p, <<b.pos[1] + v[1], b.pos[2] + v[2]>>)
                   IN  <<to[1] - at[1], to[2] - at[2]>>
    IN  land[at].name = b.name => PointsTo(land[at].state) = {Seen(v) : v \in PointsTo(b.state)}
=============================================================================
