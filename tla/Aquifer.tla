------------------------------- MODULE Aquifer -------------------------------
(***************************************************************************)
(* The fluids underground (gen/aquifer.go), asked for by the build of a    *)
(* chunk, by its carvers, and by the height sampler of structures          *)
(* (structure_height_sampler.go). The ground is divided into cells with    *)
(* one rolled point each; a point has a fluid status, and a block follows  *)
(* the nearest of the points around it unless pressure between two of them *)
(* raises a barrier. Whoever asks has an aquifer of his own, made for one  *)
(* chunk, with memos of points and statuses. They share no state, so they  *)
(* are taken one after the other.                                          *)
(*                                                                         *)
(* One horizontal axis. Noises are inputs: floodedness and spread in       *)
(* tenths, barrier and density in sixtieths; similarities are in           *)
(* twenty-fifths. So all comparisons are exact.                            *)
(***************************************************************************)
EXTENDS Integers, Sequences, FiniteSets, FiniteSetsExt, SequencesExt, Folds, Functions

CONSTANTS
  Undergrounds,          \* the worlds: what seed and noises decide
  Askers,                \* sequence of [by |-> "build" or "measure", chunk]
  WetColumns,               \* the local columns that are looked at
  Lowest, Highest,       \* minY and maxY
  SeaLine,               \* SeaLevel of the fluid picker and the metadata
  LavaLine,              \* -54 in the code
  LavaThreshold          \* aquiferLavaThresholdY

VARIABLES
  water,                 \* the world
  turn,                  \* how many askers have begun
  aquifers,              \* their aquifers
  filled,                \* chunk -> column -> the substances of its heights
  carvedColumns,         \* chunk -> columns its carvers have been through
  measured               \* chunk -> column -> computeWorldSurfaceLevel

aquiferVars == <<water, turn, aquifers, filled, carvedColumns, measured>>
Wet == {Askers[i].chunk : i \in DOMAIN Askers}

-----------------------------------------------------------------------------
\* Cells, and the block a cell's point lies in.
GridX(x) == x \div 16
GridY(y) == y \div 12
PointIn(cell) == [x |-> 16 * cell[1] + water.jitter[cell][1], y |-> 12 * cell[2] + water.jitter[cell][2]]

\* OverworldFluidPicker
GlobalFluid(y) ==
  IF y < Min({LavaLine, SeaLine}) THEN [level |-> LavaLine, type |-> "lava"] ELSE [level |-> SeaLine, type |-> "water"]
FluidAt(status, y) == IF y < status.level THEN status.type ELSE "air"

\* preliminarySurfaceLevel: the level of the column a quart begins with.
SurfaceOver(x) == water.surface[x \div 4]
Adjusted(x) == SurfaceOver(x) + 8

\* isDeepDarkRegion reads erosion and depth at the corner of the quart for columns in
\* the flat cache of its chunk, and at the point itself elsewhere.
DarkColumn(chunk, x) == IF (x \div 4) - 4 * chunk \in 0 .. 4 THEN 4 * (x \div 4) ELSE x
DeepDark(chunk, point) == point.y < water.darkBelow[DarkColumn(chunk, point.x)]

-----------------------------------------------------------------------------
\* computeFluid: the status of a point.
SurveyOffsets == <<0, -2, -1, 0, 1, -3, -2, -1, 1, -2, -1, 0, 1>>
WayBelow == -4064

RandomizedLevel(point, lowest) ==
  Min({lowest, 40 * (point.y \div 40) + 20 + 3 * (water.spread[point.y \div 40] \div 3)})
LevelOf(chunk, point, lowest, sunk) ==
  LET distance == lowest + 8 - point.y
      factor == IF sunk THEN Max({0, Min({64, 64 - distance})}) ELSE 0      \* in 64ths
      flooded == 64 * water.floodedness[GridX(point.x)]
  IN  CASE DeepDark(chunk, point) -> WayBelow
        [] ~ DeepDark(chunk, point) /\ flooded > 512 - 11 * factor -> GlobalFluid(point.y).level
        [] ~ DeepDark(chunk, point) /\ flooded <= 512 - 11 * factor /\ flooded > 256 - 12 * factor ->
             RandomizedLevel(point, lowest)
        [] OTHER -> WayBelow
TypeOf(point, level) ==
  IF GlobalFluid(point.y).type = "lava" \/ (level <= LavaThreshold /\ level # WayBelow /\ water.lava)
  THEN "lava" ELSE "water"
StatusOf(chunk, point) ==
  LET sample[i \in DOMAIN SurveyOffsets] == point.x + 16 * SurveyOffsets[i]
      Wets(i) == FluidAt(GlobalFluid(Adjusted(sample[i])), Adjusted(sample[i])) # "air"
      open == {i \in DOMAIN sample : point.y + 12 > Adjusted(sample[i]) /\ Wets(i)}
      lowest == Min({SurfaceOver(sample[i]) : i \in DOMAIN sample})
      level == LevelOf(chunk, point, lowest, Wets(1))
  IN  IF point.y - 12 > Adjusted(point.x) THEN GlobalFluid(point.y)
      ELSE IF open # {} THEN GlobalFluid(Adjusted(sample[Min(open)]))
      ELSE [level |-> level, type |-> TypeOf(point, level)]

-----------------------------------------------------------------------------
\* NewNoiseBasedAquifer. Over the highest surface of all cells it may look at there is
\* nothing but open air and sea.
FirstX(chunk) == GridX(16 * chunk - 5)
LastX(chunk) == GridX(16 * chunk + 15 - 5) + 1
FirstY == GridY(Lowest + 1) - 1
LastY == GridY(Highest + 1) + 1
Footprint(chunk) == {x \in 16 * FirstX(chunk) .. 16 * LastX(chunk) + 9 : x % 4 = 0}
SkipAbove(chunk) ==
  LET highest == Max({SurfaceOver(x) : x \in Footprint(chunk)}) + 8
  IN  12 * (GridY(highest + 12) + 1) + 11 - 1
NewAquifer(chunk) == [chunk |-> chunk, skip |-> SkipAbove(chunk), points |-> <<>>, statuses |-> <<>>]

\* cacheIndex; a cell outside has none and is computed each time.
Cached(a, cell) == cell[1] \in FirstX(a.chunk) .. LastX(a.chunk) /\ cell[2] \in FirstY .. LastY
\* (CellIndexNarrow takes the cells of a row for one fewer than they are.)
CellIndexNarrow(a, cell) ==
  (cell[2] - FirstY) * (LastX(a.chunk) - FirstX(a.chunk)) + cell[1] - FirstX(a.chunk)
CellIndex(a, cell) ==
  (cell[2] - FirstY) * (LastX(a.chunk) - FirstX(a.chunk) + 1) + cell[1] - FirstX(a.chunk)

Put(memo, index, value) == [i \in DOMAIN memo \cup {index} |-> IF i = index THEN value ELSE memo[i]]
GetPoint(a, cell) ==
  IF Cached(a, cell) /\ CellIndex(a, cell) \in DOMAIN a.points THEN a.points[CellIndex(a, cell)] ELSE PointIn(cell)
GetStatus(a, cell) ==
  IF Cached(a, cell) /\ CellIndex(a, cell) \in DOMAIN a.statuses THEN a.statuses[CellIndex(a, cell)]
  ELSE StatusOf(a.chunk, GetPoint(a, cell))
Pointed(a, cell) ==
  IF Cached(a, cell) THEN [a EXCEPT !.points = Put(@, CellIndex(a, cell), GetPoint(a, cell))] ELSE a
Stated(a, cell) ==
  IF Cached(a, cell) THEN [a EXCEPT !.statuses = Put(@, CellIndex(a, cell), GetStatus(a, cell))] ELSE a

-----------------------------------------------------------------------------
\* insertAquiferNearest: of points equally near, the later one comes first.
Unmet == [cell |-> <<0, 0>>, dist |-> 2147483647]
Inserted3(near, new) ==
  LET before == SelectSeq(near, LAMBDA n : n.dist < new.dist)
      after == SelectSeq(near, LAMBDA n : n.dist >= new.dist)
  IN  SubSeq(before \o <<new>> \o after, 1, 3)
CellsAround(x, y) ==
  LET gx == GridX(x - 5) gy == GridY(y + 1)
  IN  <<<<gx, gy - 1>>, <<gx, gy>>, <<gx, gy + 1>>, <<gx + 1, gy - 1>>, <<gx + 1, gy>>, <<gx + 1, gy + 1>>>>
DistanceTo(point, x, y) == (point.x - x) * (point.x - x) + (point.y - y) * (point.y - y)
Nearest3(a, x, y) ==
  FoldLeft(LAMBDA near, cell : Inserted3(near, [cell |-> cell, dist |-> DistanceTo(GetPoint(a, cell), x, y)]),
           <<Unmet, Unmet, Unmet>>, CellsAround(x, y))

\* aquiferSimilarity and calculatePressure
Similarity(n, m) == 25 - (m.dist - n.dist)
AbsoluteOf(n) == IF n < 0 THEN -n ELSE n
Pressure(x, y, one, two) ==
  LET offset == 2 * y + 1 - (one.level + two.level)
      inside == AbsoluteOf(one.level - two.level) - AbsoluteOf(offset)
      push == IF offset > 0 THEN IF inside > 0 THEN 20 * inside ELSE 12 * inside
              ELSE IF 6 + inside > 0 THEN 10 * (6 + inside) ELSE 3 * (6 + inside)
      barrier == IF push \in -120 .. 120 THEN water.barrier[x % 4] ELSE 0
  IN  IF {FluidAt(one, y), FluidAt(two, y)} = {"lava", "water"} THEN 120
      ELSE IF one.level = two.level THEN 0
      ELSE 2 * (barrier + push)

\* ComputeSubstance, and of how many cells it needs the status: from the statuses of the
\* three nearest and how similar they are.
Verdict(x, y, density, one, two, three, s12, s13, s23) ==
  LET here == FluidAt(one, y)
      Holds(s, m, n) == 625 * density + s12 * s * Pressure(x, y, m, n) > 0
  IN  IF s12 <= 0 \/ (here = "water" /\ FluidAt(GlobalFluid(y - 1), y - 1) = "lava") THEN <<here, 1>>
      ELSE IF Holds(25, one, two) THEN <<"barrier", 2>>
      ELSE IF s13 <= 0 /\ s23 <= 0 THEN <<here, 2>>
      ELSE IF (s13 > 0 /\ Holds(s13, one, three)) \/ (s23 > 0 /\ Holds(s23, two, three)) THEN <<"barrier", 3>>
      ELSE <<here, 3>>
Judged(a, near, x, y, density) ==
  Verdict(x, y, density, GetStatus(a, near[1].cell), GetStatus(a, near[2].cell), GetStatus(a, near[3].cell),
          Similarity(near[1], near[2]), Similarity(near[1], near[3]), Similarity(near[2], near[3]))
ComputeSubstance(a, x, y, density) ==
  CASE density > 0 -> [is |-> "barrier", aquifer |-> a]
    [] density <= 0 /\ y > a.skip -> [is |-> FluidAt(GlobalFluid(y), y), aquifer |-> a]
    [] density <= 0 /\ y <= a.skip /\ FluidAt(GlobalFluid(y), y) = "lava" -> [is |-> "lava", aquifer |-> a]
    [] OTHER ->
         LET near == Nearest3(a, x, y)
             judged == Judged(a, near, x, y, density)
             located == FoldLeft(Pointed, a, CellsAround(x, y))
         IN  [is |-> judged[1],
              aquifer |-> FoldLeft(Stated, located, [i \in 1 .. judged[2] |-> near[i].cell])]

-----------------------------------------------------------------------------
DensityAt(x, y) == IF y < water.ground[x] /\ y \notin water.caves THEN 60 ELSE water.thin[x % 4]
Asker == Askers[turn]
Asking(kind) == turn \in DOMAIN Askers /\ Asker.by = kind
Rows(a, b) == [i \in 1 .. b - a + 1 |-> a + i - 1]

AquiferInit ==
  /\ water \in Undergrounds
  /\ turn = 0 /\ aquifers = <<>>
  /\ filled = [c \in Wet |-> <<>>]
  /\ carvedColumns = [c \in Wet |-> {}]
  /\ measured = [c \in Wet |-> <<>>]

\* The asker before has filled and carved its columns, or measured them.
BeginAsking ==
  /\ turn < Len(Askers)
  /\ Asking("build") => carvedColumns[Asker.chunk] = WetColumns
  /\ Asking("measure") => DOMAIN measured[Asker.chunk] = WetColumns
  /\ turn' = turn + 1
  /\ aquifers' = Append(aquifers, NewAquifer(Askers[turn + 1].chunk))
  /\ UNCHANGED <<water, filled, carvedColumns, measured>>

\* What is left when each row has been looked at in turn.
InTurn(Look(_, _), first, rows) ==
  LET after[n \in 0 .. Len(rows)] == IF n = 0 THEN {first} ELSE {Look(acc, rows[n]) : acc \in after[n - 1]}
  IN  CHOOSE acc \in after[Len(rows)] : TRUE

\* prepareChunkUncached, column by column, from the bottom.
Built(acc, x, y) ==
  LET d == DensityAt(x, y)
      s == ComputeSubstance(acc.aquifer, x, y, d)
      dry == IF d > 0 THEN "barrier" ELSE IF y <= SeaLine THEN "water" ELSE "air"
  IN  IF water.enabled THEN [aquifer |-> s.aquifer, column |-> Append(acc.column, s.is)]
      ELSE [acc EXCEPT !.column = Append(@, dry)]
BuiltColumn(a, x) ==
  LET Look(acc, y) == Built(acc, x, y)
  IN  InTurn(Look, [aquifer |-> a, column |-> <<"bedrock">>], Rows(Lowest + 1, Highest))
FillColumn ==
  /\ Asking("build") /\ DOMAIN filled[Asker.chunk] # WetColumns
  /\ LET x == Min(WetColumns \ DOMAIN filled[Asker.chunk])
         after == BuiltColumn(aquifers[turn], 16 * Asker.chunk + x)
     IN  /\ filled' = [filled EXCEPT ![Asker.chunk] = Put(@, x, after.column)]
         /\ aquifers' = [aquifers EXCEPT ![turn] = after.aquifer]
  /\ UNCHANGED <<water, turn, carvedColumns, measured>>

\* carveState, for any column a cave comes to, from the top: it asks about whatever is
\* neither air nor lava as if it were open.
CarveColumn(x) ==
  /\ Asking("build") /\ DOMAIN filled[Asker.chunk] = WetColumns
  /\ x \in WetColumns \ carvedColumns[Asker.chunk]
  /\ carvedColumns' = [carvedColumns EXCEPT ![Asker.chunk] = @ \cup {x}]
  /\ LET Asks(y) == y > Lowest + 8 /\ filled[Asker.chunk][x][y - Lowest + 1] \notin {"air", "lava"}
         Look(a, y) == IF Asks(y) THEN ComputeSubstance(a, 16 * Asker.chunk + x, y, 0).aquifer ELSE a
     IN  aquifers' = IF water.enabled
                     THEN [aquifers EXCEPT ![turn] = InTurn(Look, @, Reverse(Rows(Lowest + 2, Highest - 7)))]
                     ELSE aquifers
  /\ UNCHANGED <<water, turn, filled, measured>>

\* worldSurfaceLevelAt: from the top, down to what is not air; each column once.
Fathomed(acc, x, y) ==
  LET d == DensityAt(x, y)
      s == ComputeSubstance(acc.aquifer, x, y, d)
      hit == IF water.enabled THEN s.is # "air" ELSE d > 0 \/ y <= SeaLine
  IN  IF acc.found THEN acc
      ELSE [aquifer |-> IF water.enabled THEN s.aquifer ELSE acc.aquifer, found |-> hit,
            height |-> IF hit THEN Min({y + 1, Highest}) ELSE Lowest]
TopOf(a, x) ==
  LET Look(acc, y) == Fathomed(acc, x, y)
  IN  InTurn(Look, [aquifer |-> a, found |-> FALSE, height |-> Lowest], Reverse(Rows(Lowest, Highest)))
MeasureColumn(x) ==
  /\ Asking("measure") /\ x \in WetColumns \ DOMAIN measured[Asker.chunk]
  /\ LET after == TopOf(aquifers[turn], 16 * Asker.chunk + x)
     IN  /\ measured' = [measured EXCEPT ![Asker.chunk] = Put(@, x, after.height)]
         /\ aquifers' = [aquifers EXCEPT ![turn] = after.aquifer]
  /\ UNCHANGED <<water, turn, filled, carvedColumns>>

AquiferNext ==
  \/ BeginAsking
  \/ FillColumn
  \/ \E x \in WetColumns : CarveColumn(x) \/ MeasureColumn(x)

-----------------------------------------------------------------------------
\* What an aquifer remembers of a cell is that cell's.
Remembers(a) ==
  \A cell \in (FirstX(a.chunk) .. LastX(a.chunk)) \X (FirstY .. LastY) :
    LET i == CellIndex(a, cell) IN
    /\ i \in DOMAIN a.points => a.points[i] = PointIn(cell)
    /\ i \in DOMAIN a.statuses => a.statuses[i] = StatusOf(a.chunk, PointIn(cell))

\* Two aquifers know the same of a cell, unless the dark begins in the middle of a quart.
SameDark(point) ==
  \A x \in 4 * (point.x \div 4) .. 4 * (point.x \div 4) + 3 :
    (point.y < water.darkBelow[x]) = (point.y < water.darkBelow[point.x])
OneFluid(a, b) ==
  \A gx \in (FirstX(a.chunk) .. LastX(a.chunk)) \cap (FirstX(b.chunk) .. LastX(b.chunk)), gy \in FirstY .. LastY :
    LET i == CellIndex(a, <<gx, gy>>) j == CellIndex(b, <<gx, gy>>) IN
    (i \in DOMAIN a.statuses /\ j \in DOMAIN b.statuses /\ SameDark(PointIn(<<gx, gy>>)))
      => a.statuses[i] = b.statuses[j]

\* Where no cell is asked because the surface is far below, the cells say the same.
ShortcutHolds(a) ==
  \A x \in WetColumns, y \in Lowest + 1 .. Highest :
    LET at == 16 * a.chunk + x d == DensityAt(at, y) IN
    (y > a.skip /\ d <= 0) => ComputeSubstance([a EXCEPT !.skip = Highest], at, y, d).is = ComputeSubstance(a, at, y, d).is

\* What a structure measures is the top of the ground that is built.
HeightsAsBuilt ==
  \A c \in Wet, x \in WetColumns :
    (x \in DOMAIN filled[c] /\ x \in DOMAIN measured[c]) =>
      LET tops == {i \in DOMAIN filled[c][x] : filled[c][x][i] # "air"}
      IN  measured[c][x] = Min({Lowest + Max(tops), Highest})

(***************************************************************************)
(* Whoever asks for a fluid, in whatever order, for terrain, cave or       *)
(* height, is told the same: memos, shortcuts and the chunk an aquifer is  *)
(* made for change nothing.                                                *)
(***************************************************************************)
FluidsAgree ==
  /\ \A i \in DOMAIN aquifers : Remembers(aquifers[i])
  /\ \A i, j \in DOMAIN aquifers : i < j => OneFluid(aquifers[i], aquifers[j])
  /\ turn = Len(Askers) => \A i \in DOMAIN aquifers : ShortcutHolds(aquifers[i])
  /\ HeightsAsBuilt
=============================================================================
