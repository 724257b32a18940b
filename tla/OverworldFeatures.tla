------------------------- MODULE OverworldFeatures -------------------------
(***************************************************************************)
(* The features of the overworld (features.go): ores and disks, plants of  *)
(* the water, dripstone, geodes, lakes, rooms and wells, ice, bamboo and   *)
(* the huge mushrooms. Each is an operator of FeatureWorld's kind. What a  *)
(* feature's configuration or its draws fix (a radius, a height) is a      *)
(* roll; a loop of tries that leave nothing when they fail is one try.     *)
(* The fixed sizes of the code are scaled to the width of a chunk.         *)
(***************************************************************************)
EXTENDS FeatureWorld

CONSTANTS
  Sea,          \* seaLevel
  RoomHalf,     \* half the width of a monster room inside: 2 or 3
  RoomTop,      \* the row of its ceiling above the origin: 4
  LakeMargin,   \* rows a lake keeps from the bounds of the dimension: 4
  WellTop,      \* the row of the roof of a well above its water: 4
  StalkMin      \* the least height of a bamboo, a huge mushroom or fungus: 4 or 5

ASSUME SizesAssumption ==
  /\ Sea \in Int /\ {RoomHalf, RoomTop, WellTop, StalkMin} \subseteq Nat \ {0} /\ LakeMargin \in Nat

OreTargets == {"stone", "netherrack"}

-----------------------------------------------------------------------------
\* Ores.

\* canPlaceOreAt: blocks outside the source chunk count as air.
Exposed(t, p) == \E q \in Faces(p) : ~ InChunk(t, q) \/ At(t, q) = "air"
Discarded(t, p, roll) == roll = 2 /\ Exposed(t, p)

\* executeOre: some column of the probe square must reach the ocean floor.
Ore(t, o) ==
  LET r == 1 + Roll(t, 0, 2)
      probed == \E x \in o[1] - r - 1 .. o[1] + r + 1 :
                  o[2] - 2 - r <= OceanFloor(t, x)
      hit == {p \in Blob(o, r) : /\ InScope(t, p) /\ At(t, p) \in OreTargets
                                 /\ ~ Discarded(t, p, Roll(t, 1, 3))}
  IN  IF probed THEN Reply(Put(t, hit, "ore"), hit # {}) ELSE Refuse(t)

ScatteredOre(t, o) ==
  LET tries == {<<o[1] + Swing(t, 2 * j, Min({j, 7})), o[2] + Swing(t, 2 * j + 1, Min({j, 7}))>> :
                  j \in 0 .. Roll(t, 0, 4) - 1}
      hit == {p \in tries : /\ InScope(t, p) /\ At(t, p) \in OreTargets
                            /\ ~ Discarded(t, p, Roll(t, 1, 3))}
  IN  Reply(Put(t, hit, "ore"), hit # {})

Disk(t, o) ==
  LET r == 1 + Roll(t, 0, 2)
      hit == {p \in Square(o, r, -1, 1) : Matches(t, p, Soil \cup {"sand"})}
  IN  Reply(Put(t, hit, "clay"), hit # {})

-----------------------------------------------------------------------------
\* Under water.

\* Success with nothing placed where a tall plant finds no water above.
Seagrass(t, o) ==
  LET x == o[1] + Swing(t, 0, 2)
      p == <<x, Placement(t, x, OceanFloor(t, x))>>
      tall == Roll(t, 2, 2) = 0
      stands == /\ InScope(t, p) /\ At(t, p) = "water"
                /\ InScope(t, Above(p, -1)) /\ Solid(At(t, Above(p, -1))) /\ At(t, Above(p, -1)) # "magma"
      roomy == InScope(t, Above(p, 1)) /\ At(t, Above(p, 1)) = "water"
  IN  IF ~ InScope(t, <<x, o[2]>>) \/ ~ stands THEN Refuse(t)
      ELSE Reply(Put(t, IF ~ tall THEN {p} ELSE IF roomy THEN {p, Above(p, 1)} ELSE {}, "seagrass"), TRUE)

\* kelpCanSurviveAt
KelpStands(t, p) ==
  LET below == At(t, Above(p, -1))
  IN  InScope(t, Above(p, -1)) /\ below # "magma" /\ (below \in {"kelp", "kelp_plant"} \/ Solid(below))

\* Bodies from the ocean floor up, and a head: on top of the full height, or
\* where the stalk ends early on its last body.
Kelp(t, o) ==
  LET base == <<o[1], Placement(t, o[1], OceanFloor(t, o[1]))>>
      Water(p) == p[2] > MinY /\ InScope(t, p) /\ At(t, p) = "water"
      Deep(p) == Water(p) /\ Water(Above(p, 1))
      height == 1 + Roll(t, 0, 3)
      n == IF KelpStands(t, base) THEN Extent(base, 1, height + 1, Deep) ELSE 0
      grown == Put(t, Upward(base, Min({n, height})), "kelp_plant")
      last == Above(base, n - 1)
      retopped == KelpStands(grown, last)
                  /\ (~ InScope(t, Above(last, -1)) \/ At(grown, Above(last, -1)) # "kelp")
  IN  IF n = height + 1 THEN Reply(Put(grown, {Above(base, height)}, "kelp"), TRUE)
      ELSE IF n > 0 /\ retopped THEN Reply(Put(grown, {last}, "kelp"), TRUE)
      ELSE Refuse(grown)

SeaPickle(t, o) ==
  IF InChunk(t, o) /\ At(t, o) = "water" /\ FilledInScope(t, Above(o, -1))
  THEN Reply(Put(t, {o}, "sea_pickle"), TRUE) ELSE Refuse(t)

\* The row found, or -1 where no floor is: a row of the dimension as well.
UnderwaterMagma(t, o) ==
  LET floors == {y \in Max({MinY, o[2] - 2}) .. o[2] :
                   LocalAt(t, <<o[1], y>>) = "water" /\ Filled(LocalAt(t, <<o[1], y - 1>>))}
      floorY == IF floors = {} THEN -1 ELSE Max(floors) - 1
      hit == {p \in {<<o[1] + dx, floorY>> : dx \in -1 .. 1} :
                /\ InChunk(t, p) /\ (p[1] # o[1] \/ Roll(t, 0, 2) = 0)
                /\ LocalAt(t, Above(p, 1)) = "water"}
  IN  IF floorY < MinY THEN Refuse(t) ELSE Reply(Put(t, hit, "magma"), hit # {})

-----------------------------------------------------------------------------
\* Springs, vines and growths on walls.

Spring(t, o) ==
  LET beside == Sides(o) \cup {Above(o, -1)}
      Rock(p) == Matches(t, p, OreTargets)
      rocks == {p \in beside : Rock(p)}
      holes == {p \in beside : Matches(t, p, {"air"})}
  IN  IF /\ Matches(t, o, {"air"}) /\ Rock(Above(o, 1)) /\ Rock(Above(o, -1))
         /\ Cardinality(rocks) = 2 /\ Cardinality(holes) = 1
      THEN Reply(Put(t, {o}, "water"), TRUE) ELSE Refuse(t)

SupportAnywhere(t, p) == {q \in Faces(p) : InChunk(t, q)}
Support(t, p) == {q \in Faces(p) : Matches(t, q, Stone)}
MultifaceGrowth(t, o) ==
  LET p == <<o[1] + Swing(t, 0, 1), o[2] + Swing(t, 1, 1)>>
  IN  IF InChunk(t, p) /\ Open(LocalAt(t, p)) /\ Support(t, p) # {}
      THEN Reply(Put(t, {p}, "vein"), TRUE) ELSE Refuse(t)

\* The floor becomes sculk, and sometimes a vein grows near it.
SculkPatch(t, o) ==
  LET p == <<o[1] + Swing(t, 0, 1), o[2] + Swing(t, 1, 1)>>
      spread == Put(t, {Above(p, -1)}, "sculk")
  IN  IF ~ (InChunk(t, p) /\ FilledInScope(t, Above(p, -1)) /\ Open(LocalAt(t, p))) THEN Refuse(t)
      ELSE Reply(IF Roll(t, 2, 2) = 0 THEN MultifaceGrowth(spread, p) ELSE spread, TRUE)

Vines(t, o) ==
  LET Free(p) == p[2] > MinY /\ LocalAt(t, p) = "air"
      n == Extent(o, -1, 1 + Roll(t, 0, 4), Free)
  IN  IF InChunk(t, o) /\ \E q \in Sides(o) : FilledInScope(t, q)
      THEN Reply(Put(t, Downward(o, n), "vine"), n > 0) ELSE Refuse(t)

-----------------------------------------------------------------------------
\* Dripstone.

PointedDripstone(t, o) ==
  LET up == FilledInScope(t, Above(o, 1))
      next == Above(o, IF up THEN -1 ELSE 1)
      taller == Roll(t, 0, 2) = 0 /\ InChunk(t, next) /\ Open(LocalAt(t, next))
  IN  IF ~ (InChunk(t, o) /\ Open(LocalAt(t, o)) /\ (up \/ FilledInScope(t, Above(o, -1)))) THEN Refuse(t)
      ELSE Reply(Put(t, {o} \cup IF taller THEN {next} ELSE {}, "pointed_dripstone"), TRUE)

\* Neither the columns nor the rows of a cluster are checked.
DripstoneCluster(t, o) ==
  LET found == FloorAndCeiling(t, o, 4)
      r == 1 + Roll(t, 0, 2)
      height == 1 + Roll(t, 1, 2)
      blocks == UNION {{<<x, found[1]>>, <<x, found[2]>>} : x \in o[1] - r .. o[1] + r}
      points == UNION {{<<x, found[1] + 1 + i>>, <<x, found[2] - 1 - i>>} :
                         x \in o[1] - r .. o[1] + r,
                         i \in {j \in 0 .. height - 1 : found[1] + 1 + j < found[2] - 1}}
  IN  IF found = <<>> THEN Refuse(t)
      ELSE Reply(Put(Put(t, blocks, "dripstone_block"), points, "pointed_dripstone"), TRUE)

\* placeLargeDripstoneColumn: up to the border of the scope, the height of the
\* ground, or stone behind an open cell.
DripstoneColumn(t, root, step, r) ==
  LET Cell(x, i) == <<x, root[2] + step * i>>
      Melts(p) == At(t, p) \in {"air", "water", "lava"}
      Ends(x, i) == \/ ~ InScope(t, Cell(x, i))
                    \/ step = 1 /\ Cell(x, i)[2] >= Placement(t, x, WorldSurface(t, x))
                    \/ At(t, Cell(x, i)) \in Stone /\ \E j \in 0 .. i - 1 : Melts(Cell(x, j))
      Height(x) == 1 + r - Magnitude(x - root[1])
      reached == UNION {{Cell(x, i) : i \in {k \in 0 .. Height(x) - 1 : \A j \in 0 .. k : ~ Ends(x, j)}} :
                          x \in root[1] - r .. root[1] + r}
      hit == {p \in reached : Melts(p)}
  IN  [Put(t, hit, "dripstone_block") EXCEPT !.ok = t.ok \/ hit # {}]
LargeDripstone(t, o) ==
  LET found == FloorAndCeiling(t, o, MaxY - MinY)
      r == 1 + Roll(t, 0, 2)
  IN  IF ~ (InScope(t, o) /\ Open(At(t, o))) \/ found = <<>> THEN Refuse(t)
      ELSE IF found[2] - found[1] - 1 < 4 THEN Refuse(t)
      ELSE DripstoneColumn(DripstoneColumn(t, <<o[1], found[2] - 1>>, -1, r), <<o[1], found[1] + 1>>, 1, r)
=============================================================================
