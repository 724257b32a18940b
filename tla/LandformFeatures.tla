-------------------------- MODULE LandformFeatures --------------------------
(***************************************************************************)
(* The features of the overworld that shape ground or build on it          *)
(* (features.go): geodes, fossils, lakes, ice, boulders, bamboo, huge      *)
(* mushrooms, monster rooms and desert wells.                              *)
(***************************************************************************)
EXTENDS OverworldFeatures

CONSTANTS
  Ground,       \* worldSurfaceLevelAt, which the noise fixes for every view
  PillarFloor   \* the row above which an ice spike keeps a pillar: 50

ASSUME GroundAssumption == Ground \in Int /\ PillarFloor \in Int

-----------------------------------------------------------------------------
PutGeode(t, S, k) == Put(t, {p \in S : InScope(t, p) /\ At(t, p) \notin Kept}, k)
PlacedGeode(t, S) == \E p \in S : InScope(t, p) /\ At(t, p) \notin Kept

\* A bud on the first face, of those in order, that is open.
Bud(t, p) ==
  LET open == SelectSeq(<<Above(p, -1), Above(p, 1), Right(p, -1), Right(p, 1)>>,
                        LAMBDA q : InScope(t, q) /\ Open(At(t, q)))
  IN  IF open = <<>> THEN t ELSE PutGeode(t, {open[1]}, "bud")

Geode(t, o) ==
  LET points == {<<o[1] + 1 + Roll(t, 0, 2), o[2] + 1>>, <<o[1] + 1, o[2] + 1 + Roll(t, 1, 2)>>}
      invalid == {p \in points : InScope(t, p) /\ At(t, p) \in {"air", "water", "lava", "bedrock"}}
      middle == <<o[1] + 1, o[2] + 1>>
      crack == IF Roll(t, 2, 2) = 0 THEN {Right(middle, 1), Right(middle, 2)} ELSE {}
      hollow == {middle} \cup crack
      inner == Blob(middle, 1) \ hollow
      outer == Blob(middle, 2) \ (inner \cup hollow)
      shells == PutGeode(PutGeode(PutGeode(t, outer, "basalt"), inner, "amethyst"), hollow, "air")
      budded == IF Roll(t, 1, 2) = 0 THEN Bud(shells, Above(middle, -1)) ELSE shells
  IN  IF Cardinality(invalid) > 1 THEN Refuse(t)
      ELSE Reply(budded, PlacedGeode(t, Blob(middle, 2)) \/ budded.w # shells.w)

\* The bones, and then the coal laid over some of them, cut to the scope.
Fossil(t, o) ==
  LET y == Max({Min({o[2], Ground}) - 2 - Roll(t, 0, 2), MinY + 1})
      bones == {<<o[1] + dx, y + dy>> : dx \in -1 .. 1, dy \in 0 .. 1}
      corners == {<<o[1] + dx, y + dy>> : dx \in {-1, 1}, dy \in 0 .. 1}
      empty == {p \in corners : InScope(t, p) /\ At(t, p) \in {"air", "water", "lava"}}
      coal == {p \in bones : (p[1] + p[2] + Roll(t, 1, 2)) % 2 = 0}
  IN  IF Cardinality(empty) > Roll(t, 2, 3) THEN Refuse(t)
      ELSE Reply(PutInScope(PutInScope(t, bones, "bone_block"), coal, "coal_ore"),
                 \E p \in bones : InScope(t, p))

-----------------------------------------------------------------------------
\* Lakes. What surrounds the lake is looked at in the source chunk only.
LakeInterior(o, r, depth) ==
  {<<o[1] + dx, o[2] + dy>> : <<dx, dy>> \in
     {e \in (-r .. r) \X (-depth .. 1) :
        e[1] * e[1] * depth * depth + e[2] * e[2] * r * r <= r * r * depth * depth}}
LakeShellBelow(o, r, depth) ==
  LET inside == LakeInterior(o, r, depth)
  IN  {p \in Square(o, r + 1, -depth - 1, 1) \ inside : Above(p, 1) \in inside}
LakeShell(o, r, depth) ==
  LET inside == LakeInterior(o, r, depth)
  IN  {p \in Square(o, r + 1, -depth - 1, 1) \ inside : \E q \in Faces(p) : q \in inside}

Lake(t, o) ==
  LET r == 1 + Roll(t, 0, 2)
      depth == 1 + Roll(t, 1, 2)
      fluid == IF Roll(t, 2, 2) = 0 THEN "lava" ELSE "water"
      shell == {p \in LakeShell(o, r, depth) : InChunk(t, p)}
      inside == {p \in LakeInterior(o, r, depth) : InChunk(t, p)}
      holds == \A p \in shell : IF p[2] > o[2] THEN ~ Fluid(LocalAt(t, p))
                                ELSE Filled(LocalAt(t, p)) \/ LocalAt(t, p) = fluid
      filled == Put(Put(t, {p \in inside : p[2] <= o[2]}, fluid), {p \in inside : p[2] > o[2]}, "air")
      rim == {p \in shell : p[2] <= o[2] /\ Filled(LocalAt(filled, p))}
  IN  IF ~ (InChunk(t, o) /\ o[2] > MinY + LakeMargin /\ o[2] < MaxY - LakeMargin) \/ ~ holds
      THEN Refuse(t)
      ELSE Reply(IF inside # {} THEN Put(filled, rim, "barrier") ELSE filled, inside # {})

-----------------------------------------------------------------------------
\* Ice and snow.

\* executeFreezeTopLayer: the columns of the chunk, in a biome that freezes.
FreezeTopLayer(t, o) ==
  LET tops == {<<x, WorldSurface(t, x) - 1>> : x \in t.v.source * W .. t.v.source * W + W - 1}
      ice == {p \in tops : p[2] >= MinY /\ At(t, p) = "water"}
      snow == {p \in tops : /\ p[2] >= MinY /\ Filled(At(t, p))
                            /\ p[2] < MaxY /\ At(t, Above(p, 1)) = "air"}
  IN  IF Roll(t, 0, 2) = 0 THEN Refuse(t)
      ELSE Reply(Put(Put(t, ice, "ice"), {Above(p, 1) : p \in snow}, "snow"), ice \cup snow # {})

Ice == {"packed_ice", "blue_ice", "snow"}
IcebergCells(t, o, rows, r) ==
  {p \in {<<o[1] + dx, Sea + dy>> : dx \in -r .. r - 1, dy \in rows} :
     /\ Magnitude(p[1] - o[1]) <= r - (Magnitude(p[2] - Sea) \div 2)
     /\ InScope(t, p) /\ At(t, p) \in Ice \cup {"air", "water"}}

\* smoothIceberg: what hangs in the air falls off, with what it carries, and
\* what stands alone goes; a cell out of scope is air.
SmoothCell(t, p) ==
  LET bare == {q \in Sides(p) : ~ InScope(t, q) \/ At(t, q) \notin Ice}
      hangs == InScope(t, Above(p, -1)) /\ At(t, Above(p, -1)) = "air"
  IN  IF ~ InScope(t, p) \/ At(t, p) \notin Ice THEN t
      ELSE IF hangs THEN PutInScope(t, {p, Above(p, 1)}, "air")
      ELSE IF At(t, p) # "snow" /\ Cardinality(bare) = 2 THEN Put(t, {p}, "air") ELSE t

Iceberg(t, o) ==
  LET r == 1 + Roll(t, 0, 2)
      high == 1 + Roll(t, 1, 2)
      above == IcebergCells(t, o, 0 .. high - 1, r)
      raised == Put(t, above, IF Roll(t, 2, 2) = 0 THEN "snow" ELSE "packed_ice")
      width == 2 * (r \div 2) + 1
      order == [i \in 1 .. width * (high + 1) |->
                  <<o[1] - (r \div 2) + ((i - 1) \div (high + 1)), Sea + ((i - 1) % (high + 1))>>]
      smooth == FoldLeft(SmoothCell, raised, order)
      below == IcebergCells(smooth, o, -high .. -1, r)
  IN  Reply(Put(smooth, below, "packed_ice"), above \cup below # {})

\* executeBlueIce: spreads from packed ice, to cells beside blue ice.
Spread(t, p) ==
  IF /\ InScope(t, p) /\ At(t, p) \in {"air", "water", "packed_ice", "ice"}
     /\ \E q \in Faces(p) : InScope(t, q) /\ At(t, q) = "blue_ice"
  THEN Put(t, {p}, "blue_ice") ELSE t
BlueIce(t, o) ==
  LET wet == At(t, o) = "water" \/ (InScope(t, Above(o, -1)) /\ At(t, Above(o, -1)) = "water")
      packed == \E q \in Faces(o) \ {Above(o, -1)} : InScope(t, q) /\ At(t, q) = "packed_ice"
      tries == <<<<o[1] + Swing(t, 0, 1), o[2] + Swing(t, 1, 1)>>, <<o[1] + Swing(t, 1, 2), o[2] + Swing(t, 2, 1)>>>>
  IN  IF ~ (o[2] <= Sea - 1 /\ InScope(t, o) /\ wet /\ packed) THEN Refuse(t)
      ELSE Reply(FoldLeft(Spread, Put(t, {o}, "blue_ice"), tries), TRUE)

\* The first cell from o down that is not air, or the last row looked at.
Landing(t, o) ==
  LET rows == {y \in MinY + 3 .. o[2] : At(t, <<o[1], y>>) # "air"}
  IN  IF o[2] <= MinY + 2 THEN o ELSE <<o[1], IF rows = {} THEN MinY + 2 ELSE Max(rows)>>

\* executeSpike: a cone over the origin, mirrored below it where it is wide, and
\* pillars down to the first thing that is neither air nor replaceable.
Spike(t, o) ==
  LET base == Landing(t, o)
      from == Above(base, Roll(t, 0, 2))
      width == 1 + Roll(t, 1, 2)
      cone == {<<from[1] + dx, from[2] + dy>> : <<dx, dy>> \in
                 {e \in (-width .. width) \X (-width .. width) :
                    Magnitude(e[1]) + Magnitude(e[2]) <= width /\ (e[2] >= 0 \/ width > 1)}}
      Gives(p) == Matches(t, p, {"air", "dirt", "snow_block", "ice"})
      Fills(p) == At(t, p) = "air" \/ Gives(p) \/ At(t, p) = "packed_ice"
      Depth(x) == Extent(<<x, from[2] - 1>>, -1, from[2] - 1 - PillarFloor, Fills)
      pillar == UNION {Downward(<<x, from[2] - 1>>, Depth(x)) :
                         x \in {y \in from[1] - width + 1 .. from[1] + width - 1 : Chunk(y) = t.v.source}}
      hit == {p \in cone : InChunk(t, p) /\ Gives(p)} \cup {p \in pillar : InChunk(t, p)}
  IN  IF ~ Matches(t, base, {"snow_block"}) THEN Refuse(t)
      ELSE Reply(Put(t, hit, "packed_ice"), hit # {})

-----------------------------------------------------------------------------
\* Boulders, bamboo and huge mushrooms.

\* executeBlockBlob: three lumps, each a step off the one before.
Lump(t, o, i) ==
  LET xr == Roll(t, i, 2)
      yr == Roll(t, i + 1, 2)
      s == xr + yr + Roll(t, i + 2, 2)
  IN  PutInChunk(t, {p \in {<<o[1] + dx, o[2] + dy>> : dx \in -xr .. xr, dy \in -yr .. yr} :
                       Distance(p, o) <= (IF s < 2 THEN 0 ELSE s - 1)}, "cobblestone")
BlockBlob(t, o) ==
  LET rests == {y \in MinY + 4 .. o[2] : Matches(t, <<o[1], y - 1>>, Stone \cup Soil)}
      first == <<o[1], Max(rests)>>
      second == <<first[1] - 1 + Roll(t, 0, 2), first[2] - Roll(t, 1, 2)>>
      third == <<second[1] - 1 + Roll(t, 1, 2), second[2] - Roll(t, 2, 2)>>
      done == Lump(Lump(Lump(t, first, 0), second, 1), third, 2)
  IN  IF rests = {} THEN Refuse(t)
      ELSE Reply(done, {p \in {first, second, third} : InChunk(t, p)} # {})

Bamboo(t, o) ==
  LET Free(p) == p[2] <= MaxY /\ LocalAt(t, p) = "air"
      n == Extent(o, 1, StalkMin + Roll(t, 0, 2), Free)
      tip == Above(o, n)
      tipped == n >= 3 /\ Free(tip)
      stalk == Put(t, Upward(o, n) \cup IF tipped THEN {tip} ELSE {}, "bamboo")
      r == 1 + Roll(t, 2, 2)
      soil == {p \in {<<x, WorldSurface(stalk, x) - 1>> : x \in o[1] - r .. o[1] + r} :
                 InChunk(t, p) /\ At(stalk, p) \in Soil}
  IN  IF ~ /\ InChunk(t, o) /\ o[2] > MinY /\ o[2] < MaxY
           /\ LocalAt(t, o) = "air" /\ LocalAt(t, Above(o, -1)) \in Soil \cup {"bamboo", "sand"}
      THEN Refuse(t)
      ELSE Reply(IF Roll(t, 1, 2) = 0 THEN Put(stalk, soil, "podzol") ELSE stalk, TRUE)

\* executeHugeMushroom: all the room it needs is looked at first, and none of
\* it may lie outside the chunk.
HugeMushroom(t, o) ==
  LET height == StalkMin + Roll(t, 0, 2)
      red == Roll(t, 1, 2) = 0
      r == 1 + Roll(t, 2, 2)
      Radius(dy) == IF red THEN IF dy >= height - 3 THEN r ELSE 0 ELSE IF dy <= 3 THEN 0 ELSE r
      room == UNION {{<<o[1] + dx, o[2] + dy>> : dx \in -Radius(dy) .. Radius(dy)} : dy \in 0 .. height}
      cap == IF red THEN {<<o[1] + dx, o[2] + dy>> : dx \in {-r, r}, dy \in height - 3 .. height - 1}
                         \cup {<<o[1] + dx, o[2] + height>> : dx \in 1 - r .. r - 1}
                    ELSE {<<o[1] + dx, o[2] + height>> : dx \in -r .. r}
      Gives(p) == InChunk(t, p) /\ At(t, p) \in {"air", "plant", "vine", "water", "leaves"}
      placed == {p \in cap \cup Upward(o, height) : Gives(p)}
  IN  IF \/ o[2] < MinY + 1 \/ o[2] + height + 1 > MaxY + 1
         \/ ~ Matches(t, Above(o, -1), Soil)
         \/ \E p \in room : ~ InChunk(t, p) \/ At(t, p) \notin {"air", "leaves"}
      THEN Refuse(t)
      ELSE Reply(Put(Put(t, {p \in cap : Gives(p)}, "cap"), {p \in Upward(o, height) : Gives(p)}, "stem"),
                 placed # {})

-----------------------------------------------------------------------------
\* executeMonsterRoom. Out of scope nothing is solid and nothing is empty.
SolidAt(t, p) == InScope(t, p) /\ Solid(At(t, p))
EmptyAt(t, p) == InScope(t, p) /\ At(t, p) = "air"
Protected(t, p) == ~ InScope(t, p) \/ At(t, p) \in Kept

RoomChest(t, p) ==
  IF EmptyAt(t, p) /\ Cardinality({q \in Sides(p) : SolidAt(t, q)}) = 1 /\ ~ Protected(t, p)
  THEN Put(t, {p}, "chest") ELSE t

MonsterRoom(t, o) ==
  LET half == RoomHalf + 1
      shut == {p \in Square(o, half, -1, RoomTop) : p[2] \in {o[2] - 1, o[2] + RoomTop}}
      holes == {p \in {Right(o, -half), Right(o, half)} : EmptyAt(t, p) /\ EmptyAt(t, Above(p, 1))}
      space == {p \in Square(o, half, -1, RoomTop - 1) : InScope(t, p)}
      wall == {p \in space : p[2] = o[2] - 1 \/ Magnitude(p[1] - o[1]) = half}
      hanging == {p \in wall : p[2] >= MinY /\ ~ SolidAt(t, Above(p, -1))}
      bricks == {p \in wall \ hanging : Solid(At(t, p)) /\ At(t, p) \notin Kept}
      inside == {p \in space \ wall : At(t, p) \notin Kept}
      carved == Put(Put(t, hanging \cup inside, "air"), bricks, "cobblestone")
      chests == FoldLeft(RoomChest, carved,
                         [i \in 1 .. 2 |-> Right(o, Swing(t, i, RoomHalf))])
  IN  IF (\E p \in shut : ~ SolidAt(t, p)) \/ holes = {} THEN Refuse(t)
      ELSE Reply(IF Protected(chests, o) THEN chests ELSE Put(chests, {o}, "mob_spawner"), TRUE)

\* executeDesertWell: nothing keeps it in the scope but what it stands on.
DesertWell(t, o) ==
  LET top == Landing(t, Above(o, 1))
      hollow == \E x \in top[1] - 2 .. top[1] + 2 :
                  LET p == <<x, top[2] - 1>>
                      q == <<x, top[2] - 2>>
                  IN  InScope(t, p) /\ InScope(t, q) /\ At(t, p) = "air" /\ At(t, q) = "air"
      stone == Square(top, 2, -2, 0) \cup {<<top[1] + dx, top[2] + 1>> : dx \in {-2, 2}}
               \cup {<<top[1] + dx, top[2] + WellTop>> : dx \in -1 .. 1}
               \cup {<<top[1] + dx, top[2] + dy>> : dx \in {-1, 1}, dy \in 1 .. WellTop - 1}
      basin == {<<top[1] + dx, top[2]>> : dx \in -1 .. 1}
      buried == {<<top[1] + Swing(t, 0, 1), top[2] - 2>>}
      built == Put(Put(t, stone, "sandstone"), basin, "water")
  IN  IF At(t, top) # "sand" \/ hollow THEN Refuse(t)
      ELSE Reply(Put(built, {Above(p, -1) : p \in basin} \cup buried, "sand"), TRUE)
=============================================================================
