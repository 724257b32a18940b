-------------------------- MODULE DirectStructures ---------------------------
(***************************************************************************)
(* The structures that are planned from single templates or a few of them: *)
(* igloo, shipwreck, ocean ruin, ruined portal, buried treasure, swamp     *)
(* hut, nether fossil and end city (buildPlannedDirectStructure and its    *)
(* builders). Positions are relative to the first block of the start's     *)
(* chunk; heights are those of the world. What a template holds is left    *)
(* out but for its size and the columns the pieces have to share.          *)
(***************************************************************************)
EXTENDS StructureTransform, FiniteSets

CONSTANTS
  DirectKinds,  \* what is planned, of DOMAIN Backreach
  Grounds,      \* the shapes of the ground
  MaxRuins,     \* bound: small ruins looked at around a large one
  Turns,        \* rotations of small ruins
  MinY, MaxY, Sea

\* estimateDirectStructureBackreach: in chunks, the same along x and z.
Backreach ==
  [igloo |-> 1, shipwreck |-> 2, ocean_ruin |-> 3, ruined_portal |-> 2, buried_treasure |-> 0,
   swamp_hut |-> 1, nether_fossil |-> 2, end_city |-> 16]

ASSUME DirectAssumption ==
  /\ MinY \in Int /\ MaxY \in Int /\ Sea \in Int /\ MinY < MaxY
  /\ MaxRuins \in Nat /\ Turns \subseteq 0 .. 3
  /\ DirectKinds \subseteq DOMAIN Backreach
  /\ Grounds \subseteq [base : Int, dx : Int, dz : Int, edge : Int, top : Int]

VARIABLES
  kind,         \* the structure that is planned
  ground,       \* the shape of the ground: height at the origin, slopes, edge,
                \* and the height of the world in the middle of the chunk
  pieces,       \* the pieces of the start, in order
  overall,      \* the union of their boxes
  measured,     \* columns whose ground the height was taken from
  slots,        \* places around a large ruin that are left
  planStage     \* "plan", "cluster", "built" or "none"

directVars == <<kind, ground, pieces, overall, measured, slots, planStage>>

-----------------------------------------------------------------------------
\* preliminarySurfaceLevelAt, and highestStructureSolidYAt where islands may end.
Within(y) == Max({MinY, Min({MaxY, y})})
GroundAt(c) == Within(ground.base + ((ground.dx * c[1] + ground.dz * c[2]) \div 8))
SolidAt(c) == IF c[1] > ground.edge THEN MinY ELSE GroundAt(c)

Columns(b) == (b.x0 .. b.x1) \X (b.z0 .. b.z1)
SumOf(f, first, last) ==
  LET sum[i \in first - 1 .. last] == IF i < first THEN 0 ELSE sum[i - 1] + f[i] IN sum[last]
Total(b) ==
  SumOf([x \in b.x0 .. b.x1 |-> SumOf([z \in b.z0 .. b.z1 |-> GroundAt(<<x, z>>)], b.z0, b.z1)], b.x0, b.x1)
\* sampleTemplateMeanY rounds to zero; sampleTemplateMinY, sampleTemplateFloorY.
MeanY(b) ==
  LET t == Total(b)
      n == (b.x1 - b.x0 + 1) * (b.z1 - b.z0 + 1)
  IN  IF t >= 0 THEN t \div n ELSE -((-t) \div n)
LowestY(b) == Min({GroundAt(c) : c \in Columns(b)})
FloorY(b) == IF LowestY(b) < MaxY THEN LowestY(b) + 1 ELSE MinY

\* newTemplateStructurePiece; size and pivot along x and z, h up.
Piece(what, origin, y, size, h, n, pivot) ==
  [what |-> what, origin |-> origin, y |-> y, size |-> size, h |-> h, rotation |-> n,
   mirror |-> "none", pivot |-> pivot, useTemplateTransform |-> TRUE, legs |-> {}]
Raised(p, y) == [p EXCEPT !.y = y]

\* The box of a piece; legs, of huts, are blocks of their own.
LegBlocks(p) == UNION {{<<l.at[1], y, l.at[2]>> : y \in l.y0 .. l.y1} : l \in p.legs}
BoxOf(p) ==
  LET b == WorldBox(p)
  IN  [x0 |-> b.x0, z0 |-> b.z0, x1 |-> b.x1, z1 |-> b.z1,
       y0 |-> Min({p.y} \cup {c[2] : c \in LegBlocks(p)}), y1 |-> p.y + p.h - 1]
Around(bs) ==
  [x0 |-> Min({b.x0 : b \in bs}), y0 |-> Min({b.y0 : b \in bs}), z0 |-> Min({b.z0 : b \in bs}),
   x1 |-> Max({b.x1 : b \in bs}), y1 |-> Max({b.y1 : b \in bs}), z1 |-> Max({b.z1 : b \in bs})]
Union(a, b) == Around({a, b})
\* RootBox is that of the first piece alone.
RootBox(ps) == BoxOf(ps[1])
UnionOf(ps) == Around({BoxOf(ps[i]) : i \in DOMAIN ps})
Overlap(a, b) ==
  /\ a.x0 <= b.x1 /\ b.x0 <= a.x1
  /\ a.y0 <= b.y1 /\ b.y0 <= a.y1
  /\ a.z0 <= b.z1 /\ b.z0 <= a.z1

Plan(ps, columns, left, next) ==
  /\ pieces' = ps
  /\ overall' = UnionOf(ps)
  /\ measured' = columns
  /\ slots' = left
  /\ planStage' = next
  /\ UNCHANGED <<kind, ground>>
Built(ps, columns) == Plan(ps, columns, {}, "built")

DirectInit ==
  /\ kind \in DirectKinds
  /\ ground \in Grounds
  /\ pieces = <<>> /\ overall = <<>> /\ measured = {} /\ slots = {}
  /\ planStage = "plan"

-----------------------------------------------------------------------------
\* buildIglooStructure: under half of the igloos is a laboratory, depth ladders
\* down.
IglooTop(n) == Piece("top", <<0, 0>>, 90, <<7, 8>>, 5, n, <<3, 5>>)
Entrance(n) == WorldPos(IglooTop(n), <<3, 5>>)
Laboratory(depth, sink, n) ==
  <<Piece("bottom", <<0, -2>>, 90 - 3 * depth - 3 + sink, <<7, 9>>, 6, n, <<3, 7>>)>>
  \o [i \in 1 .. depth - 1 |->
        Piece("middle", <<2, 4>>, 90 - 3 * (i - 1) - 3 + sink, <<3, 3>>, 3, n, <<1, 1>>)]
BuildIgloo ==
  /\ planStage = "plan" /\ kind = "igloo"
  /\ \E n \in 0 .. 3, depth \in {0} \cup 4 .. 11 :
       LET sink == GroundAt(Entrance(n)) - 91
       IN  Built(<<Raised(IglooTop(n), 90 + sink)>>
                 \o (IF depth = 0 THEN <<>> ELSE Laboratory(depth, sink, n)), {Entrance(n)})

\* buildShipwreckStructure: beached ships lie half in the ground.
Hulls == {<<9, l, 9>> : l \in {16, 17, 22, 24, 28}} \cup {<<9, 28, 21>>}
BuildShipwreck ==
  /\ planStage = "plan" /\ kind = "shipwreck"
  /\ \E n \in 0 .. 3, hull \in Hulls, beached \in BOOLEAN, sunk \in 0 .. 2 :
       LET ship == Piece("ship", <<0, 0>>, 90, <<hull[1], hull[2]>>, hull[3], n, <<4, 15>>)
           box == WorldBox(ship)
       IN  Built(<<Raised(ship, IF beached THEN LowestY(box) - (hull[3] \div 2) - sunk ELSE MeanY(box))>>,
                 Columns(box))

\* buildOceanRuinPieces: ruins of cold oceans are three templates in one place.
Ruin(at, n, large) ==
  LET size == IF large THEN <<16, 16>> ELSE <<6, 7>>
      p == Piece("ruin", at, 90, size, IF large THEN 16 ELSE 7, n, <<0, 0>>)
  IN  Raised(p, FloorY(WorldBox(p)))
Layers(cold) == IF cold THEN 3 ELSE 1

\* buildOceanRuinStructure and, below, the loop over oceanRuinClusterPositions:
\* shuffled, so the next one may be any that is left.
Slots == ((-1 .. 1) \X (-1 .. 1)) \ {<<0, 0>>}
BuildOceanRuin ==
  /\ planStage = "plan" /\ kind = "ocean_ruin"
  /\ \E n \in 0 .. 3, large, cold, cluster \in BOOLEAN :
       LET ruin == Ruin(<<8, 8>>, n, large)
       IN  /\ cluster => large
           /\ Plan([i \in 1 .. Layers(cold) |-> ruin], Columns(WorldBox(ruin)),
                   IF cluster THEN Slots ELSE {}, IF cluster THEN "cluster" ELSE "built")

\* Where a small ruin goes, from the corner of the large one: the least and the
\* greatest of the random numbers.
Shift(slot) ==
  LET x == IF slot[1] = -1 THEN {1, 8} ELSE {1, 7}
      z == CASE slot[2] = -1 /\ slot[1] = 0 -> {4, 6}
             [] slot[2] = -1 /\ slot[1] # 0 -> {4, 8}
             [] slot = <<1, 1>> -> {3, 8}
             [] OTHER -> {1, 7}
  IN  x \X z
Corner == LET far == WorldPos(pieces[1], <<15, 15>>) IN <<Min({8, far[1]}), Min({8, far[2]})>>
AddRuin ==
  /\ planStage = "cluster" /\ Cardinality(Slots \ slots) < MaxRuins
  /\ \E slot \in slots, n \in Turns : \E d \in Shift(slot) :
       LET ruin == Ruin(Plus(Plus(Corner, <<16 * slot[1], 16 * slot[2]>>), d), n, FALSE)
           kept == ~ Overlap(BoxOf(ruin), overall)
       IN  /\ pieces' = IF kept THEN Append(pieces, ruin) ELSE pieces
           /\ overall' = IF kept THEN Union(overall, BoxOf(ruin)) ELSE overall
           /\ slots' = slots \ {slot}
  /\ UNCHANGED <<kind, ground, measured, planStage>>
EndCluster ==
  /\ planStage = "cluster" /\ slots # Slots
  /\ planStage' = "built"
  /\ UNCHANGED <<kind, ground, pieces, overall, measured, slots>>

\* buildRuinedPortalStructure with ruinedPortalTargetY. Go rounds half of a position
\* to zero: down or up, as the world's origin lies west or east of it.
Doorways ==
  {<<6, 6, 10>>, <<12, 10, 8>>, <<9, 9, 12>>, <<10, 7, 10>>, <<5, 7, 7>>, <<14, 9, 9>>, <<11, 16, 17>>, <<16, 16, 16>>}
PortalHeights(surface, span) ==
  {Within(surface)} \cup {surface - span + r : r \in {2, 8}}
  \cup {70, Max({70, surface - span}), MinY + 15, Max({MinY + 15, surface - span})}
BuildRuinedPortal ==
  /\ planStage = "plan" /\ kind = "ruined_portal"
  /\ \E n \in 0 .. 3, m \in {"none", "front_back"}, d \in Doorways, up \in (0 .. 1) \X (0 .. 1) :
       LET portal == [Piece("portal", <<0, 0>>, 0, <<d[1], d[2]>>, d[3], n, <<d[1] \div 2, d[2] \div 2>>)
                        EXCEPT !.mirror = m]
           b == WorldBox(portal)
           centre == <<(b.x0 + b.x1 + up[1]) \div 2, (b.z0 + b.z1 + up[2]) \div 2>>
       IN  \E y \in PortalHeights(GroundAt(centre) - 1, d[3]) : Built(<<Raised(portal, y)>>, {centre})

\* buildBuriedTreasureStructure: a chest and what surrounds it.
BuildTreasure ==
  /\ planStage = "plan" /\ kind = "buried_treasure"
  /\ LET y == Max({MinY + 1, GroundAt(<<9, 9>>) - 1})
     IN  Built(<<Piece("chest", <<8, 8>>, y - 1, <<3, 3>>, 2, 0, <<0, 0>>)>>, {<<9, 9>>})

\* planStructureStartForPlanner, buildSwampHutStructure and buildSwampHutBlocks: the
\* floor is at the height of the world's surface (worldSurfaceLevelAt) in the middle of
\* the chunk, which is beside the hut however it is turned; four legs go down from it
\* to the preliminary surface.
Feet == {1, 5} \X {2, 7}
Legs(hut) ==
  {[at |-> WorldPos(hut, f), y0 |-> GroundAt(WorldPos(hut, f)) - 1, y1 |-> hut.y - 1] : f \in Feet}
BuildSwampHut ==
  /\ planStage = "plan" /\ kind = "swamp_hut"
  /\ \E n \in 0 .. 3 :
       LET y == Max({MinY + 1, Within(ground.top - 1)})
           hut == Piece("hut", <<0, 0>>, y, <<7, 9>>, 5, n, <<0, 0>>)
       IN  Built(<<[hut EXCEPT !.legs = Legs(hut)]>>, {<<8, 8>>})

\* buildNetherFossilStructure: on the first floor below some height that is over
\* the sea of lava, if there is one.
Fossils == {<<4, 5, 4>>, <<3, 1, 7>>, <<5, 7, 5>>, <<7, 6, 7>>, <<7, 5, 5>>, <<2, 1, 5>>}
FloorsBelow(c, top) == {y \in Sea + 1 .. top : y > GroundAt(c) /\ y - 1 <= GroundAt(c)}
BuildNetherFossil ==
  /\ planStage = "plan" /\ kind = "nether_fossil"
  /\ \E at \in {0, 15} \X {0, 15}, top \in {MinY + 1, Sea + 4, MaxY}, n \in 0 .. 3, f \in Fossils :
       IF FloorsBelow(at, top) = {}
       THEN /\ planStage' = "none"
            /\ UNCHANGED <<kind, ground, pieces, overall, measured, slots>>
       ELSE Built(<<Piece("fossil", at, Max(FloorsBelow(at, top)), <<f[1], f[2]>>, f[3], n, <<0, 0>>)>>, {at})

\* buildEndCityStructure with endCityStartPos and addEndCityPiece: each piece
\* from the corner of the one before. (StraightOffset forgets the rotation.)
StraightOffset(n) == <<5, 5>>
CityOffset(n) == <<IF n \in {1, 2} THEN -5 ELSE 5, IF n \in {2, 3} THEN -5 ELSE 5>>
CityCorners(n) == {<<7 + d[1], 7 + d[2]>> : d \in {0, CityOffset(n)[1]} \X {0, CityOffset(n)[2]}}
CityY(n) ==
  LET solid == Min({SolidAt(c) : c \in CityCorners(n)})
      guess == Max({MinY + 1, GroundAt(<<7, 7>>)})
  IN  IF solid > MinY THEN solid ELSE guess
Floors(k, turret) ==
  <<<<<<-1, -1>>, 0, 12, 8>>, <<<<-1, -1>>, 4, 14, 8>>, <<<<-1, -1>>, 8, 16, 2>>, <<turret, -3, 7, 7>>,
    <<<<0, 0>>, 7, 7, 4>>>> \o [i \in 1 .. k |-> <<<<0, 0>>, 4, 7, 4>>] \o <<<<<<-1, -1>>, 4, 9, 5>>>>
CityPiece(parent, f) ==
  Piece("city", WorldPos([parent EXCEPT !.pivot = <<0, 0>>], f[1]), parent.y + f[2], <<f[3], f[3]>>, f[4],
        parent.rotation, <<0, 0>>)
City(base, floors) ==
  LET piece[i \in 1 .. Len(floors) + 1] == IF i = 1 THEN base ELSE CityPiece(piece[i - 1], floors[i - 1])
  IN  piece
BuildEndCity ==
  /\ planStage = "plan" /\ kind = "end_city"
  /\ \E n \in 0 .. 3, k \in 1 .. 2, turret \in {3, 4} \X {3, 4} :
       Built(City(Piece("city", <<7, 7>>, CityY(n), <<10, 10>>, 4, n, <<0, 0>>), Floors(k, turret)), CityCorners(n))

DirectNext ==
  \/ BuildIgloo \/ BuildShipwreck \/ BuildOceanRuin \/ AddRuin \/ EndCluster
  \/ BuildRuinedPortal \/ BuildTreasure \/ BuildSwampHut \/ BuildNetherFossil \/ BuildEndCity
DirectSpec == DirectInit /\ [][DirectNext]_directVars

-----------------------------------------------------------------------------
(***************************************************************************)
(* Every chunk that gets a block of the structure finds it: the pieces are *)
(* in the box of the whole, by which chunks tell whether they are met, and *)
(* the box goes no further than the estimated number of chunks within      *)
(* which starts are looked for, however the pieces are turned, mirrored    *)
(* and clustered (structure_direct.go:11-49, structures.go:858-867).       *)
(***************************************************************************)
DirectFound ==
  planStage \in {"cluster", "built"} =>
    /\ \A i \in DOMAIN pieces : Union(overall, BoxOf(pieces[i])) = overall
    /\ \A v \in {overall.x0, overall.x1, overall.z0, overall.z1} :
         v \div 16 \in -Backreach[kind] .. Backreach[kind]

(***************************************************************************)
(* What is above the ground and what is below it meet: the ladder of an    *)
(* igloo goes from its floor to the laboratory in one column, and igloos,  *)
(* portals, treasures and cities measure the ground they stand on, though  *)
(* they are turned about different points (structure_direct.go:323-362,    *)
(* 455-462, structure_end_city.go:95-121). A swamp hut does not: its floor *)
(* has the height of a column beside it.                                   *)
(***************************************************************************)
LadderIn == [top |-> <<3, 5>>, middle |-> <<1, 1>>, bottom |-> <<3, 7>>]
LadderUnbroken ==
  /\ Cardinality({WorldPos(pieces[i], LadderIn[pieces[i].what]) : i \in DOMAIN pieces}) = 1
  /\ UNION {BoxOf(pieces[i]).y0 .. BoxOf(pieces[i]).y1 : i \in DOMAIN pieces} = overall.y0 .. overall.y1
StandsOnGround ==
  planStage = "built" =>
    /\ kind = "igloo" => LadderUnbroken
    /\ kind \in {"igloo", "ruined_portal", "buried_treasure", "end_city"} =>
         measured \subseteq Columns(WorldBox(pieces[1]))
=============================================================================
