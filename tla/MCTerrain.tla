----------------------------- MODULE MCTerrain ------------------------------
(***************************************************************************)
(* The ground of a chunk: its biome, density and structures, the surface   *)
(* of a column, and caves. The scenes share no state.                      *)
(***************************************************************************)
EXTENDS Carvers, TerrainAdaptation, ClimateTree, Aquifer, DensityGraph

CONSTANT TerrainScenes
VARIABLE terrainScene

-----------------------------------------------------------------------------
\* A house at the start, a street, and a house up to a chunk away.
Junction(x) == [kind |-> "junction", x |-> x, y |-> 4]
Piece(min, max, projection, joints) ==
  [min |-> min, max |-> max, low |-> 2, high |-> 9, delta |-> 1, projection |-> projection,
   junctions |-> [i \in DOMAIN joints |-> Junction(joints[i])]]
Town(s, far, adaptation, projection) ==
  LET x == 16 * s IN
  [chunk |-> s, backreach |-> 1, adaptation |-> adaptation,
   pieces |-> IF far > 0
     THEN <<Piece(x, x + 5, "rigid", <<x + 6>>),
            Piece(x + 6, x + far - 1, "terrain_matching", <<x + 5, x + far>>),
            Piece(x + far, x + far + 4, projection, <<x + far - 1>>)>>
     ELSE <<Piece(x, x + 5, "rigid", <<x - 1>>),
            Piece(x + far + 5, x - 1, "terrain_matching", <<x, x + far + 4>>),
            Piece(x + far, x + far + 4, projection, <<x + far + 5>>)>>]
SomeTowns ==
  {<<Town(s, far, a, p)>> : s \in -3 .. 4, far \in {-16, -7, 12, 17, 27},
     a \in {"bury", "encapsulate", "beard_thin", "beard_box"}, p \in {"rigid", "terrain_matching"}}
  \cup {<<Town(s, far, "beard_thin", "rigid"), Town(s + 1, 8, a, "")>> :
          s \in -1 .. 2, far \in {-7, 27}, a \in {"none", "bury"}}
LowestOfThem == -16

-----------------------------------------------------------------------------
\* Columns of solid ground, caves and water in any order over six heights, with
\* what else may be there.
Above(value) == [kind |-> "above_bottom", value |-> value]
At(value) == [kind |-> "absolute", value |-> value]
If(cond, rule) == [kind |-> "condition", ifTrue |-> cond, thenRun |-> rule]
Not(cond) == [kind |-> "not", inner |-> cond]
Lay(block) == [kind |-> "block", block |-> block]
InOrder(rules) == [kind |-> "sequence", of |-> rules]
Depth(surface, deep, secondary) ==
  [kind |-> "stone_depth", surface |-> surface, offset |-> 0, addSurfaceDepth |-> deep, secondary |-> secondary]
Water(offset) == [kind |-> "water", offset |-> offset, multiplier |-> 0, addStoneDepth |-> FALSE]
LikeOverworld ==
  InOrder(<<
    If([kind |-> "vertical_gradient", trueAt |-> Above(0), falseAt |-> Above(3)], Lay("bedrock")),
    If([kind |-> "above_preliminary_surface"], InOrder(<<
      If([kind |-> "biome", biomes |-> {"eroded_badlands"}],
         If([kind |-> "y_above", anchor |-> At(5), multiplier |-> 0, addStoneDepth |-> TRUE], [kind |-> "bandlands"])),
      If(Depth("floor", FALSE, 0), InOrder(<<
        If([kind |-> "hole"], InOrder(<<If(Water(0), Lay("air")), Lay("water")>>)),
        If([kind |-> "steep"], Lay("stone")),
        If([kind |-> "temperature"], Lay("snow_block")),
        If(Water(-1), Lay("grass_block"))>>)),
      If(Depth("floor", TRUE, 2), If(Not([kind |-> "noise_threshold", min |-> 3, max |-> 5]), Lay("dirt"))),
      If(Depth("ceiling", FALSE, 0), Lay("sandstone")),
      Lay("gravel")>>))>>)

Strata ==
  {[y \in 0 .. 14 |-> IF y < 4 THEN "solid" ELSE IF y > 9 THEN "air" ELSE middle[y]] :
     middle \in [4 .. 9 -> {"solid", "air", "water"}]}
Dry(strata) == [y \in DOMAIN strata |-> IF strata[y] = "water" THEN "air" ELSE strata[y]]
Plain ==
  [north |-> 3, south |-> 3, west |-> 3, east |-> 3, depth |-> 2, secondary |-> 50, lucky |-> {1, 6}, biome |-> "plains",
   noise |-> 0, snowLine |-> 12, bands |-> <<"red", "orange", "white">>, bandOffset |-> 1, level |-> 10, bedrock |-> TRUE,
   aquifer |-> TRUE, pillar |-> -1, iceberg |-> 0, snowFrom |-> 9, snow |-> 1]
Kinds ==
  {Plain,
   [Plain EXCEPT !.depth = 0, !.aquifer = FALSE, !.level = 11],
   [Plain EXCEPT !.biome = "eroded_badlands", !.pillar = 10, !.noise = 4],
   [Plain EXCEPT !.biome = "frozen_ocean", !.iceberg = 4, !.snowLine = 7, !.south = 9]}
SomeSites ==
  {k @@ [substance |-> IF k.aquifer THEN s ELSE Dry(s)] : k \in Kinds, s \in Strata}
SiteOfCaves == Plain @@ [substance |-> [y \in 0 .. 14 |-> IF y < 10 THEN "solid" ELSE "air"]]
NoWaterThere == -1000

-----------------------------------------------------------------------------
\* Caves: a room, a tunnel that splits and one that does not, and a canyon; some
\* tunnels run straight. Grass on dirt, gravel and stone.
GroundOf(y) ==
  CASE y = 0 -> "bedrock" [] y \in 1 .. 3 -> "stone" [] y = 4 -> "gravel"
    [] y \in {5, 6} -> "dirt" [] y = 7 -> "grass_block" [] OTHER -> "air"
Underground(x, y) ==
  IF y <= 3 /\ x % 16 > 8 THEN "water" ELSE IF y = 4 /\ x % 8 = 3 THEN "barrier" ELSE "air"
Girth == <<3, 3, 4, 4, 5, 5, 5, 5, 5, 5, 6, 6, 6, 6, 5, 5, 5, 5, 4, 4, 4, 3, 3, 3>>
Moves(sign, straight) ==
  [n \in DOMAIN Girth |->
     [dx |-> IF straight \/ n % 3 # 0 THEN sign ELSE 0,
      dy |-> IF n % 4 = 1 THEN 1 ELSE IF n % 4 = 3 THEN -1 ELSE 0,
      carves |-> n % 4 # 2, h |-> Girth[n], v |-> Girth[n]]]
Tunnel(x, y, sign, straight, thickness, split) ==
  [kind |-> "cave", x |-> x, y |-> y, step |-> 0, moves |-> Moves(sign, straight), thickness |-> thickness,
   splitPoint |-> split, floorLevel |-> -7, widths |-> <<>>]
Canyon(x, y, sign) ==
  [Tunnel(x, y, sign, FALSE, 30, 6) EXCEPT !.kind = "canyon", !.widths = [n \in 1 .. 15 |-> 1 + (n % 3)]]
Forked(t, sign) ==
  [children |-> <<Tunnel(0, 0, sign, FALSE, 7, 6), Tunnel(0, 0, -sign, FALSE, 7, 6)>>] @@ t
Room(x, y) == [kind |-> "room", x |-> x, y |-> y, h |-> 9, v |-> 7, floorLevel |-> -7, widths |-> <<>>]
SomeCaves ==
  {<<[origin |-> o, works |-> <<Room(16 * o + 13, 5), Forked(Tunnel(16 * o + 13, 6, s, FALSE, 20, 6), s),
                                Tunnel(16 * o + 13, 4, -s, straight, 10, 6)>>]>> :
     o \in -2 .. 2, s \in {1, -1}, straight \in BOOLEAN}
  \cup {<<[origin |-> o, works |-> <<Canyon(16 * o + 4, 5, s)>>],
          [origin |-> o + 1, works |-> <<Tunnel(16 * o + 30, 6, -s, FALSE, 25, 30)>>]>> :
          o \in -2 .. 1, s \in {1, -1}}

-----------------------------------------------------------------------------
\* Points in two measured dimensions, many of them overlapping or equal, with
\* biomes numbered from 2 in the order of the list, so that a tie shows.
Span(least, length) == [min |-> least, max |-> least + length]
PointOf(n, seed) ==
  [spans |-> <<Span(((n * seed) % 7) - 3, n % 3), Span(((n * n + seed) % 5) - 2, (n + seed) % 2),
               Span((n * seed) % 2, 0)>>,
   biome |-> n + 1]
SomePresets == {[n \in 1 .. count |-> PointOf(n, seed)] : count \in {1, 2, 4, 6, 8, 9}, seed \in 1 .. 5}
SomeClimates == {<<x, y, 0>> : x \in -4 .. 5, y \in {-3, -1, 0, 2}}

-----------------------------------------------------------------------------
\* Seas and hills over wet, dry and lava-filled caves; points anywhere in their cells.
\* The dark begins at a quart's border or inside one.
WetReach == -64 .. 64
Seabed(kind) ==
  [q \in -16 .. 16 |->
     CASE kind = "sea" -> -24
       [] kind = "island" -> IF q \in -1 .. 6 THEN -24 ELSE 30
       [] kind = "shore" -> IF q < 5 THEN -24 ELSE 30
       [] kind = "hills" -> 22 + 4 * (q % 3)]
Points(seed) ==
  [cell \in (-1 .. 3) \X (-5 .. 6) |->
     <<(3 * cell[1] + 7 * cell[2] * cell[2] + seed) % 10, (5 * cell[1] * cell[1] + 2 * cell[2] + seed) % 9>>]
Underworld(kind, seed, flooded, dark, enabled) ==
  [surface |-> Seabed(kind), jitter |-> Points(seed), enabled |-> enabled, lava |-> seed # 0,
   floodedness |-> [gx \in -1 .. 3 |-> IF gx % 2 = 0 THEN flooded ELSE 5], spread |-> [gy \in -2 .. 2 |-> IF gy < 0 THEN 10 ELSE -4],
   darkBelow |-> [x \in WetReach |-> IF x < dark THEN -200 ELSE 6],
   ground |-> [x \in WetReach |-> Seabed(kind)[x \div 4] + (x % 4)],
   caves |-> (-22 .. -10) \cup (-6 .. 8) \cup (10 .. 20), thin |-> [n \in 0 .. 3 |-> -4 * n], barrier |-> [n \in 0 .. 3 |-> 15 * n - 30]]
SomeUndergrounds ==
  {Underworld(kind, seed, flooded, dark, TRUE) : kind \in {"sea", "island", "shore", "hills"}, seed \in {0, 6, 9},
     flooded \in {-9, 6, 10}, dark \in {22, 64}}
  \cup {Underworld("shore", 0, 6, 64, FALSE)}
AllAskers ==
  <<[by |-> "build", chunk |-> 0], [by |-> "measure", chunk |-> 1], [by |-> "build", chunk |-> 1],
    [by |-> "measure", chunk |-> 0]>>
LowestWet == -28
LavaBelow == -20
LavaLevels == -4

-----------------------------------------------------------------------------
\* A graph like that of the overworld: coordinates shifted by a noise, continents and
\* erosion at the corners of quarts, an offset made of them and what is added to the
\* depth, a final density that asks for its caves only in some of it, and the
\* surface below which it is searched.
Node(op, deps) == [op |-> op, deps |-> deps]
FromNoise(n, tall, deps) == Node("noise", deps) @@ [noise |-> n, tall |-> tall]
Choice(deps, min, max) == Node("choice", deps) @@ [min |-> min, max |-> max]
LikeRouter ==
  <<FromNoise(1, FALSE, <<>>), Node("column", <<1>>), Node("flat", <<2>>),                     \* 3: shift
    FromNoise(2, FALSE, <<3>>), Node("flat", <<4>>), FromNoise(3, FALSE, <<3>>), Node("flat", <<6>>),
    Choice(<<5, 7, 1>>, -2, 3), Node("column", <<8>>), Node("flat", <<9>>),                 \* 10: offset
    Node("gradient", <<>>) @@ [value |-> 4], Node("add", <<11, 10>>),                       \* 12: depth
    FromNoise(4, TRUE, <<>>), Node("once", <<13>>), Node("max", <<12, 14>>),
    Choice(<<12, 14, 15>>, -1, 4), Node("once", <<16>>),                                    \* 17: final density
    Node("column", <<10>>), Node("constant", <<>>) @@ [value |-> 9], Node("add", <<18, 19>>),
    Node("top", <<16, 20>>) @@ [lower |-> -6, cell |-> 4]>>                                 \* 21: surface
Inquiry(chunk, inColumn, roots, x, y) ==
  [chunk |-> chunk, column |-> inColumn, roots |-> roots, at |-> [x |-> x, y |-> y]]
SomeInquiries ==
  {Inquiry(NoGrid, FALSE, <<5, 7, 12>>, x, y) : x \in {-5, 18}, y \in {0, 8}}
  \cup {Inquiry(0, TRUE, <<17, 21, 18>>, x, 4) : x \in {0, 5, 16}}
  \cup {Inquiry(-1, FALSE, <<7, 12>>, x, -7) : x \in {-16, -1}}
  \cup {Inquiry(c, TRUE, <<21, 17, 5>>, 16 * c + 7, -4) : c \in {-1, 0}}

-----------------------------------------------------------------------------
NoTerrain ==
  /\ town = <<>> /\ built = [c \in BuiltChunks |-> <<>>] /\ building = NoChunk /\ sampler = <<>> /\ corners = <<>>
  /\ cornerX = 0 /\ cornerY = 0 /\ accelerated = FALSE
ColumnVars == <<column, ground, top, at, depthAbove, waterTop, ceiling, columnStage>>
NoColumn ==
  /\ column = <<>> /\ ground = <<>> /\ top = 0 /\ at = 0 /\ depthAbove = 0 /\ waterTop = 0 /\ ceiling = 0
  /\ columnStage = "none"
NoCarvers ==
  /\ caves = <<>> /\ carved = <<>> /\ inChunk = 0 /\ blocks = <<>> /\ mask = {} /\ toCarve = <<>>
  /\ carveStage = "none"
NoTree ==
  /\ preset = <<>> /\ target = <<>> /\ tree = <<>> /\ packed = <<>> /\ calls = <<>> /\ leafFound = <<>>
  /\ kernelStack = <<>> /\ kernelBest = <<>> /\ lookupStage = "none"
NoAquifers ==
  /\ water = <<>> /\ turn = 0 /\ aquifers = <<>>
  /\ filled = [c \in Wet |-> <<>>] /\ carvedColumns = [c \in Wet |-> {}] /\ measured = [c \in Wet |-> <<>>]
NoGraph == scratches = <<>> /\ inquiries = 0 /\ answer = <<>>

AllInit ==
  /\ terrainScene \in TerrainScenes
  /\ IF terrainScene = "climate" THEN TreeInit ELSE NoTree
  /\ IF terrainScene = "adaptation" THEN TerrainInit ELSE NoTerrain
  /\ IF terrainScene = "surface" THEN ColumnInit ELSE NoColumn
  /\ terrainScene # "surface" => site = SiteOfCaves
  /\ IF terrainScene = "carvers" THEN CarversInit ELSE NoCarvers
  /\ IF terrainScene = "aquifer" THEN AquiferInit ELSE NoAquifers
  /\ IF terrainScene = "density" THEN GraphInit ELSE NoGraph

InAdaptation ==
  /\ terrainScene = "adaptation" /\ TerrainNext
  /\ UNCHANGED <<terrainScene, surfaceVars, carverVars, treeVars, aquiferVars, graphVars>>
InSurface ==
  /\ terrainScene = "surface" /\ ColumnNext
  /\ UNCHANGED <<terrainScene, terrainVars, carverVars, treeVars, aquiferVars, graphVars>>
InCarvers ==
  /\ terrainScene = "carvers" /\ CarversNext
  /\ UNCHANGED <<terrainScene, terrainVars, ColumnVars, treeVars, aquiferVars, graphVars>>
InClimate ==
  /\ terrainScene = "climate" /\ TreeNext
  /\ UNCHANGED <<terrainScene, terrainVars, surfaceVars, carverVars, aquiferVars, graphVars>>
InAquifer ==
  /\ terrainScene = "aquifer" /\ AquiferNext
  /\ UNCHANGED <<terrainScene, terrainVars, surfaceVars, carverVars, treeVars, graphVars>>
InDensity ==
  /\ terrainScene = "density" /\ GraphNext
  /\ UNCHANGED <<terrainScene, terrainVars, surfaceVars, carverVars, treeVars, aquiferVars>>

\* Ground that is finished stays as it is.
AllDone ==
  /\ \/ columnStage = "laid"
     \/ terrainScene = "adaptation" /\ building = NoChunk /\ \A c \in BuiltChunks : built[c] # <<>>
     \/ carveStage = "ready" /\ \A c \in CarvedChunks : carved[c] # <<>>
     \/ lookupStage \in {"found", "refused"}
     \/ terrainScene = "density" /\ inquiries = MaxInquiries
     \/ terrainScene = "aquifer" /\ turn = Len(Askers) /\ \A c \in Wet : DOMAIN measured[c] = WetColumns
  /\ UNCHANGED <<terrainScene, terrainVars, surfaceVars, carverVars, treeVars, aquiferVars, graphVars>>
AllNext == InClimate \/ InAdaptation \/ InSurface \/ InCarvers \/ InAquifer \/ InDensity \/ AllDone
AllSpec == AllInit /\ [][AllNext]_<<terrainScene, terrainVars, surfaceVars, carverVars, treeVars, aquiferVars, graphVars>>

-----------------------------------------------------------------------------
\* What two chunks share comes out the same: the corners of their density, and the
\* fluids between them; and no memory of the graph shows in what it answers.
SharedGroundAgrees == CornersWhole /\ FluidsAgree /\ MemoriesExact
=============================================================================
