-------------------------- MODULE MCChunkDecoration --------------------------
(***************************************************************************)
(* Scenes on terrain of twelve rows and chunks of eight columns: a placed  *)
(* feature in one of the chunks 0 and 1, near their border or not, on      *)
(* terrain as it is or with chests strewn all over it; the figures of      *)
(* fixed columns in every chunk; and, for the run Seam, a boulder where a  *)
(* tree of the same chunk would stand.                                     *)
(***************************************************************************)
EXTENDS ChunkDecoration, TLC

-----------------------------------------------------------------------------
\* Terrain, in bands from the bottom up: the top row of each and its block.
Bands(b) == [x \in -W .. 3 * W - 1 |-> [y \in Rows |-> b[Min({i \in DOMAIN b : y <= b[i][1]})][2]]]
With(w, S, k) == [x \in DOMAIN w |-> [y \in Rows |-> IF <<x % W, y>> \in S THEN k ELSE w[x][y]]]
Turf == Bands(<<<<0, "bedrock">>, <<3, "stone">>, <<4, "dirt">>, <<MaxY, "air">>>>)
Meadow == With(Turf, {<<2, 5>>, <<6, 5>>}, "plant")
Yard == With(Meadow, {<<1, 5>>, <<5, 4>>}, "chest")
Hill == [x \in DOMAIN Meadow |-> IF x \div W = 1 THEN [Meadow[x] EXCEPT ![5] = "dirt", ![6] = "plant"] ELSE Meadow[x]]
Ocean == With(Bands(<<<<0, "bedrock">>, <<2, "stone">>, <<3, "sand">>, <<7, "water">>, <<MaxY, "air">>>>),
              {<<2, 4>>, <<6, 4>>}, "stone")
Floes == With(Ocean, {<<0, 7>>, <<4, 7>>, <<6, 6>>}, "packed_ice")
Shore == With(Bands(<<<<0, "bedrock">>, <<4, "stone">>, <<5, "sand">>, <<MaxY, "air">>>>), {<<2, 5>>, <<3, 5>>}, "water")
Rock == With(With(Bands(<<<<0, "bedrock">>, <<8, "stone">>, <<MaxY, "air">>>>),
                  {<<1, 4>>, <<2, 4>>, <<2, 5>>, <<3, 4>>, <<4, 4>>, <<6, 5>>, <<6, 6>>}, "air"), {<<3, 6>>}, "mob_spawner")
Cave == With(With(Bands(<<<<0, "bedrock">>, <<3, "stone">>, <<7, "air">>, <<MaxY, "stone">>>>), {<<4, 4>>, <<6, 4>>, <<6, 5>>}, "stone"),
             {<<1, 3>>}, "chest")
Sands == With(Bands(<<<<0, "bedrock">>, <<2, "stone">>, <<5, "sand">>, <<MaxY, "air">>>>), {<<1, 5>>}, "air")
Hell == With(With(Bands(<<<<0, "bedrock">>, <<2, "netherrack">>, <<3, "nylium">>, <<8, "air">>, <<MaxY, "netherrack">>>>),
                  {<<5, 3>>}, "lava"), {<<3, 3>>, <<6, 3>>}, "netherrack")
Void == With(Bands(<<<<1, "air">>, <<3, "end_stone">>, <<MaxY, "air">>>>), {<<2, 4>>}, "chest")
Snows == Bands(<<<<0, "bedrock">>, <<3, "stone">>, <<5, "snow_block">>, <<MaxY, "air">>>>)
Plains == [turf |-> Turf, meadow |-> Meadow, yard |-> Yard, hill |-> Hill, ocean |-> Ocean, floes |-> Floes, shore |-> Shore, rock |-> Rock,
           cave |-> Cave, sands |-> Sands, hell |-> Hell, void |-> Void, snows |-> Snows]

\* Chests in every fifth cell, a knight's move apart: in one of five phases, in
\* place of filled cells (1 .. 5) or of open ones (6 .. 10). No chests: 0.
Strewings == 0 .. 10
Strewn(w, n) ==
  [x \in DOMAIN w |-> [y \in Rows |-> IF n > 0 /\ (2 * x + y - n) % 5 = 0 /\ Open(w[x][y]) = (n > 5)
                                       THEN "chest" ELSE w[x][y]]]
MCTerrain == [k \in (DOMAIN Plains) \X Strewings |-> Strewn(Plains[k[1]], k[2])]

-----------------------------------------------------------------------------
\* The registry: the features of the program by their types, one tree of each
\* trunk, and features made of others.
InSquare == [type |-> "in_square"]
Map(kind) == [type |-> "heightmap", kind |-> kind]
Between(low, high) == [type |-> "height_range", kind |-> "uniform", low |-> low, high |-> high, plateau |-> 0]
Blocks(dy, kinds) == [type |-> "blocks", dy |-> dy, kinds |-> kinds]
OnGround == <<InSquare, Map("world_surface")>>
OnFloor == <<InSquare, Map("ocean_floor")>>
Inside == <<InSquare, Between(3, 7)>>

TypesOn ==
  [meadow |-> {"block_blob", "bamboo", "huge_mushroom", "lake"},
   shore |-> {"disk", "freeze_top_layer"},
   ocean |-> {"seagrass", "kelp", "underwater_magma", "sea_pickle", "iceberg"},
   floes |-> {"blue_ice"},
   rock |-> {"ore", "scattered_ore", "geode", "fossil", "spring_feature", "monster_room"},
   cave |-> {"multiface_growth", "pointed_dripstone", "dripstone_cluster", "large_dripstone", "sculk_patch", "vines"},
   sands |-> {"desert_well"},
   hell |-> {"huge_fungus", "nether_forest_vegetation", "twisting_vines", "weeping_vines",
             "netherrack_replace_blobs", "glowstone_blob", "basalt_pillar", "basalt_columns", "delta_feature"},
   void |-> {"chorus_plant", "end_island", "end_spike", "end_platform", "end_gateway", "void_start_platform"},
   snows |-> {"spike"}]
Types == UNION {TypesOn[k] : k \in DOMAIN TypesOn}
PlacementOf(n) ==
  IF n \in TypesOn.ocean \cup {"disk"} THEN OnFloor
  ELSE IF n = "blue_ice" THEN <<InSquare, Between(5, 6)>>
  ELSE IF n \in {"weeping_vines", "glowstone_blob"} THEN <<InSquare, Between(7, 8)>>
  ELSE IF n \in TypesOn.rock \cup TypesOn.cave \cup TypesOn.hell THEN Inside
  ELSE IF n \in {"end_spike", "void_start_platform"} THEN <<>> ELSE OnGround

Oak == [trunk |-> "straight", foliage |-> "blob", rooted |-> FALSE, forceDirt |-> FALSE, ignoreVines |-> TRUE,
  layers |-> 2, limit |-> 1, upperLimit |-> 1, lower |-> 0, middle |-> 0, upper |-> 1, minClipped |-> 99,
  base |-> 4, heightRand |-> 1, radius |-> 2, foliageHeight |-> 3, rootWidth |-> 4, rootLength |-> 6,
  bend |-> 1, bare |-> 2, decorators |-> <<"beehive", "place_on_ground">>]
Of(trunk, foliage, decorators) ==
  [Oak EXCEPT !.trunk = trunk, !.foliage = foliage, !.decorators = decorators]
Species ==
  [oak |-> Oak, spruce |-> Of("straight", "spruce", <<>>), pine |-> Of("straight", "pine", <<>>),
   bush |-> Of("straight", "bush", <<>>),
   acacia |-> [Of("forking", "acacia", <<"leave_vine">>) EXCEPT !.forceDirt = TRUE],
   mega |-> Of("giant", "mega_pine", <<"alter_ground">>),
   dark |-> Of("dark_oak", "dark_oak", <<"pale_moss", "creaking_heart">>),
   jungle |-> Of("mega_jungle", "jungle", <<"trunk_vine">>),
   azalea |-> Of("bending", "random_spread", <<"attached_to_logs">>),
   mangrove |-> [Of("upwards_branching", "random_spread", <<"attached_to_leaves">>) EXCEPT !.rooted = TRUE],
   cherry |-> Of("cherry", "cherry", <<>>), fancy |-> Of("fancy", "fancy", <<>>)]
Woods == DOMAIN Species

Simple(k) == [type |-> "simple_block", provider |-> [type |-> "simple", block |-> k, rules |-> <<>>]]
Composites ==
  [flower |-> Simple("plant"), tall |-> Simple("tall_plant"),
   flora |-> [type |-> "simple_block",
              provider |-> [type |-> "rules", rules |-> <<[test |-> [type |-> "not", of |-> Blocks(-1, Soil)],
                                                           then |-> [type |-> "simple", block |-> "mushroom", rules |-> <<>>]]>>,
                            fallback |-> [type |-> "randomized_int", rules |-> <<>>,
                                          source |-> [type |-> "weighted", blocks |-> <<"plant", "tall_plant">>, rules |-> <<>>]]]],
   speckle |-> [type |-> "simple_block", provider |-> [type |-> "noise", rules |-> <<>>, threshold |-> 2,
                                                       low |-> "plant", high |-> "tall_plant", default |-> "mushroom"]],
   cane |-> [type |-> "block_column", step |-> 1, allowed |-> Blocks(0, {"air"}),
             layers |-> <<[n |-> <<0, 1>>, block |-> "sugar_cane"], [n |-> <<1, 1>>, block |-> "sugar_cane"]>>],
   meadow |-> [type |-> "random_patch", tries |-> 3, spread |-> 2, ySpread |-> 1, feature |-> "flora"],
   bed |-> [type |-> "flower", tries |-> 2, spread |-> 0, ySpread |-> 1, feature |-> "flower"],
   reeds |-> [type |-> "random_patch", tries |-> 2, spread |-> 1, ySpread |-> 0, feature |-> "cane"],
   grove |-> [type |-> "random_selector", features |-> <<[chance |-> 2, feature |-> "flower"]>>, default |-> "copse"],
   copse |-> [type |-> "simple_random_selector", features |-> <<"tall", "oak">>],
   thicket |-> [type |-> "random_boolean_selector", whenTrue |-> "speckle", whenFalse |-> "thicket"],
   moss |-> [type |-> "vegetation_patch", radius |-> <<1, 2>>, depth |-> <<1, 2>>, range |-> 1, ceiling |-> FALSE,
             replaceable |-> {"dirt", "stone"}, ground |-> "moss", waterlogged |-> FALSE, feature |-> "tall"],
   pool |-> [type |-> "waterlogged_vegetation_patch", radius |-> <<1, 1>>, depth |-> <<1, 1>>, range |-> 2,
             ceiling |-> TRUE, replaceable |-> {"stone"}, ground |-> "moss", waterlogged |-> TRUE, feature |-> "flower"],
   root |-> [type |-> "root_system", allowed |-> [type |-> "all", of |-> <<Blocks(0, {"air", "plant"}), Blocks(-1, Soil)>>],
             space |-> 2, wet |-> 1, reach |-> 1, rootHeight |-> 2, span |-> 3, attempts |-> 2,
             replaceable |-> {"stone", "dirt"}, root |-> "rooted_dirt", feature |-> "azalea"]]

Plain == [n \in Types |-> <<PlacementOf(n), n>>] @@ [n \in Woods |-> <<OnGround, n>>]
         @@ [n \in {"meadow", "bed", "grove", "copse", "thicket", "moss", "root"} |-> <<OnGround, n>>]
         @@ [n \in {"flower", "tall", "cane", "flora"} |-> <<<<>>, n>>] @@ [fallen |-> <<OnGround, "fallen">>]
Chained ==
  [reeds |-> <<<<InSquare, Map("motion_blocking"), [type |-> "surface_water_depth_filter", max |-> 0]>>, "reeds">>,
   pool |-> <<<<InSquare, Between(6, 8)>>, "pool">>,
   speckle |-> <<<<[type |-> "block_predicate_filter",
                    test |-> [type |-> "some", of |-> <<Blocks(0, {"air"}), [type |-> "solid"]>>]]>>, "speckle">>,
   layers |-> <<<<[type |-> "count_on_every_layer", n |-> <<1, 2>>]>>, "basalt_columns">>,
   sown |-> <<<<[type |-> "noise_threshold_count", level |-> 2, below |-> 1, above |-> 2], InSquare,
                Map("world_surface"), [type |-> "biome"]>>, "flower">>,
   strewn |-> <<<<[type |-> "noise_based_count", offset |-> 2, ratio |-> 1], [type |-> "rarity_filter", chance |-> 2],
                  InSquare, Map("world_surface")>>, "flower">>,
   hung |-> <<<<[type |-> "count", n |-> <<1, 2>>], InSquare,
                [type |-> "height_range", kind |-> "trapezoid", low |-> 3, high |-> 6, plateau |-> 1],
                [type |-> "environment_scan", step |-> 1, steps |-> 4, allowed |-> [type |-> "inside", dy |-> 0],
                 target |-> [type |-> "solid"]],
                [type |-> "random_offset", aside |-> <<0, 1>>, up |-> <<-1, -1>>]>>, "pointed_dripstone">>,
   low |-> <<<<InSquare, [type |-> "height_range", kind |-> "to_bottom", low |-> 3, high |-> 6, plateau |-> 0],
               [type |-> "surface_relative_threshold_filter", min |-> -8, max |-> -2]>>, "disk">>,
   checked |-> <<OnGround \o <<[type |-> "block_predicate_filter",
                               test |-> [type |-> "survives", block |-> "sapling"]]>>, "oak">>,
   gates |-> <<<<[type |-> "fixed_placement", cells |-> {<<3, 6>>, <<9, 6>>}]>>, "end_gateway">>]
MCPlaced == [n \in DOMAIN Plain \cup DOMAIN Chained |->
               LET p == IF n \in DOMAIN Chained THEN Chained[n] ELSE Plain[n]
               IN  [placement |-> p[1], feature |-> p[2]]]
MCConfigured == [n \in Types |-> [type |-> n]] @@ [n \in Woods |-> [type |-> "tree", species |-> Species[n]]] @@ Composites
                @@ [fallen |-> [type |-> "fallen_tree", species |-> Of("straight", "blob", <<"attached_to_logs">>)]]
MCBiomeAt(x) == IF x % W < 5 THEN "plains" ELSE "desert"
MCBiomeFeatures == [plains |-> DOMAIN MCPlaced, desert |-> {}]
MCNoise(x) == x % 4
MCSpikes == {[x |-> 7, radius |-> 2, height |-> 6]}

-----------------------------------------------------------------------------
\* Scenes: what is placed on which ground. The fourth die is the column in the
\* chunk, the fifth the row.
WoodsOn == [meadow |-> Woods \cup {"fallen"}, yard |-> {"oak", "mega", "cherry", "fancy"}, hill |-> {"fallen"}]
ChainsOn ==
  [hill |-> {"meadow", "bed", "grove", "thicket", "moss", "root", "sown", "strewn", "checked"}, cave |-> {"pool", "hung"},
   shore |-> {"reeds", "low"}, hell |-> {"layers"}, void |-> {"gates"}]
RowsOf(n) == IF n \in TypesOn.rock \cup TypesOn.cave \cup TypesOn.hell THEN {1, 2} ELSE {1}
JobsOf(on) == UNION {UNION {{<<k, n, y>> : y \in RowsOf(n)} : n \in on[k]} : k \in DOMAIN on}
Jobs == JobsOf(TypesOn) \cup JobsOf(WoodsOn) \cup JobsOf(ChainsOn)

In(k, names) == [c \in -2 .. 3 |-> IF c = k THEN names ELSE <<>>]
Scene(terrain, strewing, features, dice) == [terrain |-> <<terrain, strewing>>, features |-> features, dice |-> dice]
Throws == (0 .. 2) \X (0 .. 2) \X (0 .. 1)
FewThrows == {<<0, 1, 0>>, <<1, 0, 1>>, <<2, 2, 0>>}
\* The place of a scene, a chunk and a column: by the border in the west or east
\* chunk, or within. A setting is a strewing, a place and a throw. All scenes are
\* initial states, and the run is slow with more than TLC's queue keeps in memory.
Places == {<<0, 4>>, <<0, 7>>, <<1, 0>>}
Settings == ({0} \X Places \X Throws) \cup ({0} \X {<<0, 0>>} \X FewThrows)
            \cup {<<n, t[1], t[2]>> : n \in Strewings \ {0}, t \in {<<<<0, 4>>, <<1, 0, 1>>>>, <<<<0, 7>>, <<2, 2, 0>>>>}}
AloneScenes ==
  {Scene(j[1], s[1], In(s[2][1], <<j[2]>>), s[3] \o <<s[2][2], j[3]>>) : j \in Jobs, s \in Settings}
Figures == {"end_spike", "void_start_platform"}
FigureScenes == {Scene("void", 0, [c \in -2 .. 3 |-> <<n>>], d) : n \in Figures, d \in {t \o <<0, 1>> : t \in Throws}}
MCScenes == AloneScenes \cup FigureScenes
SeamScenes == {Scene("turf", 0, In(0, <<"block_blob", "checked">>), d \o <<x, 1>>) : d \in Throws, x \in 4 .. 7}
=============================================================================
