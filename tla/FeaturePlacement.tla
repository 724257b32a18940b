--------------------------- MODULE FeaturePlacement ---------------------------
(***************************************************************************)
(* From a placed feature to blocks (features.go, tree_region.go): the      *)
(* modifiers that turn the corner of a chunk into positions, the dispatch  *)
(* over the types of configured features, the features that are made of    *)
(* other features, predicates and state providers, and which features are  *)
(* replayed in the chunks around. The registry is given by the constants;  *)
(* a registry entry that does not decode is left out.                      *)
(***************************************************************************)
EXTENDS OverworldFeatures, LandformFeatures, NetherEndFeatures, Trees

CONSTANTS
  PlacedFeatures,      \* name -> [placement |-> modifiers, feature |-> name]
  ConfiguredFeatures,  \* name -> [type |-> its type, and what that type needs]
  BiomeFeatures,       \* biome -> the placed features it has
  BiomeAt(_),          \* column -> biome
  Noise(_)             \* column -> the value of the biome noise

MaxDepth == 8

\* The next draws of the same feature instance.
Turn(t) == [t EXCEPT !.d = Tail(@) \o <<Head(@)>>]
\* An int provider that gives range[1] .. range[2].
Sample(t, i, range) == range[1] + Roll(t, i, range[2] - range[1] + 1)
\* Runs a part of a feature and keeps what was placed before it.
AlsoLast(t, r) == r
Also(t, r) == Reply(r, t.ok \/ r.ok)

-----------------------------------------------------------------------------
\* What may stand where. Every read here is of the source chunk.

CanReplace(here, k) ==
  \/ here \in {"air", "none", "plant", "vine", "snow", "seagrass"}
  \/ here = "water" /\ k \in {"kelp", "seagrass", "sea_pickle"}

Firm(k) == k \notin {"air", "water", "lava"}
Survives(t, p, k) ==
  LET here == LocalAt(t, p)
      below == LocalAt(t, Above(p, -1))
      beside == {q \in Sides(p) : Chunk(q[1]) = Chunk(p[1])}
  IN  /\ p[2] > MinY
      /\ CASE k \in {"seagrass", "sea_pickle"} -> here = "water" /\ Filled(below)
           [] k = "kelp" -> here = "water" /\ (below = "kelp" \/ Filled(below))
           [] k = "lily_pad" -> below = "water"
           [] k = "mushroom" -> Firm(below)
           [] k = "nether_flora" -> below \in {"netherrack", "nylium"}
           [] k = "hanging_roots" -> p[2] < MaxY /\ Filled(LocalAt(t, Above(p, 1)))
           [] k = "sugar_cane" -> \/ below = "sugar_cane"
                                  \/ /\ \E q \in beside : LocalAt(t, Above(q, -1)) = "water"
                                     /\ below \in Soil \cup {"sand"}
           [] k = "cactus" -> /\ \A q \in beside : LocalAt(t, q) = "air"
                              /\ below \in {"sand", "cactus"}
           [] OTHER -> below \in Soil

\* placeFeatureState: what is there and what is below is read in the source
\* chunk, the block is written where p lies.
PlaceState(t, p, k) ==
  LET upper == IF k = "tall_plant" THEN {Above(p, 1)} ELSE {}
  IN  IF \/ p[2] <= MinY \/ p[2] > MaxY
         \/ ~ CanReplace(LocalAt(t, p), k) \/ ~ Survives(t, p, k)
         \/ \E q \in upper : q[2] > MaxY \/ ~ CanReplace(LocalAt(t, q), k)
      THEN Refuse(t) ELSE Reply(Put(t, {p} \cup upper, k), TRUE)

\* testBlockPredicate
RECURSIVE Test(_, _, _)
Test(t, p, c) ==
  CASE c.type = "blocks" -> Matches(t, Above(p, c.dy), c.kinds)
    [] c.type = "solid" -> Filled(LocalAt(t, p))
    [] c.type = "all" -> \A i \in DOMAIN c.of : Test(t, p, c.of[i])
    [] c.type = "some" -> \E i \in DOMAIN c.of : Test(t, p, c.of[i])
    [] c.type = "not" -> ~ Test(t, p, c.of)
    [] c.type = "survives" -> Survives(t, p, c.block)
    [] c.type = "inside" -> p[2] + c.dy \in Rows

\* selectState. A rule is tested in the chunk that p lies in. The number that a
\* randomized state draws for one of its properties is left out: the code draws anew
\* at every use and writes the number into the registry's own map, so that what an
\* earlier use of the same goroutine drew is never read.
RECURSIVE Select(_, _, _)
Select(t, p, s) ==
  LET there == [t EXCEPT !.v.source = IF t.v.region /\ Near(t, p[1]) THEN Chunk(p[1]) ELSE @]
      true == {i \in DOMAIN s.rules : Test(there, p, s.rules[i].test)}
  IN  CASE s.type = "simple" -> s.block
        [] s.type = "weighted" -> s.blocks[1 + Roll(t, 2, Len(s.blocks))]
        [] s.type = "noise" -> IF Noise(p[1]) < s.threshold THEN s.low
                               ELSE IF Roll(t, 2, 2) = 0 THEN s.high ELSE s.default
        [] s.type = "randomized_int" -> Select(t, p, s.source)
        [] s.type = "rules" -> Select(t, p, IF true = {} THEN s.fallback ELSE s.rules[Min(true)].then)

-----------------------------------------------------------------------------
\* Modifiers that look at the ground. The heightmaps of a modifier read the
\* column of the source chunk that the position wraps to.

GroundLevel(t, x, kind) ==
  LET Counts(k) == CASE kind = "ocean_floor" -> Solid(k)
                     [] kind = "motion_blocking" -> Solid(k) \/ Fluid(k)
                     [] OTHER -> k # "air"
      hits == {y \in Rows : Counts(LocalAt(t, <<x, y>>))}
  IN  IF hits = {} THEN MinY ELSE Min({MaxY, Max(hits) + 1})
WaterDepth(t, x) ==
  Max({0, GroundLevel(t, x, "world_surface") - GroundLevel(t, x, "ocean_floor")})

\* findCountOnEveryLayerY: the foot of the open space layer spaces from the top.
Passable(k) == k \in {"air", "water", "lava"}
LayerFeet(t, x) ==
  {y \in MinY + 1 .. GroundLevel(t, x, "motion_blocking") :
     /\ Passable(LocalAt(t, <<x, y>>))
     /\ ~ Passable(LocalAt(t, <<x, y - 1>>)) /\ LocalAt(t, <<x, y - 1>>) # "bedrock"}
LayerFoot(t, x, layer) ==
  {y \in LayerFeet(t, x) : Chunk(x) = t.v.source /\ Cardinality({z \in LayerFeet(t, x) : z > y}) = layer}

\* sampleHeightProvider
Height(t, m) ==
  LET span == m.high - m.low
      rise == (span - m.plateau) \div 2
  IN  CASE m.kind = "constant" \/ span < 0 -> m.low
        [] m.kind = "uniform" \/ (m.kind = "trapezoid" /\ m.plateau >= span) -> m.low + Roll(t, 4, span + 1)
        [] m.kind = "trapezoid" -> m.low + Roll(t, 4, span - rise + 1) + Roll(t, 5, rise + 1)
        [] m.kind = "to_bottom" -> m.low + Roll(t, 4, Roll(t, 5, span + 1) + 1)

\* scanEnvironment: the first cell that is a target, while the search may go on.
Scanned(t, o, m) ==
  LET Cell(i) == Above(o, m.step * i)
      MayPass(i) == InChunk(t, Cell(i)) /\ Test(t, Cell(i), m.allowed)
  IN  {Cell(i) : i \in {j \in 0 .. m.steps : /\ \A n \in 0 .. j : MayPass(n)
                                             /\ Test(t, Cell(j), m.target)
                                             /\ \A n \in 0 .. j - 1 : ~ Test(t, Cell(n), m.target)}}

\* The modifiers that keep a position, move it or drop it: the positions left.
Moved(t, o, m, top) ==
  LET offered ==
        CASE m.type = "in_square" -> <<o[1] + Roll(t, 3, W), o[2]>>
          [] m.type = "height_range" -> <<o[1], Height(t, m)>>
          [] m.type = "heightmap" -> <<o[1], GroundLevel(t, o[1], m.kind)>>
          [] m.type = "random_offset" -> <<o[1] + Sample(t, 0, m.aside), o[2] + Sample(t, 1, m.up)>>
          [] OTHER -> o
      delta == o[2] - GroundLevel(t, o[1], "world_surface")
      kept ==
        CASE m.type = "rarity_filter" -> Roll(t, 1, m.chance) = 0
          [] m.type = "heightmap" -> offered[2] > MinY
          [] m.type = "surface_water_depth_filter" -> WaterDepth(t, o[1]) <= m.max
          [] m.type = "biome" -> top \in BiomeFeatures[BiomeAt(o[1])]
          [] m.type = "surface_relative_threshold_filter" -> delta >= m.min /\ delta <= m.max
          [] m.type = "block_predicate_filter" -> Test(t, o, m.test)
          [] OTHER -> TRUE
  IN  CASE m.type = "environment_scan" -> Scanned(t, o, m)
        [] m.type = "fixed_placement" -> {p \in m.cells : Chunk(p[1]) = Chunk(o[1])}
        [] OTHER -> IF kept THEN {offered} ELSE {}

\* How often a counting modifier repeats the rest.
Repeats(t, o, m) ==
  CASE m.type = "count" -> Sample(t, 0, m.n)
    [] m.type = "noise_threshold_count" -> IF Noise(o[1]) >= m.level THEN m.above ELSE m.below
    [] m.type = "noise_based_count" -> Max({0, (Noise(o[1]) + m.offset) * m.ratio})
Counting == {"count", "noise_threshold_count", "noise_based_count"}

-----------------------------------------------------------------------------
\* placedFeatureNeedsDecorationRegion: a walk over the registry that visits a
\* feature once. A walk is [seen, found].

Regional == {"tree", "fallen_tree", "geode", "fossil", "monster_room", "desert_well", "iceberg",
             "blue_ice", "ore", "scattered_ore", "disk", "seagrass"}
Patches == {"random_patch", "flower"}
\* The placed features a configured feature names, in the order of the walk.
Named(f) ==
  CASE f.type = "random_selector" -> [i \in DOMAIN f.features |-> f.features[i].feature] \o <<f.default>>
    [] f.type = "simple_random_selector" -> f.features
    [] f.type = "random_boolean_selector" -> <<f.whenTrue, f.whenFalse>>
    [] f.type \in Patches \cup {"vegetation_patch", "waterlogged_vegetation_patch", "root_system"} -> <<f.feature>>
    [] OTHER -> <<>>
RECURSIVE Walk(_, _)
Walk(s, name) ==
  LET f == ConfiguredFeatures[PlacedFeatures[name].feature]
      visited == [s EXCEPT !.seen = @ \cup {name}]
      Visit(u, next) == IF u.found THEN u ELSE Walk(u, next)
  IN  IF name \in s.seen THEN s
      ELSE IF f.type \in Regional \/ (f.type \in Patches /\ f.spread > 0)
      THEN [visited EXCEPT !.found = TRUE]
      ELSE FoldLeft(Visit, visited, Named(f))
NeedsRegionItself(name) == ConfiguredFeatures[PlacedFeatures[name].feature].type \in Regional
NeedsRegion(name) == Walk([seen |-> {}, found |-> FALSE], name).found

-----------------------------------------------------------------------------
\* The features that place no others.

BlockColumn(t, o, f) ==
  LET heights == [i \in DOMAIN f.layers |-> Max({0, Sample(t, i, f.layers[i].n)})]
      blocks == FlattenSeq([i \in DOMAIN f.layers |-> [n \in 1 .. heights[i] |-> f.layers[i].block]])
      Stack(s, k) ==
        LET r == PlaceState(s.t, s.at, k)
        IN  IF s.done \/ ~ InChunk(s.t, s.at) \/ ~ Test(s.t, s.at, f.allowed) \/ ~ r.ok
            THEN [s EXCEPT !.done = TRUE]
            ELSE [t |-> r, at |-> Above(s.at, f.step), done |-> FALSE]
  IN  FoldLeft(Stack, [t |-> Refuse(t), at |-> o, done |-> f.step = 0], blocks).t

OverworldFeature(t, o, f) ==
  CASE f.type = "simple_block" -> PlaceState(t, o, Select(t, o, f.provider))
    [] f.type = "block_blob" -> BlockBlob(t, o)
    [] f.type = "block_column" -> BlockColumn(t, o, f)
    [] f.type = "seagrass" -> Seagrass(t, o)
    [] f.type = "kelp" -> Kelp(t, o)
    [] f.type = "multiface_growth" -> MultifaceGrowth(t, o)
    [] f.type = "ore" -> Ore(t, o)
    [] f.type = "scattered_ore" -> ScatteredOre(t, o)
    [] f.type = "disk" -> Disk(t, o)
    [] f.type = "spring_feature" -> Spring(t, o)
    [] f.type = "underwater_magma" -> UnderwaterMagma(t, o)
    [] f.type = "pointed_dripstone" -> PointedDripstone(t, o)
    [] f.type = "dripstone_cluster" -> DripstoneCluster(t, o)
    [] f.type = "large_dripstone" -> LargeDripstone(t, o)
    [] f.type = "geode" -> Geode(t, o)
    [] f.type = "fossil" -> Fossil(t, o)
    [] f.type = "sculk_patch" -> SculkPatch(t, o)
    [] f.type = "vines" -> Vines(t, o)
    [] f.type = "sea_pickle" -> SeaPickle(t, o)
    [] f.type = "lake" -> Lake(t, o)
    [] f.type = "freeze_top_layer" -> FreezeTopLayer(t, o)
    [] f.type = "bamboo" -> Bamboo(t, o)

LaterFeature(t, o, f) ==
  CASE f.type = "tree" -> Tree(t, o, f.species)
    [] f.type = "fallen_tree" -> FallenTree(t, o, f.species)
    [] f.type = "huge_mushroom" -> HugeMushroom(t, o)
    [] f.type = "desert_well" -> DesertWell(t, o)
    [] f.type = "iceberg" -> Iceberg(t, o)
    [] f.type = "blue_ice" -> BlueIce(t, o)
    [] f.type = "monster_room" -> MonsterRoom(t, o)
    [] f.type = "huge_fungus" -> HugeFungus(t, o)
    [] f.type = "nether_forest_vegetation" -> NetherForestVegetation(t, o)
    [] f.type = "twisting_vines" -> TwistingVines(t, o)
    [] f.type = "weeping_vines" -> WeepingVines(t, o)
    [] f.type = "netherrack_replace_blobs" -> NetherrackReplaceBlobs(t, o)
    [] f.type = "glowstone_blob" -> GlowstoneBlob(t, o)
    [] f.type = "basalt_pillar" -> BasaltPillar(t, o)
    [] f.type = "basalt_columns" -> BasaltColumns(t, o)
    [] f.type = "delta_feature" -> Delta(t, o)
    [] f.type = "chorus_plant" -> ChorusPlant(t, o)
    [] f.type = "end_island" -> EndIsland(t, o)
    [] f.type = "spike" -> Spike(t, o)
    [] f.type = "end_spike" -> EndSpike(t, o)
    [] f.type = "end_platform" -> EndPlatform(t, o)
    [] f.type = "end_gateway" -> EndGateway(t, o)
    [] f.type = "void_start_platform" -> VoidStartPlatform(t, o)

Later == {"tree", "fallen_tree", "huge_mushroom", "desert_well", "iceberg", "blue_ice", "monster_room",
          "huge_fungus", "nether_forest_vegetation", "twisting_vines", "weeping_vines",
          "netherrack_replace_blobs", "glowstone_blob", "basalt_pillar", "basalt_columns",
          "delta_feature", "chorus_plant", "end_island", "spike", "end_spike", "end_platform",
          "end_gateway", "void_start_platform"}

-----------------------------------------------------------------------------
\* findVegetationPatchSurface: the highest filled cell with room on its open
\* side, and that room.
PatchSurface(t, p, f) ==
  LET out == IF f.ceiling THEN -1 ELSE 1
      fits == {y \in p[2] - f.range .. p[2] + f.range :
                 /\ InChunk(t, <<p[1], y>>) /\ FilledInScope(t, <<p[1], y>>)
                 /\ LocalAt(t, <<p[1], y + out>>) \in {"air", "water"}}
  IN  IF fits = {} THEN <<>> ELSE <<<<p[1], Max(fits)>>, <<p[1], Max(fits) + out>>>>

\* placeModifierStep, executePlacedFeatureRef and executeConfiguredFeature. The
\* reply tells whether anything was placed.
RECURSIVE Modify(_, _, _, _, _, _), ExecutePlaced(_, _, _, _, _), Execute(_, _, _, _, _)

Modify(t, o, modifiers, feature, top, depth) ==
  LET m == Head(modifiers)
      Emit(u, p) == Turn(Modify(u, p, Tail(modifiers), feature, top, depth))
      Aim(s, i) ==
        LET x == o[1] + Roll(s.t, 3 + i, W)
            feet == LayerFoot(s.t, x, s.layer)
        IN  IF feet = {} THEN s ELSE [s EXCEPT !.t = Emit(@, <<x, Min(feet)>>), !.found = TRUE]
      Layer(s, n) ==
        IF ~ s.found THEN s
        ELSE FoldLeft(Aim, [s EXCEPT !.layer = n, !.found = FALSE], [i \in 1 .. Sample(s.t, 0, m.n) |-> i])
  IN  IF modifiers = <<>> THEN Also(t, Execute(t, o, feature, top, depth))
      ELSE IF m.type \in Counting
      THEN FoldLeft(LAMBDA u, i : Emit(u, o), t, [i \in 1 .. Repeats(t, o, m) |-> i])
      ELSE IF m.type = "count_on_every_layer"
      THEN FoldLeft(Layer, [t |-> t, layer |-> 0, found |-> TRUE], [n \in 1 .. MaxY - MinY |-> n - 1]).t
      ELSE FoldLeft(Emit, t, Rising(Moved(t, o, m, top)))

ExecutePlaced(t, o, name, top, depth) ==
  IF depth > MaxDepth THEN Refuse(t)
  ELSE Modify(Refuse(t), o, PlacedFeatures[name].placement, PlacedFeatures[name].feature, top, depth + 1)

RandomPatch(t, o, f, top, depth) ==
  LET Try(u, i) ==
        LET p == <<o[1] + Roll(u, 0, f.spread + 1) - Roll(u, 1, f.spread + 1),
                   o[2] + Roll(u, 2, f.ySpread + 1) - Roll(u, 3, f.ySpread + 1)>>
        IN  Turn(IF InScope(u, p) THEN Also(u, ExecutePlaced(u, p, f.feature, top, depth + 1)) ELSE u)
  IN  FoldLeft(Try, Refuse(t), [i \in 1 .. f.tries |-> i])

VegetationPatch(t, o, f, top, depth) ==
  LET radius == Max({1, Sample(t, 0, f.radius)})
      thickness == Max({1, Sample(t, 1, f.depth)})
      inward == IF f.ceiling THEN 1 ELSE -1
      Column(u, dx) ==
        LET found == PatchSurface(u, Right(o, dx), f)
            ground == {Above(found[1], inward * i) : i \in 0 .. thickness - 1}
            turf == {p \in ground : InChunk(u, p) /\ At(u, p) \in f.replaceable}
            laid == Reply(PutInChunk(u, turf, f.ground), u.ok \/ turf # {})
            dry == f.waterlogged /\ LocalAt(laid, found[2]) = "air"
            soaked == IF dry THEN Put(laid, {found[2]}, "water") ELSE laid
            bare == Magnitude(dx) >= radius - 1 /\ Roll(u, dx + radius, 2) = 0
        IN  IF bare \/ found = <<>> THEN u
            ELSE IF At(u, found[1]) \notin f.replaceable THEN u
            ELSE IF Roll(u, dx + radius + 1, 2) = 0 THEN laid
            ELSE Turn(Also(soaked, ExecutePlaced(soaked, found[2], f.feature, top, depth + 1)))
  IN  FoldLeft(Column, Refuse(t), [i \in 1 .. 2 * radius + 1 |-> i - 1 - radius])

RootSystem(t, o, f, top, depth) ==
  LET room == Upward(o, Max({1, f.space}))
      wet == {p \in room : LocalAt(t, p) = "water"}
      grown == ExecutePlaced(t, o, f.feature, top, depth + 1)
      Root(u, i) ==
        LET p == <<o[1] + Swing(u, i, f.reach), o[2] - Roll(u, i + 1, Min({4, f.rootHeight}) + 1)>>
        IN  IF InChunk(u, p) /\ At(u, p) \in f.replaceable THEN Put(u, {p}, f.root) ELSE u
      Hang(u, i) ==
        LET p == <<o[1] + Swing(u, i, f.reach), o[2] - Roll(u, i + 2, f.span + 1)>>
        IN  IF InChunk(u, p) /\ LocalAt(u, p) = "air" /\ FilledInScope(u, Above(p, 1))
            THEN Put(u, {p}, "hanging_roots") ELSE u
      attempts == [i \in 1 .. f.attempts |-> i]
  IN  IF \/ ~ InScope(t, o) \/ ~ Test(t, o, f.allowed)
         \/ \E p \in room : ~ InChunk(t, p) \/ LocalAt(t, p) \notin {"air", "water"}
         \/ Cardinality(wet) > f.wet
      THEN Refuse(t)
      ELSE IF ~ grown.ok THEN grown
      ELSE Reply(FoldLeft(Hang, FoldLeft(Root, grown, attempts), attempts), TRUE)

Execute(t, o, name, top, depth) ==
  LET f == ConfiguredFeatures[name]
      drawn == {i \in DOMAIN f.features : Roll(t, i, f.features[i].chance) = 0}
      Pass(next) == ExecutePlaced(t, o, next, top, depth + 1)
  IN  IF depth > MaxDepth THEN Refuse(t)
      ELSE CASE f.type \in Patches -> RandomPatch(t, o, f, top, depth + 1)
             [] f.type = "random_selector" ->
                  Pass(IF drawn = {} THEN f.default ELSE f.features[Min(drawn)].feature)
             [] f.type = "simple_random_selector" -> Pass(f.features[1 + Roll(t, 1, Len(f.features))])
             [] f.type = "random_boolean_selector" -> Pass(IF Roll(t, 1, 2) = 1 THEN f.whenTrue ELSE f.whenFalse)
             [] f.type \in {"vegetation_patch", "waterlogged_vegetation_patch"} ->
                  VegetationPatch(t, o, f, top, depth + 1)
             [] f.type = "root_system" -> RootSystem(t, o, f, top, depth + 1)
             [] f.type \in Later -> LaterFeature(t, o, f)
             [] OTHER -> OverworldFeature(t, o, f)

\* runPlacedFeature and replaySourceFeature: the placed feature from the corner
\* of the source chunk on, in the view and with the dice given.
RunPlaced(w, v, d, name) ==
  Modify(Start(w, v, d), <<v.source * W, MinY>>, PlacedFeatures[name].placement,
         PlacedFeatures[name].feature, name, 0)
=============================================================================
