--------------------------- MODULE ChunkDecoration ---------------------------
(***************************************************************************)
(* decorateFeaturesAndStructures (features.go) for two chunks beside each  *)
(* other, 0 and 1. Each is decorated in a world of its own: its chunk and  *)
(* the undecorated chunks around it, where the features of its neighbours  *)
(* are replayed in the order of the sources. Only what lands in the chunk  *)
(* itself is kept, so the game shows chunk 0 of the one world next to      *)
(* chunk 1 of the other, and nothing but the replay makes the two agree.   *)
(*                                                                         *)
(* A scene is the undecorated terrain, the placed features of each chunk   *)
(* in the order of their index, and the dice of the seed.                  *)
(***************************************************************************)
EXTENDS FeaturePlacement

CONSTANTS
  Scenes,
  Terrain   \* the undecorated world of each name

Centres == {0, 1}
Chunks == -1 .. 2

VARIABLES
  scene,   \* what the seed fixes
  world,   \* the world of each centre
  queue,   \* the features a centre has left to run: their source and index
  last     \* the feature run last, and what it was run on

vars == <<scene, world, queue, last>>

\* replay := needsRegion(featureName); what needs none runs at the centre only.
Runs(s, c, item) == item.source = c \/ NeedsRegion(s.features[item.source][item.index])
Replay(s, c) ==
  SelectSeq(FlattenSeq([i \in 1 .. 3 |->
              [n \in DOMAIN s.features[c - 2 + i] |-> [source |-> c - 2 + i, index |-> n]]]),
            LAMBDA item : Runs(s, c, item))

\* featureRNG of decorationSeed(source) and the index: the same for all centres.
Dice(s, item) ==
  LET turn == (item.source + item.index) % 3
  IN  SubSeq(s.dice, 1 + turn, 3) \o SubSeq(s.dice, 1, turn) \o SubSeq(s.dice, 4, Len(s.dice))

Init ==
  /\ scene \in Scenes
  /\ world = [c \in Centres |-> Terrain[scene.terrain]]
  /\ queue = [c \in Centres |-> Replay(scene, c)]
  /\ last = [name |-> "none", source |-> 0, before |-> Terrain[scene.terrain],
             after |-> Terrain[scene.terrain], ok |-> TRUE, stray |-> {}]

\* The next feature of the replay of centre c, the centre of chunk 0 first.
Leave(c, name, source, t) ==
  /\ world' = [world EXCEPT ![c] = t.w]
  /\ last' = [name |-> name, source |-> source, before |-> world[c], after |-> t.w,
              ok |-> t.ok, stray |-> t.stray]
RunNext(c) ==
  /\ queue[c] # <<>>
  /\ c = 1 => queue[0] = <<>>
  /\ LET item == Head(queue[c])
         name == scene.features[item.source][item.index]
         view == View(item.source, c, NeedsRegion(name))
     IN  Leave(c, name, item.source, RunPlaced(world[c], view, Dice(scene, item), name))
  /\ queue' = [queue EXCEPT ![c] = Tail(@)]
  /\ UNCHANGED scene

Finished == \A c \in Centres : queue[c] = <<>>
Next == \E c \in Centres : RunNext(c)
Spec == Init /\ [][Next]_vars

-----------------------------------------------------------------------------
\* What a feature runs on and leaves, seen as cells.
Cell(w, p) == IF p[1] \in DOMAIN w /\ p[2] \in Rows THEN w[p[1]][p[2]] ELSE "none"
Columns(c) == {x \in DOMAIN world[0] : Chunk(x) = c}
Changed == {p \in (DOMAIN last.after) \X Rows : last.after[p[1]][p[2]] # last.before[p[1]][p[2]]}
TypeOf(name) == IF name = "none" THEN name ELSE ConfiguredFeatures[PlacedFeatures[name].feature].type
Lists(c) == scene.features[c]

\* The placed features a feature may come to run, by any number of steps.
Below(names) == names \cup UNION {ToSet(Named(ConfiguredFeatures[PlacedFeatures[n].feature])) : n \in names}
Within(name) ==
  LET deep[n \in 0 .. Cardinality(DOMAIN PlacedFeatures)] == IF n = 0 THEN {name} ELSE Below(deep[n - 1])
  IN  deep[Cardinality(DOMAIN PlacedFeatures)]
Crossing(name) ==
  LET f == ConfiguredFeatures[PlacedFeatures[name].feature]
  IN  f.type \in Regional \/ (f.type \in Patches /\ f.spread > 0)

-----------------------------------------------------------------------------
\* What the one feature of a scene lays where no border is in its way.
Unbounded(s) ==
  RunPlaced(Terrain[scene.terrain], View(s, s, TRUE), Dice(scene, [source |-> s, index |-> 1]),
            Lists(s)[1]).w

\* A feature that may cross a border, or may come to run one that does at any
\* depth (placedFeatureNeedsDecorationRegion), stands whole in the game: its own
\* chunk shows its part of it and the neighbour, which replays it in a world of
\* its own (replaySourceFeature), the rest. Nothing is cut at the border and
\* nothing appears beyond it.
SpillAgrees ==
  \A s \in Centres :
    (Finished /\ Len(Lists(s)) = 1 /\ Lists(1 - s) = <<>>
       /\ \E n \in Within(Lists(s)[1]) : Crossing(n)) =>
      LET whole == Unbounded(s)
      IN  \A c \in Centres : \A x \in Columns(c) : world[c][x] = whole[x]

\* A feature writes to the cells it aims at, and never to the other side of its
\* chunk instead. Wells and clusters of dripstone look at no bound.
LandsWhereAimed == last.stray = {} \/ TypeOf(last.name) \in {"desert_well", "dripstone_cluster"}

\* A feature that reports that it placed nothing has changed nothing: kelp, roots
\* and patches plan or test before they write.
RefusalLeavesNoTrace == last.ok \/ last.before = last.after

\* Chests, spawners and bedrock survive every feature, whatever features it runs in
\* turn (features_cannot_replace), but for those that lay their blocks over whatever
\* is there and for the one cell or the other that some write without looking at it: the
\* soil under a tree, the stump of a fallen one, the cell that blue ice spreads from
\* where there is water below, and the walls of a monster room where nothing solid
\* carries them, which become air.
Careless == {"dripstone_cluster", "sculk_patch", "lake", "fossil", "desert_well", "end_island", "end_spike",
             "end_platform", "end_gateway", "void_start_platform", "underwater_magma", "block_blob"}
Overwritten == {p \in Changed : last.before[p[1]][p[2]] \in Kept}
Unseen(type, p) ==
  LET k == Cell(last.after, p)
      under == Cell(last.before, Above(p, -1))
  IN  \/ type = "tree" /\ k \in {"dirt", "podzol"}
      \/ type = "fallen_tree" /\ k = "log" /\ Overwritten = {p}
      \/ type = "blue_ice" /\ k = "blue_ice" /\ under = "water" /\ Overwritten = {p}
      \/ type = "monster_room" /\ k = "air" /\ ~ Solid(under)

\* What a feature plants in its own chunk stands on, hangs from or clings to
\* something that holds it.
Stands(w, p) ==
  LET k == Cell(w, p)
      under == Cell(w, Above(p, -1))
      over == Cell(w, Above(p, 1))
      beside == {Cell(w, q) : q \in Sides(p)}
  IN  CASE k = "kelp_plant" -> over \in {"kelp", "kelp_plant"} /\ (under = "kelp_plant" \/ Solid(under))
        [] k = "kelp" -> under = "kelp_plant" \/ Solid(under)
        [] k \in {"sea_pickle", "seagrass", "snow"} -> Filled(under)
        [] k = "bamboo" -> under \in Soil \cup {"bamboo"}
        [] k = "sugar_cane" -> under \in {"sugar_cane", "sand"}
        [] k = "pointed_dripstone" -> Filled(under) \/ Filled(over)
        [] k = "vine" -> over = "vine" \/ \E b \in beside : Filled(b)
        [] k = "chorus_plant" -> under \in {"end_stone", "chorus_plant"} \/ "chorus_plant" \in beside
        [] k \in {"vein", "bud"} -> \E b \in beside \cup {over, under} : Filled(b)
        [] k = "fungus" -> "log" \in beside
        [] OTHER -> TRUE
PlantsStand == \A p \in Changed : Chunk(p[1]) = last.source => Stands(last.after, p)

\* A leaf that is not marked to decay is within six leaves of a log (updateLeaves).
LeavesHeld ==
  LET w == last.after
      Kinds(S) == {p \in (DOMAIN w) \X Rows : Cell(w, p) \in S}
      leaves == Kinds(LeafKinds)
      wave[n \in 0 .. 6] ==
        IF n = 0 THEN Kinds({"log"})
        ELSE LET near == wave[n - 1] IN near \cup {p \in UNION {Faces(q) : q \in near} : p \in leaves}
  IN  \A p \in Changed : Cell(w, p) = "leaves" => p \in wave[6]

\* The fluid of a lake lies in a basin: beside and under each cell of it, in the
\* chunk of the lake, something holds it (executeLake).
LakesHold ==
  last.name = "lake" =>
    \A p \in Changed : Fluid(Cell(last.after, p)) =>
      \A q \in Sides(p) \cup {Above(p, -1)} :
        Chunk(q[1]) = last.source => Filled(Cell(last.after, q)) \/ Cell(last.after, q) = Cell(last.after, p)

\* What a feature leaves behind is held by what is there when it is done: a plant by
\* its support, the fluid of a lake by its basin.
NothingHangs == PlantsStand /\ LakesHold

\* A figure of fixed columns is whole, though each chunk lays its own part only
\* (executeEndSpike).
SpikesWhole ==
  (Finished /\ \A c \in Chunks : Lists(c) = <<"end_spike">>) =>
    \A s \in Spikes : \A x \in s.x - s.radius .. s.x + s.radius, y \in SpikeFoot .. s.height :
      Chunk(x) \in Centres => world[Chunk(x)][x][y] = IF y = s.height /\ x = s.x THEN "bedrock" ELSE "obsidian"

\* Nothing that crosses the border of a chunk shows a cut there: neither what the
\* neighbour replays (replaySourceFeature) nor what it lays of its own accord.
BordersWhole == SpillAgrees /\ SpikesWhole

\* "each source chunk's full decoration runs in row-major order": what one chunk
\* decorates alone looks the same in both worlds.
DecorationRunsInFull ==
  \A s \in Centres : (Finished /\ \A c \in Chunks \ {s} : Lists(c) = <<>>) =>
    \A x \in Columns(1 - s) : world[0][x] = world[1][x]
=============================================================================
