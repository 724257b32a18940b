----------------------------- MODULE MCPlanning -----------------------------
(***************************************************************************)
(* What is decided before a block is placed, and the placing of planned    *)
(* structures: the order of features, the starts near a chunk, the         *)
(* structures built from templates, and the chunks that place their parts. *)
(* The scenes share no state.                                              *)
(***************************************************************************)
EXTENDS FeatureOrder, StructureStarts, DirectStructures, StructurePlacement, TemplateReader

CONSTANT Scenes
VARIABLE scene

-----------------------------------------------------------------------------
\* All lists of at most two out of three features that three biomes may have in
\* one step, with a few lists in a second step that take up the same features.
CONSTANTS ore, tree, grass          \* features
CONSTANTS plains, forest, swamp     \* biomes

ThreeBiomes == <<forest, plains, swamp>>
ListsOfFirst == {<<>>} \cup {<<x>> : x \in Names} \cup
                {<<x, y>> : x \in Names, y \in Names}
ListsOfSecond == {<<>>, <<tree, ore>>}
TwoSteps ==
  {[b \in Biomes |-> <<first[b], IF b = plains THEN second ELSE third>>] :
     first \in [Biomes -> ListsOfFirst],
     second \in ListsOfSecond, third \in {<<>>, <<ore, grass>>}}

-----------------------------------------------------------------------------
\* Outposts that keep away from villages, shafts, and a stronghold, with entries
\* that no planner takes up. Positions run from the negative to the positive.
Line == -6 .. 6
AroundZero == {-1, 0, 1}
GridCells == -3 .. 2

Entry(name, type, weight, step, where, pool) ==
  [structure |-> name, kind |-> type, weight |-> weight, step |-> step, biomes |-> where, pool |-> pool, reach |-> 8]
Start(size, weight) == [single |-> TRUE, size |-> size, weight |-> weight]
Everywhere == {"grass", "sand"}
SetOf(name, type, spacing, entries) ==
  [name |-> name, type |-> type, spacing |-> spacing, separation |-> spacing \div 2, zone |-> "", count |-> 0,
   preferred |-> {"sand"}, entries |-> entries]
SomeSets ==
  <<[SetOf("outposts", "random_spread", 3,
       <<Entry("outpost", "jigsaw", 1, "surface", Everywhere, <<Start(16, 1), [Start(90, 1) EXCEPT !.single = FALSE]>>)>>)
     EXCEPT !.zone = "villages", !.count = 1],
    SetOf("ruins", "random_spread", 4,
       <<Entry("bastion_remnant", "jigsaw", 1, "surface", Everywhere, <<Start(40, 1)>>),
         Entry("ruins", "jigsaw", 1, "surface", Everywhere, <<Start(40, 0)>>)>>),
    SetOf("villages", "random_spread", 3,
       <<Entry("plains", "jigsaw", 2, "surface", {"grass"}, <<Start(5, 2), Start(20, 1)>>),
         Entry("desert", "jigsaw", 1, "surface", Everywhere, <<Start(33, 1)>>),
         Entry("snowy", "jigsaw", 0, "surface", Everywhere, <<Start(90, 1)>>)>>),
    SetOf("mineshafts", "random_spread", 4,
       <<Entry("mineshaft", "mineshaft", 2, "underground", {"grass"}, <<>>),
         Entry("mineshaft_mesa", "mineshaft", 1, "underground", {"sand"}, <<>>)>>),
    SetOf("strongholds", "concentric_rings", 1,
       <<Entry("stronghold", "stronghold", 1, "strongholds", Everywhere, <<>>)>>)>>
SomeSteps == <<"underground", "surface", "strongholds">>
Estimates == [mineshaft |-> 1, mineshaft_mesa |-> 1, stronghold |-> 2]
Extents == [mineshaft |-> {-1, 0}, mineshaft_mesa |-> {0, 1}, stronghold |-> {0, 1, 2}]
BootstrapNames == <<"outpost", "mineshaft", "mineshaft_mesa", "stronghold", "plains">>
SortedNames == <<"desert", "plains", "ruins", "snowy">>

AllWorlds ==
  {[spread |-> [outposts |-> [c \in GridCells |-> IF c \in late THEN 1 ELSE 0],
                villages |-> [c \in GridCells |-> IF c = -1 THEN 1 ELSE 0],
                mineshafts |-> [c \in GridCells |-> IF c = 0 THEN 0 ELSE 1]],
    allows |-> [outposts |-> [s \in Line |-> s # 0], villages |-> [s \in Line |-> s \notin missing],
                mineshafts |-> [s \in Line |-> TRUE]],
    biome |-> [s \in Line |-> IF s < 0 THEN "sand" ELSE "grass"],
    below |-> [s \in -8 .. 8 |-> IF s % 5 = 2 THEN "sand" ELSE "grass"],
    pick |-> [s \in Line |-> s + lucky],
    barren |-> IF lucky = 6 THEN 6 ELSE -3, rings |-> <<-5, 1>>] :
     late \in {{-1}, {0}}, missing \in {{}, {-2}, {0}}, lucky \in {6, 8}}

-----------------------------------------------------------------------------
\* Ground that falls to the north, under water, and ground under the least height that
\* ends east of the start.
Slopes ==
  {[base |-> 60, dx |-> 4, dz |-> -7, edge |-> 99, top |-> 63], [base |-> -70, dx |-> -9, dz |-> 3, edge |-> 6, top |-> -70]}
LowestBlock == -64

-----------------------------------------------------------------------------
Span == -4 .. 4
Land == Span \X Span
NaturalNames == [c \in Land |-> IF c[2] = 0 THEN "water" ELSE IF c = <<1, 1>> THEN "bedrock" ELSE "stone"]

Sign(x, z, name, key, of) == [pos |-> <<x, z>>, name |-> name, state |-> [key |-> key, of |-> of]]
Cube(x, z, name) == [pos |-> <<x, z>>, name |-> name, state |-> [key |-> "none"]]
\* A hut with fence and ladder, a path with rails and a sign.
Hut == <<Cube(0, 0, "brick"), Sign(1, 0, "fence", "sides", {"east", "south"}), Cube(2, 0, "brick"),
         Sign(0, 1, "ladder", "facing", "west"), Sign(1, 1, "log", "axis", "x"), Cube(2, 1, "air")>>
Path == <<Sign(0, 0, "rail", "rail", {"north", "east"}), Sign(1, 0, "sign", "rotation", 3), Cube(2, 0, "brick"),
          Cube(0, 1, "jigsaw"), Cube(1, 1, "brick"), Sign(2, 1, "stairs", "facing", "north")>>

Rule(input, location, position, output) == [input |-> input, location |-> location, position |-> position, output |-> output]
Is(block) == [kind |-> "block_match", block |-> block]
Often(block, p) == [kind |-> "random_block_match", block |-> block, probability |-> p]
Rules(rules) == [kind |-> "rule", rules |-> rules]
Cracks == Rules(<<Rule(Often("brick", 5), Anywhere, Anywhere, "cracked"), Rule(Is("log"), Anywhere, Anywhere, "air")>>)
Bridge == Rules(<<Rule(Is("brick"), Is("water"), Anywhere, "planks"),
                  Rule(Anywhere, Anywhere, [kind |-> "axis_aligned_linear_pos", axis |-> 2, minDist |-> 0, maxDist |-> 1, minChance |-> 0, maxChance |-> 4], "air")>>)
Moss == [kind |-> "capped", delegate |-> Rules(<<Rule(Is("brick"), Anywhere, Anywhere, "moss")>>), limit |-> 1]
Rot == [kind |-> "block_rot", rottable |-> {"brick", "fence"}, integrity |-> 6]
Guard == [kind |-> "protected_blocks", tag |-> {"bedrock"}]
Lists == {<<>>, <<Cracks>>, <<Bridge, Guard>>, <<Rot, Moss>>, <<Cracks, Moss, Guard>>}

Template(blocks, list, turn, m, pivot) ==
  [blocks |-> blocks, size |-> <<3, 2>>, processors |-> list, ignoreAir |-> TRUE, features |-> {}, origin |-> <<0, 0>>,
   rotation |-> turn, mirror |-> m, pivot |-> pivot, useTemplateTransform |-> TRUE]
OfPool(blocks, list, turn, at) ==
  [Template(blocks, list, turn, "none", <<0, 0>>) EXCEPT !.useTemplateTransform = FALSE, !.origin = at, !.features = {<<0, 0>>, <<1, 0>>}]
PlacedStarts ==
  {<<Template(b, list, n, m, pivot)>> : b \in {Hut, Path}, list \in Lists, n \in 0 .. 3,
     m \in {"none", "left_right", "front_back"}, pivot \in {<<0, 0>>, <<1, 1>>}}
  \cup {<<OfPool(Hut, list, n, <<-1, -1>>), OfPool(Path, <<Bridge>>, k, <<0, 0>>)>> : list \in Lists, n \in 0 .. 3, k \in 0 .. 1}
SomeLucks == {[c \in Land |-> (a * c[1] + b * c[2] + 40) % 10] : a \in {1, 3}, b \in {4, 7}}
SomeShuffles == {<<6, 3, 1, 5, 2, 4>>, <<3, 5, 6, 4, 2, 1>>}
SomeBorders == {-1, 1, 2}


-----------------------------------------------------------------------------
\* Templates with a palette, several or both, fields in any order, blocks without a
\* whole position, things nobody asks for, and values nested as deep as one likes.
Number(n) == [tag |-> "int", value |-> n]
Text(t) == [tag |-> "string", value |-> t]
Listed(of, items) == [tag |-> "list", of |-> of, items |-> items]
Box(fields) == [tag |-> "compound", fields |-> fields]
Numbers(ns) == Listed("int", [i \in DOMAIN ns |-> Number(ns[i])])
Oddments ==
  Box(<<<<"b", [tag |-> "byte", value |-> -1]>>, <<"s", [tag |-> "short", value |-> 2]>>, <<"l", [tag |-> "long", value |-> 3]>>,
        <<"f", [tag |-> "float", value |-> 4]>>, <<"d", [tag |-> "double", value |-> 5]>>,
        <<"bs", [tag |-> "byte_array", items |-> <<1, 2>>]>>, <<"is", [tag |-> "int_array", items |-> <<3>>]>>,
        <<"ls", [tag |-> "long_array", items |-> <<4, 5>>]>>, <<"none", Listed("end", <<>>)>>>>)
RECURSIVE Wrapped(_, _)
Wrapped(v, times) ==
  IF times = 0 THEN v
  ELSE Wrapped(IF times % 2 = 1 THEN Box(<<<<"pool", v>>, <<"name", Text("end")>>>>) ELSE Listed(v.tag, <<v, v>>), times - 1)
State(name, properties) ==
  Box(<<<<"Properties", Box(properties)>>, <<"Name", Text(name)>>, <<"extra", Oddments>>>>)
Palette == Listed("compound", <<State("stone", <<>>), State("stairs", <<<<"facing", Text("east")>>, <<"half", Text("top")>>>>)>>)
Another == Listed("compound", <<State("air", <<>>)>>)
Blocks(nbt) ==
  Listed("compound",
    <<Box(<<<<"state", Number(1)>>, <<"pos", Numbers(<<4, 5, 6>>)>>, <<"nbt", nbt>>>>),
      Box(<<<<"pos", Numbers(<<7, 8>>)>>, <<"state", Number(1)>>>>),
      Box(<<<<"nbt", Box(<<>>)>>, <<"pos", Numbers(<<1, 2, 3, 4>>)>>>>)>>)
Palettes ==
  {<<<<"palette", Palette>>>>, <<<<"palettes", Listed("list", <<Palette, Another>>)>>>>,
   <<<<"palette", Another>>, <<"palettes", Listed("list", <<Palette>>)>>>>,
   <<<<"palettes", Listed("list", <<>>)>>>>}
Shuffled(fields) ==
  {<<fields[1], fields[2], fields[3], fields[4]>>, <<fields[4], fields[3], fields[2], fields[1]>>,
   <<fields[3], fields[1], fields[4], fields[2]>>}
SomeDocuments ==
  {Box(p \o rest) :
     p \in Palettes,
     rest \in UNION {Shuffled(<<<<"size", Numbers(size)>>, <<"blocks", Blocks(Box(<<<<"joint", Text("aligned")>>, <<"placement_priority", Number(3)>>, <<"final", Wrapped(Oddments, deep)>>>>))>>,
                               <<"entities", Listed("compound", <<Oddments, Wrapped(Box(<<>>), deep)>>)>>,
                               <<"DataVersion", Number(9)>>>>) :
                       size \in {<<2, 3, 4>>, <<1, 1>>}, deep \in 0 .. 6}}
  \cup {Box(<<<<"DataVersion", Number(9)>>, <<"blocks", Blocks(Oddments)>>>> \o p) : p \in Palettes}

-----------------------------------------------------------------------------
NoOrder ==
  /\ featureSteps = [b \in Biomes |-> <<<<>>, <<>>>>] /\ roots = {} /\ stack = <<>> /\ visited = {}
  /\ sortedNodes = <<>> /\ stepFeatures = <<>> /\ orderStage = "none"
NoStarts ==
  /\ world = CHOOSE w \in Worlds : TRUE
  /\ starts = <<>> /\ pc = [w \in Workers |-> "none"] /\ chunk = <<>> /\ todo = <<>> /\ placed = <<>> /\ answer = <<>>
NoDirect ==
  /\ kind = "none" /\ ground = <<>> /\ pieces = <<>> /\ overall = <<>> /\ measured = {} /\ slots = {}
  /\ planStage = "none"
NoPlacement ==
  /\ start = <<>> /\ luck = <<>> /\ shuffle = <<>> /\ border = 0 /\ land = Untouched /\ unplaced = {1, 2}
NoReader == document = <<>> /\ stream = <<>> /\ template = <<>> /\ asks = 0

AllInit ==
  /\ scene \in Scenes
  /\ IF scene = "order" THEN OrderInit ELSE NoOrder
  /\ IF scene \in {"starts", "asked"} THEN Init ELSE NoStarts
  /\ IF scene = "direct" THEN DirectInit ELSE NoDirect
  /\ IF scene = "placement" THEN PlacementInit ELSE NoPlacement
  /\ IF scene = "reader" THEN ReaderInit ELSE NoReader

InOrder ==
  /\ scene = "order" /\ OrderNext
  /\ UNCHANGED <<scene, vars, directVars, placementVars, readerVars>>
InStarts ==
  /\ (scene = "starts" /\ Decorating) \/ (scene = "asked" /\ Asking)
  /\ UNCHANGED <<scene, orderVars, directVars, placementVars, readerVars>>
InDirect ==
  /\ scene = "direct" /\ DirectNext
  /\ UNCHANGED <<scene, orderVars, vars, placementVars, readerVars>>
InPlacement ==
  /\ scene = "placement" /\ PlacementNext
  /\ UNCHANGED <<scene, orderVars, vars, directVars, readerVars>>
InReader ==
  /\ scene = "reader" /\ ReaderNext
  /\ UNCHANGED <<scene, orderVars, vars, directVars, placementVars>>

\* A structure that is planned, or placed in both chunks, or read, stays as it is.
AllDone ==
  /\ (scene = "direct" /\ planStage # "plan") \/ (scene = "placement" /\ PlacementDone) \/ asks = 2
  /\ UNCHANGED <<scene, orderVars, vars, directVars, placementVars, readerVars>>
AllNext == InOrder \/ InStarts \/ InDirect \/ InPlacement \/ InReader \/ AllDone
AllSpec == AllInit /\ [][AllNext]_<<scene, orderVars, vars, directVars, placementVars, readerVars>>

-----------------------------------------------------------------------------
\* What a template says reaches the world whole: it is the same whoever decoded it, and
\* whichever chunk places which part of it.
TemplatesWhole == PartsAgree /\ ReadersAgree
=============================================================================
