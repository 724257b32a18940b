------------------------------ MODULE MCCaches ------------------------------
(***************************************************************************)
(* The memo caches of a generator on small sets of goroutines and keys: in *)
(* one scene those that compute in flights, in the other the shard of      *)
(* feature blocks with two maps in the registry and one more address, where *)
(* maps made on the spot can be; and a third where generators of several   *)
(* dimensions are constructed and used. The scenes share no state.         *)
(***************************************************************************)
EXTENDS MemoCaches, FeatureBlockCache, GeneratorStart, LookupTables, TLC

CONSTANTS a, x, y, free,   \* a key, and addresses
          short, long,     \* contents
          Scenes
VARIABLE scene

\* Biomes are asked for of two chunks, an ore and the strongholds of one.
AllRequests == ({"possibleBiomes", "populate"} \X Keys) \cup {<<"ore", a>>, <<"ring", a>>}

RegistryMaps == x :> short @@ y :> long
AllAddresses == {x, y, free}
Ages == {short, long}

-----------------------------------------------------------------------------
\* Towns have houses, chambers have spawners that the dice name in one of two ways.
\* A wall is what a house falls back to; nothing but a pit leads to the deep.
Single(t) == [type |-> "single_pool_element", location |-> t]
Weighed(element, n) == [element |-> element, weight |-> n]
Plain == [name |-> "planks", pool |-> ""]
To(pool) == [name |-> "jigsaw", pool |-> pool]
SomeTemplates ==
  [square |-> <<Plain, To("houses")>>, hut |-> <<To("lamps"), Plain>>, wall |-> <<Plain>>,
   hall |-> <<To("spawner"), To("lamps")>>, pit |-> <<To("deep")>>, cage |-> <<Plain>>]
PoolOf(elements, fallback) == [elements |-> elements, fallback |-> fallback]
SomePools ==
  [empty |-> PoolOf(<<>>, "empty"),
   town |-> PoolOf(<<Weighed(Single("square"), 1), Weighed(Single("lost"), 1), Weighed(Single("pit"), 0)>>, "empty"),
   houses |-> PoolOf(<<Weighed([type |-> "list_pool_element", elements |-> <<Single("hut"), Single("pit")>>], 2),
                       Weighed([type |-> "empty_pool_element"], 1)>>, "walls"),
   walls |-> PoolOf(<<Weighed(Single("wall"), 1)>>, ""),
   lamps |-> PoolOf(<<Weighed([type |-> "feature_pool_element"], 1)>>, "empty"),
   chambers |-> PoolOf(<<Weighed(Single("hall"), 1)>>, "empty"),
   melee |-> PoolOf(<<Weighed(Single("cage"), 1)>>, "empty"),
   ranged |-> PoolOf(<<Weighed(Single("pit"), 1), Weighed([type |-> "unheard_of"], 1)>>, "empty"),
   deep |-> PoolOf(<<Weighed(Single("cage"), 1)>>, "walls")]
Spawners ==
  <<[type |-> "direct", alias |-> "gate", target |-> "lamps"],
    [type |-> "random_group", groups |-> <<
       [weight |-> 1, data |-> <<[type |-> "direct", alias |-> "spawner", target |-> "melee"]>>],
       [weight |-> 1, data |-> <<[type |-> "random", alias |-> "spawner",
          targets |-> <<[data |-> "ranged", weight |-> 1], [data |-> "melee", weight |-> 0]>>]>>]>>]>>
AllAliasDefs == ToSet(Spawners) \cup UNION {ToSet(g.data) : g \in ToSet(Spawners[2].groups)}
SomeJigsaws ==
  [overworld |-> <<[start |-> "town", aliases |-> <<>>], [start |-> "chambers", aliases |-> Spawners]>>,
   nether |-> <<[start |-> "chambers", aliases |-> Spawners]>>, end |-> <<>>, nowhere |-> <<>>]

-----------------------------------------------------------------------------
\* Two ids store at once and one is past the table; one id has no block. Of two
\* accessors that share a Go type only one fits; one text is no json at all.
SomeNames == 0 :> "stone" @@ 2 :> "vine"
SomeStates == <<"fern", "none">> :> "r1" @@ <<"fern", "tall">> :> "r2"
SomeFixed == [water |-> "r0"]
SomeKeys ==
  [surfaceBlock |-> {<<"water", "none">>, <<"fern", "odd">>}, templateBlock |-> {<<"fern", "odd">>, <<"fern", "tall">>},
   noise |-> {<<"meadow", "noise">>}, level |-> {<<"0", "0">>, <<"0", "16">>}]
SomeNoise == <<"meadow", "noise">> :> "n"
SomeLevels == <<"0", "0">> :> "high"
Def(type, config) == [type |-> type, config |-> config]
SomeDefs ==
  [placed |-> [patch |-> Failed], configured |-> [oak |-> Def("tree", "oakJSON")],
   carver |-> [cavern |-> Def("cave", "badJSON")], worldgen |-> [town |-> Def("jigsaw", "")],
   gradient |-> [bedrock_floor |-> "factory"]]
SomeBytes == [hut |-> "gzip", torn |-> Failed]
SomeRead == [gzip |-> "hut"]
SomeAccessors ==
  {[expected |-> {"tree"}, as |-> "TreeConfig"], [expected |-> {"cave", "nether_cave"}, as |-> "CaveCarverConfig"]}
SomeDecoded ==
  [oakJSON |-> [TreeConfig |-> "oak", CaveCarverConfig |-> Failed],
   badJSON |-> [TreeConfig |-> Failed, CaveCarverConfig |-> Failed]]

-----------------------------------------------------------------------------
AllInit == scene \in Scenes /\ Init /\ BlockInit /\ StartInit /\ LookupInit
InFlights == scene = "flights" /\ Next /\ UNCHANGED <<scene, blockVars, startVars, lookupVars>>
InShard == scene = "shard" /\ BlockNext /\ UNCHANGED <<scene, vars, startVars, lookupVars>>
InStart == scene = "construction" /\ StartNext /\ UNCHANGED <<scene, vars, blockVars, lookupVars>>
\* The four kinds of lookup share nothing but the goroutines.
InLookup ==
  /\ \/ scene = "names" /\ AskNames
     \/ scene = "memos" /\ AskMemos
     \/ scene = "definitions" /\ AskDefinitions
     \/ scene = "templates" /\ AskTemplates
  /\ UNCHANGED <<scene, vars, blockVars, startVars>>
AllNext == InFlights \/ InShard \/ InStart \/ InLookup
AllSpec ==
  /\ AllInit /\ [][AllNext]_<<scene, vars, blockVars, startVars, lookupVars>>
  /\ Fairness

=============================================================================
