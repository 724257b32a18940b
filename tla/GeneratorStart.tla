--------------------------- MODULE GeneratorStart ---------------------------
(***************************************************************************)
(* How a generator comes to be (NewForDimensionWithConfig, generator.go)   *)
(* and how it prepares the pools of structures (structureResolver,         *)
(* structure_jigsaw.go). All generators of the process share one resolver: *)
(* it decodes a pool when it is first asked for. So that chunks do not pay *)
(* for that, a constructor walks from the pools its structures start with  *)
(* to all that pieces may ask for; a structure may give other names to     *)
(* some pools, by the dice. Then structures are assembled, piece by piece. *)
(*                                                                         *)
(* A resolved pool is a function of its name: pools has the names.         *)
(***************************************************************************)
EXTENDS Naturals, Sequences, SequencesExt

CONSTANTS
  Starters,        \* goroutines that construct generators and use them
  JigsawSets,      \* dimension -> what prewarmJigsawCandidates goes through
  Accelerated,     \* the dimensions the device is for: the overworld
  Undefined,       \* dimensions whose biome source or metadata are missing
  TemplatePools,   \* the registry of pools: elements and fallback, by name
  Templates,       \* the templates that decode: their blocks, by name
  AliasDefs,       \* the definitions of aliases in the registry, in groups or not
  FailingSteps,    \* bound: after how many steps opening a device may fail
  MaxNesting,      \* bound: how deep lists of elements nest in the registry
  NoName

VARIABLES
  resources,       \* sharedWorldgenOnce: "new", "making" or "made"
  pools,           \* structureResolver.pools: the names that are resolved
  prewarmed,       \* structureResolver.prewarmed
  prewarmer,       \* who holds prewarmMu, or NoName
  starting,        \* where each goroutine is
  dimension,       \* the dimension of its generator
  library,         \* vg_cl_lib: whether the OpenCL library is loaded
  device,          \* what each goroutine's generator holds of a device
  toVisit,         \* prewarmPoolGraph: the pools still to visit
  visited,         \* prewarmPoolGraph: the names seen
  sought,          \* the name Pool is called with, and if as a fallback
  undrawn,         \* the alias definitions still to apply to aliases
  aliases,         \* structurePoolAliasMapping of the structure being assembled
  wants,           \* what a piece of it may ask for: a name, and if as a fallback
  decoded          \* the pools that were resolved while structures were assembled

generatorVars == <<resources, library, dimension, device>>
poolVars == <<pools, prewarmed, decoded>>
assemblyVars == <<undrawn, aliases, wants>>
startVars == <<generatorVars, poolVars, prewarmer, starting, toVisit, visited, sought, assemblyVars>>

StartInit ==
  /\ resources = "new" /\ pools = {} /\ prewarmed = {} /\ prewarmer = NoName
  /\ starting = [w \in Starters |-> "idle"]
  /\ dimension = [w \in Starters |-> NoName]
  /\ library = FALSE
  /\ device = [w \in Starters |-> {}]
  /\ toVisit = [w \in Starters |-> {}]
  /\ visited = [w \in Starters |-> {}]
  /\ sought = [w \in Starters |-> <<NoName, FALSE>>]
  /\ undrawn = [w \in Starters |-> <<>>]
  /\ aliases = [w \in Starters |-> <<>>]
  /\ wants = [w \in Starters |-> {}]
  /\ decoded = {}

-----------------------------------------------------------------------------
\* Pools. An element that does not resolve is left out, and so is one without a
\* weight; a list has the jigsaws of its first element, whatever the others have.
PoolsNamed(blocks) == {blocks[i].pool : i \in {j \in DOMAIN blocks : blocks[j].name = "jigsaw"}}
IsSingle(def) ==
  def.type \in {"single_pool_element", "legacy_single_pool_element"} /\ def.location \in DOMAIN Templates
Resolves(def) ==
  IsSingle(def) \/ def.type \in {"list_pool_element", "feature_pool_element", "empty_pool_element"}
FirstOf(def) ==
  LET first[n \in 0 .. MaxNesting] ==
        IF n = 0 THEN def
        ELSE IF first[n - 1].type = "list_pool_element" /\ first[n - 1].elements # <<>>
             THEN first[n - 1].elements[1] ELSE first[n - 1]
  IN  IF def.type = "list_pool_element" THEN first[MaxNesting] ELSE def
JigsawsOf(def) ==
  CASE IsSingle(FirstOf(def)) -> PoolsNamed(Templates[FirstOf(def).location])
    [] FirstOf(def).type = "feature_pool_element" -> {"empty"}
    [] OTHER -> {}

PoolJigsaws(name) ==
  UNION {JigsawsOf(e.element) : e \in {e \in ToSet(TemplatePools[name].elements) : e.weight > 0 /\ Resolves(e.element)}}
FallbackOf(name) == TemplatePools[name].fallback

\* Aliases. A random one stands for one of its targets, a group for one of its lists.
TargetsOf(def) ==
  CASE def.type = "direct" -> {def.target}
    [] def.type = "random" -> {def.targets[i].data : i \in DOMAIN def.targets}
    [] OTHER -> {}
Grouped(def) ==
  IF def.type = "random_group" THEN UNION {ToSet(def.groups[i].data) : i \in DOMAIN def.groups} ELSE {}
\* The walk goes through what is listed, and what is in groups it comes across.
DefsWithin(defs) ==
  LET Walked(S) == ToSet(defs) \subseteq S /\ \A def \in S : Grouped(def) \subseteq S
  IN  {def \in AliasDefs : \A S \in SUBSET AliasDefs : Walked(S) => def \in S}
\* (TargetsUngrouped does not look into groups.)
TargetsUngrouped(defs) == {t \in UNION {TargetsOf(def) : def \in ToSet(defs)} : t # ""}
AliasTargets(defs) == {t \in UNION {TargetsOf(def) : def \in DefsWithin(defs)} : t # ""}

WeightedChoices(entries) == {entries[i].data : i \in {j \in DOMAIN entries : entries[j].weight > 0}}
Aliased(map, alias, target) ==
  IF "" \in {alias, target} THEN map
  ELSE [n \in DOMAIN map \cup {alias} |-> IF n = alias THEN target ELSE map[n]]
Lookup(map, name) == IF name \in DOMAIN map THEN map[name] ELSE name

\* All definitions are in AliasDefs, and lists are lists; the pool without pieces
\* leads nowhere, and no pool goes without a name.
ASSUME AliasesAssumption ==
  /\ \A d \in DOMAIN JigsawSets : \A c \in ToSet(JigsawSets[d]) : c.aliases \in Seq(AliasDefs)
  /\ \A def \in AliasDefs : def.type = "random_group" =>
       \A i \in DOMAIN def.groups : def.groups[i].data \in Seq(AliasDefs)
ASSUME PoolsAssumption ==
  /\ "" \notin DOMAIN TemplatePools
  /\ "empty" \in DOMAIN TemplatePools =>
       TemplatePools["empty"].elements = <<>> /\ TemplatePools["empty"].fallback = "empty"
ASSUME NobodyAssumption == NoName \notin Starters

-----------------------------------------------------------------------------
\* Construction. The first to come makes what all share, the others wait for it.
Goes(w, from, to) == starting[w] = from /\ starting' = [starting EXCEPT ![w] = to]
Unprepared == UNCHANGED <<poolVars, prewarmer, toVisit, visited, sought, assemblyVars>>

Construct(w, d) ==
  /\ Goes(w, "idle", "resources")
  /\ dimension' = [dimension EXCEPT ![w] = d]
  /\ UNCHANGED <<resources, library, device>> /\ Unprepared

MakeResources(w) ==
  /\ resources = "new" /\ Goes(w, "resources", "making") /\ resources' = "making"
  /\ UNCHANGED <<library, dimension, device>> /\ Unprepared
ShareResources(w) ==
  /\ \/ Goes(w, "making", "acceleration") /\ resources' = "made"
     \/ resources = "made" /\ Goes(w, "resources", "acceleration") /\ resources' = resources
  /\ UNCHANGED <<library, dimension, device>> /\ Unprepared

GoesIdle(w, from) == Goes(w, from, "idle") /\ dimension' = [dimension EXCEPT ![w] = NoName]

\* newAccelerationState. Only a mode that asks for the device needs one, and only
\* "opencl" insists.
Modes == {"cpu", "auto", "opencl", "unknown"}
ComesWithout(w, mode) ==
  \/ mode \in {"cpu", "auto"} /\ Goes(w, "acceleration", "source") /\ UNCHANGED dimension
  \/ mode \notin {"cpu", "auto"} /\ GoesIdle(w, "acceleration")
NoDevice(w, mode) ==
  /\ mode \in {"auto", "opencl"} => dimension[w] \notin Accelerated
  /\ ComesWithout(w, mode)
  /\ UNCHANGED <<resources, library, device>> /\ Unprepared

\* NewOpenCLAccelerator opens one thing after the other; what only checks something,
\* builds the program or sets arguments opens nothing and may fail all the same.
ProgramSteps ==
  <<"check", "context", "queue", "check", "program", "check", "density", "climate", "biome">>
TableSteps ==
  <<"noiseMeta", "noiseAmplitudes", "perlinParams", "cachedH2", "permutations", "blendMeta", "blendParams",
    "check", "treeMeta", "treeSpaces", "treeBiomes", "check">>
BufferSteps ==
  <<"chunkMeta", "densityIn", "densityOut", "climateIn", "climateOut", "biomeIn", "biomeOut", "check">>
OpeningSteps == ProgramSteps \o TableSteps \o BufferSteps
ASSUME StepsAssumption == FailingSteps \subseteq 0 .. Len(OpeningSteps) - 1
OpenAfter(n) == ToSet(SubSeq(OpeningSteps, 1, n)) \ {"check"}
WholeDevice == OpenAfter(Len(OpeningSteps))

\* Close goes through the fields of the accelerator; what was never opened is null.
\* (LeftAfterCloseOfKernels forgets the tables, which are in staticMem.)
JobBuffers == {"biomeOut", "biomeIn", "climateOut", "climateIn", "densityOut", "densityIn", "chunkMeta"}
StaticMem ==
  {"noiseMeta", "noiseAmplitudes", "perlinParams", "cachedH2", "permutations", "blendMeta", "blendParams",
   "treeMeta", "treeSpaces", "treeBiomes"}
ProgramParts == {"biome", "climate", "density", "program", "queue", "context"}
LeftAfterCloseOfKernels(held) == held \ (JobBuffers \cup ProgramParts)
LeftAfterClose(held) == held \ (JobBuffers \cup StaticMem \cup ProgramParts)

\* vg_cl_load: once it is loaded the library stays, whatever path another generator
\* names. The rest concerns the one accelerator: it is all there, or given back.
LoadLibrary(loads) ==
  /\ loads => ~library
  /\ library' = (library \/ loads)
OpenDevice(w, loads) ==
  /\ dimension[w] \in Accelerated
  /\ LoadLibrary(loads) /\ library'
  /\ Goes(w, "acceleration", "source")
  /\ device' = [device EXCEPT ![w] = WholeDevice]
  /\ UNCHANGED <<resources, dimension>> /\ Unprepared
DeviceFails(w, mode, loads, n) ==
  /\ mode \in {"auto", "opencl"} /\ dimension[w] \in Accelerated
  /\ LoadLibrary(loads)
  /\ library' \/ n = 0
  /\ device' = [device EXCEPT ![w] = LeftAfterClose(OpenAfter(n))]
  /\ ComesWithout(w, mode)
  /\ UNCHANGED resources /\ Unprepared

\* A failure of what comes after it closes the device again.
CloseDevice(w) == device' = [device EXCEPT ![w] = LeftAfterClose(@)]
Reject(w) ==
  /\ dimension[w] \in Undefined
  /\ GoesIdle(w, "source")
  /\ CloseDevice(w)
  /\ UNCHANGED <<resources, library>> /\ Unprepared

\* prewarmJigsawCandidates. The queue is a set: in which order pools are visited
\* makes no difference to which are.
Worth(name) == name \notin {"", "empty"}
Roots(d) ==
  UNION {{n \in {candidate.start} : Worth(n)} \cup AliasTargets(candidate.aliases) : candidate \in ToSet(JigsawSets[d])}
Accept(w) ==
  /\ dimension[w] \notin Undefined
  /\ Goes(w, "source", IF Roots(dimension[w]) = {} THEN "ready" ELSE "locking")
  /\ toVisit' = [toVisit EXCEPT ![w] = Roots(dimension[w])]
  /\ UNCHANGED <<generatorVars, poolVars, prewarmer, visited, sought, assemblyVars>>

\* prewarmPoolGraph, under prewarmMu from here to Warmed.
LockPools(w) ==
  /\ prewarmer = NoName /\ prewarmer' = w
  /\ Goes(w, "locking", "walking")
  /\ visited' = [visited EXCEPT ![w] = prewarmed]
  /\ UNCHANGED <<generatorVars, poolVars, toVisit, sought, assemblyVars>>

Visit(w, name) ==
  /\ Worth(name) /\ name \notin visited[w]
  /\ Goes(w, "walking", "asking")
  /\ toVisit' = [toVisit EXCEPT ![w] = @ \ {name}]
  /\ visited' = [visited EXCEPT ![w] = @ \cup {name}]
  /\ sought' = [sought EXCEPT ![w] = <<name, FALSE>>]
  /\ UNCHANGED <<generatorVars, poolVars, prewarmer, assemblyVars>>
PassBy(w, name) ==
  /\ ~ Worth(name) \/ name \in visited[w]
  /\ Goes(w, "walking", "walking")
  /\ toVisit' = [toVisit EXCEPT ![w] = @ \ {name}]
  /\ UNCHANGED <<generatorVars, poolVars, prewarmer, visited, sought, assemblyVars>>

\* What a resolved pool leads to: its fallback and what its jigsaws name.
\* (LedToByJigsaws forgets the fallback.)
LedToByJigsaws(name) == {n \in PoolJigsaws(name) : Worth(n)}
LedTo(name) == {n \in {FallbackOf(name)} \cup PoolJigsaws(name) : Worth(n)}

Warmed(w) ==
  /\ toVisit[w] = {}
  /\ Goes(w, "walking", "ready")
  /\ prewarmed' = prewarmed \cup visited[w]
  /\ prewarmer' = NoName
  /\ visited' = [visited EXCEPT ![w] = {}]
  /\ UNCHANGED <<generatorVars, pools, decoded, toVisit, sought, assemblyVars>>

-----------------------------------------------------------------------------
\* Pool. It looks under the read lock, and again takes the lock to store what it has
\* decoded: two goroutines may decode the same pool.
Prewarming(w) == prewarmer = w
Answered(w, name) ==
  /\ sought' = [sought EXCEPT ![w] = <<NoName, FALSE>>]
  /\ starting' = [starting EXCEPT ![w] = IF Prewarming(w) THEN "walking" ELSE "assembling"]
  /\ toVisit' = IF Prewarming(w) THEN [toVisit EXCEPT ![w] = @ \cup LedTo(name)] ELSE toVisit
  /\ wants' = IF Prewarming(w) THEN wants
              ELSE [wants EXCEPT ![w] = {<<n, FALSE>> : n \in PoolJigsaws(name)}
                      \cup IF sought[w][2] \/ FallbackOf(name) = "" THEN {} ELSE {<<FallbackOf(name), TRUE>>}]
  /\ UNCHANGED <<generatorVars, prewarmed, prewarmer, visited, undrawn, aliases>>
PoolKnown(w) ==
  /\ starting[w] = "asking" /\ sought[w][1] \in pools
  /\ Answered(w, sought[w][1])
  /\ UNCHANGED <<pools, decoded>>
PoolUnknown(w) ==
  /\ sought[w][1] \notin pools
  /\ Goes(w, "asking", "decoding")
  /\ UNCHANGED <<generatorVars, poolVars, prewarmer, toVisit, visited, sought, assemblyVars>>
DecodePool(w) ==
  /\ starting[w] = "decoding" /\ sought[w][1] \in DOMAIN TemplatePools
  /\ pools' = pools \cup {sought[w][1]}
  /\ decoded' = IF Prewarming(w) THEN decoded ELSE decoded \cup {sought[w][1]}
  /\ Answered(w, sought[w][1])
NoSuchPool(w) ==
  /\ sought[w][1] \notin DOMAIN TemplatePools
  /\ Goes(w, "decoding", IF Prewarming(w) THEN "walking" ELSE "assembling")
  /\ sought' = [sought EXCEPT ![w] = <<NoName, FALSE>>]
  /\ UNCHANGED <<generatorVars, poolVars, prewarmer, toVisit, visited, assemblyVars>>

-----------------------------------------------------------------------------
\* A structure is assembled: its root is a single template of the start pool. The
\* aliases are drawn first, one definition after the other.
RootJigsaws(start) ==
  UNION {PoolsNamed(Templates[e.element.location]) :
           e \in {e \in ToSet(TemplatePools[start].elements) : e.weight > 0 /\ IsSingle(e.element)}}
Assemble(w, candidate) ==
  /\ candidate.start \in DOMAIN TemplatePools
  /\ Goes(w, "ready", "assembling")
  /\ undrawn' = [undrawn EXCEPT ![w] = candidate.aliases]
  /\ wants' = [wants EXCEPT ![w] = {<<n, FALSE>> : n \in RootJigsaws(candidate.start)}]
  /\ UNCHANGED <<generatorVars, poolVars, prewarmer, toVisit, visited, sought, aliases>>

\* applyStructurePoolAlias
Drawn(w, rest, map) ==
  /\ undrawn' = [undrawn EXCEPT ![w] = rest]
  /\ aliases' = [aliases EXCEPT ![w] = map]
DrawAlias(w) ==
  /\ starting[w] = "assembling" /\ undrawn[w] # <<>>
  /\ LET def == Head(undrawn[w])
         rest == Tail(undrawn[w])
     IN  \/ def.type = "direct" /\ Drawn(w, rest, Aliased(aliases[w], def.alias, def.target))
         \/ def.type = "random" /\ \E target \in WeightedChoices(def.targets) :
              Drawn(w, rest, Aliased(aliases[w], def.alias, target))
         \/ def.type = "random_group" /\ \E group \in WeightedChoices(def.groups) :
              Drawn(w, group \o rest, aliases[w])
         \/ /\ def.type = "random" => WeightedChoices(def.targets) = {}
            /\ def.type = "random_group" => WeightedChoices(def.groups) = {}
            /\ def.type # "direct"
            /\ Drawn(w, rest, aliases[w])
  /\ UNCHANGED <<generatorVars, poolVars, prewarmer, starting, toVisit, visited, sought, wants>>

AskFor(w, want) ==
  /\ undrawn[w] = <<>>
  /\ Goes(w, "assembling", "asking")
  /\ sought' = [sought EXCEPT ![w] = <<Lookup(aliases[w], want[1]), want[2]>>]
  /\ UNCHANGED <<generatorVars, poolVars, prewarmer, toVisit, visited, assemblyVars>>
Assembled(w) ==
  /\ undrawn[w] = <<>>
  /\ Goes(w, "assembling", "ready")
  /\ aliases' = [aliases EXCEPT ![w] = <<>>]
  /\ wants' = [wants EXCEPT ![w] = {}]
  /\ UNCHANGED <<generatorVars, poolVars, prewarmer, toVisit, visited, sought, undrawn>>

\* Generator.Close; the goroutine may construct another one.
CloseGenerator(w) ==
  /\ GoesIdle(w, "ready")
  /\ CloseDevice(w)
  /\ UNCHANGED <<resources, library>> /\ Unprepared

StartNext ==
  \E w \in Starters :
    \/ \E d \in DOMAIN JigsawSets : Construct(w, d)
    \/ MakeResources(w) \/ ShareResources(w)
    \/ \E mode \in Modes : NoDevice(w, mode)
    \/ \E loads \in BOOLEAN :
         \/ OpenDevice(w, loads)
         \/ \E mode \in Modes, n \in FailingSteps : DeviceFails(w, mode, loads, n)
    \/ Reject(w) \/ Accept(w)
    \/ LockPools(w) \/ \E name \in toVisit[w] : Visit(w, name) \/ PassBy(w, name)
    \/ Warmed(w)
    \/ PoolKnown(w) \/ PoolUnknown(w) \/ DecodePool(w) \/ NoSuchPool(w)
    \/ starting[w] = "ready" /\ \E candidate \in ToSet(JigsawSets[dimension[w]]) : Assemble(w, candidate)
    \/ DrawAlias(w) \/ \E want \in wants[w] : AskFor(w, want)
    \/ Assembled(w) \/ CloseGenerator(w)

StartSpec == StartInit /\ [][StartNext]_startVars

-----------------------------------------------------------------------------
(***************************************************************************)
(* Whoever constructs when, and whatever the dice call a pool: "chunk      *)
(* generation doesn't pay first-use decode costs" (generator.go:123). No   *)
(* pool is decoded while a structure is assembled, but for the empty one;  *)
(* and wherever a constructor fails, while it opens a device or after, it  *)
(* leaves nothing of the device behind; a generator has all of it or none. *)
(***************************************************************************)
ReadyToGenerate ==
  /\ decoded \subseteq {"empty"}
  /\ \A w \in Starters :
       /\ device[w] \in {{}, WholeDevice}
       /\ starting[w] = "idle" => device[w] = {}
=============================================================================
