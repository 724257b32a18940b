-------------------------- MODULE StructureStarts ---------------------------
(***************************************************************************)
(* Where structures are (structures.go, structure_placement.go). The sets  *)
(* of structures of the registry become planners with the structures that  *)
(* the dimension can build. While a chunk is decorated, every planner is   *)
(* asked for the starts whose structures may reach into it. A set with     *)
(* random spread has at most one start in each cell of its grid, at a      *)
(* random place in it; a set in rings has its starts in a list.            *)
(* planStructureStart decides whether there is one and which, and caches   *)
(* the answer for all goroutines.                                          *)
(*                                                                         *)
(* The model has one horizontal axis: the code treats x and z alike and    *)
(* apart. Positions are chunks. What the seed and the terrain decide is in *)
(* world, which no action changes; shapes are left out but for their       *)
(* extent.                                                                 *)
(***************************************************************************)
EXTENDS Integers, Sequences, FiniteSets, FiniteSetsExt, SequencesExt, TLC

CONSTANTS
  Workers,        \* goroutines that decorate chunks
  Chunks,         \* the chunks they decorate
  Positions,      \* chunks starts can be in
  StructureSets,  \* of the registry, in order, with their entries
  Dimension,      \* "overworld", "nether" or "end"
  GenerationSteps,
  Estimate,       \* estimateDirectStructureBackreach
  Bootstrap,      \* javaStructureBootstrapOrder
  Sorted,         \* the names of structures, sorted
  Extent,         \* chunks a structure without templates covers from its start
  RingRadius,     \* radiusChunks, in the code 7
  MaxExtra,       \* bound of the distance that is asked for
  Worlds,         \* what seed and terrain may decide
  None            \* no structure

-----------------------------------------------------------------------------
\* structureSupportedInDimension.
Supported(entry) ==
  CASE Dimension = "nether" ->
         entry.structure \in {"bastion_remnant", "fortress", "nether_fossil", "ruined_portal_nether"}
    [] Dimension = "end" -> entry.structure = "end_city"
    [] OTHER -> /\ entry.kind \notin {"end_city", "nether_fossil"}
                /\ entry.structure \notin {"bastion_remnant", "ruined_portal_nether"}

\* buildStartTemplates: the single elements of the start pool that have a weight.
StartTemplates(entry) == SelectSeq(entry.pool, LAMBDA t : t.single /\ t.weight > 0)
TemplateBackreach(size) == IF size <= 1 THEN 0 ELSE (size - 1) \div 16

\* buildStructurePlanners.
Usable(entry) ==
  /\ entry.weight > 0
  /\ Supported(entry)
  /\ entry.kind = "jigsaw" => StartTemplates(entry) # <<>>
  /\ entry.step \in ToSet(GenerationSteps)
BackreachOf(entry) ==
  IF entry.kind # "jigsaw" THEN Estimate[entry.structure]
  ELSE Max({TemplateBackreach(t.size) : t \in ToSet(StartTemplates(entry))}
           \cup {TemplateBackreach(2 * entry.reach + 1)})
Planner(set) ==
  LET usable == SelectSeq(set.entries, Usable)
  IN  [set EXCEPT !.entries = usable] @@ [backreach |-> Max({0} \cup {BackreachOf(e) : e \in ToSet(usable)})]
Planners ==
  LET kept == SelectSeq(StructureSets, LAMBDA set :
        set.type \in {"random_spread", "concentric_rings"} /\ SelectSeq(set.entries, Usable) # <<>>)
  IN  [i \in DOMAIN kept |-> Planner(kept[i])]

Sets == DOMAIN Planners
Rings(i) == Planners[i].type = "concentric_rings"
Candidates(i) == {e.structure : e \in ToSet(Planners[i].entries)}
\* generationStepForStructure.
GenerationStepOf(i, n) == (CHOOSE e \in ToSet(Planners[i].entries) : e.structure = n).step
\* findStructurePlanner, 0 if there is none.
Found(name) == Max({0} \cup {i \in Sets : Planners[i].name = name})

ASSUME PlannersAssumption == \A i \in Sets :
  /\ Planners[i].spacing \in Nat \ {0} /\ Planners[i].separation \in Nat
  /\ Planners[i].count \in Nat
  /\ \A e \in ToSet(Planners[i].entries) :
       e.kind = "jigsaw" \/ Extent[e.structure] \subseteq -Estimate[e.structure] .. Estimate[e.structure]

VARIABLES
  world,        \* random places and picks, frequencies, ring positions, biomes
  starts,       \* structureStartCache.byKey, empty where nothing is stored
  pc,           \* "idle", "look", "store", "placed" or "answered"
  chunk,        \* the chunk a goroutine decorates
  todo,         \* starts it has yet to look at, with the structure it places
  placed,       \* starts it has placed in its chunk, in order
  answer        \* what it has answered to who asked for a structure

vars == <<world, starts, pc, chunk, todo, placed, answer>>

-----------------------------------------------------------------------------
\* Go's division rounds towards zero.
Quotient(v, d) == IF v >= 0 THEN v \div d ELSE -((-v) \div d)

FloorDiv(v, d) ==
  IF v % d # 0 /\ v < 0 THEN Quotient(v, d) - 1 ELSE Quotient(v, d)

CeilDiv(v, d) == -FloorDiv(-v, d)
Abs(n) == IF n < 0 THEN -n ELSE n

Limit(i) == Planners[i].spacing - Planners[i].separation

\* randomSpreadMinGrid; without the offset a cell that begins before the window
\* is missed, though its start may be inside.
MinGridNoOffset(i, first) == CeilDiv(first, Planners[i].spacing)
MinGrid(i, first) ==
  LET maxOffset == IF Limit(i) < 1 THEN 0 ELSE Limit(i) - 1
  IN  CeilDiv(first - maxOffset, Planners[i].spacing)

\* randomSpreadPotentialChunk.
PotentialChunk(i, cell) ==
  cell * Planners[i].spacing + (IF Limit(i) <= 0 THEN 0 ELSE world.spread[Planners[i].name][cell])

\* findPreferredRingChunk: the nearest chunk of a preferred biome, if any is near.
Preferred(i, s) ==
  LET near == {t \in s - RingRadius .. s + RingRadius : world.below[t] \in Planners[i].preferred}
  IN  IF near = {} THEN s
      ELSE Min({t \in near : \A u \in near : Abs(t - s) <= Abs(u - s)})
RingPositions(i) == [n \in DOMAIN world.rings |-> Preferred(i, world.rings[n])]

\* plannerPotentialStartChunksNearChunk.
NearChunk(i, c, extra) ==
  LET first == c - Planners[i].backreach - extra
      last == c + Planners[i].backreach + extra
      cells == MinGrid(i, first) .. FloorDiv(last, Planners[i].spacing)
  IN  IF Rings(i) THEN SelectSeq(RingPositions(i), LAMBDA s : s \in first .. last)
      ELSE SelectSeq([n \in 1 .. Cardinality(cells) |-> PotentialChunk(i, MinGrid(i, first) + n - 1)],
                     LAMBDA s : s \in first .. last)

\* plannerPotentialStartChunksWithinGridDistance.
WithinGridDistance(i, distance) ==
  IF Rings(i) THEN SelectSeq(RingPositions(i), LAMBDA s : Abs(s) <= distance + Planners[i].backreach)
  ELSE [n \in 1 .. 2 * distance + 1 |-> PotentialChunk(i, n - 1 - distance)]

\* isPlacementStructureChunk and structurePlacementExcludedByOtherSet, which
\* call each other along the zones.
ExcludedByOtherSet[i \in Sets, s \in Positions] ==
  LET j == Found(Planners[i].zone) IN
  j \notin {0, i} /\ ~ Rings(j) /\ \E t \in (s - Planners[i].count .. s + Planners[i].count) :
    /\ PotentialChunk(j, FloorDiv(t, Planners[j].spacing)) = t
    /\ world.allows[Planners[j].name][t]
    /\ ~ ExcludedByOtherSet[j, t]

\* chooseStructureForPlanner, chooseStartTemplate: a pick goes to the option in
\* whose weight it falls, None if there is no option.
WeightOf(options) == FoldLeft(LAMBDA sum, o : sum + o.weight, 0, options)
Weighted(options, pick) ==
  FoldLeft(LAMBDA found, o :
             IF found.option # None THEN found
             ELSE IF found.left < o.weight THEN [found EXCEPT !.option = o]
             ELSE [found EXCEPT !.left = @ - o.weight],
           [left |-> IF options = <<>> THEN 0 ELSE pick % WeightOf(options), option |-> None], options).option

\* planMineshaftSetStart: a shaft whose biome is wrong leaves its place to another.
RECURSIVE FirstShaft(_, _)
FirstShaft(options, s) ==
  LET option == Weighted(options, world.pick[s])
  IN  IF option = None THEN None
      ELSE IF world.below[s] \in option.biomes THEN option
      ELSE FirstShaft(SelectSeq(options, LAMBDA o : o # option), s)

\* planStructureStart after a miss. Neither the surroundings of a monument nor
\* what gets built of a structure may be such that there is none
\* (structurePlanningAllowedAt, buildPlannedDirectStructure).
StartOf(option, s) ==
  IF option.kind = "jigsaw"
  THEN LET template == Weighted(StartTemplates(option), world.pick[s])
       IN  [structure |-> option.structure, size |-> template.size,
            covers |-> LET middle == 16 * s + template.size \div 2
                       IN  FloorDiv(Min({16 * s, middle - option.reach}), 16) ..
                           FloorDiv(Max({16 * s + template.size - 1, middle + option.reach}), 16)]
  ELSE [structure |-> option.structure, size |-> 16 * Cardinality(Extent[option.structure]),
        covers |-> {s + e : e \in Extent[option.structure]}]
Choice(i, s) ==
  IF \A e \in ToSet(Planners[i].entries) : e.kind = "mineshaft" THEN FirstShaft(Planners[i].entries, s)
  ELSE Weighted(SelectSeq(Planners[i].entries, LAMBDA e : world.biome[s] \in e.biomes), world.pick[s])
Planned(i, s) ==
  LET option == Choice(i, s)
  IN  IF \/ ~ Rings(i) /\ (~ world.allows[Planners[i].name][s] \/ ExcludedByOtherSet[i, s])
         \/ option = None \/ s = world.barren
      THEN None ELSE StartOf(option, s)

\* buildStructureStepOrder: each structure once, with the first set that has
\* it, in the list of its step; appended for every set, a structure of two sets
\* has two entries.
FirstSet(n) == Min({i \in Sets : n \in Candidates(i)})
Known(step) ==
  SelectSeq(Bootstrap, LAMBDA n : (\E i \in Sets : n \in Candidates(i)) /\ GenerationStepOf(FirstSet(n), n) = step)
Unknown(i, step) ==
  SelectSeq(Sorted, LAMBDA n : n \in Candidates(i) \ ToSet(Bootstrap) /\ GenerationStepOf(i, n) = step)
StepOrder(step) ==
  [e \in DOMAIN Known(step) |-> <<FirstSet(Known(step)[e]), Known(step)[e]>>]
  \o FlattenSeq([i \in Sets |-> [e \in DOMAIN Unknown(i, step) |-> <<i, Unknown(i, step)[e]>>]])
AllSteps == FlattenSeq([n \in DOMAIN GenerationSteps |-> StepOrder(GenerationSteps[n])])

\* placeStructuresForStep, for one step after the other: all starts near the
\* chunk, entry by entry.
StartsToLookAt(c) ==
  FlattenSeq([e \in DOMAIN AllSteps |->
    LET near == NearChunk(AllSteps[e][1], c, 0)
    IN  [n \in DOMAIN near |->
           [set |-> AllSteps[e][1], structure |-> AllSteps[e][2], at |-> near[n]]]])

\* locateNearestPlannedStructureStart, with a generator of its own: the start
\* whose root is nearest to the block asked for, or of a ring whose chunk is.
Nearer(i, c, s, t) ==
  IF Rings(i) THEN Abs(s - c) < Abs(t - c)
  ELSE Abs(32 * s + Planned(i, s).size - 32 * c) < Abs(32 * t + Planned(i, t).size - 32 * c)
FirstOf(i, candidates) ==
  LET existing == SelectSeq(candidates, LAMBDA s : Planned(i, s) # None)
  IN  IF existing = <<>> THEN None ELSE existing[1]
Located(i, c, extra) ==
  FoldLeft(LAMBDA best, s : IF Planned(i, s) = None THEN best
                            ELSE IF best = None THEN s
                            ELSE IF Nearer(i, c, s, best) THEN s ELSE best,
           None, NearChunk(i, c, extra))

-----------------------------------------------------------------------------
\* The type invariant; only starts of the set's own structures are planned.
TypeOK ==
  /\ world \in Worlds
  /\ \A i \in Sets, s \in Positions :
       starts[i][s] \in {<<>>, <<None>>} \/ starts[i][s][1].structure \in Candidates(i)
  /\ pc \in [Workers -> {"idle", "look", "store", "placed", "answered"}]
  /\ chunk \in [Workers -> Chunks]
  /\ \A w \in Workers : \A n \in DOMAIN todo[w] : todo[w][n].at \in Positions
  /\ \A w \in Workers : ToSet(placed[w]) \subseteq Sets \X Positions

Init ==
  /\ world \in Worlds
  /\ starts = [i \in Sets |-> [s \in Positions |-> <<>>]]
  /\ pc = [w \in Workers |-> "idle"]
  /\ chunk \in [Workers -> {CHOOSE c \in Chunks : TRUE}]
  /\ todo = [w \in Workers |-> <<>>]
  /\ placed = [w \in Workers |-> <<>>]
  /\ answer = [w \in Workers |-> None]

Decorate(w, c) ==
  /\ pc[w] = "idle"
  /\ chunk' = [chunk EXCEPT ![w] = c]
  /\ todo' = [todo EXCEPT ![w] = StartsToLookAt(c)]
  /\ pc' = [pc EXCEPT ![w] = "look"]
  /\ UNCHANGED <<world, starts, placed, answer>>

\* structureIntersectsChunk.
Intersects(start, c) == c \in start.covers

\* What placePlannerStructureForStepEntry does with the start it has got.
Place(w, start) ==
  LET t == Head(todo[w]) IN
  /\ placed' = IF start # None /\ Intersects(start, chunk[w]) /\ start.structure = t.structure
               THEN [placed EXCEPT ![w] = Append(@, <<t.set, t.at>>)] ELSE placed
  /\ todo' = [todo EXCEPT ![w] = Tail(@)]
  /\ pc' = [pc EXCEPT ![w] = "look"]

Lookup(w) ==
  /\ pc[w] = "look"
  /\ todo[w] # <<>>
  /\ LET known == starts[Head(todo[w]).set][Head(todo[w]).at] IN
     \/ /\ known # <<>>
        /\ Place(w, known[1])
     \/ /\ known = <<>>
        /\ pc' = [pc EXCEPT ![w] = "store"]
        /\ UNCHANGED <<todo, placed>>
  /\ UNCHANGED <<world, starts, chunk, answer>>

\* Planning reads nothing that changes; another goroutine may have stored the
\* start meanwhile. Sets share positions, so the key must name the set.
Store(w) ==
  /\ pc[w] = "store"
  /\ LET i == Head(todo[w]).set
         s == Head(todo[w]).at IN
       /\ starts' = [starts EXCEPT ![i][s] = <<Planned(i, s)>>]
       /\ Place(w, Planned(i, s))
  /\ UNCHANGED <<world, chunk, answer>>

Finish(w) ==
  /\ pc[w] = "look"
  /\ todo[w] = <<>>
  /\ pc' = [pc EXCEPT ![w] = "placed"]
  /\ UNCHANGED <<world, starts, chunk, todo, placed, answer>>

\* LocateNearestPlannedStructureStartForDimension and
\* FindPlannedStructureStartForDimension.
Answer(w, question, found) ==
  /\ pc[w] = "idle"
  /\ answer' = [answer EXCEPT ![w] = [found |-> found] @@ question]
  /\ pc' = [pc EXCEPT ![w] = "answered"]
  /\ UNCHANGED <<world, starts, chunk, todo, placed>>
Locate(w, i, c, extra) ==
  Answer(w, [kind |-> "locate", set |-> i, at |-> c, distance |-> extra], Located(i, c, extra))
Find(w, i, distance) ==
  Answer(w, [kind |-> "find", set |-> i, distance |-> distance], FirstOf(i, WithinGridDistance(i, distance)))

Return(w) ==
  /\ pc[w] \in {"placed", "answered"}
  /\ pc' = [pc EXCEPT ![w] = "idle"]
  /\ placed' = [placed EXCEPT ![w] = <<>>]
  /\ answer' = [answer EXCEPT ![w] = None]
  /\ UNCHANGED <<world, starts, chunk, todo>>

Decorating ==
  \E w \in Workers :
    \/ \E c \in Chunks : Decorate(w, c)
    \/ Lookup(w)
    \/ Store(w)
    \/ Finish(w)
    \/ Return(w)
\* Who asks brings a generator of their own, so the two do not meet.
Asking ==
  \E w \in Workers :
    \/ \E i \in Sets, c \in Chunks, extra \in 0 .. MaxExtra : Locate(w, i, c, extra)
    \/ \E i \in Sets, distance \in 0 .. MaxExtra : Find(w, i, distance)
    \/ Return(w)
Next == Decorating \/ Asking

Spec == Init /\ [][Next]_vars

-----------------------------------------------------------------------------
(***************************************************************************)
(* What the placement rules say, without grid windows, divisions or cache: *)
(* the starts of set i are the allowed places of its cells, far enough     *)
(* from every placement of the set in its exclusion zone.                  *)
(***************************************************************************)
Placements[i \in Sets] ==
  LET candidates == IF Rings(i) THEN ToSet(RingPositions(i))
        ELSE {s \in {PotentialChunk(i, cell) : cell \in DOMAIN world.spread[Planners[i].name]} \cap Positions :
                world.allows[Planners[i].name][s]}
      j == Found(Planners[i].zone)
  IN  IF j = 0 THEN candidates
      ELSE {s \in candidates : \A t \in Placements[j] :
              t - s \notin -Planners[i].count .. Planners[i].count}
\* The structure whose weight the pick falls into, if the biome allows it.
Rightful(i, s) ==
  LET options == SelectSeq(Planners[i].entries, LAMBDA e : world.biome[s] \in e.biomes)
  IN  options[Max({n \in DOMAIN options :
                     WeightOf(SubSeq(options, 1, n - 1)) <= world.pick[s] % WeightOf(options)})]
Stands(i, s) == s \in Placements[i] /\ Choice(i, s) # None /\ s # world.barren

(***************************************************************************)
(* A chunk gets its part of every structure that reaches into it, once, and *)
(* of no other, as far as a start's templates and pieces may reach: a      *)
(* structure on the border of two chunks is never cut off. It is the       *)
(* structure its weight and biome call for. Who asks for the nearest start *)
(* is shown one that the chunks have, and none is missed as far as was     *)
(* asked (structure_placement.go:151, structures.go:529, :1106).           *)
(***************************************************************************)
StructuresWhole ==
  \A w \in Workers :
    /\ pc[w] = "placed" =>
         /\ ToSet(placed[w]) =
              {<<i, s>> \in Sets \X Positions :
                 Stands(i, s) /\ Intersects(StartOf(Choice(i, s), s), chunk[w])}
         /\ Len(placed[w]) = Cardinality(ToSet(placed[w]))
         /\ \A p \in ToSet(placed[w]) :
              \/ Choice(p[1], p[2]).kind = "mineshaft"
              \/ Choice(p[1], p[2]) = Rightful(p[1], p[2])
    /\ pc[w] = "answered" =>
         LET i == answer[w].set
             asked == IF answer[w].kind = "locate"
               THEN {s \in Positions : Abs(s - answer[w].at) <= answer[w].distance + Planners[i].backreach}
               ELSE IF Rings(i) THEN {s \in Positions : Abs(s) <= answer[w].distance + Planners[i].backreach}
               ELSE {s \in Positions : FloorDiv(s, Planners[i].spacing) \in -answer[w].distance .. answer[w].distance}
             standing == {s \in asked : Stands(i, s)}
         IN  IF standing = {} THEN answer[w].found = None
             ELSE /\ answer[w].found \in standing
                  /\ answer[w].kind = "locate" =>
                       \A s \in standing : ~ Nearer(i, answer[w].at, s, answer[w].found)
=============================================================================
