-------------------------- MODULE DecorationReplay --------------------------
(***************************************************************************)
(* GenerateChunk from beginning to end (generator.go, features.go,         *)
(* tree_region.go): a call prepares the terrain of its own chunk, and      *)
(* decorates it by replaying the decoration of every source chunk of the   *)
(* region around it in a fixed order. The first feature that needs the     *)
(* region starts one goroutine for each neighbour, to load its terrain     *)
(* into a slot, and waits for all of them (preloadSlots); the replay       *)
(* itself is sequential. All calls share the proto-chunk cache.            *)
(*                                                                         *)
(* The cache is the one of ProtoChunkCache, seen from here: a coordinate   *)
(* is stored, or being built by one loader, or neither. What is in a chunk *)
(* is the sequence of writes into it, <<>> being pristine terrain; a write *)
(* records the source, the feature and what it has read of the region.     *)
(* Biome sets are constant functions here (Items); MemoCaches is about     *)
(* how they are computed.                                                  *)
(***************************************************************************)
EXTENDS Naturals, Sequences, FiniteSets, SequencesExt

CONSTANTS
  Callers,      \* concurrent GenerateChunk calls
  Chunks,       \* chunk coordinates
  Centers,      \* the coordinates GenerateChunk is called for
  Sources(_),   \* the region of a chunk, itself included, in row-major order
  Items(_),     \* what a source chunk's decoration runs, in order of its steps
  Regional,     \* features that need the region
  Ores,         \* those of them that are ores
  None,         \* no loader, no memo
  Cap           \* protoChunkCache.cap

ASSUME CapAssumption == Cap \in Nat \ {0}
ASSUME RegionAssumption ==
  /\ Centers \subseteq Chunks
  /\ \A c \in Chunks : Sources(c) \in Seq(Chunks)
  /\ \A c \in Centers : c \in ToSet(Sources(c))
ASSUME ItemsAssumption == \A s \in Chunks : Items(s) \in Seq(ToSet(Items(s)))
ASSUME OresAssumption == Ores \subseteq Regional

VARIABLES
  order,        \* protoChunkCache.order: the coordinates stored
  builder,      \* protoChunkCache.inFlight: the call whose goroutine builds it
  pc,           \* where a call is
  center,       \* the coordinate it generates
  load,         \* load[g][k]: the goroutine of g that loads k into its slot,
                \* "off" without one, "ready" when the slot is filled
  slot,         \* slot[g][k]: the writes into the chunk in it
  probe,        \* probe[g][k]: oreProbeFloor of the columns of k, if marked
  next          \* the item of the replay it runs next

vars == <<order, builder, pc, center, load, slot, probe, next>>

Stages == {"off", "look", "wait", "build", "ready"}
PCs == {"idle", "prepare", "decorate", "preload", "done"}

\* The replay of a chunk, as one sequence of <<source, item>>: for each source
\* in row-major order its structures and features in the order of the steps.
Plan == [c \in Centers |->
  FlattenSeq([i \in DOMAIN Sources(c) |->
    [j \in DOMAIN Items(Sources(c)[i]) |-> <<Sources(c)[i], Items(Sources(c)[i])[j]>>]])]

\* Chunks of the region of c a regional feature of source s can write to.
Reach(c, s) == ToSet(Sources(s)) \cap ToSet(Sources(c))

\* The type invariant; the cache never holds more than cap coordinates.
TypeOK ==
  /\ order \in Seq(Chunks)
  /\ Len(order) <= Cap
  /\ builder \in [Chunks -> Callers \cup {None}]
  /\ pc \in [Callers -> PCs]
  /\ center \in [Callers -> Centers]
  /\ load \in [Callers -> [Chunks -> Stages]]
  /\ DOMAIN slot = Callers /\ DOMAIN probe = Callers
  /\ \A g \in Callers : DOMAIN slot[g] = Chunks /\ DOMAIN probe[g] = Chunks
  /\ next \in [Callers -> Nat]
  /\ \A g \in Callers : next[g] \in 0 .. Len(Plan[center[g]]) + 1

Init ==
  /\ order = <<>>
  /\ builder = [k \in Chunks |-> None]
  /\ pc = [g \in Callers |-> "idle"]
  /\ center \in [Callers -> Centers]
  /\ load = [g \in Callers |-> [k \in Chunks |-> "off"]]
  /\ slot = [g \in Callers |-> [k \in Chunks |-> <<>>]]
  /\ probe = [g \in Callers |-> [k \in Chunks |-> None]]
  /\ next = [g \in Callers |-> 0]

Goto(g, label) == pc' = [pc EXCEPT ![g] = label]

GenerateChunk(g, c) ==
  /\ pc[g] = "idle"
  /\ center' = [center EXCEPT ![g] = c]
  /\ load' = [load EXCEPT ![g][c] = "look"]
  /\ next' = [next EXCEPT ![g] = 1]
  /\ Goto(g, "prepare")
  /\ UNCHANGED <<order, builder, slot, probe>>

-----------------------------------------------------------------------------
(***************************************************************************)
(* prepareChunkForDecoration and ensureSlot, the same for the chunk of the *)
(* call and for its neighbours: copy what is stored, wait for who builds   *)
(* it, or build it.                                                        *)
(***************************************************************************)
Ready(g, k) == load' = [load EXCEPT ![g][k] = "ready"]

Hit(g, k) ==
  /\ load[g][k] = "look"
  /\ k \in ToSet(order)
  /\ slot' = [slot EXCEPT ![g][k] = <<>>]
  /\ Ready(g, k)
  /\ UNCHANGED <<order, builder, pc, center, probe, next>>

Join(g, k) ==
  /\ load[g][k] = "look"
  /\ k \notin ToSet(order)
  /\ builder[k] # None
  /\ load' = [load EXCEPT ![g][k] = "wait"]
  /\ UNCHANGED <<order, builder, pc, center, slot, probe, next>>

Own(g, k) ==
  /\ load[g][k] = "look"
  /\ k \notin ToSet(order)
  /\ builder[k] = None
  /\ builder' = [builder EXCEPT ![k] = g]
  /\ load' = [load EXCEPT ![g][k] = "build"]
  /\ UNCHANGED <<order, pc, center, slot, probe, next>>

Overflow(s) == IF Len(s) > Cap THEN Len(s) - Cap ELSE 0

\* Who builds the chunk once its flight is closed.
FlightLeftInMap(g) == g
BuilderAfterComplete(g) == None

\* complete: store, evict, close the flight. Who waits on it gets the entry
\* from the flight, evicted or not. A call decorates only after this, so it
\* holds no flight while it waits for its neighbours.
Complete(g, k) ==
  /\ load[g][k] = "build"
  /\ LET queue == IF k \in ToSet(order) THEN order ELSE Append(order, k)
     IN order' = SubSeq(queue, Overflow(queue) + 1, Len(queue))
  /\ builder' = [builder EXCEPT ![k] = BuilderAfterComplete(g)]
  /\ LET served == {h \in Callers : h = g \/ load[h][k] = "wait"} IN
       /\ slot' = [h \in Callers |-> IF h \in served THEN [slot[h] EXCEPT ![k] = <<>>]
                                                     ELSE slot[h]]
       /\ load' = [h \in Callers |-> IF h \in served THEN [load[h] EXCEPT ![k] = "ready"]
                                                     ELSE load[h]]
  /\ UNCHANGED <<pc, center, probe, next>>

\* prepareChunkForDecoration has returned.
Prepared(g) ==
  /\ pc[g] = "prepare"
  /\ load[g][center[g]] = "ready"
  /\ Goto(g, "decorate")
  /\ UNCHANGED <<order, builder, center, load, slot, probe, next>>

-----------------------------------------------------------------------------
(***************************************************************************)
(* What one item of the replay does to a region r, the slots and the memo  *)
(* of the ore probes. The height of a chunk's columns is the number of     *)
(* writes into it that were not ores.                                      *)
(***************************************************************************)
Floor(writes) == Cardinality({i \in DOMAIN writes : writes[i].item \notin Ores})

Writes(r, chunks, s, item, read) ==
  [k \in DOMAIN r.slot |->
     IF k \in chunks THEN Append(r.slot[k], [from |-> s, item |-> item, read |-> read])
                     ELSE r.slot[k]]

\* probeFloor: the memo of a column if it is marked, else the column itself.
Probed(r, k) == IF r.probe[k] # None THEN r.probe[k] ELSE Floor(r.slot[k])

\* runPlacedFeature and placeStructuresForStep, in the chunk of the call only.
LocalItem(r, c, item) ==
  [r EXCEPT !.slot = Writes(r, {c}, c, item, [k \in {c} |-> Len(r.slot[c])])]

\* executeOre: probe the columns in reach, remember them, replace stone.
OreItem(r, c, s, item) ==
  LET chunks == Reach(c, s) \cap r.filled
      floors == [k \in chunks |-> Probed(r, k)]
  IN [r EXCEPT !.slot = Writes(r, chunks, s, item, floors),
               !.probe = [k \in DOMAIN @ |-> IF k \in chunks THEN floors[k] ELSE @[k]]]

\* Any other regional feature, from what it finds in its source chunk.
FeatureItem(r, c, s, item) ==
  [r EXCEPT !.slot = Writes(r, Reach(c, s) \cap r.filled, s, item,
                            [k \in {s} |-> Len(r.slot[s])])]

\* One step of decorateFeaturesAndStructures.
Replayed(r, c, step) ==
  LET s == step[1]
      item == step[2]
  IN IF item \in Ores THEN OreItem(r, c, s, item)
     ELSE IF item \in Regional THEN FeatureItem(r, c, s, item)
     ELSE IF s = c THEN LocalItem(r, c, item)
     ELSE r

Current(g) == Plan[center[g]][next[g]]
Finished(g) == next[g] > Len(Plan[center[g]])
Filled(g) == {k \in Chunks : load[g][k] = "ready"}
Neighbours(g) == ToSet(Sources(center[g])) \ {center[g]}

\* preloadSlots, before the first regional item: one goroutine for each
\* neighbour, of which ensureSlot finds no slot filled.
Preload(g) ==
  /\ pc[g] = "decorate"
  /\ ~ Finished(g)
  /\ Current(g)[2] \in Regional
  /\ \A k \in Neighbours(g) : load[g][k] = "off"
  /\ load' = [load EXCEPT ![g] =
       [k \in Chunks |-> IF k \in Neighbours(g) THEN "look" ELSE @[k]]]
  /\ Goto(g, "preload")
  /\ UNCHANGED <<order, builder, center, slot, probe, next>>

\* wg.Wait
SourceIsLoaded(g) == Current(g)[1] \in Filled(g)
MayDecorate(g) == Neighbours(g) \subseteq Filled(g)

Preloaded(g) ==
  /\ pc[g] = "preload"
  /\ MayDecorate(g)
  /\ Goto(g, "decorate")
  /\ UNCHANGED <<order, builder, center, load, slot, probe, next>>

Replay(g) ==
  /\ pc[g] = "decorate"
  /\ ~ Finished(g)
  /\ Current(g)[2] \in Regional => \A k \in Neighbours(g) : load[g][k] # "off"
  /\ LET region == [slot |-> slot[g], probe |-> probe[g], filled |-> Filled(g)]
         r == Replayed(region, center[g], Current(g))
     IN
       /\ slot' = [slot EXCEPT ![g] = r.slot]
       /\ probe' = [probe EXCEPT ![g] = r.probe]
  /\ next' = [next EXCEPT ![g] = @ + 1]
  /\ UNCHANGED <<order, builder, pc, center, load>>

Return(g) ==
  /\ pc[g] = "decorate"
  /\ Finished(g)
  /\ Goto(g, "done")
  /\ UNCHANGED <<order, builder, center, load, slot, probe, next>>

\* The region is garbage once the call has returned.
Forget(g) ==
  /\ pc[g] = "done"
  /\ load' = [load EXCEPT ![g] = [k \in Chunks |-> "off"]]
  /\ slot' = [slot EXCEPT ![g] = [k \in Chunks |-> <<>>]]
  /\ probe' = [probe EXCEPT ![g] = [k \in Chunks |-> None]]
  /\ next' = [next EXCEPT ![g] = 0]
  /\ Goto(g, "idle")
  /\ UNCHANGED <<order, builder, center>>

Loader(g, k) ==
  \/ Hit(g, k)
  \/ Join(g, k)
  \/ Own(g, k)
  \/ Complete(g, k)

Caller(g) ==
  \/ Prepared(g)
  \/ Preload(g)
  \/ Preloaded(g)
  \/ Replay(g)
  \/ Return(g)
  \/ Forget(g)

Next ==
  \E g \in Callers :
    \/ \E c \in Centers : GenerateChunk(g, c)
    \/ \E k \in Chunks : Loader(g, k)
    \/ Caller(g)

\* Go runs every runnable goroutine eventually.
Fairness ==
  \A g \in Callers : WF_vars(Caller(g)) /\ \A k \in Chunks : WF_vars(Loader(g, k))

Spec == Init /\ [][Next]_vars /\ Fairness

-----------------------------------------------------------------------------
(***************************************************************************)
(* Properties.                                                             *)
(***************************************************************************)
\* The region of c when all of it is loaded and nothing has been replayed, what
\* the first n items of the replay make of it, and what all of them do.
Fresh == [slot |-> [k \in Chunks |-> <<>>], probe |-> [k \in Chunks |-> None],
          filled |-> Chunks]
ReplayOf(c) ==
  LET r[n \in 0 .. Len(Plan[c])] ==
        IF n = 0 THEN Fresh ELSE Replayed(r[n - 1], c, Plan[c][n])
  IN  r
Decorated == [c \in Centers |-> ReplayOf(c)[Len(Plan[c])]]

\* A decorated chunk depends on its coordinate and on nothing else: whatever
\* the cache held, whoever built the terrain of the region, in whatever order
\* its loaders ended and whatever another call made of its own copies, what
\* GenerateChunk returns is what a replay on pristine terrain gives
\* (tree_region.go, preloadSlots: "Feature replay remains sequential").
AnswerIsReplay ==
  \A g \in Callers :
    pc[g] = "done" => slot[g][center[g]] = Decorated[center[g]].slot[center[g]]

\* Every GenerateChunk comes to its end: calls on neighbouring chunks, each of
\* which needs the terrain of the other, do not wait for each other forever.
EveryChunkEnds ==
  \A g \in Callers : pc[g] # "idle" ~> pc[g] = "idle"

\* What tree_region.go:46-47 says of the memo: "OCEAN_FLOOR probes remain valid
\* until a non-ore feature runs". An ore reads the height of a column as it is
\* when the ore runs, whether from the column or from the memo. The replay
\* never calls invalidateOreProbeFloor, and this fails.
OresProbeCurrentFloor ==
  \A g \in Callers : \A k \in Chunks :
    \A i \in DOMAIN slot[g][k] :
      LET write == slot[g][k][i]
      IN write.item \in Ores => write.read[k] = Floor(SubSeq(slot[g][k], 1, i - 1))
=============================================================================
