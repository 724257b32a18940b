----------------------------- MODULE MemoCaches -----------------------------
(***************************************************************************)
(* The caches filled through LoadOrCompute: the biome volumes and biome    *)
(* sets of chunks (biome_volume.go), the geometry of ore veins             *)
(* (ore_plan_cache.go) and the ring positions of strongholds               *)
(* (structure_placement.go). Each call looks a key up, joins a flight that *)
(* is computing it, or opens a flight, computes and publishes; a deferred  *)
(* function closes the flight if the computation panics.                   *)
(*                                                                         *)
(* Calls nest: a biome set is computed from the biome volume of the same   *)
(* chunk. populateBiomeVolume, which builds terrain at the same time, also *)
(* stores the set of that volume, without any flight.                      *)
(*                                                                         *)
(* A goroutine's stack is the sequence of calls it is in, the innermost    *)
(* last; an idle goroutine has the empty stack. The caches are sharded by  *)
(* a hash of the key, each shard with its mutex, queue and cap: a cache    *)
(* here is one of its shards, and Keys are keys that fall into it. The     *)
(* values depend on the key alone and are left out.                        *)
(***************************************************************************)
EXTENDS Naturals, Sequences, FiniteSets, SequencesExt

CONSTANTS
  Workers,      \* goroutines
  Keys,         \* keys of one shard
  Requests,     \* what goroutines ask for: a kind of RequestKinds and a key
  Cells,        \* flight objects
  None,         \* the nil flight
  Cap,          \* cap of a shard
  MaxPanics     \* bound of the model: how many computations panic

Caches == {"sets", "volumes", "plans", "rings"}

\* collectPossibleFeatureBiomes, populateBiomeVolume, executeOre and
\* ringPositionsForPlanner.
RequestKinds == {"possibleBiomes", "populate", "ore", "ring"}

ASSUME CapAssumption == Cap \in Nat \ {0}
ASSUME PanicsAssumption == MaxPanics \in Nat
ASSUME RequestsAssumption == Requests \subseteq RequestKinds \X Keys
ASSUME NoneAssumption == None \notin Cells

VARIABLES
  values,       \* values[c]: the keys of the map of c
  order,        \* order[c]: the queue of c
  flights,      \* flights[c][k]: the flight that computes k, or None
  flight,       \* the fields of every flight object
  stack,        \* the calls each goroutine is in
  panicking,    \* the goroutines whose stack is being unwound
  panics        \* computations that panicked so far

vars == <<values, order, flights, flight, stack, panicking, panics>>

\* A frame is a LoadOrCompute call, or the call of populateBiomeVolume, which
\* loads the volume and then stores the set.
LoadLabels == {"lookup", "wait", "compute", "publish"}
PopulateLabels == {"load", "store"}
Frames == [cache : Caches, key : Keys, at : LoadLabels \cup PopulateLabels,
           flight : Cells \cup {None}]

\* The type invariant; no queue is longer than the cap of its shard.
TypeOK ==
  /\ values \in [Caches -> SUBSET Keys]
  /\ order \in [Caches -> Seq(Keys)]
  /\ \A c \in Caches : Len(order[c]) <= Cap
  /\ flights \in [Caches -> [Keys -> Cells \cup {None}]]
  /\ flight \in [Cells -> [done : BOOLEAN, ok : BOOLEAN]]
  /\ stack \in [Workers -> Seq(Frames)]
  /\ panicking \subseteq {w \in Workers : stack[w] # <<>>}
  /\ panics \in 0 .. MaxPanics

NewFlight == [done |-> FALSE, ok |-> FALSE]

Init ==
  /\ values = [c \in Caches |-> {}]
  /\ order = [c \in Caches |-> <<>>]
  /\ flights = [c \in Caches |-> [k \in Keys |-> None]]
  /\ flight = [f \in Cells |-> NewFlight]
  /\ stack = [w \in Workers |-> <<>>]
  /\ panicking = {}
  /\ panics = 0

Frame(c, k, label) == [cache |-> c, key |-> k, at |-> label, flight |-> None]

\* The calls a request starts with.
Calls(kind, k) ==
  CASE kind = "possibleBiomes" -> <<Frame("sets", k, "lookup")>>
    [] kind = "populate" -> <<Frame("sets", k, "load"), Frame("volumes", k, "lookup")>>
    [] kind = "ore" -> <<Frame("plans", k, "lookup")>>
    [] kind = "ring" -> <<Frame("rings", k, "lookup")>>

\* The caches the computation for a cache calls LoadOrCompute on:
\* sampleFeatureBiomeSet loads the biome volume, the others load nothing.
NestedBothWays(c) ==
  IF c = "sets" THEN {"volumes"} ELSE IF c = "volumes" THEN {"sets"} ELSE {}
Nested(c) == IF c = "sets" THEN {"volumes"} ELSE {}

\* LoadOrCompute of the ore plans and the rings stores without looking again;
\* that of the sets and volumes keeps an entry stored in the meantime.
NeverLooksAgain(c) == FALSE
LooksAgain(c) == c \in {"sets", "volumes"}

Top(w) == Last(stack[w])
At(w, label) == stack[w] # <<>> /\ w \notin panicking /\ Top(w).at = label
SetTop(w, frame) == stack' = [stack EXCEPT ![w] = Append(Front(@), frame)]

\* Flight objects nothing points to: garbage, and allocated again.
Free ==
  Cells \ ({flights[c][k] : c \in Caches, k \in Keys}
           \cup UNION {{stack[w][i].flight : i \in DOMAIN stack[w]} : w \in Workers})

\* The innermost call returns its value and its caller goes on with it.
Resumed(frame) == [frame EXCEPT !.at = IF @ = "load" THEN "store" ELSE "publish"]

Return(w) ==
  LET callers == Front(stack[w])
  IN stack' = [stack EXCEPT ![w] =
       IF callers = <<>> THEN <<>> ELSE Append(Front(callers), Resumed(Last(callers)))]

Ask(w, kind, k) ==
  /\ stack[w] = <<>>
  /\ stack' = [stack EXCEPT ![w] = Calls(kind, k)]
  /\ UNCHANGED <<values, order, flights, flight, panicking, panics>>

\* First critical section of LoadOrCompute: hit, join, or open a flight.
Hit(w) ==
  /\ At(w, "lookup")
  /\ Top(w).key \in values[Top(w).cache]
  /\ Return(w)
  /\ UNCHANGED <<values, order, flights, flight, panicking, panics>>

Join(w) ==
  /\ At(w, "lookup")
  /\ LET c == Top(w).cache
         k == Top(w).key
     IN /\ k \notin values[c]
        /\ flights[c][k] # None
        /\ SetTop(w, [Top(w) EXCEPT !.at = "wait", !.flight = flights[c][k]])
  /\ UNCHANGED <<values, order, flights, flight, panicking, panics>>

MayOpenBesideFlight(c, k) == k \notin values[c]
MayOpen(c, k) == k \notin values[c] /\ flights[c][k] = None

Open(w) ==
  /\ At(w, "lookup")
  /\ MayOpen(Top(w).cache, Top(w).key)
  /\ \E f \in Free :
       /\ f = CHOOSE x \in Free : TRUE
       /\ flights' = [flights EXCEPT ![Top(w).cache][Top(w).key] = f]
       /\ flight' = [flight EXCEPT ![f] = NewFlight]
       /\ SetTop(w, [Top(w) EXCEPT !.at = "compute", !.flight = f])
  /\ UNCHANGED <<values, order, panicking, panics>>

\* <-flight.done: take the value of the flight, or start over.
Awaken(w) ==
  /\ At(w, "wait")
  /\ flight[Top(w).flight].done
  /\ \/ /\ flight[Top(w).flight].ok
        /\ Return(w)
     \/ /\ ~ flight[Top(w).flight].ok
        /\ SetTop(w, Frame(Top(w).cache, Top(w).key, "lookup"))
  /\ UNCHANGED <<values, order, flights, flight, panicking, panics>>

\* compute: sample, or load what the value is computed from.
Compute(w) ==
  /\ At(w, "compute")
  /\ \/ /\ Nested(Top(w).cache) = {}
        /\ SetTop(w, [Top(w) EXCEPT !.at = "publish"])
     \/ \E c \in Nested(Top(w).cache) :
          stack' = [stack EXCEPT ![w] = Append(@, Frame(c, Top(w).key, "lookup"))]
  /\ UNCHANGED <<values, order, flights, flight, panicking, panics>>

\* Sampling panics.
Panic(w) ==
  /\ At(w, "compute")
  /\ Nested(Top(w).cache) = {}
  /\ panics < MaxPanics
  /\ panics' = panics + 1
  /\ panicking' = panicking \cup {w}
  /\ UNCHANGED <<values, order, flights, flight, stack>>

\* The panic goes up one call. A LoadOrCompute call has opened a flight that
\* its deferred function closes; populateBiomeVolume defers nothing.
CallersLeft(s) == Front(s)

Unwind(w) ==
  /\ w \in panicking
  /\ IF Top(w).at \in LoadLabels
     THEN /\ flights' = [flights EXCEPT ![Top(w).cache][Top(w).key] = None]
          /\ flight' = [flight EXCEPT ![Top(w).flight].done = TRUE]
     ELSE UNCHANGED <<flights, flight>>
  /\ stack' = [stack EXCEPT ![w] = CallersLeft(@)]
  /\ panicking' = IF CallersLeft(stack[w]) = <<>> THEN panicking \ {w} ELSE panicking
  /\ UNCHANGED <<values, order, panics>>

\* Storing a key under the mutex of the shard, with the eviction loop; the
\* rings are kept for the life of the generator and have no queue.
Overflow(s) == IF Len(s) > Cap THEN Len(s) - Cap ELSE 0

Keep(c, k) ==
  IF c = "rings"
  THEN /\ values' = [values EXCEPT ![c] = @ \cup {k}]
       /\ UNCHANGED order
  ELSE LET queue == Append(order[c], k)
           n == Overflow(queue)
       IN /\ order' = [order EXCEPT ![c] = SubSeq(queue, n + 1, Len(queue))]
          /\ values' = [values EXCEPT ![c] = (@ \cup {k}) \ {queue[i] : i \in 1 .. n}]

\* Second critical section of LoadOrCompute: store, publish, close the flight.
Publish(w) ==
  /\ At(w, "publish")
  /\ LET c == Top(w).cache
         k == Top(w).key
     IN /\ IF LooksAgain(c) /\ k \in values[c]
           THEN UNCHANGED <<values, order>>
           ELSE Keep(c, k)
        /\ flight' = [flight EXCEPT ![Top(w).flight] = [done |-> TRUE, ok |-> TRUE]]
        /\ flights' = [flights EXCEPT ![c][k] = None]
  /\ Return(w)
  /\ UNCHANGED <<panicking, panics>>

\* chunkBiomeSetCache.Store at the end of populateBiomeVolume.
Store(w) ==
  /\ At(w, "store")
  /\ IF Top(w).key \in values["sets"]
     THEN UNCHANGED <<values, order>>
     ELSE Keep("sets", Top(w).key)
  /\ Return(w)
  /\ UNCHANGED <<flights, flight, panicking, panics>>

Step(w) ==
  \/ Hit(w)
  \/ Join(w)
  \/ Open(w)
  \/ Awaken(w)
  \/ Compute(w)
  \/ Unwind(w)
  \/ Publish(w)
  \/ Store(w)

Next ==
  \E w \in Workers :
    \/ \E request \in Requests : Ask(w, request[1], request[2])
    \/ Panic(w)
    \/ Step(w)

\* Go runs every runnable goroutine eventually, and sync.Mutex does not starve.
Fairness == \A w \in Workers : WF_vars(Step(w))

Spec == Init /\ [][Next]_vars /\ Fairness

-----------------------------------------------------------------------------
\* The calls of w that have opened a flight for k and not closed it.
Opened(w, c, k) ==
  {i \in DOMAIN stack[w] : /\ stack[w][i].cache = c
                           /\ stack[w][i].key = k
                           /\ stack[w][i].at \in {"compute", "publish"}}

\* The queue of a shard lists exactly the keys of its map, each once, also when
\* populateBiomeVolume stores a set while a flight for the same set is open
\* (storeLocked and the second look of LoadOrCompute). A key listed twice would
\* be evicted while it is fresh.
QueueMatchesMap ==
  \A c \in Caches \ {"rings"} :
    /\ IsInjective(order[c])
    /\ ToSet(order[c]) = values[c]

\* No value is computed by two goroutines, or twice in one, at the same time.
ComputedOnce ==
  \A c \in Caches, k \in Keys :
    Cardinality(UNION {{w} \X Opened(w, c, k) : w \in Workers}) <= 1

\* Every request ends, by value or by panic: nested flights never wait in a
\* circle and a closed flight wakes everyone (finitely many panics).
EveryRequestEnds ==
  \A w \in Workers : stack[w] # <<>> ~> stack[w] = <<>>
=============================================================================
