--------------------------- MODULE ProtoChunkCache --------------------------
(***************************************************************************)
(* The cache of pristine pre-decoration chunks (proto_cache.go) with the   *)
(* two callers that use it: prepareChunkForDecoration (generator.go) and   *)
(* ensureSlot (tree_region.go), run by any number of goroutines.           *)
(*                                                                         *)
(* A cell of Cells stands for one protoChunkFlight together with the clone *)
(* that complete() makes for it. A cell that nothing points to any more is *)
(* garbage and is allocated again, so that goroutines may go on asking for *)
(* ever in a finite state space. heap holds the contents of every chunk    *)
(* object: the clone of each cell, and the chunk each goroutine was handed *)
(* to fill and then decorates in place.                                    *)
(*                                                                         *)
(* Each critical section of p.mu is one step; waiting on flight.done is a  *)
(* guard. The terrain itself is the constant function Terrain.             *)
(***************************************************************************)
EXTENDS Naturals, Sequences, FiniteSets, Functions

CONSTANTS
  Workers,      \* goroutines: GenerateChunk callers and preload goroutines
  Keys,         \* chunk coordinates
  Cells,        \* flights, each with the clone it will publish
  None,         \* the nil pointer
  Cap,          \* protoChunkCache.cap
  MaxPanics     \* bound of the model: how many builds panic

ASSUME CapAssumption == Cap \in Nat \ {0}
ASSUME PanicsAssumption == MaxPanics \in Nat
ASSUME ObjectsAssumption ==
  /\ Workers \cap Cells = {}
  /\ None \notin Workers \cup Cells

VARIABLES
  byPos,        \* p.byPos: the object stored for a coordinate, or None
  order,        \* p.order: coordinates in the order they were stored
  inFlight,     \* p.inFlight: the flight building a coordinate, or None
  flight,       \* the fields of every protoChunkFlight
  heap,         \* the contents of every chunk object
  pc,           \* where each goroutine is
  key,          \* the coordinate it asked for
  ptr,          \* the flight it waits on or owns, or the entry it copies
  panics        \* builds that panicked so far

vars == <<byPos, order, inFlight, flight, heap, pc, key, ptr, panics>>

Objects == Workers \cup Cells

\* Contents of a chunk: never written, fresh from prepareChunkUncached, or
\* with features placed in it.
Terrain(k) == <<k, "pristine">>
Decorated(k) == <<k, "decorated">>
Blank == <<"blank", "blank">>
Contents == {Blank} \cup {Terrain(k) : k \in Keys} \cup {Decorated(k) : k \in Keys}

NewFlight == [done |-> FALSE, ok |-> FALSE, entry |-> None]

PCs == {"idle", "get", "getWait", "reserve", "wait", "build", "complete",
        "abort", "copy", "decorate"}

(***************************************************************************)
(* The type invariant; the cache never holds more than cap coordinates.    *)
(***************************************************************************)
TypeOK ==
  /\ byPos \in [Keys -> Objects \cup {None}]
  /\ order \in Seq(Keys)
  /\ Len(order) <= Cap
  /\ inFlight \in [Keys -> Cells \cup {None}]
  /\ flight \in [Cells -> [done : BOOLEAN, ok : BOOLEAN, entry : Objects \cup {None}]]
  /\ heap \in [Objects -> Contents]
  /\ pc \in [Workers -> PCs]
  /\ key \in [Workers -> Keys]
  /\ ptr \in [Workers -> Objects \cup {None}]
  /\ panics \in 0 .. MaxPanics

Init ==
  /\ byPos = [k \in Keys |-> None]
  /\ order = <<>>
  /\ inFlight = [k \in Keys |-> None]
  /\ flight = [f \in Cells |-> NewFlight]
  /\ heap = [o \in Objects |-> Blank]
  /\ pc = [w \in Workers |-> "idle"]
  /\ key \in [Workers -> Keys]
  /\ ptr = [w \in Workers |-> None]
  /\ panics = 0

Goto(w, label) == pc' = [pc EXCEPT ![w] = label]

\* Cells the garbage collector may not reclaim.
Live ==
  LET pointed == Range(byPos) \cup Range(inFlight) \cup Range(ptr)
  IN pointed \cup {flight[f].entry : f \in pointed \cap Cells}

Free == Cells \ Live

\* A goroutine asks for coordinate k with a chunk of its own: GenerateChunk
\* goes straight to prepareChunkForDecoration, ensureSlot tries get first.
Ask(w, k, entryPoint) ==
  /\ pc[w] = "idle"
  /\ key' = [key EXCEPT ![w] = k]
  /\ heap' = [heap EXCEPT ![w] = Blank]
  /\ Goto(w, entryPoint)
  /\ UNCHANGED <<byPos, order, inFlight, flight, ptr, panics>>

\* get: one look at both maps, then a hit, a wait on the flight, or a miss.
Get(w) ==
  /\ pc[w] = "get"
  /\ LET k == key[w] IN
       \/ /\ byPos[k] # None
          /\ ptr' = [ptr EXCEPT ![w] = byPos[k]]
          /\ Goto(w, "copy")
       \/ /\ byPos[k] = None
          /\ inFlight[k] = None
          /\ Goto(w, "reserve")
          /\ UNCHANGED ptr
       \/ /\ byPos[k] = None
          /\ inFlight[k] # None
          /\ ptr' = [ptr EXCEPT ![w] = inFlight[k]]
          /\ Goto(w, "getWait")
  /\ UNCHANGED <<byPos, order, inFlight, flight, heap, key, panics>>

\* reserve: the stored entry, the flight to join, or a new flight to own.
MayOwnUnlessStored(k) == byPos[k] = None
MayOwnUnlessInFlight(k) == inFlight[k] = None
MayOwn(k) == byPos[k] = None /\ inFlight[k] = None

Reserve(w) ==
  /\ pc[w] = "reserve"
  /\ LET k == key[w] IN
       \/ /\ ~ MayOwn(k)
          /\ byPos[k] # None
          /\ ptr' = [ptr EXCEPT ![w] = byPos[k]]
          /\ Goto(w, "copy")
          /\ UNCHANGED <<inFlight, flight>>
       \/ /\ ~ MayOwn(k)
          /\ byPos[k] = None
          /\ ptr' = [ptr EXCEPT ![w] = inFlight[k]]
          /\ Goto(w, "wait")
          /\ UNCHANGED <<inFlight, flight>>
       \/ /\ MayOwn(k)
          /\ Free # {}
          /\ LET f == CHOOSE c \in Free : TRUE IN
               /\ inFlight' = [inFlight EXCEPT ![k] = f]
               /\ flight' = [flight EXCEPT ![f] = NewFlight]
               /\ ptr' = [ptr EXCEPT ![w] = f]
          /\ Goto(w, "build")
  /\ UNCHANGED <<byPos, order, heap, key, panics>>

\* <-flight.done in both callers. A completed flight hands over its own entry,
\* whatever has become of the cache since; after an aborted one, both callers
\* come to reserve (get reports a miss, the retry loop continues).
Awaken(w) ==
  /\ pc[w] \in {"wait", "getWait"}
  /\ LET f == flight[ptr[w]] IN
       /\ f.done
       /\ \/ /\ f.ok
             /\ ptr' = [ptr EXCEPT ![w] = f.entry]
             /\ Goto(w, "copy")
          \/ /\ ~ f.ok
             /\ ptr' = [ptr EXCEPT ![w] = None]
             /\ Goto(w, "reserve")
  /\ UNCHANGED <<byPos, order, inFlight, flight, heap, key, panics>>

\* prepareChunkUncached by the owner, into the chunk it was handed.
Build(w) ==
  /\ pc[w] = "build"
  /\ heap' = [heap EXCEPT ![w] = Terrain(key[w])]
  /\ Goto(w, "complete")
  /\ UNCHANGED <<byPos, order, inFlight, flight, key, ptr, panics>>

\* The build panics: the deferred abort comes next.
Panic(w) ==
  /\ pc[w] = "build"
  /\ panics < MaxPanics
  /\ panics' = panics + 1
  /\ Goto(w, "abort")
  /\ UNCHANGED <<byPos, order, inFlight, flight, heap, key, ptr>>

\* complete, in one critical section: store the clone under its coordinate,
\* drop the oldest coordinates over the cap, publish the entry, close done.
OverflowOneLate(s) == IF Len(s) > Cap + 1 THEN Len(s) - Cap - 1 ELSE 0
Overflow(s) == IF Len(s) > Cap THEN Len(s) - Cap ELSE 0

\* entry.c is c.Clone(): an object of its own, not the owner's chunk.
PublishedChunkItself(w, f) == w
PublishedObject(w, f) == f

DroppedOneMore(s) == IF Overflow(s) = 0 THEN {} ELSE {s[i] : i \in 1 .. Overflow(s) + 1}
Dropped(s) == {s[i] : i \in 1 .. Overflow(s)}

Complete(w) ==
  /\ pc[w] = "complete"
  /\ LET k == key[w]
         f == ptr[w]
         o == PublishedObject(w, f)
         stored == byPos[k] # None
         queue == IF stored THEN order ELSE Append(order, k)
         entry == IF stored THEN byPos[k] ELSE o
     IN /\ heap' = [heap EXCEPT ![o] = heap[w]]
        /\ order' = SubSeq(queue, Overflow(queue) + 1, Len(queue))
        /\ byPos' = [j \in Keys |-> IF j \in Dropped(queue) THEN None
                                    ELSE IF j = k THEN entry ELSE byPos[j]]
        /\ flight' = [flight EXCEPT ![f] = [done |-> TRUE, ok |-> TRUE, entry |-> entry]]
        /\ inFlight' = [inFlight EXCEPT ![k] = None]
  /\ ptr' = [ptr EXCEPT ![w] = None]
  /\ Goto(w, "decorate")
  /\ UNCHANGED <<key, panics>>

\* abort, deferred: closes the flight without a result if it is still the one
\* in flight. The panic goes on to the caller, which gives up its request.
AbortedFlightLeftOpen(f) == flight[f]
AbortedFlight(f) == [flight[f] EXCEPT !.done = TRUE]

Abort(w) ==
  /\ pc[w] = "abort"
  /\ IF inFlight[key[w]] = ptr[w]
     THEN /\ inFlight' = [inFlight EXCEPT ![key[w]] = None]
          /\ flight' = [flight EXCEPT ![ptr[w]] = AbortedFlight(ptr[w])]
     ELSE UNCHANGED <<inFlight, flight>>
  /\ ptr' = [ptr EXCEPT ![w] = None]
  /\ Goto(w, "idle")
  /\ UNCHANGED <<byPos, order, heap, key, panics>>

\* Outside the lock: clone the entry into the caller's own chunk.
Copy(w) ==
  /\ pc[w] = "copy"
  /\ heap' = [heap EXCEPT ![w] = heap[ptr[w]]]
  /\ ptr' = [ptr EXCEPT ![w] = None]
  /\ Goto(w, "decorate")
  /\ UNCHANGED <<byPos, order, inFlight, flight, key, panics>>

\* The caller places features in its chunk, in place, and is done with it.
Decorate(w) ==
  /\ pc[w] = "decorate"
  /\ heap' = [heap EXCEPT ![w] = Decorated(key[w])]
  /\ Goto(w, "idle")
  /\ UNCHANGED <<byPos, order, inFlight, flight, key, ptr, panics>>

\* The steps the Go scheduler takes for a goroutine once it has asked.
Step(w) ==
  \/ Get(w)
  \/ Reserve(w)
  \/ Awaken(w)
  \/ Build(w)
  \/ Complete(w)
  \/ Abort(w)
  \/ Copy(w)
  \/ Decorate(w)

Next ==
  \E w \in Workers :
    \/ \E k \in Keys, entryPoint \in {"get", "reserve"} : Ask(w, k, entryPoint)
    \/ Panic(w)
    \/ Step(w)

\* Go runs every runnable goroutine eventually, and sync.Mutex does not starve.
Fairness == \A w \in Workers : WF_vars(Step(w))

Spec == Init /\ [][Next]_vars /\ Fairness

-----------------------------------------------------------------------------
Owns(w) == pc[w] \in {"build", "complete", "abort"}
Waits(w) == pc[w] \in {"wait", "getWait"}

\* The index and the queue of the cache stay in step: the queue lists exactly
\* the stored coordinates, each once (the two writes in complete and its
\* eviction loop).
CacheIndexed ==
  /\ \A i, j \in 1 .. Len(order) : order[i] = order[j] => i = j
  /\ \A k \in Keys : byPos[k] # None <=> \E i \in 1 .. Len(order) : order[i] = k

\* Adjacent requests share one terrain build: two goroutines never build one
\* coordinate at once, and none builds a coordinate that is stored.
SingleFlight ==
  \A w \in Workers : Owns(w) =>
    /\ byPos[key[w]] = None
    /\ \A v \in Workers : Owns(v) /\ key[v] = key[w] => v = w

\* Entries are immutable: what is stored for a coordinate is its pristine
\* terrain, however the goroutines that built or copied it go on to decorate.
EntriesPristine ==
  \A k \in Keys : byPos[k] # None => heap[byPos[k]] = Terrain(k)

\* Whichever way it came by it (own build, hit, flight that is completed and
\* may already be evicted), a goroutine decorates pristine terrain of the
\* coordinate it asked for.
AnswersPristine ==
  \A w \in Workers : pc[w] = "decorate" => heap[w] = Terrain(key[w])

\* A goroutine that waits on an open flight waits for a goroutine that is
\* building the coordinate it wants: nobody waits on an abandoned flight.
WaitersHaveBuilder ==
  \A w \in Workers : Waits(w) /\ ~ flight[ptr[w]].done =>
    \E v \in Workers : Owns(v) /\ key[v] = key[w] /\ ptr[v] = ptr[w]

\* A step drops only the coordinate stored longest ago, and only to make room
\* for another (the eviction loop of complete).
EvictsOldest ==
  [][\A k \in Keys : byPos[k] # None /\ byPos'[k] = None =>
       /\ k = Head(order)
       /\ \E j \in Keys : byPos[j] = None /\ byPos'[j] # None]_vars

\* Every request ends, even if the builder panics or the entry is evicted
\* before the goroutines that wait for it run (finitely many panics).
EveryRequestEnds ==
  \A w \in Workers : pc[w] # "idle" ~> pc[w] = "idle"

\* What the promise of PreparedChunks is about, as the goroutines see it.
PhaseOf ==
  [w \in Workers |-> IF pc[w] = "idle" THEN "idle"
                     ELSE IF pc[w] = "decorate" THEN "answered"
                     ELSE "asked"]

GotOf == [w \in Workers |-> IF pc[w] = "decorate" THEN heap[w] ELSE Blank]

Promise == INSTANCE PreparedChunks WITH phase <- PhaseOf, wanted <- key, got <- GotOf

\* The cache keeps the promise of PreparedChunks: every request of
\* prepareChunkForDecoration and ensureSlot is answered with pristine terrain
\* of its own coordinate, or fails with the panic of its own build.
KeepsPromise == Promise!Spec
=============================================================================
