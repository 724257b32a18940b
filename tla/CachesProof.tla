----------------------------- MODULE CachesProof -----------------------------
(***************************************************************************)
(* The caches filled through LoadOrCompute, the cache of feature blocks,   *)
(* the pools a generator prepares and what it looks up, for any            *)
(* goroutines, keys, flights, caps, panics and registries. In the first, the inductive invariant ties *)
(* a flight in the map to the one call that opened it and says how calls   *)
(* nest; in the second, it ties a key to what the registry says at its     *)
(* address; in the third, what is prewarmed is closed under what pools     *)
(* lead to, and so is what a walk has visited or has yet to; in the last,  *)
(* who copies the table of names holds the lock and copies the last one.   *)
(***************************************************************************)
EXTENDS MemoCaches, FeatureBlockCache, GeneratorStart, LookupTables, SequenceLemmas, FiniteSetTheorems

\* A call that has opened a flight and not closed it.
Opening(frame) == frame.at \in {"compute", "publish"}

\* Calls nest at most once: the volume of a chunk below its set, where the
\* outer call is the computation of the set or populateBiomeVolume.
CallsNest ==
  \A w \in Workers :
    /\ Len(stack[w]) <= 2
    /\ Len(stack[w]) = 2 =>
         /\ stack[w][1].cache = "sets"
         /\ stack[w][1].at \in {"compute", "load"}
         /\ stack[w][2].cache = "volumes"

\* A panic starts in a computation and goes up into a computation, or into
\* populateBiomeVolume: no call that waits or looks up is ever unwound.
PanicsInComputation ==
  \A w \in panicking : Top(w).at \in {"compute", "load"}

\* A call that computes holds the flight of its key in the map, and no ore plan
\* is stored while a flight computes it: the ore plans are stored blindly.
OpenersHoldFlight ==
  \A w \in Workers : \A i \in DOMAIN stack[w] : Opening(stack[w][i]) =>
    LET frame == stack[w][i] IN
      /\ frame.flight \in Cells
      /\ flights[frame.cache][frame.key] = frame.flight
      /\ frame.cache = "plans" => frame.key \notin values["plans"]

OneOpener ==
  \A v, w \in Workers : \A i \in DOMAIN stack[v], j \in DOMAIN stack[w] :
    /\ Opening(stack[v][i])
    /\ Opening(stack[w][j])
    /\ stack[v][i].cache = stack[w][j].cache
    /\ stack[v][i].key = stack[w][j].key
    => v = w /\ i = j

\* A flight in the map is open, is there for one key, and some call opened it.
FlightsOpen ==
  \A c \in Caches, k \in Keys : flights[c][k] # None =>
    /\ ~ flight[flights[c][k]].done
    /\ \A d \in Caches, j \in Keys : flights[d][j] = flights[c][k] => d = c /\ j = k
    /\ \E w \in Workers : \E i \in DOMAIN stack[w] :
         Opening(stack[w][i]) /\ stack[w][i].cache = c /\ stack[w][i].key = k

\* A call that waits has joined a flight that is closed by now, or in the map.
WaitersJoined ==
  \A w \in Workers : \A i \in DOMAIN stack[w] : stack[w][i].at = "wait" =>
    LET frame == stack[w][i] IN
      /\ frame.flight \in Cells
      /\ ~ flight[frame.flight].done => flights[frame.cache][frame.key] = frame.flight

IInv ==
  /\ TypeOK
  /\ QueueMatchesMap
  /\ CallsNest
  /\ PanicsInComputation
  /\ OpenersHoldFlight
  /\ OneOpener
  /\ FlightsOpen
  /\ WaitersJoined

\* A goroutine that waits on a flight that is open.
Stuck(w) == At(w, "wait") /\ ~ flight[Top(w).flight].done

\* While a goroutine waits on an open flight, some goroutine that is in a call
\* does not: calls never wait for each other in a circle, though they nest.
NoCircularWait ==
  (\E w \in Workers : Stuck(w)) =>
    \E v \in Workers : stack[v] # <<>> /\ ~ Stuck(v)

-----------------------------------------------------------------------------
\* Storing a key that the map lacks keeps queue and map in step; the map grows
\* by that key at most. The rings have no queue.
LEMMA KeepKeepsQueue ==
  ASSUME TypeOK, QueueMatchesMap, NEW c \in Caches, NEW k \in Keys,
         c = "rings" \/ k \notin values[c],
         Keep(c, k)
  PROVE  /\ values' \in [Caches -> SUBSET Keys]
         /\ order' \in [Caches -> Seq(Keys)]
         /\ \A d \in Caches : Len(order'[d]) <= Cap
         /\ QueueMatchesMap'
         /\ \A d \in Caches : values'[d] \subseteq values[d] \cup (IF d = c THEN {k} ELSE {})
<1>1. CASE c = "rings"
  <2>1. values' = [values EXCEPT !["rings"] = @ \cup {k}] /\ order' = order
    BY <1>1 DEF Keep
  <2>2. /\ values'["rings"] = values["rings"] \cup {k}
        /\ \A d \in Caches \ {"rings"} : values'[d] = values[d]
        /\ values' \in [Caches -> SUBSET Keys]
    BY <1>1, <2>1 DEF TypeOK
  <2>3. QueueMatchesMap'
    BY <2>1, <2>2 DEF QueueMatchesMap
  <2> QED
    BY <1>1, <2>1, <2>2, <2>3 DEF TypeOK
<1>2. CASE c # "rings"
  <2> DEFINE q == Append(order[c], k)
  <2>1. /\ order[c] \in Seq(Keys)
        /\ Len(order[c]) <= Cap
        /\ IsInjective(order[c])
        /\ ToSet(order[c]) = values[c]
        /\ k \notin ToSet(order[c])
    BY <1>2 DEF TypeOK, QueueMatchesMap
  <2>2. /\ order' = [order EXCEPT ![c] = Kept(q, Cap)]
        /\ values' = [values EXCEPT ![c] = (@ \cup {k}) \ Left(q, Cap)]
    BY <1>2 DEF Keep, Overflow, Over, Left, Kept
  <2>3. /\ Kept(q, Cap) \in Seq(Keys)
        /\ Len(Kept(q, Cap)) <= Cap
        /\ IsInjective(Kept(q, Cap))
        /\ ToSet(Kept(q, Cap)) = (ToSet(order[c]) \cup {k}) \ Left(q, Cap)
    <3> DEFINE s == order[c]
    <3>1. s \in Seq(Keys) /\ Len(s) <= Cap /\ IsInjective(s) /\ k \notin ToSet(s)
      BY <2>1
    <3> HIDE DEF s
    <3>2. /\ Kept(Append(s, k), Cap) \in Seq(Keys)
          /\ Len(Kept(Append(s, k), Cap)) <= Cap
          /\ IsInjective(Kept(Append(s, k), Cap))
          /\ ToSet(Kept(Append(s, k), Cap)) = (ToSet(s) \cup {k}) \ Left(Append(s, k), Cap)
      BY <3>1, CapAssumption, QueueAfterStore
    <3> QED
      BY <3>2 DEF s
  <2> HIDE DEF q
  <2>4. /\ order'[c] = Kept(q, Cap)
        /\ values'[c] = (values[c] \cup {k}) \ Left(q, Cap)
        /\ \A d \in Caches \ {c} : order'[d] = order[d] /\ values'[d] = values[d]
    BY <2>2 DEF TypeOK
  <2>5. QueueMatchesMap'
    <3> SUFFICES ASSUME NEW d \in Caches \ {"rings"}
                 PROVE  IsInjective(order'[d]) /\ ToSet(order'[d]) = values'[d]
      BY DEF QueueMatchesMap
    <3>1. CASE d = c
      BY <3>1, <2>1, <2>3, <2>4
    <3>2. CASE d # c
      BY <3>2, <2>4 DEF QueueMatchesMap
    <3> QED
      BY <3>1, <3>2
  <2>6. values' \in [Caches -> SUBSET Keys] /\ order' \in [Caches -> Seq(Keys)]
    BY <2>2, <2>3 DEF TypeOK
  <2>7. \A d \in Caches : Len(order'[d]) <= Cap
    BY <2>3, <2>4 DEF TypeOK
  <2>8. \A d \in Caches : values'[d] \subseteq values[d] \cup (IF d = c THEN {k} ELSE {})
    BY <2>4
  <2> QED
    BY <2>5, <2>6, <2>7, <2>8
<1> QED
  BY <1>1, <1>2

\* The innermost call of a goroutine that is in one.
LEMMA TopFrame ==
  ASSUME TypeOK, CallsNest, NEW w \in Workers, stack[w] # <<>>
  PROVE  /\ stack[w] \in Seq(Frames)
         /\ Len(stack[w]) \in {1, 2}
         /\ DOMAIN stack[w] = 1 .. Len(stack[w])
         /\ Len(stack[w]) \in DOMAIN stack[w]
         /\ Top(w) = stack[w][Len(stack[w])]
         /\ Top(w) \in Frames
         /\ Top(w).cache \in Caches
         /\ Top(w).key \in Keys
<1>1. stack[w] \in Seq(Frames) /\ Len(stack[w]) <= 2
  BY DEF TypeOK, CallsNest
<1>2. Len(stack[w]) \in Nat \ {0} /\ DOMAIN stack[w] = 1 .. Len(stack[w])
  BY <1>1, EmptySeq, LenProperties
<1>3. Len(stack[w]) \in {1, 2} /\ Len(stack[w]) \in DOMAIN stack[w]
  <2>1. ASSUME NEW n \in Nat \ {0}, n <= 2 PROVE n \in {1, 2} /\ n \in 1 .. n
    BY <2>1
  <2> QED
    BY <1>1, <1>2, <2>1, Zenon
<1>4. Top(w) = stack[w][Len(stack[w])]
  BY DEF Top, Last
<1>5. Top(w) \in Frames
  BY <1>1, <1>2, <1>3, <1>4, LenProperties
<1> QED
  BY <1>1, <1>2, <1>3, <1>4, <1>5 DEF Frames

\* What the invariant says of calls and flights.
CallsAndFlights ==
  /\ CallsNest
  /\ PanicsInComputation
  /\ OpenersHoldFlight
  /\ OneOpener
  /\ FlightsOpen
  /\ WaitersJoined

\* Calls that agree on what they have opened.
SameOpening(e, f) ==
  /\ Opening(e) <=> Opening(f)
  /\ Opening(e) => e.cache = f.cache /\ e.key = f.key /\ e.flight = f.flight

\* A step of a goroutine that opens no flight and closes none: its calls with
\* an open flight stay where they are on the stack, and if it waits it has
\* joined a flight.
LEMMA CallsMove ==
  ASSUME TypeOK, CallsAndFlights, NEW w \in Workers,
         NEW t \in Seq(Frames), stack' = [stack EXCEPT ![w] = t],
         UNCHANGED <<flights, flight>>,
         panicking' \subseteq panicking,
         w \in panicking' => Last(t).at \in {"compute", "load"},
         values'["plans"] = values["plans"],
         Len(t) <= 2,
         Len(t) = 2 => /\ t[1].cache = "sets"
                       /\ t[1].at \in {"compute", "load"}
                       /\ t[2].cache = "volumes",
         \A i \in DOMAIN t : i \in DOMAIN stack[w] => SameOpening(t[i], stack[w][i]),
         \A i \in DOMAIN t \ DOMAIN stack[w] : ~ Opening(t[i]),
         \A i \in DOMAIN stack[w] \ DOMAIN t : ~ Opening(stack[w][i]),
         \A i \in DOMAIN t : t[i].at = "wait" =>
           /\ t[i].flight \in Cells
           /\ ~ flight[t[i].flight].done => flights[t[i].cache][t[i].key] = t[i].flight
  PROVE  CallsAndFlights'
<1> USE DEF CallsAndFlights
<1>1. stack'[w] = t /\ \A v \in Workers \ {w} : stack'[v] = stack[v]
  BY DEF TypeOK
<1>2. CallsNest'
  BY <1>1 DEF CallsNest
<1>3. PanicsInComputation'
  <2> SUFFICES ASSUME NEW v \in panicking' PROVE Last(stack'[v]).at \in {"compute", "load"}
    BY DEF PanicsInComputation, Top
  <2>1. CASE v = w
    BY <2>1, <1>1
  <2>2. CASE v # w
    <3>1. v \in Workers /\ v \in panicking
      BY DEF TypeOK
    <3> QED
      BY <2>2, <3>1, <1>1 DEF PanicsInComputation, Top
  <2> QED
    BY <2>1, <2>2
<1>4. ASSUME NEW v \in Workers, NEW i \in DOMAIN stack'[v], Opening(stack'[v][i])
      PROVE  i \in DOMAIN stack[v] /\ SameOpening(stack'[v][i], stack[v][i])
  BY <1>1, <1>4 DEF SameOpening
<1>5. ASSUME NEW v \in Workers, NEW i \in DOMAIN stack[v], Opening(stack[v][i])
      PROVE  i \in DOMAIN stack'[v] /\ SameOpening(stack'[v][i], stack[v][i])
  BY <1>1, <1>5 DEF SameOpening
<1>6. OpenersHoldFlight'
  BY <1>4 DEF OpenersHoldFlight, SameOpening
<1>7. OneOpener'
  BY <1>4 DEF OneOpener, SameOpening
<1>8. FlightsOpen'
  BY <1>5 DEF FlightsOpen, SameOpening
<1>9. WaitersJoined'
  BY <1>1 DEF WaitersJoined
<1> QED
  BY <1>2, <1>3, <1>6, <1>7, <1>8, <1>9

\* A step that closes the flight the innermost call has opened, by its value or
\* by a panic, and leaves that call.
LEMMA FlightCloses ==
  ASSUME TypeOK, CallsAndFlights, NEW w \in Workers, stack[w] # <<>>, Opening(Top(w)),
         NEW t \in Seq(Frames), stack' = [stack EXCEPT ![w] = t],
         Len(t) = Len(stack[w]) - 1,
         \A i \in DOMAIN t : SameOpening(t[i], stack[w][i]) /\ t[i].at # "wait",
         flights' = [flights EXCEPT ![Top(w).cache][Top(w).key] = None],
         flight'[Top(w).flight].done,
         \A f \in Cells \ {Top(w).flight} : flight'[f] = flight[f],
         panicking' \subseteq panicking,
         w \in panicking' => Last(t).at \in {"compute", "load"},
         values'["plans"] \subseteq
           values["plans"] \cup (IF Top(w).cache = "plans" THEN {Top(w).key} ELSE {})
  PROVE  CallsAndFlights'
<1> DEFINE n == Len(stack[w])
           c == Top(w).cache
           k == Top(w).key
           f == Top(w).flight
<1> USE DEF CallsAndFlights
<1>1. stack'[w] = t /\ \A v \in Workers \ {w} : stack'[v] = stack[v]
  BY DEF TypeOK
<1>2. /\ n \in {1, 2}
      /\ DOMAIN stack[w] = 1 .. n
      /\ n \in DOMAIN stack[w]
      /\ stack[w][n] = Top(w)
      /\ c \in Caches
      /\ k \in Keys
  BY TopFrame
<1>3. DOMAIN t = 1 .. Len(t) /\ \A i \in DOMAIN t : i \in DOMAIN stack[w] /\ i # n
  BY <1>2, LenProperties
<1>4. f \in Cells /\ flights[c][k] = f
  BY <1>2 DEF OpenersHoldFlight
<1>5. /\ flights'[c][k] = None
      /\ \A d \in Caches, j \in Keys : d # c \/ j # k => flights'[d][j] = flights[d][j]
  BY <1>2 DEF TypeOK
<1> HIDE DEF n, c, k, f
<1>6. CallsNest'
  BY <1>1, <1>2 DEF CallsNest, n
<1>7. PanicsInComputation'
  <2> SUFFICES ASSUME NEW v \in panicking' PROVE Last(stack'[v]).at \in {"compute", "load"}
    BY DEF PanicsInComputation, Top
  <2>1. CASE v = w
    BY <2>1, <1>1
  <2>2. CASE v # w
    <3>1. v \in Workers /\ v \in panicking
      BY DEF TypeOK
    <3> QED
      BY <2>2, <3>1, <1>1 DEF PanicsInComputation, Top
  <2> QED
    BY <2>1, <2>2
\* The calls that have opened a flight afterwards had opened it before.
<1>8. ASSUME NEW v \in Workers, NEW i \in DOMAIN stack'[v], Opening(stack'[v][i])
      PROVE  /\ i \in DOMAIN stack[v]
             /\ SameOpening(stack'[v][i], stack[v][i])
             /\ v # w \/ i # n
  BY <1>1, <1>3, <1>8 DEF SameOpening
<1>9. ASSUME NEW v \in Workers, NEW i \in DOMAIN stack'[v], Opening(stack'[v][i])
      PROVE  stack'[v][i].cache # c \/ stack'[v][i].key # k
  BY <1>2, <1>8, <1>9 DEF OneOpener, SameOpening, c, k
<1>10. ASSUME NEW v \in Workers, NEW i \in DOMAIN stack[v], Opening(stack[v][i]),
              stack[v][i].cache # c \/ stack[v][i].key # k
       PROVE  i \in DOMAIN stack'[v] /\ SameOpening(stack'[v][i], stack[v][i])
  <2>1. CASE v # w
    BY <2>1, <1>1 DEF SameOpening
  <2>2. CASE v = w
    <3>1. i # n
      BY <2>2, <1>2, <1>10 DEF c, k
    <3>2. i \in DOMAIN t
      BY <2>2, <3>1, <1>2, <1>3 DEF n
    <3> QED
      BY <2>2, <3>2, <1>1
  <2> QED
    BY <2>1, <2>2
<1>11. \A v \in Workers : \A i \in DOMAIN stack[v] :
         stack[v][i].cache \in Caches /\ stack[v][i].key \in Keys
  <2> SUFFICES ASSUME NEW v \in Workers, NEW i \in DOMAIN stack[v] PROVE stack[v][i] \in Frames
    BY DEF Frames
  <2>1. stack[v] \in Seq(Frames)
    BY DEF TypeOK
  <2> QED
    BY <2>1, LenProperties
<1>12. OpenersHoldFlight'
  BY <1>5, <1>8, <1>9, <1>11 DEF OpenersHoldFlight, SameOpening, c, k
<1>13. OneOpener'
  BY <1>8 DEF OneOpener, SameOpening
<1>14. FlightsOpen'
  <2> SUFFICES ASSUME NEW d \in Caches, NEW j \in Keys, flights'[d][j] # None
               PROVE  /\ ~ flight'[flights'[d][j]].done
                      /\ \A e \in Caches, h \in Keys :
                           flights'[e][h] = flights'[d][j] => e = d /\ h = j
                      /\ \E v \in Workers : \E i \in DOMAIN stack'[v] :
                           /\ Opening(stack'[v][i])
                           /\ stack'[v][i].cache = d
                           /\ stack'[v][i].key = j
    BY DEF FlightsOpen
  <2>1. d # c \/ j # k
    BY <1>5
  <2>2. flights'[d][j] = flights[d][j] /\ flights[d][j] \in Cells
    BY <2>1, <1>5 DEF TypeOK
  <2>3. flights[d][j] # f
    BY <2>1, <2>2, <1>2, <1>4, NoneAssumption DEF FlightsOpen
  <2>4. ~ flight'[flights'[d][j]].done
    BY <2>2, <2>3, NoneAssumption DEF FlightsOpen, f
  <2>5. \A e \in Caches, h \in Keys : flights'[e][h] = flights'[d][j] => e = d /\ h = j
    BY <2>2, <1>5, NoneAssumption DEF FlightsOpen
  <2>6. PICK v \in Workers : \E i \in DOMAIN stack[v] :
          Opening(stack[v][i]) /\ stack[v][i].cache = d /\ stack[v][i].key = j
    BY <2>2, NoneAssumption DEF FlightsOpen
  <2>7. PICK i \in DOMAIN stack[v] :
          Opening(stack[v][i]) /\ stack[v][i].cache = d /\ stack[v][i].key = j
    BY <2>6
  <2>8. i \in DOMAIN stack'[v] /\ SameOpening(stack'[v][i], stack[v][i])
    BY <2>1, <2>7, <1>10
  <2>9. Opening(stack'[v][i]) /\ stack'[v][i].cache = d /\ stack'[v][i].key = j
    BY <2>7, <2>8 DEF SameOpening
  <2> QED
    BY <2>4, <2>5, <2>8, <2>9
<1>15. WaitersJoined'
  <2> SUFFICES ASSUME NEW v \in Workers, NEW i \in DOMAIN stack'[v],
                      stack'[v][i].at = "wait"
               PROVE  LET frame == stack'[v][i] IN
                        /\ frame.flight \in Cells
                        /\ ~ flight'[frame.flight].done =>
                             flights'[frame.cache][frame.key] = frame.flight
    BY DEF WaitersJoined
  <2>1. v # w /\ i \in DOMAIN stack[v] /\ stack'[v][i] = stack[v][i]
    BY <1>1
  <2>2. stack[v][i].flight \in Cells
    BY <2>1 DEF WaitersJoined
  <2>3. ASSUME ~ flight'[stack[v][i].flight].done
        PROVE  flights'[stack[v][i].cache][stack[v][i].key] = stack[v][i].flight
    <3>1. stack[v][i].flight # f /\ ~ flight[stack[v][i].flight].done
      BY <2>2, <2>3 DEF f
    <3>2. flights[stack[v][i].cache][stack[v][i].key] = stack[v][i].flight
      BY <2>1, <3>1 DEF WaitersJoined
    <3> QED
      BY <3>1, <3>2, <2>1, <1>4, <1>5, <1>11
  <2> QED
    BY <2>1, <2>2, <2>3
<1> QED
  BY <1>6, <1>7, <1>12, <1>13, <1>14, <1>15

\* The flight Open takes is one nothing points to.
LEMMA FreshFlight ==
  ASSUME NEW f \in Free
  PROVE  /\ f \in Cells
         /\ \A c \in Caches, k \in Keys : flights[c][k] # f
         /\ \A v \in Workers : \A i \in DOMAIN stack[v] : stack[v][i].flight # f
BY DEF Free

\* LoadOrCompute opens a flight for a key that is neither stored nor in flight.
LEMMA OpenKeepsCalls ==
  ASSUME IInv, NEW w \in Workers, Open(w)
  PROVE  CallsAndFlights' /\ stack' \in [Workers -> Seq(Frames)]
<1> DEFINE n == Len(stack[w])
           c == Top(w).cache
           k == Top(w).key
<1> USE DEF IInv, CallsAndFlights
<1>1. PICK f \in Free :
        /\ flights' = [flights EXCEPT ![c][k] = f]
        /\ flight' = [flight EXCEPT ![f] = NewFlight]
        /\ stack' = [stack EXCEPT ![w] = Append(Front(@), [Top(w) EXCEPT !.at = "compute", !.flight = f])]
  BY DEF Open, SetTop
<1>2. /\ f \in Cells
      /\ \A d \in Caches, j \in Keys : flights[d][j] # f
      /\ \A v \in Workers : \A i \in DOMAIN stack[v] : stack[v][i].flight # f
  BY FreshFlight
<1>3. stack[w] # <<>> /\ w \notin panicking /\ Top(w).at = "lookup"
      /\ k \notin values[c] /\ flights[c][k] = None /\ UNCHANGED <<values, panicking>>
  BY DEF Open, At, MayOpen
<1>4. /\ stack[w] \in Seq(Frames)
      /\ n \in {1, 2}
      /\ DOMAIN stack[w] = 1 .. n
      /\ n \in DOMAIN stack[w]
      /\ stack[w][n] = Top(w)
      /\ Top(w) \in Frames
      /\ c \in Caches
      /\ k \in Keys
  BY <1>3, TopFrame
<1> DEFINE g == [Top(w) EXCEPT !.at = "compute", !.flight = f]
           t == Append(Front(stack[w]), g)
<1>5. g \in Frames /\ g.at = "compute" /\ g.flight = f /\ g.cache = c /\ g.key = k
  BY <1>2, <1>4 DEF Frames, LoadLabels
<1>6. stack' = [stack EXCEPT ![w] = t]
  BY <1>1
<1> HIDE DEF g
<1>7. /\ t \in Seq(Frames)
      /\ Len(t) = n
      /\ \A i \in 1 .. n : t[i] = IF i = n THEN g ELSE stack[w][i]
  BY <1>3, <1>4, <1>5, TopReplaced
<1> HIDE DEF t, n, c, k
<1>8. DOMAIN t = 1 .. n
  BY <1>7, LenProperties
<1>9. stack'[w] = t /\ \A v \in Workers \ {w} : stack'[v] = stack[v]
  BY <1>6 DEF TypeOK
<1>10. /\ flights'[c][k] = f
       /\ \A d \in Caches, j \in Keys : d # c \/ j # k => flights'[d][j] = flights[d][j]
       /\ flight'[f] = NewFlight
       /\ \A h \in Cells \ {f} : flight'[h] = flight[h]
  BY <1>1, <1>2, <1>4 DEF TypeOK
<1>11. stack' \in [Workers -> Seq(Frames)]
  BY <1>6, <1>7 DEF TypeOK
<1>12. CallsNest'
  <2>1. Len(t) <= 2
    BY <1>4, <1>7
  <2>2. ASSUME Len(t) = 2
        PROVE  /\ t[1].cache = "sets"
               /\ t[1].at \in {"compute", "load"}
               /\ t[2].cache = "volumes"
    <3>1. n = 2 /\ t[1] = stack[w][1] /\ t[2] = g
      BY <2>2, <1>7
    <3> QED
      BY <3>1, <1>4, <1>5 DEF CallsNest, n, c
  <2> QED
    BY <2>1, <2>2, <1>9 DEF CallsNest
<1>13. PanicsInComputation'
  BY <1>3, <1>9 DEF PanicsInComputation, Top, TypeOK
<1>14. ~ Opening(stack[w][n]) /\ stack[w][n].at # "wait"
  BY <1>3, <1>4 DEF Opening
\* Every other call is as before, and what it has opened is not the new flight.
<1>15. ASSUME NEW v \in Workers, NEW i \in DOMAIN stack'[v], v # w \/ i # n
       PROVE  i \in DOMAIN stack[v] /\ stack'[v][i] = stack[v][i]
  BY <1>4, <1>7, <1>8, <1>9, <1>15
<1>16. stack'[w][n] = g /\ n \in DOMAIN stack'[w]
  BY <1>4, <1>7, <1>8, <1>9
<1>17. \A v \in Workers : \A i \in DOMAIN stack[v] :
         stack[v][i].cache \in Caches /\ stack[v][i].key \in Keys
  <2> SUFFICES ASSUME NEW v \in Workers, NEW i \in DOMAIN stack[v] PROVE stack[v][i] \in Frames
    BY DEF Frames
  <2>1. stack[v] \in Seq(Frames)
    BY DEF TypeOK
  <2> QED
    BY <2>1, LenProperties
<1>18. ASSUME NEW v \in Workers, NEW i \in DOMAIN stack[v], Opening(stack[v][i])
       PROVE  stack[v][i].cache # c \/ stack[v][i].key # k
  BY <1>3, <1>18, NoneAssumption DEF OpenersHoldFlight, c, k
<1>19. OpenersHoldFlight'
  <2> SUFFICES ASSUME NEW v \in Workers, NEW i \in DOMAIN stack'[v], Opening(stack'[v][i])
               PROVE  LET frame == stack'[v][i] IN
                        /\ frame.flight \in Cells
                        /\ flights'[frame.cache][frame.key] = frame.flight
                        /\ frame.cache = "plans" => frame.key \notin values'["plans"]
    BY DEF OpenersHoldFlight
  <2>1. CASE v = w /\ i = n
    BY <2>1, <1>2, <1>3, <1>5, <1>10, <1>16 DEF c, k
  <2>2. CASE v # w \/ i # n
    BY <2>2, <1>3, <1>10, <1>15, <1>17, <1>18 DEF OpenersHoldFlight
  <2> QED
    BY <2>1, <2>2
<1>20. OneOpener'
  <2> SUFFICES ASSUME NEW u \in Workers, NEW v \in Workers,
                      NEW h \in DOMAIN stack'[u], NEW i \in DOMAIN stack'[v],
                      Opening(stack'[u][h]), Opening(stack'[v][i]),
                      stack'[u][h].cache = stack'[v][i].cache,
                      stack'[u][h].key = stack'[v][i].key
               PROVE  u = v /\ h = i
    BY DEF OneOpener
  <2>1. CASE (u # w \/ h # n) /\ (v # w \/ i # n)
    BY <2>1, <1>15 DEF OneOpener
  <2>2. CASE u = w /\ h = n /\ (v # w \/ i # n)
    BY <2>2, <1>5, <1>15, <1>16, <1>18
  <2>3. CASE v = w /\ i = n /\ (u # w \/ h # n)
    BY <2>3, <1>5, <1>15, <1>16, <1>18
  <2> QED
    BY <2>1, <2>2, <2>3
<1>21. FlightsOpen'
  <2> SUFFICES ASSUME NEW d \in Caches, NEW j \in Keys, flights'[d][j] # None
               PROVE  /\ ~ flight'[flights'[d][j]].done
                      /\ \A e \in Caches, h \in Keys :
                           flights'[e][h] = flights'[d][j] => e = d /\ h = j
                      /\ \E v \in Workers : \E i \in DOMAIN stack'[v] :
                           /\ Opening(stack'[v][i])
                           /\ stack'[v][i].cache = d
                           /\ stack'[v][i].key = j
    BY DEF FlightsOpen
  <2>1. CASE d = c /\ j = k
    <3>1. ~ flight'[flights'[d][j]].done
      BY <2>1, <1>10 DEF NewFlight
    <3>2. \A e \in Caches, h \in Keys : flights'[e][h] = flights'[d][j] => e = d /\ h = j
      BY <2>1, <1>2, <1>10
    <3>3. Opening(stack'[w][n]) /\ stack'[w][n].cache = d /\ stack'[w][n].key = j
      BY <2>1, <1>5, <1>16 DEF Opening
    <3> QED
      BY <3>1, <3>2, <3>3, <1>16
  <2>2. CASE d # c \/ j # k
    <3>1. flights'[d][j] = flights[d][j] /\ flights[d][j] \in Cells /\ flights[d][j] # f
      BY <2>2, <1>2, <1>10 DEF TypeOK
    <3>2. ~ flight'[flights'[d][j]].done
      BY <3>1, <1>10, NoneAssumption DEF FlightsOpen
    <3>3. \A e \in Caches, h \in Keys : flights'[e][h] = flights'[d][j] => e = d /\ h = j
      BY <3>1, <1>2, <1>10, NoneAssumption DEF FlightsOpen
    <3>4. PICK v \in Workers : \E i \in DOMAIN stack[v] :
            Opening(stack[v][i]) /\ stack[v][i].cache = d /\ stack[v][i].key = j
      BY <3>1, NoneAssumption DEF FlightsOpen
    <3>5. PICK i \in DOMAIN stack[v] :
            Opening(stack[v][i]) /\ stack[v][i].cache = d /\ stack[v][i].key = j
      BY <3>4
    <3>6. v # w \/ i # n
      BY <3>5, <1>14
    <3>7. i \in DOMAIN stack'[v] /\ stack'[v][i] = stack[v][i]
      BY <3>6, <1>4, <1>7, <1>8, <1>9
    <3> QED
      BY <3>2, <3>3, <3>5, <3>7
  <2> QED
    BY <2>1, <2>2
<1>22. WaitersJoined'
  <2> SUFFICES ASSUME NEW v \in Workers, NEW i \in DOMAIN stack'[v],
                      stack'[v][i].at = "wait"
               PROVE  LET frame == stack'[v][i] IN
                        /\ frame.flight \in Cells
                        /\ ~ flight'[frame.flight].done =>
                             flights'[frame.cache][frame.key] = frame.flight
    BY DEF WaitersJoined
  <2>1. v # w \/ i # n
    BY <1>5, <1>16
  <2>2. i \in DOMAIN stack[v] /\ stack'[v][i] = stack[v][i]
    BY <2>1, <1>15
  <2>3. stack[v][i].flight \in Cells /\ stack[v][i].flight # f
    BY <2>2, <1>2 DEF WaitersJoined
  <2>4. ~ flight[stack[v][i].flight].done =>
          flights[stack[v][i].cache][stack[v][i].key] = stack[v][i].flight
    BY <2>2 DEF WaitersJoined
  <2> QED
    BY <2>2, <2>3, <2>4, <1>3, <1>10, <1>17, NoneAssumption
<1> QED
  BY <1>11, <1>12, <1>13, <1>19, <1>20, <1>21, <1>22

\* A call returns to the computation that made it, which goes on to publish, or
\* to populateBiomeVolume, which goes on to store.
LEMMA Returned ==
  ASSUME IInv, NEW w \in Workers, stack[w] # <<>>, Return(w)
  PROVE  \E t \in Seq(Frames) :
           /\ stack' = [stack EXCEPT ![w] = t]
           /\ Len(t) = Len(stack[w]) - 1
           /\ \A i \in DOMAIN t : /\ i \in DOMAIN stack[w] /\ i # Len(stack[w])
                                /\ SameOpening(t[i], stack[w][i])
                                /\ t[i].at # "wait"
<1> USE DEF IInv
<1>1. /\ stack[w] \in Seq(Frames)
      /\ Len(stack[w]) \in {1, 2}
      /\ DOMAIN stack[w] = 1 .. Len(stack[w])
  BY TopFrame
<1>2. /\ Front(stack[w]) \in Seq(Frames)
      /\ Len(Front(stack[w])) = Len(stack[w]) - 1
      /\ \A i \in 1 .. Len(stack[w]) - 1 : Front(stack[w])[i] = stack[w][i]
  BY <1>1, TopPopped
<1>3. CASE Len(stack[w]) = 1
  <2>1. Front(stack[w]) = <<>>
    BY <1>2, <1>3, EmptySeq
  <2>2. stack' = [stack EXCEPT ![w] = <<>>]
    BY <2>1 DEF Return
  <2> DEFINE t == <<>>
  <2>3. t \in Seq(Frames) /\ Len(t) = 0 /\ DOMAIN t = {}
    OBVIOUS
  <2>4. Len(t) = Len(stack[w]) - 1
    BY <2>3, <1>3
  <2> HIDE DEF t
  <2> QED
    BY <2>2, <2>3, <2>4 DEF t
<1>4. CASE Len(stack[w]) = 2
  <2> DEFINE outer == stack[w][1]
             t == Append(Front(Front(stack[w])), Resumed(outer))
  <2>1. Front(stack[w]) # <<>> /\ Last(Front(stack[w])) = outer
    BY <1>2, <1>4 DEF Last
  <2>2. stack' = [stack EXCEPT ![w] = t]
    BY <2>1 DEF Return
  <2>3. outer \in Frames /\ outer.at \in {"compute", "load"}
    BY <1>1, <1>4, LenProperties DEF CallsNest
  <2> HIDE DEF outer
  <2>4. /\ Resumed(outer) \in Frames
        /\ SameOpening(Resumed(outer), outer)
        /\ Resumed(outer).at # "wait"
    <3>1. Resumed(outer) \in Frames
      BY <2>3 DEF Resumed, Frames, LoadLabels, PopulateLabels
    <3> QED
      BY <2>3, <3>1 DEF Resumed, SameOpening, Opening
  <2>5. /\ t \in Seq(Frames)
        /\ Len(t) = 1
        /\ \A i \in 1 .. 1 : t[i] = Resumed(outer)
    <3>1. Len(Front(stack[w])) = 1
      BY <1>2, <1>4
    <3>2. /\ t \in Seq(Frames)
          /\ Len(t) = Len(Front(stack[w]))
          /\ \A i \in 1 .. Len(Front(stack[w])) :
               t[i] = IF i = Len(Front(stack[w])) THEN Resumed(outer) ELSE Front(stack[w])[i]
      BY <1>2, <2>1, <2>4, TopReplaced
    <3> QED
      BY <3>1, <3>2
  <2> HIDE DEF t
  <2>6. DOMAIN t = {1} /\ t[1] = Resumed(outer)
    BY <2>5, LenProperties
  <2>7. 1 \in DOMAIN stack[w] /\ 1 # Len(stack[w]) /\ Len(t) = Len(stack[w]) - 1
    BY <1>1, <1>4, <2>5
  <2>8. \A i \in DOMAIN t : /\ i \in DOMAIN stack[w] /\ i # Len(stack[w])
                           /\ SameOpening(t[i], stack[w][i])
                           /\ t[i].at # "wait"
    BY <2>4, <2>6, <2>7 DEF outer
  <2> QED
    BY <2>2, <2>5, <2>7, <2>8
<1> QED
  BY <1>1, <1>3, <1>4

\* A call that has opened nothing returns.
LEMMA ReturnKeepsCalls ==
  ASSUME IInv, NEW w \in Workers, stack[w] # <<>>, w \notin panicking, ~ Opening(Top(w)),
         Return(w), UNCHANGED <<flights, flight, panicking>>, values'["plans"] = values["plans"]
  PROVE  CallsAndFlights' /\ stack' \in [Workers -> Seq(Frames)]
<1>1. PICK t \in Seq(Frames) :
           /\ stack' = [stack EXCEPT ![w] = t]
           /\ Len(t) = Len(stack[w]) - 1
           /\ \A i \in DOMAIN t : /\ i \in DOMAIN stack[w] /\ i # Len(stack[w])
                                /\ SameOpening(t[i], stack[w][i])
                                /\ t[i].at # "wait"
  BY Returned
<1>2. /\ Len(stack[w]) \in {1, 2}
      /\ DOMAIN stack[w] = 1 .. Len(stack[w])
      /\ Top(w) = stack[w][Len(stack[w])]
  BY TopFrame DEF IInv
<1>3. Len(t) <= 1 /\ DOMAIN t = 1 .. Len(t)
  BY <1>1, <1>2, LenProperties
<1>4. \A i \in DOMAIN stack[w] \ DOMAIN t : ~ Opening(stack[w][i])
  <2> SUFFICES ASSUME NEW i \in DOMAIN stack[w] \ DOMAIN t PROVE i = Len(stack[w])
    BY <1>2
  <2> QED
    BY <1>1, <1>2, <1>3
<1>5. CallsAndFlights'
  <2>1. Len(t) <= 2 /\ Len(t) # 2
    BY <1>3, LenProperties, SMTT(30)
  <2> QED
    BY <1>1, <1>4, <2>1, CallsMove DEF IInv, CallsAndFlights
<1>6. stack' \in [Workers -> Seq(Frames)]
  BY <1>1 DEF IInv, TypeOK
<1> QED
  BY <1>5, <1>6

\* A call that has opened nothing goes on without opening anything.
LEMMA GoOnKeepsCalls ==
  ASSUME IInv, NEW w \in Workers, stack[w] # <<>>, w \notin panicking,
         NEW f \in Frames, SetTop(w, f), SameOpening(f, Top(w)), f.cache = Top(w).cache,
         f.at = "wait" => /\ f.flight \in Cells
                          /\ ~ flight[f.flight].done => flights[f.cache][f.key] = f.flight,
         UNCHANGED <<values, flights, flight, panicking>>
  PROVE  CallsAndFlights' /\ stack' \in [Workers -> Seq(Frames)]
<1> DEFINE n == Len(stack[w])
           t == Append(Front(stack[w]), f)
<1>1. /\ stack[w] \in Seq(Frames)
      /\ n \in {1, 2}
      /\ DOMAIN stack[w] = 1 .. n
      /\ stack[w][n] = Top(w)
  BY TopFrame DEF IInv
<1>2. /\ t \in Seq(Frames)
      /\ Len(t) = n
      /\ \A i \in 1 .. n : t[i] = IF i = n THEN f ELSE stack[w][i]
  BY <1>1, TopReplaced
<1>3. stack' = [stack EXCEPT ![w] = t]
  BY DEF SetTop
<1> HIDE DEF t, n
<1>4. DOMAIN t = 1 .. n
  BY <1>2, LenProperties
<1>5. Len(t) <= 2
  BY <1>1, <1>2
<1>6. ASSUME Len(t) = 2
      PROVE  /\ t[1].cache = "sets"
             /\ t[1].at \in {"compute", "load"}
             /\ t[2].cache = "volumes"
  <2>1. n = 2 /\ t[1] = stack[w][1] /\ t[2] = f
    BY <1>2, <1>6
  <2> QED
    BY <2>1, <1>1 DEF IInv, CallsNest, n
<1>7. \A i \in DOMAIN t : i \in DOMAIN stack[w] /\ SameOpening(t[i], stack[w][i])
  BY <1>1, <1>2, <1>4 DEF SameOpening
<1>8. \A i \in DOMAIN t : t[i].at = "wait" =>
         /\ t[i].flight \in Cells
         /\ ~ flight[t[i].flight].done => flights[t[i].cache][t[i].key] = t[i].flight
  BY <1>1, <1>2, <1>4 DEF IInv, WaitersJoined
<1>9. CallsAndFlights'
  BY <1>1, <1>2, <1>3, <1>4, <1>5, <1>6, <1>7, <1>8, CallsMove DEF IInv, CallsAndFlights
<1>10. stack' \in [Workers -> Seq(Frames)]
  BY <1>2, <1>3 DEF IInv, TypeOK
<1> QED
  BY <1>9, <1>10

-----------------------------------------------------------------------------
\* The types hold after a step of a goroutine that does not panic.
LEMMA TypeKept ==
  ASSUME TypeOK, NEW w \in Workers, w \notin panicking, UNCHANGED <<panicking, panics>>,
         stack' \in [Workers -> Seq(Frames)],
         \A v \in Workers \ {w} : stack'[v] = stack[v],
         values' \in [Caches -> SUBSET Keys],
         order' \in [Caches -> Seq(Keys)],
         \A c \in Caches : Len(order'[c]) <= Cap,
         flights' \in [Caches -> [Keys -> Cells \cup {None}]],
         flight' \in [Cells -> [done : BOOLEAN, ok : BOOLEAN]]
  PROVE  TypeOK'
BY DEF TypeOK

\* All caches and stacks are empty at first.
LEMMA InitInductive == Init => IInv
<1> SUFFICES ASSUME Init PROVE IInv
  OBVIOUS
<1>1. TypeOK
  BY CapAssumption, PanicsAssumption DEF Init, TypeOK, NewFlight
<1>2. QueueMatchesMap
  BY DEF Init, QueueMatchesMap, IsInjective, ToSet
<1>3. CallsNest /\ PanicsInComputation /\ OpenersHoldFlight /\ OneOpener
  BY DEF Init, CallsNest, PanicsInComputation, OpenersHoldFlight, OneOpener
<1>4. FlightsOpen /\ WaitersJoined
  BY DEF Init, FlightsOpen, WaitersJoined
<1> QED
  BY <1>1, <1>2, <1>3, <1>4 DEF IInv

\* A goroutine makes a request.
LEMMA AskKeepsIInv ==
  ASSUME IInv, NEW w \in Workers, NEW kind \in RequestKinds, NEW k \in Keys, Ask(w, kind, k)
  PROVE  IInv'
<1> DEFINE t == Calls(kind, k)
<1>1. /\ stack[w] = <<>>
      /\ stack' = [stack EXCEPT ![w] = t]
      /\ UNCHANGED <<values, order, flights, flight, panicking, panics>>
  BY DEF Ask
<1>2. w \notin panicking /\ DOMAIN stack[w] = {}
  BY <1>1 DEF IInv, TypeOK
<1>3. \A c \in Caches : \A label \in LoadLabels \cup PopulateLabels :
        /\ Frame(c, k, label) \in Frames
        /\ Frame(c, k, label).cache = c
        /\ Frame(c, k, label).at = label
  BY DEF Frame, Frames
<1>4. /\ t \in Seq(Frames)
      /\ Len(t) <= 2
      /\ Len(t) = 2 => /\ t[1].cache = "sets"
                       /\ t[1].at \in {"compute", "load"}
                       /\ t[2].cache = "volumes"
      /\ \A i \in 1 .. Len(t) : t[i].at \in {"lookup", "load"}
  <2>1. CASE kind = "populate"
    <3>1. t = <<Frame("sets", k, "load"), Frame("volumes", k, "lookup")>>
      BY <2>1 DEF Calls
    <3>2. Frame("sets", k, "load") \in Frames /\ Frame("volumes", k, "lookup") \in Frames
      BY <1>3 DEF Caches, LoadLabels, PopulateLabels
    <3> HIDE DEF t
    <3>3. t \in Seq(Frames) /\ Len(t) = 2
      BY <3>1, <3>2
    <3>4. t[1] = Frame("sets", k, "load") /\ t[2] = Frame("volumes", k, "lookup")
      BY <3>1
    <3>5. \A i \in 1 .. 2 : i = 1 \/ i = 2
      OBVIOUS
    <3> QED
      BY <3>3, <3>4, <3>5, <1>3 DEF Caches, LoadLabels, PopulateLabels
  <2>2. CASE kind # "populate"
    <3>1. PICK c \in Caches : t = <<Frame(c, k, "lookup")>>
      BY <2>2 DEF Calls, RequestKinds, Caches
    <3>2. Frame(c, k, "lookup") \in Frames /\ Frame(c, k, "lookup").at = "lookup"
      BY <1>3 DEF LoadLabels
    <3> HIDE DEF t
    <3>3. t \in Seq(Frames) /\ Len(t) = 1 /\ t[1] = Frame(c, k, "lookup")
      BY <3>1, <3>2
    <3>4. \A i \in 1 .. 1 : i = 1
      OBVIOUS
    <3> QED
      BY <3>2, <3>3, <3>4
  <2> QED
    BY <2>1, <2>2
<1> HIDE DEF t
<1>5. DOMAIN t = 1 .. Len(t) /\ \A i \in DOMAIN t : ~ Opening(t[i]) /\ t[i].at # "wait"
  BY <1>4, LenProperties DEF Opening
<1>6. CallsAndFlights'
  BY <1>1, <1>2, <1>4, <1>5, CallsMove DEF IInv, CallsAndFlights
<1>7. TypeOK'
  BY <1>1, <1>2, <1>4 DEF IInv, TypeOK
<1>8. QueueMatchesMap'
  BY <1>1 DEF IInv, QueueMatchesMap
<1> QED
  BY <1>6, <1>7, <1>8 DEF IInv, CallsAndFlights

\* A stored value is returned.
LEMMA HitKeepsIInv ==
  ASSUME IInv, NEW w \in Workers, Hit(w)
  PROVE  IInv'
<1>1. /\ stack[w] # <<>>
      /\ w \notin panicking
      /\ ~ Opening(Top(w))
      /\ Return(w)
      /\ UNCHANGED <<values, order, flights, flight, panicking, panics>>
  BY DEF Hit, At, Opening
<1>2. CallsAndFlights' /\ stack' \in [Workers -> Seq(Frames)]
  BY <1>1, ReturnKeepsCalls
<1>3. \A v \in Workers \ {w} : stack'[v] = stack[v]
  BY <1>1 DEF Return, IInv, TypeOK
<1>4. TypeOK'
  BY <1>1, <1>2, <1>3, TypeKept DEF IInv, TypeOK
<1>5. QueueMatchesMap'
  BY <1>1 DEF IInv, QueueMatchesMap
<1> QED
  BY <1>2, <1>4, <1>5 DEF IInv, CallsAndFlights

\* A step of the innermost call that goes on without opening anything.
LEMMA GoOnKeepsIInv ==
  ASSUME IInv, NEW w \in Workers, stack[w] # <<>>, w \notin panicking,
         NEW f \in Frames, SetTop(w, f), SameOpening(f, Top(w)), f.cache = Top(w).cache,
         f.at = "wait" => /\ f.flight \in Cells
                          /\ ~ flight[f.flight].done => flights[f.cache][f.key] = f.flight,
         UNCHANGED <<values, order, flights, flight, panicking, panics>>
  PROVE  IInv'
<1>1. CallsAndFlights' /\ stack' \in [Workers -> Seq(Frames)]
  BY GoOnKeepsCalls
<1>2. \A v \in Workers \ {w} : stack'[v] = stack[v]
  BY DEF SetTop, IInv, TypeOK
<1>3. TypeOK'
  BY <1>1, <1>2, TypeKept DEF IInv, TypeOK
<1>4. QueueMatchesMap'
  BY DEF IInv, QueueMatchesMap
<1> QED
  BY <1>1, <1>3, <1>4 DEF IInv, CallsAndFlights

\* A flight in the map is joined.
LEMMA JoinKeepsIInv ==
  ASSUME IInv, NEW w \in Workers, Join(w)
  PROVE  IInv'
<1> DEFINE g == flights[Top(w).cache][Top(w).key]
           f == [Top(w) EXCEPT !.at = "wait", !.flight = g]
<1>1. /\ stack[w] # <<>> /\ w \notin panicking /\ Top(w).at = "lookup"
      /\ g # None
      /\ SetTop(w, f)
      /\ UNCHANGED <<values, order, flights, flight, panicking, panics>>
  BY DEF Join, At
<1>2. Top(w) \in Frames /\ Top(w).cache \in Caches /\ Top(w).key \in Keys
  BY <1>1, TopFrame DEF IInv
<1>3. g \in Cells
  BY <1>1, <1>2 DEF IInv, TypeOK
<1>4. f \in Frames /\ f.at = "wait" /\ f.flight = g /\ f.cache = Top(w).cache /\ f.key = Top(w).key
  BY <1>2, <1>3 DEF Frames, LoadLabels
<1>5. SameOpening(f, Top(w))
  BY <1>1, <1>4 DEF SameOpening, Opening
<1>6. f.flight \in Cells /\ flights[f.cache][f.key] = f.flight
  BY <1>3, <1>4
<1> HIDE DEF f
<1> QED
  BY <1>1, <1>4, <1>5, <1>6, GoOnKeepsIInv

\* LoadOrCompute opens a flight.
LEMMA OpenKeepsIInv ==
  ASSUME IInv, NEW w \in Workers, Open(w)
  PROVE  IInv'
<1>1. CallsAndFlights' /\ stack' \in [Workers -> Seq(Frames)]
  BY OpenKeepsCalls
<1>2. /\ stack[w] # <<>> /\ w \notin panicking
      /\ UNCHANGED <<values, order, panicking, panics>>
  BY DEF Open, At
<1>3. \A v \in Workers \ {w} : stack'[v] = stack[v]
  BY DEF Open, SetTop, IInv, TypeOK
<1>4. PICK f \in Free : /\ flights' = [flights EXCEPT ![Top(w).cache][Top(w).key] = f]
                       /\ flight' = [flight EXCEPT ![f] = NewFlight]
  BY DEF Open
<1>5. f \in Cells /\ Top(w).cache \in Caches /\ Top(w).key \in Keys
  BY <1>2, FreshFlight, TopFrame DEF IInv
<1>6. /\ flights' \in [Caches -> [Keys -> Cells \cup {None}]]
      /\ flight' \in [Cells -> [done : BOOLEAN, ok : BOOLEAN]]
  BY <1>4, <1>5 DEF NewFlight, IInv, TypeOK
<1>7. TypeOK'
  BY <1>1, <1>2, <1>3, <1>6, TypeKept DEF IInv, TypeOK
<1>8. QueueMatchesMap'
  BY <1>2 DEF IInv, QueueMatchesMap
<1> QED
  BY <1>1, <1>7, <1>8 DEF IInv, CallsAndFlights

\* A flight is closed: its value is returned, or the call starts over.
LEMMA AwakenKeepsIInv ==
  ASSUME IInv, NEW w \in Workers, Awaken(w)
  PROVE  IInv'
<1> DEFINE f == Frame(Top(w).cache, Top(w).key, "lookup")
<1>1. /\ stack[w] # <<>> /\ w \notin panicking /\ Top(w).at = "wait"
      /\ ~ Opening(Top(w))
      /\ UNCHANGED <<values, order, flights, flight, panicking, panics>>
  BY DEF Awaken, At, Opening
<1>2. CASE Return(w)
  <2>1. CallsAndFlights' /\ stack' \in [Workers -> Seq(Frames)]
    BY <1>1, <1>2, ReturnKeepsCalls
  <2>2. \A v \in Workers \ {w} : stack'[v] = stack[v]
    BY <1>2 DEF Return, IInv, TypeOK
  <2>3. TypeOK'
    BY <1>1, <2>1, <2>2, TypeKept DEF IInv, TypeOK
  <2>4. QueueMatchesMap'
    BY <1>1 DEF IInv, QueueMatchesMap
  <2> QED
    BY <2>1, <2>3, <2>4 DEF IInv, CallsAndFlights
<1>3. CASE SetTop(w, f)
  <2>1. Top(w).cache \in Caches /\ Top(w).key \in Keys
    BY <1>1, TopFrame DEF IInv
  <2>2. f \in Frames /\ f.at = "lookup" /\ f.cache = Top(w).cache
    BY <2>1 DEF Frame, Frames, LoadLabels
  <2>3. SameOpening(f, Top(w))
    BY <1>1, <2>2 DEF SameOpening, Opening
  <2> HIDE DEF f
  <2> QED
    BY <1>1, <1>3, <2>2, <2>3, GoOnKeepsIInv
<1> QED
  BY <1>2, <1>3 DEF Awaken

\* The computation of a set calls for the volume; any other goes on to publish.
LEMMA ComputeKeepsIInv ==
  ASSUME IInv, NEW w \in Workers, Compute(w)
  PROVE  IInv'
<1>1. /\ stack[w] # <<>> /\ w \notin panicking /\ Top(w).at = "compute"
      /\ UNCHANGED <<values, order, flights, flight, panicking, panics>>
  BY DEF Compute, At
<1>2. /\ stack[w] \in Seq(Frames)
      /\ Len(stack[w]) \in {1, 2}
      /\ DOMAIN stack[w] = 1 .. Len(stack[w])
      /\ Top(w) = stack[w][Len(stack[w])]
      /\ Top(w) \in Frames
      /\ Top(w).key \in Keys
  BY <1>1, TopFrame DEF IInv
<1>3. CASE SetTop(w, [Top(w) EXCEPT !.at = "publish"])
  <2> DEFINE f == [Top(w) EXCEPT !.at = "publish"]
  <2>1. f \in Frames /\ f.at = "publish" /\ f.cache = Top(w).cache
        /\ f.key = Top(w).key /\ f.flight = Top(w).flight
    BY <1>2 DEF Frames, LoadLabels
  <2>2. SameOpening(f, Top(w))
    BY <1>1, <2>1 DEF SameOpening, Opening
  <2>3. SetTop(w, f)
    BY <1>3
  <2> HIDE DEF f
  <2> QED
    BY <1>1, <2>1, <2>2, <2>3, GoOnKeepsIInv
<1>4. ASSUME NEW c \in Nested(Top(w).cache),
             stack' = [stack EXCEPT ![w] = Append(@, Frame(c, Top(w).key, "lookup"))]
      PROVE  IInv'
  <2> DEFINE s == stack[w]
             f == Frame(c, Top(w).key, "lookup")
             t == Append(s, f)
  <2>1. Top(w).cache = "sets" /\ c = "volumes"
    BY <1>4 DEF Nested
  <2>2. Len(s) = 1
    BY <1>2, <2>1 DEF IInv, CallsNest
  <2>3. f \in Frames /\ f.at = "lookup" /\ f.cache = "volumes"
    BY <1>2, <2>1 DEF Frame, Frames, Caches, LoadLabels
  <2>4. stack' = [stack EXCEPT ![w] = t]
    BY <1>4
  <2> HIDE DEF f
  <2>5. t \in Seq(Frames) /\ Len(t) = 2 /\ t[1] = s[1] /\ t[2] = f
    <3>1. /\ t \in Seq(Frames)
          /\ Len(t) = Len(s) + 1
          /\ \A i \in 1 .. Len(s) : t[i] = s[i]
          /\ t[Len(s) + 1] = f
      BY <1>2, <2>3, AppendProperties
    <3> HIDE DEF s, t
    <3> QED
      BY <2>2, <3>1
  <2> HIDE DEF t
  <2>6. DOMAIN t = {1, 2} /\ DOMAIN s = {1} /\ s[1] = Top(w)
    BY <1>2, <2>2, <2>5, LenProperties
  <2>7. ~ Opening(f) /\ f.at # "wait" /\ t[1].at # "wait"
    BY <1>1, <2>3, <2>5, <2>6 DEF Opening
  <2>8. SameOpening(t[1], s[1])
    BY <2>5 DEF SameOpening
  <2>9. /\ t[1].cache = "sets"
        /\ t[1].at \in {"compute", "load"}
        /\ t[2].cache = "volumes"
    BY <1>1, <2>1, <2>3, <2>5, <2>6
  <2>10. /\ \A i \in DOMAIN t : i \in DOMAIN s => SameOpening(t[i], s[i])
         /\ \A i \in DOMAIN t \ DOMAIN s : ~ Opening(t[i])
         /\ \A i \in DOMAIN s \ DOMAIN t : ~ Opening(s[i])
         /\ \A i \in DOMAIN t : t[i].at # "wait"
         /\ Len(t) <= 2
    BY <2>5, <2>6, <2>7, <2>8
  <2>11. CallsAndFlights'
    BY <1>1, <2>4, <2>5, <2>9, <2>10, CallsMove DEF IInv, CallsAndFlights
  <2>12. TypeOK'
    <3>1. stack' \in [Workers -> Seq(Frames)] /\ \A v \in Workers \ {w} : stack'[v] = stack[v]
      BY <2>4, <2>5 DEF IInv, TypeOK
    <3> QED
      BY <1>1, <3>1, TypeKept DEF IInv, TypeOK
  <2>13. QueueMatchesMap'
    BY <1>1 DEF IInv, QueueMatchesMap
  <2> QED
    BY <2>11, <2>12, <2>13 DEF IInv, CallsAndFlights
<1> QED
  BY <1>3, <1>4 DEF Compute

\* A computation panics.
LEMMA PanicKeepsIInv ==
  ASSUME IInv, NEW w \in Workers, Panic(w)
  PROVE  IInv'
<1> USE DEF IInv
<1>1. /\ stack[w] # <<>>
      /\ Top(w).at = "compute"
      /\ panicking' = panicking \cup {w}
      /\ panics' = panics + 1
      /\ panics < MaxPanics
      /\ UNCHANGED <<values, order, flights, flight, stack>>
  BY DEF Panic, At
<1>2. TypeOK'
  BY <1>1, PanicsAssumption DEF TypeOK
<1>3. QueueMatchesMap' /\ CallsNest' /\ OpenersHoldFlight' /\ OneOpener' /\ FlightsOpen'
      /\ WaitersJoined'
  BY <1>1 DEF QueueMatchesMap, CallsNest, OpenersHoldFlight, OneOpener, FlightsOpen, WaitersJoined
<1>4. PanicsInComputation'
  BY <1>1 DEF PanicsInComputation, Top
<1> QED
  BY <1>2, <1>3, <1>4

\* A panic leaves a call: a computation closes its flight on the way, and
\* populateBiomeVolume has none.
LEMMA UnwindKeepsIInv ==
  ASSUME IInv, NEW w \in Workers, Unwind(w)
  PROVE  IInv'
<1> DEFINE s == stack[w]
           t == Front(s)
<1>1. /\ w \in panicking
      /\ stack' = [stack EXCEPT ![w] = t]
      /\ panicking' = IF t = <<>> THEN panicking \ {w} ELSE panicking
      /\ UNCHANGED <<values, order, panics>>
  BY DEF Unwind, CallersLeft
<1>2. s # <<>> /\ Top(w).at \in {"compute", "load"}
  BY <1>1 DEF IInv, TypeOK, PanicsInComputation
<1>3. /\ s \in Seq(Frames)
      /\ Len(s) \in {1, 2}
      /\ DOMAIN s = 1 .. Len(s)
      /\ Len(s) \in DOMAIN s
      /\ s[Len(s)] = Top(w)
      /\ Top(w).cache \in Caches
      /\ Top(w).key \in Keys
  BY <1>2, TopFrame DEF IInv
<1>4. /\ t \in Seq(Frames)
      /\ Len(t) = Len(s) - 1
      /\ \A i \in 1 .. Len(s) - 1 : t[i] = s[i]
  BY <1>2, <1>3, TopPopped
<1> HIDE DEF t
<1>5. DOMAIN t = 1 .. Len(t) /\ (t # <<>> => Len(t) \in Nat \ {0})
  BY <1>4, EmptySeq, LenProperties
<1>6. ASSUME NEW i \in DOMAIN t
      PROVE  i = 1 /\ Len(s) = 2 /\ Len(t) = 1 /\ i \in DOMAIN s /\ t[i] = s[i]
  BY <1>3, <1>4, <1>5
<1>7. ASSUME NEW i \in DOMAIN t PROVE t[i].at \in {"compute", "load"} /\ SameOpening(t[i], s[i])
  BY <1>6 DEF IInv, CallsNest, SameOpening
<1>8. t # <<>> => Last(t).at \in {"compute", "load"}
  <2> SUFFICES ASSUME t # <<>> PROVE 1 \in DOMAIN t /\ Len(t) = 1
    BY <1>7 DEF Last
  <2> QED
    BY <1>3, <1>4, <1>5
<1>9. panicking' \subseteq panicking /\ (w \in panicking' => Last(t).at \in {"compute", "load"})
  BY <1>1, <1>8
<1>10. stack' \in [Workers -> Seq(Frames)]
       /\ stack'[w] = t
       /\ \A v \in Workers \ {w} : stack'[v] = stack[v]
  BY <1>1, <1>4 DEF IInv, TypeOK
<1>11. panicking' \subseteq {v \in Workers : stack'[v] # <<>>}
  BY <1>1, <1>10 DEF IInv, TypeOK
<1>12. QueueMatchesMap'
  BY <1>1 DEF IInv, QueueMatchesMap
<1>13. CASE Top(w).at = "compute"
  <2>1. /\ flights' = [flights EXCEPT ![Top(w).cache][Top(w).key] = None]
        /\ flight' = [flight EXCEPT ![Top(w).flight].done = TRUE]
    BY <1>13 DEF Unwind, LoadLabels
  <2>2. Opening(Top(w))
    BY <1>13 DEF Opening
  <2>3. Top(w).flight \in Cells
    BY <2>2, <1>3 DEF IInv, OpenersHoldFlight
  <2>4. /\ flight'[Top(w).flight].done
        /\ \A f \in Cells \ {Top(w).flight} : flight'[f] = flight[f]
        /\ flight' \in [Cells -> [done : BOOLEAN, ok : BOOLEAN]]
    BY <2>1, <2>3 DEF IInv, TypeOK
  <2>5. flights' \in [Caches -> [Keys -> Cells \cup {None}]]
    BY <2>1, <1>3 DEF IInv, TypeOK
  <2>6. TypeOK'
    BY <1>1, <1>10, <1>11, <2>4, <2>5 DEF IInv, TypeOK
  <2>7. \A i \in DOMAIN t : SameOpening(t[i], s[i]) /\ t[i].at # "wait"
    BY <1>7
  <2>8. CallsAndFlights'
    BY <1>1, <1>2, <1>4, <1>9, <2>1, <2>2, <2>4, <2>7, FlightCloses DEF IInv, CallsAndFlights
  <2> QED
    BY <1>12, <2>6, <2>8 DEF IInv, CallsAndFlights
<1>14. CASE Top(w).at = "load"
  <2>1. UNCHANGED <<flights, flight>>
    BY <1>14 DEF Unwind, LoadLabels
  <2>2. TypeOK'
    BY <1>1, <1>10, <1>11, <2>1 DEF IInv, TypeOK
  <2>3. \A i \in DOMAIN s \ DOMAIN t : ~ Opening(s[i])
    <3> SUFFICES ASSUME NEW i \in DOMAIN s \ DOMAIN t PROVE i = Len(s)
      BY <1>3, <1>14 DEF Opening
    <3> QED
      BY <1>3, <1>4, <1>5
  <2>4. Len(t) <= 2 /\ Len(t) # 2
    <3> HIDE DEF s
    <3> QED
      BY <1>3, <1>4
  <2>5. \A i \in DOMAIN t : i \in DOMAIN s /\ SameOpening(t[i], s[i]) /\ t[i].at # "wait"
    BY <1>6, <1>7
  <2>6. CallsAndFlights'
    BY <1>1, <1>4, <1>9, <2>1, <2>3, <2>4, <2>5, CallsMove DEF IInv, CallsAndFlights
  <2> QED
    BY <1>12, <2>2, <2>6 DEF IInv, CallsAndFlights
<1> QED
  BY <1>2, <1>13, <1>14

\* The value is stored and the flight closed; the ore plans and the rings store
\* without a second look.
LEMMA PublishKeepsIInv ==
  ASSUME IInv, NEW w \in Workers, Publish(w)
  PROVE  IInv'
<1> DEFINE c == Top(w).cache
           k == Top(w).key
           f == Top(w).flight
<1>1. /\ stack[w] # <<>> /\ w \notin panicking /\ Top(w).at = "publish"
      /\ flight' = [flight EXCEPT ![f] = [done |-> TRUE, ok |-> TRUE]]
      /\ flights' = [flights EXCEPT ![c][k] = None]
      /\ Return(w)
      /\ UNCHANGED <<panicking, panics>>
  BY DEF Publish, At
<1>2. /\ Len(stack[w]) \in DOMAIN stack[w]
      /\ stack[w][Len(stack[w])] = Top(w)
      /\ c \in Caches
      /\ k \in Keys
  BY <1>1, TopFrame DEF IInv
<1>3. Opening(Top(w)) /\ f \in Cells /\ (c = "plans" => k \notin values["plans"])
  BY <1>1, <1>2 DEF Opening, IInv, OpenersHoldFlight
<1>4. /\ values' \in [Caches -> SUBSET Keys]
      /\ order' \in [Caches -> Seq(Keys)]
      /\ \A d \in Caches : Len(order'[d]) <= Cap
      /\ QueueMatchesMap'
      /\ \A d \in Caches : values'[d] \subseteq values[d] \cup (IF d = c THEN {k} ELSE {})
  <2>1. CASE UNCHANGED <<values, order>>
    BY <2>1 DEF IInv, TypeOK, QueueMatchesMap
  <2>2. CASE Keep(c, k) /\ ~ (LooksAgain(c) /\ k \in values[c])
    <3>1. c = "rings" \/ k \notin values[c]
      BY <2>2, <1>2, <1>3 DEF LooksAgain, Caches
    <3> HIDE DEF c, k
    <3> QED
      BY <1>2, <2>2, <3>1, KeepKeepsQueue DEF IInv
  <2> QED
    BY <2>1, <2>2 DEF Publish
<1>5. "plans" \in Caches
  BY DEF Caches
<1>6. values'["plans"] \subseteq values["plans"] \cup (IF c = "plans" THEN {k} ELSE {})
  BY <1>4, <1>5
<1>7. PICK t \in Seq(Frames) :
           /\ stack' = [stack EXCEPT ![w] = t]
           /\ Len(t) = Len(stack[w]) - 1
           /\ \A i \in DOMAIN t : /\ i \in DOMAIN stack[w] /\ i # Len(stack[w])
                                /\ SameOpening(t[i], stack[w][i])
                                /\ t[i].at # "wait"
  BY <1>1, Returned
<1>8. /\ flight'[f].done
      /\ \A g \in Cells \ {f} : flight'[g] = flight[g]
      /\ flight' \in [Cells -> [done : BOOLEAN, ok : BOOLEAN]]
      /\ flights' \in [Caches -> [Keys -> Cells \cup {None}]]
  BY <1>1, <1>2, <1>3 DEF IInv, TypeOK
<1>9. CallsAndFlights'
  <2>1. \A i \in DOMAIN t : SameOpening(t[i], stack[w][i]) /\ t[i].at # "wait"
    BY <1>7
  <2>2. panicking' \subseteq panicking /\ (w \in panicking' => Last(t).at \in {"compute", "load"})
    BY <1>1
  <2>3. stack' = [stack EXCEPT ![w] = t] /\ Len(t) = Len(stack[w]) - 1
    BY <1>7
  <2> QED
    BY <1>1, <1>3, <1>6, <1>8, <2>1, <2>2, <2>3, FlightCloses, ZenonT(40) DEF IInv, CallsAndFlights
<1>10. stack' \in [Workers -> Seq(Frames)] /\ \A v \in Workers \ {w} : stack'[v] = stack[v]
  BY <1>7 DEF IInv, TypeOK
<1>11. TypeOK'
  BY <1>1, <1>4, <1>8, <1>10, TypeKept DEF IInv, TypeOK
<1> QED
  BY <1>4, <1>9, <1>11 DEF IInv, CallsAndFlights

\* populateBiomeVolume stores the set of its volume, past any flight.
LEMMA StoreKeepsIInv ==
  ASSUME IInv, NEW w \in Workers, Store(w)
  PROVE  IInv'
<1> DEFINE k == Top(w).key
<1>1. /\ stack[w] # <<>> /\ w \notin panicking /\ ~ Opening(Top(w))
      /\ Return(w)
      /\ UNCHANGED <<flights, flight, panicking, panics>>
  BY DEF Store, At, Opening
<1>2. k \in Keys /\ "sets" \in Caches /\ "plans" \in Caches
  BY <1>1, TopFrame DEF IInv, Caches
<1>3. /\ values' \in [Caches -> SUBSET Keys]
      /\ order' \in [Caches -> Seq(Keys)]
      /\ \A d \in Caches : Len(order'[d]) <= Cap
      /\ QueueMatchesMap'
      /\ values'["plans"] = values["plans"]
  <2>1. CASE UNCHANGED <<values, order>>
    BY <2>1 DEF IInv, TypeOK, QueueMatchesMap
  <2>2. CASE Keep("sets", k) /\ k \notin values["sets"]
    <3>1. values'["plans"] = values["plans"]
      BY <1>2, <2>2 DEF Keep, IInv, TypeOK
    <3> HIDE DEF k
    <3> QED
      BY <1>2, <2>2, <3>1, KeepKeepsQueue DEF IInv
  <2> QED
    BY <2>1, <2>2 DEF Store
<1>4. CallsAndFlights' /\ stack' \in [Workers -> Seq(Frames)]
  BY <1>1, <1>3, ReturnKeepsCalls
<1>5. \A v \in Workers \ {w} : stack'[v] = stack[v]
  BY <1>1 DEF Return, IInv, TypeOK
<1>6. TypeOK'
  BY <1>1, <1>3, <1>4, <1>5, TypeKept DEF IInv, TypeOK
<1> QED
  BY <1>3, <1>4, <1>6 DEF IInv, CallsAndFlights

\* The invariant is about vars alone.
LEMMA StutterKeepsIInv == IInv /\ UNCHANGED vars => IInv'
BY DEF vars, IInv, TypeOK, QueueMatchesMap, CallsNest, PanicsInComputation, OpenersHoldFlight,
       OneOpener, FlightsOpen, WaitersJoined, Top

\* Every step keeps the inductive invariant, one case for each action.
LEMMA NextKeepsIInv == IInv /\ [Next]_vars => IInv'
<1> SUFFICES ASSUME IInv, [Next]_vars PROVE IInv'
  OBVIOUS
<1>1. ASSUME NEW w \in Workers, NEW request \in Requests, Ask(w, request[1], request[2])
      PROVE  IInv'
  BY <1>1, RequestsAssumption, AskKeepsIInv
<1>2. ASSUME NEW w \in Workers, Panic(w) PROVE IInv'
  BY <1>2, PanicKeepsIInv
<1>3. ASSUME NEW w \in Workers, Step(w) PROVE IInv'
  BY <1>3, HitKeepsIInv, JoinKeepsIInv, OpenKeepsIInv, AwakenKeepsIInv, ComputeKeepsIInv,
     UnwindKeepsIInv, PublishKeepsIInv, StoreKeepsIInv DEF Step
<1>4. CASE UNCHANGED vars
  BY <1>4, StutterKeepsIInv
<1> QED
  BY <1>1, <1>2, <1>3, <1>4 DEF Next

\* The inductive invariant holds in every reachable state of the caches filled
\* through LoadOrCompute.
THEOREM IInvAlways == Spec => []IInv
BY InitInductive, NextKeepsIInv, PTL DEF Spec

\* The variables keep their types, and every queue fits its shard.
THEOREM TypeCorrect == Spec => []TypeOK
BY IInvAlways, PTL DEF IInv

\* The queues of the biome volumes, the biome sets and the ore plans list the
\* keys of their maps, each once, whatever is stored past a flight.
THEOREM QueuesStayIndexed == Spec => []QueueMatchesMap
BY IInvAlways, PTL DEF IInv

\* No value is computed by two goroutines, or twice in one, at the same time.
THEOREM ComputedOnceAtATime == Spec => []ComputedOnce
<1>1. ASSUME IInv PROVE ComputedOnce
  <2> SUFFICES ASSUME NEW c \in Caches, NEW k \in Keys
               PROVE  Cardinality(UNION {{w} \X Opened(w, c, k) : w \in Workers}) <= 1
    BY DEF ComputedOnce
  <2> DEFINE S == UNION {{w} \X Opened(w, c, k) : w \in Workers}
  <2>1. ASSUME NEW p \in S, NEW q \in S PROVE p = q
    <3>1. PICK v \in Workers : p \in {v} \X Opened(v, c, k)
      OBVIOUS
    <3>2. PICK w \in Workers : q \in {w} \X Opened(w, c, k)
      OBVIOUS
    <3>3. p = <<v, p[2]>> /\ p[2] \in Opened(v, c, k) /\ q = <<w, q[2]>> /\ q[2] \in Opened(w, c, k)
      BY <3>1, <3>2
    <3>4. v = w /\ p[2] = q[2]
      BY <1>1, <3>3 DEF IInv, OneOpener, Opened, Opening
    <3> QED
      BY <3>3, <3>4
  <2> HIDE DEF S
  <2>2. CASE S = {}
    BY <2>2, FS_EmptySet DEF S
  <2>3. CASE S # {}
    <3>1. PICK p : S = {p}
      BY <2>1, <2>3
    <3>2. Cardinality(S) = 1
      BY <3>1, FS_Singleton
    <3> QED
      BY <3>2 DEF S
  <2> QED
    BY <2>2, <2>3
<1> QED
  BY <1>1, IInvAlways, PTL

\* Goroutines never wait in a circle: a call for a set may wait for a call for
\* the volume, and that one for nothing.
THEOREM NeverWaitInACircle == Spec => []NoCircularWait
<1>1. ASSUME IInv PROVE NoCircularWait
  <2> SUFFICES ASSUME NEW w \in Workers, Stuck(w)
               PROVE  \E v \in Workers : stack[v] # <<>> /\ ~ Stuck(v)
    BY DEF NoCircularWait
  \* What a stuck goroutine waits for is computed by a call of another one.
  <2>1. ASSUME NEW v \in Workers, Stuck(v)
        PROVE  /\ Top(v).cache \in Caches
               /\ Top(v).key \in Keys
               /\ \E u \in Workers : \E i \in DOMAIN stack[u] :
                    /\ Opening(stack[u][i])
                    /\ stack[u][i].cache = Top(v).cache
                    /\ stack[u][i].key = Top(v).key
    <3>1. stack[v] # <<>> /\ Top(v).at = "wait" /\ ~ flight[Top(v).flight].done
      BY <2>1 DEF Stuck, At
    <3>2. /\ Len(stack[v]) \in DOMAIN stack[v]
          /\ stack[v][Len(stack[v])] = Top(v)
          /\ Top(v).cache \in Caches
          /\ Top(v).key \in Keys
      BY <1>1, <3>1, TopFrame DEF IInv
    <3>3. flights[Top(v).cache][Top(v).key] # None
      BY <1>1, <3>1, <3>2, NoneAssumption DEF IInv, WaitersJoined
    <3> QED
      BY <1>1, <3>2, <3>3 DEF IInv, FlightsOpen
  \* A stuck goroutine that computes waits in a call of a volume.
  <2>2. ASSUME NEW v \in Workers, Stuck(v), NEW i \in DOMAIN stack[v], Opening(stack[v][i])
        PROVE  stack[v][i].cache = "sets" /\ Top(v).cache = "volumes"
    <3>1. stack[v] # <<>> /\ Top(v).at = "wait"
      BY <2>2 DEF Stuck, At
    <3>2. /\ Len(stack[v]) \in {1, 2}
          /\ DOMAIN stack[v] = 1 .. Len(stack[v])
          /\ stack[v][Len(stack[v])] = Top(v)
      BY <1>1, <3>1, TopFrame DEF IInv
    <3>3. i # Len(stack[v])
      BY <2>2, <3>1, <3>2 DEF Opening
    <3>4. i = 1 /\ Len(stack[v]) = 2
      BY <3>2, <3>3
    <3> QED
      BY <1>1, <3>2, <3>4 DEF IInv, CallsNest
  <2>3. PICK v \in Workers : \E i \in DOMAIN stack[v] :
           Opening(stack[v][i]) /\ stack[v][i].cache = Top(w).cache
    BY <2>1
  <2>4. stack[v] # <<>>
    BY <2>3
  <2>5. CASE Stuck(v)
    <3>1. Top(v).cache = "volumes"
      BY <2>2, <2>3, <2>5
    <3>2. PICK u \in Workers : \E i \in DOMAIN stack[u] :
             Opening(stack[u][i]) /\ stack[u][i].cache = "volumes"
      BY <2>1, <2>5, <3>1
    <3>3. stack[u] # <<>> /\ ~ Stuck(u)
      BY <2>2, <3>2
    <3> QED
      BY <3>3
  <2> QED
    BY <2>4, <2>5
<1> QED
  BY <1>1, IInvAlways, PTL

-----------------------------------------------------------------------------
\* The cache of feature blocks. An entry at an address of the registry says what
\* the registry says there, whoever stored it.
EntriesConfigured ==
  \A key \in StateKeys : blocks[key] # NoBlock /\ key[2] \in DOMAIN Registry =>
    blocks[key] = <<key[1], Registry[key[2]]>>

\* A map at an address of the registry is the one of the registry.
WantedConfigured ==
  \A w \in Decorators : placing[w] # "idle" =>
    /\ wanted[w] \in States
    /\ wanted[w].at \in DOMAIN Registry => wanted[w].says = Registry[wanted[w].at]

\* What a goroutine has got for such a map, and is about to store or to place,
\* is what the map says.
GotConfigured ==
  \A w \in Decorators : placing[w] \in {"store", "placed"} =>
    /\ got[w] \in Blocks
    /\ wanted[w].at \in DOMAIN Registry => got[w] = Block(wanted[w])

BlockIInv ==
  /\ BlockTypeOK
  /\ BlockQueueMatchesMap
  /\ EntriesConfigured
  /\ WantedConfigured
  /\ GotConfigured

\* The shard is empty at first.
LEMMA BlockInitInductive == BlockInit => BlockIInv
<1> SUFFICES ASSUME BlockInit PROVE BlockIInv
  OBVIOUS
<1>1. BlockTypeOK
  BY BlockCapAssumption DEF BlockInit, BlockTypeOK
<1>2. BlockQueueMatchesMap
  BY DEF BlockInit, BlockQueueMatchesMap, ToSet
<1>3. EntriesConfigured /\ WantedConfigured /\ GotConfigured
  BY DEF BlockInit, EntriesConfigured, WantedConfigured, GotConfigured
<1> QED
  BY <1>1, <1>2, <1>3 DEF BlockIInv

\* A goroutine starts to place a state whose map, if it is at an address of the
\* registry, is the map of the registry.
LEMMA PlaceKeepsBlockIInv ==
  ASSUME BlockIInv, NEW w \in Decorators, NEW s \in States,
         s.at \in DOMAIN Registry => s.says = Registry[s.at],
         Place(w, s)
  PROVE  BlockIInv'
<1> USE DEF BlockIInv, Place
<1>1. BlockTypeOK'
  BY DEF BlockTypeOK
<1>2. BlockQueueMatchesMap' /\ EntriesConfigured'
  BY DEF BlockQueueMatchesMap, EntriesConfigured
<1>3. WantedConfigured' /\ GotConfigured'
  BY DEF WantedConfigured, GotConfigured, BlockTypeOK
<1> QED
  BY <1>1, <1>2, <1>3

\* A goroutine takes the entry of its key, or computes the block.
LEMMA LoadKeepsBlockIInv ==
  ASSUME BlockIInv, NEW w \in Decorators, LoadBlock(w)
  PROVE  BlockIInv'
<1> DEFINE s == wanted[w]
           found == blocks[Key(s)]
           g == IF found # NoBlock THEN found ELSE Block(s)
<1> USE DEF BlockIInv
<1>1. /\ placing[w] = "load"
      /\ got' = [got EXCEPT ![w] = g]
      /\ \E next \in {"placed", "store"} : placing' = [placing EXCEPT ![w] = next]
      /\ UNCHANGED <<blocks, blockOrder, wanted>>
  BY DEF LoadBlock
<1>2. s \in States /\ (s.at \in DOMAIN Registry => s.says = Registry[s.at])
  BY <1>1 DEF WantedConfigured
<1>3. Block(s) \in Blocks /\ Key(s) \in StateKeys /\ Key(s)[1] = s.name /\ Key(s)[2] = s.at
  BY <1>2 DEF Block, Blocks, Key, StateKeys, States
<1>4. g \in Blocks
  BY <1>3 DEF BlockTypeOK
<1>5. s.at \in DOMAIN Registry => g = Block(s)
  BY <1>2, <1>3 DEF EntriesConfigured, Block
<1> HIDE DEF g
<1>6. BlockTypeOK'
  BY <1>1, <1>4 DEF BlockTypeOK
<1>7. BlockQueueMatchesMap' /\ EntriesConfigured'
  BY <1>1 DEF BlockQueueMatchesMap, EntriesConfigured
<1>8. WantedConfigured'
  BY <1>1 DEF WantedConfigured, BlockTypeOK
<1>9. GotConfigured'
  BY <1>1, <1>4, <1>5 DEF GotConfigured, BlockTypeOK
<1> QED
  BY <1>6, <1>7, <1>8, <1>9

\* What StoreBlock makes of the queue, in the terms of QueueAfterStore.
LEMMA GoneIsLeft ==
  ASSUME NEW q \in Seq(StateKeys)
  PROVE  /\ BlockOverflow(q) = Over(q, BlockCap)
         /\ ToSet(SubSeq(q, 1, BlockOverflow(q))) = Left(q, BlockCap)
         /\ SubSeq(q, BlockOverflow(q) + 1, Len(q)) = Kept(q, BlockCap)
<1>1. BlockOverflow(q) = Over(q, BlockCap)
  BY DEF BlockOverflow, Over
<1> DEFINE n == Over(q, BlockCap)
<1>2. n \in Nat /\ n <= Len(q)
  BY BlockCapAssumption, LenProperties DEF Over
<1>3. SubSeq(q, BlockOverflow(q) + 1, Len(q)) = Kept(q, BlockCap)
  BY <1>1 DEF Kept
<1>4. Left(q, BlockCap) = {q[i] : i \in 1 .. n}
  BY DEF Left
<1> HIDE DEF n
<1>5. /\ SubSeq(q, 1, n) \in Seq(StateKeys)
      /\ Len(SubSeq(q, 1, n)) = n
      /\ \A i \in 1 .. n : SubSeq(q, 1, n)[i] = q[i]
  BY <1>2, Prefix
<1>6. DOMAIN SubSeq(q, 1, n) = 1 .. n
  BY <1>5, LenProperties
<1>7. ToSet(SubSeq(q, 1, n)) = Left(q, BlockCap)
  BY <1>4, <1>5, <1>6 DEF ToSet
<1> QED
  BY <1>1, <1>3, <1>7 DEF n

\* A goroutine stores the block it has got, unless another one has stored one
\* under the same key since.
LEMMA StoreBlockKeepsIInv ==
  ASSUME BlockIInv, NEW w \in Decorators, StoreBlock(w)
  PROVE  BlockIInv'
<1> DEFINE key == Key(wanted[w])
           s == blockOrder
           q == Append(s, key)
<1> USE DEF BlockIInv
<1>1. /\ placing[w] = "store"
      /\ placing' = [placing EXCEPT ![w] = "placed"]
      /\ UNCHANGED <<wanted, got>>
  BY DEF StoreBlock
<1>2. /\ key \in StateKeys
      /\ key[1] = wanted[w].name
      /\ key[2] = wanted[w].at
      /\ got[w] \in Blocks
      /\ got[w] # NoBlock
      /\ key[2] \in DOMAIN Registry => got[w] = <<key[1], Registry[key[2]]>>
  BY <1>1, NoBlockAssumption DEF WantedConfigured, GotConfigured, Block, Key, StateKeys, States
<1>3. /\ s \in Seq(StateKeys)
      /\ Len(s) <= BlockCap
      /\ IsInjective(s)
      /\ ToSet(s) = {k \in StateKeys : blocks[k] # NoBlock}
  BY DEF BlockTypeOK, BlockQueueMatchesMap, IsInjective
<1>4. placing' \in [Decorators -> {"idle", "load", "store", "placed"}]
  BY <1>1 DEF BlockTypeOK
<1>5. WantedConfigured' /\ GotConfigured'
  BY <1>1 DEF WantedConfigured, GotConfigured, BlockTypeOK
<1> HIDE DEF key
<1>6. CASE MayStore(key)
  <2>1. /\ blockOrder' = SubSeq(q, BlockOverflow(q) + 1, Len(q))
        /\ blocks' = [k \in StateKeys |->
                       IF k \in ToSet(SubSeq(q, 1, BlockOverflow(q))) THEN NoBlock
                       ELSE IF k = key THEN got[w] ELSE blocks[k]]
    BY <1>6 DEF StoreBlock, key
  <2>2. key \notin ToSet(s)
    BY <1>3, <1>6 DEF MayStore
  <2> HIDE DEF s
  <2>3. q \in Seq(StateKeys)
    BY <1>2, <1>3, AppendProperties
  <2>4. /\ Kept(q, BlockCap) \in Seq(StateKeys)
        /\ Len(Kept(q, BlockCap)) <= BlockCap
        /\ IsInjective(Kept(q, BlockCap))
        /\ ToSet(Kept(q, BlockCap)) = (ToSet(s) \cup {key}) \ Left(q, BlockCap)
    BY <1>2, <1>3, <2>2, BlockCapAssumption, QueueAfterStore, SMTT(30)
  <2> HIDE DEF q
  <2>5. /\ blockOrder' = Kept(q, BlockCap)
        /\ blocks' = [k \in StateKeys |->
                       IF k \in Left(q, BlockCap) THEN NoBlock
                       ELSE IF k = key THEN got[w] ELSE blocks[k]]
    BY <2>1, <2>3, GoneIsLeft
  <2>6. BlockTypeOK'
    BY <1>1, <1>2, <1>4, <2>4, <2>5 DEF BlockTypeOK
  <2>7. ToSet(blockOrder') = {k \in StateKeys : blocks'[k] # NoBlock}
    <3>1. ASSUME NEW k \in StateKeys
          PROVE  k \in ToSet(blockOrder') <=> blocks'[k] # NoBlock
      BY <1>2, <1>3, <2>4, <2>5
    <3>2. ToSet(blockOrder') \subseteq StateKeys
      BY <1>2, <1>3, <2>4, <2>5
    <3> QED
      BY <3>1, <3>2
  <2>8. BlockQueueMatchesMap'
    BY <2>4, <2>5, <2>7 DEF BlockQueueMatchesMap, IsInjective
  <2>9. EntriesConfigured'
    BY <1>2, <2>5 DEF EntriesConfigured
  <2> QED
    BY <1>5, <2>6, <2>8, <2>9
<1>7. CASE ~ MayStore(key)
  <2>1. /\ blockOrder' = SubSeq(s, BlockOverflow(s) + 1, Len(s))
        /\ blocks' = [k \in StateKeys |->
                       IF k \in ToSet(SubSeq(s, 1, BlockOverflow(s))) THEN NoBlock ELSE blocks[k]]
    BY <1>7 DEF StoreBlock, key
  <2> HIDE DEF s
  <2>2. BlockOverflow(s) = 0
    <3>1. Len(s) <= BlockCap
      BY <1>3
    <3>2. Len(s) \in Nat /\ BlockCap \in Nat
      BY <1>3, BlockCapAssumption, LenProperties
    <3> QED
      BY <3>1, <3>2 DEF BlockOverflow
  <2>3. SubSeq(s, 1, 0) = <<>> /\ SubSeq(s, 1, Len(s)) = s
    BY <1>3, LenProperties
  <2>4. blockOrder' = s
    BY <2>1, <2>2, <2>3
  <2>5. blocks' = blocks
    <3>1. ToSet(<<>>) = {}
      BY DEF ToSet
    <3>2. blocks' = [k \in StateKeys |-> blocks[k]]
      BY <2>1, <2>2, <2>3, <3>1
    <3> QED
      BY <3>2 DEF BlockTypeOK
  <2>6. BlockTypeOK'
    BY <1>1, <1>4, <2>4, <2>5 DEF BlockTypeOK, s
  <2>7. BlockQueueMatchesMap' /\ EntriesConfigured'
    BY <2>4, <2>5 DEF BlockQueueMatchesMap, EntriesConfigured, s
  <2> QED
    BY <1>5, <2>6, <2>7
<1> QED
  BY <1>6, <1>7

\* A placement is over.
LEMMA DoneKeepsBlockIInv ==
  ASSUME BlockIInv, NEW w \in Decorators, Done(w)
  PROVE  BlockIInv'
<1> USE DEF BlockIInv, Done
<1>1. BlockTypeOK'
  BY DEF BlockTypeOK
<1>2. BlockQueueMatchesMap' /\ EntriesConfigured'
  BY DEF BlockQueueMatchesMap, EntriesConfigured
<1>3. WantedConfigured' /\ GotConfigured'
  BY DEF WantedConfigured, GotConfigured, BlockTypeOK
<1> QED
  BY <1>1, <1>2, <1>3

\* Every step of the shard keeps its invariant. A map made on the spot is never
\* at an address of the registry, whose maps live for ever.
LEMMA BlockNextKeepsIInv == BlockIInv /\ [BlockNext]_blockVars => BlockIInv'
<1> SUFFICES ASSUME BlockIInv, [BlockNext]_blockVars PROVE BlockIInv'
  OBVIOUS
<1>1. ASSUME NEW w \in Decorators, NEW name \in Names, NEW at \in DOMAIN Registry,
             PlaceConfigured(w, name, at)
      PROVE  BlockIInv'
  <2> DEFINE s == [name |-> name, at |-> at, says |-> Registry[at]]
  <2>1. s \in States /\ (s.at \in DOMAIN Registry => s.says = Registry[s.at])
    BY RegistryAssumption DEF States
  <2>2. Place(w, s)
    BY <1>1 DEF PlaceConfigured
  <2> HIDE DEF s
  <2> QED
    BY <2>1, <2>2, PlaceKeepsBlockIInv
<1>2. ASSUME NEW w \in Decorators, NEW name \in Names, NEW at \in Addresses, NEW says \in Contents,
             PlaceMade(w, name, at, says)
      PROVE  BlockIInv'
  <2> DEFINE s == [name |-> name, at |-> at, says |-> says]
  <2>1. s \in States /\ s.at \notin DOMAIN Registry
    BY <1>2 DEF States, PlaceMade, LiveMaps
  <2>2. Place(w, s)
    BY <1>2 DEF PlaceMade
  <2> HIDE DEF s
  <2> QED
    BY <2>1, <2>2, PlaceKeepsBlockIInv
<1>3. ASSUME NEW w \in Decorators, LoadBlock(w) \/ StoreBlock(w) \/ Done(w) PROVE BlockIInv'
  BY <1>3, LoadKeepsBlockIInv, StoreBlockKeepsIInv, DoneKeepsBlockIInv
<1>4. CASE UNCHANGED blockVars
  BY <1>4 DEF blockVars, BlockIInv, BlockTypeOK, BlockQueueMatchesMap, EntriesConfigured,
     WantedConfigured, GotConfigured
<1> QED
  BY <1>1, <1>2, <1>3, <1>4 DEF BlockNext

\* The inductive invariant of the shard of feature blocks holds in every
\* reachable state.
THEOREM BlockIInvAlways == BlockSpec => []BlockIInv
BY BlockInitInductive, BlockNextKeepsIInv, PTL DEF BlockSpec

\* The variables of the shard keep their types, and the queue fits it.
THEOREM BlockTypeCorrect == BlockSpec => []BlockTypeOK
BY BlockIInvAlways, PTL DEF BlockIInv

\* The queue of feature blocks lists the keys of the map, each once, though two
\* goroutines may compute the block of one key.
THEOREM BlockQueueStaysIndexed == BlockSpec => []BlockQueueMatchesMap
BY BlockIInvAlways, PTL DEF BlockIInv

\* A state of the registry is placed as what the registry says.
THEOREM ConfiguredStatesArePlaced == BlockSpec => []ConfiguredStatesPlaced
<1>1. BlockIInv => ConfiguredStatesPlaced
  BY DEF BlockIInv, GotConfigured, ConfiguredStatesPlaced
<1> QED
  BY <1>1, BlockIInvAlways, PTL

-----------------------------------------------------------------------------
(***************************************************************************)
(* The construction of generators.                                         *)
(***************************************************************************)
Stages == {"idle", "resources", "making", "acceleration", "source", "locking", "walking",
           "asking", "decoding", "ready", "assembling"}
PerStarter(f) == f = [w \in Starters |-> f[w]]

\* The definitions that may be drawn for a generator of a dimension.
Drawable(d) == UNION {DefsWithin(c.aliases) : c \in ToSet(JigsawSets[d])}

StartTypeOK ==
  /\ prewarmer \in Starters \cup {NoName}
  /\ starting \in [Starters -> Stages]
  /\ library \in BOOLEAN /\ pools \subseteq DOMAIN TemplatePools
  /\ PerStarter(device) /\ PerStarter(dimension) /\ PerStarter(toVisit) /\ PerStarter(visited)
  /\ PerStarter(sought) /\ PerStarter(aliases) /\ PerStarter(wants)
  /\ undrawn \in [Starters -> Seq(AliasDefs)]

\* Who walks has the lock, and asks for pools meanwhile.
WalkerHoldsLock ==
  \A w \in Starters :
    /\ prewarmer = w => starting[w] \in {"walking", "asking", "decoding"}
    /\ starting[w] = "walking" => prewarmer = w

\* A generator in use is of a dimension, and has drawn what that has.
Using(w) ==
  \/ starting[w] \in {"ready", "assembling"}
  \/ starting[w] \in {"asking", "decoding"} /\ prewarmer # w
DimensionKnown ==
  \A w \in Starters :
    /\ starting[w] # "idle" => dimension[w] \in DOMAIN JigsawSets
    /\ starting[w] # "assembling" => undrawn[w] = <<>>
    /\ starting[w] = "assembling" => undrawn[w] \in Seq(Drawable(dimension[w]))

\* Nobody holds a part of a device, and before the acceleration nobody holds any.
DevicesHeld ==
  \A w \in Starters :
    /\ device[w] \in {{}, WholeDevice}
    /\ starting[w] \in {"idle", "resources", "making", "acceleration"} => device[w] = {}

\* What is prewarmed is resolved, and so is all it leads to.
PrewarmedClosed ==
  \A n \in prewarmed \cap DOMAIN TemplatePools : n \in pools /\ LedTo(n) \subseteq prewarmed

\* So will be what has been visited, but for the pool that is asked for now.
WalkCloses ==
  \A w \in Starters : prewarmer = w =>
    /\ prewarmed \subseteq visited[w]
    /\ \A n \in visited[w] \cap DOMAIN TemplatePools :
         \/ starting[w] # "walking" /\ n = sought[w][1]
         \/ n \in pools /\ LedTo(n) \subseteq visited[w] \cup toVisit[w]

\* The walk starts from the roots, and when it has ended they are prewarmed.
WorthyRoots(d) == {n \in Roots(d) : Worth(n)}
RootsWalked ==
  \A w \in Starters :
    /\ starting[w] = "locking" => toVisit[w] = Roots(dimension[w])
    /\ prewarmer = w => WorthyRoots(dimension[w]) \subseteq visited[w] \cup toVisit[w]
    /\ Using(w) => WorthyRoots(dimension[w]) \subseteq prewarmed

\* Whatever a structure may ask for is prewarmed, or nothing.
Prepared(n) == n \in prewarmed \cup {"", "empty"}
WantsPrepared ==
  \A w \in Starters :
    /\ \A n \in DOMAIN aliases[w] : Prepared(aliases[w][n])
    /\ \A want \in wants[w] : Prepared(want[1])
    /\ starting[w] \in {"asking", "decoding"} /\ prewarmer # w => Prepared(sought[w][1])
    /\ starting[w] = "decoding" /\ prewarmer # w =>
         sought[w][1] \notin DOMAIN TemplatePools \/ sought[w][1] = "empty"

StartIInv ==
  /\ StartTypeOK
  /\ WalkerHoldsLock
  /\ DimensionKnown
  /\ DevicesHeld
  /\ PrewarmedClosed
  /\ WalkCloses
  /\ RootsWalked
  /\ WantsPrepared
  /\ decoded \subseteq {"empty"}

\* Lists of a smaller set are lists of a larger one, if what they list is in it.
LEMMA ListOf ==
  ASSUME NEW S, NEW s \in Seq(S), NEW T, ToSet(s) \subseteq T
  PROVE  s \in Seq(T)
<1>1. /\ Len(s) \in Nat
      /\ s \in [1 .. Len(s) -> S]
      /\ \A i \in 1 .. Len(s) : s[i] \in T
  BY LenProperties DEF ToSet
<1> QED
  BY <1>1

LEMMA ListedIn ==
  ASSUME NEW S, NEW s \in Seq(S)
  PROVE  ToSet(s) \subseteq S
BY LenProperties DEF ToSet

\* The walk through alias definitions reaches what is listed, and goes on into groups.
LEMMA WalkReaches ==
  ASSUME NEW defs \in Seq(AliasDefs)
  PROVE  /\ DefsWithin(defs) \subseteq AliasDefs
         /\ ToSet(defs) \subseteq DefsWithin(defs)
         /\ \A def \in DefsWithin(defs) : Grouped(def) \cap AliasDefs \subseteq DefsWithin(defs)
<1>1. ToSet(defs) \subseteq AliasDefs
  BY ListedIn
<1>2. DefsWithin(defs) \subseteq AliasDefs /\ ToSet(defs) \subseteq DefsWithin(defs)
  BY <1>1 DEF DefsWithin
<1>3. ASSUME NEW def \in DefsWithin(defs), NEW g \in Grouped(def) \cap AliasDefs
      PROVE  g \in DefsWithin(defs)
  BY <1>3 DEF DefsWithin
<1> QED
  BY <1>2, <1>3

LEMMA AliasesDrawable ==
  ASSUME NEW d \in DOMAIN JigsawSets, NEW c \in ToSet(JigsawSets[d])
  PROVE  /\ c.aliases \in Seq(AliasDefs)
         /\ c.aliases \in Seq(Drawable(d))
<1>1. c.aliases \in Seq(AliasDefs)
  BY AliasesAssumption
<1>2. ToSet(c.aliases) \subseteq DefsWithin(c.aliases)
  BY <1>1, WalkReaches
<1>3. ToSet(c.aliases) \subseteq Drawable(d)
  BY <1>2 DEF Drawable
<1> QED
  BY <1>1, <1>3, ListOf

LEMMA GroupsDrawable ==
  ASSUME NEW d \in DOMAIN JigsawSets, NEW def \in Drawable(d), def.type = "random_group",
         NEW group \in WeightedChoices(def.groups)
  PROVE  group \in Seq(AliasDefs) /\ group \in Seq(Drawable(d))
<1>1. PICK c \in ToSet(JigsawSets[d]) : def \in DefsWithin(c.aliases)
  BY DEF Drawable
<1>2. c.aliases \in Seq(AliasDefs)
  BY AliasesDrawable
<1>3. def \in AliasDefs /\ Grouped(def) \cap AliasDefs \subseteq DefsWithin(c.aliases)
  BY <1>1, <1>2, WalkReaches
<1>4. PICK i \in DOMAIN def.groups : group = def.groups[i].data
  BY DEF WeightedChoices
<1>5. group \in Seq(AliasDefs)
  BY <1>3, <1>4, AliasesAssumption
<1>6. ToSet(group) \subseteq AliasDefs /\ ToSet(group) \subseteq Grouped(def)
  BY <1>4, <1>5, ListedIn DEF Grouped
<1>7. ToSet(group) \subseteq Drawable(d)
  BY <1>3, <1>6 DEF Drawable
<1> QED
  BY <1>5, <1>7, ListOf

LEMMA TargetsAreRoots ==
  ASSUME NEW d \in DOMAIN JigsawSets, NEW def \in Drawable(d), NEW t \in TargetsOf(def), t # ""
  PROVE  t \in Roots(d)
<1>1. PICK c \in ToSet(JigsawSets[d]) : def \in DefsWithin(c.aliases)
  BY DEF Drawable
<1>2. t \in AliasTargets(c.aliases)
  BY <1>1 DEF AliasTargets
<1>3. t \in {n \in {c.start} : Worth(n)} \cup AliasTargets(c.aliases)
  BY <1>2
<1> QED
  BY <1>1, <1>3, Zenon DEF Roots

\* A root asks for nothing its start pool does not lead to.
LEMMA RootLeads ==
  ASSUME NEW start
  PROVE  RootJigsaws(start) \subseteq PoolJigsaws(start)
<1>1. ASSUME NEW def, IsSingle(def)
      PROVE  JigsawsOf(def) = PoolsNamed(Templates[def.location]) /\ Resolves(def)
  <2>1. def.type # "list_pool_element" /\ def.type # "feature_pool_element"
    BY <1>1 DEF IsSingle
  <2>2. FirstOf(def) = def
    BY <2>1 DEF FirstOf
  <2> QED
    BY <1>1, <2>1, <2>2 DEF JigsawsOf, Resolves
<1> QED
  BY <1>1 DEF RootJigsaws, PoolJigsaws

\* What a pool without pieces names, and what others lead to.
LEMMA LeadsSomewhere ==
  ASSUME NEW name \in DOMAIN TemplatePools, NEW n \in PoolJigsaws(name) \cup {FallbackOf(name)}
  PROVE  n \in LedTo(name) \/ n \in {"", "empty"}
BY DEF LedTo, Worth

LEMMA EmptyLeadsNowhere ==
  ASSUME "empty" \in DOMAIN TemplatePools
  PROVE  PoolJigsaws("empty") = {} /\ FallbackOf("empty") = "empty" /\ RootJigsaws("empty") = {}
<1>1. ToSet(TemplatePools["empty"].elements) = {}
  <2>1. ToSet(<<>>) = {}
    BY EmptySeq DEF ToSet
  <2> QED
    BY <2>1, PoolsAssumption
<1> QED
  BY <1>1, PoolsAssumption DEF PoolJigsaws, FallbackOf, RootJigsaws

-----------------------------------------------------------------------------
GivenBack == JobBuffers \cup StaticMem \cup ProgramParts \cup {"check"}

\* Whatever was opened, Close gives back: each step opens what Close goes through.
LEMMA StepsGivenBack ==
  /\ Len(OpeningSteps) \in Nat
  /\ \A n \in 0 .. Len(OpeningSteps) : LeftAfterClose(OpenAfter(n)) = {}
<1>1. ProgramSteps \in Seq(GivenBack)
  <2>1. ProgramSteps \in Seq(ToSet(ProgramSteps))
    BY DEF ProgramSteps, ToSet
  <2>2. ToSet(ProgramSteps) \subseteq ProgramParts \cup {"check"}
    BY DEF ProgramSteps, ProgramParts, ToSet
  <2>3. ToSet(ProgramSteps) \subseteq GivenBack
    BY <2>2 DEF GivenBack
  <2> QED
    BY <2>1, <2>3, ListOf
<1>2. TableSteps \in Seq(GivenBack)
  <2>1. TableSteps \in Seq(ToSet(TableSteps))
    BY DEF TableSteps, ToSet
  <2>2. ToSet(TableSteps) \subseteq StaticMem \cup {"check"}
    BY DEF TableSteps, StaticMem, ToSet
  <2>3. ToSet(TableSteps) \subseteq GivenBack
    BY <2>2 DEF GivenBack
  <2> QED
    BY <2>1, <2>3, ListOf
<1>3. BufferSteps \in Seq(GivenBack)
  <2>1. BufferSteps \in Seq(ToSet(BufferSteps))
    BY DEF BufferSteps, ToSet
  <2>2. ToSet(BufferSteps) \subseteq JobBuffers \cup {"check"}
    BY DEF BufferSteps, JobBuffers, ToSet
  <2>3. ToSet(BufferSteps) \subseteq GivenBack
    BY <2>2 DEF GivenBack
  <2> QED
    BY <2>1, <2>3, ListOf
<1>4. OpeningSteps \in Seq(GivenBack) /\ Len(OpeningSteps) \in Nat
  <2>1. ProgramSteps \o TableSteps \in Seq(GivenBack)
    BY <1>1, <1>2, ConcatProperties
  <2> QED
    BY <1>3, <2>1, ConcatProperties, LenProperties DEF OpeningSteps
<1>5. ASSUME NEW n \in 0 .. Len(OpeningSteps) PROVE ToSet(SubSeq(OpeningSteps, 1, n)) \subseteq GivenBack
  <2>1. \A i \in 1 .. n : OpeningSteps[i] \in GivenBack
    BY <1>4, LenProperties
  <2>2. SubSeq(OpeningSteps, 1, n) \in Seq(GivenBack)
    BY <2>1, SubSeqProperties
  <2> QED
    BY <2>2, ListedIn
<1> QED
  BY <1>4, <1>5 DEF OpenAfter, LeftAfterClose, GivenBack

LEMMA DeviceGivenBack == LeftAfterClose(WholeDevice) = {} /\ LeftAfterClose({}) = {}
BY StepsGivenBack DEF WholeDevice, LeftAfterClose

LEMMA StartIInvInit == StartInit => StartIInv
<1> SUFFICES ASSUME StartInit PROVE StartIInv
  OBVIOUS
<1>1. StartTypeOK
  BY EmptySeq DEF StartInit, StartTypeOK, Stages, PerStarter
<1>2. WalkerHoldsLock /\ DimensionKnown /\ DevicesHeld /\ PrewarmedClosed /\ WalkCloses /\ RootsWalked
  BY NobodyAssumption DEF StartInit, WalkerHoldsLock, DimensionKnown, DevicesHeld, PrewarmedClosed, WalkCloses,
     RootsWalked, Using
<1>3. WantsPrepared
  BY NobodyAssumption DEF StartInit, WantsPrepared
<1> QED
  BY <1>1, <1>2, <1>3 DEF StartInit, StartIInv

\* Before it prepares pools, and when it is closed, a generator concerns nobody else.
LEMMA Apart ==
  ASSUME StartIInv, NEW w \in Starters, starting[w] \in {"idle", "resources", "making", "acceleration", "source", "ready"},
         NEW to \in {"idle", "resources", "making", "acceleration", "source"},
         starting' = [starting EXCEPT ![w] = to],
         NEW d, dimension' = [dimension EXCEPT ![w] = d], to # "idle" => d \in DOMAIN JigsawSets,
         library' \in BOOLEAN,
         NEW held \in {{}, WholeDevice}, device' = [device EXCEPT ![w] = held],
         held # {} => to = "source",
         Unprepared
  PROVE  StartIInv'
<1>1. StartTypeOK'
  BY DEF StartIInv, StartTypeOK, PerStarter, Stages, Unprepared, poolVars, assemblyVars
<1>2. WalkerHoldsLock'
  BY DEF StartIInv, StartTypeOK, WalkerHoldsLock, PerStarter, Unprepared, poolVars, assemblyVars
<1>3. DimensionKnown'
  BY DEF StartIInv, StartTypeOK, DimensionKnown, PerStarter, Unprepared, poolVars, assemblyVars
<1>4. DevicesHeld'
  BY DEF StartIInv, StartTypeOK, DevicesHeld, PerStarter, Unprepared, poolVars, assemblyVars
<1>5. PrewarmedClosed'
  BY DEF StartIInv, PrewarmedClosed, Unprepared, poolVars
<1>6. WalkCloses'
  BY DEF StartIInv, StartTypeOK, WalkerHoldsLock, WalkCloses, PerStarter, Unprepared, poolVars, assemblyVars
<1>7. RootsWalked'
  BY DEF StartIInv, StartTypeOK, WalkerHoldsLock, RootsWalked, PerStarter, Using, Unprepared, poolVars, assemblyVars
<1>8. WantsPrepared'
  BY DEF StartIInv, StartTypeOK, WalkerHoldsLock, WantsPrepared, PerStarter, Prepared, Unprepared, poolVars, assemblyVars
<1> QED
  BY <1>1, <1>2, <1>3, <1>4, <1>5, <1>6, <1>7, <1>8 DEF StartIInv, Unprepared, poolVars

LEMMA ApartSteps ==
  ASSUME StartIInv, NEW w \in Starters,
         \/ \E d \in DOMAIN JigsawSets : Construct(w, d)
         \/ MakeResources(w) \/ ShareResources(w)
         \/ \E mode \in Modes : NoDevice(w, mode)
         \/ \E loads \in BOOLEAN :
              \/ OpenDevice(w, loads)
              \/ \E mode \in Modes, n \in FailingSteps : DeviceFails(w, mode, loads, n)
         \/ Reject(w) \/ CloseGenerator(w)
  PROVE  StartIInv'
<1>1. dimension = [dimension EXCEPT ![w] = dimension[w]]
  BY DEF StartIInv, StartTypeOK, PerStarter
<1>2. starting[w] # "idle" => dimension[w] \in DOMAIN JigsawSets
  BY DEF StartIInv, DimensionKnown
<1>3. /\ starting[w] \in {"idle", "resources", "making", "acceleration"} => device[w] = {}
      /\ device[w] \in {{}, WholeDevice}
      /\ device = [device EXCEPT ![w] = device[w]]
      /\ library \in BOOLEAN
  BY DEF StartIInv, StartTypeOK, DevicesHeld, PerStarter
<1>4. ASSUME NEW d \in DOMAIN JigsawSets, Construct(w, d) PROVE StartIInv'
  BY <1>3, <1>4, Apart DEF Construct, Goes
<1>5. CASE MakeResources(w)
  BY <1>1, <1>2, <1>3, <1>5, Apart DEF MakeResources, Goes
<1>6. CASE ShareResources(w)
  BY <1>1, <1>2, <1>3, <1>6, Apart DEF ShareResources, Goes
<1>7. ASSUME NEW loads \in BOOLEAN, OpenDevice(w, loads) PROVE StartIInv'
  BY <1>1, <1>2, <1>3, <1>7, Apart DEF OpenDevice, LoadLibrary, Goes
<1>8. ASSUME NEW mode \in Modes, NoDevice(w, mode) PROVE StartIInv'
  <2>1. CASE mode \in {"cpu", "auto"}
    BY <1>1, <1>2, <1>3, <1>8, <2>1, Apart DEF NoDevice, ComesWithout, Goes
  <2>2. CASE mode \notin {"cpu", "auto"}
    BY <1>3, <1>8, <2>2, Apart DEF NoDevice, ComesWithout, Goes, GoesIdle
  <2> QED
    BY <2>1, <2>2
<1>9. ASSUME NEW loads \in BOOLEAN, NEW mode \in Modes, NEW n \in FailingSteps, DeviceFails(w, mode, loads, n)
      PROVE  StartIInv'
  <2>1. LeftAfterClose(OpenAfter(n)) = {}
    BY StepsGivenBack, StepsAssumption
  <2>2. library' \in BOOLEAN /\ device' = [device EXCEPT ![w] = {}]
    BY <1>3, <1>9, <2>1 DEF DeviceFails, LoadLibrary
  <2>3. CASE mode \in {"cpu", "auto"}
    BY <1>1, <1>2, <1>9, <2>2, <2>3, Apart DEF DeviceFails, ComesWithout, Goes
  <2>4. CASE mode \notin {"cpu", "auto"}
    BY <1>9, <2>2, <2>4, Apart DEF DeviceFails, ComesWithout, Goes, GoesIdle
  <2> QED
    BY <2>3, <2>4
<1>10. CloseDevice(w) => device' = [device EXCEPT ![w] = {}]
  BY <1>3, DeviceGivenBack DEF CloseDevice
<1>11. CASE Reject(w)
  BY <1>3, <1>10, <1>11, Apart DEF Reject, Goes, GoesIdle
<1>12. CASE CloseGenerator(w)
  BY <1>3, <1>10, <1>12, Apart DEF CloseGenerator, Goes, GoesIdle
<1> QED
  BY <1>4, <1>5, <1>6, <1>7, <1>8, <1>9, <1>11, <1>12

\* Whoever does not walk does not disturb the walk of another.
LEMMA WalkUndisturbed ==
  ASSUME WalkCloses, NEW w \in Starters, prewarmer # w, prewarmer' = prewarmer, prewarmed' = prewarmed,
         pools \subseteq pools',
         \A v \in Starters \ {w} : /\ starting'[v] = starting[v]
                                  /\ toVisit'[v] = toVisit[v]
                                  /\ visited'[v] = visited[v]
                                  /\ sought'[v] = sought[v]
  PROVE  WalkCloses'
<1> SUFFICES ASSUME NEW v \in Starters, prewarmer' = v
             PROVE  /\ prewarmed' \subseteq visited'[v]
                    /\ \A n \in visited'[v] \cap DOMAIN TemplatePools :
                         \/ starting'[v] # "walking" /\ n = sought'[v][1]
                         \/ n \in pools' /\ LedTo(n) \subseteq visited'[v] \cup toVisit'[v]
  BY DEF WalkCloses
<1>1. v # w /\ prewarmer = v
  OBVIOUS
<1>2. /\ prewarmed \subseteq visited[v]
      /\ \A n \in visited[v] \cap DOMAIN TemplatePools :
           \/ starting[v] # "walking" /\ n = sought[v][1]
           \/ n \in pools /\ LedTo(n) \subseteq visited[v] \cup toVisit[v]
  BY <1>1 DEF WalkCloses
<1> QED
  BY <1>1, <1>2

LEMMA AcceptStep ==
  ASSUME StartIInv, NEW w \in Starters, Accept(w)
  PROVE  StartIInv'
<1> USE DEF Accept, Goes, generatorVars, poolVars, assemblyVars
<1>1. StartTypeOK'
  BY DEF StartIInv, StartTypeOK, PerStarter, Stages
<1>2. WalkerHoldsLock'
  BY DEF StartIInv, StartTypeOK, WalkerHoldsLock, PerStarter
<1>3. DimensionKnown' /\ DevicesHeld'
  BY DEF StartIInv, StartTypeOK, DimensionKnown, DevicesHeld, PerStarter
<1>4. PrewarmedClosed'
  BY DEF StartIInv, PrewarmedClosed
<1>5. WalkCloses'
  <2>1. \A v \in Starters \ {w} : starting'[v] = starting[v] /\ toVisit'[v] = toVisit[v]
    BY DEF StartIInv, StartTypeOK, PerStarter
  <2>2. prewarmer # w
    BY DEF StartIInv, WalkerHoldsLock
  <2> QED
    BY <2>1, <2>2, WalkUndisturbed DEF StartIInv
<1>6. RootsWalked'
  BY DEF StartIInv, StartTypeOK, WalkerHoldsLock, RootsWalked, PerStarter, Using, WorthyRoots
<1>7. WantsPrepared'
  BY DEF StartIInv, StartTypeOK, WalkerHoldsLock, WantsPrepared, PerStarter, Prepared
<1> QED
  BY <1>1, <1>2, <1>3, <1>4, <1>5, <1>6, <1>7 DEF StartIInv

LEMMA LockStep ==
  ASSUME StartIInv, NEW w \in Starters, LockPools(w)
  PROVE  StartIInv'
<1> USE DEF LockPools, Goes, generatorVars, poolVars, assemblyVars
<1>1. StartTypeOK'
  BY DEF StartIInv, StartTypeOK, PerStarter, Stages
<1>2. WalkerHoldsLock'
  BY NobodyAssumption DEF StartIInv, StartTypeOK, WalkerHoldsLock, PerStarter
<1>3. DimensionKnown' /\ DevicesHeld'
  BY DEF StartIInv, StartTypeOK, DimensionKnown, DevicesHeld, PerStarter
<1>4. PrewarmedClosed'
  BY DEF StartIInv, PrewarmedClosed
<1>5. WalkCloses'
  <2>1. visited'[w] = prewarmed /\ prewarmer' = w
    BY DEF StartIInv, StartTypeOK, PerStarter
  <2> QED
    BY <2>1 DEF StartIInv, WalkCloses, PrewarmedClosed
<1>6. RootsWalked'
  BY NobodyAssumption DEF StartIInv, StartTypeOK, WalkerHoldsLock, RootsWalked, PerStarter, Using, WorthyRoots
<1>7. WantsPrepared'
  BY NobodyAssumption DEF StartIInv, StartTypeOK, WalkerHoldsLock, WantsPrepared, PerStarter, Prepared
<1> QED
  BY <1>1, <1>2, <1>3, <1>4, <1>5, <1>6, <1>7 DEF StartIInv

LEMMA VisitStep ==
  ASSUME StartIInv, NEW w \in Starters, NEW name \in toVisit[w], Visit(w, name) \/ PassBy(w, name)
  PROVE  StartIInv'
<1> USE DEF Goes, generatorVars, poolVars, assemblyVars
<1>a. /\ starting[w] = "walking" /\ prewarmer = w /\ prewarmer' = prewarmer
      /\ UNCHANGED <<library, dimension, device, pools, prewarmed, decoded, undrawn, aliases, wants>>
  BY DEF StartIInv, WalkerHoldsLock, Visit, PassBy
<1>b. /\ toVisit' = [toVisit EXCEPT ![w] = @ \ {name}]
      /\ starting' = [starting EXCEPT ![w] = "asking"] \/ starting' = starting
      /\ visited' = [visited EXCEPT ![w] = @ \cup {name}] \/ visited' = visited
      /\ sought' = [sought EXCEPT ![w] = <<name, FALSE>>] \/ sought' = sought
  BY DEF Visit, PassBy, StartIInv, StartTypeOK
<1>c. /\ \A v \in Starters \ {w} : /\ starting'[v] = starting[v] /\ toVisit'[v] = toVisit[v]
                                  /\ visited'[v] = visited[v] /\ sought'[v] = sought[v]
      /\ toVisit'[w] = toVisit[w] \ {name}
      /\ starting'[w] \in {"walking", "asking"}
  BY <1>a, <1>b DEF StartIInv, StartTypeOK, PerStarter
<1>e. /\ visited[w] \subseteq visited'[w]
      /\ Worth(name) => visited'[w] = visited[w] \cup {name}
      /\ visited'[w] # visited[w] => Worth(name) /\ starting'[w] = "asking" /\ sought'[w][1] = name
                                      /\ visited'[w] = visited[w] \cup {name}
  <2>1. CASE Visit(w, name)
    BY <2>1 DEF StartIInv, StartTypeOK, PerStarter, Visit
  <2>2. CASE PassBy(w, name)
    BY <2>2 DEF StartIInv, StartTypeOK, PerStarter, PassBy
  <2> QED
    BY <2>1, <2>2
<1>0. /\ prewarmer = w /\ prewarmer' = w
      /\ \A v \in Starters \ {w} : /\ starting'[v] = starting[v] /\ toVisit'[v] = toVisit[v]
                                  /\ visited'[v] = visited[v] /\ sought'[v] = sought[v]
      /\ starting'[w] \in {"walking", "asking"}
      /\ toVisit'[w] = toVisit[w] \ {name}
      /\ visited[w] \subseteq visited'[w]
      /\ Worth(name) => visited'[w] = visited[w] \cup {name}
      /\ visited'[w] # visited[w] => Worth(name) /\ starting'[w] = "asking" /\ sought'[w][1] = name
                                      /\ visited'[w] = visited[w] \cup {name}
  BY <1>a, <1>c, <1>e
<1>1. StartTypeOK'
  BY <1>a, <1>b DEF StartIInv, StartTypeOK, PerStarter, Stages
<1>2. WalkerHoldsLock'
  BY <1>0 DEF StartIInv, WalkerHoldsLock
<1>3. DimensionKnown' /\ DevicesHeld'
  <2>1. \A v \in Starters : starting'[v] = starting[v] \/ v = w
    BY <1>0
  <2>2. DimensionKnown'
    BY <1>a, <1>0, <2>1 DEF StartIInv, DimensionKnown
  <2>3. DevicesHeld'
    BY <1>a, <1>0, <2>1 DEF StartIInv, StartTypeOK, DevicesHeld
  <2> QED
    BY <2>2, <2>3
<1>4. PrewarmedClosed'
  BY <1>a DEF StartIInv, PrewarmedClosed
<1>5. WalkCloses'
  <2>1. prewarmed \subseteq visited[w] /\ prewarmed' = prewarmed /\ pools' = pools
    BY <1>a, <1>0 DEF StartIInv, WalkCloses
  <2>2. \A n \in visited[w] \cap DOMAIN TemplatePools :
          n \in pools /\ LedTo(n) \subseteq visited[w] \cup toVisit[w]
    BY <1>a, <1>0 DEF StartIInv, WalkCloses
  <2>3. name \in visited'[w] \/ ~ Worth(name)
    BY <1>0
  <2>4. ASSUME NEW n \in visited[w] \cap DOMAIN TemplatePools, NEW m \in LedTo(n)
        PROVE  m \in visited'[w] \cup toVisit'[w]
    <3>1. m \in visited[w] \cup toVisit[w] /\ Worth(m)
      BY <2>2 DEF LedTo
    <3> QED
      BY <1>0, <2>3, <3>1
  <2>5. \A n \in visited'[w] \cap DOMAIN TemplatePools :
          \/ starting'[w] # "walking" /\ n = sought'[w][1]
          \/ n \in pools' /\ LedTo(n) \subseteq visited'[w] \cup toVisit'[w]
    <3> TAKE n \in visited'[w] \cap DOMAIN TemplatePools
    <3>1. CASE n \in visited[w]
      BY <2>1, <2>2, <2>4, <3>1
    <3>2. CASE n \notin visited[w]
      BY <1>0, <3>2
    <3> QED
      BY <3>1, <3>2
  <2> QED
    BY <1>0, <2>1, <2>5 DEF WalkCloses
<1>6. RootsWalked'
  <2>1. WorthyRoots(dimension[w]) \subseteq visited[w] \cup toVisit[w] /\ dimension' = dimension
    BY <1>a, <1>0 DEF StartIInv, RootsWalked
  <2>2. WorthyRoots(dimension[w]) \subseteq visited'[w] \cup toVisit'[w]
    BY <1>0, <2>1 DEF WorthyRoots
  <2> QED
    BY <1>a, <1>0, <2>1, <2>2 DEF StartIInv, RootsWalked, Using
<1>7. WantsPrepared'
  <2> SUFFICES ASSUME NEW v \in Starters
               PROVE  /\ \A n \in DOMAIN aliases[v] : Prepared(aliases[v][n])
                      /\ \A want \in wants[v] : Prepared(want[1])
                      /\ starting'[v] \in {"asking", "decoding"} /\ v # w => Prepared(sought'[v][1])
                      /\ starting'[v] = "decoding" /\ v # w =>
                           sought'[v][1] \notin DOMAIN TemplatePools \/ sought'[v][1] = "empty"
    BY <1>a, <1>0 DEF WantsPrepared, Prepared
  <2>1. v # w => starting'[v] = starting[v] /\ sought'[v] = sought[v]
    BY <1>0
  <2> QED
    BY <1>a, <2>1 DEF StartIInv, WantsPrepared
<1> QED
  BY <1>1, <1>2, <1>3, <1>4, <1>5, <1>6, <1>7, <1>a DEF StartIInv

LEMMA WarmedStep ==
  ASSUME StartIInv, NEW w \in Starters, Warmed(w)
  PROVE  StartIInv'
<1> USE DEF Warmed, Goes, generatorVars, poolVars, assemblyVars
<1>0. /\ prewarmer = w /\ prewarmed' = visited[w] /\ prewarmed \subseteq prewarmed'
      /\ \A v \in Starters \ {w} : starting'[v] = starting[v]
      /\ starting[w] = "walking" /\ starting'[w] = "ready"
      /\ \A v \in Starters : v # w => starting[v] # "walking"
  <2>1. prewarmer = w
    BY DEF StartIInv, WalkerHoldsLock
  <2>2. prewarmed \subseteq visited[w]
    BY <2>1 DEF StartIInv, WalkCloses
  <2> QED
    BY <2>1, <2>2 DEF StartIInv, StartTypeOK, WalkerHoldsLock
<1>1. StartTypeOK'
  BY DEF StartIInv, StartTypeOK, PerStarter, Stages
<1>2. WalkerHoldsLock'
  BY <1>0, NobodyAssumption DEF WalkerHoldsLock
<1>3. DimensionKnown'
  <2>1. \A v \in Starters : starting'[v] = starting[v] \/ v = w
    BY <1>0
  <2> QED
    BY <1>0, <2>1 DEF StartIInv, DimensionKnown
<1>4. DevicesHeld'
  BY <1>0 DEF StartIInv, StartTypeOK, DevicesHeld
<1>5. PrewarmedClosed'
  <2>1. \A n \in visited[w] \cap DOMAIN TemplatePools : n \in pools /\ LedTo(n) \subseteq visited[w] \cup toVisit[w]
    BY <1>0 DEF StartIInv, WalkCloses
  <2> QED
    BY <1>0, <2>1 DEF PrewarmedClosed
<1>6. WalkCloses'
  BY NobodyAssumption DEF WalkCloses
<1>7. RootsWalked'
  <2>1. WorthyRoots(dimension[w]) \subseteq visited[w] \cup toVisit[w]
    BY <1>0 DEF StartIInv, RootsWalked
  <2>2. WorthyRoots(dimension[w]) \subseteq prewarmed'
    BY <1>0, <2>1
  <2>3. ASSUME NEW v \in Starters, v # w, Using(v)'
        PROVE  WorthyRoots(dimension[v]) \subseteq prewarmed'
    BY <1>0, <2>3 DEF StartIInv, RootsWalked, Using
  <2>4. ASSUME NEW v \in Starters, starting'[v] = "locking"
        PROVE  toVisit[v] = Roots(dimension[v])
    BY <1>0, <2>4 DEF StartIInv, RootsWalked
  <2> QED
    BY <2>2, <2>3, <2>4, NobodyAssumption DEF RootsWalked
<1>8. WantsPrepared'
  <2> SUFFICES ASSUME NEW v \in Starters
               PROVE  /\ \A n \in DOMAIN aliases[v] : Prepared(aliases[v][n])
                      /\ \A want \in wants[v] : Prepared(want[1])
                      /\ starting'[v] \in {"asking", "decoding"} => Prepared(sought[v][1])
                      /\ starting'[v] = "decoding" =>
                           sought[v][1] \notin DOMAIN TemplatePools \/ sought[v][1] = "empty"
    BY <1>0 DEF WantsPrepared, Prepared
  <2>1. v # w => starting'[v] = starting[v]
    BY <1>0
  <2> QED
    BY <1>0, <2>1 DEF StartIInv, WantsPrepared
<1> QED
  BY <1>1, <1>2, <1>3, <1>4, <1>5, <1>6, <1>7, <1>8 DEF StartIInv

\* A goroutine that uses its generator disturbs nobody, as long as it asks for what
\* is prepared.
LEMMA UserStep ==
  ASSUME StartIInv, NEW w \in Starters, Using(w),
         NEW to \in {"ready", "assembling", "asking", "decoding"}, starting' = [starting EXCEPT ![w] = to],
         UNCHANGED <<prewarmer, prewarmed, generatorVars, toVisit, visited>>,
         pools \subseteq pools', pools' \subseteq DOMAIN TemplatePools, decoded' \subseteq {"empty"},
         NEW asked, sought' = [sought EXCEPT ![w] = asked],
         to \in {"asking", "decoding"} => Prepared(asked[1]),
         to = "decoding" => asked[1] \notin DOMAIN TemplatePools \/ asked[1] = "empty",
         NEW rest \in Seq(AliasDefs), undrawn' = [undrawn EXCEPT ![w] = rest],
         IF to = "assembling" THEN rest \in Seq(Drawable(dimension[w])) ELSE rest = <<>>,
         NEW map, aliases' = [aliases EXCEPT ![w] = map], \A m \in DOMAIN map : Prepared(map[m]),
         NEW some, wants' = [wants EXCEPT ![w] = some], \A want \in some : Prepared(want[1])
  PROVE  StartIInv'
<1> USE DEF generatorVars
<1>0. /\ prewarmer # w
      /\ \A v \in Starters \ {w} : /\ starting'[v] = starting[v] /\ sought'[v] = sought[v]
                                  /\ undrawn'[v] = undrawn[v] /\ aliases'[v] = aliases[v] /\ wants'[v] = wants[v]
      /\ starting'[w] = to /\ sought'[w] = asked /\ undrawn'[w] = rest /\ aliases'[w] = map /\ wants'[w] = some
      /\ dimension[w] \in DOMAIN JigsawSets
  BY DEF StartIInv, StartTypeOK, WalkerHoldsLock, DimensionKnown, Using, PerStarter
<1>1. StartTypeOK'
  BY DEF StartIInv, StartTypeOK, PerStarter, Stages
<1>2. WalkerHoldsLock'
  BY <1>0 DEF StartIInv, WalkerHoldsLock
<1>3. DimensionKnown'
  <2> SUFFICES ASSUME NEW v \in Starters
               PROVE  /\ starting'[v] # "idle" => dimension[v] \in DOMAIN JigsawSets
                      /\ starting'[v] # "assembling" => undrawn'[v] = <<>>
                      /\ starting'[v] = "assembling" => undrawn'[v] \in Seq(Drawable(dimension[v]))
    BY DEF DimensionKnown
  <2>1. CASE v = w
    BY <1>0, <2>1
  <2>2. CASE v # w
    BY <1>0, <2>2 DEF StartIInv, DimensionKnown
  <2> QED
    BY <2>1, <2>2
<1>4. DevicesHeld'
  BY <1>0 DEF StartIInv, StartTypeOK, DevicesHeld
<1>5. PrewarmedClosed'
  BY DEF StartIInv, PrewarmedClosed
<1>6. WalkCloses'
  BY <1>0, WalkUndisturbed DEF StartIInv
<1>7. RootsWalked'
  <2>1. WorthyRoots(dimension[w]) \subseteq prewarmed
    BY DEF StartIInv, RootsWalked
  <2> SUFFICES ASSUME NEW v \in Starters
               PROVE  /\ starting'[v] = "locking" => toVisit[v] = Roots(dimension[v])
                      /\ prewarmer = v => WorthyRoots(dimension[v]) \subseteq visited[v] \cup toVisit[v]
                      /\ Using(v)' => WorthyRoots(dimension[v]) \subseteq prewarmed
    BY DEF RootsWalked
  <2>2. CASE v = w
    BY <1>0, <2>1, <2>2
  <2>3. CASE v # w
    BY <1>0, <2>3 DEF StartIInv, RootsWalked, Using
  <2> QED
    BY <2>2, <2>3
<1>8. WantsPrepared'
  <2> SUFFICES ASSUME NEW v \in Starters
               PROVE  /\ \A m \in DOMAIN aliases'[v] : Prepared(aliases'[v][m])
                      /\ \A want \in wants'[v] : Prepared(want[1])
                      /\ starting'[v] \in {"asking", "decoding"} /\ prewarmer # v => Prepared(sought'[v][1])
                      /\ starting'[v] = "decoding" /\ prewarmer # v =>
                           sought'[v][1] \notin DOMAIN TemplatePools \/ sought'[v][1] = "empty"
    BY DEF WantsPrepared, Prepared
  <2>1. CASE v = w
    BY <1>0, <2>1
  <2>2. CASE v # w
    BY <1>0, <2>2 DEF StartIInv, WantsPrepared
  <2> QED
    BY <2>1, <2>2
<1> QED
  BY <1>1, <1>2, <1>3, <1>4, <1>5, <1>6, <1>7, <1>8 DEF StartIInv

LEMMA ClosesSoFar ==
  ASSUME WalkCloses, NEW w \in Starters, prewarmer = w
  PROVE  /\ prewarmed \subseteq visited[w]
         /\ \A n \in visited[w] \cap DOMAIN TemplatePools :
              n = sought[w][1] \/ (n \in pools /\ LedTo(n) \subseteq visited[w] \cup toVisit[w])
BY DEF WalkCloses

\* The one that walks is answered: what a pool leads to it has yet to visit.
LEMMA WalkerStep ==
  ASSUME StartIInv, NEW w \in Starters, prewarmer = w, starting[w] \in {"asking", "decoding"},
         NEW to \in {"walking", "decoding"}, starting' = [starting EXCEPT ![w] = to],
         NEW more, toVisit' = [toVisit EXCEPT ![w] = more], toVisit[w] \subseteq more,
         NEW asked, sought' = [sought EXCEPT ![w] = asked], to = "decoding" => asked = sought[w],
         pools \subseteq pools', pools' \subseteq DOMAIN TemplatePools,
         to = "walking" /\ sought[w][1] \in DOMAIN TemplatePools =>
           sought[w][1] \in pools' /\ LedTo(sought[w][1]) \subseteq more,
         UNCHANGED <<generatorVars, prewarmer, prewarmed, decoded, visited, assemblyVars>>
  PROVE  StartIInv'
<1> USE DEF generatorVars, assemblyVars
<1>0. /\ \A v \in Starters \ {w} : /\ starting'[v] = starting[v] /\ toVisit'[v] = toVisit[v]
                                  /\ sought'[v] = sought[v]
      /\ starting'[w] = to /\ toVisit'[w] = more /\ sought'[w] = asked
  BY DEF StartIInv, StartTypeOK, PerStarter
<1>1. StartTypeOK'
  BY DEF StartIInv, StartTypeOK, PerStarter, Stages
<1>2. WalkerHoldsLock'
  BY <1>0 DEF StartIInv, WalkerHoldsLock
<1>3. DimensionKnown'
  <2>1. \A v \in Starters : starting'[v] = starting[v] \/ v = w
    BY <1>0
  <2> QED
    BY <1>0, <2>1 DEF StartIInv, DimensionKnown
<1>4. DevicesHeld'
  BY <1>0 DEF StartIInv, StartTypeOK, DevicesHeld
<1>5. PrewarmedClosed'
  BY DEF StartIInv, PrewarmedClosed
<1>6. WalkCloses'
  <2>1. /\ prewarmed \subseteq visited[w]
        /\ \A n \in visited[w] \cap DOMAIN TemplatePools :
             n = sought[w][1] \/ (n \in pools /\ LedTo(n) \subseteq visited[w] \cup toVisit[w])
    BY ClosesSoFar DEF StartIInv
  <2>2. \A n \in visited[w] \cap DOMAIN TemplatePools :
          \/ to # "walking" /\ n = asked[1]
          \/ n \in pools' /\ LedTo(n) \subseteq visited[w] \cup more
    BY <2>1
  <2> QED
    BY <1>0, <2>1, <2>2 DEF WalkCloses
<1>7. RootsWalked'
  <2>1. WorthyRoots(dimension[w]) \subseteq visited[w] \cup more
    BY DEF StartIInv, RootsWalked
  <2> SUFFICES ASSUME NEW v \in Starters
               PROVE  /\ starting'[v] = "locking" => toVisit'[v] = Roots(dimension[v])
                      /\ prewarmer = v => WorthyRoots(dimension[v]) \subseteq visited[v] \cup toVisit'[v]
                      /\ Using(v)' => WorthyRoots(dimension[v]) \subseteq prewarmed
    BY DEF RootsWalked
  <2>2. CASE v = w
    BY <1>0, <2>1, <2>2 DEF Using
  <2>3. CASE v # w
    BY <1>0, <2>3 DEF StartIInv, RootsWalked, Using
  <2> QED
    BY <2>2, <2>3
<1>8. WantsPrepared'
  <2> SUFFICES ASSUME NEW v \in Starters
               PROVE  /\ \A n \in DOMAIN aliases[v] : Prepared(aliases[v][n])
                      /\ \A want \in wants[v] : Prepared(want[1])
                      /\ starting'[v] \in {"asking", "decoding"} /\ prewarmer # v => Prepared(sought'[v][1])
                      /\ starting'[v] = "decoding" /\ prewarmer # v =>
                           sought'[v][1] \notin DOMAIN TemplatePools \/ sought'[v][1] = "empty"
    BY DEF WantsPrepared, Prepared
  <2> QED
    BY <1>0 DEF StartIInv, WantsPrepared
<1> QED
  BY <1>1, <1>2, <1>3, <1>4, <1>5, <1>6, <1>7, <1>8 DEF StartIInv

\* What a prepared pool names is prepared.
LEMMA PreparedLeads ==
  ASSUME StartIInv, NEW name \in pools, Prepared(name), NEW n \in PoolJigsaws(name) \cup {FallbackOf(name)}
  PROVE  Prepared(n)
<1>1. name \in DOMAIN TemplatePools /\ name # ""
  BY PoolsAssumption DEF StartIInv, StartTypeOK
<1>2. CASE name = "empty"
  BY <1>1, <1>2, EmptyLeadsNowhere DEF Prepared
<1>3. CASE name # "empty"
  <2>1. LedTo(name) \subseteq prewarmed
    BY <1>1, <1>3 DEF Prepared, StartIInv, PrewarmedClosed
  <2> QED
    BY <1>1, <2>1, LeadsSomewhere DEF Prepared
<1> QED
  BY <1>2, <1>3

LEMMA PoolStep ==
  ASSUME StartIInv, NEW w \in Starters, PoolKnown(w) \/ PoolUnknown(w) \/ DecodePool(w) \/ NoSuchPool(w)
  PROVE  StartIInv'
<1> DEFINE name == sought[w][1]
<1>0. /\ starting[w] \in {"asking", "decoding"}
      /\ PerStarter(sought) /\ PerStarter(wants) /\ PerStarter(aliases) /\ PerStarter(toVisit)
      /\ undrawn = [undrawn EXCEPT ![w] = <<>>] /\ <<>> \in Seq(AliasDefs)
      /\ pools \subseteq DOMAIN TemplatePools
  <2>1. starting[w] \in {"asking", "decoding"}
    BY DEF PoolKnown, PoolUnknown, DecodePool, NoSuchPool, Goes
  <2>2. /\ PerStarter(sought) /\ PerStarter(wants) /\ PerStarter(aliases) /\ PerStarter(toVisit)
        /\ pools \subseteq DOMAIN TemplatePools /\ undrawn \in [Starters -> Seq(AliasDefs)]
    BY DEF StartIInv, StartTypeOK
  <2>3. undrawn[w] = <<>>
    BY <2>1 DEF StartIInv, DimensionKnown
  <2> QED
    BY <2>1, <2>2, <2>3, EmptySeq
<1>a. sought = [sought EXCEPT ![w] = sought[w]] /\ toVisit = [toVisit EXCEPT ![w] = toVisit[w]]
  BY <1>0 DEF PerStarter
<1>1. CASE prewarmer = w
  <2>1. CASE PoolKnown(w) \/ DecodePool(w)
    <3>1. /\ name \in pools' /\ pools \subseteq pools' /\ pools' \subseteq DOMAIN TemplatePools
          /\ decoded' = decoded
          /\ Answered(w, name)
      BY <1>0, <1>1, <2>1 DEF PoolKnown, DecodePool, Prewarming
    <3>2. /\ sought' = [sought EXCEPT ![w] = <<NoName, FALSE>>]
          /\ starting' = [starting EXCEPT ![w] = "walking"]
          /\ toVisit' = [toVisit EXCEPT ![w] = toVisit[w] \cup LedTo(name)]
          /\ UNCHANGED <<generatorVars, prewarmer, prewarmed, visited, assemblyVars>>
      BY <1>1, <3>1 DEF Answered, Prewarming, assemblyVars
    <3>3. toVisit[w] \subseteq toVisit[w] \cup LedTo(name) /\ LedTo(name) \subseteq toVisit[w] \cup LedTo(name)
      OBVIOUS
    <3> HIDE DEF name
    <3>4. name = sought[w][1]
      BY DEF name
    <3> QED
      BY <1>0, <1>1, <3>1, <3>2, <3>3, <3>4, WalkerStep
  <2>2. CASE PoolUnknown(w)
    BY <1>0, <1>a, <1>1, <2>2, WalkerStep DEF PoolUnknown, Goes, poolVars
  <2>3. CASE NoSuchPool(w)
    BY <1>0, <1>a, <1>1, <2>3, WalkerStep DEF NoSuchPool, Goes, Prewarming, poolVars
  <2> QED
    BY <2>1, <2>2, <2>3
<1>2. CASE prewarmer # w
  <2>0. /\ Using(w) /\ Prepared(name) /\ <<>> \in Seq(Drawable(dimension[w])) /\ decoded \subseteq {"empty"}
        /\ starting[w] = "decoding" => name \notin DOMAIN TemplatePools \/ name = "empty"
        /\ \A n \in DOMAIN aliases[w] : Prepared(aliases[w][n])
        /\ \A want \in wants[w] : Prepared(want[1])
    BY <1>0, <1>2, EmptySeq DEF StartIInv, WantsPrepared, Using
  <2>b. aliases = [aliases EXCEPT ![w] = aliases[w]] /\ wants = [wants EXCEPT ![w] = wants[w]]
    BY <1>0 DEF PerStarter
  <2>1. CASE PoolKnown(w) \/ DecodePool(w)
    <3> DEFINE some == {<<n, FALSE>> : n \in PoolJigsaws(name)}
                 \cup IF sought[w][2] \/ FallbackOf(name) = "" THEN {} ELSE {<<FallbackOf(name), TRUE>>}
    <3>1. /\ name \in pools' /\ pools \subseteq pools' /\ pools' \subseteq DOMAIN TemplatePools
          /\ decoded' \subseteq {"empty"}
          /\ name \in pools \/ name = "empty"
      BY <1>0, <1>2, <2>0, <2>1 DEF PoolKnown, DecodePool, Prewarming
    <3>2. \A n \in PoolJigsaws(name) \cup {FallbackOf(name)} : Prepared(n)
      <4>1. CASE name \in pools
        BY <2>0, <4>1, PreparedLeads
      <4>2. CASE name = "empty"
        BY <3>1, <4>2, EmptyLeadsNowhere DEF Prepared
      <4> QED
        BY <3>1, <4>1, <4>2
    <3>3. \A want \in some : Prepared(want[1])
      <4> TAKE want \in some
      <4>1. want[1] \in PoolJigsaws(name) \cup {FallbackOf(name)}
        <5>1. CASE want \in {<<n, FALSE>> : n \in PoolJigsaws(name)}
          <6>1. PICK n \in PoolJigsaws(name) : want = <<n, FALSE>>
            BY <5>1
          <6> QED
            BY <6>1
        <5>2. CASE want = <<FallbackOf(name), TRUE>>
          BY <5>2
        <5> QED
          BY <5>1, <5>2
      <4> QED
        BY <3>2, <4>1
    <3>4. Answered(w, name)
      BY <2>1 DEF PoolKnown, DecodePool
    <3>5. /\ sought' = [sought EXCEPT ![w] = <<NoName, FALSE>>]
          /\ starting' = [starting EXCEPT ![w] = "assembling"]
          /\ toVisit' = toVisit
          /\ wants' = [wants EXCEPT ![w] = some]
          /\ UNCHANGED <<generatorVars, prewarmed, prewarmer, visited, undrawn, aliases>>
      BY <1>2, <3>4 DEF Answered, Prewarming
    <3> HIDE DEF some, name
    <3> QED
      BY <1>0, <2>0, <2>b, <3>1, <3>3, <3>5, UserStep
  <2>2. CASE PoolUnknown(w)
    <3>1. name \notin DOMAIN TemplatePools \/ name = "empty"
      <4> SUFFICES ASSUME name \in DOMAIN TemplatePools, name # "empty" PROVE FALSE
        OBVIOUS
      <4>1. name \in prewarmed
        BY <2>0, PoolsAssumption DEF Prepared
      <4> QED
        BY <2>2, <4>1 DEF PoolUnknown, StartIInv, PrewarmedClosed
    <3>2. /\ starting' = [starting EXCEPT ![w] = "decoding"]
          /\ UNCHANGED <<generatorVars, poolVars, prewarmer, toVisit, visited, sought, assemblyVars>>
      BY <2>2 DEF PoolUnknown, Goes
    <3> QED
      BY <1>0, <1>a, <2>0, <2>b, <3>1, <3>2, UserStep DEF poolVars, assemblyVars
  <2>3. CASE NoSuchPool(w)
    <3>1. /\ starting' = [starting EXCEPT ![w] = "assembling"]
          /\ sought' = [sought EXCEPT ![w] = <<NoName, FALSE>>]
          /\ UNCHANGED <<generatorVars, poolVars, prewarmer, toVisit, visited, assemblyVars>>
      BY <1>2, <2>3 DEF NoSuchPool, Goes, Prewarming
    <3> QED
      BY <1>0, <2>0, <2>b, <3>1, UserStep DEF poolVars, assemblyVars
  <2> QED
    BY <2>1, <2>2, <2>3
<1> QED
  BY <1>1, <1>2

\* A generator in use has prewarmed what its structures start with or call a pool.
LEMMA RootsPrepared ==
  ASSUME StartIInv, NEW w \in Starters, Using(w), NEW n \in Roots(dimension[w])
  PROVE  Prepared(n)
<1>1. WorthyRoots(dimension[w]) \subseteq prewarmed
  BY DEF StartIInv, RootsWalked
<1> QED
  BY <1>1 DEF WorthyRoots, Worth, Prepared

LEMMA AssembleStep ==
  ASSUME StartIInv, NEW w \in Starters, starting[w] = "ready",
         NEW candidate \in ToSet(JigsawSets[dimension[w]]), Assemble(w, candidate)
  PROVE  StartIInv'
<1> DEFINE some == {<<n, FALSE>> : n \in RootJigsaws(candidate.start)}
<1>1. /\ Using(w) /\ dimension[w] \in DOMAIN JigsawSets
      /\ pools \subseteq DOMAIN TemplatePools /\ decoded \subseteq {"empty"}
      /\ aliases = [aliases EXCEPT ![w] = aliases[w]] /\ sought = [sought EXCEPT ![w] = sought[w]]
      /\ \A n \in DOMAIN aliases[w] : Prepared(aliases[w][n])
  BY DEF StartIInv, StartTypeOK, DimensionKnown, WantsPrepared, Using, PerStarter
<1>2. candidate.aliases \in Seq(AliasDefs) /\ candidate.aliases \in Seq(Drawable(dimension[w]))
  BY <1>1, AliasesDrawable
<1>3. candidate.start \in DOMAIN TemplatePools /\ candidate.start # ""
  BY PoolsAssumption DEF Assemble
<1>4. ASSUME NEW n \in RootJigsaws(candidate.start) PROVE Prepared(n)
  <2>1. candidate.start # "empty"
    BY <1>3, <1>4, EmptyLeadsNowhere
  <2>2. candidate.start \in {n_1 \in {candidate.start} : Worth(n_1)} \cup AliasTargets(candidate.aliases)
    BY <1>3, <2>1 DEF Worth
  <2>3. candidate.start \in Roots(dimension[w])
    BY <2>2, Zenon DEF Roots
  <2>4. candidate.start \in prewarmed
    BY <1>1, <1>3, <2>1, <2>3, RootsPrepared DEF Prepared
  <2>5. candidate.start \in pools
    BY <1>3, <2>4 DEF StartIInv, PrewarmedClosed
  <2> QED
    BY <2>4, <2>5, RootLeads, PreparedLeads DEF Prepared
<1>5. ASSUME NEW want \in some PROVE Prepared(want[1])
  <2>1. PICK n \in RootJigsaws(candidate.start) : want = <<n, FALSE>>
    OBVIOUS
  <2> QED
    BY <1>4, <2>1
<1>6. /\ starting' = [starting EXCEPT ![w] = "assembling"]
      /\ undrawn' = [undrawn EXCEPT ![w] = candidate.aliases]
      /\ wants' = [wants EXCEPT ![w] = some]
      /\ UNCHANGED <<generatorVars, poolVars, prewarmer, toVisit, visited, sought, aliases>>
  BY DEF Assemble, Goes
<1> HIDE DEF some
<1> QED
  BY <1>1, <1>2, <1>5, <1>6, UserStep DEF poolVars

LEMMA DrawStep ==
  ASSUME StartIInv, NEW w \in Starters, DrawAlias(w)
  PROVE  StartIInv'
<1> DEFINE d == dimension[w]
           def == Head(undrawn[w])
           rest == Tail(undrawn[w])
<1>1. /\ starting[w] = "assembling" /\ undrawn[w] # <<>>
      /\ UNCHANGED <<generatorVars, poolVars, prewarmer, starting, toVisit, visited, sought, wants>>
  BY DEF DrawAlias
<1>2. /\ Using(w) /\ d \in DOMAIN JigsawSets
      /\ undrawn[w] \in Seq(AliasDefs) /\ undrawn[w] \in Seq(Drawable(d))
      /\ pools \subseteq DOMAIN TemplatePools /\ decoded \subseteq {"empty"}
      /\ starting = [starting EXCEPT ![w] = "assembling"]
      /\ sought = [sought EXCEPT ![w] = sought[w]] /\ wants = [wants EXCEPT ![w] = wants[w]]
      /\ \A n \in DOMAIN aliases[w] : Prepared(aliases[w][n])
      /\ \A want \in wants[w] : Prepared(want[1])
  <2>1. /\ Using(w) /\ d \in DOMAIN JigsawSets /\ undrawn[w] \in Seq(Drawable(d))
        /\ \A n \in DOMAIN aliases[w] : Prepared(aliases[w][n])
        /\ \A want \in wants[w] : Prepared(want[1])
    BY <1>1 DEF StartIInv, DimensionKnown, WantsPrepared, Using
  <2> QED
    BY <1>1, <2>1 DEF StartIInv, StartTypeOK, PerStarter
<1>3. def \in Drawable(d) /\ rest \in Seq(AliasDefs) /\ rest \in Seq(Drawable(d))
  BY <1>1, <1>2, HeadTailProperties
<1>4. ASSUME NEW list \in Seq(AliasDefs), list \in Seq(Drawable(d)),
             NEW map, \A n \in DOMAIN map : Prepared(map[n]), Drawn(w, list, map)
      PROVE  StartIInv'
  <2>1. undrawn' = [undrawn EXCEPT ![w] = list] /\ aliases' = [aliases EXCEPT ![w] = map]
    BY <1>4 DEF Drawn
  <2> HIDE DEF def, rest
  <2> QED
    BY <1>1, <1>2, <1>4, <2>1, UserStep DEF poolVars
<1>5. ASSUME NEW target \in TargetsOf(def), NEW alias
      PROVE  \A n \in DOMAIN Aliased(aliases[w], alias, target) : Prepared(Aliased(aliases[w], alias, target)[n])
  <2>1. target # "" => Prepared(target)
    BY <1>2, <1>3, TargetsAreRoots, RootsPrepared
  <2> HIDE DEF def, rest, d
  <2> QED
    BY <1>2, <2>1 DEF Aliased
<1>6. CASE def.type = "direct" /\ Drawn(w, rest, Aliased(aliases[w], def.alias, def.target))
  <2>1. def.target \in TargetsOf(def)
    BY <1>6 DEF TargetsOf
  <2> QED
    BY <1>3, <1>4, <1>5, <1>6, <2>1
<1>7. ASSUME def.type = "random", NEW target \in WeightedChoices(def.targets),
             Drawn(w, rest, Aliased(aliases[w], def.alias, target))
      PROVE  StartIInv'
  <2>1. target \in TargetsOf(def)
    BY <1>7 DEF TargetsOf, WeightedChoices
  <2> QED
    BY <1>3, <1>4, <1>5, <1>7, <2>1
<1>8. ASSUME def.type = "random_group", NEW group \in WeightedChoices(def.groups), Drawn(w, group \o rest, aliases[w])
      PROVE  StartIInv'
  <2>1. group \in Seq(AliasDefs) /\ group \in Seq(Drawable(d))
    BY <1>2, <1>3, <1>8, GroupsDrawable
  <2>2. group \o rest \in Seq(AliasDefs) /\ group \o rest \in Seq(Drawable(d))
    BY <1>3, <2>1
  <2> QED
    BY <1>2, <1>4, <1>8, <2>2
<1>9. CASE Drawn(w, rest, aliases[w])
  BY <1>2, <1>3, <1>4, <1>9
<1> QED
  BY <1>6, <1>7, <1>8, <1>9 DEF DrawAlias

LEMMA AskStep ==
  ASSUME StartIInv, NEW w \in Starters, NEW want \in wants[w], AskFor(w, want)
  PROVE  StartIInv'
<1> DEFINE name == Lookup(aliases[w], want[1])
<1>1. /\ Using(w) /\ <<>> \in Seq(AliasDefs) /\ undrawn = [undrawn EXCEPT ![w] = <<>>]
      /\ aliases = [aliases EXCEPT ![w] = aliases[w]] /\ wants = [wants EXCEPT ![w] = wants[w]]
      /\ pools \subseteq DOMAIN TemplatePools /\ decoded \subseteq {"empty"}
      /\ \A n \in DOMAIN aliases[w] : Prepared(aliases[w][n])
      /\ \A other \in wants[w] : Prepared(other[1])
  BY EmptySeq DEF AskFor, Goes, StartIInv, StartTypeOK, WantsPrepared, Using, PerStarter
<1>2. Prepared(name)
  BY <1>1 DEF Lookup
<1>3. /\ starting' = [starting EXCEPT ![w] = "asking"]
      /\ sought' = [sought EXCEPT ![w] = <<name, want[2]>>]
      /\ UNCHANGED <<generatorVars, poolVars, prewarmer, toVisit, visited, assemblyVars>>
  BY DEF AskFor, Goes
<1> HIDE DEF name
<1> QED
  BY <1>1, <1>2, <1>3, UserStep DEF poolVars, assemblyVars

LEMMA AssembledStep ==
  ASSUME StartIInv, NEW w \in Starters, Assembled(w)
  PROVE  StartIInv'
<1>1. /\ Using(w) /\ <<>> \in Seq(AliasDefs) /\ undrawn = [undrawn EXCEPT ![w] = <<>>]
      /\ sought = [sought EXCEPT ![w] = sought[w]]
      /\ pools \subseteq DOMAIN TemplatePools /\ decoded \subseteq {"empty"}
  BY EmptySeq DEF Assembled, Goes, StartIInv, StartTypeOK, Using, PerStarter
<1>2. /\ starting' = [starting EXCEPT ![w] = "ready"]
      /\ aliases' = [aliases EXCEPT ![w] = <<>>] /\ wants' = [wants EXCEPT ![w] = {}]
      /\ UNCHANGED <<generatorVars, poolVars, prewarmer, toVisit, visited, sought, undrawn>>
  BY DEF Assembled, Goes
<1> DEFINE none == <<>>
           nothing == {}
<1>3. (\A n \in DOMAIN none : Prepared(none[n])) /\ \A want \in nothing : Prepared(want[1])
  BY EmptySeq
<1>4. aliases' = [aliases EXCEPT ![w] = none] /\ wants' = [wants EXCEPT ![w] = nothing]
  BY <1>2
<1> HIDE DEF none, nothing
<1> QED
  BY <1>1, <1>2, <1>3, <1>4, UserStep DEF poolVars

LEMMA StartIInvStep == StartIInv /\ [StartNext]_startVars => StartIInv'
<1> SUFFICES ASSUME StartIInv, [StartNext]_startVars PROVE StartIInv'
  OBVIOUS
<1>1. CASE UNCHANGED startVars
  BY <1>1 DEF startVars, generatorVars, poolVars, assemblyVars, StartIInv, StartTypeOK, WalkerHoldsLock, Using,
     DimensionKnown, DevicesHeld, PrewarmedClosed, WalkCloses, RootsWalked, Prepared, WantsPrepared, PerStarter
<1>2. CASE StartNext
  <2> PICK w \in Starters :
        \/ \E d \in DOMAIN JigsawSets : Construct(w, d)
        \/ MakeResources(w) \/ ShareResources(w)
        \/ \E mode \in Modes : NoDevice(w, mode)
        \/ \E loads \in BOOLEAN :
             \/ OpenDevice(w, loads)
             \/ \E mode \in Modes, n \in FailingSteps : DeviceFails(w, mode, loads, n)
        \/ Reject(w) \/ Accept(w)
        \/ LockPools(w) \/ (\E name \in toVisit[w] : Visit(w, name) \/ PassBy(w, name)) \/ Warmed(w)
        \/ PoolKnown(w) \/ PoolUnknown(w) \/ DecodePool(w) \/ NoSuchPool(w)
        \/ starting[w] = "ready" /\ \E candidate \in ToSet(JigsawSets[dimension[w]]) : Assemble(w, candidate)
        \/ DrawAlias(w) \/ (\E want \in wants[w] : AskFor(w, want)) \/ Assembled(w) \/ CloseGenerator(w)
    BY <1>2 DEF StartNext
  <2> QED
    BY ApartSteps, AcceptStep, LockStep, VisitStep, WarmedStep, PoolStep, AssembleStep, DrawStep, AskStep, AssembledStep
<1> QED
  BY <1>1, <1>2

LEMMA StartIInvAlways == StartSpec => []StartIInv
<1> QED
  BY StartIInvInit, StartIInvStep, PTL DEF StartSpec

\* Whoever constructs, walks and assembles when: the states are those the code has.
THEOREM StartTypeCorrect == StartSpec => []StartTypeOK
<1>1. StartIInv => StartTypeOK
  BY DEF StartIInv
<1> QED
  BY <1>1, StartIInvAlways, PTL

\* Once a generator is there, assembling its structures decodes no pool but the empty
\* one, and a constructor that fails has closed its device: for any registry of pools,
\* templates and aliases, however aliases nest and fall, and any number of goroutines.
THEOREM ReadyAlways == StartSpec => []ReadyToGenerate
<1>1. StartIInv => ReadyToGenerate
  BY DEF StartIInv, DevicesHeld, ReadyToGenerate
<1> QED
  BY <1>1, StartIInvAlways, PTL

\* When a generator is in use, all that its structures may start with or be called is
\* prewarmed, and whatever is prewarmed is resolved and leads to nothing that is not.
THEOREM PrewarmedAlways ==
  StartSpec => [](\A w \in Starters : Using(w) =>
                    /\ WorthyRoots(dimension[w]) \subseteq prewarmed
                    /\ \A n \in prewarmed \cap DOMAIN TemplatePools : n \in pools /\ LedTo(n) \subseteq prewarmed)
<1>1. StartIInv => \A w \in Starters : Using(w) =>
                    /\ WorthyRoots(dimension[w]) \subseteq prewarmed
                    /\ \A n \in prewarmed \cap DOMAIN TemplatePools : n \in pools /\ LedTo(n) \subseteq prewarmed
  BY DEF StartIInv, RootsWalked, PrewarmedClosed
<1> QED
  BY <1>1, StartIInvAlways, PTL

-----------------------------------------------------------------------------
(***************************************************************************)
(* LookupTables.                                                           *)
(***************************************************************************)
\* The published table reaches from 0 to its end and names what it names truly.
TableTrue ==
  /\ \E n \in Nat : DOMAIN names = 0 .. n - 1
  /\ names = [i \in DOMAIN names |-> names[i]]
  /\ \A i \in DOMAIN names :
       names[i] = Unset \/ (i \in DOMAIN BlockName /\ names[i] = BlockName[i])

\* A memo holds what its keys work out to.
MemoTrue ==
  /\ memo = [m \in DOMAIN MemoKeys |-> memo[m]]
  /\ \A m \in DOMAIN MemoKeys : \A key \in DOMAIN memo[m] : memo[m][key] = WorkedOut(m, key)

\* A registry holds what is embedded, and templates what their bytes read as.
RegistriesTrue ==
  /\ loaded = [r \in DOMAIN Embedded |-> loaded[r]]
  /\ \A r \in DOMAIN Embedded : \A name \in DOMAIN loaded[r] :
       name \in DOMAIN Embedded[r] /\ loaded[r][name] = Embedded[r][name]
  /\ \A name \in DOMAIN rawLoaded :
       name \in DOMAIN RawTemplate /\ rawLoaded[name] = RawTemplate[name]
  /\ \A name \in DOMAIN templateOf : templateOf[name] = RightTemplate(name)

\* A cell holds what some accessor of its type decoded.
CellTrue(cell, value) ==
  LET definition == Embedded[cell[1]][cell[2]]
  IN \E accessor \in Accessors :
       /\ definition.type \in accessor.expected
       /\ value = [key |-> definition.type, as |-> accessor.as,
                   value |-> Decoded[definition.config][accessor.as]]
CellsTrue == \A cell \in DOMAIN entry : CellTrue(cell, entry[cell])

\* What a goroutine may be about: who copies the table holds the lock, and the
\* table he copies is the one published.
Storing(activity) ==
  \E rid \in DOMAIN BlockName \cap AskedIDs : activity = [at |-> "storing", rid |-> rid]
Copying(activity) ==
  \E rid \in DOMAIN BlockName \cap AskedIDs :
    activity = [at |-> "copying", rid |-> rid, old |-> names]
WorkingOut(activity) ==
  \E m \in DOMAIN MemoKeys : \E key \in MemoKeys[m] :
    activity = [at |-> "computing", memo |-> m, key |-> key]
Fetching(activity) == \E name : activity = [at |-> "fetching", name |-> name]
Reading(activity) ==
  \E name : activity = [at |-> "reading", name |-> name,
                        data |-> IF name \in DOMAIN RawTemplate THEN RawTemplate[name] ELSE Failed]
Decoding(activity) ==
  \E r \in DOMAIN Embedded : \E name \in DOMAIN loaded[r], accessor \in Accessors :
    /\ Embedded[r][name].type \in accessor.expected
    /\ activity = [at |-> "decoding", of |-> <<r, name>>, accessor |-> accessor]

DoingTrue ==
  /\ doing = [g \in Askers |-> doing[g]]
  /\ \A g \in Askers :
       \/ doing[g] = Idle
       \/ Storing(doing[g])
       \/ Copying(doing[g]) /\ tableLock = g
       \/ WorkingOut(doing[g])
       \/ Fetching(doing[g])
       \/ Reading(doing[g])
       \/ Decoding(doing[g])

\* The shapes of the questions asked.
Question(q) ==
  \/ \E rid : q = NameQuestion(rid)
  \/ \E m \in DOMAIN MemoKeys : \E key : q = MemoQuestion(m, key)
  \/ \E r \in DOMAIN Embedded : \E name : q = DefinitionQuestion(r, name)
  \/ \E name : q = TemplateQuestion(name)
  \/ \E cell, accessor : q = ConfigQuestion(cell, accessor)

AnswersKept ==
  \A given \in answers :
    Question(given[1]) /\ given[2] = Right(given[1]) /\ Found(given[1])

LookupIInv ==
  TableTrue /\ MemoTrue /\ RegistriesTrue /\ CellsTrue /\ DoingTrue /\ AnswersKept

\* The right answer and what is kept, for each kind of question.
LEMMA RightOf ==
  /\ \A rid : Right(NameQuestion(rid)) = IF rid \in DOMAIN BlockName THEN BlockName[rid] ELSE "air"
  /\ \A m, key : Right(MemoQuestion(m, key)) = WorkedOut(m, key)
  /\ \A r, name : Right(DefinitionQuestion(r, name)) =
       IF name \in DOMAIN Embedded[r] THEN Embedded[r][name] ELSE NotFound
  /\ \A name : Right(TemplateQuestion(name)) = RightTemplate(name)
  /\ \A cell, accessor : Right(ConfigQuestion(cell, accessor)) = RightConfig(cell, accessor)
BY DEF Right, NameQuestion, MemoQuestion, DefinitionQuestion, TemplateQuestion, ConfigQuestion

LEMMA FoundMeans ==
  /\ \A rid : Found(NameQuestion(rid)) <=> (rid \in DOMAIN BlockName => NameKnown(rid))
  /\ \A m, key : Found(MemoQuestion(m, key)) <=> (WorkedOut(m, key) # NotFound => key \in DOMAIN memo[m])
  /\ \A r, name : Found(DefinitionQuestion(r, name)) <=>
       (name \in DOMAIN Embedded[r] => name \in DOMAIN loaded[r])
  /\ \A name : Found(TemplateQuestion(name)) <=> name \in DOMAIN templateOf
  /\ \A cell, accessor : Found(ConfigQuestion(cell, accessor)) <=>
       (Embedded[cell[1]][cell[2]].type \in accessor.expected => cell \in DOMAIN entry)
BY DEF Found, NameQuestion, MemoQuestion, DefinitionQuestion, TemplateQuestion, ConfigQuestion

\* A step after which whatever was kept is kept still.
Remembers ==
  /\ \A rid : NameKnown(rid) => NameKnown(rid)'
  /\ \A m \in DOMAIN MemoKeys : DOMAIN memo[m] \subseteq DOMAIN memo'[m]
  /\ \A r \in DOMAIN Embedded : DOMAIN loaded[r] \subseteq DOMAIN loaded'[r]
  /\ DOMAIN templateOf \subseteq DOMAIN templateOf'
  /\ DOMAIN entry \subseteq DOMAIN entry'

\* What is kept stays kept when every store keeps what it has.
LEMMA FoundStays ==
  ASSUME Remembers, NEW q, Question(q), Found(q)
  PROVE  Found(q)'
<1>1. CASE \E rid : q = NameQuestion(rid)
  BY <1>1 DEF Remembers, Found, NameQuestion
<1>2. CASE \E m \in DOMAIN MemoKeys : \E key : q = MemoQuestion(m, key)
  BY <1>2 DEF Remembers, Found, MemoQuestion
<1>3. CASE \E r \in DOMAIN Embedded : \E name : q = DefinitionQuestion(r, name)
  BY <1>3 DEF Remembers, Found, DefinitionQuestion
<1>4. CASE \E name : q = TemplateQuestion(name)
  BY <1>4 DEF Remembers, Found, TemplateQuestion
<1>5. CASE \E cell, accessor : q = ConfigQuestion(cell, accessor)
  BY <1>5 DEF Remembers, Found, ConfigQuestion
<1> QED BY <1>1, <1>2, <1>3, <1>4, <1>5 DEF Question

\* A step that answers nothing and forgets nothing keeps the answers true.
LEMMA NothingAnswered ==
  ASSUME AnswersKept, Remembers, UNCHANGED answers
  PROVE  AnswersKept'
BY FoundStays DEF AnswersKept, Question, Right

\* A right answer that is kept joins the others.
LEMMA OneAnswered ==
  ASSUME AnswersKept, Remembers, NEW g, NEW q, NEW a, Answer(g, q, a),
         Question(q), a = Right(q), Found(q)'
  PROVE  AnswersKept'
<1> SUFFICES ASSUME NEW given \in answers'
             PROVE  Question(given[1])' /\ given[2] = Right(given[1])' /\ Found(given[1])'
  BY DEF AnswersKept
<1>1. CASE given = <<q, a>>
  BY <1>1
<1>2. CASE given \in answers
  BY <1>2, FoundStays DEF AnswersKept
<1> QED BY <1>1, <1>2 DEF Answer

\* What a goroutine is at says which of these it does.
LEMMA AtSays ==
  ASSUME DoingTrue, NEW g \in Askers
  PROVE  /\ doing[g].at = "storing" => Storing(doing[g])
         /\ doing[g].at = "copying" => Copying(doing[g]) /\ tableLock = g
         /\ doing[g].at = "computing" => WorkingOut(doing[g])
         /\ doing[g].at = "fetching" => Fetching(doing[g])
         /\ doing[g].at = "reading" => Reading(doing[g])
         /\ doing[g].at = "decoding" => Decoding(doing[g])
<1>1. doing[g] = Idle => doing[g].at = "idle"
  BY DEF Idle
<1>2. Storing(doing[g]) => doing[g].at = "storing"
  BY DEF Storing
<1>3. Copying(doing[g]) => doing[g].at = "copying"
  BY DEF Copying
<1>4. WorkingOut(doing[g]) => doing[g].at = "computing"
  BY DEF WorkingOut
<1>5. Fetching(doing[g]) => doing[g].at = "fetching"
  BY DEF Fetching
<1>6. Reading(doing[g]) => doing[g].at = "reading"
  BY DEF Reading
<1>7. Decoding(doing[g]) => doing[g].at = "decoding"
  BY DEF Decoding
<1> QED BY <1>1, <1>2, <1>3, <1>4, <1>5, <1>6, <1>7 DEF DoingTrue

\* A step of one goroutine leaves what the others are doing true.
LEMMA OthersDoing ==
  ASSUME DoingTrue, NEW g \in Askers, NEW activity,
         doing' = [doing EXCEPT ![g] = activity],
         \A o \in Askers : o # g /\ tableLock = o => tableLock' = o /\ UNCHANGED names,
         \A r \in DOMAIN Embedded : DOMAIN loaded[r] \subseteq DOMAIN loaded'[r],
         \/ activity = Idle
         \/ Storing(activity)'
         \/ Copying(activity)' /\ tableLock' = g
         \/ WorkingOut(activity)'
         \/ Fetching(activity)'
         \/ Reading(activity)'
         \/ Decoding(activity)'
  PROVE  DoingTrue'
<1>1. doing' = [o \in Askers |-> doing'[o]] /\ doing'[g] = activity
        /\ \A o \in Askers \ {g} : doing'[o] = doing[o]
  BY DEF DoingTrue
<1> SUFFICES ASSUME NEW o \in Askers
             PROVE  \/ doing'[o] = Idle
                    \/ Storing(doing[o])'
                    \/ Copying(doing[o])' /\ tableLock' = o
                    \/ WorkingOut(doing[o])'
                    \/ Fetching(doing[o])'
                    \/ Reading(doing[o])'
                    \/ Decoding(doing[o])'
  BY <1>1 DEF DoingTrue, Idle
<1>2. CASE o = g
  BY <1>1, <1>2 DEF Idle, Storing, Copying, WorkingOut, Fetching, Reading, Decoding
<1>3. CASE o # g
  <2>1. doing'[o] = doing[o]
    BY <1>1, <1>3
  <2>2. CASE Copying(doing[o]) /\ tableLock = o
    BY <2>1, <2>2, <1>3 DEF Copying
  <2>3. CASE Decoding(doing[o])
    BY <2>1, <2>3 DEF Decoding
  <2>4. CASE doing[o] = Idle \/ Storing(doing[o]) \/ WorkingOut(doing[o]) \/ Fetching(doing[o]) \/ Reading(doing[o])
    BY <2>1, <2>4 DEF Idle, Storing, WorkingOut, Fetching, Reading
  <2> QED BY <2>2, <2>3, <2>4 DEF DoingTrue
<1> QED BY <1>2, <1>3

\* A step that stores nothing forgets nothing.
LEMMA NothingForgotten ==
  ASSUME LookupIInv, UNCHANGED <<names, memo, loaded, templateOf, entry>>
  PROVE  Remembers
BY DEF Remembers, NameKnown

\* Each step keeps the invariant.
LEMMA AskNameHolds ==
  ASSUME LookupIInv, NEW g \in Askers, NEW rid \in AskedIDs, AskName(g, rid)
  PROVE  LookupIInv'
<1> USE DEF LookupIInv
<1>1. UNCHANGED <<names, tableLock, memo, loaded, rawLoaded, templateOf, templateLock, entry>>
  BY DEF AskName, tableVars, registryVars
<1>2. TableTrue' /\ MemoTrue' /\ RegistriesTrue' /\ CellsTrue'
  BY <1>1 DEF TableTrue, MemoTrue, RegistriesTrue, CellsTrue
<1>3. Remembers
  BY <1>1, NothingForgotten
<1>4. ASSUME NEW a, Answer(g, NameQuestion(rid), a), a = Right(NameQuestion(rid)),
             rid \in DOMAIN BlockName => NameKnown(rid)
      PROVE  DoingTrue' /\ AnswersKept'
  <2>1. DoingTrue'
    BY <1>1, <1>4, OthersDoing DEF Answer
  <2>2. Found(NameQuestion(rid))'
    BY <1>1, <1>4 DEF Found, NameQuestion, NameKnown
  <2>3. AnswersKept'
    BY <1>3, <1>4, <2>2, OneAnswered DEF Question
  <2> QED BY <2>1, <2>3
<1>5. CASE NameKnown(rid) /\ Answer(g, NameQuestion(rid), names[rid])
  <2>1. rid \in DOMAIN BlockName /\ names[rid] = BlockName[rid]
    BY <1>5 DEF TableTrue, NameKnown
  <2> QED BY <1>2, <1>4, <1>5, <2>1, RightOf
<1>6. CASE rid \notin DOMAIN BlockName /\ Answer(g, NameQuestion(rid), "air")
  BY <1>2, <1>4, <1>6, RightOf
<1>7. CASE /\ rid \in DOMAIN BlockName
           /\ doing' = [doing EXCEPT ![g] = [at |-> "storing", rid |-> rid]]
           /\ UNCHANGED answers
  <2>1. Storing([at |-> "storing", rid |-> rid])'
    BY <1>7 DEF Storing
  <2>2. DoingTrue'
    BY <1>1, <1>7, <2>1, OthersDoing
  <2>3. AnswersKept'
    BY <1>3, <1>7, NothingAnswered
  <2> QED BY <1>2, <2>2, <2>3
<1> QED BY <1>5, <1>6, <1>7 DEF AskName

LEMMA LockTableHolds ==
  ASSUME LookupIInv, NEW g \in Askers, LockTable(g)
  PROVE  LookupIInv'
<1> USE DEF LookupIInv
<1>1. UNCHANGED <<names, memo, loaded, rawLoaded, templateOf, templateLock, entry, answers>>
  BY DEF LockTable, registryVars
<1>2. TableTrue' /\ MemoTrue' /\ RegistriesTrue' /\ CellsTrue'
  BY <1>1 DEF TableTrue, MemoTrue, RegistriesTrue, CellsTrue
<1>3. AnswersKept'
  BY <1>1, NothingForgotten, NothingAnswered
<1>4. Storing(doing[g])
  BY AtSays DEF LockTable
<1>5. PICK rid \in DOMAIN BlockName \cap AskedIDs : doing[g] = [at |-> "storing", rid |-> rid]
  BY <1>4 DEF Storing
<1>10. PICK old : old = names
  OBVIOUS
<1> DEFINE activity == [at |-> "copying", rid |-> rid, old |-> old]
<1>6. doing' = [doing EXCEPT ![g] = activity] /\ tableLock' = g
  BY <1>5, <1>10 DEF LockTable
<1>7. Copying(activity)'
  BY <1>1, <1>10 DEF Copying
<1>8. \A o \in Askers : tableLock # o
  BY LookupAssumption DEF LockTable, TableFree
<1> HIDE DEF activity
<1>9. DoingTrue'
  BY <1>1, <1>6, <1>7, <1>8, OthersDoing
<1> QED BY <1>2, <1>3, <1>9

\* A copy reaches as far as the table it copies, and past the id.
LEMMA GrownReaches ==
  ASSUME NEW n \in Nat, NEW old, DOMAIN old = 0 .. n - 1, NEW rid \in Nat
  PROVE  \E k \in Nat : /\ DOMAIN Grown(old, rid) = 0 .. k - 1
                         /\ n <= k /\ rid \in 0 .. k - 1
<1>1. CASE rid \in DOMAIN old
  BY <1>1 DEF Grown
<1>2. CASE rid \notin DOMAIN old
  <2>1. rid + Headroom \in Nat /\ n <= rid + Headroom
    BY <1>2, LookupAssumption
  <2> QED BY <1>2, <2>1, LookupAssumption DEF Grown
<1> QED BY <1>1, <1>2

LEMMA PublishTableHolds ==
  ASSUME LookupIInv, NEW g \in Askers, PublishTable(g)
  PROVE  LookupIInv'
<1> USE DEF LookupIInv
<1>1. UNCHANGED <<memo, loaded, rawLoaded, templateOf, templateLock, entry>> /\ tableLock' = NoAsker
  BY DEF PublishTable, registryVars
<1>2. Copying(doing[g]) /\ tableLock = g
  BY AtSays DEF PublishTable
<1>3. PICK rid \in DOMAIN BlockName \cap AskedIDs :
        doing[g] = [at |-> "copying", rid |-> rid, old |-> names]
  BY <1>2 DEF Copying
<1>4. /\ names' = [Grown(names, rid) EXCEPT ![rid] = BlockName[rid]]
      /\ Answer(g, NameQuestion(rid), BlockName[rid])
  BY <1>3 DEF PublishTable
<1>5. PICK n \in Nat : DOMAIN names = 0 .. n - 1
  BY DEF TableTrue
<1>6. PICK k \in Nat : DOMAIN Grown(names, rid) = 0 .. k - 1 /\ n <= k /\ rid \in 0 .. k - 1
  BY <1>5, GrownReaches, LookupAssumption
<1>7. /\ DOMAIN names' = 0 .. k - 1 /\ names' = [i \in DOMAIN names' |-> names'[i]]
      /\ names'[rid] = BlockName[rid]
      /\ \A i \in 0 .. k - 1 : i # rid =>
           names'[i] = IF i \in DOMAIN names THEN names[i] ELSE Unset
  BY <1>4, <1>6 DEF Grown
<1>8. TableTrue'
  BY <1>7 DEF TableTrue
<1>9. Remembers
  <2> SUFFICES ASSUME NEW i, NameKnown(i) PROVE NameKnown(i)'
    BY <1>1 DEF Remembers
  <2>1. i \in DOMAIN names /\ names[i] # Unset /\ i \in 0 .. k - 1
    BY <1>5, <1>6 DEF NameKnown
  <2> QED BY <1>7, <2>1, LookupAssumption DEF NameKnown
<1>10. MemoTrue' /\ RegistriesTrue' /\ CellsTrue'
  BY <1>1 DEF MemoTrue, RegistriesTrue, CellsTrue
<1>11. DoingTrue'
  BY <1>1, <1>2, <1>4, OthersDoing DEF Answer
<1>12. Found(NameQuestion(rid))'
  BY <1>6, <1>7, LookupAssumption DEF Found, NameQuestion, NameKnown
<1>13. AnswersKept'
  BY <1>4, <1>9, <1>12, OneAnswered, RightOf DEF Question
<1> QED BY <1>8, <1>10, <1>11, <1>13

LEMMA AskMemoHolds ==
  ASSUME LookupIInv, NEW g \in Askers, NEW m \in DOMAIN MemoKeys, NEW key \in MemoKeys[m],
         AskMemo(g, m, key)
  PROVE  LookupIInv'
<1> USE DEF LookupIInv
<1>1. UNCHANGED <<names, tableLock, memo, loaded, rawLoaded, templateOf, templateLock, entry>>
  BY DEF AskMemo, tableVars, registryVars
<1>2. TableTrue' /\ MemoTrue' /\ RegistriesTrue' /\ CellsTrue'
  BY <1>1 DEF TableTrue, MemoTrue, RegistriesTrue, CellsTrue
<1>3. Remembers
  BY <1>1, NothingForgotten
<1>4. CASE key \in DOMAIN memo[m] /\ Answer(g, MemoQuestion(m, key), memo[m][key])
  <2>1. memo[m][key] = Right(MemoQuestion(m, key))
    BY <1>4, RightOf DEF MemoTrue
  <2>2. DoingTrue'
    BY <1>1, <1>4, OthersDoing DEF Answer
  <2>3. Found(MemoQuestion(m, key))'
    BY <1>1, <1>4 DEF Found, MemoQuestion
  <2>4. PICK a : a = memo[m][key]
    OBVIOUS
  <2>5. AnswersKept'
    BY <1>3, <1>4, <2>1, <2>3, <2>4, OneAnswered DEF Question
  <2> QED BY <1>2, <2>2, <2>5
<1>5. CASE /\ doing' = [doing EXCEPT ![g] = [at |-> "computing", memo |-> m, key |-> key]]
           /\ UNCHANGED answers
  <2>1. WorkingOut([at |-> "computing", memo |-> m, key |-> key])'
    BY DEF WorkingOut
  <2>2. DoingTrue'
    BY <1>1, <1>5, <2>1, OthersDoing
  <2>3. AnswersKept'
    BY <1>3, <1>5, NothingAnswered
  <2> QED BY <1>2, <2>2, <2>3
<1> QED BY <1>4, <1>5 DEF AskMemo

LEMMA StoreMemoHolds ==
  ASSUME LookupIInv, NEW g \in Askers, StoreMemo(g)
  PROVE  LookupIInv'
<1> USE DEF LookupIInv
<1>1. UNCHANGED <<names, tableLock, loaded, rawLoaded, templateOf, templateLock, entry>>
  BY DEF StoreMemo, tableVars, registryVars
<1>2. TableTrue' /\ RegistriesTrue' /\ CellsTrue'
  BY <1>1 DEF TableTrue, RegistriesTrue, CellsTrue
<1>3. PICK m \in DOMAIN MemoKeys : \E key \in MemoKeys[m] :
        doing[g] = [at |-> "computing", memo |-> m, key |-> key]
  BY AtSays DEF StoreMemo, WorkingOut
<1>4. PICK key \in MemoKeys[m] : doing[g] = [at |-> "computing", memo |-> m, key |-> key]
  BY <1>3
<1>5. /\ memo' = IF WorkedOut(m, key) = NotFound THEN memo
                 ELSE [memo EXCEPT ![m] = With(memo[m], key, WorkedOut(m, key))]
      /\ Answer(g, MemoQuestion(m, key), WorkedOut(m, key))
  BY <1>4 DEF StoreMemo
<1>6. /\ memo' = [o \in DOMAIN MemoKeys |-> memo'[o]]
      /\ \A o \in DOMAIN MemoKeys : o # m => memo'[o] = memo[o]
      /\ memo'[m] = IF WorkedOut(m, key) = NotFound THEN memo[m]
                    ELSE With(memo[m], key, WorkedOut(m, key))
  BY <1>5 DEF MemoTrue
<1>7. MemoTrue'
  BY <1>6 DEF MemoTrue, With
<1>8. Remembers
  BY <1>1, <1>6 DEF Remembers, NameKnown, With
<1>9. DoingTrue'
  BY <1>1, <1>5, OthersDoing DEF Answer
<1>10. Found(MemoQuestion(m, key))'
  BY <1>6 DEF Found, MemoQuestion, With
<1>11. AnswersKept'
  BY <1>5, <1>8, <1>10, OneAnswered, RightOf DEF Question
<1> QED BY <1>2, <1>7, <1>9, <1>11

LEMMA DefineHolds ==
  ASSUME LookupIInv, NEW g \in Askers, NEW r \in DOMAIN Embedded, NEW name, Define(g, r, name)
  PROVE  LookupIInv'
<1> USE DEF LookupIInv
<1>1. UNCHANGED <<names, tableLock, memo, rawLoaded, templateOf, templateLock, entry>>
  BY DEF Define, tableVars
<1>2. TableTrue' /\ MemoTrue' /\ CellsTrue'
  BY <1>1 DEF TableTrue, MemoTrue, CellsTrue
<1>3. /\ loaded' = [o \in DOMAIN Embedded |-> loaded'[o]]
      /\ \A o \in DOMAIN Embedded : o # r => loaded'[o] = loaded[o]
      /\ loaded'[r] = IF name \in DOMAIN Embedded[r] /\ name \notin DOMAIN loaded[r]
                      THEN With(loaded[r], name, Embedded[r][name]) ELSE loaded[r]
  BY DEF Define, RegistriesTrue
<1>4. RegistriesTrue'
  BY <1>1, <1>3 DEF RegistriesTrue, With
<1>5. Remembers
  BY <1>1, <1>3 DEF Remembers, NameKnown, With
<1>6. PICK a : /\ Answer(g, DefinitionQuestion(r, name), a)
               /\ a = Right(DefinitionQuestion(r, name))
  <2>1. CASE name \in DOMAIN Embedded[r]
    <3>1. loaded'[r][name] = Embedded[r][name]
      BY <1>3, <2>1 DEF RegistriesTrue, With
    <3> QED BY <2>1, <3>1, RightOf DEF Define
  <2>2. CASE name \notin DOMAIN Embedded[r]
    BY <2>2, RightOf DEF Define
  <2> QED BY <2>1, <2>2
<1>7. DoingTrue'
  BY <1>1, <1>5, <1>6, OthersDoing DEF Answer, Remembers
<1>8. Found(DefinitionQuestion(r, name))'
  BY <1>3 DEF Found, DefinitionQuestion, With
<1>9. AnswersKept'
  BY <1>5, <1>6, <1>8, OneAnswered DEF Question
<1> QED BY <1>2, <1>4, <1>7, <1>9

LEMMA AskTemplateHolds ==
  ASSUME LookupIInv, NEW g \in Askers, NEW name, AskTemplate(g, name)
  PROVE  LookupIInv'
<1> USE DEF LookupIInv
<1>1. UNCHANGED <<names, tableLock, memo, loaded, rawLoaded, templateOf, entry>>
  BY DEF AskTemplate, tableVars
<1>2. TableTrue' /\ MemoTrue' /\ RegistriesTrue' /\ CellsTrue'
  BY <1>1 DEF TableTrue, MemoTrue, RegistriesTrue, CellsTrue
<1>3. Remembers
  BY <1>1, NothingForgotten
<1>4. CASE name \in DOMAIN templateOf /\ Answer(g, TemplateQuestion(name), templateOf[name])
  <2>1. PICK a : a = templateOf[name]
    OBVIOUS
  <2>2. a = Right(TemplateQuestion(name))
    BY <1>4, <2>1, RightOf DEF RegistriesTrue
  <2>3. DoingTrue'
    BY <1>1, <1>4, OthersDoing DEF Answer
  <2>4. Found(TemplateQuestion(name))'
    BY <1>1, <1>4 DEF Found, TemplateQuestion
  <2>5. AnswersKept'
    BY <1>3, <1>4, <2>1, <2>2, <2>4, OneAnswered DEF Question
  <2> QED BY <1>2, <2>3, <2>5
<1>5. CASE /\ doing' = [doing EXCEPT ![g] = [at |-> "fetching", name |-> name]]
           /\ UNCHANGED answers
  <2>1. Fetching([at |-> "fetching", name |-> name])'
    BY DEF Fetching
  <2>2. DoingTrue'
    BY <1>1, <1>5, <2>1, OthersDoing
  <2>3. AnswersKept'
    BY <1>3, <1>5, NothingAnswered
  <2> QED BY <1>2, <2>2, <2>3
<1> QED BY <1>4, <1>5 DEF AskTemplate

LEMMA FetchTemplateHolds ==
  ASSUME LookupIInv, NEW g \in Askers, FetchTemplate(g)
  PROVE  LookupIInv'
<1> USE DEF LookupIInv
<1>1. UNCHANGED <<names, tableLock, memo, loaded, templateOf, templateLock, entry, answers>>
  BY DEF FetchTemplate, tableVars
<1>2. TableTrue' /\ MemoTrue' /\ CellsTrue' /\ AnswersKept'
  BY <1>1, NothingForgotten, NothingAnswered DEF TableTrue, MemoTrue, CellsTrue
<1>3. PICK name : doing[g] = [at |-> "fetching", name |-> name]
  BY AtSays DEF FetchTemplate, Fetching
<1>4. rawLoaded' = IF name \in DOMAIN rawLoaded \/ name \notin DOMAIN RawTemplate THEN rawLoaded
                   ELSE With(rawLoaded, name, RawTemplate[name])
  BY <1>3 DEF FetchTemplate
<1>5. RegistriesTrue'
  BY <1>1, <1>4 DEF RegistriesTrue, With
<1>6. PICK data : data = IF name \in DOMAIN RawTemplate THEN RawTemplate[name] ELSE Failed
  OBVIOUS
<1>7. data = IF name \in DOMAIN rawLoaded' THEN rawLoaded'[name] ELSE Failed
  BY <1>4, <1>5, <1>6 DEF RegistriesTrue, With
<1> DEFINE activity == [at |-> "reading", name |-> name, data |-> data]
<1>11. doing[g].name = name
  BY <1>3
<1>8. doing' = [doing EXCEPT ![g] = activity]
  BY <1>7, <1>11 DEF FetchTemplate
<1>9. Reading(activity)'
  BY <1>6 DEF Reading
<1> HIDE DEF activity
<1>10. DoingTrue'
  BY <1>1, <1>8, <1>9, OthersDoing
<1> QED BY <1>2, <1>5, <1>10

LEMMA KeepTemplateHolds ==
  ASSUME LookupIInv, NEW g \in Askers, KeepTemplate(g)
  PROVE  LookupIInv'
<1> USE DEF LookupIInv
<1>1. UNCHANGED <<names, tableLock, memo, loaded, rawLoaded, entry>>
  BY DEF KeepTemplate, tableVars
<1>2. TableTrue' /\ MemoTrue' /\ CellsTrue'
  BY <1>1 DEF TableTrue, MemoTrue, CellsTrue
<1>3. PICK name : doing[g] = [at |-> "reading", name |-> name,
                     data |-> IF name \in DOMAIN RawTemplate THEN RawTemplate[name] ELSE Failed]
  BY AtSays DEF KeepTemplate, Reading
<1>4. /\ templateOf' = With(templateOf, name, RightTemplate(name))
      /\ Answer(g, TemplateQuestion(name), RightTemplate(name))
  <2>1. /\ doing[g].name = name
        /\ doing[g].data = IF name \in DOMAIN RawTemplate THEN RawTemplate[name] ELSE Failed
    BY <1>3
  <2>2. (IF doing[g].data = Failed THEN Failed ELSE Template[doing[g].data]) = RightTemplate(name)
    BY <2>1 DEF RightTemplate
  <2> QED BY <2>1, <2>2 DEF KeepTemplate
<1>5. RegistriesTrue'
  BY <1>1, <1>4 DEF RegistriesTrue, With
<1>6. Remembers
  BY <1>1, <1>4 DEF Remembers, NameKnown, With
<1>7. DoingTrue'
  BY <1>1, <1>4, OthersDoing DEF Answer
<1>8. Found(TemplateQuestion(name))'
  BY <1>4 DEF Found, TemplateQuestion, With
<1>9. AnswersKept'
  BY <1>4, <1>6, <1>8, OneAnswered, RightOf DEF Question
<1> QED BY <1>2, <1>5, <1>7, <1>9

\* What a cell holds is what any accessor of its type would decode: OneGoType.
LEMMA CellAnswers ==
  ASSUME NEW cell, NEW value, CellTrue(cell, value), NEW accessor \in Accessors,
         Embedded[cell[1]][cell[2]].type \in accessor.expected
  PROVE  FromCell(value, Embedded[cell[1]][cell[2]].type, accessor) = RightConfig(cell, accessor)
<1> DEFINE definition == Embedded[cell[1]][cell[2]]
<1>1. PICK p \in Accessors :
        /\ definition.type \in p.expected
        /\ value = [key |-> definition.type, as |-> p.as,
                    value |-> Decoded[definition.config][p.as]]
  BY DEF CellTrue
<1>2. p.as = accessor.as
  BY <1>1, LookupAssumption DEF OneGoType
<1>3. value.key = definition.type /\ value.as = accessor.as
        /\ value.value = Decoded[definition.config][accessor.as]
  BY <1>1, <1>2
<1> QED BY <1>3 DEF FromCell, RightConfig

LEMMA AskConfigHolds ==
  ASSUME LookupIInv, NEW g \in Askers, NEW r \in DOMAIN Embedded, NEW name \in DOMAIN loaded[r],
         NEW accessor \in Accessors, AskConfig(g, r, name, accessor)
  PROVE  LookupIInv'
<1> USE DEF LookupIInv
<1> DEFINE cell == <<r, name>>
           key == Embedded[r][name].type
<1>1. UNCHANGED <<names, tableLock, memo, loaded, rawLoaded, templateOf, templateLock, entry>>
  BY DEF AskConfig, tableVars, registryVars
<1>2. TableTrue' /\ MemoTrue' /\ RegistriesTrue' /\ CellsTrue'
  BY <1>1 DEF TableTrue, MemoTrue, RegistriesTrue, CellsTrue
<1>3. Remembers
  BY <1>1, NothingForgotten
<1>4. loaded[r][name].type = key /\ cell[1] = r /\ cell[2] = name
  BY DEF RegistriesTrue
<1>5. ASSUME NEW a, Answer(g, ConfigQuestion(cell, accessor), a), a = RightConfig(cell, accessor),
             key \in accessor.expected => cell \in DOMAIN entry
      PROVE  DoingTrue' /\ AnswersKept'
  <2>1. DoingTrue'
    BY <1>1, <1>5, OthersDoing DEF Answer
  <2>2. Found(ConfigQuestion(cell, accessor))'
    BY <1>1, <1>5 DEF Found, ConfigQuestion
  <2>3. AnswersKept'
    BY <1>3, <1>5, <2>2, OneAnswered, RightOf DEF Question
  <2> QED BY <2>1, <2>3
<1>6. CASE key \notin accessor.expected /\ Answer(g, ConfigQuestion(cell, accessor), NotFound)
  <2>1. NotFound = RightConfig(cell, accessor)
    BY <1>6 DEF RightConfig
  <2> QED BY <1>2, <1>5, <1>6, <2>1
<1>7. CASE /\ key \in accessor.expected /\ cell \in DOMAIN entry
           /\ Answer(g, ConfigQuestion(cell, accessor), FromCell(entry[cell], key, accessor))
  <2>1. PICK value : value = entry[cell] /\ CellTrue(cell, value)
    BY <1>7 DEF CellsTrue
  <2>2. FromCell(value, key, accessor) = RightConfig(cell, accessor)
    BY <1>7, <2>1, CellAnswers
  <2> QED BY <1>2, <1>5, <1>7, <2>1, <2>2
<1>8. CASE /\ key \in accessor.expected
           /\ doing' = [doing EXCEPT ![g] = [at |-> "decoding", of |-> cell, accessor |-> accessor]]
           /\ UNCHANGED answers
  <2>1. Decoding([at |-> "decoding", of |-> cell, accessor |-> accessor])'
    BY <1>1, <1>8 DEF Decoding
  <2>2. DoingTrue'
    BY <1>1, <1>8, <2>1, OthersDoing
  <2>3. AnswersKept'
    BY <1>3, <1>8, NothingAnswered
  <2> QED BY <1>2, <2>2, <2>3
<1> QED BY <1>4, <1>6, <1>7, <1>8 DEF AskConfig

LEMMA DecodeConfigHolds ==
  ASSUME LookupIInv, NEW g \in Askers, DecodeConfig(g)
  PROVE  LookupIInv'
<1> USE DEF LookupIInv
<1>1. UNCHANGED <<names, tableLock, memo, loaded, rawLoaded, templateOf, templateLock>>
  BY DEF DecodeConfig, tableVars
<1>2. TableTrue' /\ MemoTrue' /\ RegistriesTrue'
  BY <1>1 DEF TableTrue, MemoTrue, RegistriesTrue
<1> DEFINE Is(r, name, accessor) ==
             /\ Embedded[r][name].type \in accessor.expected
             /\ doing[g] = [at |-> "decoding", of |-> <<r, name>>, accessor |-> accessor]
<1>14. PICK r \in DOMAIN Embedded : \E name \in DOMAIN loaded[r], accessor \in Accessors :
         Is(r, name, accessor)
  BY AtSays DEF DecodeConfig, Decoding
<1>3. PICK name \in DOMAIN loaded[r], accessor \in Accessors : Is(r, name, accessor)
  BY <1>14
<1> DEFINE cell == <<r, name>>
           definition == Embedded[cell[1]][cell[2]]
           made == [key |-> definition.type, as |-> accessor.as,
                    value |-> Decoded[definition.config][accessor.as]]
<1>4. /\ doing[g].of = cell /\ doing[g].accessor = accessor
      /\ loaded[cell[1]][cell[2]] = definition
      /\ definition.type \in accessor.expected
  BY <1>3 DEF RegistriesTrue
<1>5. /\ entry' = IF cell \in DOMAIN entry THEN entry ELSE With(entry, cell, made)
      /\ Answer(g, ConfigQuestion(cell, accessor), FromCell(entry'[cell], definition.type, accessor))
  BY <1>4 DEF DecodeConfig
<1>6. CellTrue(cell, made)
  BY <1>4 DEF CellTrue
<1> HIDE DEF made
<1>7. CellsTrue'
  <2> SUFFICES ASSUME NEW c \in DOMAIN entry' PROVE CellTrue(c, entry'[c])
    BY DEF CellsTrue, CellTrue
  <2> QED BY <1>5, <1>6 DEF CellsTrue, With
<1>8. Remembers
  BY <1>1, <1>5 DEF Remembers, NameKnown, With
<1>9. PICK value : value = entry'[cell] /\ CellTrue(cell, value) /\ cell \in DOMAIN entry'
  <2>1. cell \in DOMAIN entry'
    BY <1>5 DEF With
  <2> QED BY <1>7, <2>1 DEF CellsTrue, CellTrue
<1>10. FromCell(value, definition.type, accessor) = RightConfig(cell, accessor)
  BY <1>4, <1>9, CellAnswers
<1>11. DoingTrue'
  BY <1>1, <1>5, OthersDoing DEF Answer
<1>12. Found(ConfigQuestion(cell, accessor))'
  BY <1>9 DEF Found, ConfigQuestion
<1>13. AnswersKept'
  <2>1. Answer(g, ConfigQuestion(cell, accessor), RightConfig(cell, accessor))
    BY <1>5, <1>9, <1>10
  <2> HIDE DEF cell
  <2> QED BY <1>8, <1>12, <2>1, OneAnswered, RightOf DEF Question
<1> QED BY <1>2, <1>7, <1>11, <1>13

\* The invariant at the start, and over every step.
LEMMA LookupInitHolds == LookupInit => LookupIInv
<1> SUFFICES ASSUME LookupInit PROVE LookupIInv
  OBVIOUS
<1>1. TableTrue
  BY DEF LookupInit, TableTrue
<1>2. MemoTrue /\ RegistriesTrue /\ CellsTrue /\ AnswersKept
  BY DEF LookupInit, MemoTrue, RegistriesTrue, CellsTrue, AnswersKept
<1>3. DoingTrue
  BY DEF LookupInit, DoingTrue
<1> QED BY <1>1, <1>2, <1>3 DEF LookupIInv

LEMMA LookupStepHolds == LookupIInv /\ [LookupNext]_lookupVars => LookupIInv'
<1> SUFFICES ASSUME LookupIInv, [LookupNext]_lookupVars PROVE LookupIInv'
  OBVIOUS
<1>1. CASE AskNames
  BY <1>1, AskNameHolds, LockTableHolds, PublishTableHolds DEF AskNames
<1>2. CASE AskMemos
  BY <1>2, AskMemoHolds, StoreMemoHolds
     DEF AskMemos, AskSurfaceBlock, AskTemplateBlock, AskNoise, AskLevel
<1>3. CASE AskDefinitions
  BY <1>3, DefineHolds, AskConfigHolds, DecodeConfigHolds
     DEF AskDefinitions, DefineFeature, DefineCarver, DefineWorldgen, NameFactory
<1>4. CASE AskTemplates
  BY <1>4, AskTemplateHolds, FetchTemplateHolds, KeepTemplateHolds DEF AskTemplates
<1>5. CASE UNCHANGED lookupVars
  <2>1. UNCHANGED <<names, tableLock, memo, loaded, rawLoaded, templateOf, entry, doing, answers>>
    BY <1>5 DEF lookupVars, tableVars, registryVars
  <2>2. TableTrue' /\ MemoTrue' /\ RegistriesTrue' /\ CellsTrue' /\ AnswersKept'
    BY <2>1, NothingForgotten, NothingAnswered
       DEF LookupIInv, TableTrue, MemoTrue, RegistriesTrue, CellsTrue
  <2>3. DoingTrue'
    BY <2>1 DEF LookupIInv, DoingTrue, Idle, Storing, Copying, WorkingOut, Fetching, Reading, Decoding
  <2> QED BY <2>2, <2>3 DEF LookupIInv
<1> QED BY <1>1, <1>2, <1>3, <1>4, <1>5 DEF LookupNext

\* Whatever any number of goroutines ask of the tables, memos, registries and cells, and
\* however their looks and stores interleave, each answer is what working it out would
\* give, and stays kept: no copy of the table of names drops a name stored meanwhile.
THEOREM LookupsAlwaysTrue == LookupSpec => []LookupsTrue
<1>1. LookupIInv => LookupsTrue
  BY DEF LookupIInv, AnswersKept, LookupsTrue
<1> QED BY LookupInitHolds, LookupStepHolds, <1>1, PTL DEF LookupSpec
=============================================================================
