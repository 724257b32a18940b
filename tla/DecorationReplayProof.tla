------------------------- MODULE DecorationReplayProof -------------------------
(***************************************************************************)
(* GenerateChunk for any calls, regions, features and cap of the terrain   *)
(* cache: what a call has in its region is what a sequential replay makes  *)
(* of pristine terrain, up to the item it has come to.                     *)
(***************************************************************************)
EXTENDS DecorationReplay, SequenceLemmas

Loading == {"look", "wait", "build"}
Decorating == {"decorate", "preload", "done"}

\* The region of a call, as a replay on loaded terrain would leave it.
Region(g) == [slot |-> slot[g], probe |-> probe[g], filled |-> Chunks]

-----------------------------------------------------------------------------
\* A step of a replay: a source, and an item of some source.
StepsOf == Chunks \X UNION {ToSet(Items(s)) : s \in Chunks}

\* The replay of a chunk is a sequence of steps.
LEMMA PlanType ==
  ASSUME NEW c \in Centers
  PROVE  Plan[c] \in Seq(StepsOf) /\ Len(Plan[c]) \in Nat
<1> DEFINE list(i) == [j \in DOMAIN Items(Sources(c)[i]) |-> <<Sources(c)[i], Items(Sources(c)[i])[j]>>]
           lists == [i \in DOMAIN Sources(c) |-> list(i)]
<1>1. c \in Chunks /\ Sources(c) \in Seq(Chunks)
  BY RegionAssumption
<1>2. /\ DOMAIN Sources(c) = 1 .. Len(Sources(c))
      /\ Len(Sources(c)) \in Nat
      /\ \A i \in 1 .. Len(Sources(c)) : Sources(c)[i] \in Chunks
  BY <1>1, LenProperties
<1>3. ASSUME NEW i \in 1 .. Len(Sources(c)) PROVE list(i) \in Seq(StepsOf)
  <2> DEFINE s == Sources(c)[i]
             q == Items(s)
  <2>1. s \in Chunks /\ q \in Seq(ToSet(q))
    BY <1>2, ItemsAssumption
  <2> HIDE DEF s
  <2>2. /\ DOMAIN q = 1 .. Len(q)
        /\ Len(q) \in Nat
        /\ \A j \in 1 .. Len(q) : q[j] \in ToSet(q)
    BY <2>1, LenProperties
  <2>3. \A j \in 1 .. Len(q) : <<s, q[j]>> \in StepsOf
    BY <2>1, <2>2 DEF StepsOf
  <2> DEFINE f == [j \in DOMAIN q |-> <<s, q[j]>>]
  <2>4. f \in [1 .. Len(q) -> StepsOf]
    BY <2>2, <2>3
  <2>5. f \in Seq(StepsOf)
    BY <2>2, <2>4, FunctionAsSeq
  <2>6. f = list(i)
    BY DEF s
  <2> QED
    BY <2>5, <2>6
<1> HIDE DEF list
<1>4. lists \in [1 .. Len(Sources(c)) -> Seq(StepsOf)]
  BY <1>2, <1>3
<1>5. lists \in Seq(Seq(StepsOf))
  BY <1>2, <1>4, FunctionAsSeq
<1>6. Plan[c] = FlattenSeq(lists)
  BY DEF Plan, list
<1> HIDE DEF lists
<1>7. Plan[c] \in Seq(StepsOf)
  BY <1>5, <1>6, FlattenSeqProperties
<1> QED
  BY <1>7, LenProperties

\* r is the replay of a chunk up to item m of its plan, from fresh terrain.
Replays(c, m, r) ==
  r = [n \in 0 .. m |-> IF n = 0 THEN Fresh ELSE Replayed(r[n - 1], c, Plan[c][n])]

\* There is one up to every item.
LEMMA ReplayExists ==
  ASSUME NEW c, NEW m \in Nat
  PROVE  \E r : Replays(c, m, r)
<1> DEFINE S == {n \in Nat : \E r : Replays(c, n, r)}
<1>1. 0 \in S
  <2> DEFINE r == [n \in 0 .. 0 |-> Fresh]
  <2>1. Replays(c, 0, r)
    BY DEF Replays
  <2> QED
    BY <2>1
<1>2. ASSUME NEW n \in Nat, n \in S PROVE n + 1 \in S
  <2>1. PICK r : Replays(c, n, r)
    BY <1>2
  <2> DEFINE q == [i \in 0 .. n + 1 |->
                     IF i = n + 1 THEN Replayed(r[n], c, Plan[c][i]) ELSE r[i]]
  <2>2. ASSUME NEW i \in 0 .. n + 1
        PROVE  q[i] = IF i = 0 THEN Fresh ELSE Replayed(q[i - 1], c, Plan[c][i])
    <3>1. CASE i = n + 1
      <4>1. i # 0 /\ i - 1 = n /\ n \in 0 .. n + 1 /\ n # n + 1
        BY <3>1
      <4>2. q[i - 1] = r[n]
        BY <4>1
      <4> QED
        BY <3>1, <4>1, <4>2
    <3>2. CASE i # n + 1
      <4>1. i \in 0 .. n /\ (i # 0 => i - 1 \in 0 .. n + 1 /\ i - 1 # n + 1)
        BY <3>2
      <4>2. q[i] = r[i] /\ (i # 0 => q[i - 1] = r[i - 1])
        BY <3>2, <4>1
      <4>3. r[i] = IF i = 0 THEN Fresh ELSE Replayed(r[i - 1], c, Plan[c][i])
        BY <2>1, <4>1 DEF Replays
      <4> QED
        BY <4>2, <4>3
    <3> QED
      BY <3>1, <3>2
  <2>3. Replays(c, n + 1, q)
    <3>1. q = [i \in 0 .. n + 1 |-> q[i]]
      OBVIOUS
    <3> HIDE DEF q
    <3> QED
      BY <2>2, <3>1 DEF Replays
  <2> QED
    BY <2>3
<1> HIDE DEF S
<1>3. Nat \subseteq S
  BY <1>1, <1>2, Induction
<1> QED
  BY <1>3 DEF S

\* What it leaves after each item.
LEMMA ReplaySteps ==
  ASSUME NEW c \in Centers
  PROVE  /\ ReplayOf(c)[0] = Fresh
         /\ \A n \in 1 .. Len(Plan[c]) :
              ReplayOf(c)[n] = Replayed(ReplayOf(c)[n - 1], c, Plan[c][n])
<1>1. Len(Plan[c]) \in Nat
  BY PlanType
<1>2. ReplayOf(c) = CHOOSE r : Replays(c, Len(Plan[c]), r)
  BY DEF ReplayOf, Replays
<1>3. Replays(c, Len(Plan[c]), ReplayOf(c))
  BY <1>1, <1>2, ReplayExists
<1> DEFINE r == ReplayOf(c)
<1> HIDE DEF r
<1>4. r = [n \in 0 .. Len(Plan[c]) |-> IF n = 0 THEN Fresh ELSE Replayed(r[n - 1], c, Plan[c][n])]
  BY <1>3 DEF r, Replays
<1>5. 0 \in 0 .. Len(Plan[c]) /\ \A n \in 1 .. Len(Plan[c]) : n \in 0 .. Len(Plan[c]) /\ n # 0
  BY <1>1
<1>6. r[0] = Fresh /\ \A n \in 1 .. Len(Plan[c]) : r[n] = Replayed(r[n - 1], c, Plan[c][n])
  BY <1>4, <1>5
<1> QED
  BY <1>6 DEF r

\* What one step makes of a region with the slots a and the memo b: the same of
\* the part F that is loaded as of all of it, and nothing of the rest.
SameOutcome(c, step, F, a, b) ==
  LET x == Replayed([slot |-> a, probe |-> b, filled |-> F], c, step)
      y == Replayed([slot |-> a, probe |-> b, filled |-> Chunks], c, step)
  IN /\ y = [slot |-> x.slot, probe |-> x.probe, filled |-> Chunks]
     /\ x.slot = [k \in Chunks |-> x.slot[k]]
     /\ DOMAIN x.probe = Chunks
     /\ \A k \in Chunks \ F : x.slot[k] = a[k]

\* That is so if all it can reach is loaded.
LEMMA SameReplay ==
  ASSUME NEW c \in Centers, NEW step, NEW F \in SUBSET Chunks, c \in F,
         step[2] \in Regional => ToSet(Sources(c)) \subseteq F,
         NEW a, a = [k \in Chunks |-> a[k]], NEW b, DOMAIN b = Chunks
  PROVE  SameOutcome(c, step, F, a, b)
<1> DEFINE s == step[1]
           item == step[2]
           r == [slot |-> a, probe |-> b, filled |-> F]
           all == [slot |-> a, probe |-> b, filled |-> Chunks]
           x == Replayed(r, c, step)
           y == Replayed(all, c, step)
           Put(chunks, source, read) ==
             [k \in Chunks |->
                IF k \in chunks THEN Append(a[k], [from |-> source, item |-> item, read |-> read])
                                ELSE a[k]]
<1>1. \A chunks, source, read :
        /\ Writes(r, chunks, source, item, read) = Put(chunks, source, read)
        /\ Writes(all, chunks, source, item, read) = Put(chunks, source, read)
  BY DEF Writes
<1>2. \A chunks, source, read :
        /\ Put(chunks, source, read) = [k \in Chunks |-> Put(chunks, source, read)[k]]
        /\ chunks \subseteq F => \A k \in Chunks \ F : Put(chunks, source, read)[k] = a[k]
  OBVIOUS
<1> HIDE DEF Put
<1>3. c \in Chunks /\ ToSet(Sources(c)) \subseteq Chunks
  <2>1. c \in Chunks /\ Sources(c) \in Seq(Chunks)
    BY RegionAssumption
  <2> QED
    BY <2>1, LenProperties DEF ToSet
<1>4. item \in Regional => Reach(c, s) \cap F = Reach(c, s) /\ Reach(c, s) \cap Chunks = Reach(c, s)
                           /\ Reach(c, s) \subseteq F
  BY <1>3 DEF Reach
<1>5. CASE item \in Ores
  <2> DEFINE R == Reach(c, s)
             floors == [k \in R |-> Probed(r, k)]
             probes == [k \in Chunks |-> IF k \in R THEN floors[k] ELSE b[k]]
  <2>1. item \in Regional
    BY <1>5, OresAssumption
  <2>2. \A k : Probed(r, k) = Probed(all, k)
    BY DEF Probed
  <2>3. floors = [k \in R |-> Probed(all, k)]
    BY <2>2
  <2>4. x = OreItem(r, c, s, item) /\ y = OreItem(all, c, s, item)
    BY <1>5 DEF Replayed
  <2>5. /\ OreItem(r, c, s, item)
             = [r EXCEPT !.slot = Writes(r, R, s, item, floors), !.probe = probes]
        /\ OreItem(all, c, s, item)
             = [all EXCEPT !.slot = Writes(all, R, s, item, floors), !.probe = probes]
    BY <1>4, <2>1, <2>3, ZenonT(40) DEF OreItem
  <2>6. DOMAIN probes = Chunks
    OBVIOUS
  <2> HIDE DEF floors, probes, R, x, y
  <2>7. /\ x = [slot |-> Put(R, s, floors), probe |-> probes, filled |-> F]
        /\ y = [slot |-> Put(R, s, floors), probe |-> probes, filled |-> Chunks]
    <3>1. /\ Writes(r, R, s, item, floors) = Put(R, s, floors)
          /\ Writes(all, R, s, item, floors) = Put(R, s, floors)
      BY <1>1
    <3>2. x = [r EXCEPT !.slot = Put(R, s, floors), !.probe = probes]
      BY <2>4, <2>5, <3>1
    <3>3. y = [all EXCEPT !.slot = Put(R, s, floors), !.probe = probes]
      BY <2>4, <2>5, <3>1
    <3> QED
      BY <3>2, <3>3
  <2> QED
    BY <1>2, <1>4, <2>1, <2>6, <2>7 DEF x, y, R, SameOutcome
<1>6. CASE item \notin Ores /\ item \in Regional
  <2> DEFINE R == Reach(c, s)
             read == [k \in {s} |-> Len(a[s])]
  <2>1. x = FeatureItem(r, c, s, item) /\ y = FeatureItem(all, c, s, item)
    BY <1>6 DEF Replayed
  <2>2. /\ FeatureItem(r, c, s, item) = [r EXCEPT !.slot = Writes(r, R, s, item, read)]
        /\ FeatureItem(all, c, s, item) = [all EXCEPT !.slot = Writes(all, R, s, item, read)]
    BY <1>4, <1>6 DEF FeatureItem
  <2> HIDE DEF read, R, x, y
  <2>3. /\ x = [slot |-> Put(R, s, read), probe |-> b, filled |-> F]
        /\ y = [slot |-> Put(R, s, read), probe |-> b, filled |-> Chunks]
    BY <1>1, <2>1, <2>2
  <2> QED
    BY <1>2, <1>4, <1>6, <2>3 DEF x, y, R, SameOutcome
<1>7. CASE item \notin Ores /\ item \notin Regional /\ s = c
  <2> DEFINE read == [k \in {c} |-> Len(a[c])]
  <2>1. x = LocalItem(r, c, item) /\ y = LocalItem(all, c, item)
    BY <1>7 DEF Replayed
  <2>2. /\ LocalItem(r, c, item) = [r EXCEPT !.slot = Writes(r, {c}, c, item, read)]
        /\ LocalItem(all, c, item) = [all EXCEPT !.slot = Writes(all, {c}, c, item, read)]
    BY DEF LocalItem
  <2> HIDE DEF read, x, y
  <2>3. /\ x = [slot |-> Put({c}, c, read), probe |-> b, filled |-> F]
        /\ y = [slot |-> Put({c}, c, read), probe |-> b, filled |-> Chunks]
    BY <1>1, <2>1, <2>2
  <2> QED
    BY <1>2, <2>3 DEF x, y, SameOutcome
<1>8. CASE item \notin Ores /\ item \notin Regional /\ s # c
  <2>1. x = r /\ y = all
    BY <1>8 DEF Replayed
  <2> QED
    BY <2>1 DEF SameOutcome
<1> QED
  BY <1>5, <1>6, <1>7, <1>8 DEF SameOutcome

-----------------------------------------------------------------------------
\* What the invariant says of one call.
CallOK(g) ==
  /\ \A k \in Chunks : load[g][k] # "ready" => slot[g][k] = <<>>
  /\ pc[g] = "idle" => load[g] = [k \in Chunks |-> "off"] /\ next[g] = 0
  /\ pc[g] = "prepare" => next[g] = 1 /\ \A k \in Chunks \ {center[g]} : load[g][k] = "off"
  /\ pc[g] \in {"idle", "prepare"} => Region(g) = Fresh
  /\ pc[g] \in {"decorate", "done"} =>
       \/ \A k \in Neighbours(g) : load[g][k] = "off"
       \/ \A k \in Neighbours(g) : load[g][k] = "ready"
  /\ pc[g] \in Decorating =>
       /\ load[g][center[g]] = "ready"
       /\ next[g] \in 1 .. Len(Plan[center[g]]) + 1
       /\ Region(g) = ReplayOf(center[g])[next[g] - 1]
       /\ pc[g] = "done" => Finished(g)

CallTypes ==
  /\ pc \in [Callers -> PCs]
  /\ center \in [Callers -> Centers]
  /\ load \in [Callers -> [Chunks -> Stages]]
  /\ DOMAIN slot = Callers /\ DOMAIN probe = Callers
  /\ \A g \in Callers : slot[g] = [k \in Chunks |-> slot[g][k]] /\ DOMAIN probe[g] = Chunks
  /\ next \in [Callers -> Nat]

CacheTypes ==
  /\ order \in Seq(Chunks)
  /\ Len(order) <= Cap
  /\ builder \in [Chunks -> Callers \cup {None}]

IInv ==
  /\ CacheTypes
  /\ CallTypes
  /\ \A g \in Callers : CallOK(g)

\* A step of one call leaves the others as they are.
LEMMA OtherCalls ==
  ASSUME \A h \in Callers : CallOK(h), NEW g \in Callers,
         \A h \in Callers \ {g} : /\ pc'[h] = pc[h]
                                  /\ center'[h] = center[h]
                                  /\ load'[h] = load[h]
                                  /\ slot'[h] = slot[h]
                                  /\ probe'[h] = probe[h]
                                  /\ next'[h] = next[h],
         CallOK(g)'
  PROVE  \A h \in Callers : CallOK(h)'
BY DEF CallOK, Region, Neighbours, Finished

\* A step of one loader of a call, to a stage in which its slot is as it was.
LEMMA LoaderMoves ==
  ASSUME CallTypes, NEW g \in Callers, CallOK(g), NEW k \in Chunks, load[g][k] \in Loading,
         NEW stage \in Loading \cup {"ready"}, load'[g] = [load[g] EXCEPT ![k] = stage],
         pc'[g] = pc[g], center'[g] = center[g], slot'[g] = slot[g], probe'[g] = probe[g],
         next'[g] = next[g]
  PROVE  CallOK(g)'
<1>1. load[g] \in [Chunks -> Stages] /\ pc[g] \in PCs /\ center[g] \in Centers /\ center[g] \in Chunks
  BY RegionAssumption DEF CallTypes
<1>2. load'[g][k] = stage /\ \A h \in Chunks \ {k} : load'[g][h] = load[g][h]
  BY <1>1
<1>3. load[g][k] # "off" /\ load[g][k] # "ready"
  BY DEF Loading
<1>4. pc[g] # "idle"
  BY <1>3 DEF CallOK
<1>5. pc[g] = "prepare" => k = center[g]
  BY <1>3 DEF CallOK
<1>6. pc[g] \in Decorating => k # center[g]
  BY <1>3 DEF CallOK
<1>7. Neighbours(g) \subseteq Chunks /\ Neighbours(g)' = Neighbours(g)
  <2>1. Sources(center[g]) \in Seq(Chunks)
    BY <1>1, RegionAssumption
  <2> QED
    BY <2>1, LenProperties DEF Neighbours, ToSet
<1>8. pc[g] \in {"decorate", "done"} => k \notin Neighbours(g)
  BY <1>3 DEF CallOK
<1>9. Region(g)' = Region(g) /\ Finished(g)' = Finished(g)
  BY DEF Region, Finished
<1>10. \A h \in Chunks : load'[g][h] # "ready" => slot'[g][h] = <<>>
  BY <1>2, <1>3 DEF CallOK
<1>11. pc'[g] = "prepare" => next'[g] = 1 /\ \A h \in Chunks \ {center'[g]} : load'[g][h] = "off"
  BY <1>2, <1>5 DEF CallOK
<1>12. pc'[g] \in {"idle", "prepare"} => Region(g)' = Fresh
  BY <1>9 DEF CallOK
<1>13. pc'[g] \in {"decorate", "done"} =>
         \/ \A h \in Neighbours(g)' : load'[g][h] = "off"
         \/ \A h \in Neighbours(g)' : load'[g][h] = "ready"
  BY <1>2, <1>7, <1>8 DEF CallOK
<1>14. pc'[g] \in Decorating =>
         /\ load'[g][center'[g]] = "ready"
         /\ next'[g] \in 1 .. Len(Plan[center'[g]]) + 1
         /\ Region(g)' = ReplayOf(center'[g])[next'[g] - 1]
         /\ pc'[g] = "done" => Finished(g)'
  BY <1>1, <1>2, <1>6, <1>9 DEF CallOK
<1> QED
  BY <1>4, <1>10, <1>11, <1>12, <1>13, <1>14 DEF CallOK

\* A slot that is not ready is as it will be when it is loaded.
LEMMA PristineSlot ==
  ASSUME CallTypes, NEW g \in Callers, CallOK(g), NEW k \in Chunks, load[g][k] \in Loading
  PROVE  [slot[g] EXCEPT ![k] = <<>>] = slot[g]
<1>1. slot[g][k] = <<>>
  BY DEF CallOK, Loading
<1>2. slot[g] = [h \in Chunks |-> slot[g][h]]
  BY DEF CallTypes
<1> DEFINE f == [h \in Chunks |-> slot[g][h]]
<1>3. [f EXCEPT ![k] = <<>>] = f
  BY <1>1
<1> QED
  BY <1>2, <1>3

-----------------------------------------------------------------------------
\* The cache holds coordinates, no more of them than its cap, and every flight
\* has one builder.
LEMMA CacheStep ==
  ASSUME IInv, [Next]_vars
  PROVE  CacheTypes'
<1>1. CASE \E g \in Callers, k \in Chunks : Own(g, k)
  BY <1>1 DEF IInv, CacheTypes, Own
<1>2. CASE \E g \in Callers, k \in Chunks : Complete(g, k)
  <2>1. PICK g \in Callers, k \in Chunks : Complete(g, k)
    BY <1>2
  <2>2. builder' \in [Chunks -> Callers \cup {None}]
    BY <2>1 DEF IInv, CacheTypes, Complete, BuilderAfterComplete
  <2> DEFINE queue == IF k \in ToSet(order) THEN order ELSE Append(order, k)
  <2>3. order' = SubSeq(queue, Overflow(queue) + 1, Len(queue))
    BY <2>1 DEF Complete
  <2>4. queue \in Seq(Chunks) /\ Len(queue) \in Nat /\ Len(queue) <= Cap + 1 /\ Cap \in Nat \ {0}
    BY CapAssumption, AppendProperties, LenProperties DEF IInv, CacheTypes
  <2> HIDE DEF queue
  <2>5. CASE Len(queue) = 0
    <3>1. queue = <<>> /\ Overflow(queue) = 0
      BY <2>4, <2>5, EmptySeq DEF Overflow
    <3>2. order' = <<>>
      BY <2>3, <3>1
    <3> QED
      BY <2>2, <2>4, <3>2, EmptySeq DEF CacheTypes
  <2>6. CASE Len(queue) # 0
    <3>1. Overflow(queue) \in Nat /\ Overflow(queue) < Len(queue) /\ Len(queue) - Overflow(queue) <= Cap
      BY <2>4, <2>6 DEF Overflow
    <3>2. order' \in Seq(Chunks) /\ Len(order') = Len(queue) - Overflow(queue)
      BY <2>3, <2>4, <3>1, Rest
    <3> QED
      BY <2>2, <3>1, <3>2 DEF CacheTypes
  <2> QED
    BY <2>5, <2>6
<1>3. CASE UNCHANGED <<order, builder>>
  BY <1>3 DEF IInv, CacheTypes
<1> QED
  <2>1. CASE UNCHANGED vars
    BY <1>3, <2>1 DEF vars
  <2>2. CASE Next
    <3>1. PICK g \in Callers : \/ \E c \in Centers : GenerateChunk(g, c)
                               \/ \E k \in Chunks : Loader(g, k)
                               \/ Caller(g)
      BY <2>2 DEF Next
    <3>2. CASE \E c \in Centers : GenerateChunk(g, c)
      BY <1>3, <3>2 DEF GenerateChunk
    <3>3. CASE \E k \in Chunks : Loader(g, k)
      BY <1>1, <1>2, <1>3, <3>3 DEF Loader, Hit, Join
    <3>4. CASE Caller(g)
      BY <1>3, <3>4 DEF Caller, Prepared, Preload, Preloaded, Replay, Return, Forget
    <3> QED
      BY <3>1, <3>2, <3>3, <3>4
  <2> QED
    BY <2>1, <2>2

-----------------------------------------------------------------------------
\* The loaders: each of them moves one slot of one call, and complete the slots
\* of all calls that waited for the flight.
LEMMA LoaderStep ==
  ASSUME IInv, NEW g \in Callers, NEW k \in Chunks, Loader(g, k)
  PROVE  CallTypes' /\ \A h \in Callers : CallOK(h)'
<1>1. CallTypes /\ \A h \in Callers : CallOK(h)
  BY DEF IInv
<1>2. ASSUME NEW stage \in Loading \cup {"ready"}, load[g][k] \in Loading,
             load' = [load EXCEPT ![g][k] = stage], slot' = slot,
             UNCHANGED <<pc, center, probe, next>>
      PROVE  CallTypes' /\ \A h \in Callers : CallOK(h)'
  <2>1. /\ load'[g] = [load[g] EXCEPT ![k] = stage]
        /\ \A h \in Callers \ {g} : load'[h] = load[h]
        /\ load' \in [Callers -> [Chunks -> Stages]]
    BY <1>1, <1>2 DEF CallTypes, Loading, Stages
  <2>2. CallOK(g)'
    BY <1>1, <1>2, <2>1, LoaderMoves
  <2>3. CallTypes'
    BY <1>1, <1>2, <2>1 DEF CallTypes
  <2> QED
    BY <1>1, <1>2, <2>1, <2>2, <2>3, OtherCalls
<1>3. CASE Hit(g, k)
  <2>1. load[g][k] \in Loading /\ load' = [load EXCEPT ![g][k] = "ready"]
        /\ UNCHANGED <<pc, center, probe, next>>
    BY <1>3 DEF Hit, Ready, Loading
  <2>2. slot' = [slot EXCEPT ![g] = [slot[g] EXCEPT ![k] = <<>>]]
    BY <1>3 DEF Hit
  <2>3. slot' = [slot EXCEPT ![g] = slot[g]]
    BY <1>1, <2>1, <2>2, PristineSlot
  <2>4. \A h \in Callers : slot'[h] = slot[h]
    BY <1>1, <2>3 DEF CallTypes
  <2>5. DOMAIN slot' = Callers
    BY <1>1, <2>3 DEF CallTypes
  <2>6. /\ load'[g] = [load[g] EXCEPT ![k] = "ready"]
        /\ \A h \in Callers \ {g} : load'[h] = load[h]
        /\ load' \in [Callers -> [Chunks -> Stages]]
    BY <1>1, <2>1 DEF CallTypes, Stages
  <2>7. CallOK(g)'
    BY <1>1, <2>1, <2>4, <2>6, LoaderMoves
  <2>8. CallTypes'
    BY <1>1, <2>1, <2>4, <2>5, <2>6 DEF CallTypes
  <2> QED
    BY <1>1, <2>1, <2>4, <2>6, <2>7, <2>8, OtherCalls
<1>4. CASE Join(g, k)
  BY <1>2, <1>4 DEF Join, Loading
<1>5. CASE Own(g, k)
  BY <1>2, <1>5 DEF Own, Loading
<1>6. CASE Complete(g, k)
  <2> DEFINE served == {h \in Callers : h = g \/ load[h][k] = "wait"}
  <2>1. /\ load[g][k] = "build"
        /\ UNCHANGED <<pc, center, probe, next>>
        /\ slot' = [h \in Callers |-> IF h \in served THEN [slot[h] EXCEPT ![k] = <<>>] ELSE slot[h]]
        /\ load' = [h \in Callers |-> IF h \in served THEN [load[h] EXCEPT ![k] = "ready"]
                                                      ELSE load[h]]
    BY <1>6 DEF Complete
  <2>2. \A h \in served : load[h][k] \in Loading
    BY <2>1 DEF Loading
  <2>3. \A h \in Callers : slot'[h] = slot[h]
    BY <1>1, <2>1, <2>2, PristineSlot
  <2>4. \A h \in Callers :
          load'[h] = IF h \in served THEN [load[h] EXCEPT ![k] = "ready"] ELSE load[h]
    BY <2>1
  <2>5. served \subseteq Callers
    OBVIOUS
  <2> HIDE DEF served
  <2>6. ASSUME NEW h \in served PROVE CallOK(h)'
    BY <1>1, <2>1, <2>2, <2>3, <2>4, <2>5, LoaderMoves
  <2>7. ASSUME NEW h \in Callers \ served PROVE CallOK(h)'
    <3>1. load'[h] = load[h] /\ slot'[h] = slot[h]
      BY <2>3, <2>4
    <3> QED
      BY <1>1, <2>1, <3>1 DEF CallOK, Region, Neighbours, Finished
  <2>8. load' \in [Callers -> [Chunks -> Stages]]
    BY <1>1, <2>1, <2>4 DEF CallTypes, Stages
  <2>9. CallTypes'
    BY <1>1, <2>1, <2>3, <2>8 DEF CallTypes
  <2> QED
    BY <2>6, <2>7, <2>9
<1> QED
  BY <1>3, <1>4, <1>5, <1>6 DEF Loader

-----------------------------------------------------------------------------
\* A call begins, on a region in which nothing is loaded.
LEMMA GenerateChunkStep ==
  ASSUME IInv, NEW g \in Callers, NEW c \in Centers, GenerateChunk(g, c)
  PROVE  CallTypes' /\ \A h \in Callers : CallOK(h)'
<1>1. CallTypes /\ \A h \in Callers : CallOK(h)
  BY DEF IInv
<1>2. c \in Chunks
  BY RegionAssumption
<1>3. /\ pc[g] = "idle" /\ pc' = [pc EXCEPT ![g] = "prepare"]
      /\ center' = [center EXCEPT ![g] = c]
      /\ load' = [load EXCEPT ![g][c] = "look"]
      /\ next' = [next EXCEPT ![g] = 1]
      /\ slot' = slot /\ probe' = probe
  BY DEF GenerateChunk, Goto
<1>4. CallTypes'
  BY <1>1, <1>2, <1>3 DEF CallTypes, PCs, Stages
<1>5. load[g] = [k \in Chunks |-> "off"] /\ Region(g) = Fresh
  BY <1>1, <1>3 DEF CallOK
<1>6. load'[g] = [load[g] EXCEPT ![c] = "look"] /\ pc'[g] = "prepare" /\ center'[g] = c /\ next'[g] = 1
  BY <1>1, <1>3 DEF CallTypes
<1>7. \A k \in Chunks \ {c} : load'[g][k] = "off"
  BY <1>5, <1>6
<1>8. Region(g)' = Fresh
  BY <1>3, <1>5 DEF Region
<1>9. \A k \in Chunks : slot'[g][k] = <<>>
  BY <1>3, <1>5 DEF Region, Fresh
<1>10. CallOK(g)'
  BY <1>6, <1>7, <1>8, <1>9 DEF CallOK, Decorating
<1>11. \A h \in Callers \ {g} : /\ pc'[h] = pc[h] /\ center'[h] = center[h] /\ load'[h] = load[h]
                                /\ slot'[h] = slot[h] /\ probe'[h] = probe[h] /\ next'[h] = next[h]
  BY <1>1, <1>3 DEF CallTypes
<1> QED
  BY <1>1, <1>4, <1>10, <1>11, OtherCalls

\* The terrain of the chunk is there: the replay is about to take its first item.
LEMMA PreparedStep ==
  ASSUME IInv, NEW g \in Callers, Prepared(g)
  PROVE  CallTypes' /\ \A h \in Callers : CallOK(h)'
<1>1. CallTypes /\ \A h \in Callers : CallOK(h)
  BY DEF IInv
<1>2. /\ pc[g] = "prepare" /\ pc' = [pc EXCEPT ![g] = "decorate"]
      /\ load[g][center[g]] = "ready"
      /\ UNCHANGED <<center, load, slot, probe, next>>
  BY DEF Prepared, Goto
<1>3. CallTypes'
  BY <1>1, <1>2 DEF CallTypes, PCs
<1>4. pc'[g] = "decorate" /\ \A h \in Callers \ {g} : pc'[h] = pc[h]
  BY <1>1, <1>2 DEF CallTypes
<1>5. center[g] \in Centers /\ center[g] \in Chunks /\ Sources(center[g]) \in Seq(Chunks)
  BY <1>1, RegionAssumption DEF CallTypes
<1>6. \A k \in Neighbours(g) : load[g][k] = "off"
  <2>1. Neighbours(g) \subseteq Chunks \ {center[g]}
    BY <1>5, LenProperties DEF Neighbours, ToSet
  <2> QED
    BY <1>1, <1>2, <2>1 DEF CallOK
<1>7. next[g] = 1 /\ Region(g) = ReplayOf(center[g])[0]
  BY <1>1, <1>2, <1>5, ReplaySteps DEF CallOK
<1>8. next[g] - 1 = 0 /\ next[g] \in 1 .. Len(Plan[center[g]]) + 1
  BY <1>5, <1>7, PlanType
<1>9. Region(g) = ReplayOf(center[g])[next[g] - 1]
  BY <1>7, <1>8
<1>10. CallOK(g)'
  BY <1>1, <1>2, <1>4, <1>6, <1>8, <1>9 DEF CallOK, Region, Neighbours
<1> QED
  BY <1>1, <1>2, <1>3, <1>4, <1>10, OtherCalls

\* The loaders start: the neighbours were untouched, and are.
LEMMA PreloadStep ==
  ASSUME IInv, NEW g \in Callers, Preload(g)
  PROVE  CallTypes' /\ \A h \in Callers : CallOK(h)'
<1>1. CallTypes /\ \A h \in Callers : CallOK(h)
  BY DEF IInv
<1>2. /\ pc[g] = "decorate" /\ pc' = [pc EXCEPT ![g] = "preload"]
      /\ \A k \in Neighbours(g) : load[g][k] = "off"
      /\ load' = [load EXCEPT ![g] = [k \in Chunks |-> IF k \in Neighbours(g) THEN "look" ELSE @[k]]]
      /\ UNCHANGED <<center, slot, probe, next>>
  BY DEF Preload, Goto
<1>3. pc'[g] = "preload" /\ \A h \in Callers \ {g} : pc'[h] = pc[h] /\ load'[h] = load[h]
  BY <1>1, <1>2 DEF CallTypes
<1>4. load'[g] = [k \in Chunks |-> IF k \in Neighbours(g) THEN "look" ELSE load[g][k]]
  BY <1>1, <1>2 DEF CallTypes
<1>5. load' \in [Callers -> [Chunks -> Stages]]
  <2>1. load'[g] \in [Chunks -> Stages]
    BY <1>1, <1>4 DEF CallTypes, Stages
  <2> QED
    BY <1>1, <1>2, <1>3, <2>1 DEF CallTypes
<1>6. CallTypes'
  BY <1>1, <1>2, <1>5 DEF CallTypes, PCs
<1>7. center[g] \notin Neighbours(g) /\ center[g] \in Chunks
  BY <1>1, RegionAssumption DEF Neighbours, CallTypes
<1>8. load'[g][center[g]] = "ready"
  BY <1>1, <1>2, <1>4, <1>7 DEF CallOK, Decorating
<1>9. \A k \in Chunks : load'[g][k] # "ready" => slot[g][k] = <<>>
  BY <1>1, <1>2, <1>4 DEF CallOK
<1>10. CallOK(g)'
  BY <1>1, <1>2, <1>3, <1>8, <1>9 DEF CallOK, Region, Decorating
<1> QED
  BY <1>1, <1>2, <1>3, <1>6, <1>10, OtherCalls

\* All loaders have ended, so that the whole region is filled.
LEMMA PreloadedStep ==
  ASSUME IInv, NEW g \in Callers, Preloaded(g)
  PROVE  CallTypes' /\ \A h \in Callers : CallOK(h)'
<1>1. CallTypes /\ \A h \in Callers : CallOK(h)
  BY DEF IInv
<1>2. /\ pc[g] = "preload" /\ pc' = [pc EXCEPT ![g] = "decorate"]
      /\ \A k \in Neighbours(g) : load[g][k] = "ready"
      /\ UNCHANGED <<center, load, slot, probe, next>>
  BY DEF Preloaded, Goto, MayDecorate, Filled
<1>3. pc'[g] = "decorate" /\ \A h \in Callers \ {g} : pc'[h] = pc[h]
  BY <1>1, <1>2 DEF CallTypes
<1>4. CallTypes'
  BY <1>1, <1>2 DEF CallTypes, PCs
<1>5. CallOK(g)'
  BY <1>1, <1>2, <1>3 DEF CallOK, Region, Neighbours, Decorating
<1> QED
  BY <1>1, <1>2, <1>3, <1>4, <1>5, OtherCalls

\* One item of the replay: what is loaded of the region is all that it can
\* reach, so that it does to the region what the sequential replay does.
LEMMA ReplayStep ==
  ASSUME IInv, NEW g \in Callers, Replay(g)
  PROVE  CallTypes' /\ \A h \in Callers : CallOK(h)'
<1>1. CallTypes /\ \A h \in Callers : CallOK(h)
  BY DEF IInv
<1> DEFINE c == center[g]
           n == next[g]
           region == [slot |-> slot[g], probe |-> probe[g], filled |-> Filled(g)]
           r == Replayed(region, c, Current(g))
           all == Replayed(Region(g), c, Current(g))
<1>2. /\ pc[g] = "decorate" /\ ~ Finished(g)
      /\ Current(g)[2] \in Regional => \A k \in Neighbours(g) : load[g][k] # "off"
      /\ slot' = [slot EXCEPT ![g] = r.slot] /\ probe' = [probe EXCEPT ![g] = r.probe]
      /\ next' = [next EXCEPT ![g] = @ + 1]
      /\ UNCHANGED <<pc, center, load>>
  BY DEF Replay
<1>3. c \in Centers /\ c \in Chunks /\ Sources(c) \in Seq(Chunks) /\ n \in Nat
      /\ ToSet(Sources(c)) \subseteq Chunks
  <2>1. c \in Centers /\ c \in Chunks /\ Sources(c) \in Seq(Chunks) /\ n \in Nat
    BY <1>1, RegionAssumption DEF CallTypes
  <2> QED
    BY <2>1, LenProperties DEF ToSet
<1>4. n \in 1 .. Len(Plan[c]) /\ n - 1 \in Nat /\ (n + 1) - 1 = n /\ n + 1 \in 1 .. Len(Plan[c]) + 1
  <2>1. Len(Plan[c]) \in Nat
    BY <1>3, PlanType
  <2>2. n \in 1 .. Len(Plan[c]) + 1
    BY <1>1, <1>2 DEF CallOK, Decorating
  <2>3. ~ (n > Len(Plan[c]))
    BY <1>2 DEF Finished
  <2> QED
    BY <2>1, <2>2, <2>3
<1>5. c \in Filled(g) /\ Filled(g) \subseteq Chunks
  BY <1>1, <1>2, <1>3 DEF CallOK, Filled, Decorating
<1>6. Current(g)[2] \in Regional => ToSet(Sources(c)) \subseteq Filled(g)
  <2> SUFFICES ASSUME Current(g)[2] \in Regional PROVE ToSet(Sources(c)) \subseteq Filled(g)
    OBVIOUS
  <2>1. \A k \in Neighbours(g) : load[g][k] = "ready"
    BY <1>1, <1>2 DEF CallOK
  <2> QED
    BY <1>3, <1>5, <2>1 DEF Filled, Neighbours
<1>7. slot[g] = [k \in Chunks |-> slot[g][k]] /\ DOMAIN probe[g] = Chunks
  BY <1>1 DEF CallTypes
<1>8. /\ all = [slot |-> r.slot, probe |-> r.probe, filled |-> Chunks]
      /\ r.slot = [k \in Chunks |-> r.slot[k]]
      /\ DOMAIN r.probe = Chunks
      /\ \A k \in Chunks \ Filled(g) : r.slot[k] = slot[g][k]
  <2> DEFINE F == Filled(g)
             a == slot[g]
             b == probe[g]
             step == Current(g)
             x == Replayed([slot |-> a, probe |-> b, filled |-> F], c, step)
             y == Replayed([slot |-> a, probe |-> b, filled |-> Chunks], c, step)
  <2>1. x = r /\ y = all
    BY DEF Region
  <2>2. /\ c \in Centers /\ F \in SUBSET Chunks /\ c \in F
        /\ step[2] \in Regional => ToSet(Sources(c)) \subseteq F
        /\ a = [k \in Chunks |-> a[k]] /\ DOMAIN b = Chunks
    BY <1>3, <1>5, <1>6, <1>7
  <2> HIDE DEF c, F, a, b, step
  <2>3. SameOutcome(c, step, F, a, b)
    BY <2>2, SameReplay
  <2>4. /\ y = [slot |-> x.slot, probe |-> x.probe, filled |-> Chunks]
        /\ x.slot = [k \in Chunks |-> x.slot[k]]
        /\ DOMAIN x.probe = Chunks
        /\ \A k \in Chunks \ F : x.slot[k] = a[k]
    BY <2>3 DEF SameOutcome
  <2> QED
    BY <2>1, <2>4 DEF F, a
<1> HIDE DEF r
<1>9. Region(g) = ReplayOf(c)[n - 1] /\ Current(g) = Plan[c][n]
  BY <1>1, <1>2 DEF CallOK, Current, Decorating
<1>10. all = ReplayOf(c)[n]
  BY <1>3, <1>4, <1>9, ReplaySteps
<1>11. /\ slot'[g] = r.slot /\ probe'[g] = r.probe /\ next'[g] = n + 1
       /\ \A h \in Callers \ {g} : slot'[h] = slot[h] /\ probe'[h] = probe[h] /\ next'[h] = next[h]
  BY <1>1, <1>2 DEF CallTypes
<1>12. CallTypes'
  <2>1. DOMAIN slot' = Callers /\ DOMAIN probe' = Callers /\ next' \in [Callers -> Nat]
    BY <1>1, <1>2 DEF CallTypes
  <2>2. \A h \in Callers : slot'[h] = [k \in Chunks |-> slot'[h][k]] /\ DOMAIN probe'[h] = Chunks
    BY <1>1, <1>8, <1>11 DEF CallTypes
  <2> QED
    BY <1>1, <1>2, <2>1, <2>2 DEF CallTypes
<1>13. CallOK(g)'
  <2>1. Region(g)' = ReplayOf(c)[n]
    BY <1>8, <1>10, <1>11 DEF Region
  <2>2. \A k \in Chunks : load[g][k] # "ready" => slot'[g][k] = <<>>
    BY <1>1, <1>8, <1>11 DEF CallOK, Filled
  <2>3. next'[g] - 1 = n /\ next'[g] \in 1 .. Len(Plan[c]) + 1
    BY <1>4, <1>11
  <2>4. Region(g)' = ReplayOf(c)[next'[g] - 1]
    BY <2>1, <2>3
  <2> HIDE DEF n
  <2>5. pc'[g] = "decorate" /\ center'[g] = c /\ load'[g] = load[g] /\ Neighbours(g)' = Neighbours(g)
    BY <1>2 DEF Neighbours
  <2> QED
    BY <1>1, <1>2, <2>2, <2>3, <2>4, <2>5 DEF CallOK, Decorating
<1> QED
  BY <1>1, <1>2, <1>11, <1>12, <1>13, OtherCalls

\* The replay is over.
LEMMA ReturnStep ==
  ASSUME IInv, NEW g \in Callers, Return(g)
  PROVE  CallTypes' /\ \A h \in Callers : CallOK(h)'
<1>1. CallTypes /\ \A h \in Callers : CallOK(h)
  BY DEF IInv
<1>2. /\ pc[g] = "decorate" /\ Finished(g) /\ pc' = [pc EXCEPT ![g] = "done"]
      /\ UNCHANGED <<center, load, slot, probe, next>>
  BY DEF Return, Goto
<1>3. pc'[g] = "done" /\ \A h \in Callers \ {g} : pc'[h] = pc[h]
  BY <1>1, <1>2 DEF CallTypes
<1>4. CallTypes'
  BY <1>1, <1>2 DEF CallTypes, PCs
<1>5. CallOK(g)'
  BY <1>1, <1>2, <1>3 DEF CallOK, Region, Neighbours, Finished, Decorating
<1> QED
  BY <1>1, <1>2, <1>3, <1>4, <1>5, OtherCalls

\* The region of the call is dropped.
LEMMA ForgetStep ==
  ASSUME IInv, NEW g \in Callers, Forget(g)
  PROVE  CallTypes' /\ \A h \in Callers : CallOK(h)'
<1>1. CallTypes /\ \A h \in Callers : CallOK(h)
  BY DEF IInv
<1>2. /\ load' = [load EXCEPT ![g] = [k \in Chunks |-> "off"]]
      /\ slot' = [slot EXCEPT ![g] = [k \in Chunks |-> <<>>]]
      /\ probe' = [probe EXCEPT ![g] = [k \in Chunks |-> None]]
      /\ next' = [next EXCEPT ![g] = 0]
      /\ pc' = [pc EXCEPT ![g] = "idle"] /\ center' = center
  BY DEF Forget, Goto
<1>3. /\ load'[g] = [k \in Chunks |-> "off"] /\ slot'[g] = [k \in Chunks |-> <<>>]
      /\ probe'[g] = [k \in Chunks |-> None] /\ next'[g] = 0 /\ pc'[g] = "idle"
  BY <1>1, <1>2 DEF CallTypes
<1>4. \A h \in Callers \ {g} : /\ pc'[h] = pc[h] /\ load'[h] = load[h] /\ slot'[h] = slot[h]
                               /\ probe'[h] = probe[h] /\ next'[h] = next[h]
  BY <1>1, <1>2 DEF CallTypes
<1>5. CallTypes'
  <2>1. load' \in [Callers -> [Chunks -> Stages]] /\ pc' \in [Callers -> PCs] /\ next' \in [Callers -> Nat]
        /\ DOMAIN slot' = Callers /\ DOMAIN probe' = Callers
    BY <1>1, <1>2 DEF CallTypes, PCs, Stages
  <2>2. \A h \in Callers : slot'[h] = [k \in Chunks |-> slot'[h][k]] /\ DOMAIN probe'[h] = Chunks
    BY <1>1, <1>3, <1>4 DEF CallTypes
  <2> QED
    BY <1>1, <1>2, <2>1, <2>2 DEF CallTypes
<1>6. Region(g)' = Fresh
  BY <1>3 DEF Region, Fresh
<1>7. CallOK(g)'
  BY <1>3, <1>6 DEF CallOK, Decorating
<1> QED
  BY <1>1, <1>2, <1>4, <1>5, <1>7, OtherCalls

-----------------------------------------------------------------------------
\* The strengthened invariant holds of every behaviour: its initial states, and
\* every step of a loader or a call.
THEOREM IInvAlways == Spec => []IInv
<1>1. Init => IInv
  <2> SUFFICES ASSUME Init PROVE IInv
    OBVIOUS
  <2> USE DEF Init
  <2>1. CacheTypes
    BY CapAssumption, EmptySeq DEF CacheTypes
  <2>2. CallTypes
    BY DEF CallTypes, PCs, Stages
  <2>3. ASSUME NEW g \in Callers PROVE CallOK(g)
    BY DEF CallOK, Decorating, Region, Fresh
  <2> QED
    BY <2>1, <2>2, <2>3 DEF IInv
<1>2. IInv /\ [Next]_vars => IInv'
  <2> SUFFICES ASSUME IInv, [Next]_vars PROVE IInv'
    OBVIOUS
  <2>1. CacheTypes'
    BY CacheStep
  <2>2. CallTypes' /\ \A h \in Callers : CallOK(h)'
    <3>1. CASE UNCHANGED vars
      BY <3>1 DEF vars, IInv, CallTypes, CallOK, Region, Neighbours, Finished
    <3>2. ASSUME NEW g \in Callers, NEW c \in Centers, GenerateChunk(g, c)
          PROVE  CallTypes' /\ \A h \in Callers : CallOK(h)'
      BY <3>2, GenerateChunkStep
    <3>3. ASSUME NEW g \in Callers, NEW k \in Chunks, Loader(g, k)
          PROVE  CallTypes' /\ \A h \in Callers : CallOK(h)'
      BY <3>3, LoaderStep
    <3>4. ASSUME NEW g \in Callers, Caller(g)
          PROVE  CallTypes' /\ \A h \in Callers : CallOK(h)'
      BY <3>4, PreparedStep, PreloadStep, PreloadedStep, ReplayStep, ReturnStep, ForgetStep
         DEF Caller
    <3> QED
      BY <3>1, <3>2, <3>3, <3>4 DEF Next
  <2> QED
    BY <2>1, <2>2 DEF IInv
<1> QED
  BY <1>1, <1>2, PTL DEF Spec

\* The types of the model, with the cap of the terrain cache: no interleaving of
\* loaders stores more coordinates than protoChunkCache.cap.
THEOREM TypeCorrect == Spec => []TypeOK
<1>1. IInv => TypeOK
  <2> SUFFICES ASSUME IInv PROVE TypeOK
    OBVIOUS
  <2>1. \A g \in Callers : DOMAIN slot[g] = Chunks /\ DOMAIN probe[g] = Chunks
    BY DEF IInv, CallTypes
  <2>2. ASSUME NEW g \in Callers PROVE next[g] \in 0 .. Len(Plan[center[g]]) + 1
    <3>1. center[g] \in Centers /\ pc[g] \in PCs /\ CallOK(g)
      BY DEF IInv, CallTypes
    <3>2. Len(Plan[center[g]]) \in Nat
      BY <3>1, PlanType
    <3>3. CASE pc[g] \in {"idle", "prepare"}
      BY <3>1, <3>2, <3>3 DEF CallOK
    <3>4. CASE pc[g] \in Decorating
      BY <3>1, <3>2, <3>4 DEF CallOK
    <3> QED
      BY <3>1, <3>3, <3>4 DEF PCs, Decorating
  <2> QED
    BY <2>1, <2>2 DEF IInv, CacheTypes, CallTypes, TypeOK
<1> QED
  BY <1>1, IInvAlways, PTL

\* What GenerateChunk returns is the replay of its chunk on pristine terrain,
\* whatever the cache held and however the calls and loaders interleaved.
THEOREM ChunksAreReplays == Spec => []AnswerIsReplay
<1>1. IInv => AnswerIsReplay
  <2> SUFFICES ASSUME IInv, NEW g \in Callers, pc[g] = "done"
               PROVE  slot[g][center[g]] = Decorated[center[g]].slot[center[g]]
    BY DEF AnswerIsReplay
  <2>1. CallOK(g) /\ center[g] \in Centers /\ next[g] \in Nat
    BY DEF IInv, CallTypes
  <2>2. Len(Plan[center[g]]) \in Nat
    BY <2>1, PlanType
  <2>3. /\ next[g] \in 1 .. Len(Plan[center[g]]) + 1 /\ next[g] > Len(Plan[center[g]])
        /\ Region(g) = ReplayOf(center[g])[next[g] - 1]
    BY <2>1 DEF CallOK, Decorating, Finished
  <2>4. next[g] - 1 = Len(Plan[center[g]])
    BY <2>2, <2>3
  <2>5. Region(g) = Decorated[center[g]]
    BY <2>1, <2>3, <2>4 DEF Decorated
  <2> QED
    BY <2>5 DEF Region
<1> QED
  BY <1>1, IInvAlways, PTL
=============================================================================
