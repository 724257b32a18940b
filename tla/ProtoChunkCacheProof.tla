------------------------ MODULE ProtoChunkCacheProof ------------------------
(***************************************************************************)
(* The proto-chunk cache, for any goroutines, coordinates, cap and panics. *)
(* The inductive invariant ties every open flight to the one goroutine     *)
(* that builds it and keeps the clones of open flights out of the cache    *)
(* and out of the hands of readers; the safety properties follow.          *)
(***************************************************************************)
EXTENDS ProtoChunkCache, TLAPS

\* Nobody can reach the object an open flight is going to publish.
FlightsPrivate ==
  \A k \in Keys : inFlight[k] # None =>
    /\ ~ flight[inFlight[k]].done
    /\ ~ flight[inFlight[k]].ok
    /\ \A j \in Keys : byPos[j] # inFlight[k]
    /\ \A j \in Keys : inFlight[j] = inFlight[k] => j = k
    /\ \A w \in Workers : pc[w] = "copy" => ptr[w] # inFlight[k]
    /\ \E w \in Workers : Owns(w) /\ key[w] = k /\ ptr[w] = inFlight[k]

\* The goroutine that builds a coordinate holds the flight in the map.
OwnersHoldFlight ==
  \A w \in Workers : Owns(w) =>
    /\ ptr[w] \in Cells
    /\ inFlight[key[w]] = ptr[w]

\* A goroutine that waits will find the flight open and in the map, or closed
\* with nothing, or closed with the terrain it wants in a cell of the cache.
WaitersServed ==
  \A w \in Workers : Waits(w) =>
    /\ ptr[w] \in Cells
    /\ ~ flight[ptr[w]].done => inFlight[key[w]] = ptr[w]
    /\ flight[ptr[w]].done /\ flight[ptr[w]].ok =>
         /\ flight[ptr[w]].entry = ptr[w]
         /\ heap[ptr[w]] = Terrain(key[w])

CopiersServed ==
  \A w \in Workers : pc[w] = "copy" =>
    ptr[w] \in Cells /\ heap[ptr[w]] = Terrain(key[w])

EntriesAreClones == \A k \in Keys : byPos[k] \in Cells \cup {None}

BuiltPristine ==
  \A w \in Workers : pc[w] \in {"complete", "decorate"} => heap[w] = Terrain(key[w])

IInv ==
  /\ TypeOK
  /\ CacheIndexed
  /\ SingleFlight
  /\ EntriesPristine
  /\ FlightsPrivate
  /\ OwnersHoldFlight
  /\ WaitersServed
  /\ CopiersServed
  /\ EntriesAreClones
  /\ BuiltPristine

-----------------------------------------------------------------------------
\* What complete does to the queue: a coordinate that was not listed is
\* appended and the oldest are dropped over the cap, so the queue still lists
\* each coordinate once, fits, and lists exactly the ones that were not dropped.
Trimmed(q) == SubSeq(q, Overflow(q) + 1, Len(q))

LEMMA QueueAfterComplete ==
  ASSUME NEW s \in Seq(Keys), NEW k \in Keys,
         Len(s) <= Cap,
         \A i, j \in 1 .. Len(s) : s[i] = s[j] => i = j,
         \A i \in 1 .. Len(s) : s[i] # k
  PROVE  /\ Trimmed(Append(s, k)) \in Seq(Keys)
         /\ Len(Trimmed(Append(s, k))) <= Cap
         /\ \A i, j \in 1 .. Len(Trimmed(Append(s, k))) :
              Trimmed(Append(s, k))[i] = Trimmed(Append(s, k))[j] => i = j
         /\ \A h \in Keys :
              (\E i \in 1 .. Len(Trimmed(Append(s, k))) : Trimmed(Append(s, k))[i] = h) <=>
                /\ h = k \/ \E i \in 1 .. Len(s) : s[i] = h
                /\ h \notin Dropped(Append(s, k))
         /\ k \notin Dropped(Append(s, k))
         /\ \A h \in Dropped(Append(s, k)) : h = Head(s)
<1> DEFINE q == Append(s, k)
           t == Trimmed(q)
<1>0. t = SubSeq(q, Overflow(q) + 1, Len(q))
  BY DEF Trimmed
<1>1. /\ q \in Seq(Keys)
      /\ Len(q) = Len(s) + 1
      /\ \A i \in 1 .. Len(s) : q[i] = s[i]
      /\ q[Len(s) + 1] = k
  OBVIOUS
<1> HIDE DEF q, t
<1>2. \A i, j \in 1 .. Len(q) : q[i] = q[j] => i = j
  BY <1>1
<1>3. CASE Len(s) < Cap
  <2>1. Overflow(q) = 0
    BY <1>1, <1>3, CapAssumption DEF Overflow
  <2>2. Dropped(q) = {}
    BY <2>1 DEF Dropped
  <2>3. t \in Seq(Keys) /\ Len(t) = Len(q) /\ \A i \in 1 .. Len(q) : t[i] = q[i]
    BY <1>0, <1>1, <2>1
  <2>4. \A h \in Keys : (\E i \in 1 .. Len(t) : t[i] = h) <=>
              h = k \/ \E i \in 1 .. Len(s) : s[i] = h
    <3>1. ASSUME NEW h \in Keys, NEW i \in 1 .. Len(t), t[i] = h
          PROVE  h = k \/ \E j \in 1 .. Len(s) : s[j] = h
      <4>1. CASE i = Len(s) + 1
        BY <4>1, <3>1, <2>3, <1>1
      <4>2. CASE i # Len(s) + 1
        <5>1. i \in 1 .. Len(s)
          BY <4>2, <2>3, <1>1
        <5> QED
          BY <5>1, <3>1, <2>3, <1>1
      <4> QED
        BY <4>1, <4>2
    <3>2. ASSUME NEW h \in Keys, NEW i \in 1 .. Len(s), s[i] = h
          PROVE  \E j \in 1 .. Len(t) : t[j] = h
      <4>1. i \in 1 .. Len(t) /\ t[i] = h
        BY <3>2, <2>3, <1>1
      <4> QED
        BY <4>1
    <3>3. \E j \in 1 .. Len(t) : t[j] = k
      <4>1. Len(s) + 1 \in 1 .. Len(t) /\ t[Len(s) + 1] = k
        BY <2>3, <1>1
      <4> QED
        BY <4>1
    <3> SUFFICES ASSUME NEW h \in Keys
                 PROVE  (\E i \in 1 .. Len(t) : t[i] = h) <=>
                          h = k \/ \E i \in 1 .. Len(s) : s[i] = h
      OBVIOUS
    <3>4. CASE h = k
      BY <3>3, <3>4
    <3>5. CASE h # k
      BY <3>1, <3>2, <3>5
    <3> QED
      BY <3>4, <3>5
  <2>5. Len(t) <= Cap
    BY <2>3, <1>1, <1>3, CapAssumption
  <2>6. \A i, j \in 1 .. Len(t) : t[i] = t[j] => i = j
    BY <2>3, <1>2
  <2> QED
    BY <2>2, <2>3, <2>4, <2>5, <2>6 DEF q, t
<1>4. CASE Len(s) = Cap
  <2>1. Overflow(q) = 1
    BY <1>1, <1>4, CapAssumption DEF Overflow
  <2>2. Dropped(q) = {q[1]} /\ q[1] = s[1] /\ s[1] = Head(s) /\ s[1] # k
    <3>1. 1 .. Overflow(q) = {1}
      BY <2>1
    <3>2. 1 \in 1 .. Len(s)
      BY <1>4, CapAssumption
    <3> QED
      BY <3>1, <3>2, <1>1 DEF Dropped
  <2>3. t \in Seq(Keys) /\ Len(t) = Len(s) /\ \A i \in 1 .. Len(s) : t[i] = q[i + 1]
    BY <1>0, <1>1, <2>1
  <2>4. \A i, j \in 1 .. Len(t) : t[i] = t[j] => i = j
    <3>1. ASSUME NEW i \in 1 .. Len(t), NEW j \in 1 .. Len(t), t[i] = t[j]
          PROVE  i = j
      <4>1. i + 1 \in 1 .. Len(q) /\ j + 1 \in 1 .. Len(q) /\ q[i + 1] = q[j + 1]
        BY <3>1, <2>3, <1>1
      <4>2. i + 1 = j + 1
        BY <4>1, <1>2
      <4> QED
        BY <4>2
    <3> QED
      BY <3>1
  <2>5. ASSUME NEW h \in Keys, NEW i \in 1 .. Len(t), t[i] = h
        PROVE  /\ h = k \/ \E j \in 1 .. Len(s) : s[j] = h
               /\ h # q[1]
    <3>1. i + 1 \in 1 .. Len(q) /\ 1 \in 1 .. Len(q) /\ q[i + 1] = h /\ i + 1 # 1
      BY <2>5, <2>3, <1>1
    <3>2. h # q[1]
      BY <3>1, <1>2
    <3>3. CASE i = Len(s)
      BY <3>3, <3>1, <3>2, <1>1
    <3>4. CASE i # Len(s)
      <4>1. i + 1 \in 1 .. Len(s) /\ s[i + 1] = h
        BY <3>4, <3>1, <2>3, <1>1
      <4> QED
        BY <4>1, <3>2
    <3> QED
      BY <3>3, <3>4
  <2>6. ASSUME NEW h \in Keys, NEW i \in 1 .. Len(s), s[i] = h, h # q[1]
        PROVE  \E j \in 1 .. Len(t) : t[j] = h
    <3>1. i # 1
      BY <2>6, <1>1
    <3>2. i - 1 \in 1 .. Len(t) /\ i - 1 \in 1 .. Len(s) /\ (i - 1) + 1 = i
      BY <3>1, <2>3
    <3>3. t[i - 1] = h
      <4>1. t[i - 1] = q[(i - 1) + 1]
        BY <3>2, <2>3
      <4> QED
        BY <4>1, <3>2, <2>6, <1>1
    <3> QED
      BY <3>2, <3>3
  <2>7. \E j \in 1 .. Len(t) : t[j] = k
    <3>1. Len(s) \in 1 .. Len(t) /\ t[Len(s)] = k
      BY <2>3, <1>1, <1>4, CapAssumption
    <3> QED
      BY <3>1
  <2>8. \A h \in Keys : (\E i \in 1 .. Len(t) : t[i] = h) <=>
              /\ h = k \/ \E i \in 1 .. Len(s) : s[i] = h
              /\ h \notin Dropped(q)
    <3> SUFFICES ASSUME NEW h \in Keys
                 PROVE  (\E i \in 1 .. Len(t) : t[i] = h) <=>
                          /\ h = k \/ \E i \in 1 .. Len(s) : s[i] = h
                          /\ h # q[1]
      BY <2>2
    <3>1. CASE h = k
      BY <3>1, <2>2, <2>7
    <3>2. CASE h # k
      BY <3>2, <2>5, <2>6
    <3> QED
      BY <3>1, <3>2
  <2>9. Len(t) <= Cap
    BY <2>3, <1>4
  <2> QED
    <3>1. k \notin Dropped(q)
      BY <2>2
    <3>2. \A h \in Dropped(q) : h = Head(s)
      BY <2>2
    <3> QED
      BY <2>3, <2>4, <2>8, <2>9, <3>1, <3>2 DEF q, t
<1>5. Len(s) < Cap \/ Len(s) = Cap
  BY CapAssumption
<1> QED
  BY <1>3, <1>4, <1>5

-----------------------------------------------------------------------------
\* Every initial state satisfies the inductive invariant.
LEMMA InitInductive == Init => IInv
<1> SUFFICES ASSUME Init PROVE IInv
  OBVIOUS
<1>1. TypeOK
  BY CapAssumption, PanicsAssumption DEF Init, TypeOK, NewFlight, Objects, Contents, PCs
<1>2. CacheIndexed
  BY DEF Init, CacheIndexed
<1>3. SingleFlight /\ EntriesPristine /\ FlightsPrivate /\ OwnersHoldFlight
  BY DEF Init, SingleFlight, EntriesPristine, FlightsPrivate, OwnersHoldFlight, Owns
<1>4. WaitersServed /\ CopiersServed /\ EntriesAreClones /\ BuiltPristine
  BY DEF Init, WaitersServed, CopiersServed, EntriesAreClones, BuiltPristine, Waits
<1> QED
  BY <1>1, <1>2, <1>3, <1>4 DEF IInv

\* A step that only moves a goroutine of its own, and leaves the cache and all
\* flights alone, keeps the part of the invariant that is about the queue.
LEMMA CacheIndexedFrame ==
  CacheIndexed /\ UNCHANGED <<byPos, order>> => CacheIndexed'
BY DEF CacheIndexed

\* Goroutines and cells are different objects, and None is neither.
LEMMA ObjectsDistinct ==
  /\ Workers \subseteq Objects
  /\ Cells \subseteq Objects
  /\ \A w \in Workers, c \in Cells : w # c
  /\ None \notin Objects
BY ObjectsAssumption DEF Objects

\* A new request starts with a blank chunk and touches nothing shared.
LEMMA AskKeepsIInv ==
  ASSUME IInv, NEW w \in Workers, NEW k \in Keys,
         NEW e \in {"get", "reserve"}, Ask(w, k, e)
  PROVE  IInv'
<1> USE DEF IInv, Ask, Goto
<1>1. TypeOK'
  BY DEF TypeOK, Objects, Contents, PCs
<1>2. CacheIndexed'
  BY CacheIndexedFrame
<1>3. \A v \in Workers : Owns(v)' => v # w /\ Owns(v)
  BY DEF Owns, TypeOK
<1>4. \A v \in Workers : Owns(v) => v # w /\ Owns(v)'
  BY DEF Owns, TypeOK
<1>5. SingleFlight'
  BY <1>3 DEF SingleFlight, TypeOK
<1>6. EntriesPristine'
  BY ObjectsDistinct DEF EntriesPristine, EntriesAreClones, TypeOK
<1>7. FlightsPrivate'
  BY <1>4 DEF FlightsPrivate, TypeOK
<1>8. OwnersHoldFlight'
  BY <1>3 DEF OwnersHoldFlight, TypeOK
<1>9. WaitersServed'
  BY ObjectsDistinct DEF WaitersServed, Waits, TypeOK
<1>10. CopiersServed'
  BY ObjectsDistinct DEF CopiersServed, TypeOK
<1>11. EntriesAreClones' /\ BuiltPristine'
  BY ObjectsDistinct DEF EntriesAreClones, BuiltPristine, TypeOK
<1> QED
  BY <1>1, <1>2, <1>5, <1>6, <1>7, <1>8, <1>9, <1>10, <1>11

\* get takes an entry or a flight that is in the maps at that moment.
LEMMA GetKeepsIInv ==
  ASSUME IInv, NEW w \in Workers, Get(w)
  PROVE  IInv'
<1> USE DEF IInv, Get, Goto
<1>1. TypeOK'
  BY DEF TypeOK, Objects, PCs
<1>2. CacheIndexed'
  BY CacheIndexedFrame
<1>3. \A v \in Workers : Owns(v)' <=> v # w /\ Owns(v)
  BY DEF Owns, TypeOK
<1>4. SingleFlight' /\ EntriesPristine' /\ OwnersHoldFlight'
  BY <1>3 DEF SingleFlight, EntriesPristine, OwnersHoldFlight, TypeOK
<1>5. FlightsPrivate'
  <2> SUFFICES ASSUME NEW k \in Keys, inFlight[k] # None
               PROVE  /\ \A v \in Workers : pc'[v] = "copy" => ptr'[v] # inFlight[k]
                      /\ \E v \in Workers : Owns(v)' /\ key[v] = k /\ ptr'[v] = inFlight[k]
    BY DEF FlightsPrivate
  <2>1. \A v \in Workers : pc'[v] = "copy" => ptr'[v] # inFlight[k]
    BY DEF FlightsPrivate, TypeOK
  <2>2. PICK v \in Workers : Owns(v) /\ key[v] = k /\ ptr[v] = inFlight[k]
    BY DEF FlightsPrivate
  <2>3. Owns(v)' /\ ptr'[v] = ptr[v]
    BY <2>2 DEF Owns, TypeOK
  <2> QED
    BY <2>1, <2>2, <2>3
<1>6. WaitersServed'
  BY ObjectsDistinct DEF WaitersServed, FlightsPrivate, Waits, TypeOK
<1>7. CopiersServed'
  BY ObjectsDistinct DEF CopiersServed, EntriesPristine, EntriesAreClones, TypeOK
<1>8. EntriesAreClones' /\ BuiltPristine'
  BY DEF EntriesAreClones, BuiltPristine, TypeOK
<1> QED
  BY <1>1, <1>2, <1>4, <1>5, <1>6, <1>7, <1>8

\* The cell reserve allocates is one nothing points to.
LEMMA FreshCell ==
  ASSUME TypeOK, Free # {}, NEW f, f = (CHOOSE c \in Free : TRUE)
  PROVE  /\ f \in Cells
         /\ \A k \in Keys : byPos[k] # f /\ inFlight[k] # f
         /\ \A w \in Workers : ptr[w] # f
<1>1. f \in Free
  OBVIOUS
<1> QED
  BY <1>1 DEF Free, Live, Range, TypeOK

\* reserve hands out a stored entry, an open flight, or a flight of a fresh cell
\* for a coordinate that is neither stored nor in flight.
LEMMA ReserveKeepsIInv ==
  ASSUME IInv, NEW w \in Workers, Reserve(w)
  PROVE  IInv'
<1> DEFINE k == key[w]
<1> USE DEF IInv
<1>1. CASE /\ ~ MayOwn(k)
           /\ byPos[k] # None
           /\ ptr' = [ptr EXCEPT ![w] = byPos[k]]
           /\ Goto(w, "copy")
           /\ UNCHANGED <<inFlight, flight>>
  <2> USE <1>1 DEF Reserve, Goto
  <2>1. TypeOK'
    BY DEF TypeOK, Objects, PCs
  <2>2. CacheIndexed'
    BY CacheIndexedFrame
  <2>3. \A v \in Workers : Owns(v)' <=> v # w /\ Owns(v)
    BY DEF Owns, TypeOK
  <2>4. SingleFlight' /\ EntriesPristine' /\ OwnersHoldFlight'
    BY <2>3 DEF SingleFlight, EntriesPristine, OwnersHoldFlight, TypeOK
  <2>5. FlightsPrivate'
    BY <2>3 DEF FlightsPrivate, Owns, TypeOK
  <2>6. WaitersServed'
    BY DEF WaitersServed, Waits, TypeOK
  <2>7. CopiersServed' /\ EntriesAreClones' /\ BuiltPristine'
    BY DEF CopiersServed, EntriesPristine, EntriesAreClones, BuiltPristine, TypeOK
  <2> QED
    BY <2>1, <2>2, <2>4, <2>5, <2>6, <2>7
<1>2. CASE /\ ~ MayOwn(k)
           /\ byPos[k] = None
           /\ ptr' = [ptr EXCEPT ![w] = inFlight[k]]
           /\ Goto(w, "wait")
           /\ UNCHANGED <<inFlight, flight>>
  <2> USE <1>2 DEF Reserve, Goto
  <2>0. inFlight[k] \in Cells /\ ~ flight[inFlight[k]].done
    BY DEF MayOwn, FlightsPrivate, TypeOK
  <2>1. TypeOK'
    BY DEF TypeOK, Objects, PCs
  <2>2. CacheIndexed'
    BY CacheIndexedFrame
  <2>3. \A v \in Workers : Owns(v)' <=> v # w /\ Owns(v)
    BY DEF Owns, TypeOK
  <2>4. SingleFlight' /\ EntriesPristine' /\ OwnersHoldFlight'
    BY <2>3 DEF SingleFlight, EntriesPristine, OwnersHoldFlight, TypeOK
  <2>5. FlightsPrivate'
    BY <2>3 DEF FlightsPrivate, Owns, TypeOK
  <2>6. WaitersServed'
    BY <2>0 DEF WaitersServed, Waits, TypeOK
  <2>7. CopiersServed' /\ EntriesAreClones' /\ BuiltPristine'
    BY DEF CopiersServed, EntriesAreClones, BuiltPristine, TypeOK
  <2> QED
    BY <2>1, <2>2, <2>4, <2>5, <2>6, <2>7
<1>3. ASSUME MayOwn(k), Free # {}, NEW f, f = (CHOOSE c \in Free : TRUE),
             inFlight' = [inFlight EXCEPT ![k] = f],
             flight' = [flight EXCEPT ![f] = NewFlight],
             ptr' = [ptr EXCEPT ![w] = f],
             Goto(w, "build")
      PROVE  IInv'
  <2> USE <1>3 DEF Reserve, Goto
  <2>0. /\ f \in Cells
        /\ \A j \in Keys : byPos[j] # f /\ inFlight[j] # f
        /\ \A v \in Workers : ptr[v] # f
    BY FreshCell
  <2>1. TypeOK'
    BY <2>0 DEF TypeOK, Objects, PCs, NewFlight
  <2>2. CacheIndexed'
    BY CacheIndexedFrame
  <2>3. /\ \A v \in Workers \ {w} : Owns(v)' <=> Owns(v)
        /\ Owns(w)'
        /\ ~ Owns(w)
    BY DEF Owns, TypeOK
  <2>4. \A v \in Workers : Owns(v) => key[v] # k
    BY ObjectsDistinct DEF OwnersHoldFlight, MayOwn
  <2>5. SingleFlight'
    BY <2>3, <2>4 DEF SingleFlight, MayOwn, TypeOK
  <2>6. EntriesPristine' /\ EntriesAreClones'
    BY DEF EntriesPristine, EntriesAreClones, TypeOK
  <2>7. OwnersHoldFlight'
    BY <2>0, <2>3, <2>4 DEF OwnersHoldFlight, TypeOK
  <2>8. FlightsPrivate'
    <3> SUFFICES ASSUME NEW h \in Keys, inFlight'[h] # None
                 PROVE  /\ ~ flight'[inFlight'[h]].done
                        /\ ~ flight'[inFlight'[h]].ok
                        /\ \A j \in Keys : byPos[j] # inFlight'[h]
                        /\ \A j \in Keys : inFlight'[j] = inFlight'[h] => j = h
                        /\ \A v \in Workers : pc'[v] = "copy" => ptr'[v] # inFlight'[h]
                        /\ \E v \in Workers : Owns(v)' /\ key[v] = h /\ ptr'[v] = inFlight'[h]
      BY DEF FlightsPrivate
    <3>1. CASE h = k
      BY <3>1, <2>0, <2>3 DEF FlightsPrivate, TypeOK, NewFlight
    <3>2. CASE h # k
      <4>1. inFlight'[h] = inFlight[h] /\ inFlight[h] # f
        BY <3>2, <2>0 DEF TypeOK
      <4>2. PICK v \in Workers : Owns(v) /\ key[v] = h /\ ptr[v] = inFlight[h]
        BY <4>1 DEF FlightsPrivate
      <4>3. Owns(v)' /\ ptr'[v] = inFlight[h]
        BY <4>2, <2>3, <3>2 DEF TypeOK
      <4>4. ~ flight'[inFlight[h]].done /\ ~ flight'[inFlight[h]].ok
        BY <4>1 DEF FlightsPrivate, TypeOK
      <4>5. \A j \in Keys : byPos[j] # inFlight[h]
        BY <4>1 DEF FlightsPrivate
      <4>6. \A j \in Keys : inFlight'[j] = inFlight[h] => j = h
        BY <4>1, <2>0 DEF FlightsPrivate, TypeOK
      <4>7. \A u \in Workers : pc'[u] = "copy" => ptr'[u] # inFlight[h]
        BY <4>1 DEF FlightsPrivate, TypeOK
      <4> QED
        BY <4>1, <4>2, <4>3, <4>4, <4>5, <4>6, <4>7
    <3> QED
      BY <3>1, <3>2
  <2>9. WaitersServed'
    <3>1. \A v \in Workers : Waits(v)' => v # w /\ Waits(v) /\ ptr'[v] = ptr[v] /\ ptr[v] # f
      BY <2>0 DEF Waits, TypeOK
    <3>2. \A v \in Workers : Waits(v) => flight'[ptr[v]] = flight[ptr[v]]
      BY <2>0 DEF WaitersServed, TypeOK
    <3>3. \A v \in Workers : Waits(v) /\ ~ flight[ptr[v]].done => key[v] # k
      BY ObjectsDistinct DEF WaitersServed, MayOwn
    <3> QED
      BY <3>1, <3>2, <3>3 DEF WaitersServed, TypeOK
  <2>10. CopiersServed' /\ BuiltPristine'
    BY DEF CopiersServed, BuiltPristine, TypeOK
  <2> QED
    BY <2>1, <2>2, <2>5, <2>6, <2>7, <2>8, <2>9, <2>10
<1> QED
  BY <1>1, <1>2, <1>3 DEF Reserve

\* Leaving the wait on flight.done yields an entry of the coordinate waited for.
LEMMA AwakenKeepsIInv ==
  ASSUME IInv, NEW w \in Workers, Awaken(w)
  PROVE  IInv'
<1> USE DEF IInv, Awaken, Goto
<1>1. TypeOK'
  BY DEF TypeOK, PCs, WaitersServed, Waits
<1>2. CacheIndexed'
  BY CacheIndexedFrame
<1>3. \A v \in Workers : Owns(v)' <=> v # w /\ Owns(v)
  BY DEF Owns, TypeOK
<1>4. SingleFlight' /\ EntriesPristine' /\ OwnersHoldFlight'
  BY <1>3 DEF SingleFlight, EntriesPristine, OwnersHoldFlight, TypeOK
<1>5. pc'[w] = "copy" => ptr'[w] = ptr[w] /\ ptr[w] \in Cells
                         /\ heap[ptr[w]] = Terrain(key[w]) /\ flight[ptr[w]].done
  BY DEF WaitersServed, Waits, TypeOK
<1>6. FlightsPrivate'
  <2> SUFFICES ASSUME NEW k \in Keys, inFlight[k] # None
               PROVE  /\ \A v \in Workers : pc'[v] = "copy" => ptr'[v] # inFlight[k]
                      /\ \E v \in Workers : Owns(v)' /\ key[v] = k /\ ptr'[v] = inFlight[k]
    BY DEF FlightsPrivate
  <2>1. \A v \in Workers : pc'[v] = "copy" => ptr'[v] # inFlight[k]
    BY <1>5 DEF FlightsPrivate, TypeOK
  <2>2. PICK v \in Workers : Owns(v) /\ key[v] = k /\ ptr[v] = inFlight[k]
    BY DEF FlightsPrivate
  <2>3. Owns(v)' /\ ptr'[v] = ptr[v]
    BY <2>2 DEF Owns, TypeOK
  <2> QED
    BY <2>1, <2>2, <2>3
<1>7. WaitersServed'
  BY DEF WaitersServed, Waits, TypeOK
<1>8. CopiersServed'
  BY <1>5 DEF CopiersServed, TypeOK
<1>9. EntriesAreClones' /\ BuiltPristine'
  BY DEF EntriesAreClones, BuiltPristine, TypeOK
<1> QED
  BY <1>1, <1>2, <1>4, <1>6, <1>7, <1>8, <1>9

\* Build, Panic, Copy and Decorate touch only the chunk, the pointer and the
\* place of the goroutine itself.
LEMMA OwnChunkKeepsIInv ==
  ASSUME IInv, NEW w \in Workers,
         Build(w) \/ Panic(w) \/ Copy(w) \/ Decorate(w)
  PROVE  IInv'
<1> USE DEF IInv, Build, Panic, Copy, Decorate, Goto
<1>1. TypeOK'
  <2>1. CASE Build(w)
    BY <2>1, ObjectsDistinct DEF TypeOK, PCs, Contents
  <2>2. CASE Panic(w)
    BY <2>2, PanicsAssumption DEF TypeOK, PCs
  <2>3. CASE Copy(w)
    BY <2>3, ObjectsDistinct DEF TypeOK, PCs, CopiersServed
  <2>4. CASE Decorate(w)
    BY <2>4, ObjectsDistinct DEF TypeOK, PCs, Contents
  <2> QED
    BY <2>1, <2>2, <2>3, <2>4
<1>2. CacheIndexed'
  BY CacheIndexedFrame
<1>3. \A v \in Workers : Owns(v)' <=> Owns(v)
  BY DEF Owns, TypeOK
<1>4. \A v \in Workers : Owns(v) => ptr'[v] = ptr[v]
  BY DEF Owns, TypeOK
<1>5. SingleFlight' /\ OwnersHoldFlight'
  BY <1>3, <1>4 DEF SingleFlight, OwnersHoldFlight, TypeOK
<1>6. \A c \in Cells : heap'[c] = heap[c]
  BY ObjectsDistinct DEF TypeOK
<1>7. EntriesPristine' /\ EntriesAreClones'
  BY <1>6 DEF EntriesPristine, EntriesAreClones
<1>8. FlightsPrivate'
  <2>1. UNCHANGED <<byPos, inFlight, flight, key>>
    OBVIOUS
  <2>2. \A v \in Workers : pc'[v] = "copy" => pc[v] = "copy" /\ ptr'[v] = ptr[v]
    BY DEF TypeOK
  <2>3. ASSUME NEW k \in Keys, inFlight[k] # None
        PROVE  \E v \in Workers : Owns(v)' /\ key[v] = k /\ ptr'[v] = inFlight[k]
    <3>1. PICK v \in Workers : Owns(v) /\ key[v] = k /\ ptr[v] = inFlight[k]
      BY <2>3 DEF FlightsPrivate
    <3> QED
      BY <3>1, <1>3, <1>4
  <2> HIDE DEF Build, Panic, Copy, Decorate, Goto
  <2> QED
    BY <2>1, <2>2, <2>3 DEF FlightsPrivate, Owns
<1>9. WaitersServed'
  BY <1>6 DEF WaitersServed, Waits, TypeOK
<1>10. CopiersServed'
  BY <1>6 DEF CopiersServed, TypeOK
<1>11. BuiltPristine'
  BY ObjectsDistinct DEF BuiltPristine, CopiersServed, TypeOK
<1> QED
  BY <1>1, <1>2, <1>5, <1>7, <1>8, <1>9, <1>10, <1>11

\* abort closes the owner's flight; whoever waits on it has it closed.
LEMMA AbortKeepsIInv ==
  ASSUME IInv, NEW w \in Workers, Abort(w)
  PROVE  IInv'
<1> USE DEF IInv, Abort, Goto
<1> DEFINE k == key[w]
           f == ptr[w]
<1>1. /\ f \in Cells
      /\ inFlight[k] = f
      /\ inFlight' = [inFlight EXCEPT ![k] = None]
      /\ flight' = [flight EXCEPT ![f] = [flight[f] EXCEPT !.done = TRUE]]
  BY DEF OwnersHoldFlight, Owns, AbortedFlight
<1>2. f # None /\ ~ flight[f].done /\ ~ flight[f].ok
  BY <1>1, ObjectsDistinct DEF FlightsPrivate, TypeOK
<1>3. TypeOK'
  BY <1>1 DEF TypeOK, PCs
<1>4. CacheIndexed'
  BY CacheIndexedFrame
<1>5. \A v \in Workers : Owns(v)' <=> v # w /\ Owns(v)
  BY DEF Owns, TypeOK
<1>6. \A v \in Workers : Owns(v)' => key[v] # k
  BY <1>5 DEF SingleFlight, Owns
<1>7. SingleFlight' /\ EntriesPristine' /\ EntriesAreClones'
  BY <1>5 DEF SingleFlight, EntriesPristine, EntriesAreClones
<1>8. OwnersHoldFlight'
  BY <1>1, <1>5, <1>6 DEF OwnersHoldFlight, TypeOK
<1>9. FlightsPrivate'
  <2> SUFFICES ASSUME NEW h \in Keys, inFlight'[h] # None
               PROVE  /\ ~ flight'[inFlight'[h]].done
                      /\ ~ flight'[inFlight'[h]].ok
                      /\ \A j \in Keys : byPos[j] # inFlight'[h]
                      /\ \A j \in Keys : inFlight'[j] = inFlight'[h] => j = h
                      /\ \A v \in Workers : pc'[v] = "copy" => ptr'[v] # inFlight'[h]
                      /\ \E v \in Workers : Owns(v)' /\ key[v] = h /\ ptr'[v] = inFlight'[h]
    BY DEF FlightsPrivate
  <2>1. h # k /\ inFlight'[h] = inFlight[h] /\ inFlight[h] # f
    BY <1>1, <1>2 DEF FlightsPrivate, TypeOK
  <2>2. PICK v \in Workers : Owns(v) /\ key[v] = h /\ ptr[v] = inFlight[h]
    BY <2>1 DEF FlightsPrivate
  <2>3. Owns(v)' /\ ptr'[v] = inFlight[h]
    BY <2>1, <2>2, <1>5 DEF TypeOK
  <2>4. /\ ~ flight'[inFlight[h]].done /\ ~ flight'[inFlight[h]].ok
        /\ \A j \in Keys : byPos[j] # inFlight[h]
    BY <1>1, <2>1 DEF FlightsPrivate, TypeOK
  <2>5. \A j \in Keys : inFlight'[j] = inFlight[h] => j = h
    BY <1>1, <2>1 DEF FlightsPrivate, TypeOK
  <2>6. \A u \in Workers : pc'[u] = "copy" => ptr'[u] # inFlight[h]
    BY <2>1 DEF FlightsPrivate, TypeOK
  <2> QED
    BY <2>1, <2>2, <2>3, <2>4, <2>5, <2>6
<1>10. WaitersServed'
  <2> SUFFICES ASSUME NEW v \in Workers, Waits(v)'
               PROVE  /\ ptr'[v] \in Cells
                      /\ ~ flight'[ptr'[v]].done => inFlight'[key[v]] = ptr'[v]
                      /\ flight'[ptr'[v]].done /\ flight'[ptr'[v]].ok =>
                           /\ flight'[ptr'[v]].entry = ptr'[v]
                           /\ heap[ptr'[v]] = Terrain(key[v])
    BY DEF WaitersServed
  <2>1. v # w /\ Waits(v) /\ ptr'[v] = ptr[v] /\ ptr[v] \in Cells
    BY DEF Waits, TypeOK, WaitersServed
  <2>2. CASE ptr[v] = f
    BY <2>1, <2>2, <1>1, <1>2 DEF WaitersServed, TypeOK
  <2>3. CASE ptr[v] # f
    BY <2>1, <2>3, <1>1, <1>2 DEF WaitersServed, TypeOK
  <2> QED
    BY <2>2, <2>3
<1>11. CopiersServed' /\ BuiltPristine'
  BY DEF CopiersServed, BuiltPristine, TypeOK
<1> QED
  BY <1>3, <1>4, <1>7, <1>8, <1>9, <1>10, <1>11

\* complete publishes the clone the owner has made, and nothing else changes
\* for anybody: the coordinates it drops are those at the head of the queue.
LEMMA CompleteKeepsIInv ==
  ASSUME IInv, NEW w \in Workers, Complete(w)
  PROVE  IInv'
<1> USE DEF IInv
<1> DEFINE k == key[w]
           f == ptr[w]
           queue == Append(order, k)
<1>1. /\ k \in Keys
      /\ f \in Cells
      /\ inFlight[k] = f
      /\ byPos[k] = None
      /\ heap[w] = Terrain(k)
      /\ f # None
      /\ Owns(w)
  BY ObjectsDistinct
     DEF Complete, Owns, OwnersHoldFlight, SingleFlight, BuiltPristine, TypeOK
<1>2. /\ heap' = [heap EXCEPT ![f] = Terrain(k)]
      /\ order' = SubSeq(queue, Overflow(queue) + 1, Len(queue))
      /\ byPos' = [j \in Keys |-> IF j \in Dropped(queue) THEN None
                                  ELSE IF j = k THEN f ELSE byPos[j]]
      /\ flight' = [flight EXCEPT ![f] = [done |-> TRUE, ok |-> TRUE, entry |-> f]]
      /\ inFlight' = [inFlight EXCEPT ![k] = None]
      /\ ptr' = [ptr EXCEPT ![w] = None]
      /\ pc' = [pc EXCEPT ![w] = "decorate"]
      /\ UNCHANGED <<key, panics>>
  BY <1>1 DEF Complete, PublishedObject, Goto
<1>3. /\ order' \in Seq(Keys)
      /\ Len(order') <= Cap
      /\ \A i, j \in 1 .. Len(order') : order'[i] = order'[j] => i = j
      /\ \A h \in Keys : (\E i \in 1 .. Len(order') : order'[i] = h) <=>
            /\ h = k \/ \E i \in 1 .. Len(order) : order[i] = h
            /\ h \notin Dropped(queue)
      /\ k \notin Dropped(queue)
  <2>1. order \in Seq(Keys) /\ Len(order) <= Cap
        /\ \A i, j \in 1 .. Len(order) : order[i] = order[j] => i = j
    BY DEF TypeOK, CacheIndexed
  <2>2. \A i \in 1 .. Len(order) : order[i] # k
    BY <1>1 DEF CacheIndexed
  <2>3. order' = Trimmed(Append(order, k))
    BY <1>2 DEF Trimmed
  <2>4. k \in Keys
    BY <1>1
  <2> HIDE DEF k, IInv
  <2> QED
    BY <2>1, <2>2, <2>3, <2>4, QueueAfterComplete
<1>4. /\ byPos'[k] = f
      /\ \A j \in Keys \ {k} : byPos'[j] = None \/ byPos'[j] = byPos[j]
  BY <1>1, <1>2, <1>3
<1>5. CacheIndexed'
  <2>1. \A j \in Keys : byPos'[j] # None <=> \E i \in 1 .. Len(order') : order'[i] = j
    <3> SUFFICES ASSUME NEW j \in Keys
                 PROVE  byPos'[j] # None <=>
                          (j = k \/ \E i \in 1 .. Len(order) : order[i] = j) /\ j \notin Dropped(queue)
      BY <1>3
    <3>1. CASE j = k
      BY <3>1, <1>1, <1>3, <1>4
    <3>2. CASE j # k
      BY <3>2, <1>2 DEF CacheIndexed
    <3> QED
      BY <3>1, <3>2
  <2> QED
    BY <2>1, <1>3 DEF CacheIndexed
<1>6. TypeOK'
  <2>1. byPos' \in [Keys -> Objects \cup {None}]
    BY <1>1, <1>2, ObjectsDistinct DEF TypeOK
  <2>2. heap' \in [Objects -> Contents]
    BY <1>1, <1>2, ObjectsDistinct DEF TypeOK, Contents
  <2>3. flight' \in [Cells -> [done : BOOLEAN, ok : BOOLEAN, entry : Objects \cup {None}]]
    BY <1>1, <1>2, ObjectsDistinct DEF TypeOK
  <2>4. pc' \in [Workers -> PCs] /\ ptr' \in [Workers -> Objects \cup {None}]
    BY <1>2 DEF TypeOK, PCs
  <2>5. inFlight' \in [Keys -> Cells \cup {None}] /\ key' \in [Workers -> Keys]
        /\ panics' \in 0 .. MaxPanics
    BY <1>2 DEF TypeOK
  <2> QED
    BY <1>3, <2>1, <2>2, <2>3, <2>4, <2>5 DEF TypeOK
<1>7. \A v \in Workers : Owns(v)' <=> v # w /\ Owns(v)
  BY <1>1, <1>2 DEF Owns, TypeOK
<1>8. \A v \in Workers : Owns(v)' => key[v] # k
  BY <1>1, <1>7 DEF SingleFlight
<1>9. SingleFlight'
  BY <1>2, <1>4, <1>7, <1>8 DEF SingleFlight, TypeOK
<1>10. OwnersHoldFlight'
  BY <1>1, <1>2, <1>7, <1>8 DEF OwnersHoldFlight, TypeOK
<1>11. \A j \in Keys : byPos[j] # f
  BY <1>1 DEF FlightsPrivate
<1>12. EntriesAreClones' /\ EntriesPristine'
  BY <1>1, <1>2, <1>4, <1>11, ObjectsDistinct DEF EntriesAreClones, EntriesPristine, TypeOK
<1>13. FlightsPrivate'
  <2> SUFFICES ASSUME NEW h \in Keys, inFlight'[h] # None
               PROVE  /\ ~ flight'[inFlight'[h]].done
                      /\ ~ flight'[inFlight'[h]].ok
                      /\ \A j \in Keys : byPos'[j] # inFlight'[h]
                      /\ \A j \in Keys : inFlight'[j] = inFlight'[h] => j = h
                      /\ \A v \in Workers : pc'[v] = "copy" => ptr'[v] # inFlight'[h]
                      /\ \E v \in Workers : Owns(v)' /\ key'[v] = h /\ ptr'[v] = inFlight'[h]
    BY DEF FlightsPrivate
  <2>1. h # k /\ inFlight'[h] = inFlight[h] /\ inFlight[h] # f /\ inFlight[h] # None
    BY <1>1, <1>2 DEF FlightsPrivate, TypeOK
  <2>2. PICK v \in Workers : Owns(v) /\ key[v] = h /\ ptr[v] = inFlight[h]
    BY <2>1 DEF FlightsPrivate
  <2>3. Owns(v)' /\ ptr'[v] = inFlight[h] /\ key'[v] = h
    BY <2>1, <2>2, <1>2, <1>7 DEF TypeOK
  <2>4. ~ flight'[inFlight[h]].done /\ ~ flight'[inFlight[h]].ok
    BY <1>1, <1>2, <2>1 DEF FlightsPrivate, TypeOK
  <2>5. \A j \in Keys : byPos'[j] # inFlight[h]
    BY <1>4, <2>1 DEF FlightsPrivate
  <2>6. \A j \in Keys : inFlight'[j] = inFlight[h] => j = h
    BY <1>2, <2>1 DEF FlightsPrivate, TypeOK
  <2>7. \A u \in Workers : pc'[u] = "copy" => ptr'[u] # inFlight[h]
    BY <1>2, <2>1 DEF FlightsPrivate, TypeOK
  <2> QED
    BY <2>1, <2>2, <2>3, <2>4, <2>5, <2>6, <2>7
<1>14. WaitersServed'
  <2> SUFFICES ASSUME NEW v \in Workers, Waits(v)'
               PROVE  /\ ptr'[v] \in Cells
                      /\ ~ flight'[ptr'[v]].done => inFlight'[key'[v]] = ptr'[v]
                      /\ flight'[ptr'[v]].done /\ flight'[ptr'[v]].ok =>
                           /\ flight'[ptr'[v]].entry = ptr'[v]
                           /\ heap'[ptr'[v]] = Terrain(key'[v])
    BY DEF WaitersServed
  <2>1. v # w /\ Waits(v) /\ ptr'[v] = ptr[v] /\ ptr[v] \in Cells /\ key'[v] = key[v]
        /\ key[v] \in Keys
    BY <1>2 DEF Waits, TypeOK, WaitersServed
  <2>2. CASE ptr[v] = f
    <3>1. inFlight[key[v]] = f
      BY <2>1, <2>2, <1>1 DEF WaitersServed, FlightsPrivate
    <3>2. key[v] = k
      BY <3>1, <2>1, <1>1 DEF FlightsPrivate
    <3>3. flight'[f] = [done |-> TRUE, ok |-> TRUE, entry |-> f] /\ heap'[f] = Terrain(k)
      BY <1>1, <1>2, ObjectsDistinct DEF TypeOK
    <3> QED
      BY <2>1, <2>2, <3>2, <3>3
  <2>3. CASE ptr[v] # f
    <3>1. flight'[ptr[v]] = flight[ptr[v]] /\ heap'[ptr[v]] = heap[ptr[v]]
      BY <2>1, <2>3, <1>1, <1>2, ObjectsDistinct DEF TypeOK
    <3>2. ~ flight[ptr[v]].done => key[v] # k
      BY <2>1, <2>3, <1>1 DEF WaitersServed
    <3> QED
      BY <2>1, <3>1, <3>2, <1>2 DEF WaitersServed, TypeOK
  <2> QED
    BY <2>2, <2>3
<1>15. CopiersServed'
  <2>1. \A v \in Workers : pc[v] = "copy" => ptr[v] # f
    BY <1>1 DEF FlightsPrivate
  <2> QED
    BY <1>1, <1>2, <2>1, ObjectsDistinct DEF CopiersServed, TypeOK
<1>16. BuiltPristine'
  BY <1>1, <1>2, ObjectsDistinct DEF BuiltPristine, TypeOK
<1> QED
  BY <1>5, <1>6, <1>9, <1>10, <1>12, <1>13, <1>14, <1>15, <1>16

\* The invariant is about vars alone.
LEMMA StutterKeepsIInv == IInv /\ UNCHANGED vars => IInv'
BY DEF vars, IInv, TypeOK, CacheIndexed, SingleFlight, EntriesPristine, FlightsPrivate,
       OwnersHoldFlight, WaitersServed, CopiersServed, EntriesAreClones, BuiltPristine,
       Owns, Waits

\* Every step keeps the inductive invariant, one case for each action.
LEMMA NextKeepsIInv == IInv /\ [Next]_vars => IInv'
<1> SUFFICES ASSUME IInv, [Next]_vars PROVE IInv'
  OBVIOUS
<1>1. ASSUME NEW w \in Workers, NEW k \in Keys, NEW e \in {"get", "reserve"}, Ask(w, k, e)
      PROVE  IInv'
  BY <1>1, AskKeepsIInv
<1>2. ASSUME NEW w \in Workers, Panic(w) PROVE IInv'
  BY <1>2, OwnChunkKeepsIInv
<1>3. ASSUME NEW w \in Workers, Step(w) PROVE IInv'
  BY <1>3, GetKeepsIInv, ReserveKeepsIInv, AwakenKeepsIInv, CompleteKeepsIInv,
     AbortKeepsIInv, OwnChunkKeepsIInv DEF Step
<1>4. CASE UNCHANGED vars
  BY <1>4, StutterKeepsIInv
<1> QED
  BY <1>1, <1>2, <1>3, <1>4 DEF Next

\* The inductive invariant holds in every reachable state (proto_cache.go and
\* its two callers).
THEOREM IInvAlways == Spec => []IInv
BY InitInductive, NextKeepsIInv, PTL DEF Spec

-----------------------------------------------------------------------------
\* The variables keep their types (proto_cache.go).
THEOREM TypeCorrect == Spec => []TypeOK
BY IInvAlways, PTL DEF IInv

\* Map and queue of the cache stay in step and within the cap, whatever the
\* interleaving of complete, reserve and get.
THEOREM CacheStaysIndexed == Spec => []CacheIndexed
BY IInvAlways, PTL DEF IInv

\* No coordinate is built twice at once, nor while it is stored.
THEOREM OneBuildAtATime == Spec => []SingleFlight
BY IInvAlways, PTL DEF IInv

\* Stored entries hold pristine terrain, whatever goroutines do to the chunks
\* they built or copied.
THEOREM StoredEntriesPristine == Spec => []EntriesPristine
BY IInvAlways, PTL DEF IInv

\* Every goroutine decorates pristine terrain of the coordinate it asked for.
THEOREM DecoratesPristineTerrain == Spec => []AnswersPristine
<1>1. IInv => AnswersPristine
  BY DEF IInv, BuiltPristine, AnswersPristine
<1> QED
  BY <1>1, IInvAlways, PTL

\* A goroutine waits on an open flight only while some goroutine builds what it
\* waits for.
THEOREM NobodyWaitsInVain == Spec => []WaitersHaveBuilder
<1>1. IInv => WaitersHaveBuilder
  BY ObjectsDistinct DEF IInv, WaitersServed, FlightsPrivate, WaitersHaveBuilder, TypeOK
<1> QED
  BY <1>1, IInvAlways, PTL

\* complete drops only the oldest coordinate, only to store another.
THEOREM DropsOnlyTheOldest == Spec => EvictsOldest
<1>1. ASSUME IInv, [Next]_vars
      PROVE  [\A k \in Keys : byPos[k] # None /\ byPos'[k] = None =>
                /\ k = Head(order)
                /\ \E j \in Keys : byPos[j] = None /\ byPos'[j] # None]_vars
  <2>1. ASSUME NEW w \in Workers, Complete(w), NEW k \in Keys,
               byPos[k] # None, byPos'[k] = None
        PROVE  /\ k = Head(order)
               /\ \E j \in Keys : byPos[j] = None /\ byPos'[j] # None
    <3> DEFINE n == key[w]
               queue == Append(order, n)
    <3>1. /\ n \in Keys
          /\ ptr[w] \in Cells
          /\ byPos[n] = None
      BY <1>1, <2>1 DEF Complete, Owns, OwnersHoldFlight, SingleFlight, TypeOK, IInv
    <3>2. byPos' = [j \in Keys |-> IF j \in Dropped(queue) THEN None
                                   ELSE IF j = n THEN ptr[w] ELSE byPos[j]]
      BY <2>1, <3>1 DEF Complete, PublishedObject
    <3>3. order \in Seq(Keys) /\ Len(order) <= Cap
          /\ \A i, j \in 1 .. Len(order) : order[i] = order[j] => i = j
      BY <1>1 DEF IInv, TypeOK, CacheIndexed
    <3>4. \A i \in 1 .. Len(order) : order[i] # n
      BY <1>1, <3>1 DEF IInv, CacheIndexed
    <3>6. n \notin Dropped(queue) /\ \A h \in Dropped(queue) : h = Head(order)
      <4> HIDE DEF n
      <4> QED
        BY <3>1, <3>3, <3>4, QueueAfterComplete
    <3>7. k \in Dropped(queue)
      BY <2>1, <3>1, <3>2, ObjectsDistinct
    <3>8. byPos'[n] # None
      BY <3>1, <3>2, <3>6, ObjectsDistinct
    <3> QED
      BY <3>1, <3>6, <3>7, <3>8
  <2>2. ASSUME NEW w \in Workers, ~ Complete(w),
               Step(w) \/ Panic(w) \/ \E k \in Keys, e \in {"get", "reserve"} : Ask(w, k, e)
        PROVE  byPos' = byPos
    BY <2>2 DEF Step, Get, Reserve, Awaken, Build, Abort, Copy, Decorate, Panic, Ask
  <2> QED
    BY <1>1, <2>1, <2>2 DEF Next, Step
<1> QED
  BY <1>1, IInvAlways, PTL DEF Spec, EvictsOldest

-----------------------------------------------------------------------------
\* The cache starts as the promise of PreparedChunks does, and each of its
\* steps is a step of the promise or changes nothing the promise speaks of:
\* a request is answered with the terrain of its coordinate, or fails with the
\* panic of the caller's own build.
THEOREM ImplementsPromise == Spec => Promise!Init /\ [][Promise!Next]_(Promise!vars)
<1>1. Init => Promise!Init
  BY DEF Init, Promise!Init, PhaseOf, GotOf
<1>2. ASSUME IInv, [Next]_vars
      PROVE  [Promise!Next]_(Promise!vars)
  <2>1. ASSUME NEW w \in Workers, NEW k \in Keys, NEW e \in {"get", "reserve"}, Ask(w, k, e)
        PROVE  Promise!Ask(w, k)
    <3>1. PhaseOf[w] = "idle" /\ PhaseOf' = [PhaseOf EXCEPT ![w] = "asked"]
      BY <1>2, <2>1 DEF Ask, Goto, PhaseOf, IInv, TypeOK
    <3>2. GotOf' = GotOf
      BY <1>2, <2>1 DEF Ask, Goto, GotOf, IInv, TypeOK
    <3> QED
      BY <2>1, <3>1, <3>2 DEF Ask, Promise!Ask
  <2>2. ASSUME NEW w \in Workers, Get(w) \/ Reserve(w) \/ Awaken(w) \/ Build(w) \/ Panic(w)
        PROVE  UNCHANGED <<PhaseOf, key, GotOf>>
    <3>1. key' = key
      BY <2>2 DEF Get, Reserve, Awaken, Build, Panic
    <3>2. /\ \A v \in Workers : v # w => pc'[v] = pc[v] /\ heap'[v] = heap[v]
          /\ pc[w] \notin {"idle", "decorate"} /\ pc'[w] \notin {"idle", "decorate"}
      BY <1>2, <2>2, ObjectsDistinct
         DEF Get, Reserve, Awaken, Build, Panic, Goto, IInv, TypeOK
    <3> QED
      BY <3>1, <3>2 DEF PhaseOf, GotOf
  <2>3. ASSUME NEW w \in Workers, Complete(w) \/ Copy(w)
        PROVE  Promise!Answer(w)
    <3>1. key' = key /\ pc[w] \notin {"idle", "decorate"} /\ pc' = [pc EXCEPT ![w] = "decorate"]
      BY <2>3 DEF Complete, Copy, Goto
    <3>2. \A v \in Workers : v # w => pc'[v] = pc[v] /\ heap'[v] = heap[v]
      BY <1>2, <2>3, ObjectsDistinct
         DEF Complete, Copy, Goto, PublishedObject, IInv, TypeOK, Owns, OwnersHoldFlight
    <3>3. IInv'
      BY <1>2, NextKeepsIInv
    <3>4. heap'[w] = Terrain(key[w]) /\ pc'[w] = "decorate"
      BY <1>2, <3>1, <3>3 DEF IInv, BuiltPristine, TypeOK
    <3>5. PhaseOf[w] = "asked" /\ PhaseOf' = [PhaseOf EXCEPT ![w] = "answered"]
      BY <3>1, <3>2, <3>4 DEF PhaseOf
    <3>6. GotOf' = [GotOf EXCEPT ![w] = Terrain(key[w])]
      BY <3>1, <3>2, <3>4 DEF GotOf
    <3> QED
      BY <3>1, <3>5, <3>6 DEF Promise!Answer
  <2>4. ASSUME NEW w \in Workers, Abort(w)
        PROVE  Promise!Fail(w)
    <3>1. PhaseOf[w] = "asked" /\ PhaseOf' = [PhaseOf EXCEPT ![w] = "idle"]
      BY <1>2, <2>4 DEF Abort, Goto, PhaseOf, IInv, TypeOK
    <3>2. GotOf' = GotOf
      BY <1>2, <2>4 DEF Abort, Goto, GotOf, IInv, TypeOK
    <3> QED
      BY <2>4, <3>1, <3>2 DEF Abort, Promise!Fail
  <2>5. ASSUME NEW w \in Workers, Decorate(w)
        PROVE  Promise!Done(w)
    <3>1. PhaseOf[w] = "answered" /\ PhaseOf' = [PhaseOf EXCEPT ![w] = "idle"]
      BY <1>2, <2>5 DEF Decorate, Goto, PhaseOf, IInv, TypeOK
    <3>2. GotOf' = [GotOf EXCEPT ![w] = Blank]
      BY <1>2, <2>5, ObjectsDistinct DEF Decorate, Goto, GotOf, IInv, TypeOK
    <3> QED
      BY <2>5, <3>1, <3>2 DEF Decorate, Promise!Done
  <2>6. CASE UNCHANGED vars
    BY <2>6 DEF vars, Promise!vars, PhaseOf, GotOf
  <2> QED
    BY <1>2, <2>1, <2>2, <2>3, <2>4, <2>5, <2>6 DEF Next, Step, Promise!Next, Promise!vars
<1> QED
  BY <1>1, <1>2, IInvAlways, PTL DEF Spec
=============================================================================
