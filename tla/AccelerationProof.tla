-------------------------- MODULE AccelerationProof --------------------------
(***************************************************************************)
(* The acceleration state, for any goroutines, queries, batch sizes and    *)
(* device faults. One part of the inductive invariant follows a job        *)
(* through the device, its buffers and the way back to the CPU; the other  *)
(* says in which states an inactive generator has no reason yet.           *)
(***************************************************************************)
EXTENDS Acceleration, SequenceLemmas

CacheTrue == \A p \in Points : cache[p] \in {None, Value(p)}

\* Where a job has its points listed, where it uses the device and where it
\* writes answers.
Listed == {"consult", "lock", "write", "run", "read", "store", "disable", "deactivate", "scalar"}
AtDevice == {"write", "run", "read"}
Answering == {"store", "scalar"}

\* Job j that is at a label, with what it has read and with its answer d.
\*
\* GetBiomes has come to the end of dst: what it found in the cache is true, and
\* what it did not find is on the list.
Looking(label, j, d) ==
  label = "look" =>
    /\ Len(d) < Len(j.query)
    /\ j.start = 0
    /\ ToSet(j.todo) \subseteq 1 .. Len(d)
    /\ \A i \in 1 .. Len(d) :
         d[i] = Value(j.query[i]) \/ \E n \in 1 .. Len(j.todo) : j.todo[n] = i

\* Points of the list a job has answered.
AnsweredPoints(label, j) == IF label \in Answering THEN j.start ELSE 0

\* Every point of a job has its value or is still to be answered.
PointsListed(label, j, d) ==
  label \in Listed =>
    /\ Len(d) = Len(j.query)
    /\ Len(j.todo) > 0
    /\ \A i \in 1 .. Len(j.query) :
         \/ d[i] = Value(j.query[i])
         \/ \E n \in 1 .. Len(j.todo) : n > AnsweredPoints(label, j) /\ j.todo[n] = i

\* A job starts at the front of its list, and a step has a point to work on.
Starts(label, j) ==
  /\ label \in {"consult", "lock"} => j.start = 0
  /\ label \in AtDevice \cup Answering => j.start < Len(j.todo)

\* What a job has read from the device so far is true.
ReadPoints(label, j) == IF label = "store" THEN Len(j.todo) ELSE j.start

ScratchTrue(label, j, s) ==
  label \in AtDevice \cup {"lock", "store"} =>
    /\ Len(s) = Len(j.todo)
    /\ \A i \in 1 .. Len(j.todo) :
         i <= ReadPoints(label, j) => s[i] = Value(j.query[j.todo[i]])

AnswersDone(label, j, d) ==
  label = "done" => d = [i \in 1 .. Len(j.query) |-> Value(j.query[i])]

JobOK(label, j, s, d) ==
  /\ Looking(label, j, d)
  /\ PointsListed(label, j, d)
  /\ Starts(label, j)
  /\ ScratchTrue(label, j, s)
  /\ AnswersDone(label, j, d)

\* One job at a time is at the device, none after it was released, and the
\* buffers are those of that job.
DeviceOK(w) ==
  /\ OnDevice(w) => mu = w /\ ~ closed
  /\ pc[w] = "run" => input[job[w].kind] = Batch(w)
  /\ pc[w] = "read" =>
       output[job[w].kind] = [i \in 1 .. BatchEnd(w) - job[w].start |-> Value(Batch(w)[i])]

JobInv ==
  /\ CacheTrue
  /\ \A w \in Workers : JobOK(pc[w], job[w], scratch[w], dst[w]) /\ DeviceOK(w)

-----------------------------------------------------------------------------
Closing == closed \/ \E v \in Workers : pc[v] = "close"

\* An accelerated generator is inactive for a reason, or it is being closed.
InactiveForReason ==
  life = "running" /\ mode # "cpu" /\ ~ active => failure # None \/ Closing

\* disable has an error to record, and records it before it clears the flag.
ErrorsRecorded ==
  \A w \in Workers :
    /\ pc[w] = "disable" => job[w].err # None
    /\ pc[w] = "deactivate" => failure # None

\* Goroutines have work only once there is a generator; the flag never comes
\* back after a status has seen it cleared, and the reason that status reads
\* afterwards is there unless the generator is being closed.
ReportsTrue ==
  \A w \in Workers :
    /\ pc[w] # "idle" => life = "running"
    /\ pc[w] \in {"status", "reported"} /\ ~ report[w].active => ~ active
    /\ pc[w] = "reported" /\ ~ report[w].active /\ mode # "cpu" =>
         report[w].fallback # None \/ Closing

ReasonInv ==
  /\ InactiveForReason
  /\ ErrorsRecorded
  /\ ReportsTrue

\* The parts of the type invariant: the goroutines and their jobs, and the rest.
Fits(j) ==
  /\ j \in Jobs
  /\ ToSet(j.todo) \subseteq 1 .. Len(j.query)
  /\ j.start <= Len(j.todo)

JobTypes ==
  /\ pc \in [Workers -> PCs]
  /\ job \in [Workers -> Jobs]
  /\ \A w \in Workers : Fits(job[w])
  /\ scratch \in [Workers -> Seq(Slots)]
  /\ dst \in [Workers -> Seq(Slots)]

StateTypes ==
  /\ life \in {"none", "running"}
  /\ mode \in Modes
  /\ backend \in BOOLEAN
  /\ active \in BOOLEAN
  /\ failure \in Reasons \cup {None}
  /\ mu \in Workers \cup {None}
  /\ closed \in BOOLEAN
  /\ input \in [Kinds -> Seq(Points)]
  /\ output \in [Kinds -> Seq(Slots)]
  /\ cache \in [Points -> Slots]
  /\ report \in [Workers -> [active : BOOLEAN, fallback : Reasons \cup {None}]]
  /\ faults \in 0 .. MaxFaults

IInv ==
  /\ StateTypes
  /\ JobTypes
  /\ JobInv
  /\ ReasonInv

-----------------------------------------------------------------------------
\* The value of a point is a value, and not nil.
LEMMA Values ==
  ASSUME NEW p \in Points
  PROVE  Value(p) \in Slots /\ Value(p) # None
BY NoneAssumption DEF Slots

\* What a job that fits is made of.
LEMMA FitParts ==
  ASSUME NEW j, Fits(j)
  PROVE  /\ j.kind \in Kinds
         /\ j.query \in Seq(Points)
         /\ Len(j.query) \in Nat
         /\ \A i \in 1 .. Len(j.query) : j.query[i] \in Points
         /\ j.todo \in Seq(Nat)
         /\ Len(j.todo) \in Nat
         /\ \A n \in 1 .. Len(j.todo) : j.todo[n] \in 1 .. Len(j.query)
         /\ j.start \in Nat
         /\ j.start <= Len(j.todo)
         /\ j.err \in Reasons \cup {None}
<1>1. j \in Jobs
  BY DEF Fits
<1>2. /\ j.kind \in Kinds
      /\ j.query \in Seq(Points)
      /\ j.todo \in Seq(Nat)
      /\ j.start \in Nat
      /\ j.err \in Reasons \cup {None}
  BY <1>1 DEF Jobs
<1>3. /\ Len(j.query) \in Nat
      /\ \A i \in 1 .. Len(j.query) : j.query[i] \in Points
      /\ Len(j.todo) \in Nat
      /\ DOMAIN j.todo = 1 .. Len(j.todo)
  BY <1>2, LenProperties
<1>4. \A n \in 1 .. Len(j.todo) : j.todo[n] \in 1 .. Len(j.query)
  BY <1>3 DEF Fits, ToSet
<1> QED
  BY <1>2, <1>3, <1>4 DEF Fits

\* A job that has moved on its list still fits, and its points are the same.
LEMMA StartMoved ==
  ASSUME NEW j, Fits(j), NEW n \in Nat, n <= Len(j.todo)
  PROVE  /\ Fits([j EXCEPT !.start = n])
         /\ [j EXCEPT !.start = n].start = n
         /\ [j EXCEPT !.start = n].query = j.query
         /\ [j EXCEPT !.start = n].todo = j.todo
         /\ [j EXCEPT !.start = n].kind = j.kind
         /\ [j EXCEPT !.start = n].err = j.err
BY DEF Fits, Jobs

\* So does a job that has got an error.
LEMMA ErrorSet ==
  ASSUME NEW j, Fits(j), NEW e \in Reasons
  PROVE  /\ Fits([j EXCEPT !.err = e])
         /\ [j EXCEPT !.err = e].start = j.start
         /\ [j EXCEPT !.err = e].query = j.query
         /\ [j EXCEPT !.err = e].todo = j.todo
         /\ [j EXCEPT !.err = e].kind = j.kind
         /\ [j EXCEPT !.err = e].err = e
BY DEF Fits, Jobs

\* Answering the next point of the list (store, and the CPU): the job has one
\* point less to answer, or it is done.
LEMMA PointAnswered ==
  ASSUME NEW j, Fits(j), NEW d \in Seq(Slots), NEW label \in Answering,
         PointsListed(label, j, d), j.start < Len(j.todo)
  PROVE  LET i == j.start + 1
             index == j.todo[i]
             e == [d EXCEPT ![index] = Value(j.query[index])]
             k == [j EXCEPT !.start = i]
         IN /\ e \in Seq(Slots)
            /\ index \in 1 .. Len(j.query)
            /\ Fits(k)
            /\ i = Len(j.todo) => AnswersDone("done", k, e)
            /\ i # Len(j.todo) => PointsListed(label, k, e) /\ k.start < Len(k.todo)
<1> DEFINE i == j.start + 1
           index == j.todo[i]
           e == [d EXCEPT ![index] = Value(j.query[index])]
           k == [j EXCEPT !.start = i]
<1>1. /\ j.start \in Nat
      /\ Len(j.todo) \in Nat
      /\ Len(j.query) \in Nat
      /\ i \in 1 .. Len(j.todo)
      /\ index \in 1 .. Len(j.query)
      /\ j.query[index] \in Points
  <2>1. j.start \in Nat /\ Len(j.todo) \in Nat /\ Len(j.query) \in Nat
    BY FitParts
  <2>2. i \in 1 .. Len(j.todo)
    BY <2>1
  <2>3. index \in 1 .. Len(j.query)
    BY <2>2, FitParts
  <2> QED
    BY <2>1, <2>2, <2>3, FitParts
<1>2. /\ Len(d) = Len(j.query)
      /\ \A h \in 1 .. Len(j.query) :
           \/ d[h] = Value(j.query[h])
           \/ \E n \in 1 .. Len(j.todo) : n > j.start /\ j.todo[n] = h
  BY DEF PointsListed, AnsweredPoints, Answering, Listed
<1>3. Fits(k) /\ k.start = i /\ k.query = j.query /\ k.todo = j.todo
  BY <1>1, StartMoved
<1> HIDE DEF k
<1>4. /\ e \in Seq(Slots)
      /\ Len(e) = Len(d)
      /\ e[index] = Value(j.query[index])
      /\ \A h \in 1 .. Len(d) : h # index => e[h] = d[h]
  BY <1>1, <1>2, Values, ElementReplaced
<1> HIDE DEF e, index
<1>5. \A n \in 1 .. Len(j.todo) : n > j.start => n = i \/ n > i
  BY <1>1
<1>6. \A h \in 1 .. Len(j.query) :
           \/ e[h] = Value(j.query[h])
           \/ \E n \in 1 .. Len(j.todo) : n > i /\ j.todo[n] = h
  BY <1>1, <1>2, <1>4, <1>5 DEF index
<1>7. ASSUME i = Len(j.todo) PROVE AnswersDone("done", k, e)
  <2>1. \A h \in 1 .. Len(j.query) : e[h] = Value(j.query[h])
    BY <1>6, <1>7, <1>1
  <2>2. e = [h \in 1 .. Len(e) |-> e[h]]
    BY <1>4
  <2> QED
    BY <2>1, <2>2, <1>2, <1>3, <1>4 DEF AnswersDone
<1>8. ASSUME i # Len(j.todo) PROVE PointsListed(label, k, e) /\ k.start < Len(k.todo)
  <2>1. AnsweredPoints(label, k) = i /\ Len(k.todo) > 0 /\ k.start < Len(k.todo)
    BY <1>1, <1>3, <1>8 DEF AnsweredPoints
  <2> QED
    BY <2>1, <1>2, <1>3, <1>4, <1>6 DEF PointsListed
<1> QED
  BY <1>1, <1>3, <1>4, <1>7, <1>8 DEF e, k, index

-----------------------------------------------------------------------------
\* A step of one goroutine, which leaves it at a label with a job, what it has
\* read and its answer. Who is at the device keeps it.
Moves(w, label, j, s, d) ==
  /\ pc' = [pc EXCEPT ![w] = label]
  /\ job' = [job EXCEPT ![w] = j]
  /\ scratch' = [scratch EXCEPT ![w] = s]
  /\ dst' = [dst EXCEPT ![w] = d]

LEMMA JobStep ==
  ASSUME JobTypes, JobInv, NEW w \in Workers,
         NEW label \in PCs, NEW j, NEW s \in Seq(Slots), NEW d \in Seq(Slots),
         Moves(w, label, j, s, d),
         Fits(j), JobOK(label, j, s, d), DeviceOK(w)', CacheTrue',
         \A v \in Workers \ {w} : OnDevice(v) => UNCHANGED device
  PROVE  JobTypes' /\ JobInv'
<1>1. j \in Jobs
  BY DEF Fits
<1>2. /\ pc'[w] = label
      /\ job'[w] = j
      /\ scratch'[w] = s
      /\ dst'[w] = d
      /\ \A v \in Workers \ {w} : /\ pc'[v] = pc[v]
                                  /\ job'[v] = job[v]
                                  /\ scratch'[v] = scratch[v]
                                  /\ dst'[v] = dst[v]
  BY DEF JobTypes, Moves
<1>3. JobTypes'
  <2>1. pc' \in [Workers -> PCs]
    BY DEF JobTypes, Moves
  <2>2. job' \in [Workers -> Jobs]
    BY <1>1 DEF JobTypes, Moves
  <2>3. scratch' \in [Workers -> Seq(Slots)]
    BY DEF JobTypes, Moves
  <2>4. dst' \in [Workers -> Seq(Slots)]
    BY DEF JobTypes, Moves
  <2>5. \A v \in Workers : Fits(job'[v])
    BY <1>2 DEF JobTypes
  <2> QED
    BY <2>1, <2>2, <2>3, <2>4, <2>5 DEF JobTypes
<1>4. ASSUME NEW v \in Workers PROVE JobOK(pc[v], job[v], scratch[v], dst[v])'
  <2>1. CASE v = w
    BY <2>1, <1>2
  <2>2. CASE v # w
    BY <2>2, <1>2 DEF JobInv
  <2> QED
    BY <2>1, <2>2
<1>5. ASSUME NEW v \in Workers, v # w PROVE DeviceOK(v)'
  <2>1. pc'[v] = pc[v] /\ job'[v] = job[v] /\ DeviceOK(v)
    BY <1>2, <1>5 DEF JobInv
  <2>2. CASE OnDevice(v)
    BY <2>1, <2>2, <1>5 DEF DeviceOK, OnDevice, device, Batch, BatchEnd
  <2>3. CASE ~ OnDevice(v)
    BY <2>1, <2>3 DEF DeviceOK, OnDevice
  <2> QED
    BY <2>2, <2>3
<1> QED
  BY <1>3, <1>4, <1>5 DEF JobInv

\* The buffers and the mutex are one goroutine's while it is at the device.
LEMMA OneAtDevice ==
  ASSUME JobInv, NEW w \in Workers, OnDevice(w), NEW v \in Workers, v # w
  PROVE  ~ OnDevice(v)
BY DEF JobInv, DeviceOK

\* A goroutine and its job before a step.
LEMMA JobParts ==
  ASSUME JobTypes, JobInv, NEW w \in Workers
  PROVE  /\ pc[w] \in PCs
         /\ Fits(job[w])
         /\ scratch[w] \in Seq(Slots)
         /\ dst[w] \in Seq(Slots)
         /\ JobOK(pc[w], job[w], scratch[w], dst[w])
         /\ DeviceOK(w)
         /\ CacheTrue
BY DEF JobTypes, JobInv

\* A goroutine that is not at the device has nothing to keep there.
LEMMA AwayFromDevice ==
  ASSUME NEW w \in Workers, pc'[w] \notin AtDevice
  PROVE  DeviceOK(w)'
BY DEF DeviceOK, OnDevice, AtDevice

\* Nor is there more to say of a job that is over.
LEMMA JobOver ==
  ASSUME NEW label, label \notin Listed \cup {"look", "done"}, NEW j, NEW s, NEW d
  PROVE  JobOK(label, j, s, d)
BY DEF JobOK, Looking, PointsListed, Starts, ScratchTrue, AnswersDone, Listed, AtDevice, Answering

-----------------------------------------------------------------------------
\* The next point of the list is answered by the device or by the CPU.
LEMMA AnswerKeepsJobs ==
  ASSUME JobTypes, JobInv, StateTypes, NEW w \in Workers, pc[w] \in Answering,
         UNCHANGED <<device, scratch>>,
         job' = [job EXCEPT ![w].start = job[w].start + 1],
         dst' = [dst EXCEPT ![w][job[w].todo[job[w].start + 1]] =
                   Value(job[w].query[job[w].todo[job[w].start + 1]])],
         Goto(w, IF job[w].start + 1 = Len(job[w].todo) THEN "done" ELSE pc[w]),
         \/ cache' = cache
         \/ LET p == job[w].query[job[w].todo[job[w].start + 1]] IN
              cache' = [cache EXCEPT ![p] = Value(p)]
  PROVE  JobTypes' /\ JobInv' /\ cache' \in [Points -> Slots]
<1> DEFINE j == job[w]
           i == j.start + 1
           index == j.todo[i]
           e == [dst[w] EXCEPT ![index] = Value(j.query[index])]
           k == [j EXCEPT !.start = i]
           label == IF i = Len(j.todo) THEN "done" ELSE pc[w]
<1>1. /\ pc[w] \in PCs
      /\ Fits(j)
      /\ scratch[w] \in Seq(Slots)
      /\ dst[w] \in Seq(Slots)
      /\ JobOK(pc[w], j, scratch[w], dst[w])
      /\ CacheTrue
  BY JobParts
<1>2. PointsListed(pc[w], j, dst[w]) /\ j.start < Len(j.todo)
  BY <1>1 DEF JobOK, Starts, Answering
<1>3. /\ e \in Seq(Slots)
      /\ index \in 1 .. Len(j.query)
      /\ Fits(k)
      /\ i = Len(j.todo) => AnswersDone("done", k, e)
      /\ i # Len(j.todo) => PointsListed(pc[w], k, e) /\ k.start < Len(k.todo)
  BY <1>1, <1>2, PointAnswered
<1>4. Moves(w, label, k, scratch[w], e)
  <2>1. pc' = [pc EXCEPT ![w] = label]
    BY DEF Goto
  <2>2. job' = [job EXCEPT ![w] = k]
    OBVIOUS
  <2>3. scratch' = [scratch EXCEPT ![w] = scratch[w]]
    BY DEF JobTypes
  <2>4. dst' = [dst EXCEPT ![w] = e]
    OBVIOUS
  <2> QED
    BY <2>1, <2>2, <2>3, <2>4 DEF Moves
<1>5. k.todo = j.todo /\ k.query = j.query
  BY <1>1, <1>3 DEF Fits, Jobs
<1>6. j.query[index] \in Points
  BY <1>1, <1>3, FitParts
<1>7. cache' \in [Points -> Slots] /\ CacheTrue'
  <2> DEFINE p == j.query[index]
  <2>1. cache' = cache \/ cache' = [cache EXCEPT ![p] = Value(p)]
    OBVIOUS
  <2>2. p \in Points /\ Value(p) \in Slots
    BY <1>6, Values
  <2> HIDE DEF p
  <2> QED
    BY <1>1, <2>1, <2>2 DEF CacheTrue, StateTypes
<1> HIDE DEF e, index, k
<1>8. label \in PCs /\ label \notin AtDevice
  BY <1>1 DEF Answering, AtDevice, PCs
<1>9. JobOK(label, k, scratch[w], e)
  <2>1. CASE i = Len(j.todo)
    BY <2>1, <1>3
       DEF JobOK, Looking, PointsListed, Starts, ScratchTrue, AnswersDone, Listed, AtDevice, Answering
  <2>2. CASE i # Len(j.todo)
    <3>1. label = pc[w] /\ label \in {"store", "scalar"}
      BY <2>2 DEF Answering
    <3>2. ScratchTrue(label, k, scratch[w])
      BY <1>1, <1>5, <3>1 DEF JobOK, ScratchTrue, ReadPoints, AtDevice
    <3>3. Looking(label, k, e) /\ AnswersDone(label, k, e)
      BY <3>1 DEF Looking, AnswersDone
    <3>4. Starts(label, k)
      BY <3>1, <1>3, <2>2 DEF Starts
    <3> QED
      BY <3>1, <3>2, <3>3, <3>4, <1>3, <2>2 DEF JobOK
  <2> QED
    BY <2>1, <2>2
<1> HIDE DEF label, i
<1>10. DeviceOK(w)'
  <2>1. pc'[w] = label
    BY <1>4 DEF Moves, JobTypes
  <2> QED
    BY <2>1, <1>8, AwayFromDevice
<1> QED
  BY <1>1, <1>3, <1>4, <1>7, <1>8, <1>9, <1>10, JobStep

\* A step of the goroutine that changes nothing of its job but where it is.
LEMMA OnlyMoves ==
  ASSUME JobTypes, NEW w \in Workers, NEW label \in PCs,
         Goto(w, label), UNCHANGED <<job, scratch, dst>>
  PROVE  Moves(w, label, job[w], scratch[w], dst[w])
BY DEF JobTypes, Goto, Moves

\* A job starts with a list of all of its points, or with a look into the cache.
LEMMA AskKeepsJobs ==
  ASSUME JobTypes, JobInv, NEW w \in Workers, NEW kind \in Kinds,
         NEW query \in Seq(Points) \ {<<>>}, Ask(w, kind, query)
  PROVE  JobTypes' /\ JobInv'
<1> DEFINE n == Len(query)
           all == [i \in 1 .. n |-> i]
           batched == kind = "biomes" /\ backend /\ active /\ n >= MinBatch
           todo == IF batched THEN <<>> ELSE all
           j == [kind |-> kind, query |-> query, start |-> 0, err |-> None, todo |-> todo]
           d == IF batched THEN <<>> ELSE Unsampled(n)
           label == IF batched THEN "look" ELSE IF kind = "biomes" THEN "scalar" ELSE "consult"
<1>1. Moves(w, label, j, <<>>, d) /\ UNCHANGED <<device, cache>>
  BY DEF Ask, Moves, Goto
<1>2. n \in Nat \ {0}
  BY LenProperties, EmptySeq
<1>3. all \in Seq(Nat) /\ Len(all) = n /\ \A i \in 1 .. n : all[i] = i
  <2>1. all \in [1 .. n -> Nat]
    BY <1>2
  <2> QED
    BY <1>2, <2>1, FunctionAsSeq
<1>4. Unsampled(n) \in Seq(Slots) /\ Len(Unsampled(n)) = n
  <2>1. Unsampled(n) \in [1 .. n -> Slots]
    BY DEF Unsampled, Slots
  <2> QED
    BY <1>2, <2>1, FunctionAsSeq
<1>5. label \in PCs /\ label \notin AtDevice
  BY DEF PCs, AtDevice
<1>6. /\ todo \in Seq(Nat)
      /\ ToSet(todo) \subseteq 1 .. n
      /\ 0 <= Len(todo)
      /\ d \in Seq(Slots)
  <2>1. CASE batched
    BY <2>1, <1>2, EmptySeq DEF ToSet
  <2>2. CASE ~ batched
    <3>1. DOMAIN all = 1 .. n
      OBVIOUS
    <3> HIDE DEF all
    <3>2. \A i \in 1 .. n : all[i] \in 1 .. n
      BY <1>3
    <3>3. ToSet(all) \subseteq 1 .. n
      BY <3>1, <3>2 DEF ToSet
    <3>4. todo = all /\ d = Unsampled(n)
      BY <2>2
    <3> QED
      BY <3>3, <3>4, <1>2, <1>3, <1>4
  <2> QED
    BY <2>1, <2>2
<1>7. Fits(j)
  BY <1>6 DEF Fits, Jobs
<1>8. JobOK(label, j, <<>>, d)
  <2>1. CASE batched
    <3>1. label = "look" /\ d = <<>> /\ todo = <<>> /\ Len(<<>>) = 0
      BY <2>1
    <3>2. Looking(label, j, d)
      <4>1. j.todo = <<>> /\ j.query = query /\ j.start = 0
        BY <3>1
      <4>2. ToSet(<<>>) = {} /\ 1 .. 0 = {} /\ 0 < n
        BY <1>2 DEF ToSet
      <4> HIDE DEF j
      <4> QED
        BY <3>1, <4>1, <4>2 DEF Looking
    <3> QED
      BY <3>1, <3>2
         DEF JobOK, PointsListed, Starts, ScratchTrue, AnswersDone, Listed, AtDevice, Answering
  <2>2. CASE ~ batched
    <3>1. label \in {"scalar", "consult"} /\ d = Unsampled(n) /\ todo = all
      BY <2>2
    <3>2. PointsListed(label, j, d)
      <4>1. AnsweredPoints(label, j) = 0
        BY DEF AnsweredPoints
      <4>2. \A i \in 1 .. n : i > 0 /\ all[i] = i
        BY <1>3
      <4>3. j.todo = all /\ j.query = query
        BY <3>1
      <4> HIDE DEF j, d, all
      <4>4. Len(d) = n /\ Len(all) > 0
        BY <3>1, <1>2, <1>3, <1>4
      <4>5. \A i \in 1 .. n : \E m \in 1 .. n : m > 0 /\ all[m] = i
        BY <4>2
      <4> QED
        BY <4>1, <4>3, <4>4, <4>5, <1>3 DEF PointsListed
    <3>3. Starts(label, j)
      BY <3>1, <1>2, <1>3 DEF Starts
    <3> QED
      BY <3>1, <3>2, <3>3 DEF JobOK, Looking, ScratchTrue, AnswersDone, AtDevice
  <2> QED
    BY <2>1, <2>2
<1> HIDE DEF j, d, label
<1>9. <<>> \in Seq(Slots)
  BY EmptySeq
<1>10. DeviceOK(w)' /\ CacheTrue'
  <2>1. pc'[w] = label
    BY <1>1 DEF Moves, JobTypes
  <2> QED
    BY <2>1, <1>1, <1>5, AwayFromDevice DEF JobInv, CacheTrue
<1> QED
  BY <1>1, <1>5, <1>6, <1>7, <1>8, <1>9, <1>10, JobStep

\* What is true of the answer so far when GetBiomes looks at the next point: a
\* point it finds is true, a point it misses is listed.
LEMMA NextLooked ==
  ASSUME NEW j, Fits(j), NEW d \in Seq(Slots), Looking("look", j, d),
         NEW found \in {None, Value(j.query[Len(d) + 1])}
  PROVE  LET i == Len(d) + 1
             todo == IF found = None THEN Append(j.todo, i) ELSE j.todo
             k == [j EXCEPT !.todo = todo]
             e == Append(d, found)
         IN /\ e \in Seq(Slots)
            /\ Fits(k)
            /\ i < Len(j.query) => Looking("look", k, e)
            /\ i >= Len(j.query) /\ todo = <<>> => AnswersDone("done", k, e)
            /\ i >= Len(j.query) /\ todo # <<>> => PointsListed("consult", k, e) /\ k.start = 0
<1> DEFINE i == Len(d) + 1
           todo == IF found = None THEN Append(j.todo, i) ELSE j.todo
           k == [j EXCEPT !.todo = todo]
           e == Append(d, found)
<1>1. /\ Len(d) \in Nat
      /\ Len(d) < Len(j.query)
      /\ Len(j.query) \in Nat
      /\ i \in 1 .. Len(j.query)
      /\ j.start = 0
      /\ ToSet(j.todo) \subseteq 1 .. Len(d)
      /\ \A h \in 1 .. Len(d) :
           d[h] = Value(j.query[h]) \/ \E n \in 1 .. Len(j.todo) : j.todo[n] = h
  <2>1. Len(d) \in Nat /\ Len(j.query) \in Nat
    BY FitParts, LenProperties
  <2> QED
    BY <2>1 DEF Looking
<1>2. j \in Jobs /\ j.todo \in Seq(Nat) /\ Len(j.todo) \in Nat
  BY FitParts DEF Fits
<1>3. found \in Slots
  BY <1>1, FitParts, Values DEF Slots
<1>4. /\ e \in Seq(Slots)
      /\ Len(e) = i
      /\ \A h \in 1 .. Len(d) : e[h] = d[h]
      /\ e[i] = found
  BY <1>3, AppendProperties
<1> HIDE DEF e
<1>5. /\ todo \in Seq(Nat)
      /\ Len(todo) \in Nat
      /\ ToSet(todo) \subseteq 1 .. i
      /\ \A n \in 1 .. Len(j.todo) : n \in 1 .. Len(todo) /\ todo[n] = j.todo[n]
      /\ found = None => Len(todo) \in 1 .. Len(todo) /\ todo[Len(todo)] = i
  <2>1. CASE found # None
    BY <2>1, <1>1, <1>2
  <2>2. CASE found = None
    <3> DEFINE t == Append(j.todo, i)
    <3>1. /\ t \in Seq(Nat)
          /\ Len(t) = Len(j.todo) + 1
          /\ \A n \in 1 .. Len(j.todo) : t[n] = j.todo[n]
          /\ t[Len(j.todo) + 1] = i
      BY <1>1, <1>2, AppendProperties
    <3>2. todo = t
      BY <2>2
    <3> HIDE DEF t, todo
    <3>3. DOMAIN t = 1 .. Len(j.todo) + 1 /\ DOMAIN j.todo = 1 .. Len(j.todo)
      BY <3>1, <1>2, LenProperties
    <3>4. \A n \in 1 .. Len(j.todo) + 1 : n \in 1 .. Len(j.todo) \/ n = Len(j.todo) + 1
      BY <1>2
    <3>5. \A n \in 1 .. Len(j.todo) + 1 : t[n] \in 1 .. i
      <4>1. \A n \in 1 .. Len(j.todo) : j.todo[n] \in 1 .. Len(d)
        BY <3>3, <1>1 DEF ToSet
      <4>2. \A h \in 1 .. Len(d) : h \in 1 .. i
        BY <1>1
      <4>3. i \in 1 .. i
        BY <1>1
      <4> QED
        BY <4>1, <4>2, <4>3, <3>1, <3>4
    <3>6. ToSet(t) \subseteq 1 .. i
      BY <3>3, <3>5 DEF ToSet
    <3> QED
      BY <3>1, <3>2, <3>6, <1>2
  <2> QED
    BY <2>1, <2>2
<1> HIDE DEF todo
<1>6. Fits(k) /\ k.query = j.query /\ k.todo = todo /\ k.start = 0
  <2>1. k \in Jobs /\ k.query = j.query /\ k.todo = todo /\ k.start = j.start
    BY <1>2, <1>5 DEF Jobs
  <2> QED
    BY <2>1, <1>1, <1>5 DEF Fits
<1> HIDE DEF k
<1>7. \A h \in 1 .. i : e[h] = Value(j.query[h]) \/ \E n \in 1 .. Len(todo) : todo[n] = h
  <2>1. \A h \in 1 .. i : h \in 1 .. Len(d) \/ h = i
    BY <1>1
  <2>2. e[i] = Value(j.query[i]) \/ \E n \in 1 .. Len(todo) : todo[n] = i
    <3>1. CASE found = None
      BY <3>1, <1>5
    <3>2. CASE found # None
      BY <3>2, <1>4
    <3> QED
      BY <3>1, <3>2
  <2>3. \A h \in 1 .. Len(d) : e[h] = Value(j.query[h]) \/ \E n \in 1 .. Len(todo) : todo[n] = h
    BY <1>1, <1>4, <1>5, ZenonT(40)
  <2> QED
    BY <2>1, <2>2, <2>3
<1>8. i < Len(j.query) => Looking("look", k, e)
  BY <1>1, <1>4, <1>5, <1>6, <1>7 DEF Looking
<1>9. ASSUME i >= Len(j.query), todo = <<>> PROVE AnswersDone("done", k, e)
  <2>1. i = Len(j.query)
    BY <1>1, <1>9
  <2>2. \A h \in 1 .. i : e[h] = Value(j.query[h])
    BY <1>7, <1>9
  <2>3. e = [h \in 1 .. Len(e) |-> e[h]]
    BY <1>4
  <2> QED
    BY <2>1, <2>2, <2>3, <1>4, <1>6 DEF AnswersDone
<1>10. ASSUME i >= Len(j.query), todo # <<>> PROVE PointsListed("consult", k, e)
  <2>1. i = Len(j.query) /\ Len(todo) > 0
    BY <1>1, <1>5, <1>10, EmptySeq
  <2>2. AnsweredPoints("consult", k) = 0
    BY DEF AnsweredPoints, Answering
  <2>3. \A n \in 1 .. Len(todo) : n > 0
    BY <1>5
  <2> QED
    BY <2>1, <2>2, <2>3, <1>4, <1>6, <1>7 DEF PointsListed
<1> QED
  BY <1>4, <1>6, <1>8, <1>9, <1>10 DEF e, k, todo

\* GetBiomes looks a point up.
LEMMA LookKeepsJobs ==
  ASSUME JobTypes, JobInv, NEW w \in Workers, Look(w)
  PROVE  JobTypes' /\ JobInv'
<1> DEFINE j == job[w]
           i == Len(dst[w]) + 1
           found == cache[j.query[i]]
           todo == IF found = None THEN Append(j.todo, i) ELSE j.todo
           k == [j EXCEPT !.todo = todo]
           e == Append(dst[w], found)
           label == IF i < Len(j.query) THEN "look" ELSE IF todo = <<>> THEN "done" ELSE "consult"
<1>1. /\ Fits(j)
      /\ scratch[w] \in Seq(Slots)
      /\ dst[w] \in Seq(Slots)
      /\ JobOK(pc[w], j, scratch[w], dst[w])
      /\ CacheTrue
  BY JobParts
<1>2. pc[w] = "look" /\ Looking("look", j, dst[w])
  BY <1>1 DEF Look, JobOK
<1>3. found \in {None, Value(j.query[i])}
  <2>1. Len(dst[w]) \in Nat /\ Len(j.query) \in Nat
    BY <1>1, FitParts, LenProperties
  <2>2. i \in 1 .. Len(j.query)
    BY <1>2, <2>1 DEF Looking
  <2>3. j.query[i] \in Points
    BY <1>1, <2>2, FitParts
  <2> QED
    BY <1>1, <2>3 DEF CacheTrue
<1>4. /\ e \in Seq(Slots)
      /\ Fits(k)
      /\ i < Len(j.query) => Looking("look", k, e)
      /\ i >= Len(j.query) /\ todo = <<>> => AnswersDone("done", k, e)
      /\ i >= Len(j.query) /\ todo # <<>> => PointsListed("consult", k, e) /\ k.start = 0
  BY <1>1, <1>2, <1>3, NextLooked, ZenonT(40)
<1>5. Moves(w, label, k, scratch[w], e) /\ UNCHANGED <<device, cache>>
  <2>1. pc' = [pc EXCEPT ![w] = label]
    BY DEF Look, Goto
  <2>2. job' = [job EXCEPT ![w] = k]
    BY DEF Look
  <2>3. scratch' = [scratch EXCEPT ![w] = scratch[w]]
    BY DEF Look, JobTypes
  <2>4. dst' = [dst EXCEPT ![w] = e]
    BY DEF Look
  <2> QED
    BY <2>1, <2>2, <2>3, <2>4 DEF Moves, Look
<1>6. i \in Nat /\ Len(j.query) \in Nat
  BY <1>1, FitParts, LenProperties
<1> HIDE DEF k, e, todo, found
<1>7. JobOK(label, k, scratch[w], e)
  <2>1. CASE i < Len(j.query)
    BY <2>1, <1>4
       DEF JobOK, PointsListed, Starts, ScratchTrue, AnswersDone, Listed, AtDevice, Answering
  <2>2. CASE i >= Len(j.query) /\ todo = <<>>
    <3>1. label = "done"
      BY <2>2, <1>6
    <3> QED
      BY <2>2, <3>1, <1>4
         DEF JobOK, Looking, PointsListed, Starts, ScratchTrue, Listed, AtDevice, Answering
  <2>3. CASE i >= Len(j.query) /\ todo # <<>>
    <3>1. label = "consult"
      BY <2>3, <1>6
    <3> QED
      BY <2>3, <3>1, <1>4
         DEF JobOK, Looking, Starts, ScratchTrue, AnswersDone, AtDevice, Answering
  <2> QED
    BY <2>1, <2>2, <2>3, <1>6
<1>8. label \in PCs /\ label \notin AtDevice
  BY DEF PCs, AtDevice
<1> HIDE DEF label
<1>9. DeviceOK(w)' /\ CacheTrue'
  <2>1. pc'[w] = label
    BY <1>5 DEF Moves, JobTypes
  <2> QED
    BY <2>1, <1>1, <1>5, <1>8, AwayFromDevice DEF CacheTrue
<1> QED
  BY <1>1, <1>4, <1>5, <1>7, <1>8, <1>9, JobStep

\* A job asks the accelerationState for the device.
LEMMA ConsultKeepsJobs ==
  ASSUME JobTypes, JobInv, NEW w \in Workers, Consult(w)
  PROVE  JobTypes' /\ JobInv'
<1> DEFINE j == job[w]
           label == IF backend /\ active THEN "lock" ELSE "scalar"
           s == Unsampled(Len(j.todo))
<1>1. /\ Fits(j)
      /\ dst[w] \in Seq(Slots)
      /\ JobOK("consult", j, scratch[w], dst[w])
      /\ CacheTrue
  BY JobParts DEF Consult
<1>2. Moves(w, label, j, s, dst[w]) /\ UNCHANGED <<device, cache>>
  BY DEF Consult, Goto, Moves, JobTypes
<1>3. s \in Seq(Slots) /\ Len(s) = Len(j.todo)
  <2>1. s \in [1 .. Len(j.todo) -> Slots]
    BY DEF Unsampled, Slots
  <2>2. Len(j.todo) \in Nat
    BY <1>1, FitParts
  <2> QED
    BY <2>1, <2>2, FunctionAsSeq
<1>4. label \in PCs /\ label \notin AtDevice /\ label \in {"lock", "scalar"}
  BY DEF PCs, AtDevice
<1> HIDE DEF label, s
<1>5. j.start = 0 /\ PointsListed(label, j, dst[w]) /\ 0 < Len(j.todo)
  <2>1. j.start = 0 /\ PointsListed("consult", j, dst[w])
    BY <1>1 DEF JobOK, Starts
  <2>2. AnsweredPoints(label, j) = 0 /\ AnsweredPoints("consult", j) = 0
    BY <2>1 DEF AnsweredPoints, Answering
  <2> QED
    BY <2>1, <2>2 DEF PointsListed, Listed
<1>6. JobOK(label, j, s, dst[w])
  <2>1. ScratchTrue(label, j, s)
    <3>1. label # "store" /\ \A i \in 1 .. Len(j.todo) : ~ (i <= 0)
      BY <1>4
    <3> QED
      BY <3>1, <1>3, <1>5 DEF ScratchTrue, ReadPoints
  <2> QED
    BY <2>1, <1>4, <1>5 DEF JobOK, Looking, Starts, AnswersDone, AtDevice, Answering
<1>7. DeviceOK(w)' /\ CacheTrue'
  <2>1. pc'[w] = label
    BY <1>2 DEF Moves, JobTypes
  <2> QED
    BY <2>1, <1>1, <1>2, <1>4, AwayFromDevice DEF CacheTrue
<1> QED
  BY <1>1, <1>2, <1>3, <1>4, <1>6, <1>7, JobStep

\* A job that could not be done on the device: what it has to do is unchanged.
LEMMA ErrorKeepsJobs ==
  ASSUME JobTypes, JobInv, NEW w \in Workers, pc[w] \in AtDevice \cup {"lock"},
         NEW e \in Reasons, job' = [job EXCEPT ![w].err = e], Goto(w, "disable"),
         UNCHANGED <<scratch, dst, cache>>,
         \A v \in Workers \ {w} : OnDevice(v) => UNCHANGED device
  PROVE  JobTypes' /\ JobInv'
<1> DEFINE j == job[w]
           k == [j EXCEPT !.err = e]
<1>1. /\ Fits(j)
      /\ scratch[w] \in Seq(Slots)
      /\ dst[w] \in Seq(Slots)
      /\ JobOK(pc[w], j, scratch[w], dst[w])
      /\ CacheTrue
  BY JobParts
<1>2. Fits(k) /\ k.query = j.query /\ k.todo = j.todo /\ k.start = j.start
  BY <1>1, ErrorSet
<1>3. Moves(w, "disable", k, scratch[w], dst[w])
  BY DEF Goto, Moves, JobTypes
<1> HIDE DEF k
<1>4. PointsListed("disable", k, dst[w])
  <2>1. PointsListed(pc[w], j, dst[w]) /\ pc[w] \in Listed
    BY <1>1 DEF JobOK, Listed, AtDevice
  <2>2. AnsweredPoints("disable", k) = 0 /\ AnsweredPoints(pc[w], j) = 0
    BY DEF AnsweredPoints, Answering, AtDevice
  <2> QED
    BY <2>1, <2>2, <1>2 DEF PointsListed
<1>5. JobOK("disable", k, scratch[w], dst[w])
  BY <1>4 DEF JobOK, Looking, Starts, ScratchTrue, AnswersDone, AtDevice, Answering
<1>6. DeviceOK(w)' /\ CacheTrue'
  <2>1. pc'[w] = "disable"
    BY <1>3 DEF Moves, JobTypes
  <2> QED
    BY <2>1, <1>1, AwayFromDevice DEF CacheTrue, AtDevice
<1>7. "disable" \in PCs
  BY DEF PCs
<1> QED
  BY <1>1, <1>2, <1>3, <1>5, <1>6, <1>7, JobStep

\* A job gets the device, or finds it closed.
LEMMA LockKeepsJobs ==
  ASSUME JobTypes, JobInv, NoneAssumption, NEW w \in Workers, Lock(w)
  PROVE  JobTypes' /\ JobInv'
<1>1. \A v \in Workers : ~ OnDevice(v)
  BY DEF Lock, JobInv, DeviceOK, NoneAssumption
<1>2. CASE ~ Usable
  <2>1. "closed" \in Reasons /\ pc[w] \in AtDevice \cup {"lock"}
    BY DEF Reasons, Lock
  <2>2. job' = [job EXCEPT ![w].err = "closed"] /\ Goto(w, "disable")
    BY <1>2 DEF Lock
  <2>3. UNCHANGED <<scratch, dst, cache>>
    BY DEF Lock
  <2> QED
    BY <1>1, <2>1, <2>2, <2>3, ErrorKeepsJobs
<1>3. CASE Usable
  <2>1. /\ Fits(job[w])
        /\ scratch[w] \in Seq(Slots)
        /\ dst[w] \in Seq(Slots)
        /\ JobOK("lock", job[w], scratch[w], dst[w])
        /\ CacheTrue
    BY JobParts DEF Lock
  <2>2. Moves(w, "write", job[w], scratch[w], dst[w]) /\ mu' = w /\ ~ closed' /\ UNCHANGED cache
    BY <1>3, OnlyMoves DEF Lock, Usable, HolderAfterLock, PCs
  <2>3. JobOK("write", job[w], scratch[w], dst[w])
    <3>1. PointsListed("lock", job[w], dst[w]) /\ job[w].start = 0
      BY <2>1 DEF JobOK, Starts
    <3>2. PointsListed("write", job[w], dst[w])
      BY <3>1 DEF PointsListed, AnsweredPoints, Answering, Listed
    <3>3. job[w].start < Len(job[w].todo)
      BY <3>1, <3>2 DEF PointsListed, Listed
    <3>4. ScratchTrue("write", job[w], scratch[w])
      BY <2>1 DEF JobOK, ScratchTrue, ReadPoints
    <3> QED
      BY <3>2, <3>3, <3>4 DEF JobOK, Looking, Starts, AnswersDone
  <2>4. DeviceOK(w)' /\ CacheTrue'
    BY <2>1, <2>2 DEF DeviceOK, Moves, JobTypes, CacheTrue
  <2>5. "write" \in PCs
    BY DEF PCs
  <2> QED
    BY <1>1, <2>1, <2>2, <2>3, <2>4, <2>5, JobStep
<1> QED
  BY <1>2, <1>3

\* The batch a job at the device works on.
LEMMA BatchOfJob ==
  ASSUME JobTypes, JobInv, NEW w \in Workers, OnDevice(w)
  PROVE  /\ BatchEnd(w) \in Nat
         /\ job[w].start < BatchEnd(w)
         /\ BatchEnd(w) <= Len(job[w].todo)
         /\ Batch(w) \in Seq(Points)
         /\ Len(Batch(w)) = BatchEnd(w) - job[w].start
         /\ \A i \in 1 .. BatchEnd(w) - job[w].start :
              Batch(w)[i] = job[w].query[job[w].todo[job[w].start + i]]
<1> DEFINE j == job[w]
           n == BatchEnd(w) - j.start
<1>1. Fits(j) /\ j.start < Len(j.todo)
  BY JobParts DEF JobOK, Starts, OnDevice, AtDevice
<1>2. /\ j.start \in Nat
      /\ Len(j.todo) \in Nat
      /\ \A i \in 1 .. Len(j.todo) : j.todo[i] \in 1 .. Len(j.query)
      /\ \A i \in 1 .. Len(j.query) : j.query[i] \in Points
  BY <1>1, FitParts
<1>3. BatchEnd(w) \in Nat /\ j.start < BatchEnd(w) /\ BatchEnd(w) <= Len(j.todo)
  BY <1>1, <1>2, BatchAssumption DEF BatchEnd
<1>4. n \in Nat /\ \A i \in 1 .. n : j.start + i \in 1 .. Len(j.todo)
  BY <1>2, <1>3, SMTT(30)
<1>5. Batch(w) = [i \in 1 .. n |-> j.query[j.todo[j.start + i]]]
  BY DEF Batch
<1> HIDE DEF n, j
<1>6. Batch(w) \in [1 .. n -> Points]
  BY <1>2, <1>4, <1>5
<1>7. Batch(w) \in Seq(Points) /\ Len(Batch(w)) = n
  BY <1>4, <1>6, FunctionAsSeq
<1> QED
  BY <1>3, <1>5, <1>7 DEF n, j

\* The values the device computes for a batch.
LEMMA ValuesOf ==
  ASSUME NEW in \in Seq(Points)
  PROVE  [i \in 1 .. Len(in) |-> Value(in[i])] \in Seq(Slots)
<1>1. Len(in) \in Nat /\ \A i \in 1 .. Len(in) : in[i] \in Points
  BY LenProperties
<1>2. [i \in 1 .. Len(in) |-> Value(in[i])] \in [1 .. Len(in) -> Slots]
  BY <1>1, Values
<1> QED
  BY <1>1, <1>2, FunctionAsSeq

\* Between two calls of the device a job goes on with what it has.
LEMMA AtDeviceMoves ==
  ASSUME NEW from \in AtDevice, NEW to \in AtDevice, NEW j, NEW s, NEW d, JobOK(from, j, s, d)
  PROVE  JobOK(to, j, s, d)
<1>1. /\ from \notin {"look", "done", "store", "consult", "lock"}
      /\ to \notin {"look", "done", "store", "consult", "lock"}
      /\ from \in Listed /\ to \in Listed
      /\ from \notin Answering /\ to \notin Answering
  BY DEF AtDevice, Listed, Answering
<1>2. PointsListed(from, j, d) /\ Starts(from, j) /\ ScratchTrue(from, j, s)
  BY DEF JobOK
<1>3. PointsListed(to, j, d)
  BY <1>1, <1>2 DEF PointsListed, AnsweredPoints
<1>4. Starts(to, j) /\ ScratchTrue(to, j, s)
  BY <1>1, <1>2 DEF Starts, ScratchTrue, ReadPoints
<1> QED
  BY <1>1, <1>3, <1>4 DEF JobOK, Looking, AnswersDone

\* The batch is written to the input buffer.
LEMMA WriteKeepsJobs ==
  ASSUME JobTypes, JobInv, StateTypes, NEW w \in Workers, Write(w)
  PROVE  JobTypes' /\ JobInv' /\ input' \in [Kinds -> Seq(Points)]
<1>1. /\ Fits(job[w])
      /\ scratch[w] \in Seq(Slots)
      /\ dst[w] \in Seq(Slots)
      /\ JobOK("write", job[w], scratch[w], dst[w])
      /\ DeviceOK(w)
      /\ CacheTrue
      /\ OnDevice(w)
  BY JobParts DEF Write, OnDevice
<1>2. Moves(w, "run", job[w], scratch[w], dst[w]) /\ UNCHANGED <<mu, closed, cache, job>>
  BY OnlyMoves DEF Write, PCs
<1>3. Batch(w) \in Seq(Points) /\ job[w].kind \in Kinds
  BY <1>1, BatchOfJob, FitParts
<1>4. input'[job[w].kind] = Batch(w) /\ input' \in [Kinds -> Seq(Points)]
  BY <1>3 DEF Write, StateTypes
<1>5. JobOK("run", job[w], scratch[w], dst[w])
  BY <1>1, AtDeviceMoves DEF AtDevice
<1>6. pc'[w] = "run"
  BY <1>2 DEF Moves, JobTypes
<1>7. Batch(w)' = Batch(w)
  BY <1>2 DEF Batch, BatchEnd
<1>8. DeviceOK(w)'
  BY <1>1, <1>2, <1>4, <1>6, <1>7 DEF DeviceOK, OnDevice
<1>9. CacheTrue'
  BY <1>1, <1>2 DEF CacheTrue
<1>10. \A v \in Workers \ {w} : OnDevice(v) => UNCHANGED device
  BY <1>1, OneAtDevice
<1>11. "run" \in PCs
  BY DEF PCs
<1> QED
  BY <1>1, <1>2, <1>4, <1>5, <1>8, <1>9, <1>10, <1>11, JobStep

\* The kernel runs.
LEMMA RunKeepsJobs ==
  ASSUME JobTypes, JobInv, StateTypes, NEW w \in Workers, Run(w)
  PROVE  JobTypes' /\ JobInv' /\ output' \in [Kinds -> Seq(Slots)]
<1>1. /\ Fits(job[w])
      /\ scratch[w] \in Seq(Slots)
      /\ dst[w] \in Seq(Slots)
      /\ JobOK("run", job[w], scratch[w], dst[w])
      /\ DeviceOK(w)
      /\ CacheTrue
      /\ OnDevice(w)
  BY JobParts DEF Run, OnDevice
<1>2. Moves(w, "read", job[w], scratch[w], dst[w]) /\ UNCHANGED <<mu, closed, cache, job>>
  BY OnlyMoves DEF Run, PCs
<1>3. /\ Batch(w) \in Seq(Points)
      /\ Len(Batch(w)) = BatchEnd(w) - job[w].start
      /\ job[w].kind \in Kinds
      /\ input[job[w].kind] = Batch(w)
  BY <1>1, BatchOfJob, FitParts DEF Run, DeviceOK
<1> DEFINE values == [i \in 1 .. Len(Batch(w)) |-> Value(Batch(w)[i])]
<1>4. output' = [output EXCEPT ![job[w].kind] = values] /\ values \in Seq(Slots)
  BY <1>3, ValuesOf DEF Run
<1>5. values = [i \in 1 .. BatchEnd(w) - job[w].start |-> Value(Batch(w)[i])]
  BY <1>3
<1> HIDE DEF values
<1>6. output'[job[w].kind] = values /\ output' \in [Kinds -> Seq(Slots)]
  BY <1>3, <1>4 DEF StateTypes
<1>7. JobOK("read", job[w], scratch[w], dst[w])
  BY <1>1, AtDeviceMoves DEF AtDevice
<1>8. pc'[w] = "read"
  BY <1>2 DEF Moves, JobTypes
<1>9. Batch(w)' = Batch(w) /\ BatchEnd(w)' = BatchEnd(w) /\ job'[w] = job[w]
  BY <1>2 DEF Batch, BatchEnd
<1>10. DeviceOK(w)'
  <2>1. OnDevice(w)' => mu' = w /\ ~ closed'
    BY <1>1, <1>2 DEF DeviceOK
  <2>2. output'[job'[w].kind]
          = [i \in 1 .. BatchEnd(w)' - job'[w].start |-> Value(Batch(w)'[i])]
    BY <1>5, <1>6, <1>9
  <2> QED
    BY <2>1, <2>2, <1>8 DEF DeviceOK
<1>11. CacheTrue'
  BY <1>1, <1>2 DEF CacheTrue
<1>12. \A v \in Workers \ {w} : OnDevice(v) => UNCHANGED device
  BY <1>1, OneAtDevice
<1>13. "read" \in PCs
  BY DEF PCs
<1> QED
  BY <1>1, <1>2, <1>6, <1>7, <1>10, <1>11, <1>12, <1>13, JobStep

\* The batch is read back; after the last one the mutex is free.
LEMMA ReadKeepsJobs ==
  ASSUME JobTypes, JobInv, NEW w \in Workers, Read(w)
  PROVE  JobTypes' /\ JobInv'
<1> DEFINE j == job[w]
           first == j.start
           last == BatchEnd(w)
           total == Len(j.todo)
           out == output[j.kind]
           s == [i \in DOMAIN scratch[w] |->
                  IF i \in first + 1 .. last
                  THEN IF i - first <= Len(out) THEN out[i - first] ELSE None
                  ELSE scratch[w][i]]
           k == [j EXCEPT !.start = IF last = total THEN 0 ELSE last]
           label == IF last = total THEN "store" ELSE "write"
<1>1. /\ Fits(j)
      /\ scratch[w] \in Seq(Slots)
      /\ dst[w] \in Seq(Slots)
      /\ JobOK("read", j, scratch[w], dst[w])
      /\ DeviceOK(w)
      /\ CacheTrue
      /\ OnDevice(w)
  BY JobParts DEF Read, OnDevice
<1>2. /\ total \in Nat
      /\ first \in Nat
      /\ \A i \in 1 .. total : j.todo[i] \in 1 .. Len(j.query)
      /\ \A i \in 1 .. Len(j.query) : j.query[i] \in Points
  BY <1>1, FitParts
<1>3. /\ last \in Nat
      /\ first < last
      /\ last <= total
      /\ \A i \in 1 .. last - first : Batch(w)[i] = j.query[j.todo[first + i]]
  BY <1>1, BatchOfJob
<1>4. out = [i \in 1 .. last - first |-> Value(Batch(w)[i])]
  BY <1>1 DEF DeviceOK, Read
<1>5. Len(scratch[w]) = total
      /\ \A i \in 1 .. total : i <= first => scratch[w][i] = Value(j.query[j.todo[i]])
  BY <1>1 DEF JobOK, ScratchTrue, AtDevice, ReadPoints
<1>6. Moves(w, label, k, s, dst[w]) /\ UNCHANGED <<closed, cache>>
  <2>1. pc' = [pc EXCEPT ![w] = label]
    BY DEF Read, Goto
  <2>2. job' = [job EXCEPT ![w] = k]
    BY DEF Read
  <2>3. scratch' = [scratch EXCEPT ![w] = s]
    BY DEF Read
  <2>4. dst' = [dst EXCEPT ![w] = dst[w]]
    BY DEF Read, JobTypes
  <2> QED
    BY <2>1, <2>2, <2>3, <2>4 DEF Moves, Read
<1>7. label = "write" => mu' = mu
  BY DEF Read
<1>8. Fits(k) /\ k.todo = j.todo /\ k.query = j.query /\ k.start = IF last = total THEN 0 ELSE last
  <2>1. (IF last = total THEN 0 ELSE last) \in Nat /\ (IF last = total THEN 0 ELSE last) <= total
    BY <1>2, <1>3
  <2> QED
    BY <2>1, <1>1, StartMoved
<1>9. DOMAIN scratch[w] = 1 .. total
  BY <1>1, <1>5, LenProperties
<1>10. ASSUME NEW i \in 1 .. total, i <= last
       PROVE  s[i] = Value(j.query[j.todo[i]])
  <2>1. CASE i <= first
    <3>1. i \notin first + 1 .. last
      BY <2>1, <1>2, <1>3
    <3> QED
      BY <3>1, <2>1, <1>5, <1>9
  <2>2. CASE ~ (i <= first)
    <3>1. /\ i \in first + 1 .. last
          /\ i - first \in 1 .. last - first
          /\ first + (i - first) = i
      BY <2>2, <1>2, <1>3, <1>10
    <3>2. Len(out) = last - first
      BY <1>2, <1>3, <1>4
    <3>3. i - first <= Len(out)
      BY <3>1, <3>2, <1>2, <1>3
    <3>4. out[i - first] = Value(Batch(w)[i - first])
      BY <3>1, <1>4
    <3>5. s[i] = out[i - first]
      BY <3>1, <3>3, <1>9
    <3> QED
      BY <3>1, <3>4, <3>5, <1>3
  <2> QED
    BY <2>1, <2>2
<1>11. s \in Seq(Slots) /\ Len(s) = total
  <2>1. \A i \in 1 .. total : scratch[w][i] \in Slots
    BY <1>1, <1>5, LenProperties
  <2>2. ASSUME NEW i \in 1 .. total PROVE s[i] \in Slots
    <3>1. CASE i <= last
      BY <3>1, <1>2, <1>10, Values
    <3>2. CASE ~ (i <= last)
      BY <3>2, <2>1, <1>2, <1>3, <1>9
    <3> QED
      BY <3>1, <3>2
  <2>3. s \in [1 .. total -> Slots]
    BY <2>2, <1>9
  <2> HIDE DEF s, total
  <2> QED
    BY <2>3, <1>2, FunctionAsSeq
<1>12. PointsListed("read", j, dst[w])
  BY <1>1 DEF JobOK
<1> HIDE DEF s, k
<1>13. JobOK(label, k, s, dst[w])
  <2>1. PointsListed(label, k, dst[w])
    <3>1. AnsweredPoints("read", j) = 0
      BY DEF AnsweredPoints, Answering
    <3>2. AnsweredPoints(label, k) = 0
      BY <1>8 DEF AnsweredPoints, Answering
    <3> QED
      BY <3>1, <3>2, <1>8, <1>12 DEF PointsListed, Listed
  <2>2. Starts(label, k)
    BY <1>2, <1>3, <1>8 DEF Starts, AtDevice, Answering
  <2>3. ScratchTrue(label, k, s)
    <3>1. ASSUME NEW i \in 1 .. total, i <= ReadPoints(label, k) PROVE i <= last
      <4>1. CASE last = total
        BY <4>1, <1>2, <1>3
      <4>2. CASE last # total
        BY <4>2, <3>1, <1>8 DEF ReadPoints
      <4> QED
        BY <4>1, <4>2
    <3> QED
      BY <3>1, <1>8, <1>10, <1>11 DEF ScratchTrue
  <2> QED
    BY <2>1, <2>2, <2>3 DEF JobOK, Looking, AnswersDone
<1>14. DeviceOK(w)' /\ CacheTrue'
  <2>1. pc'[w] = label
    BY <1>6 DEF Moves, JobTypes
  <2> QED
    BY <2>1, <1>1, <1>6, <1>7 DEF CacheTrue, DeviceOK, OnDevice
<1>15. \A v \in Workers \ {w} : OnDevice(v) => UNCHANGED device
  BY <1>1, OneAtDevice
<1>16. label \in PCs
  BY DEF PCs
<1> HIDE DEF label
<1> QED
  BY <1>1, <1>6, <1>8, <1>11, <1>13, <1>14, <1>15, <1>16, JobStep

\* What came from the device is handed over, point by point.
LEMMA StoreKeepsJobs ==
  ASSUME JobTypes, JobInv, StateTypes, NEW w \in Workers, Store(w)
  PROVE  JobTypes' /\ JobInv' /\ cache' \in [Points -> Slots]
<1> DEFINE j == job[w]
           i == j.start + 1
           index == j.todo[i]
           p == j.query[index]
<1>1. Fits(j) /\ JobOK("store", j, scratch[w], dst[w])
  BY JobParts DEF Store
<1>2. i \in 1 .. Len(j.todo)
  <2>1. j.start < Len(j.todo)
    BY <1>1 DEF JobOK, Starts, Answering
  <2>2. j.start \in Nat /\ Len(j.todo) \in Nat
    BY <1>1, FitParts
  <2> QED
    BY <2>1, <2>2
<1>3. scratch[w][i] = Value(p)
  <2>1. i <= Len(j.todo)
    BY <1>1, <1>2, FitParts
  <2> QED
    BY <2>1, <1>1, <1>2 DEF JobOK, ScratchTrue, ReadPoints
<1>4. job' = [job EXCEPT ![w].start = i] /\ UNCHANGED <<device, scratch>>
  BY DEF Store
<1>5. dst' = [dst EXCEPT ![w][index] = Value(p)]
  BY <1>3 DEF Store
<1>6. cache' = cache \/ cache' = [cache EXCEPT ![p] = Value(p)]
  BY <1>3 DEF Store
<1>7. Goto(w, IF i = Len(j.todo) THEN "done" ELSE pc[w])
  BY DEF Store
<1>8. pc[w] \in Answering
  BY DEF Store, Answering
<1> QED
  BY <1>4, <1>5, <1>6, <1>7, <1>8, AnswerKeepsJobs

\* The CPU answers a point, and finds nothing but true values in the cache.
LEMMA ScalarKeepsJobs ==
  ASSUME JobTypes, JobInv, StateTypes, NEW w \in Workers, Scalar(w)
  PROVE  JobTypes' /\ JobInv' /\ cache' \in [Points -> Slots]
<1> DEFINE j == job[w]
           i == j.start + 1
           index == j.todo[i]
           p == j.query[index]
           v == IF j.kind = "biomes" /\ cache[p] # None THEN cache[p] ELSE Value(p)
<1>1. Fits(j) /\ JobOK("scalar", j, scratch[w], dst[w]) /\ CacheTrue
  BY JobParts DEF Scalar
<1>2. i \in 1 .. Len(j.todo)
  <2>1. j.start < Len(j.todo)
    BY <1>1 DEF JobOK, Starts, Answering
  <2>2. j.start \in Nat /\ Len(j.todo) \in Nat
    BY <1>1, FitParts
  <2> QED
    BY <2>1, <2>2
<1>3. p \in Points
  BY <1>1, <1>2, FitParts
<1>4. v = Value(p)
  BY <1>1, <1>3 DEF CacheTrue
<1>5. /\ dst' = [dst EXCEPT ![w][index] = v]
      /\ cache' = IF j.kind = "biomes" THEN [cache EXCEPT ![p] = v] ELSE cache
      /\ job' = [job EXCEPT ![w].start = i]
      /\ Goto(w, IF i = Len(j.todo) THEN "done" ELSE "scalar")
      /\ pc[w] = "scalar"
      /\ UNCHANGED <<device, scratch>>
  BY DEF Scalar
<1> HIDE DEF v
<1>6. dst' = [dst EXCEPT ![w][index] = Value(p)]
  BY <1>4, <1>5
<1>7. cache' = cache \/ cache' = [cache EXCEPT ![p] = Value(p)]
  BY <1>4, <1>5
<1>8. Goto(w, IF i = Len(j.todo) THEN "done" ELSE pc[w]) /\ pc[w] \in Answering
  BY <1>5 DEF Answering
<1> QED
  BY <1>5, <1>6, <1>7, <1>8, AnswerKeepsJobs

\* disable and its two steps leave the job alone; the CPU then starts at the
\* front of the list.
LEMMA DisableKeepsJobs ==
  ASSUME JobTypes, JobInv, NEW w \in Workers, Disable(w) \/ Deactivate(w)
  PROVE  JobTypes' /\ JobInv'
<1> DEFINE j == job[w]
<1>1. /\ Fits(j)
      /\ scratch[w] \in Seq(Slots)
      /\ dst[w] \in Seq(Slots)
      /\ JobOK(pc[w], j, scratch[w], dst[w])
      /\ CacheTrue
      /\ UNCHANGED <<device, cache, scratch, dst>>
  BY JobParts DEF Disable, Deactivate, DisableStep
<1>2. PointsListed(pc[w], j, dst[w]) /\ pc[w] \in {"disable", "deactivate"}
  BY <1>1 DEF JobOK, Disable, Deactivate
<1>3. PointsListed("deactivate", j, dst[w]) /\ j.start \in Nat /\ 0 < Len(j.todo)
  BY <1>1, <1>2, FitParts DEF PointsListed, AnsweredPoints, Answering, Listed
<1>4. CASE Disable(w)
  <2>1. Moves(w, "deactivate", j, scratch[w], dst[w])
    BY <1>1, <1>4, OnlyMoves DEF Disable, PCs
  <2>2. JobOK("deactivate", j, scratch[w], dst[w])
    BY <1>3 DEF JobOK, Looking, Starts, ScratchTrue, AnswersDone, AtDevice, Answering
  <2>3. DeviceOK(w)' /\ CacheTrue'
    BY <1>1, <2>1, AwayFromDevice DEF CacheTrue, Moves, JobTypes, AtDevice
  <2>4. "deactivate" \in PCs
    BY DEF PCs
  <2> QED
    BY <1>1, <2>1, <2>2, <2>3, <2>4, JobStep
<1>5. CASE Deactivate(w)
  <2> DEFINE k == [j EXCEPT !.start = 0]
  <2>1. Moves(w, "scalar", k, scratch[w], dst[w])
    BY <1>1, <1>5 DEF Deactivate, Goto, Moves, JobTypes
  <2>2. Fits(k) /\ k.start = 0 /\ k.query = j.query /\ k.todo = j.todo
    <3>1. 0 \in Nat /\ 0 <= Len(j.todo)
      BY <1>3, <1>1, FitParts
    <3> QED
      BY <3>1, <1>1, StartMoved
  <2> HIDE DEF k
  <2>3. PointsListed("scalar", k, dst[w])
    BY <1>3, <2>2 DEF PointsListed, AnsweredPoints, Answering, Listed
  <2>4. JobOK("scalar", k, scratch[w], dst[w])
    BY <1>3, <2>2, <2>3 DEF JobOK, Looking, Starts, ScratchTrue, AnswersDone, AtDevice
  <2>5. DeviceOK(w)' /\ CacheTrue'
    BY <1>1, <2>1, AwayFromDevice DEF CacheTrue, Moves, JobTypes, AtDevice
  <2>6. "scalar" \in PCs
    BY DEF PCs
  <2> QED
    BY <1>1, <2>1, <2>2, <2>4, <2>5, <2>6, JobStep
<1> QED
  BY <1>4, <1>5

\* A goroutine that has no job any more, or none yet.
LEMMA OverKeepsJobs ==
  ASSUME JobTypes, JobInv, NEW w \in Workers,
         NEW label \in PCs, label \notin Listed \cup {"look", "done"},
         NEW j, Fits(j), NEW s \in Seq(Slots), NEW d \in Seq(Slots),
         Moves(w, label, j, s, d), UNCHANGED cache,
         \A v \in Workers \ {w} : OnDevice(v) => UNCHANGED device
  PROVE  JobTypes' /\ JobInv'
<1>1. JobOK(label, j, s, d)
  BY JobOver
<1>2. DeviceOK(w)'
  BY AwayFromDevice DEF Moves, JobTypes, AtDevice, Listed
<1>3. CacheTrue'
  BY DEF JobInv, CacheTrue
<1> QED
  BY <1>1, <1>2, <1>3, JobStep

\* A job ends.
LEMMA DoneKeepsJobs ==
  ASSUME JobTypes, JobInv, NEW w \in Workers, Done(w)
  PROVE  JobTypes' /\ JobInv'
<1>1. <<>> \in Seq(Slots)
  BY EmptySeq
<1>2. Fits(NoJob)
  BY EmptySeq DEF Fits, Jobs, NoJob, Kinds, ToSet
<1>3. Moves(w, "idle", NoJob, <<>>, <<>>) /\ UNCHANGED <<device, cache>>
  BY DEF Done, Goto, Moves
<1>4. "idle" \in PCs /\ "idle" \notin Listed \cup {"look", "done"}
  BY DEF PCs, Listed
<1> QED
  BY <1>1, <1>2, <1>3, <1>4, OverKeepsJobs

\* Status and Close have no job; Close waits until nobody is at the device.
LEMMA OthersKeepJobs ==
  ASSUME JobTypes, JobInv, NoneAssumption, NEW w \in Workers,
         Status(w) \/ StatusReason(w) \/ Reported(w) \/ Close(w) \/ Release(w)
  PROVE  JobTypes' /\ JobInv'
<1>1. Fits(job[w]) /\ scratch[w] \in Seq(Slots) /\ dst[w] \in Seq(Slots)
  BY JobParts
<1>2. PICK label \in {"status", "reported", "idle", "close"} : Goto(w, label)
  BY DEF Status, StatusReason, Reported, Close, Release
<1>3. label \in PCs /\ label \notin Listed \cup {"look", "done"}
  BY DEF PCs, Listed
<1>4. UNCHANGED <<job, scratch, dst, cache>>
  BY DEF Status, StatusReason, Reported, Close, Release
<1>5. Moves(w, label, job[w], scratch[w], dst[w])
  BY <1>2, <1>3, <1>4, OnlyMoves
<1>6. \A v \in Workers \ {w} : OnDevice(v) => UNCHANGED device
  <2>1. CASE Release(w)
    BY <2>1 DEF Release, JobInv, DeviceOK, NoneAssumption
  <2>2. CASE ~ Release(w)
    BY <2>2 DEF Status, StatusReason, Reported, Close
  <2> QED
    BY <2>1, <2>2
<1> QED
  BY <1>1, <1>3, <1>4, <1>5, <1>6, OverKeepsJobs

\* A call of the device fails.
LEMMA DeviceErrorKeepsJobs ==
  ASSUME JobTypes, JobInv, NEW w \in Workers, DeviceError(w)
  PROVE  JobTypes' /\ JobInv'
<1>1. pc[w] \in AtDevice /\ OnDevice(w) /\ "device" \in Reasons
  BY DEF DeviceError, AtDevice, OnDevice, Reasons
<1>2. \A v \in Workers \ {w} : OnDevice(v) => UNCHANGED device
  BY <1>1, OneAtDevice
<1>3. /\ job' = [job EXCEPT ![w].err = "device"]
      /\ Goto(w, "disable")
      /\ UNCHANGED <<scratch, dst, cache>>
  BY DEF DeviceError
<1> QED
  BY <1>1, <1>2, <1>3, ErrorKeepsJobs

-----------------------------------------------------------------------------
\* A step that leaves the flag, the reason and the reports alone.
LEMMA QuietStep ==
  ASSUME JobTypes, ReasonInv, NEW w \in Workers, NEW label, Goto(w, label),
         UNCHANGED <<life, mode, active, failure, closed, report>>,
         pc[w] # "close", life = "running",
         label \notin {"deactivate", "status", "reported", "close"},
         label = "disable" => job'[w].err # None,
         \A v \in Workers \ {w} : job'[v] = job[v]
  PROVE  ReasonInv'
<1>1. pc'[w] = label /\ \A v \in Workers \ {w} : pc'[v] = pc[v]
  BY DEF Goto, JobTypes
<1>2. Closing => Closing'
  BY <1>1 DEF Closing
<1>3. InactiveForReason'
  BY <1>2 DEF ReasonInv, InactiveForReason
<1>4. ErrorsRecorded'
  BY <1>1 DEF ReasonInv, ErrorsRecorded
<1>5. ReportsTrue'
  BY <1>1, <1>2 DEF ReasonInv, ReportsTrue
<1> QED
  BY <1>3, <1>4, <1>5 DEF ReasonInv

\* A generator starts accelerated, or with the reason why it is not.
LEMMA StartKeepsReasons ==
  ASSUME JobTypes, ReasonInv, NoneAssumption, NEW m \in Modes, NEW usable \in BOOLEAN,
         Start(m, usable)
  PROVE  ReasonInv'
<1>1. \A v \in Workers : pc'[v] = "idle"
  BY DEF Start, ReasonInv, ReportsTrue
<1>2. InactiveForReason'
  <2>1. "unavailable" # None
    BY DEF NoneAssumption, Reasons
  <2> QED
    BY <2>1 DEF Start, InactiveForReason, FallsBack, Modes
<1>3. ErrorsRecorded' /\ ReportsTrue'
  BY <1>1 DEF ErrorsRecorded, ReportsTrue
<1> QED
  BY <1>2, <1>3 DEF ReasonInv

\* disable records the reason, and then clears the flag.
LEMMA DisableKeepsReasons ==
  ASSUME JobTypes, ReasonInv, NEW w \in Workers, Disable(w) \/ Deactivate(w)
  PROVE  ReasonInv'
<1>1. PICK label \in {"deactivate", "scalar"} : Goto(w, label)
  BY DEF Disable, Deactivate
<1>2. pc'[w] = label /\ \A v \in Workers \ {w} : pc'[v] = pc[v]
  BY <1>1 DEF Goto, JobTypes
<1>3. UNCHANGED <<startup, closed, report>> /\ pc[w] \notin {"idle", "close"}
  BY DEF Disable, Deactivate, DisableStep, device
<1>4. failure' # None
  <2>1. CASE Disable(w)
    <3>1. failure' = ReasonKept(job[w].err)
      BY <2>1 DEF Disable, DisableStep, DisableOrder
    <3>2. job[w].err # None
      BY <2>1 DEF Disable, ReasonInv, ErrorsRecorded
    <3> QED
      BY <3>1, <3>2 DEF ReasonKept
  <2>2. CASE Deactivate(w)
    <3>1. failure' = failure
      BY <2>2 DEF Deactivate, DisableStep, DisableOrder
    <3> QED
      BY <3>1, <2>2 DEF Deactivate, ReasonInv, ErrorsRecorded
  <2> QED
    BY <2>1, <2>2
<1>5. \A v \in Workers \ {w} : job'[v] = job[v]
  BY DEF Disable, Deactivate, JobTypes
<1>6. active' => active
  BY DEF Disable, Deactivate, DisableStep
<1>7. Closing' <=> Closing
  BY <1>2, <1>3 DEF Closing
<1>8. InactiveForReason'
  BY <1>4 DEF InactiveForReason
<1>9. ErrorsRecorded'
  BY <1>2, <1>4, <1>5 DEF ReasonInv, ErrorsRecorded
<1>10. ReportsTrue'
  BY <1>2, <1>3, <1>6, <1>7 DEF ReasonInv, ReportsTrue, startup
<1> QED
  BY <1>8, <1>9, <1>10 DEF ReasonInv

\* A status reads the flag, and the reason after it.
LEMMA StatusKeepsReasons ==
  ASSUME JobTypes, StateTypes, ReasonInv, NEW w \in Workers, Status(w) \/ StatusReason(w)
  PROVE  ReasonInv'
<1>1. PICK label \in {"status", "reported"} : Goto(w, label)
  BY DEF Status, StatusReason
<1>2. pc'[w] = label /\ \A v \in Workers \ {w} : pc'[v] = pc[v]
  BY <1>1 DEF Goto, JobTypes
<1>3. UNCHANGED <<startup, active, failure, closed, job>> /\ life = "running"
      /\ pc[w] \in {"idle", "status"}
  BY DEF Status, StatusReason, device, ReasonInv, ReportsTrue
<1>4. Closing => Closing'
  BY <1>2, <1>3 DEF Closing
<1>5. InactiveForReason' /\ ErrorsRecorded'
  BY <1>2, <1>3, <1>4 DEF ReasonInv, InactiveForReason, ErrorsRecorded, startup
<1>6. \A v \in Workers \ {w} : report'[v] = report[v]
  BY DEF Status, StatusReason, StateTypes
<1>7. ASSUME NEW v \in Workers, v # w
      PROVE  /\ pc'[v] # "idle" => life' = "running"
             /\ pc'[v] \in {"status", "reported"} /\ ~ report'[v].active => ~ active'
             /\ pc'[v] = "reported" /\ ~ report'[v].active /\ mode' # "cpu" =>
                  report'[v].fallback # None \/ Closing'
  BY <1>2, <1>3, <1>4, <1>6, <1>7 DEF ReasonInv, ReportsTrue, startup
<1>8. CASE Status(w)
  <2>1. report'[w].active = active /\ pc'[w] = "status"
    BY <1>2, <1>8 DEF Status, StateTypes, Goto, JobTypes
  <2>2. ReportsTrue'
    BY <1>3, <1>7, <2>1 DEF ReportsTrue, startup
  <2> QED
    BY <1>5, <2>2 DEF ReasonInv
<1>9. CASE StatusReason(w)
  <2>1. report'[w].active = report[w].active /\ report'[w].fallback = failure
    BY <1>9 DEF StatusReason, StateTypes
  <2>2. ~ report[w].active => ~ active
    BY <1>9 DEF StatusReason, ReasonInv, ReportsTrue
  <2>3. ~ report[w].active /\ mode # "cpu" => failure # None \/ Closing
    BY <2>2, <1>3 DEF ReasonInv, InactiveForReason
  <2>4. ReportsTrue'
    BY <1>2, <1>3, <1>4, <1>7, <2>1, <2>2, <2>3 DEF ReportsTrue, startup
  <2> QED
    BY <1>5, <2>4 DEF ReasonInv
<1> QED
  BY <1>8, <1>9

\* Closing is a reason of its own.
LEMMA CloseKeepsReasons ==
  ASSUME JobTypes, ReasonInv, NEW w \in Workers, Close(w) \/ Release(w)
  PROVE  ReasonInv'
<1>1. PICK label \in {"close", "idle"} : Goto(w, label)
  BY DEF Close, Release
<1>2. pc'[w] = label /\ \A v \in Workers \ {w} : pc'[v] = pc[v]
  BY <1>1 DEF Goto, JobTypes
<1>3. Closing'
  <2>1. CASE Close(w)
    <3>1. pc'[w] = "close"
      BY <2>1 DEF Close, Goto, JobTypes
    <3> QED
      BY <3>1 DEF Closing
  <2>2. CASE Release(w)
    BY <2>2 DEF Release, Closing
  <2> QED
    BY <2>1, <2>2
<1>4. UNCHANGED <<startup, failure, report, job>> /\ life = "running" /\ (active' => active)
  BY DEF Close, Release, ReasonInv, ReportsTrue
<1>5. InactiveForReason' /\ ErrorsRecorded' /\ ReportsTrue'
  BY <1>2, <1>3, <1>4 DEF ReasonInv, InactiveForReason, ErrorsRecorded, ReportsTrue, startup
<1> QED
  BY <1>5 DEF ReasonInv

\* A report is forgotten.
LEMMA ReportedKeepsReasons ==
  ASSUME JobTypes, StateTypes, ReasonInv, NEW w \in Workers, Reported(w)
  PROVE  ReasonInv'
<1>1. pc'[w] = "idle" /\ \A v \in Workers \ {w} : pc'[v] = pc[v] /\ report'[v] = report[v]
  BY DEF Reported, Goto, JobTypes, StateTypes
<1>2. UNCHANGED <<startup, active, failure, closed, job>> /\ pc[w] = "reported"
  BY DEF Reported, device
<1>3. Closing => Closing'
  BY <1>1, <1>2 DEF Closing
<1>4. InactiveForReason' /\ ErrorsRecorded'
  BY <1>1, <1>2, <1>3 DEF ReasonInv, InactiveForReason, ErrorsRecorded, startup
<1>5. ReportsTrue'
  BY <1>1, <1>2, <1>3 DEF ReasonInv, ReportsTrue, startup
<1> QED
  BY <1>4, <1>5 DEF ReasonInv

-----------------------------------------------------------------------------
\* The type invariant in its two parts.
LEMMA TypeParts == IInv => TypeOK
BY DEF IInv, TypeOK, StateTypes, JobTypes, Fits

\* Nothing has happened yet.
LEMMA InitInductive == Init => IInv
<1> SUFFICES ASSUME Init PROVE IInv
  OBVIOUS
<1> USE DEF Init
<1>1. StateTypes
  <2>1. input \in [Kinds -> Seq(Points)] /\ output \in [Kinds -> Seq(Slots)]
    BY EmptySeq
  <2>2. cache \in [Points -> Slots] /\ mode \in Modes
    BY DEF Slots, Modes
  <2>3. report \in [Workers -> [active : BOOLEAN, fallback : Reasons \cup {None}]]
    BY DEF NoReport
  <2>4. faults \in 0 .. MaxFaults
    BY FaultsAssumption
  <2> QED
    BY <2>1, <2>2, <2>3, <2>4 DEF StateTypes
<1>2. Fits(NoJob) /\ <<>> \in Seq(Slots)
  BY EmptySeq DEF Fits, Jobs, NoJob, Kinds, ToSet
<1>3. JobTypes
  <2>1. NoJob \in Jobs
    BY <1>2 DEF Fits
  <2>2. "idle" \in PCs
    BY DEF PCs
  <2> QED
    BY <1>2, <2>1, <2>2 DEF JobTypes
<1>4. ASSUME NEW w \in Workers PROVE JobOK(pc[w], job[w], scratch[w], dst[w]) /\ DeviceOK(w)
  <2>1. pc[w] = "idle" /\ "idle" \notin Listed \cup {"look", "done"}
    BY DEF Listed
  <2>2. JobOK(pc[w], job[w], scratch[w], dst[w])
    BY <2>1, JobOver
  <2> QED
    BY <2>1, <2>2 DEF DeviceOK, OnDevice
<1>5. JobInv
  BY <1>4 DEF JobInv, CacheTrue
<1>6. ReasonInv
  BY DEF ReasonInv, InactiveForReason, ErrorsRecorded, ReportsTrue
<1> QED
  BY <1>1, <1>3, <1>5, <1>6 DEF IInv

\* newAccelerationState finds the goroutines idle, and leaves them so.
LEMMA StartKeepsIInv ==
  ASSUME IInv, NEW m \in Modes, NEW usable \in BOOLEAN, Start(m, usable)
  PROVE  IInv'
<1>1. JobTypes /\ StateTypes /\ JobInv /\ ReasonInv
  BY DEF IInv
<1>2. UNCHANGED <<device, cache, pc, job, scratch, dst, report, faults>>
  BY DEF Start
<1>3. StateTypes'
  BY <1>1, <1>2 DEF Start, StateTypes, device, Reasons
<1>4. JobTypes' /\ JobInv'
  BY <1>1, <1>2
     DEF JobTypes, JobInv, CacheTrue, DeviceOK, OnDevice, Batch, BatchEnd, device
<1>5. ReasonInv'
  BY <1>1, StartKeepsReasons, NoneAssumption
<1> QED
  BY <1>3, <1>4, <1>5 DEF IInv

\* A job starts.
LEMMA AskKeepsIInv ==
  ASSUME IInv, NEW w \in Workers, NEW kind \in Kinds, NEW query \in Seq(Points) \ {<<>>},
         Ask(w, kind, query)
  PROVE  IInv'
<1>1. JobTypes /\ StateTypes /\ JobInv /\ ReasonInv
  BY DEF IInv
<1>2. UNCHANGED <<startup, active, failure, device, cache, report, faults>>
      /\ life = "running" /\ pc[w] = "idle" /\ \A v \in Workers \ {w} : job'[v] = job[v]
  BY <1>1 DEF Ask, JobTypes
<1>3. StateTypes'
  BY <1>1, <1>2 DEF StateTypes, startup, device
<1>4. JobTypes' /\ JobInv'
  BY <1>1, AskKeepsJobs
<1>5. PICK label \in {"look", "scalar", "consult"} : Goto(w, label)
  BY DEF Ask
<1>6. ReasonInv'
  BY <1>1, <1>2, <1>5, QuietStep DEF startup, device
<1> QED
  BY <1>3, <1>4, <1>6 DEF IInv

\* The device fails no more often than the bound of the model says.
LEMMA OneMoreFault ==
  ASSUME NEW n \in 0 .. MaxFaults, n < MaxFaults
  PROVE  n + 1 \in 0 .. MaxFaults
BY FaultsAssumption

\* The other steps of a job, at the device and on the CPU.
LEMMA WorkKeepsIInv ==
  ASSUME IInv, NEW w \in Workers,
         \/ Look(w) \/ Consult(w) \/ Lock(w) \/ Write(w) \/ Run(w) \/ Read(w)
         \/ Store(w) \/ DeviceError(w) \/ Scalar(w) \/ Done(w)
  PROVE  IInv'
<1> USE DEF Look, Consult, Lock, Write, Run, Read, Store, DeviceError, Scalar, Done
<1>1. JobTypes /\ StateTypes /\ JobInv /\ ReasonInv
  BY DEF IInv
<1>2. /\ UNCHANGED <<startup, active, failure, closed, report>>
      /\ pc[w] \notin {"idle", "close"}
      /\ \A v \in Workers \ {w} : job'[v] = job[v]
  BY <1>1 DEF JobTypes, device
<1>3. PICK label \in {"look", "done", "consult", "lock", "scalar", "write", "run", "read", "store",
                      "idle", "disable"} :
        Goto(w, label)
  OBVIOUS
<1>4. label = "disable" => job'[w].err # None
  <2> SUFFICES ASSUME label = "disable" PROVE job'[w].err # None
    OBVIOUS
  <2>1. pc'[w] = "disable"
    BY <1>1, <1>3 DEF Goto, JobTypes
  <2>2. \E e \in {"closed", "device"} : job' = [job EXCEPT ![w].err = e]
    BY <1>1, <2>1 DEF Goto, JobTypes
  <2>3. "closed" # None /\ "device" # None
    BY NoneAssumption DEF Reasons
  <2> QED
    <3>1. PICK e \in {"closed", "device"} : job' = [job EXCEPT ![w].err = e]
      BY <2>2
    <3>2. Fits(job[w]) /\ e \in Reasons
      BY <1>1 DEF JobTypes, Reasons
    <3>3. [job[w] EXCEPT !.err = e].err = e
      BY <3>2, ErrorSet
    <3>4. job'[w] = [job[w] EXCEPT !.err = e]
      BY <1>1, <3>1 DEF JobTypes
    <3> QED
      BY <2>3, <3>3, <3>4
<1>5. ReasonInv'
  <2>1. life = "running"
    BY <1>1, <1>2 DEF ReasonInv, ReportsTrue
  <2> QED
    BY <1>1, <1>2, <1>3, <1>4, <2>1, QuietStep DEF startup
<1>6. /\ JobTypes' /\ JobInv'
      /\ input' \in [Kinds -> Seq(Points)]
      /\ output' \in [Kinds -> Seq(Slots)]
      /\ cache' \in [Points -> Slots]
  <2>1. /\ input \in [Kinds -> Seq(Points)]
        /\ output \in [Kinds -> Seq(Slots)]
        /\ cache \in [Points -> Slots]
    BY <1>1 DEF StateTypes
  <2>2. CASE Look(w)
    BY <1>1, <2>1, <2>2, LookKeepsJobs DEF device
  <2>3. CASE Consult(w)
    BY <1>1, <2>1, <2>3, ConsultKeepsJobs DEF device
  <2>4. CASE Lock(w)
    BY <1>1, <2>1, <2>4, LockKeepsJobs, NoneAssumption
  <2>5. CASE Write(w)
    BY <1>1, <2>1, <2>5, WriteKeepsJobs
  <2>6. CASE Run(w)
    BY <1>1, <2>1, <2>6, RunKeepsJobs
  <2>7. CASE Read(w)
    BY <1>1, <2>1, <2>7, ReadKeepsJobs
  <2>8. CASE Store(w)
    BY <1>1, <2>1, <2>8, StoreKeepsJobs DEF device
  <2>9. CASE DeviceError(w)
    BY <1>1, <2>1, <2>9, DeviceErrorKeepsJobs
  <2>10. CASE Scalar(w)
    BY <1>1, <2>1, <2>10, ScalarKeepsJobs DEF device
  <2>11. CASE Done(w)
    BY <1>1, <2>1, <2>11, DoneKeepsJobs DEF device
  <2> QED
    BY <2>2, <2>3, <2>4, <2>5, <2>6, <2>7, <2>8, <2>9, <2>10, <2>11
<1>7. mu' \in Workers \cup {None} /\ faults' \in 0 .. MaxFaults
  <2>1. mu \in Workers \cup {None} /\ faults \in 0 .. MaxFaults
    BY <1>1 DEF StateTypes
  <2>2. CASE DeviceError(w)
    <3>1. mu' = None
      BY <2>2 DEF HolderAfterError
    <3>2. faults' = faults + 1 /\ faults < MaxFaults
      BY <2>2
    <3>3. faults' \in 0 .. MaxFaults
      BY <2>1, <3>2, OneMoreFault
    <3> QED
      BY <3>1, <3>3
  <2>3. CASE ~ DeviceError(w)
    BY <2>1, <2>3 DEF HolderAfterLock, device
  <2> QED
    BY <2>2, <2>3
<1>8. StateTypes'
  BY <1>1, <1>2, <1>6, <1>7 DEF StateTypes, startup
<1> QED
  BY <1>5, <1>6, <1>8 DEF IInv

\* disable, status and Close.
LEMMA ControlKeepsIInv ==
  ASSUME IInv, NEW w \in Workers,
         \/ Disable(w) \/ Deactivate(w) \/ Status(w) \/ StatusReason(w) \/ Reported(w)
         \/ Close(w) \/ Release(w)
  PROVE  IInv'
<1>1. JobTypes /\ StateTypes /\ JobInv /\ ReasonInv
  BY DEF IInv
<1>2. JobTypes' /\ JobInv'
  BY <1>1, DisableKeepsJobs, OthersKeepJobs, NoneAssumption
<1>3. ReasonInv'
  BY <1>1, DisableKeepsReasons, StatusKeepsReasons, ReportedKeepsReasons, CloseKeepsReasons
<1>4. CASE Disable(w) \/ Deactivate(w)
  <2>1. job[w].err \in Reasons \cup {None}
    BY <1>1 DEF JobTypes, Jobs
  <2>2. PICK op \in {"reason", "flag"} : DisableStep(w, op)
    BY <1>4 DEF Disable, Deactivate, DisableOrder
  <2>3. failure' \in Reasons \cup {None} /\ active' \in BOOLEAN
    BY <1>1, <2>1, <2>2 DEF DisableStep, ReasonKept, StateTypes
  <2>4. StateTypes'
    BY <1>1, <2>2, <2>3 DEF DisableStep, StateTypes, startup, device
  <2> QED
    BY <1>2, <1>3, <2>4 DEF IInv
<1>5. CASE Status(w) \/ StatusReason(w) \/ Reported(w)
  <2>1. UNCHANGED <<startup, active, failure, device, cache, faults>>
    BY <1>5 DEF Status, StatusReason, Reported
  <2>2. report' \in [Workers -> [active : BOOLEAN, fallback : Reasons \cup {None}]]
    <3> DEFINE Reports == [active : BOOLEAN, fallback : Reasons \cup {None}]
    <3>1. report[w] \in Reports /\ report \in [Workers -> Reports]
      BY <1>1 DEF StateTypes
    <3>2. active \in BOOLEAN /\ failure \in Reasons \cup {None}
      BY <1>1 DEF StateTypes
    <3>3. NoReport \in Reports
      BY DEF NoReport
    <3>4. PICK r \in Reports : report' = [report EXCEPT ![w] = r]
      <4>1. CASE Status(w)
        BY <4>1, <3>1, <3>2 DEF Status
      <4>2. CASE StatusReason(w)
        BY <4>2, <3>1, <3>2 DEF StatusReason
      <4>3. CASE Reported(w)
        BY <4>3, <3>3 DEF Reported
      <4> QED
        BY <4>1, <4>2, <4>3, <1>5
    <3> HIDE DEF Reports
    <3>5. report' \in [Workers -> Reports]
      BY <3>1, <3>4
    <3> QED
      BY <3>5 DEF Reports
  <2>3. StateTypes'
    BY <1>1, <2>1, <2>2 DEF StateTypes, startup, device
  <2> QED
    BY <1>2, <1>3, <2>3 DEF IInv
<1>6. CASE Close(w) \/ Release(w)
  <2>1. StateTypes'
    BY <1>1, <1>6 DEF Close, Release, StateTypes, startup, device
  <2> QED
    BY <1>2, <1>3, <2>1 DEF IInv
<1> QED
  BY <1>4, <1>5, <1>6

\* Every step keeps the inductive invariant.
LEMMA NextKeepsIInv == IInv /\ [Next]_vars => IInv'
<1> SUFFICES ASSUME IInv, [Next]_vars PROVE IInv'
  OBVIOUS
<1>1. ASSUME NEW m \in Modes, NEW usable \in BOOLEAN, Start(m, usable) PROVE IInv'
  BY <1>1, StartKeepsIInv
<1>2. ASSUME NEW w \in Workers, NEW c \in Chunks, Ask(w, "density", <<c>>) PROVE IInv'
  <2>1. "density" \in Kinds
    BY DEF Kinds
  <2>2. <<c>> \in Seq(Points) \ {<<>>}
    BY DEF Points
  <2> QED
    BY <1>2, <2>1, <2>2, AskKeepsIInv
<1>3. ASSUME NEW w \in Workers, NEW q \in BiomeQueries, Ask(w, "biomes", q) PROVE IInv'
  <2>1. "biomes" \in Kinds /\ q \in Seq(Points) \ {<<>>}
    BY QueriesAssumption DEF Kinds
  <2> QED
    BY <1>3, <2>1, AskKeepsIInv
<1>4. ASSUME NEW w \in Workers,
             Status(w) \/ Close(w) \/ Locking(w) \/ DeviceError(w) \/ Step(w)
      PROVE  IInv'
  BY <1>4, WorkKeepsIInv, ControlKeepsIInv DEF Locking, Step
<1>5. CASE UNCHANGED vars
  <2> USE <1>5 DEF vars, startup, device
  <2>1. (StateTypes /\ JobTypes)'
    BY DEF IInv, StateTypes, JobTypes
  <2>2. JobInv'
    BY DEF IInv, JobInv, CacheTrue, DeviceOK, OnDevice, Batch, BatchEnd
  <2>3. ReasonInv'
    BY DEF IInv, ReasonInv, InactiveForReason, ErrorsRecorded, ReportsTrue, Closing
  <2> QED
    BY <2>1, <2>2, <2>3 DEF IInv
<1> QED
  BY <1>1, <1>2, <1>3, <1>4, <1>5 DEF Next

\* The inductive invariant holds in every reachable state.
THEOREM IInvAlways == Spec => []IInv
BY InitInductive, NextKeepsIInv, PTL DEF Spec

\* The variables keep their types, and a job works on points of its own query.
THEOREM TypeCorrect == Spec => []TypeOK
BY IInvAlways, TypeParts, PTL

\* Every job ends with the values of its own points, in whichever step the
\* device failed or was closed, the cache holds nothing else, and no two jobs
\* are at the device.
THEOREM AnswersStayTrue == Spec => []AnswersTrue
<1>1. IInv => AnswersTrue
  <2> SUFFICES ASSUME IInv PROVE AnswersTrue
    OBVIOUS
  <2>1. CacheTrue /\ \A w \in Workers : JobOK(pc[w], job[w], scratch[w], dst[w]) /\ DeviceOK(w)
    BY DEF IInv, JobInv
  <2>2. \A p \in Points : cache[p] \in {None, Value(p)}
    BY <2>1 DEF CacheTrue
  <2>3. \A w \in Workers : AnswersDone(pc[w], job[w], dst[w])
    BY <2>1 DEF JobOK
  <2>4. \A w \in Workers : OnDevice(w) => mu = w /\ ~ closed
    BY <2>1 DEF DeviceOK
  <2> QED
    BY <2>2, <2>3, <2>4 DEF AnswersTrue, AnswersDone
<1> QED
  BY <1>1, IInvAlways, PTL

\* Who sees an accelerated generator inactive, and not closed, sees the reason:
\* disable writes it before the flag and status reads it after the flag.
THEOREM FallbacksAreExplained == Spec => []FallbackExplained
<1>1. IInv => FallbackExplained
  BY DEF IInv, ReasonInv, ReportsTrue, Closing, FallbackExplained
<1> QED
  BY <1>1, IInvAlways, PTL
=============================================================================
