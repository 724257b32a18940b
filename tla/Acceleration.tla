---------------------------- MODULE Acceleration ----------------------------
(***************************************************************************)
(* The optional OpenCL backend and the way back to the CPU: how a          *)
(* generator gets its accelerationState (acceleration.go), the jobs that   *)
(* prepareChunkUncached and GetBiomes give it, the device protocol of      *)
(* openCLAccelerator (gen/opencl_linux.go), disable, status and Close.     *)
(*                                                                         *)
(* A job evaluates points: GetBiomes the points of a biome volume, in      *)
(* batches, through the biome cache; FinalDensity one chunk, in one batch, *)
(* through no cache. The value of a point is the constant function Value,  *)
(* on the device and on the CPU. Buffers of the device are shared by all   *)
(* jobs of a kind and are guarded by openCLAccelerator.mu, which is        *)
(* modelled with its holder; each device call is a step that may fail.     *)
(***************************************************************************)
EXTENDS Naturals, Sequences, SequencesExt, FiniteSets

CONSTANTS
  Workers,      \* goroutines that generate chunks, ask for status or close
  BiomeQueries, \* sequences of points GetBiomes is asked for
  Chunks,       \* chunks FinalDensity is asked for
  None,         \* nil, and a slot nobody has written to
  BatchSize,    \* openCLAccelerator.climateBatch
  MinBatch,     \* shortest query GetBiomes takes to the device
  MaxFaults     \* bound of the model: how many device calls fail

ASSUME BatchAssumption == BatchSize \in Nat \ {0} /\ MinBatch \in Nat
ASSUME FaultsAssumption == MaxFaults \in Nat

Modes == {"cpu", "auto", "opencl", "unknown"}
Kinds == {"density", "biomes"}
Points == Chunks \cup UNION {ToSet(q) : q \in BiomeQueries}
Value(p) == <<"value", p>>
Slots == {None} \cup {Value(p) : p \in Points}
Reasons == {"unavailable", "device", "closed"}

\* A volume has points, and nil is neither a goroutine, a reason nor a value.
ASSUME QueriesAssumption == BiomeQueries \subseteq Seq(Points) \ {<<>>}
ASSUME NoneAssumption ==
  /\ None \notin Workers
  /\ None \notin Reasons
  /\ None \notin {Value(p) : p \in Points}

VARIABLES
  life,         \* "none" until NewForDimensionWithConfig has succeeded
  mode,         \* accelerationState.configured
  backend,      \* whether there is an accelerationState.backend
  active,       \* accelerationState.active
  failure,      \* accelerationState.failure
  mu,           \* who holds openCLAccelerator.mu
  closed,       \* openCLAccelerator.closed: the device memory is released
  input,        \* the input buffer of each kind
  output,       \* the output buffer of each kind
  cache,        \* presetBiomeSource.cache
  pc,           \* where each goroutine is
  job,          \* the job it works on
  scratch,      \* what it has read from the device for the points of todo
  dst,          \* its answer
  report,       \* what status has told it
  faults        \* device calls that failed so far

startup == <<life, mode, backend>>
device == <<mu, closed, input, output>>
vars == <<startup, active, failure, device, cache, pc, job, scratch, dst, report, faults>>

NoJob == [kind |-> "density", query |-> <<>>, todo |-> <<>>, start |-> 0, err |-> None]
NoReport == [active |-> FALSE, fallback |-> None]
PCs == {"idle", "look", "consult", "lock", "write", "run", "read", "store",
        "disable", "deactivate", "scalar", "done", "status", "reported", "close"}
Jobs == [kind : Kinds, query : Seq(Points), todo : Seq(Nat), start : Nat,
         err : Reasons \cup {None}]

\* The type invariant; a job works on points of its own query only.
TypeOK ==
  /\ life \in {"none", "running"}
  /\ mode \in Modes
  /\ backend \in BOOLEAN
  /\ active \in BOOLEAN
  /\ failure \in Reasons \cup {None}
  /\ mu \in Workers \cup {None}
  /\ closed \in BOOLEAN
  /\ input \in [Kinds -> Seq(Points)]
  /\ output \in [Kinds -> Seq(Slots)]
  /\ cache \in [Points -> Slots]
  /\ pc \in [Workers -> PCs]
  /\ job \in [Workers -> Jobs]
  /\ \A w \in Workers : /\ ToSet(job[w].todo) \subseteq 1 .. Len(job[w].query)
                       /\ job[w].start <= Len(job[w].todo)
  /\ scratch \in [Workers -> Seq(Slots)]
  /\ dst \in [Workers -> Seq(Slots)]
  /\ report \in [Workers -> [active : BOOLEAN, fallback : Reasons \cup {None}]]
  /\ faults \in 0 .. MaxFaults

Init ==
  /\ life = "none"
  /\ mode = "cpu"
  /\ backend = FALSE
  /\ active = FALSE
  /\ failure = None
  /\ mu = None
  /\ closed = FALSE
  /\ input = [kind \in Kinds |-> <<>>]
  /\ output = [kind \in Kinds |-> <<>>]
  /\ cache = [p \in Points |-> None]
  /\ pc = [w \in Workers |-> "idle"]
  /\ job = [w \in Workers |-> NoJob]
  /\ scratch = [w \in Workers |-> <<>>]
  /\ dst = [w \in Workers |-> <<>>]
  /\ report = [w \in Workers |-> NoReport]
  /\ faults = 0

-----------------------------------------------------------------------------
(***************************************************************************)
(* newAccelerationState. Only the overworld is accelerated; a device that  *)
(* cannot be used is an error in mode opencl and a recorded reason in mode *)
(* auto. An unknown mode, and an error, give no generator: the program may *)
(* try another configuration.                                              *)
(***************************************************************************)
FallsBack(m) == m = "auto"

Start(m, usable) ==
  /\ life = "none"
  /\ mode' = m
  /\ \/ /\ m = "cpu"
        /\ life' = "running"
        /\ UNCHANGED <<backend, active, failure>>
     \/ /\ m \in {"auto", "opencl"}
        /\ usable
        /\ life' = "running"
        /\ backend' = TRUE
        /\ active' = TRUE
        /\ UNCHANGED failure
     \/ /\ FallsBack(m)
        /\ ~ usable
        /\ life' = "running"
        /\ failure' = "unavailable"
        /\ UNCHANGED <<backend, active>>
     \/ /\ m # "cpu"
        /\ ~ FallsBack(m)
        /\ m = "unknown" \/ ~ usable
        /\ UNCHANGED <<life, backend, active, failure>>
  /\ UNCHANGED <<device, cache, pc, job, scratch, dst, report, faults>>

-----------------------------------------------------------------------------
Goto(w, label) == pc' = [pc EXCEPT ![w] = label]

Unsampled(n) == [i \in 1 .. n |-> None]

\* A goroutine has a chunk to build: its density first (prepareChunkUncached),
\* or its biomes (sampleChunkBiomeVolume). acceleratedBiomeSource and the start
\* of GetBiomes send a query the device is not for to the CPU, point by point.
Ask(w, kind, query) ==
  LET all == [i \in 1 .. Len(query) |-> i]
      batched == kind = "biomes" /\ backend /\ active /\ Len(query) >= MinBatch
  IN /\ life = "running"
     /\ pc[w] = "idle"
     /\ job' = [job EXCEPT ![w] = [kind |-> kind, query |-> query, start |-> 0, err |-> None,
                                   todo |-> IF batched THEN <<>> ELSE all]]
     /\ dst' = [dst EXCEPT ![w] = IF batched THEN <<>> ELSE Unsampled(Len(query))]
     /\ scratch' = [scratch EXCEPT ![w] = <<>>]
     /\ Goto(w, IF batched THEN "look" ELSE IF kind = "biomes" THEN "scalar" ELSE "consult")
     /\ UNCHANGED <<startup, active, failure, device, cache, report, faults>>

\* GetBiomes takes the next point from the cache or puts it on the list.
Look(w) ==
  /\ pc[w] = "look"
  /\ LET i == Len(dst[w]) + 1
         q == job[w].query
         found == cache[q[i]]
         todo == IF found = None THEN Append(job[w].todo, i) ELSE job[w].todo
     IN /\ dst' = [dst EXCEPT ![w] = Append(@, found)]
        /\ job' = [job EXCEPT ![w].todo = todo]
        /\ Goto(w, IF i < Len(q) THEN "look" ELSE IF todo = <<>> THEN "done" ELSE "consult")
  /\ UNCHANGED <<startup, active, failure, device, cache, scratch, report, faults>>

\* accelerationState.FinalDensity and SampleBiomes: an inactive backend is
\* unavailable, and the caller uses the CPU.
Consult(w) ==
  /\ pc[w] = "consult"
  /\ scratch' = [scratch EXCEPT ![w] = Unsampled(Len(job[w].todo))]
  /\ Goto(w, IF backend /\ active THEN "lock" ELSE "scalar")
  /\ UNCHANGED <<startup, active, failure, device, cache, job, dst, report, faults>>

\* The backend locks its mutex, and reports an error if it has been closed.
NeverLocked(w) == None
HolderAfterLock(w) == w

Usable == ~ closed

Lock(w) ==
  /\ pc[w] = "lock"
  /\ mu = None
  /\ \/ /\ Usable
        /\ mu' = HolderAfterLock(w)
        /\ Goto(w, "write")
        /\ UNCHANGED job
     \/ /\ ~ Usable
        /\ job' = [job EXCEPT ![w].err = "closed"]
        /\ Goto(w, "disable")
        /\ UNCHANGED mu
  /\ UNCHANGED <<startup, active, failure, closed, input, output, cache, scratch,
                 dst, report, faults>>

\* The points of the batch that starts after job.start.
BatchEnd(w) ==
  IF job[w].start + BatchSize < Len(job[w].todo) THEN job[w].start + BatchSize
                                                 ELSE Len(job[w].todo)
Batch(w) ==
  [i \in 1 .. BatchEnd(w) - job[w].start |-> job[w].query[job[w].todo[job[w].start + i]]]

Write(w) ==
  /\ pc[w] = "write"
  /\ input' = [input EXCEPT ![job[w].kind] = Batch(w)]
  /\ Goto(w, "run")
  /\ UNCHANGED <<startup, active, failure, mu, closed, output, cache, job, scratch,
                 dst, report, faults>>

Run(w) ==
  /\ pc[w] = "run"
  /\ LET in == input[job[w].kind] IN
       output' = [output EXCEPT ![job[w].kind] = [i \in 1 .. Len(in) |-> Value(in[i])]]
  /\ Goto(w, "read")
  /\ UNCHANGED <<startup, active, failure, mu, closed, input, cache, job, scratch,
                 dst, report, faults>>

\* Read the batch back; after the last one the deferred unlock runs. Of output
\* only the slots of the batch are read, and a slot beyond it is a stale one.
Read(w) ==
  /\ pc[w] = "read"
  /\ LET first == job[w].start
         out == output[job[w].kind]
     IN /\ scratch' = [scratch EXCEPT ![w] =
             [i \in DOMAIN @ |-> IF i \in first + 1 .. BatchEnd(w)
                                 THEN IF i - first <= Len(out) THEN out[i - first] ELSE None
                                 ELSE @[i]]]
        /\ job' = [job EXCEPT ![w].start =
             IF BatchEnd(w) = Len(job[w].todo) THEN 0 ELSE BatchEnd(w)]
        /\ IF BatchEnd(w) = Len(job[w].todo)
           THEN Goto(w, "store") /\ mu' = None
           ELSE Goto(w, "write") /\ UNCHANGED mu
  /\ UNCHANGED <<startup, active, failure, closed, input, output, cache, dst, report, faults>>

\* GetBiomes and FinalDensity hand over what came from the device; biomes go
\* into the cache, point by point.
Store(w) ==
  /\ pc[w] = "store"
  /\ LET i == job[w].start + 1
         index == job[w].todo[i]
     IN /\ dst' = [dst EXCEPT ![w][index] = scratch[w][i]]
        /\ cache' = IF job[w].kind = "biomes"
                    THEN [cache EXCEPT ![job[w].query[index]] = scratch[w][i]]
                    ELSE cache
        /\ job' = [job EXCEPT ![w].start = i]
        /\ Goto(w, IF i = Len(job[w].todo) THEN "done" ELSE "store")
  /\ UNCHANGED <<startup, active, failure, device, scratch, report, faults>>

\* A device call returns an error: unlock, and tell the accelerationState.
HolderKeptOnError == mu
HolderAfterError == None

DeviceError(w) ==
  /\ pc[w] \in {"write", "run", "read"}
  /\ faults < MaxFaults
  /\ faults' = faults + 1
  /\ mu' = HolderAfterError
  /\ job' = [job EXCEPT ![w].err = "device"]
  /\ Goto(w, "disable")
  /\ UNCHANGED <<startup, active, failure, closed, input, output, cache, scratch,
                 dst, report>>

\* disable: two atomic operations, a compare-and-swap of the reason with nil
\* and then the flag.
ReasonKept(e) == IF failure = None THEN e ELSE failure

FlagThenReason == <<"flag", "reason">>
DisableOrder == <<"reason", "flag">>

DisableStep(w, op) ==
  /\ failure' = IF op = "reason" THEN ReasonKept(job[w].err) ELSE failure
  /\ active' = (active /\ op # "flag")
  /\ UNCHANGED <<startup, device, cache, scratch, dst, report, faults>>

Disable(w) ==
  /\ pc[w] = "disable"
  /\ DisableStep(w, DisableOrder[1])
  /\ Goto(w, "deactivate")
  /\ UNCHANGED job

Deactivate(w) ==
  /\ pc[w] = "deactivate"
  /\ DisableStep(w, DisableOrder[2])
  /\ job' = [job EXCEPT ![w].start = 0]
  /\ Goto(w, "scalar")

\* The CPU evaluates what is left to do, biomes through the cache (GetBiome).
Scalar(w) ==
  /\ pc[w] = "scalar"
  /\ LET i == job[w].start + 1
         index == job[w].todo[i]
         p == job[w].query[index]
         v == IF job[w].kind = "biomes" /\ cache[p] # None THEN cache[p] ELSE Value(p)
     IN /\ dst' = [dst EXCEPT ![w][index] = v]
        /\ cache' = IF job[w].kind = "biomes" THEN [cache EXCEPT ![p] = v] ELSE cache
        /\ job' = [job EXCEPT ![w].start = i]
        /\ Goto(w, IF i = Len(job[w].todo) THEN "done" ELSE "scalar")
  /\ UNCHANGED <<startup, active, failure, device, scratch, report, faults>>

\* The chunk is built and the goroutine has forgotten its job.
Done(w) ==
  /\ pc[w] = "done"
  /\ job' = [job EXCEPT ![w] = NoJob]
  /\ scratch' = [scratch EXCEPT ![w] = <<>>]
  /\ dst' = [dst EXCEPT ![w] = <<>>]
  /\ Goto(w, "idle")
  /\ UNCHANGED <<startup, active, failure, device, cache, report, faults>>

\* AccelerationStatus: the flag is read first, the reason after it.
Status(w) ==
  /\ life = "running"
  /\ pc[w] = "idle"
  /\ report' = [report EXCEPT ![w].active = active]
  /\ Goto(w, "status")
  /\ UNCHANGED <<startup, active, failure, device, cache, job, scratch, dst, faults>>

StatusReason(w) ==
  /\ pc[w] = "status"
  /\ report' = [report EXCEPT ![w].fallback = failure]
  /\ Goto(w, "reported")
  /\ UNCHANGED <<startup, active, failure, device, cache, job, scratch, dst, faults>>

Reported(w) ==
  /\ pc[w] = "reported"
  /\ report' = [report EXCEPT ![w] = NoReport]
  /\ Goto(w, "idle")
  /\ UNCHANGED <<startup, active, failure, device, cache, job, scratch, dst, faults>>

\* Generator.Close, any number of times: the flag, then the device under its
\* mutex, once.
Close(w) ==
  /\ life = "running"
  /\ backend
  /\ pc[w] = "idle"
  /\ active' = FALSE
  /\ Goto(w, "close")
  /\ UNCHANGED <<startup, failure, device, cache, job, scratch, dst, report, faults>>

Release(w) ==
  /\ pc[w] = "close"
  /\ mu = None
  /\ closed' = TRUE
  /\ Goto(w, "idle")
  /\ UNCHANGED <<startup, active, failure, mu, input, output, cache, job, scratch,
                 dst, report, faults>>

-----------------------------------------------------------------------------
Locking(w) == Lock(w) \/ Release(w)

Step(w) ==
  \/ Look(w)
  \/ Consult(w)
  \/ Write(w)
  \/ Run(w)
  \/ Read(w)
  \/ Store(w)
  \/ Disable(w)
  \/ Deactivate(w)
  \/ Scalar(w)
  \/ Done(w)
  \/ StatusReason(w)
  \/ Reported(w)

Next ==
  \/ \E m \in Modes, usable \in BOOLEAN : Start(m, usable)
  \/ \E w \in Workers :
       \/ \E c \in Chunks : Ask(w, "density", <<c>>)
       \/ \E q \in BiomeQueries : Ask(w, "biomes", q)
       \/ Status(w)
       \/ Close(w)
       \/ Locking(w)
       \/ DeviceError(w)
       \/ Step(w)

\* Every runnable goroutine runs, and sync.Mutex hands the lock over to a
\* waiter that has waited for long, though others keep locking it.
Fairness == \A w \in Workers : WF_vars(Step(w)) /\ SF_vars(Locking(w))

Spec == Init /\ [][Next]_vars /\ Fairness

-----------------------------------------------------------------------------
OnDevice(w) == pc[w] \in {"write", "run", "read"}

\* Whatever fails, and when: every chunk is built from the values of its own
\* points, those of jobs that fell back to the CPU half-way included, and the
\* cache holds nothing else. One job uses the device at a time, and none after
\* its memory was released.
AnswersTrue ==
  /\ \A p \in Points : cache[p] \in {None, Value(p)}
  /\ \A w \in Workers : pc[w] = "done" =>
       dst[w] = [i \in 1 .. Len(job[w].query) |-> Value(job[w].query[i])]
  /\ \A w \in Workers : OnDevice(w) => mu = w /\ ~ closed

\* Who sees an accelerated generator inactive, and has not seen it closed, also
\* sees the reason (README: "reports the selected device and any fallback
\* reason"): disable writes and status reads in opposite orders.
FallbackExplained ==
  \A w \in Workers :
    /\ pc[w] = "reported"
    /\ ~ report[w].active
    /\ mode # "cpu"
    /\ ~ closed
    /\ \A v \in Workers : pc[v] # "close"
    => report[w].fallback # None

\* Chunk generation remains live: every job ends, through a device that fails
\* in any step of another job, and through Close.
EveryJobEnds ==
  \A w \in Workers : pc[w] # "idle" ~> pc[w] = "idle"
=============================================================================
