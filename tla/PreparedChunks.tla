--------------------------- MODULE PreparedChunks ---------------------------
(***************************************************************************)
(* What the proto-chunk cache of proto_cache.go promises to the code that  *)
(* asks it for a pre-decoration chunk: every request ends, with a chunk of *)
(* the caller's own that holds exactly the pristine terrain of the         *)
(* coordinate it asked for, or with the panic of the build it ran itself.  *)
(* Nothing is said here of caching, flights, eviction or other callers.    *)
(***************************************************************************)
CONSTANTS
  Workers,      \* goroutines that ask for chunks
  Keys,         \* chunk coordinates
  Terrain(_),   \* the pre-decoration contents of a coordinate
  Blank         \* the contents of a chunk nobody has written to

VARIABLES
  phase,        \* phase[w]: what the request of w has come to
  wanted,       \* wanted[w]: the coordinate w asked for last
  got           \* got[w]: what w holds while it uses its answer

vars == <<phase, wanted, got>>

Init ==
  /\ phase = [w \in Workers |-> "idle"]
  /\ wanted \in [Workers -> Keys]
  /\ got = [w \in Workers |-> Blank]

Ask(w, k) ==
  /\ phase[w] = "idle"
  /\ phase' = [phase EXCEPT ![w] = "asked"]
  /\ wanted' = [wanted EXCEPT ![w] = k]
  /\ UNCHANGED got

Answer(w) ==
  /\ phase[w] = "asked"
  /\ phase' = [phase EXCEPT ![w] = "answered"]
  /\ got' = [got EXCEPT ![w] = Terrain(wanted[w])]
  /\ UNCHANGED wanted

\* The panic of the caller's own build reaches the caller.
Fail(w) ==
  /\ phase[w] = "asked"
  /\ phase' = [phase EXCEPT ![w] = "idle"]
  /\ UNCHANGED <<wanted, got>>

\* The caller has written what it wanted into its chunk and lets go of it.
Done(w) ==
  /\ phase[w] = "answered"
  /\ phase' = [phase EXCEPT ![w] = "idle"]
  /\ got' = [got EXCEPT ![w] = Blank]
  /\ UNCHANGED wanted

Next ==
  \E w \in Workers :
    \/ \E k \in Keys : Ask(w, k)
    \/ Answer(w)
    \/ Fail(w)
    \/ Done(w)

Fairness == \A w \in Workers : WF_vars(Answer(w) \/ Fail(w)) /\ WF_vars(Done(w))

Spec == Init /\ [][Next]_vars /\ Fairness
=============================================================================
