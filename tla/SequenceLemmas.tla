---------------------------- MODULE SequenceLemmas ----------------------------
(***************************************************************************)
(* What the proofs of several components need to know of numbers and       *)
(* sequences. Induction is stated over sets here: the least number outside *)
(* a set of numbers would follow one that is inside.                       *)
(***************************************************************************)
EXTENDS Naturals, Sequences, SequencesExt, SequenceTheorems, WellFoundedInduction, TLAPS

\* Every set of numbers has a least one.
LEMMA LeastOfSet ==
  ASSUME NEW T \in SUBSET Nat, T # {}
  PROVE  \E n \in T : \A m \in T : n <= m
<1>1. PICK n \in T : \A m \in T : ~ (<<m, n>> \in OpToRel(<, Nat))
  BY NatLessThanWellFounded, WFMin
<1>2. \A m \in T : ~ (m < n)
  BY <1>1 DEF OpToRel
<1> QED
  BY <1>2

\* A set that has 0, and with each number the next, has them all.
LEMMA Induction ==
  ASSUME NEW S, 0 \in S, \A n \in Nat : n \in S => n + 1 \in S
  PROVE  Nat \subseteq S
<1> SUFFICES ASSUME Nat \ S # {} PROVE FALSE
  OBVIOUS
<1>1. PICK n \in Nat \ S : \A m \in Nat \ S : n <= m
  BY LeastOfSet
<1>2. n # 0 /\ n - 1 \in Nat /\ (n - 1) + 1 = n
  BY <1>1
<1>3. n - 1 \in S
  BY <1>1, <1>2
<1> QED
  BY <1>1, <1>2, <1>3

-----------------------------------------------------------------------------
\* The sequence of a function on 1 .. n.
LEMMA FunctionAsSeq ==
  ASSUME NEW S, NEW n \in Nat, NEW f \in [1 .. n -> S]
  PROVE  /\ f \in Seq(S)
         /\ Len(f) = n
OBVIOUS

\* Replacing an element of a sequence.
LEMMA ElementReplaced ==
  ASSUME NEW S, NEW s \in Seq(S), NEW i \in 1 .. Len(s), NEW v \in S
  PROVE  /\ [s EXCEPT ![i] = v] \in Seq(S)
         /\ Len([s EXCEPT ![i] = v]) = Len(s)
         /\ [s EXCEPT ![i] = v][i] = v
         /\ \A h \in 1 .. Len(s) : h # i => [s EXCEPT ![i] = v][h] = s[h]
OBVIOUS

\* What is left of a sequence without its first n elements.
LEMMA Rest ==
  ASSUME NEW K, NEW q \in Seq(K), NEW n \in Nat, n < Len(q)
  PROVE  /\ SubSeq(q, n + 1, Len(q)) \in Seq(K)
         /\ Len(SubSeq(q, n + 1, Len(q))) = Len(q) - n
         /\ \A i \in 1 .. Len(q) - n : SubSeq(q, n + 1, Len(q))[i] = q[i + n]
OBVIOUS

\* If the sequence lists no element twice, the rest does not either, and has
\* lost exactly what stood in front.
LEMMA RestOfQueue ==
  ASSUME NEW K, NEW q \in Seq(K), IsInjective(q), NEW n \in Nat, n < Len(q),
         NEW t \in Seq(K), Len(t) = Len(q) - n, \A i \in 1 .. Len(q) - n : t[i] = q[i + n]
  PROVE  /\ IsInjective(t)
         /\ ToSet(t) = ToSet(q) \ {q[i] : i \in 1 .. n}
         /\ q[Len(q)] \notin {q[i] : i \in 1 .. n}
<1>1. DOMAIN q = 1 .. Len(q) /\ DOMAIN t = 1 .. Len(q) - n /\ Len(q) \in Nat
  BY LenProperties
<1>2. \A i, j \in 1 .. Len(q) : q[i] = q[j] => i = j
  BY <1>1 DEF IsInjective
<1>3. \A i \in 1 .. Len(q) - n : i + n \in 1 .. Len(q)
  BY <1>1
<1>4. IsInjective(t)
  <2> SUFFICES ASSUME NEW i \in 1 .. Len(q) - n, NEW j \in 1 .. Len(q) - n, t[i] = t[j]
               PROVE  i = j
    BY <1>1 DEF IsInjective
  <2>1. i + n = j + n
    BY <1>2, <1>3
  <2> QED
    BY <2>1, <1>1
<1>5. ASSUME NEW h, h \in ToSet(t) PROVE h \in ToSet(q) /\ h \notin {q[i] : i \in 1 .. n}
  <2>1. PICK i \in 1 .. Len(q) - n : h = t[i]
    BY <1>1, <1>5 DEF ToSet
  <2>2. i + n \in 1 .. Len(q) /\ h = q[i + n] /\ \A j \in 1 .. n : j # i + n /\ j \in 1 .. Len(q)
    BY <2>1, <1>1, <1>3
  <2>3. \A j \in 1 .. n : q[j] # h
    BY <2>2, <1>2
  <2> QED
    BY <2>2, <2>3, <1>1 DEF ToSet
<1>6. ASSUME NEW h, h \in ToSet(q), h \notin {q[i] : i \in 1 .. n} PROVE h \in ToSet(t)
  <2>1. PICK i \in 1 .. Len(q) : h = q[i]
    BY <1>1, <1>6 DEF ToSet
  <2>2. i - n \in 1 .. Len(q) - n /\ (i - n) + n = i
    BY <2>1, <1>6, <1>1
  <2>3. t[i - n] = q[(i - n) + n]
    BY <2>2
  <2> QED
    BY <2>1, <2>2, <2>3, <1>1 DEF ToSet
<1>7. q[Len(q)] \notin {q[i] : i \in 1 .. n}
  <2>1. Len(q) \in 1 .. Len(q)
    BY <1>1
  <2>2. ASSUME NEW j \in 1 .. n PROVE j # Len(q) /\ j \in 1 .. Len(q)
    BY <1>1
  <2> QED
    BY <2>1, <2>2, <1>2
<1>8. ToSet(t) = ToSet(q) \ {q[i] : i \in 1 .. n}
  BY <1>5, <1>6
<1> QED
  BY <1>4, <1>7, <1>8

\* A new element at the end of a sequence that lists none twice.
LEMMA Appended ==
  ASSUME NEW K, NEW s \in Seq(K), IsInjective(s), NEW k \in K, k \notin ToSet(s)
  PROVE  /\ Append(s, k) \in Seq(K)
         /\ Len(Append(s, k)) = Len(s) + 1
         /\ Append(s, k)[Len(s) + 1] = k
         /\ IsInjective(Append(s, k))
         /\ ToSet(Append(s, k)) = ToSet(s) \cup {k}
<1>1. /\ Append(s, k) \in Seq(K)
      /\ Len(Append(s, k)) = Len(s) + 1
      /\ Append(s, k)[Len(s) + 1] = k
      /\ \A i \in 1 .. Len(s) : Append(s, k)[i] = s[i]
  BY AppendProperties
<1>2. DOMAIN s = 1 .. Len(s) /\ DOMAIN Append(s, k) = 1 .. Len(s) + 1 /\ Len(s) \in Nat
  BY <1>1, LenProperties
<1>3. \A i \in 1 .. Len(s) + 1 : i \in 1 .. Len(s) \/ i = Len(s) + 1
  BY <1>2
<1>4. \A i \in 1 .. Len(s) : i \in 1 .. Len(s) + 1
  BY <1>2
<1>5. Len(s) + 1 \in 1 .. Len(s) + 1
  BY <1>2
<1>6. IsInjective(Append(s, k))
  BY <1>1, <1>2, <1>3 DEF IsInjective, ToSet
<1>7. ToSet(Append(s, k)) = ToSet(s) \cup {k}
  BY <1>1, <1>2, <1>3, <1>4, <1>5 DEF ToSet
<1> QED
  BY <1>1, <1>6, <1>7

\* A queue of at most cap elements: what is over the cap leaves at the front.
Over(s, cap) == IF Len(s) > cap THEN Len(s) - cap ELSE 0
Left(s, cap) == {s[i] : i \in 1 .. Over(s, cap)}
Kept(s, cap) == SubSeq(s, Over(s, cap) + 1, Len(s))

\* A new element goes to the end of such a queue: it still lists each element
\* once, and those that did not leave.
LEMMA QueueAfterStore ==
  ASSUME NEW K, NEW s \in Seq(K), IsInjective(s), NEW k \in K, k \notin ToSet(s),
         NEW cap \in Nat \ {0}, Len(s) <= cap
  PROVE  /\ Kept(Append(s, k), cap) \in Seq(K)
         /\ Len(Kept(Append(s, k), cap)) <= cap
         /\ IsInjective(Kept(Append(s, k), cap))
         /\ ToSet(Kept(Append(s, k), cap)) = (ToSet(s) \cup {k}) \ Left(Append(s, k), cap)
         /\ k \notin Left(Append(s, k), cap)
<1> DEFINE q == Append(s, k)
           n == Over(q, cap)
<1>1. /\ q \in Seq(K)
      /\ IsInjective(q)
      /\ Len(q) = Len(s) + 1
      /\ Len(s) \in Nat
      /\ q[Len(q)] = k
      /\ ToSet(q) = ToSet(s) \cup {k}
  BY Appended, LenProperties
<1>2. n \in Nat /\ n < Len(q) /\ Len(q) - n <= cap
  BY <1>1 DEF Over
<1>3. Kept(q, cap) = SubSeq(q, n + 1, Len(q)) /\ Left(q, cap) = {q[i] : i \in 1 .. n}
  BY DEF Kept, Left
<1> HIDE DEF q, n
<1>4. /\ Kept(q, cap) \in Seq(K)
      /\ Len(Kept(q, cap)) = Len(q) - n
      /\ \A i \in 1 .. Len(q) - n : Kept(q, cap)[i] = q[i + n]
  BY <1>1, <1>2, <1>3, Rest
<1>5. /\ IsInjective(Kept(q, cap))
      /\ ToSet(Kept(q, cap)) = ToSet(q) \ Left(q, cap)
      /\ q[Len(q)] \notin Left(q, cap)
  BY <1>1, <1>2, <1>3, <1>4, RestOfQueue
<1> QED
  BY <1>1, <1>2, <1>4, <1>5 DEF q

\* The first m elements of a sequence.
LEMMA Prefix ==
  ASSUME NEW F, NEW s \in Seq(F), NEW m \in Nat, m <= Len(s)
  PROVE  /\ SubSeq(s, 1, m) \in Seq(F)
         /\ Len(SubSeq(s, 1, m)) = m
         /\ \A i \in 1 .. m : SubSeq(s, 1, m)[i] = s[i]
OBVIOUS

\* A call that returns leaves the calls below it.
LEMMA TopPopped ==
  ASSUME NEW F, NEW s \in Seq(F), s # <<>>
  PROVE  /\ Front(s) \in Seq(F)
         /\ Len(Front(s)) = Len(s) - 1
         /\ \A i \in 1 .. Len(s) - 1 : Front(s)[i] = s[i]
<1>1. Len(s) \in Nat \ {0} /\ \A i \in 1 .. Len(s) : s[i] \in F
  BY EmptySeq, LenProperties
<1>2. Len(s) - 1 \in Nat /\ Len(s) - 1 <= Len(s)
  BY <1>1
<1> QED
  BY <1>2, Prefix DEF Front

\* A call that goes on replaces its frame.
LEMMA TopReplaced ==
  ASSUME NEW F, NEW s \in Seq(F), s # <<>>, NEW f \in F
  PROVE  /\ Append(Front(s), f) \in Seq(F)
         /\ Len(Append(Front(s), f)) = Len(s)
         /\ \A i \in 1 .. Len(s) : Append(Front(s), f)[i] = IF i = Len(s) THEN f ELSE s[i]
<1>1. Len(s) \in Nat \ {0} /\ \A i \in 1 .. Len(s) : s[i] \in F
  BY EmptySeq, LenProperties
<1>2. /\ Front(s) \in Seq(F)
      /\ Len(Front(s)) = Len(s) - 1
      /\ \A i \in 1 .. Len(s) - 1 : Front(s)[i] = s[i]
  BY TopPopped
<1>3. /\ Append(Front(s), f) \in Seq(F)
      /\ Len(Append(Front(s), f)) = (Len(s) - 1) + 1
      /\ \A i \in 1 .. Len(s) - 1 : Append(Front(s), f)[i] = Front(s)[i]
      /\ Append(Front(s), f)[(Len(s) - 1) + 1] = f
  BY <1>2, AppendProperties
<1>4. (Len(s) - 1) + 1 = Len(s) /\ \A i \in 1 .. Len(s) : i \in 1 .. Len(s) - 1 \/ i = Len(s)
  BY <1>1
<1> QED
  BY <1>2, <1>3, <1>4

\* Two sequences in a row list what they list.
LEMMA ConcatSet ==
  ASSUME NEW S, NEW s \in Seq(S), NEW t \in Seq(S)
  PROVE  ToSet(s \o t) = ToSet(s) \cup ToSet(t)
<1>1. /\ s \o t \in Seq(S)
      /\ Len(s \o t) = Len(s) + Len(t)
      /\ \A i \in 1 .. Len(s) + Len(t) :
           (s \o t)[i] = IF i <= Len(s) THEN s[i] ELSE t[i - Len(s)]
  BY ConcatProperties
<1>2. /\ DOMAIN s = 1 .. Len(s) /\ DOMAIN t = 1 .. Len(t)
      /\ DOMAIN (s \o t) = 1 .. Len(s) + Len(t)
      /\ Len(s) \in Nat /\ Len(t) \in Nat
  BY <1>1, LenProperties
<1>3. ASSUME NEW h, h \in ToSet(s \o t) PROVE h \in ToSet(s) \cup ToSet(t)
  <2>1. PICK i \in 1 .. Len(s) + Len(t) : h = (s \o t)[i]
    BY <1>2, <1>3 DEF ToSet
  <2>2. i \in 1 .. Len(s) \/ i - Len(s) \in 1 .. Len(t)
    BY <1>2
  <2> QED
    BY <1>1, <1>2, <2>1, <2>2 DEF ToSet
<1>4. ASSUME NEW h, h \in ToSet(s) PROVE h \in ToSet(s \o t)
  <2>1. PICK i \in 1 .. Len(s) : h = s[i]
    BY <1>2, <1>4 DEF ToSet
  <2>2. i \in 1 .. Len(s) + Len(t) /\ (s \o t)[i] = s[i]
    BY <1>1, <1>2
  <2> QED
    BY <1>2, <2>1, <2>2 DEF ToSet
<1>5. ASSUME NEW h, h \in ToSet(t) PROVE h \in ToSet(s \o t)
  <2>1. PICK i \in 1 .. Len(t) : h = t[i]
    BY <1>2, <1>5 DEF ToSet
  <2>2. Len(s) + i \in 1 .. Len(s) + Len(t) /\ (s \o t)[Len(s) + i] = t[i]
    <3>1. Len(s) + i \in 1 .. Len(s) + Len(t) /\ ~ (Len(s) + i <= Len(s)) /\ (Len(s) + i) - Len(s) = i
      BY <1>2
    <3> QED
      BY <3>1, <1>1
  <2> QED
    BY <1>2, <2>1, <2>2 DEF ToSet
<1> QED
  BY <1>3, <1>4, <1>5

\* The sequences that FlattenSeq concatenates, one after the other.
Flattened(ss, m, f) == f = [i \in 1 .. m |-> IF i = 1 THEN ss[i] ELSE f[i - 1] \o ss[i]]

\* There is such a function up to every sequence.
LEMMA FlattenedExists ==
  ASSUME NEW ss, NEW m \in Nat
  PROVE  \E f : Flattened(ss, m, f)
<1> DEFINE S == {n \in Nat : \E f : Flattened(ss, n, f)}
<1>1. 0 \in S
  <2> DEFINE f == [i \in 1 .. 0 |-> ss[i]]
  <2>1. Flattened(ss, 0, f)
    BY DEF Flattened
  <2> QED
    BY <2>1
<1>2. ASSUME NEW n \in Nat, n \in S PROVE n + 1 \in S
  <2>1. PICK f : Flattened(ss, n, f)
    BY <1>2
  <2> DEFINE g == [i \in 1 .. n + 1 |->
                     IF i = n + 1 THEN IF i = 1 THEN ss[i] ELSE f[i - 1] \o ss[i] ELSE f[i]]
  <2>2. ASSUME NEW i \in 1 .. n + 1
        PROVE  g[i] = IF i = 1 THEN ss[i] ELSE g[i - 1] \o ss[i]
    <3>1. CASE i = n + 1
      <4>1. i # 1 => i - 1 \in 1 .. n + 1 /\ i - 1 # n + 1
        BY <3>1
      <4>2. i # 1 => g[i - 1] = f[i - 1]
        BY <4>1
      <4> QED
        BY <3>1, <4>2
    <3>2. CASE i # n + 1
      <4>1. i \in 1 .. n /\ (i # 1 => i - 1 \in 1 .. n + 1 /\ i - 1 # n + 1)
        BY <3>2
      <4>2. g[i] = f[i] /\ (i # 1 => g[i - 1] = f[i - 1])
        BY <3>2, <4>1
      <4>3. f[i] = IF i = 1 THEN ss[i] ELSE f[i - 1] \o ss[i]
        BY <2>1, <4>1 DEF Flattened
      <4> QED
        BY <4>2, <4>3
    <3> QED
      BY <3>1, <3>2
  <2>3. Flattened(ss, n + 1, g)
    <3>1. g = [i \in 1 .. n + 1 |-> g[i]]
      OBVIOUS
    <3> HIDE DEF g
    <3> QED
      BY <2>2, <3>1 DEF Flattened
  <2> QED
    BY <2>3
<1> HIDE DEF S
<1>3. Nat \subseteq S
  BY <1>1, <1>2, Induction
<1> QED
  BY <1>3 DEF S

\* FlattenSeq gives a sequence of all elements.
LEMMA FlattenSeqProperties ==
  ASSUME NEW A, NEW ss \in Seq(Seq(A))
  PROVE  /\ FlattenSeq(ss) \in Seq(A)
         /\ ToSet(FlattenSeq(ss)) = UNION {ToSet(ss[i]) : i \in 1 .. Len(ss)}
<1>1. Len(ss) \in Nat /\ \A i \in 1 .. Len(ss) : ss[i] \in Seq(A)
  BY LenProperties
<1>2. CASE Len(ss) = 0
  <2>1. FlattenSeq(ss) = <<>> /\ ToSet(<<>>) = {} /\ <<>> \in Seq(A)
    BY <1>2, EmptySeq DEF FlattenSeq, ToSet
  <2>2. 1 .. Len(ss) = {}
    BY <1>2
  <2> QED
    BY <2>1, <2>2
<1>3. CASE Len(ss) # 0
  <2> DEFINE f == CHOOSE f : Flattened(ss, Len(ss), f)
             S == {n \in Nat : n \in 1 .. Len(ss) =>
                     f[n] \in Seq(A) /\ ToSet(f[n]) = UNION {ToSet(ss[i]) : i \in 1 .. n}}
  <2>1. FlattenSeq(ss) = f[Len(ss)]
    BY <1>3 DEF FlattenSeq, Flattened
  <2>2. Flattened(ss, Len(ss), f)
    BY <1>1, FlattenedExists
  <2> HIDE DEF f
  <2>3. \A n \in 1 .. Len(ss) : f[n] = IF n = 1 THEN ss[n] ELSE f[n - 1] \o ss[n]
    BY <2>2 DEF Flattened
  <2>4. 0 \in S
    BY <1>1
  <2>5. ASSUME NEW n \in Nat, n \in S PROVE n + 1 \in S
    <3> SUFFICES ASSUME n + 1 \in 1 .. Len(ss)
                 PROVE  /\ f[n + 1] \in Seq(A)
                        /\ ToSet(f[n + 1]) = UNION {ToSet(ss[i]) : i \in 1 .. n + 1}
      OBVIOUS
    <3>1. CASE n = 0
      <4>1. f[n + 1] = ss[n + 1] /\ 1 .. n + 1 = {n + 1}
        BY <2>3, <3>1
      <4> QED
        BY <4>1, <1>1
    <3>2. CASE n # 0
      <4>1. n \in 1 .. Len(ss) /\ n + 1 # 1 /\ (n + 1) - 1 = n
        BY <1>1, <3>2
      <4>2. f[n] \in Seq(A) /\ ToSet(f[n]) = UNION {ToSet(ss[i]) : i \in 1 .. n}
        BY <2>5, <4>1
      <4>3. f[n + 1] = f[n] \o ss[n + 1]
        BY <2>3, <4>1
      <4>4. ss[n + 1] \in Seq(A)
        BY <1>1
      <4>5. f[n + 1] \in Seq(A) /\ ToSet(f[n + 1]) = ToSet(f[n]) \cup ToSet(ss[n + 1])
        BY <4>2, <4>3, <4>4, ConcatSet, ConcatProperties
      <4>6. \A i : i \in 1 .. n + 1 <=> i \in 1 .. n \/ i = n + 1
        OBVIOUS
      <4>7. UNION {ToSet(ss[i]) : i \in 1 .. n + 1}
              = (UNION {ToSet(ss[i]) : i \in 1 .. n}) \cup ToSet(ss[n + 1])
        <5> DEFINE U(i) == ToSet(ss[i])
        <5> HIDE DEF U
        <5>1. ASSUME NEW h, h \in UNION {U(i) : i \in 1 .. n + 1}
              PROVE  h \in (UNION {U(i) : i \in 1 .. n}) \cup U(n + 1)
          BY <4>6, <5>1
        <5>2. ASSUME NEW h, h \in (UNION {U(i) : i \in 1 .. n}) \cup U(n + 1)
              PROVE  h \in UNION {U(i) : i \in 1 .. n + 1}
          BY <4>6, <5>2
        <5>3. UNION {U(i) : i \in 1 .. n + 1} = (UNION {U(i) : i \in 1 .. n}) \cup U(n + 1)
          BY <5>1, <5>2
        <5> QED
          BY <5>3 DEF U
      <4> QED
        BY <4>2, <4>5, <4>7
    <3> QED
      BY <3>1, <3>2
  <2> HIDE DEF S
  <2>6. Nat \subseteq S
    BY <2>4, <2>5, Induction
  <2>7. Len(ss) \in 1 .. Len(ss)
    BY <1>1, <1>3
  <2> QED
    BY <2>1, <2>6, <2>7, <1>1 DEF S
<1> QED
  BY <1>2, <1>3

\* Where sequences stand in g: the elements of the i-th come after place off[i],
\* one sequence after another, and nothing else is in g.
Standing(ss, n, g, off) ==
  /\ off \in [1 .. n -> Nat]
  /\ \A i \in 1 .. n : off[i] + Len(ss[i]) <= Len(g)
  /\ \A i \in 1 .. n : \A k \in 1 .. Len(ss[i]) : g[off[i] + k] = ss[i][k]
  /\ \A i, j \in 1 .. n : i < j => off[i] + Len(ss[i]) <= off[j]
  /\ \A p \in 1 .. Len(g) : \E i \in 1 .. n : \E k \in 1 .. Len(ss[i]) : p = off[i] + k

\* One more sequence goes behind those that are there.
LEMMA StandingNext ==
  ASSUME NEW A, NEW n \in Nat, NEW ss, \A i \in 1 .. n + 1 : ss[i] \in Seq(A),
         NEW g \in Seq(A), NEW off, Standing(ss, n, g, off)
  PROVE  \E o : Standing(ss, n + 1, g \o ss[n + 1], o)
<1> DEFINE o == [i \in 1 .. n + 1 |-> IF i = n + 1 THEN Len(g) ELSE off[i]]
           h == g \o ss[n + 1]
<1>1. /\ n + 1 \in 1 .. n + 1
      /\ \A i \in 1 .. n + 1 : i = n + 1 \/ i \in 1 .. n
      /\ \A i \in 1 .. n : i \in 1 .. n + 1 /\ i # n + 1
  OBVIOUS
<1>2. Len(g) \in Nat /\ \A i \in 1 .. n + 1 : Len(ss[i]) \in Nat
  BY LenProperties
<1>3. /\ Len(h) = Len(g) + Len(ss[n + 1])
      /\ \A i \in 1 .. Len(g) + Len(ss[n + 1]) :
           h[i] = IF i <= Len(g) THEN g[i] ELSE ss[n + 1][i - Len(g)]
  BY <1>1, ConcatProperties
<1>4. off \in [1 .. n -> Nat]
  BY DEF Standing
<1>5. /\ o \in [1 .. n + 1 -> Nat]
      /\ o[n + 1] = Len(g)
      /\ \A i \in 1 .. n : o[i] = off[i]
  BY <1>1, <1>2, <1>4
<1> HIDE DEF o, h
<1>6. \A i \in 1 .. n : off[i] \in Nat /\ off[i] + Len(ss[i]) <= Len(g)
  BY <1>4 DEF Standing
<1>7. \A i \in 1 .. n + 1 : o[i] + Len(ss[i]) <= Len(h)
  BY <1>1, <1>2, <1>3, <1>5, <1>6, SMTT(30)
<1>8. ASSUME NEW i \in 1 .. n + 1, NEW k \in 1 .. Len(ss[i]) PROVE h[o[i] + k] = ss[i][k]
  <2>1. CASE i = n + 1
    <3>1. k \in Nat \ {0} /\ k <= Len(ss[n + 1])
      BY <2>1, <1>2
    <3>2. /\ o[i] + k \in 1 .. Len(g) + Len(ss[n + 1])
          /\ ~ (o[i] + k <= Len(g))
          /\ (o[i] + k) - Len(g) = k
      BY <2>1, <3>1, <1>2, <1>5
    <3> QED
      BY <2>1, <3>2, <1>3
  <2>2. CASE i \in 1 .. n
    <3>1. g[off[i] + k] = ss[i][k] /\ o[i] = off[i]
      BY <2>2, <1>5 DEF Standing
    <3>2. k \in Nat \ {0} /\ k <= Len(ss[i])
      BY <1>2
    <3>3. off[i] + k \in 1 .. Len(g) + Len(ss[n + 1]) /\ off[i] + k <= Len(g)
      BY <2>2, <3>2, <1>1, <1>2, <1>6, SMTT(30)
    <3> QED
      BY <3>1, <3>3, <1>3
  <2> QED
    BY <2>1, <2>2, <1>1
<1>9. ASSUME NEW i \in 1 .. n + 1, NEW j \in 1 .. n + 1, i < j PROVE o[i] + Len(ss[i]) <= o[j]
  <2>1. i \in 1 .. n
    BY <1>9
  <2>2. CASE j = n + 1
    BY <2>1, <2>2, <1>5, <1>6
  <2>3. CASE j \in 1 .. n
    BY <2>1, <2>3, <1>9, <1>5 DEF Standing
  <2> QED
    BY <2>2, <2>3, <1>1
<1>10. ASSUME NEW p \in 1 .. Len(h)
       PROVE  \E i \in 1 .. n + 1 : \E k \in 1 .. Len(ss[i]) : p = o[i] + k
  <2>1. CASE p <= Len(g)
    <3>1. p \in 1 .. Len(g)
      BY <2>1, <1>2
    <3>2. PICK i \in 1 .. n : \E k \in 1 .. Len(ss[i]) : p = off[i] + k
      BY <3>1 DEF Standing
    <3> QED
      BY <3>2, <1>1, <1>5
  <2>2. CASE ~ (p <= Len(g))
    <3>1. p - Len(g) \in 1 .. Len(ss[n + 1]) /\ p = Len(g) + (p - Len(g))
      BY <2>2, <1>1, <1>2, <1>3
    <3> QED
      BY <3>1, <1>1, <1>5
  <2> QED
    BY <2>1, <2>2
<1>11. Standing(ss, n + 1, h, o)
  BY <1>5, <1>7, <1>8, <1>9, <1>10 DEF Standing
<1> QED
  BY <1>11 DEF h

\* FlattenSeq puts the sequences one behind the other.
LEMMA FlattenSeqPlaces ==
  ASSUME NEW A, NEW ss \in Seq(Seq(A))
  PROVE  \E off : Standing(ss, Len(ss), FlattenSeq(ss), off)
<1>1. Len(ss) \in Nat /\ \A i \in 1 .. Len(ss) : ss[i] \in Seq(A)
  BY LenProperties
<1>2. CASE Len(ss) = 0
  <2>1. FlattenSeq(ss) = <<>>
    BY <1>2, EmptySeq DEF FlattenSeq
  <2>2. Len(FlattenSeq(ss)) = 0 /\ 1 .. Len(ss) = {} /\ 1 .. Len(FlattenSeq(ss)) = {}
    BY <2>1, <1>2
  <2> DEFINE off == [i \in 1 .. Len(ss) |-> 0]
  <2>3. Standing(ss, Len(ss), FlattenSeq(ss), off)
    BY <2>2 DEF Standing
  <2> QED
    BY <2>3
<1>3. CASE Len(ss) # 0
  <2> DEFINE f == CHOOSE f : Flattened(ss, Len(ss), f)
             S == {n \in Nat : n \in 1 .. Len(ss) =>
                     f[n] \in Seq(A) /\ \E off : Standing(ss, n, f[n], off)}
  <2>1. FlattenSeq(ss) = f[Len(ss)]
    BY <1>3 DEF FlattenSeq, Flattened
  <2>2. Flattened(ss, Len(ss), f)
    BY <1>1, FlattenedExists
  <2> HIDE DEF f
  <2>3. \A n \in 1 .. Len(ss) : f[n] = IF n = 1 THEN ss[n] ELSE f[n - 1] \o ss[n]
    BY <2>2 DEF Flattened
  <2>4. 0 \in S
    BY <1>1
  <2>5. ASSUME NEW n \in Nat, n \in S PROVE n + 1 \in S
    <3> SUFFICES ASSUME n + 1 \in 1 .. Len(ss)
                 PROVE  f[n + 1] \in Seq(A) /\ \E off : Standing(ss, n + 1, f[n + 1], off)
      OBVIOUS
    <3>0. \A i \in 1 .. n + 1 : ss[i] \in Seq(A)
      BY <1>1
    <3>1. CASE n = 0
      <4>1. f[n + 1] = ss[n + 1] /\ n + 1 = 1
        BY <2>3, <3>1
      <4> DEFINE off == [i \in 1 .. 1 |-> 0]
      <4>2. ss[1] \in Seq(A) /\ Len(ss[1]) \in Nat
        BY <1>1, <4>1, LenProperties
      <4>3. off \in [1 .. 1 -> Nat] /\ off[1] = 0 /\ 1 .. 1 = {1}
        OBVIOUS
      <4> HIDE DEF off
      <4>4. Standing(ss, 1, ss[1], off)
        BY <4>2, <4>3 DEF Standing
      <4> QED
        BY <4>1, <4>2, <4>4
    <3>2. CASE n # 0
      <4>1. n \in 1 .. Len(ss) /\ n + 1 # 1 /\ (n + 1) - 1 = n
        BY <1>1, <3>2
      <4>2. f[n] \in Seq(A) /\ \E off : Standing(ss, n, f[n], off)
        BY <2>5, <4>1
      <4>3. f[n + 1] = f[n] \o ss[n + 1]
        BY <2>3, <4>1
      <4>4. f[n + 1] \in Seq(A)
        BY <1>1, <4>2, <4>3, ConcatProperties
      <4> QED
        BY <3>0, <4>2, <4>3, <4>4, StandingNext
    <3> QED
      BY <3>1, <3>2
  <2> HIDE DEF S
  <2>6. Nat \subseteq S
    BY <2>4, <2>5, Induction
  <2>7. Len(ss) \in 1 .. Len(ss)
    BY <1>1, <1>3
  <2> QED
    BY <2>1, <2>6, <2>7, <1>1 DEF S
<1> QED
  BY <1>2, <1>3
=============================================================================
