------------------------------ MODULE JigsawProof ------------------------------
(***************************************************************************)
(* Jigsaw structures of any elements, pools and candidates: no two pieces  *)
(* share a block, unless one was attached inside the other.                *)
(***************************************************************************)
EXTENDS JigsawAssembly, SequenceLemmas, FiniteSetTheorems

-----------------------------------------------------------------------------
(***************************************************************************)
(* Boxes.                                                                  *)
(***************************************************************************)
Solid(b) == b \in Boxes /\ b.x1 <= b.x2 /\ b.y1 <= b.y2

\* What is within a box when deflated by a quarter lies in it.
LEMMA WithinLiesIn ==
  ASSUME NEW b \in Boxes, NEW c \in Boxes, Within(b, c)
  PROVE  LiesIn(b, c)
<1>1. /\ b.x1 \in Int /\ b.x2 \in Int /\ b.y1 \in Int /\ b.y2 \in Int
      /\ c.x1 \in Int /\ c.x2 \in Int /\ c.y1 \in Int /\ c.y2 \in Int
  BY DEF Boxes
<1> QED
  BY <1>1 DEF Within, LiesIn

\* What does not collide with a box when deflated by a quarter is apart from it.
LEMMA NotCollidingApart ==
  ASSUME NEW b \in Boxes, NEW c \in Boxes, ~ Collides(b, c)
  PROVE  Apart(b, c)
<1>1. /\ b.x1 \in Int /\ b.x2 \in Int /\ b.y1 \in Int /\ b.y2 \in Int
      /\ c.x1 \in Int /\ c.x2 \in Int /\ c.y1 \in Int /\ c.y2 \in Int
  BY DEF Boxes
<1> QED
  BY <1>1 DEF Collides, Apart

\* Boxes in boxes that are apart are apart; a solid box is not apart from one it
\* lies in.
LEMMA LiesInApart ==
  ASSUME NEW a \in Boxes, NEW b \in Boxes, NEW c \in Boxes, LiesIn(a, b)
  PROVE  /\ Apart(b, c) => Apart(a, c)
         /\ Apart(c, b) => Apart(c, a)
         /\ LiesIn(b, c) => LiesIn(a, c)
         /\ Solid(a) => ~ Apart(a, b) /\ ~ Apart(b, a)
<1>1. /\ a.x1 \in Int /\ a.x2 \in Int /\ a.y1 \in Int /\ a.y2 \in Int
      /\ b.x1 \in Int /\ b.x2 \in Int /\ b.y1 \in Int /\ b.y2 \in Int
      /\ c.x1 \in Int /\ c.x2 \in Int /\ c.y1 \in Int /\ c.y2 \in Int
  BY DEF Boxes
<1> QED
  BY <1>1 DEF LiesIn, Apart, Solid

\* Being apart goes both ways, and every box lies in itself.
LEMMA ApartBothWays ==
  ASSUME NEW a \in Boxes, NEW b \in Boxes
  PROVE  /\ Apart(a, b) <=> Apart(b, a)
         /\ LiesIn(a, a)
<1>1. /\ a.x1 \in Int /\ a.x2 \in Int /\ a.y1 \in Int /\ a.y2 \in Int
  BY DEF Boxes
<1> QED
  BY <1>1 DEF LiesIn, Apart

-----------------------------------------------------------------------------
(***************************************************************************)
(* Pieces ps in collision spaces ss. own names the piece for whose inside  *)
(* a space was opened; the first space is nobody's.                        *)
(***************************************************************************)
Owners(ss, own) == {own[s] : s \in 2 .. Len(ss)}
Covered(p, s) == \E c \in s.cutouts : LiesIn(p.box, c)

SpacesOK(ps, ss, own) ==
  /\ \A i \in 1 .. Len(ps) : Solid(ps[i].box)
  /\ \A s \in 1 .. Len(ss) : ss[s].allowed \in Boxes /\ ss[s].cutouts \subseteq Boxes
  /\ own \in [2 .. Len(ss) -> 1 .. Len(ps)]
  /\ \A s, t \in 2 .. Len(ss) : own[s] = own[t] => s = t
  /\ \A s \in 2 .. Len(ss) : ss[s].allowed = ps[own[s]].box

\* The first space knows of every piece. To any other a piece is in its way, or
\* is elsewhere, or surrounds it, and then came before the owner or is it.
SpacesKnow(ps, ss, own) ==
  /\ Len(ss) > 0 => \A i \in 1 .. Len(ps) : Covered(ps[i], ss[1])
  /\ \A s \in 2 .. Len(ss), i \in 1 .. Len(ps) :
       \/ Covered(ps[i], ss[s])
       \/ Apart(ps[i].box, ss[s].allowed)
       \/ LiesIn(ss[s].allowed, ps[i].box) /\ i <= own[s]

\* Nothing is in a piece for which no space was opened.
PiecesOK(ps, ss, own) ==
  \A i, j \in 1 .. Len(ps) :
    i < j => /\ Apart(ps[i].box, ps[j].box) \/ LiesIn(ps[j].box, ps[i].box)
             /\ i \notin Owners(ss, own) => Apart(ps[i].box, ps[j].box)

AllOK(ps, ss, own) == SpacesOK(ps, ss, own) /\ SpacesKnow(ps, ss, own) /\ PiecesOK(ps, ss, own)

\* Box b becomes a piece in space k.
Added(ps, ss, qs, ts, k, b) ==
  /\ Len(ps) \in Nat /\ Len(ss) \in Nat /\ k \in 1 .. Len(ss)
  /\ Len(qs) = Len(ps) + 1 /\ qs[Len(ps) + 1].box = b
  /\ \A i \in 1 .. Len(ps) : qs[i].box = ps[i].box
  /\ Len(ts) = Len(ss) /\ \A s \in 1 .. Len(ss) : ts[s].allowed = ss[s].allowed
  /\ ts[k].cutouts = ss[k].cutouts \cup {b}
  /\ \A s \in 1 .. Len(ss) \ {k} : ts[s].cutouts = ss[s].cutouts

\* A piece that is put into a space, apart from all that is in its way there.
LEMMA PieceAdded ==
  ASSUME NEW ps, NEW ss, NEW own, AllOK(ps, ss, own),
         NEW qs, NEW ts, NEW k, NEW b, Added(ps, ss, qs, ts, k, b),
         Solid(b), LiesIn(b, ss[k].allowed), \A c \in ss[k].cutouts : Apart(b, c)
  PROVE  AllOK(qs, ts, own)
<1> USE DEF Added
<1> DEFINE n == Len(ps)
           m == Len(ss)
           new == n + 1
<1>1. /\ n \in Nat /\ m \in Nat /\ new \notin 1 .. n /\ 1 .. Len(qs) = (1 .. n) \cup {new}
      /\ 1 \in 1 .. m /\ 2 .. m \subseteq 1 .. m /\ \A s \in 1 .. m : s # 1 => s \in 2 .. m
  OBVIOUS
<1>2. Len(qs) = new /\ qs[new].box = b /\ Len(ts) = m
  OBVIOUS
<1> HIDE DEF n, m, new
<1>3. /\ \A i \in 1 .. n : Solid(ps[i].box) /\ ps[i].box \in Boxes
      /\ \A s \in 1 .. m : ss[s].allowed \in Boxes /\ ss[s].cutouts \subseteq Boxes
      /\ own \in [2 .. m -> 1 .. n]
      /\ \A s \in 2 .. m : ss[s].allowed = ps[own[s]].box
      /\ b \in Boxes
  BY DEF AllOK, SpacesOK, Solid, n, m
<1>4. /\ \A i \in 1 .. n : Covered(ps[i], ss[1])
      /\ \A s \in 2 .. m, i \in 1 .. n :
           \/ Covered(ps[i], ss[s])
           \/ Apart(ps[i].box, ss[s].allowed)
           \/ LiesIn(ss[s].allowed, ps[i].box) /\ i <= own[s]
  BY <1>1 DEF AllOK, SpacesKnow, n, m
  \* What is in the way of the new piece is apart from it.
<1>5. ASSUME NEW i \in 1 .. n, Covered(ps[i], ss[k]) PROVE Apart(ps[i].box, b)
  <2>1. PICK c \in ss[k].cutouts : LiesIn(ps[i].box, c)
    BY <1>5 DEF Covered
  <2>2. Apart(b, c) /\ c \in Boxes
    BY <1>3, <2>1 DEF m
  <2> QED
    BY <1>3, <2>1, <2>2, LiesInApart, ApartBothWays
  \* The new piece is in a piece, or apart from it.
<1>6. ASSUME NEW i \in 1 .. n
      PROVE  /\ Apart(ps[i].box, b) \/ LiesIn(b, ps[i].box)
             /\ i \notin Owners(ss, own) => Apart(ps[i].box, b)
  <2>1. k \in 1 .. m
    BY DEF m
  <2>2. CASE k = 1
    BY <1>4, <1>5, <2>2
  <2>3. CASE k # 1
    <3>1. k \in 2 .. m
      BY <1>1, <2>1, <2>3
    <3>2. CASE Covered(ps[i], ss[k])
      BY <1>5, <3>2
    <3>3. CASE Apart(ps[i].box, ss[k].allowed)
      <4>1. Apart(ps[i].box, b)
        BY <1>3, <2>1, <3>3, LiesInApart
      <4> QED
        BY <4>1
    <3>4. CASE LiesIn(ss[k].allowed, ps[i].box) /\ i <= own[k]
      <4>1. LiesIn(b, ps[i].box)
        <5>1. b \in Boxes /\ ss[k].allowed \in Boxes /\ ps[i].box \in Boxes /\ LiesIn(b, ss[k].allowed)
          BY <1>3, <2>1
        <5> QED
          BY <3>4, <5>1, LiesInApart
      <4>2. ASSUME i \notin Owners(ss, own) PROVE Apart(ps[i].box, b)
        <5>1. own[k] \in 1 .. n /\ own[k] # i /\ i \in Nat
          BY <1>1, <1>3, <3>1, <4>2, SMTT(30) DEF Owners, m
        <5>2. i < own[k]
          BY <1>1, <3>4, <5>1
        <5>3. Apart(ps[i].box, ps[own[k]].box)
          BY <4>2, <5>1, <5>2 DEF AllOK, PiecesOK, n
        <5>4. ss[k].allowed = ps[own[k]].box /\ Solid(ps[own[k]].box) /\ ps[own[k]].box \in Boxes
          BY <1>3, <3>1, <5>1
        <5>5. FALSE
          BY <1>3, <3>4, <5>3, <5>4, LiesInApart
        <5> QED
          BY <5>5
      <4> QED
        BY <4>1, <4>2
    <3> QED
      BY <1>4, <3>1, <3>2, <3>3, <3>4
  <2> QED
    BY <2>2, <2>3
  \* The other spaces know of it too.
<1>7. ASSUME NEW s \in 2 .. m, s # k
      PROVE  \/ \E c \in ss[s].cutouts : LiesIn(b, c)
             \/ Apart(b, ss[s].allowed)
  <2> DEFINE q == own[s]
  <2>1. q \in 1 .. n /\ s \in 1 .. m /\ ss[s].allowed = ps[q].box
        /\ Solid(ps[q].box) /\ ps[q].box \in Boxes /\ k \in 1 .. m
    BY <1>1, <1>3 DEF m
  <2>2. SUFFICES ASSUME ~ Apart(b, ps[q].box) PROVE \E c \in ss[s].cutouts : LiesIn(b, c)
    BY <2>1
  <2>3. ~ Apart(ps[q].box, b) /\ ~ Covered(ps[q], ss[k])
    BY <1>3, <1>5, <2>1, <2>2, ApartBothWays
  <2>4. k \in 2 .. m
    BY <1>1, <1>4, <2>1, <2>3
  <2> DEFINE p == own[k]
  <2>5. p \in 1 .. n /\ ss[k].allowed = ps[p].box /\ Solid(ps[p].box) /\ ps[p].box \in Boxes
    BY <1>3, <2>4
  <2>6. ~ Apart(ps[q].box, ps[p].box)
    BY <1>3, <2>1, <2>3, <2>5, LiesInApart
  <2>7. LiesIn(ps[p].box, ps[q].box) /\ q <= p
    BY <1>4, <2>1, <2>3, <2>4, <2>5, <2>6
  <2>8. p # q
    BY <1>7, <2>4 DEF AllOK, SpacesOK, m
  <2>9. \/ Covered(ps[p], ss[s])
        \/ Apart(ps[p].box, ps[q].box)
        \/ LiesIn(ps[q].box, ps[p].box) /\ p <= q
    BY <1>4, <2>1, <2>5
  <2>10. ~ Apart(ps[p].box, ps[q].box)
    BY <2>1, <2>5, <2>6, ApartBothWays
  <2>11. ~ (p <= q)
    BY <1>1, <2>1, <2>5, <2>7, <2>8
  <2>12. PICK c \in ss[s].cutouts : LiesIn(ps[p].box, c)
    BY <2>9, <2>10, <2>11 DEF Covered
  <2>13. LiesIn(b, c)
    BY <1>3, <2>1, <2>5, <2>12, LiesInApart
  <2> QED
    BY <2>12, <2>13
<1>8. /\ \A i \in 1 .. n : qs[i].box = ps[i].box
      /\ \A s \in 1 .. m : ts[s].allowed = ss[s].allowed
      /\ \A s \in 1 .. m : s # k => ts[s].cutouts = ss[s].cutouts
      /\ ts[k].cutouts = ss[k].cutouts \cup {b}
      /\ k \in 1 .. m
  BY DEF n, m
<1>9. \A i \in 1 .. n, s \in 1 .. m : Covered(ps[i], ss[s]) => Covered(qs[i], ts[s])
  BY <1>8 DEF Covered
<1>10. Covered(qs[new], ts[k])
  BY <1>2, <1>3, <1>8, ApartBothWays DEF Covered
<1>11. SpacesOK(qs, ts, own)
  <2>1. \A i \in 1 .. Len(qs) : Solid(qs[i].box)
    BY <1>1, <1>2, <1>3, <1>8
  <2>2. \A s \in 1 .. m : ts[s].allowed \in Boxes /\ ts[s].cutouts \subseteq Boxes
    BY <1>3, <1>8
  <2>3. own \in [2 .. m -> 1 .. Len(qs)]
    BY <1>1, <1>3
  <2>4. \A s \in 2 .. m : ts[s].allowed = qs[own[s]].box
    BY <1>1, <1>3, <1>8
  <2>5. \A s, t \in 2 .. m : own[s] = own[t] => s = t
    BY DEF AllOK, SpacesOK, m
  <2> QED
    BY <1>2, <2>1, <2>2, <2>3, <2>4, <2>5 DEF SpacesOK
<1>12. SpacesKnow(qs, ts, own)
  <2>1. Covered(qs[new], ts[1])
    <3>1. CASE k = 1
      BY <1>10, <3>1
    <3>2. CASE k # 1
      <4>1. k \in 2 .. m
        BY <1>1, <1>8, <3>2
      <4> DEFINE p == own[k]
      <4>2. p \in 1 .. n /\ ss[k].allowed = ps[p].box /\ ps[p].box \in Boxes
        BY <1>3, <4>1
      <4>3. PICK c \in ss[1].cutouts : LiesIn(ps[p].box, c)
        BY <1>4, <4>2 DEF Covered
      <4>4. c \in Boxes
        BY <1>1, <1>3, <4>3
      <4>5. LiesIn(b, c)
        BY <1>3, <4>2, <4>3, <4>4, LiesInApart
      <4> QED
        BY <1>1, <1>2, <1>8, <3>2, <4>3, <4>5 DEF Covered
    <3> QED
      BY <3>1, <3>2
  <2>2. \A i \in 1 .. Len(qs) : Covered(qs[i], ts[1])
    BY <1>1, <1>4, <1>9, <2>1
  <2>3. ASSUME NEW s \in 2 .. m, NEW i \in 1 .. Len(qs)
        PROVE  \/ Covered(qs[i], ts[s])
               \/ Apart(qs[i].box, ts[s].allowed)
               \/ LiesIn(ts[s].allowed, qs[i].box) /\ i <= own[s]
    <3>1. s \in 1 .. m
      BY <1>1
    <3>2. CASE i \in 1 .. n
      BY <1>4, <1>8, <1>9, <3>1, <3>2
    <3>3. CASE i = new /\ s = k
      BY <1>10, <3>3
    <3>4. CASE i = new /\ s # k
      BY <1>2, <1>7, <1>8, <3>1, <3>4 DEF Covered
    <3> QED
      BY <1>1, <3>2, <3>3, <3>4
  <2> QED
    BY <1>2, <2>2, <2>3 DEF SpacesKnow
<1>13. PiecesOK(qs, ts, own)
  <2>1. Owners(ts, own) = Owners(ss, own)
    BY <1>2 DEF Owners, m
  <2>2. ASSUME NEW i \in 1 .. Len(qs), NEW j \in 1 .. Len(qs), i < j
        PROVE  /\ Apart(qs[i].box, qs[j].box) \/ LiesIn(qs[j].box, qs[i].box)
               /\ i \notin Owners(ss, own) => Apart(qs[i].box, qs[j].box)
    <3>1. i \in 1 .. n
      BY <1>1, <1>2, <2>2 DEF new
    <3>2. CASE j \in 1 .. n
      BY <1>8, <2>2, <3>1, <3>2 DEF AllOK, PiecesOK, n
    <3>3. CASE j = new
      BY <1>2, <1>6, <1>8, <3>1, <3>3
    <3> QED
      BY <1>1, <3>2, <3>3
  <2> QED
    BY <2>1, <2>2 DEF PiecesOK
<1> QED
  BY <1>11, <1>12, <1>13 DEF AllOK

\* A space that is opened for the inside of a piece that had none.
LEMMA SpaceOpened ==
  ASSUME NEW ps, NEW ss, NEW own, AllOK(ps, ss, own), Len(ps) \in Nat, Len(ss) \in Nat \ {0},
         NEW p \in 1 .. Len(ps), p \notin Owners(ss, own),
         NEW ts, Len(ts) = Len(ss) + 1, \A s \in 1 .. Len(ss) : ts[s] = ss[s],
         ts[Len(ss) + 1] = NewSpace(ps[p].box),
         NEW new, new = [s \in 2 .. Len(ss) + 1 |-> IF s = Len(ss) + 1 THEN p ELSE own[s]]
  PROVE  AllOK(ps, ts, new)
<1> DEFINE n == Len(ps)
           m == Len(ss)
<1>1. /\ n \in Nat /\ m \in Nat /\ m + 1 \notin 1 .. m /\ 1 .. Len(ts) = (1 .. m) \cup {m + 1}
      /\ 2 .. Len(ts) = (2 .. m) \cup {m + 1} /\ 2 .. m \subseteq 1 .. m /\ m + 1 \notin 2 .. m
      /\ 1 \in 1 .. m /\ Len(ts) > 0 /\ 2 .. m + 1 = 2 .. Len(ts) /\ p \in 1 .. n
  OBVIOUS
<1>2. /\ \A s \in 1 .. m : ts[s] = ss[s]
      /\ ts[m + 1].allowed = ps[p].box /\ ts[m + 1].cutouts = {}
      /\ new = [s \in 2 .. Len(ts) |-> IF s = m + 1 THEN p ELSE own[s]]
  BY <1>1 DEF NewSpace
<1>3. /\ \A i \in 1 .. n : Solid(ps[i].box) /\ ps[i].box \in Boxes
      /\ \A s \in 1 .. m : ss[s].allowed \in Boxes /\ ss[s].cutouts \subseteq Boxes
      /\ own \in [2 .. m -> 1 .. n]
      /\ \A s \in 2 .. m : ss[s].allowed = ps[own[s]].box
      /\ \A s, t \in 2 .. m : own[s] = own[t] => s = t
  BY DEF AllOK, SpacesOK, Solid
<1>4. \A s \in 2 .. m : own[s] # p
  BY DEF Owners
<1>5. /\ \A i \in 1 .. n : Covered(ps[i], ss[1])
      /\ \A s \in 2 .. m, i \in 1 .. n :
           \/ Covered(ps[i], ss[s])
           \/ Apart(ps[i].box, ss[s].allowed)
           \/ LiesIn(ss[s].allowed, ps[i].box) /\ i <= own[s]
  BY DEF AllOK, SpacesKnow
<1>6. \A i, j \in 1 .. n :
        i < j => /\ Apart(ps[i].box, ps[j].box) \/ LiesIn(ps[j].box, ps[i].box)
                 /\ i \notin Owners(ss, own) => Apart(ps[i].box, ps[j].box)
  BY DEF AllOK, PiecesOK
<1>7. Owners(ss, own) \subseteq Owners(ts, new)
  <2>1. \A s \in 2 .. m : s \in 2 .. Len(ts) /\ new[s] = own[s]
    BY <1>1, <1>2
  <2> QED
    BY <2>1 DEF Owners
<1> HIDE DEF n, m
<1>8. SpacesOK(ps, ts, new)
  <2>1. \A s \in 1 .. Len(ts) : ts[s].allowed \in Boxes /\ ts[s].cutouts \subseteq Boxes
    BY <1>1, <1>2, <1>3
  <2>2. new \in [2 .. Len(ts) -> 1 .. n]
    BY <1>1, <1>2, <1>3
  <2>3. \A s, t \in 2 .. Len(ts) : new[s] = new[t] => s = t
    BY <1>1, <1>2, <1>3, <1>4
  <2>4. \A s \in 2 .. Len(ts) : ts[s].allowed = ps[new[s]].box
    BY <1>1, <1>2, <1>3
  <2> QED
    BY <1>3, <2>1, <2>2, <2>3, <2>4 DEF SpacesOK, n
<1>9. SpacesKnow(ps, ts, new)
  <2>1. ASSUME NEW i \in 1 .. n
        PROVE  \/ Apart(ps[i].box, ps[p].box)
               \/ LiesIn(ps[p].box, ps[i].box) /\ i <= p
    <3>1. CASE i < p
      BY <1>1, <1>6, <3>1, SMTT(30)
    <3>2. CASE i = p
      BY <1>1, <1>3, <3>2, ApartBothWays
    <3>3. CASE p < i
      <4>1. Apart(ps[p].box, ps[i].box)
        BY <1>1, <1>6, <3>3
      <4>2. ps[p].box \in Boxes /\ ps[i].box \in Boxes
        BY <1>1, <1>3
      <4>3. Apart(ps[i].box, ps[p].box)
        BY <4>1, <4>2, ApartBothWays
      <4> QED
        BY <4>3
    <3> QED
      BY <1>1, <3>1, <3>2, <3>3
  <2>2. ASSUME NEW s \in 2 .. Len(ts), NEW i \in 1 .. n
        PROVE  \/ Covered(ps[i], ts[s])
               \/ Apart(ps[i].box, ts[s].allowed)
               \/ LiesIn(ts[s].allowed, ps[i].box) /\ i <= new[s]
    <3>1. CASE s \in 2 .. m
      BY <1>1, <1>2, <1>5, <3>1
    <3>2. CASE s = m + 1
      BY <1>2, <2>1, <3>2
    <3> QED
      BY <1>1, <3>1, <3>2
  <2> QED
    BY <1>1, <1>2, <1>5, <2>2 DEF SpacesKnow, n
<1>10. PiecesOK(ps, ts, new)
  BY <1>6, <1>7 DEF PiecesOK, n
<1> QED
  BY <1>8, <1>9, <1>10 DEF AllOK

-----------------------------------------------------------------------------
(***************************************************************************)
(* Types.                                                                  *)
(***************************************************************************)
\* The generator knows the height of every column; an instance for model
\* checking only that of the columns it asks for.
GroundEverywhere == \A x \in Int : Surface[x] \in Int

Junctions == [x : Int, y : Int]
Piece ==
  [element : DOMAIN Elements, rotation : Rotations, origin : Int \X Int, box : Boxes,
   ground : Int, junctions : Seq(Junctions), source : Nat, front : Fronts \cup {"none"}]
Space == [allowed : Boxes, cutouts : SUBSET Boxes]
Pending == [piece : Piece, index : Nat, depth : Nat, priority : Int, space : Nat]
Trying ==
  [piece : Piece, index : Nat, depth : Nat, space : Nat, inner : Nat \cup {None},
   surface : Int \cup {None}, todo : SUBSET Jigsaws]

\* A finite set of numbers that is not empty has a greatest one.
LEMMA GreatestOfFinite ==
  ASSUME NEW S \in SUBSET Int, IsFiniteSet(S), S # {}
  PROVE  Max(S) \in S /\ \A y \in S : Max(S) >= y
<1> DEFINE N == {n \in Nat : \A T \in SUBSET Int :
                  IsFiniteSet(T) /\ Cardinality(T) = n /\ T # {} => \E x \in T : \A y \in T : x >= y}
<1>1. 0 \in N
  BY FS_EmptySet
<1>2. ASSUME NEW n \in Nat, n \in N PROVE n + 1 \in N
  <2> SUFFICES ASSUME NEW T \in SUBSET Int, IsFiniteSet(T), Cardinality(T) = n + 1, T # {}
               PROVE  \E x \in T : \A y \in T : x >= y
    OBVIOUS
  <2>1. PICK t \in T : TRUE
    OBVIOUS
  <2> DEFINE U == T \ {t}
  <2>2. IsFiniteSet(U) /\ Cardinality(U) = n
    <3>1. IsFiniteSet(U) /\ Cardinality(U) = Cardinality(T) - 1
      BY <2>1, FS_RemoveElement
    <3> QED
      BY <3>1
  <2>3. CASE U = {}
    BY <2>1, <2>3
  <2>4. CASE U # {}
    <3>1. PICK x \in U : \A y \in U : x >= y
      BY <1>2, <2>2, <2>4
    <3>2. x \in Int /\ t \in Int /\ x \in T /\ T \subseteq Int /\ \A y \in T : y \in U \/ y = t
      BY <2>1, <3>1
    <3>3. CASE x >= t
      BY <3>1, <3>2, <3>3
    <3>4. CASE t >= x
      <4>1. \A y \in T : t >= y
        <5> TAKE y \in T
        <5>1. CASE y = t
          BY <3>2, <5>1
        <5>2. CASE y \in U
          <6>1. x >= y /\ y \in Int
            BY <3>1, <5>2
          <6> QED
            BY <3>2, <3>4, <6>1
        <5> QED
          BY <5>1, <5>2
      <4> QED
        BY <2>1, <4>1
    <3> QED
      BY <3>2, <3>3, <3>4
  <2> QED
    BY <2>3, <2>4
<1> HIDE DEF N
<1>3. Nat \subseteq N
  BY <1>1, <1>2, Induction
<1>4. Cardinality(S) \in N
  BY <1>3, FS_CardinalityType
<1>5. \E x \in S : \A y \in S : x >= y
  BY <1>4 DEF N
<1> QED
  BY <1>5 DEF Max

\* The same of two numbers.
LEMMA OfTwo ==
  ASSUME NEW x \in Int, NEW y \in Int
  PROVE  Max({x, y}) \in Int /\ Min({x, y}) \in Int
<1>1. \E a \in {x, y} : \A b \in {x, y} : a >= b
  <2>1. x >= y \/ y >= x
    OBVIOUS
  <2> QED
    BY <2>1
<1>2. \E a \in {x, y} : \A b \in {x, y} : a =< b
  <2>1. x =< y \/ y =< x
    OBVIOUS
  <2> QED
    BY <2>1
<1>3. Max({x, y}) \in {x, y}
  BY <1>1 DEF Max
<1>4. Min({x, y}) \in {x, y}
  BY <1>2 DEF Min
<1> QED
  BY <1>3, <1>4

\* An element is at least a block wide and high.
LEMMA BoxSolid ==
  ASSUME NEW e \in DOMAIN Elements, NEW origin \in Int \X Int
  PROVE  /\ Solid(Box(e, origin)) /\ Box(e, origin).x1 = origin[1] /\ Box(e, origin).y1 = origin[2]
         /\ Box(e, origin).x2 = origin[1] + Elements[e].size[1] - 1
<1>1. /\ Elements[e].size[1] \in Nat \ {0} /\ Elements[e].size[2] \in Nat \ {0}
      /\ origin[1] \in Int /\ origin[2] \in Int
  BY PoolsAssumption
<1> QED
  BY <1>1 DEF Box, Solid, Boxes

\* Jigsaws that are turned and moved are jigsaws.
LEMMA PlacedType ==
  ASSUME NEW e \in DOMAIN Elements, NEW r \in Rotations, NEW origin \in Int \X Int
  PROVE  Placed(e, r, origin) \subseteq Jigsaws
<1>1. ASSUME NEW j \in Elements[e].jigsaws
      PROVE  [j EXCEPT !.pos = <<origin[1] + Rotated(Elements[e].size, j.pos, r)[1], origin[2] + j.pos[2]>>,
                       !.front = Turned(j.front, r), !.top = Turned(j.top, r)] \in Jigsaws
  <2>1. j \in Jigsaws /\ Elements[e].size[1] \in Int /\ origin[1] \in Int /\ origin[2] \in Int
    BY PoolsAssumption
  <2>2. j.pos[1] \in Int /\ j.pos[2] \in Int /\ j.front \in Fronts /\ j.top \in Tops
    BY <2>1 DEF Jigsaws
  <2>3. <<origin[1] + Rotated(Elements[e].size, j.pos, r)[1], origin[2] + j.pos[2]>> \in Int \X Int
    BY <2>1, <2>2 DEF Rotated
  <2>4. Turned(j.front, r) \in Fronts
    BY <2>2 DEF Turned, Fronts, Opposite
  <2>5. Turned(j.top, r) \in Tops
    BY <2>2 DEF Turned, Tops, Fronts, Opposite
  <2> DEFINE a == <<origin[1] + Rotated(Elements[e].size, j.pos, r)[1], origin[2] + j.pos[2]>>
             f == Turned(j.front, r)
             t == Turned(j.top, r)
  <2> HIDE DEF a, f, t
  <2>6. a \in Int \X Int /\ f \in Fronts /\ t \in Tops
    BY <2>3, <2>4, <2>5 DEF a, f, t
  <2>7. [j EXCEPT !.pos = a, !.front = f, !.top = t] \in Jigsaws
    BY <2>1, <2>6 DEF Jigsaws
  <2> QED
    BY <2>7 DEF a, f, t
<1> QED
  BY <1>1 DEF Placed

\* The room that is left above a low piece is a number of blocks.
LEMMA ExpandToType ==
  ASSUME NEW e, NEW r
  PROVE  ExpandTo(e, r) \in Int
<1> DEFINE h == [d \in DOMAIN Elements |-> Elements[d].size[2]]
           All == {h[d] : d \in DOMAIN Elements}
           onIt == {j \in Placed(e, r, <<0, 0>>) : HasPos(Box(e, <<0, 0>>), InFront(j))}
           pools == {j.pool : j \in onIt} \cap DOMAIN Pools
           fallbacks == {Pools[p].fallback : p \in pools} \cap DOMAIN Pools
           S == {0} \cup UNION {Heights(p) : p \in pools \cup fallbacks}
<1>1. All \subseteq Int
  BY PoolsAssumption
<1>2. IsFiniteSet(All)
  <2>1. h \in Surjection(DOMAIN Elements, All)
    BY DEF Surjection
  <2> QED
    BY <2>1, FS_Surjection, PoolsAssumption
<1>3. \A p \in DOMAIN Pools : Heights(p) \subseteq All
  BY PoolsAssumption DEF Heights
<1>4. pools \cup fallbacks \subseteq DOMAIN Pools
  OBVIOUS
<1>5. ExpandTo(e, r) = IF ~ def.expansion \/ Elements[e].size[2] > 16 THEN 0 ELSE Max(S)
  BY DEF ExpandTo
<1> HIDE DEF pools, fallbacks, All, h
<1>6. S \subseteq All \cup {0}
  BY <1>3, <1>4
<1>7. S \subseteq Int /\ IsFiniteSet(S) /\ S # {}
  <2>1. IsFiniteSet(All \cup {0}) /\ All \cup {0} \subseteq Int
    BY <1>1, <1>2, FS_AddElement
  <2>2. S \subseteq Int /\ S # {}
    BY <1>6, <2>1
  <2> HIDE DEF S
  <2>3. IsFiniteSet(S)
    BY <1>6, <2>1, FS_Subset
  <2> QED
    BY <2>2, <2>3
<1>8. Max(S) \in Int
  BY <1>7, GreatestOfFinite
<1> QED
  BY <1>5, <1>8

\* A box that is expanded keeps its foot.
LEMMA ExpandedSolid ==
  ASSUME NEW b, Solid(b), NEW to \in Int
  PROVE  /\ Solid(Expanded(b, to)) /\ Expanded(b, to).x1 = b.x1 /\ Expanded(b, to).y1 = b.y1
         /\ Expanded(b, to).x2 = b.x2
<1>1. /\ b \in Boxes /\ b.x1 \in Int /\ b.x2 \in Int /\ b.y1 \in Int /\ b.y2 \in Int
      /\ b.x1 <= b.x2 /\ b.y1 <= b.y2
  BY DEF Solid, Boxes
<1>2. CASE to > 0
  <2> DEFINE y == b.y1 + (IF to + 1 > b.y2 - b.y1 THEN to + 1 ELSE b.y2 - b.y1)
  <2>1. y \in Int /\ b.y1 <= y
    BY <1>1, <1>2
  <2>2. Expanded(b, to) = [b EXCEPT !.y2 = y]
    BY <1>2 DEF Expanded
  <2> HIDE DEF y
  <2> QED
    BY <1>1, <2>1, <2>2 DEF Solid, Boxes
<1>3. CASE ~ (to > 0)
  BY <1>1, <1>3 DEF Expanded, Solid
<1> QED
  BY <1>2, <1>3

\* Go's division by two.
LEMMA HalfType ==
  ASSUME NEW n \in Int
  PROVE  Half(n) \in Int
BY DEF Half

\* The range of a structure is a box, if an empty one.
LEMMA RangeBoxType ==
  ASSUME def \in Candidates, NEW x \in Int, NEW y \in Int
  PROVE  RangeBox(x, y) \in Boxes
<1>1. def.distance \in Int /\ def.padding \in Int /\ MinY \in Int /\ MaxY \in Int
  BY CandidatesAssumption, NumbersAssumption
<1>2. /\ Max({y - def.distance, MinY + def.padding}) \in Int
      /\ Min({y + def.distance, MaxY - def.padding}) \in Int
  <2>1. /\ y - def.distance \in Int /\ MinY + def.padding \in Int
        /\ y + def.distance \in Int /\ MaxY - def.padding \in Int
    BY <1>1
  <2> QED
    BY <2>1, OfTwo
<1> QED
  BY <1>1, <1>2 DEF RangeBox, Boxes

\* A start piece may be anchored at a jigsaw of its own.
LEMMA AnchorsType ==
  ASSUME def \in Candidates, NEW r \in Rotations
  PROVE  Anchors(r) \subseteq Int \X Int
<1>1. def.start \in DOMAIN Elements
  BY CandidatesAssumption
<1>2. Placed(def.start, r, <<0, 0>>) \subseteq Jigsaws
  BY <1>1, PlacedType
<1>3. \A j \in Jigsaws : j.pos \in Int \X Int
  BY DEF Jigsaws
<1> QED
  BY <1>2, <1>3 DEF Anchors, AnchorsOf

\* The start piece.
LEMMA RootType ==
  ASSUME GroundEverywhere, def \in Candidates, NEW r \in Rotations, NEW anchor \in Int \X Int,
         NEW height \in def.heights
  PROVE  LET root == RootOf(r, anchor, height)
         IN /\ root \in Piece /\ Solid(root.box) /\ root.source = 0
            /\ root.box.x1 = root.origin[1] /\ root.box.y1 = root.origin[2]
            /\ root.box.x2 = root.origin[1] + Elements[root.element].size[1] - 1
            /\ root.junctions = <<>>
            /\ RangeBox(Half(root.box.x1 + root.box.x2), root.box.y1 + 1 + anchor[2]) \in Boxes
<1> DEFINE flat == Box(def.start, <<-anchor[1], 0>>)
           ground == IF def.project THEN Surface[Half(flat.x1 + flat.x2)] ELSE 0
           origin == <<-anchor[1], height + ground - 1>>
           b == Box(def.start, origin)
<1>1. def.start \in DOMAIN Elements /\ height \in Int /\ anchor[1] \in Int /\ anchor[2] \in Int
  BY CandidatesAssumption
<1>2. Solid(flat)
  BY <1>1, BoxSolid
<1>3. flat.x1 + flat.x2 \in Int
  BY <1>2 DEF Solid, Boxes
<1>4. Half(flat.x1 + flat.x2) \in Int
  BY <1>3, HalfType
<1>5. ground \in Int
  BY <1>4 DEF GroundEverywhere
<1>6. RootOf(r, anchor, height) = Root(def.start, r, origin)
  BY DEF RootOf
<1> HIDE DEF flat, ground
<1>7. origin \in Int \X Int
  BY <1>1, <1>5
<1> HIDE DEF origin
<1>8. /\ Solid(b) /\ b.x1 = origin[1] /\ b.y1 = origin[2]
      /\ b.x2 = origin[1] + Elements[def.start].size[1] - 1
  BY <1>1, <1>7, BoxSolid
<1>9. /\ RootOf(r, anchor, height).box = b
      /\ RootOf(r, anchor, height).origin = origin
      /\ RootOf(r, anchor, height).source = 0
      /\ RootOf(r, anchor, height).element = def.start
      /\ RootOf(r, anchor, height).junctions = <<>>
  BY <1>6 DEF Root
<1>10. Root(def.start, r, origin) \in Piece
  <2>1. <<>> \in Seq(Junctions) /\ b \in Boxes
    BY <1>8, EmptySeq DEF Solid
  <2> QED
    BY <1>1, <1>7, <2>1 DEF Root, Piece
<1>11. RangeBox(Half(b.x1 + b.x2), b.y1 + 1 + anchor[2]) \in Boxes
  <2>1. b.x1 + b.x2 \in Int /\ b.y1 + 1 + anchor[2] \in Int
    BY <1>1, <1>8 DEF Solid, Boxes
  <2>2. Half(b.x1 + b.x2) \in Int
    BY <2>1, HalfType
  <2> QED
    BY <2>1, <2>2, RangeBoxType
<1> QED
  BY <1>6, <1>8, <1>9, <1>10, <1>11

\* What a search finds can be attached and fits.
Suits(s, a) ==
  /\ a.element \in DOMAIN Elements
  /\ a.rotation \in Rotations
  /\ a.jigsaw \in Placed(a.element, a.rotation, <<0, 0>>)
  /\ CanFit(SpaceFor(s), BoxOf(s, a))

\* A search ends with a record; what it found is of those that fit.
LEMMA SearchEnds ==
  ASSUME NEW s, NEW entries, NEW o \in Search(s, entries)
  PROVE  \E f, e, x : /\ o = [found |-> f, ended |-> e, asked |-> x]
                      /\ f # None => f \in Fitting(s, entries)
<1> DEFINE fits == Fitting(s, entries)
           elements == entries \ {Empty}
           asks(es) == \E e \in es : ~ BothRigid(e) /\ Attachments(s, {e}) # {}
           mayAsk == {FALSE, asks(elements \ {a.element : a \in fits})}
           A == {[found |-> a, ended |-> TRUE, asked |-> x \/ asks({a.element})] : a \in fits, x \in mayAsk}
           B == {[found |-> None, ended |-> TRUE, asked |-> x] : x \in {y \in mayAsk : Empty \in entries}}
           C == {[found |-> None, ended |-> FALSE, asked |-> x] :
                   x \in {y \in {asks(elements)} : fits = {} /\ Empty \notin entries}}
<1>1. Search(s, entries) = A \cup B \cup C
  BY DEF Search
<1> HIDE DEF asks, mayAsk, elements, fits
<1>2. CASE o \in A
  <2>1. PICK a \in fits, x \in mayAsk : o = [found |-> a, ended |-> TRUE, asked |-> x \/ asks({a.element})]
    BY <1>2
  <2> QED
    BY <2>1, Zenon DEF fits
<1>3. CASE o \in B
  BY <1>3, Zenon
<1>4. CASE o \in C
  BY <1>4, Zenon
<1> HIDE DEF A, B, C
<1>5. o \in A \/ o \in B \/ o \in C
  BY <1>1
<1> QED
  BY <1>2, <1>3, <1>4, <1>5, Zenon

\* In a list of entries.
LEMMA SearchSuits ==
  ASSUME NEW s, NEW entries \in SUBSET (DOMAIN Elements \cup {Empty}),
         NEW o \in Search(s, entries), o.found # None
  PROVE  Suits(s, o.found)
<1> DEFINE fits == Fitting(s, entries)
<1>1. o.found \in fits
  BY SearchEnds
<1>2. o.found \in Attachments(s, entries) /\ CanFit(SpaceFor(s), BoxOf(s, o.found))
  BY <1>1 DEF Fitting
<1>3. /\ o.found.element \in DOMAIN Elements
      /\ o.found.rotation \in Rotations
      /\ o.found.jigsaw \in Placed(o.found.element, o.found.rotation, <<0, 0>>)
  BY <1>2 DEF Attachments
<1> QED
  BY <1>2, <1>3 DEF Suits

\* In a pool and its fallback.
LEMMA OutcomeSuits ==
  ASSUME NEW s, s.pool \in DOMAIN Pools, NEW o \in Outcomes(s), o.found # None
  PROVE  Suits(s, o.found)
<1>1. Pools[s.pool].entries \in SUBSET (DOMAIN Elements \cup {Empty})
  BY PoolsAssumption
<1>2. Fallback(s) \in SUBSET (DOMAIN Elements \cup {Empty})
  BY PoolsAssumption DEF Fallback
<1> DEFINE first == Search(s, Pools[s.pool].entries)
           second == Search(s, Fallback(s))
<1>3. CASE o \in first
  BY <1>1, <1>3, SearchSuits
<1>4. CASE o \notin first
  <2>1. PICK p \in first, then \in second : o = [then EXCEPT !.asked = @ \/ p.asked]
    BY <1>4 DEF Outcomes
  <2>2. \E f, e, a : then = [found |-> f, ended |-> e, asked |-> a]
    BY SearchEnds
  <2>3. o.found = then.found
    BY <2>1, <2>2
  <2> QED
    BY <1>2, <2>3, SearchSuits
<1> QED
  BY <1>3, <1>4

\* The box of what is attached, and the piece.
LEMMA ChildType ==
  ASSUME GroundEverywhere, def \in Candidates, current \in Trying, Solid(current.piece.box),
         NEW s \in Jigsaws, NEW a, Suits(s, a)
  PROVE  LET child == Child(s, a)
         IN /\ child.piece \in Piece /\ child.piece.box = BoxOf(s, a) /\ Solid(child.piece.box)
            /\ child.piece.box.x1 = child.piece.origin[1]
            /\ child.piece.box.y1 = child.piece.origin[2]
            /\ child.piece.source = current.index
            /\ child.junction \in Junctions
            /\ SurfaceFor(s) \in Int
<1> DEFINE t == a.jigsaw
           p == current.piece
           origin == OriginOf(s, a.element, t)
           dy == DeltaY(s, t)
           flat == Box(a.element, origin)
           to == ExpandTo(a.element, a.rotation)
           box == Expanded(flat, to)
<1>1. a.element \in DOMAIN Elements /\ a.rotation \in Rotations /\ t \in Jigsaws
  <2>1. <<0, 0>> \in Int \X Int
    OBVIOUS
  <2>2. Placed(a.element, a.rotation, <<0, 0>>) \subseteq Jigsaws
    BY <2>1, PlacedType DEF Suits
  <2> QED
    BY <2>2 DEF Suits
<1>2. /\ s.pos[1] \in Int /\ s.pos[2] \in Int /\ s.front \in Fronts
      /\ t.pos[1] \in Int /\ t.pos[2] \in Int
  BY <1>1 DEF Jigsaws
<1>3. StepX[s.front] \in Int /\ StepY[s.front] \in Int
  BY <1>2 DEF Fronts, StepX, StepY
<1>4. p \in Piece /\ current.index \in Nat /\ current.surface \in Int \cup {None}
  BY DEF Trying
<1>5. p.origin[1] \in Int /\ p.origin[2] \in Int /\ p.ground \in Int
  BY <1>4 DEF Piece
<1>6. p.box.y1 \in Int
  BY DEF Solid, Boxes
<1>7. SurfaceFor(s) \in Int
  BY <1>2, <1>4 DEF SurfaceFor, GroundEverywhere
<1>8. Local(s) \in Int
  BY <1>2, <1>5 DEF Local
<1>9. dy \in Int
  BY <1>2, <1>3, <1>8 DEF DeltaY
<1>10. InFront(s)[1] \in Int
  BY <1>2, <1>3 DEF InFront
<1> HIDE DEF dy
<1>11. origin \in Int \X Int
  <2>1. origin = <<InFront(s)[1] - t.pos[1],
                   IF BothRigid(a.element) THEN p.box.y1 + dy ELSE SurfaceFor(s) - t.pos[2]>>
    BY DEF OriginOf, dy
  <2> HIDE DEF origin, t, p
  <2> QED
    BY <1>2, <1>6, <1>7, <1>9, <1>10, <2>1
<1> HIDE DEF origin
<1>12. Solid(flat) /\ flat.x1 = origin[1] /\ flat.y1 = origin[2]
  BY <1>1, <1>11, BoxSolid
<1>13. to \in Int
  BY ExpandToType
<1> HIDE DEF flat, to
<1>14. Solid(box) /\ box.x1 = origin[1] /\ box.y1 = origin[2]
  BY <1>12, <1>13, ExpandedSolid
<1>15. box = BoxOf(s, a)
  BY DEF BoxOf, origin, flat, to
<1> HIDE DEF box
<1> DEFINE shared == IF Elements[p.element].rigid THEN p.box.y1 + Local(s)
                     ELSE IF Elements[a.element].rigid THEN box.y1 + t.pos[2]
                     ELSE SurfaceFor(s) + Half(dy)
           ground == IF Elements[a.element].rigid THEN p.ground - dy ELSE 1
           there == [x |-> s.pos[1], y |-> shared - t.pos[2] + ground]
           here == [x |-> InFront(s)[1], y |-> shared - Local(s) + p.ground]
           piece == [element |-> a.element, rotation |-> a.rotation, origin |-> origin, box |-> box,
                     ground |-> ground, source |-> current.index, front |-> s.front,
                     junctions |-> <<there>>]
<1>16. box \in Boxes /\ box.y1 \in Int
  BY <1>14 DEF Solid, Boxes
<1>17. Half(dy) \in Int
  BY <1>9, HalfType
<1> HIDE DEF t, p
<1>18. shared \in Int
  BY <1>2, <1>6, <1>7, <1>8, <1>16, <1>17
<1>19. ground \in Int
  BY <1>5, <1>9
<1>20. Child(s, a) = [piece |-> piece, junction |-> here]
  BY <1>15 DEF Child, dy, origin, t, p
<1> HIDE DEF shared, ground
<1>21. there \in Junctions /\ here \in Junctions
  BY <1>2, <1>5, <1>8, <1>10, <1>18, <1>19 DEF Junctions
<1> HIDE DEF there, here
<1>22. piece \in Piece
  <2>1. <<there>> \in Seq(Junctions)
    BY <1>21
  <2> QED
    BY <1>1, <1>2, <1>4, <1>11, <1>16, <1>19, <2>1 DEF Piece
<1> QED
  BY <1>7, <1>14, <1>15, <1>20, <1>21, <1>22

\* Queue r is queue q with p put at place i, behind all that are not lower.
PutAt(q, p, r, i) ==
  /\ i \in 1 .. Len(q) + 1
  /\ Len(r) = Len(q) + 1
  /\ \A j \in 1 .. Len(q) : j < i => ~ (p.priority > q[j].priority)
  /\ i <= Len(q) => p.priority > q[i].priority
  /\ \A j \in 1 .. Len(q) + 1 : r[j] = IF j < i THEN q[j] ELSE IF j = i THEN p ELSE q[j - 1]

\* A piece is put somewhere into the queue; the others keep their order.
LEMMA InsertedType ==
  ASSUME NEW K, NEW q \in Seq(K), NEW p \in K
  PROVE  Inserted(q, p) \in Seq(K) /\ \E i : PutAt(q, p, Inserted(q, p), i)
<1> DEFINE after == {i \in DOMAIN q : p.priority > q[i].priority}
           S == after \cup {Len(q) + 1}
           i == Min(S)
<1>1. Len(q) \in Nat /\ DOMAIN q = 1 .. Len(q) /\ \A j \in 1 .. Len(q) : q[j] \in K
  BY LenProperties
<1>2. S \subseteq 1 .. Len(q) + 1 /\ Len(q) + 1 \in S /\ S \subseteq Nat
  BY <1>1
<1>2a. /\ \A j \in 1 .. Len(q) : j \in S <=> p.priority > q[j].priority
       /\ \A j \in S : j <= Len(q) => j \in 1 .. Len(q)
  BY <1>1
<1> HIDE DEF after, S
<1>3. i \in 1 .. Len(q) + 1 /\ i \in Nat /\ i \in S /\ \A j \in S : i =< j
  <2>1. \E n \in S : \A m \in S : n =< m
    BY <1>2, LeastOfSet
  <2>2. i \in S /\ \A j \in S : i =< j
    BY <2>1 DEF Min
  <2> QED
    BY <1>2, <2>2
<1>3a. /\ \A j \in 1 .. Len(q) : j < i => ~ (p.priority > q[j].priority)
       /\ i <= Len(q) => p.priority > q[i].priority
  BY <1>1, <1>2a, <1>3
<1>4. Inserted(q, p) = SubSeq(q, 1, i - 1) \o <<p>> \o SubSeq(q, i, Len(q))
  BY DEF Inserted, InsertAt, after, S
<1> HIDE DEF i
<1> DEFINE a == SubSeq(q, 1, i - 1)
           c == SubSeq(q, i, Len(q))
           b == a \o <<p>>
<1>5. /\ a \in Seq(K) /\ Len(a) = i - 1
      /\ \A j \in 1 .. i - 1 : a[j] = q[j]
  <2>1. i - 1 \in Nat /\ i - 1 <= Len(q)
    BY <1>1, <1>3
  <2> QED
    BY <2>1, Prefix
<1>6. /\ c \in Seq(K) /\ Len(c) = Len(q) - i + 1
      /\ \A j \in 1 .. Len(q) - i + 1 : c[j] = q[i + j - 1]
  <2>1. i \in Int /\ Len(q) \in Int /\ \A j \in i .. Len(q) : q[j] \in K
    BY <1>1, <1>3
  <2>2. /\ SubSeq(q, i, Len(q)) \in Seq(K)
        /\ Len(SubSeq(q, i, Len(q))) = IF i <= Len(q) THEN Len(q) - i + 1 ELSE 0
        /\ \A j \in 1 .. Len(q) - i + 1 : SubSeq(q, i, Len(q))[j] = q[i + j - 1]
    BY <2>1, SubSeqProperties
  <2>3. (IF i <= Len(q) THEN Len(q) - i + 1 ELSE 0) = Len(q) - i + 1
    BY <1>1, <1>3
  <2> QED
    BY <2>2, <2>3
<1> HIDE DEF a, c
<1>7. <<p>> \in Seq(K) /\ Len(<<p>>) = 1 /\ <<p>>[1] = p
  OBVIOUS
<1>8. /\ b \in Seq(K) /\ Len(b) = i
      /\ \A j \in 1 .. i : b[j] = IF j <= i - 1 THEN q[j] ELSE p
  <2>1. /\ a \o <<p>> \in Seq(K) /\ Len(a \o <<p>>) = Len(a) + Len(<<p>>)
        /\ \A j \in 1 .. Len(a) + Len(<<p>>) :
             (a \o <<p>>)[j] = IF j <= Len(a) THEN a[j] ELSE <<p>>[j - Len(a)]
    BY <1>5, <1>7, ConcatProperties
  <2>2. Len(a) + Len(<<p>>) = i
    BY <1>3, <1>5, <1>7
  <2>3. ASSUME NEW j \in 1 .. i PROVE b[j] = IF j <= i - 1 THEN q[j] ELSE p
    <3>1. CASE j <= i - 1
      <4>1. j \in 1 .. i - 1
        BY <1>3, <3>1
      <4> QED
        BY <1>5, <2>1, <2>2, <3>1, <4>1
    <3>2. CASE ~ (j <= i - 1)
      <4>1. j - Len(a) = 1
        BY <1>3, <1>5, <3>2
      <4> QED
        BY <1>5, <1>7, <2>1, <2>2, <3>2, <4>1
    <3> QED
      BY <3>1, <3>2
  <2> QED
    BY <2>1, <2>2, <2>3
<1> HIDE DEF b
<1>9. /\ b \o c \in Seq(K) /\ Len(b \o c) = Len(b) + Len(c)
      /\ \A j \in 1 .. Len(b) + Len(c) : (b \o c)[j] = IF j <= Len(b) THEN b[j] ELSE c[j - Len(b)]
  BY <1>6, <1>8, ConcatProperties
<1>10. Inserted(q, p) = b \o c
  BY <1>4 DEF a, b, c
<1>11. Len(b) + Len(c) = Len(q) + 1
  BY <1>1, <1>3, <1>6, <1>8
<1>12. ASSUME NEW j \in 1 .. Len(q) + 1
       PROVE  Inserted(q, p)[j] = IF j < i THEN q[j] ELSE IF j = i THEN p ELSE q[j - 1]
  <2>1. CASE j <= i
    <3>1. j \in 1 .. i /\ (j <= i - 1 <=> j < i)
      BY <1>3, <2>1
    <3>2. (b \o c)[j] = b[j]
      BY <1>8, <1>9, <1>11, <2>1
    <3> QED
      BY <1>8, <1>10, <2>1, <3>1, <3>2
  <2>2. CASE ~ (j <= i)
    <3>1. j - i \in 1 .. Len(q) - i + 1 /\ i + (j - i) - 1 = j - 1 /\ ~ (j < i) /\ j # i
      BY <1>1, <1>3, <2>2
    <3>2. (b \o c)[j] = c[j - i]
      BY <1>8, <1>9, <1>11, <2>2
    <3>3. c[j - i] = q[i + (j - i) - 1]
      BY <1>6, <3>1
    <3> QED
      BY <1>10, <3>1, <3>2, <3>3
  <2> QED
    BY <2>1, <2>2
<1> QED
  BY <1>3, <1>3a, <1>9, <1>10, <1>11, <1>12 DEF PutAt

-----------------------------------------------------------------------------
(***************************************************************************)
(* The invariant.                                                          *)
(***************************************************************************)
Types ==
  /\ def \in Candidates
  /\ stage \in {"new", "assembling", "built", "failed"}
  /\ pieces \in Seq(Piece)
  /\ spaces \in Seq(Space)
  /\ queue \in Seq(Pending)
  /\ current \in Trying \cup {None}
  /\ \A i \in 1 .. Len(pieces) : /\ pieces[i].box.x1 = pieces[i].origin[1]
                                /\ pieces[i].box.y1 = pieces[i].origin[2]
                                /\ pieces[i].source \in 0 .. Len(pieces)
  /\ \A i \in 1 .. Len(queue) : /\ queue[i].index \in 1 .. Len(pieces)
                               /\ queue[i].space \in 1 .. Len(spaces)
                               /\ queue[i].depth \in 0 .. def.size
  /\ current # None => /\ current.index \in 1 .. Len(pieces)
                       /\ current.space \in 1 .. Len(spaces)
                       /\ current.depth \in 0 .. def.size - 1
  /\ stage = "new" => pieces = <<>> /\ spaces = <<>> /\ queue = <<>> /\ current = None

\* A piece waits at most once, and has no space of its own as long as it waits.
QueueOK(ps, ss, own, q) ==
  /\ \A i \in 1 .. Len(q) : q[i].piece = ps[q[i].index] /\ q[i].index \notin Owners(ss, own)
  /\ \A i, j \in 1 .. Len(q) : q[i].index = q[j].index => i = j

\* The piece that is tried does not wait any more; its space, if it was opened,
\* is the one it knows of.
CurrentOK(ps, ss, own, q, c) ==
  c # None =>
    /\ c.piece = ps[c.index]
    /\ \A i \in 1 .. Len(q) : q[i].index # c.index
    /\ c.inner = None => c.index \notin Owners(ss, own)
    /\ c.inner # None => c.inner \in 2 .. Len(ss) /\ own[c.inner] = c.index

Owned(ps, ss, own, q, c) == AllOK(ps, ss, own) /\ QueueOK(ps, ss, own, q) /\ CurrentOK(ps, ss, own, q, c)

IInv ==
  /\ Types
  /\ \E own : Owned(pieces, spaces, own, queue, current)

\* Lengths are numbers.
LEMMA Lengths ==
  ASSUME Types
  PROVE  Len(pieces) \in Nat /\ Len(spaces) \in Nat /\ Len(queue) \in Nat
BY LenProperties DEF Types

-----------------------------------------------------------------------------
(***************************************************************************)
(* The steps.                                                              *)
(***************************************************************************)
\* The start piece alone, or with the space around it.
LEMMA RootAloneStep ==
  ASSUME GroundEverywhere, IInv, RootAlone
  PROVE  IInv'
<1>0. PICK r \in Rotations :
        \E anchor \in Anchors(r), height \in def.heights : pieces' = <<RootOf(r, anchor, height)>>
  BY DEF RootAlone
<1>1. PICK anchor \in Anchors(r), height \in def.heights : pieces' = <<RootOf(r, anchor, height)>>
  BY <1>0
<1> DEFINE root == RootOf(r, anchor, height)
<1>2. def \in Candidates /\ stage = "new" /\ spaces = <<>> /\ queue = <<>> /\ current = None
      /\ stage' = "built" /\ UNCHANGED <<def, spaces, queue, current>>
  BY DEF RootAlone, IInv, Types
<1>3. anchor \in Int \X Int
  BY <1>2, AnchorsType
<1>4. /\ root \in Piece /\ Solid(root.box) /\ root.source = 0
      /\ root.box.x1 = root.origin[1] /\ root.box.y1 = root.origin[2]
  BY <1>2, <1>3, RootType
<1> HIDE DEF root
<1>5. /\ pieces' = <<root>> /\ pieces' \in Seq(Piece) /\ Len(pieces') = 1 /\ pieces'[1] = root
      /\ spaces' = <<>> /\ spaces' \in Seq(Space) /\ Len(spaces') = 0
      /\ queue' = <<>> /\ queue' \in Seq(Pending) /\ Len(queue') = 0
  BY <1>1, <1>2, <1>4, EmptySeq DEF root
<1>6. Types'
  <2>1. \A i \in 1 .. Len(pieces') : i = 1
    BY <1>5
  <2>2. \A i \in 1 .. Len(pieces') : /\ pieces'[i].box.x1 = pieces'[i].origin[1]
                                    /\ pieces'[i].box.y1 = pieces'[i].origin[2]
                                    /\ pieces'[i].source \in 0 .. Len(pieces')
    BY <1>4, <1>5, <2>1
  <2>3. \A i \in 1 .. Len(queue') : FALSE
    BY <1>5
  <2> QED
    BY <1>2, <1>5, <2>2, <2>3 DEF Types
<1>7. PICK own : own = [s \in 2 .. 0 |-> 1]
  OBVIOUS
<1>8. Owned(pieces', spaces', own, queue', current')
  <2>1. (\A s \in 2 .. Len(spaces') : FALSE) /\ (\A s \in 1 .. Len(spaces') : FALSE)
        /\ (\A i \in 1 .. Len(queue') : FALSE) /\ (\A i \in 1 .. Len(pieces') : i = 1)
        /\ ~ (Len(spaces') > 0) /\ 2 .. Len(spaces') = 2 .. 0
    BY <1>5
  <2>2. SpacesOK(pieces', spaces', own)
    <3>1. own \in [2 .. Len(spaces') -> 1 .. Len(pieces')]
      BY <1>7, <2>1
    <3> QED
      BY <1>4, <1>5, <2>1, <3>1 DEF SpacesOK
  <2>3. SpacesKnow(pieces', spaces', own)
    BY <2>1 DEF SpacesKnow
  <2>4. PiecesOK(pieces', spaces', own)
    BY <2>1 DEF PiecesOK
  <2> QED
    BY <1>2, <2>1, <2>2, <2>3, <2>4 DEF Owned, AllOK, QueueOK, CurrentOK
<1> QED
  BY <1>6, <1>8 DEF IInv

\* What Begin does with the start piece.
Starts(r, anchor, height) ==
  LET root == RootOf(r, anchor, height)
      range == RangeBox(Half(root.box.x1 + root.box.x2), root.box.y1 + 1 + anchor[2])
  IN  /\ FitsPadding(root.box)
      /\ range.x1 <= range.x2 /\ range.y1 <= range.y2
      /\ pieces' = <<root>>
      /\ spaces' = <<[allowed |-> range, cutouts |-> {root.box}]>>
      /\ queue' = <<[piece |-> root, index |-> 1, depth |-> 0, priority |-> 0, space |-> 1]>>

\* The start piece in the first space.
LEMMA BeginStep ==
  ASSUME GroundEverywhere, IInv, Begin
  PROVE  IInv'
<1>0. \E r \in Rotations : \E anchor \in Anchors(r), height \in def.heights : Starts(r, anchor, height)
  BY Zenon DEF Begin, Starts
<1>0a. PICK r \in Rotations : \E anchor \in Anchors(r), height \in def.heights : Starts(r, anchor, height)
  BY <1>0, Zenon
<1>1. PICK anchor \in Anchors(r), height \in def.heights : Starts(r, anchor, height)
  BY <1>0a, Zenon
<1> DEFINE root == RootOf(r, anchor, height)
           range == RangeBox(Half(root.box.x1 + root.box.x2), root.box.y1 + 1 + anchor[2])
           space == [allowed |-> range, cutouts |-> {root.box}]
           pending == [piece |-> root, index |-> 1, depth |-> 0, priority |-> 0, space |-> 1]
<1>2. def \in Candidates /\ stage = "new" /\ current = None /\ def.size > 0
      /\ stage' = "assembling" /\ UNCHANGED <<def, current>>
  BY DEF Begin, IInv, Types
<1>3. anchor \in Int \X Int
  BY <1>2, AnchorsType
<1>4. /\ root \in Piece /\ Solid(root.box) /\ root.source = 0
      /\ root.box.x1 = root.origin[1] /\ root.box.y1 = root.origin[2]
      /\ range \in Boxes
  BY <1>2, <1>3, RootType
<1>5. pieces' = <<root>> /\ spaces' = <<space>> /\ queue' = <<pending>>
  BY <1>1, Zenon DEF Starts
<1> HIDE DEF root, range
<1>6. space \in Space /\ pending \in Pending /\ root.box \in Boxes
  BY <1>4 DEF Space, Pending, Solid
<1>7. /\ pending.piece = root /\ pending.index = 1 /\ pending.depth = 0 /\ pending.space = 1
      /\ space.allowed = range /\ space.cutouts = {root.box}
  OBVIOUS
<1> HIDE DEF space, pending
<1>8. /\ pieces' \in Seq(Piece) /\ Len(pieces') = 1 /\ pieces'[1] = root
      /\ spaces' \in Seq(Space) /\ Len(spaces') = 1 /\ spaces'[1] = space
      /\ queue' \in Seq(Pending) /\ Len(queue') = 1 /\ queue'[1] = pending
  BY <1>4, <1>5, <1>6
<1>9. /\ \A i \in 1 .. Len(pieces') : i = 1
      /\ \A i \in 1 .. Len(spaces') : i = 1
      /\ \A i \in 1 .. Len(queue') : i = 1
      /\ \A i \in 2 .. Len(spaces') : FALSE
      /\ 2 .. Len(spaces') = 2 .. 1
      /\ 1 \in 1 .. Len(pieces') /\ 1 \in 1 .. Len(spaces') /\ 0 \in 0 .. Len(pieces')
  BY <1>8
<1>10. Types'
  <2>1. 0 \in 0 .. def.size
    BY <1>2, CandidatesAssumption
  <2>2. \A i \in 1 .. Len(pieces') : /\ pieces'[i].box.x1 = pieces'[i].origin[1]
                                    /\ pieces'[i].box.y1 = pieces'[i].origin[2]
                                    /\ pieces'[i].source \in 0 .. Len(pieces')
    BY <1>4, <1>8, <1>9
  <2>3. \A i \in 1 .. Len(queue') : /\ queue'[i].index \in 1 .. Len(pieces')
                                   /\ queue'[i].space \in 1 .. Len(spaces')
                                   /\ queue'[i].depth \in 0 .. def.size
    BY <1>7, <1>8, <1>9, <2>1
  <2> QED
    BY <1>2, <1>8, <2>2, <2>3 DEF Types
<1>11. PICK own : own = [s \in 2 .. 1 |-> 1]
  OBVIOUS
<1>12. Owners(spaces', own) = {}
  BY <1>9 DEF Owners
<1>13. AllOK(pieces', spaces', own)
  <2>1. SpacesOK(pieces', spaces', own)
    <3>1. own \in [2 .. Len(spaces') -> 1 .. Len(pieces')]
      BY <1>9, <1>11
    <3>2. \A s \in 1 .. Len(spaces') : spaces'[s].allowed \in Boxes /\ spaces'[s].cutouts \subseteq Boxes
      BY <1>4, <1>6, <1>7, <1>8, <1>9
    <3> QED
      BY <1>4, <1>8, <1>9, <3>1, <3>2 DEF SpacesOK
  <2>2. SpacesKnow(pieces', spaces', own)
    <3>1. Covered(root, space)
      BY <1>6, <1>7, ApartBothWays DEF Covered
    <3> QED
      BY <1>8, <1>9, <3>1 DEF SpacesKnow
  <2>3. PiecesOK(pieces', spaces', own)
    BY <1>9 DEF PiecesOK
  <2> QED
    BY <2>1, <2>2, <2>3 DEF AllOK
<1>14. QueueOK(pieces', spaces', own, queue')
  BY <1>7, <1>8, <1>9, <1>12 DEF QueueOK
<1> QED
  BY <1>2, <1>10, <1>13, <1>14 DEF IInv, Owned, CurrentOK

\* The piece in front of the queue has not been tried, and is not in the rest.
LEMMA TakeStep ==
  ASSUME IInv, Take
  PROVE  IInv'
<1>1. PICK own : Owned(pieces, spaces, own, queue, current)
  BY DEF IInv
<1> DEFINE q == Head(queue)
           rest == Tail(queue)
<1>2. /\ stage = "assembling" /\ queue # <<>>
      /\ current' = IF AtLimit(q.depth) THEN None
                    ELSE [piece |-> q.piece, index |-> q.index, depth |-> q.depth, space |-> q.space,
                          inner |-> None, surface |-> None,
                          todo |-> Placed(q.piece.element, q.piece.rotation, q.piece.origin)]
      /\ queue' = rest /\ UNCHANGED <<def, stage, pieces, spaces>>
  BY DEF Take
<1>3. Types /\ queue \in Seq(Pending) /\ Len(queue) \in Nat \ {0} /\ Len(pieces) \in Nat
  BY <1>2, Lengths, EmptySeq DEF IInv, Types
<1>4. /\ q = queue[1] /\ rest \in Seq(Pending) /\ Len(rest) = Len(queue) - 1
      /\ \A i \in 1 .. Len(rest) : rest[i] = queue[i + 1]
      /\ q \in Pending
  <2>1. queue \in Seq(Pending) /\ queue # <<>>
    BY <1>2, <1>3
  <2> QED
    BY <1>3, <2>1, HeadTailProperties
<1> HIDE DEF q, rest
<1>5. \A i \in 1 .. Len(rest) : i + 1 \in 1 .. Len(queue) /\ i + 1 # 1
  BY <1>3, <1>4
<1>6. 1 \in 1 .. Len(queue)
  BY <1>3
<1>7. /\ q.index \in 1 .. Len(pieces) /\ q.space \in 1 .. Len(spaces) /\ q.depth \in 0 .. def.size
      /\ q.piece \in Piece /\ q.index \in Nat /\ q.depth \in Nat /\ q.space \in Nat /\ def.size \in Int
  BY <1>3, <1>4, <1>6, CandidatesAssumption DEF Types, Pending
<1>8. /\ \A i \in 1 .. Len(rest) : /\ rest[i].piece = pieces[rest[i].index]
                                  /\ rest[i].index \notin Owners(spaces, own)
                                  /\ rest[i].index # q.index
      /\ \A i, j \in 1 .. Len(rest) : rest[i].index = rest[j].index => i = j
      /\ q.piece = pieces[q.index] /\ q.index \notin Owners(spaces, own)
  <2>1. /\ \A i \in 1 .. Len(queue) : /\ queue[i].piece = pieces[queue[i].index]
                                     /\ queue[i].index \notin Owners(spaces, own)
        /\ \A i, j \in 1 .. Len(queue) : queue[i].index = queue[j].index => i = j
    BY <1>1 DEF Owned, QueueOK
  <2>2. \A i \in 1 .. Len(rest) : rest[i].index # q.index
    BY <1>4, <1>5, <1>6, <2>1
  <2>3. \A i, j \in 1 .. Len(rest) : rest[i].index = rest[j].index => i = j
    <3> TAKE i, j \in 1 .. Len(rest)
    <3> HAVE rest[i].index = rest[j].index
    <3>1. i + 1 = j + 1
      BY <1>4, <1>5, <2>1
    <3> QED
      BY <3>1
  <2>4. \A i \in 1 .. Len(rest) : /\ rest[i].piece = pieces[rest[i].index]
                                 /\ rest[i].index \notin Owners(spaces, own)
    <3> TAKE i \in 1 .. Len(rest)
    <3>1. PICK k \in 1 .. Len(queue) : rest[i] = queue[k]
      BY <1>4, <1>5
    <3> QED
      BY <2>1, <3>1
  <2>5. q.piece = pieces[q.index] /\ q.index \notin Owners(spaces, own)
    BY <1>4, <1>6, <2>1
  <2> QED
    BY <2>2, <2>3, <2>4, <2>5
<1>9. current' # None =>
        /\ current' \in Trying /\ current'.index = q.index /\ current'.piece = q.piece
        /\ current'.space = q.space /\ current'.depth = q.depth /\ current'.inner = None
        /\ current'.depth \in 0 .. def.size - 1
  <2> SUFFICES ASSUME current' # None
               PROVE  /\ current' \in Trying /\ current'.index = q.index /\ current'.piece = q.piece
                      /\ current'.space = q.space /\ current'.depth = q.depth /\ current'.inner = None
                      /\ current'.depth \in 0 .. def.size - 1
    OBVIOUS
  <2>1. ~ AtLimit(q.depth)
    BY <1>2
  <2>2. q.depth \in 0 .. def.size - 1
    BY <1>7, <2>1 DEF AtLimit
  <2> DEFINE todo == Placed(q.piece.element, q.piece.rotation, q.piece.origin)
  <2>3. todo \subseteq Jigsaws
    BY <1>7, PlacedType DEF Piece
  <2>4. current' = [piece |-> q.piece, index |-> q.index, depth |-> q.depth, space |-> q.space,
                    inner |-> None, surface |-> None, todo |-> todo]
    BY <1>2, <2>1
  <2> HIDE DEF todo
  <2> QED
    BY <1>7, <2>2, <2>3, <2>4 DEF Trying
<1>10. Types'
  <2>1. \A i \in 1 .. Len(rest) : /\ rest[i].index \in 1 .. Len(pieces)
                                 /\ rest[i].space \in 1 .. Len(spaces)
                                 /\ rest[i].depth \in 0 .. def.size
    BY <1>3, <1>4, <1>5 DEF Types
  <2>2. current' \in Trying \cup {None}
    BY <1>9
  <2>3. current' # None => /\ current'.index \in 1 .. Len(pieces)
                           /\ current'.space \in 1 .. Len(spaces)
                           /\ current'.depth \in 0 .. def.size - 1
    BY <1>7, <1>9
  <2> QED
    BY <1>2, <1>3, <1>4, <2>1, <2>2, <2>3 DEF Types
<1>11. Owned(pieces, spaces, own, rest, current')
  <2>1. QueueOK(pieces, spaces, own, rest)
    BY <1>8 DEF QueueOK
  <2>2. CurrentOK(pieces, spaces, own, rest, current')
    BY <1>8, <1>9 DEF CurrentOK
  <2> QED
    BY <1>1, <2>1, <2>2 DEF Owned
<1> QED
  BY <1>2, <1>10, <1>11 DEF IInv
\* The spaces, the one for the inside of the piece that is tried, and the one for
\* what is attached to its jigsaw s, as Attach has them.
Opened(s) ==
  IF IsInside(s) /\ current.inner = None THEN Append(spaces, NewSpace(current.piece.box)) ELSE spaces
Inner(s) == IF IsInside(s) /\ current.inner = None THEN Len(Opened(s)) ELSE current.inner
Chosen(s) == IF IsInside(s) THEN Inner(s) ELSE current.space

\* The space for what is attached to a jigsaw: the one the piece is in, or one
\* for its inside, which is opened when it is first needed.
LEMMA SpaceChosen ==
  ASSUME IInv, current # None, NEW s, NEW own, Owned(pieces, spaces, own, queue, current)
  PROVE  LET opened == Opened(s)
             inner == Inner(s)
             space == Chosen(s)
         IN
         /\ opened \in Seq(Space) /\ Len(opened) \in Nat /\ Len(spaces) <= Len(opened)
         /\ space \in 1 .. Len(opened) /\ opened[space] = SpaceFor(s)
         /\ inner \in Nat \cup {None}
         /\ \E new : /\ AllOK(pieces, opened, new)
                     /\ Owners(opened, new) \subseteq Owners(spaces, own) \cup {current.index}
                     /\ inner = None => current.index \notin Owners(opened, new)
                     /\ inner # None => inner \in 2 .. Len(opened) /\ new[inner] = current.index
<1> DEFINE p == current.index
           n == Len(spaces)
           opened == Opened(s)
           inner == Inner(s)
           space == Chosen(s)
<1>1. /\ spaces \in Seq(Space) /\ n \in Nat \ {0} /\ current.space \in 1 .. n
      /\ p \in 1 .. Len(pieces) /\ Len(pieces) \in Nat /\ current.piece = pieces[p]
      /\ current.inner \in Nat \cup {None}
      /\ current.inner = None => p \notin Owners(spaces, own)
      /\ current.inner # None => current.inner \in 2 .. n /\ own[current.inner] = p
      /\ AllOK(pieces, spaces, own)
  <2>1. Types /\ AllOK(pieces, spaces, own) /\ CurrentOK(pieces, spaces, own, queue, current)
    BY DEF IInv, Owned
  <2>2. current \in Trying
    BY <2>1 DEF Types
  <2> QED
    BY <2>1, <2>2, Lengths DEF Types, CurrentOK, Trying
<1>2. None \notin Int
  BY NoneAssumption
<1>3. CASE IsInside(s) /\ current.inner = None
  <2>1. NewSpace(pieces[p].box) \in Space
    <3>1. pieces[p].box \in Boxes
      BY <1>1 DEF AllOK, SpacesOK, Solid
    <3> QED
      BY <3>1 DEF NewSpace, Space
  <2>2. opened = Append(spaces, NewSpace(pieces[p].box)) /\ inner = Len(opened) /\ space = inner
    BY <1>1, <1>3 DEF Opened, Inner, Chosen
  <2> HIDE DEF opened, inner, space, n, p
  <2>3. /\ opened \in Seq(Space) /\ Len(opened) = n + 1
        /\ \A i \in 1 .. n : opened[i] = spaces[i]
        /\ opened[n + 1] = NewSpace(pieces[p].box)
    BY <1>1, <2>1, <2>2, AppendProperties DEF n
  <2>4. opened[space] = SpaceFor(s)
    BY <1>1, <1>3, <2>2, <2>3 DEF SpaceFor
  <2>5. PICK new : new = [i \in 2 .. n + 1 |-> IF i = n + 1 THEN p ELSE own[i]]
    OBVIOUS
  <2>6. AllOK(pieces, opened, new)
    <3>1. /\ Len(pieces) \in Nat /\ Len(spaces) \in Nat \ {0}
          /\ p \in 1 .. Len(pieces) /\ p \notin Owners(spaces, own) /\ AllOK(pieces, spaces, own)
      BY <1>1, <1>3 DEF n
    <3>2. /\ Len(opened) = Len(spaces) + 1 /\ \A i \in 1 .. Len(spaces) : opened[i] = spaces[i]
          /\ opened[Len(spaces) + 1] = NewSpace(pieces[p].box)
          /\ new = [i \in 2 .. Len(spaces) + 1 |-> IF i = Len(spaces) + 1 THEN p ELSE own[i]]
      BY <2>3, <2>5 DEF n
    <3> QED
      BY <3>1, <3>2, SpaceOpened
  <2>7. /\ n + 1 \in 2 .. n + 1 /\ 2 .. Len(opened) = 2 .. n + 1
        /\ \A i \in 2 .. n + 1 : i = n + 1 \/ i \in 2 .. n
        /\ inner = n + 1 /\ inner \in Nat /\ n <= Len(opened) /\ space \in 1 .. Len(opened)
    BY <1>1, <2>2, <2>3
  <2>8. Owners(opened, new) \subseteq Owners(spaces, own) \cup {p}
    <3>1. \A i \in 2 .. n + 1 : new[i] = p \/ (i \in 2 .. n /\ new[i] = own[i])
      BY <2>5, <2>7
    <3> QED
      BY <2>7, <3>1 DEF Owners, n
  <2>9. inner # None /\ new[inner] = p /\ Len(opened) \in Nat
    BY <1>1, <1>2, <2>3, <2>5, <2>7
  <2> QED
    BY <2>3, <2>4, <2>6, <2>7, <2>8, <2>9 DEF opened, inner, space, n, p
<1>4. CASE ~ (IsInside(s) /\ current.inner = None)
  <2>1. opened = spaces /\ inner = current.inner /\ space = IF IsInside(s) THEN inner ELSE current.space
    BY <1>4 DEF Opened, Inner, Chosen
  <2> HIDE DEF opened, inner, space
  <2>2. space \in 1 .. Len(opened)
    BY <1>1, <1>4, <2>1
  <2>3. opened[space] = SpaceFor(s)
    BY <1>4, <2>1 DEF SpaceFor
  <2> QED
    BY <1>1, <2>1, <2>2, <2>3 DEF opened, inner, space, p
<1> QED
  BY <1>3, <1>4

\* The new piece comes last, and the one it was attached to is written back.
Grown(ps, qs, p, source, child) ==
  /\ Len(qs) = Len(ps) + 1 /\ qs[Len(ps) + 1] = child /\ qs[p] = source
  /\ \A i \in 1 .. Len(ps) : i # p => qs[i] = ps[i]

\* The pieces after one was attached.
LEMMA PieceAttached ==
  ASSUME GroundEverywhere, IInv, current # None, NEW s \in current.todo, NEW a, Suits(s, a),
         NEW surface, Attach(s, a, surface)
  PROVE  LET p == current.index
             child == Child(s, a).piece
             js == Append(pieces[p].junctions, Child(s, a).junction)
             source == [pieces[p] EXCEPT !.junctions = js]
         IN /\ p \in 1 .. Len(pieces) /\ current.piece = pieces[p] /\ pieces[p] \in Piece
            /\ child \in Piece /\ child.box = BoxOf(s, a) /\ Solid(child.box)
            /\ child.box.x1 = child.origin[1] /\ child.box.y1 = child.origin[2]
            /\ child.source = p /\ js \in Seq(Junctions) /\ source \in Piece
            /\ pieces' \in Seq(Piece) /\ Grown(pieces, pieces', p, source, child)
<1> DEFINE n == Len(pieces)
           p == current.index
           child == Child(s, a).piece
           js == Append(pieces[p].junctions, Child(s, a).junction)
           source == [pieces[p] EXCEPT !.junctions = js]
<1>1. PICK own : Owned(pieces, spaces, own, queue, current)
  BY DEF IInv
<1>2. /\ def \in Candidates /\ pieces \in Seq(Piece) /\ n \in Nat /\ p \in 1 .. n
      /\ current \in Trying /\ s \in Jigsaws /\ current.piece = pieces[p] /\ pieces[p] \in Piece
  <2>1. Types /\ CurrentOK(pieces, spaces, own, queue, current)
    BY <1>1 DEF IInv, Owned
  <2>2. current \in Trying
    BY <2>1 DEF Types
  <2>3. s \in Jigsaws
    BY <2>2 DEF Trying
  <2> QED
    BY <2>1, <2>2, <2>3, Lengths DEF Types, CurrentOK
<1>3. Solid(pieces[p].box)
  BY <1>1, <1>2 DEF Owned, AllOK, SpacesOK
<1>4. /\ child \in Piece /\ child.box = BoxOf(s, a) /\ Solid(child.box)
      /\ child.box.x1 = child.origin[1] /\ child.box.y1 = child.origin[2]
      /\ child.source = p /\ Child(s, a).junction \in Junctions
  BY <1>2, <1>3, ChildType
<1>5. js \in Seq(Junctions)
  BY <1>2, <1>4, AppendProperties DEF Piece
<1>6. pieces' = Append([pieces EXCEPT ![p] = source], child)
  BY <1>2 DEF Attach, WrittenBack
<1> HIDE DEF child, js
<1>7. source \in Piece
  BY <1>2, <1>5 DEF Piece
<1> HIDE DEF source
<1> DEFINE back == [pieces EXCEPT ![p] = source]
<1>8. /\ back \in Seq(Piece) /\ Len(back) = n /\ back[p] = source
      /\ \A i \in 1 .. n : i # p => back[i] = pieces[i]
  BY <1>2, <1>7, ElementReplaced
<1>9. pieces' = Append(back, child)
  BY <1>6
<1> HIDE DEF back
<1>10. /\ pieces' \in Seq(Piece) /\ Len(pieces') = n + 1 /\ pieces'[n + 1] = child
       /\ \A i \in 1 .. n : pieces'[i] = back[i]
  BY <1>4, <1>8, <1>9, AppendProperties
<1>11. Grown(pieces, pieces', p, source, child)
  BY <1>2, <1>8, <1>10 DEF Grown
<1> QED
  BY <1>2, <1>4, <1>5, <1>7, <1>10, <1>11 DEF source, js, child

\* The pieces, the spaces, the queue and the piece that is tried after a piece
\* was attached to it.
LEMMA AttachStep ==
  ASSUME GroundEverywhere, IInv, current # None, UNCHANGED <<def, stage>>,
         NEW s \in current.todo, NEW a, Suits(s, a),
         NEW surface \in Int \cup {None}, Attach(s, a, surface)
  PROVE  IInv'
<1>1. PICK own : Owned(pieces, spaces, own, queue, current)
  BY DEF IInv
<1> DEFINE n == Len(pieces)
           p == current.index
           child == Child(s, a).piece
           js == Append(pieces[p].junctions, Child(s, a).junction)
           source == [pieces[p] EXCEPT !.junctions = js]
           opened == Opened(s)
           inner == Inner(s)
           space == Chosen(s)
           pending == [piece |-> child, index |-> n + 1, depth |-> current.depth + 1,
                       priority |-> s.placement, space |-> space]
           more == Elements[a.element].jigsaws # {} /\ current.depth + 1 <= def.size
<1>2. /\ spaces' = [opened EXCEPT ![space].cutouts = @ \cup {child.box}]
      /\ queue' = IF more THEN Inserted(queue, pending) ELSE queue
      /\ current' = [current EXCEPT
             !.piece = [current.piece EXCEPT !.junctions = Append(current.piece.junctions,
                                                                  Child(s, a).junction)],
             !.inner = inner, !.todo = @ \ {s}, !.surface = surface]
  BY DEF Attach, Opened, Inner, Chosen
<1>3. /\ Types /\ def \in Candidates /\ pieces \in Seq(Piece) /\ queue \in Seq(Pending)
      /\ n \in Nat /\ p \in 1 .. n /\ current \in Trying /\ s \in Jigsaws
      /\ current.depth \in 0 .. def.size - 1 /\ current.piece = pieces[p] /\ pieces[p] \in Piece
      /\ current.space \in 1 .. Len(spaces) /\ stage # "new" /\ Len(queue) \in Nat
      /\ def.size \in Int
  <2>1. Types /\ CurrentOK(pieces, spaces, own, queue, current)
    BY <1>1 DEF IInv, Owned
  <2>2. current \in Trying /\ def \in Candidates
    BY <2>1 DEF Types
  <2>3. s \in Jigsaws
    BY <2>2 DEF Trying
  <2>4. def.size \in Int
    BY <2>2, CandidatesAssumption
  <2> QED
    BY <2>1, <2>2, <2>3, <2>4, Lengths DEF Types, CurrentOK
<1>4. /\ child \in Piece /\ child.box = BoxOf(s, a) /\ Solid(child.box)
      /\ child.box.x1 = child.origin[1] /\ child.box.y1 = child.origin[2]
      /\ child.source = p /\ js \in Seq(Junctions) /\ source \in Piece
      /\ pieces' \in Seq(Piece) /\ Grown(pieces, pieces', p, source, child)
  BY PieceAttached
<1>5. /\ source.box = pieces[p].box /\ source.origin = pieces[p].origin
      /\ source.source = pieces[p].source
      /\ current' = [current EXCEPT !.piece = source, !.inner = inner, !.todo = @ \ {s},
                       !.surface = surface]
  <2>1. current' = [current EXCEPT !.piece = source, !.inner = inner, !.todo = @ \ {s},
                      !.surface = surface]
    BY <1>2, <1>3
  <2> HIDE DEF js
  <2> QED
    BY <1>3, <1>4, <2>1 DEF Piece
<1>6. PICK new :
        /\ opened \in Seq(Space) /\ Len(opened) \in Nat /\ Len(spaces) <= Len(opened)
        /\ space \in 1 .. Len(opened) /\ opened[space] = SpaceFor(s)
        /\ inner \in Nat \cup {None}
        /\ AllOK(pieces, opened, new)
        /\ Owners(opened, new) \subseteq Owners(spaces, own) \cup {p}
        /\ inner = None => p \notin Owners(opened, new)
        /\ inner # None => inner \in 2 .. Len(opened) /\ new[inner] = p
  BY <1>1, SpaceChosen
<1> HIDE DEF child, opened, inner, space, more
<1> HIDE DEF js, source
<1>7. /\ Len(pieces') = n + 1 /\ pieces'[n + 1] = child
      /\ pieces'[p] = source /\ \A i \in 1 .. n : i # p => pieces'[i] = pieces[i]
  BY <1>4 DEF Grown
<1>8. source.box = pieces[p].box /\ source.origin = pieces[p].origin /\ source.source = pieces[p].source
  BY <1>5
<1>9. \A i \in 1 .. n : /\ pieces'[i].box = pieces[i].box
                       /\ pieces'[i].origin = pieces[i].origin
                       /\ pieces'[i].source = pieces[i].source
  BY <1>4, <1>7, <1>8
<1>10. /\ spaces' \in Seq(Space) /\ Len(spaces') = Len(opened)
       /\ \A i \in 1 .. Len(opened) : spaces'[i].allowed = opened[i].allowed
       /\ spaces'[space].cutouts = opened[space].cutouts \cup {child.box}
       /\ \A i \in 1 .. Len(opened) \ {space} : spaces'[i].cutouts = opened[i].cutouts
  <2>1. opened[space] \in Space /\ child.box \in Boxes
    BY <1>4, <1>6, LenProperties DEF Solid
  <2>2. PICK cuts \in SUBSET Boxes : cuts = opened[space].cutouts \cup {child.box}
    BY <2>1 DEF Space
  <2>3. PICK fuller \in Space : /\ fuller = [opened[space] EXCEPT !.cutouts = cuts]
                                /\ fuller.allowed = opened[space].allowed /\ fuller.cutouts = cuts
    <3>1. PICK o \in Space : o = opened[space]
      BY <2>1
    <3>2. /\ [o EXCEPT !.cutouts = cuts] \in Space
          /\ [o EXCEPT !.cutouts = cuts].allowed = o.allowed
          /\ [o EXCEPT !.cutouts = cuts].cutouts = cuts
      BY DEF Space
    <3> QED
      BY <3>1, <3>2
  <2>4. spaces' = [opened EXCEPT ![space] = fuller]
    BY <1>2, <2>2, <2>3
  <2> QED
    BY <1>6, <2>2, <2>3, <2>4, ElementReplaced
<1>11. LiesIn(child.box, opened[space].allowed) /\ \A c \in opened[space].cutouts : Apart(child.box, c)
  <2>1. CanFit(opened[space], child.box)
    BY <1>4, <1>6 DEF Suits
  <2>2. opened[space].allowed \in Boxes /\ opened[space].cutouts \subseteq Boxes /\ child.box \in Boxes
    BY <1>4, <1>6 DEF AllOK, SpacesOK, Solid
  <2> QED
    BY <2>1, <2>2, WithinLiesIn, NotCollidingApart DEF CanFit
<1>12. AllOK(pieces', spaces', new)
  <2>1. /\ AllOK(pieces, opened, new) /\ Len(pieces) \in Nat /\ Len(opened) \in Nat
        /\ space \in 1 .. Len(opened)
        /\ Len(pieces') = Len(pieces) + 1 /\ pieces'[Len(pieces) + 1].box = child.box
        /\ \A i \in 1 .. Len(pieces) : pieces'[i].box = pieces[i].box
    BY <1>3, <1>6, <1>7, <1>9
  <2>2. /\ Len(spaces') = Len(opened)
        /\ \A i \in 1 .. Len(opened) : spaces'[i].allowed = opened[i].allowed
        /\ spaces'[space].cutouts = opened[space].cutouts \cup {child.box}
        /\ \A i \in 1 .. Len(opened) \ {space} : spaces'[i].cutouts = opened[i].cutouts
    BY <1>10
  <2>3. /\ Solid(child.box) /\ LiesIn(child.box, opened[space].allowed)
        /\ \A c \in opened[space].cutouts : Apart(child.box, c)
    BY <1>4, <1>11
  <2>4. Added(pieces, opened, pieces', spaces', space, child.box)
    BY <2>1, <2>2 DEF Added
  <2> QED
    BY <2>1, <2>3, <2>4, PieceAdded
<1>13. Owners(spaces', new) = Owners(opened, new) /\ Owners(opened, new) \subseteq 1 .. n
  <2>1. new \in [2 .. Len(opened) -> 1 .. n]
    BY <1>6 DEF AllOK, SpacesOK
  <2> QED
    BY <1>10, <2>1 DEF Owners
<1>14. /\ \A i \in 1 .. Len(queue) : /\ queue[i].piece = pieces'[queue[i].index]
                                     /\ queue[i].index \notin Owners(spaces', new)
                                     /\ queue[i].index # p
                                     /\ queue[i].index \in 1 .. n
                                     /\ queue[i].space \in 1 .. Len(opened)
                                     /\ queue[i].depth \in 0 .. def.size
       /\ \A i, j \in 1 .. Len(queue) : queue[i].index = queue[j].index => i = j
  <2>1. QueueOK(pieces, spaces, own, queue) /\ CurrentOK(pieces, spaces, own, queue, current)
    BY <1>1 DEF Owned
  <2>2. /\ \A i \in 1 .. Len(queue) : queue[i].index # p
        /\ \A i, j \in 1 .. Len(queue) : queue[i].index = queue[j].index => i = j
    BY <1>3, <2>1 DEF QueueOK, CurrentOK
  <2>3. ASSUME NEW i \in 1 .. Len(queue)
        PROVE  /\ queue[i].index \in 1 .. n
               /\ queue[i].space \in 1 .. Len(opened)
               /\ queue[i].depth \in 0 .. def.size
    <3>1. /\ queue[i].index \in 1 .. n /\ queue[i].space \in 1 .. Len(spaces)
          /\ queue[i].depth \in 0 .. def.size
      BY <1>3 DEF Types
    <3>2. Len(spaces) \in Nat
      BY <1>3, Lengths
    <3> QED
      BY <1>6, <3>1, <3>2
  <2>4. ASSUME NEW i \in 1 .. Len(queue)
        PROVE  queue[i].piece = pieces'[queue[i].index] /\ queue[i].index \notin Owners(spaces', new)
    <3>1. queue[i].piece = pieces[queue[i].index] /\ queue[i].index \notin Owners(spaces, own)
      BY <2>1 DEF QueueOK
    <3>2. queue[i].index # p /\ queue[i].index \in 1 .. n
      BY <2>2, <2>3
    <3> QED
      BY <1>6, <1>7, <1>13, <3>1, <3>2
  <2> QED
    BY <2>2, <2>3, <2>4
<1>15. /\ queue' \in Seq(Pending) /\ QueueOK(pieces', spaces', new, queue')
       /\ \A i \in 1 .. Len(queue') : /\ queue'[i].index \in 1 .. n + 1
                                      /\ queue'[i].space \in 1 .. Len(opened)
                                      /\ queue'[i].depth \in 0 .. def.size
                                      /\ queue'[i].index # p
  <2>1. CASE ~ more
    <3>1. queue' = queue
      BY <1>2, <2>1
    <3>2. \A i \in 1 .. n : i \in 1 .. n + 1
      BY <1>3
    <3> QED
      BY <1>3, <1>14, <3>1, <3>2 DEF QueueOK
  <2>2. CASE more
    <3>1. /\ pending.piece = child /\ pending.index = n + 1 /\ pending.space = space
          /\ pending.depth = current.depth + 1
      OBVIOUS
    <3>2. pending \in Pending /\ current.depth + 1 \in 0 .. def.size
      <4>1. current.depth + 1 \in Nat /\ current.depth + 1 \in 0 .. def.size
        BY <1>3, <2>2 DEF more
      <4>2. s.placement \in Int /\ space \in Nat /\ n + 1 \in Nat
        BY <1>3, <1>6 DEF Jigsaws
      <4> QED
        BY <1>4, <4>1, <4>2 DEF Pending
    <3>3. queue' = Inserted(queue, pending)
      BY <1>2, <2>2
    <3> HIDE DEF pending
    <3>4a. queue' \in Seq(Pending) /\ \E k : PutAt(queue, pending, queue', k)
      BY <1>3, <3>2, <3>3, InsertedType
    <3>4. PICK k \in 1 .. Len(queue) + 1 :
            /\ queue' \in Seq(Pending) /\ Len(queue') = Len(queue) + 1
            /\ \A j \in 1 .. Len(queue) + 1 :
                 queue'[j] = IF j < k THEN queue[j] ELSE IF j = k THEN pending ELSE queue[j - 1]
      BY <3>4a DEF PutAt
    <3> DEFINE h(j) == IF j < k THEN j ELSE j - 1
    <3>5. \A j \in 1 .. Len(queue') :
            IF j = k THEN queue'[j] = pending
            ELSE h(j) \in 1 .. Len(queue) /\ queue'[j] = queue[h(j)]
      BY <1>3, <3>4
    <3>6. \A i, j \in 1 .. Len(queue') : i # k /\ j # k /\ h(i) = h(j) => i = j
      BY <1>3, <3>4, SMTT(30)
    <3> HIDE DEF h
    <3>7. n + 1 \notin 1 .. n /\ n + 1 # p /\ n + 1 \in 1 .. n + 1 /\ \A i \in 1 .. n : i \in 1 .. n + 1
      BY <1>3
    <3>8. ASSUME NEW j \in 1 .. Len(queue')
          PROVE  /\ queue'[j].piece = pieces'[queue'[j].index]
                 /\ queue'[j].index \notin Owners(spaces', new)
                 /\ queue'[j].index \in 1 .. n + 1
                 /\ queue'[j].space \in 1 .. Len(opened)
                 /\ queue'[j].depth \in 0 .. def.size
                 /\ queue'[j].index # p
      <4>1. CASE j = k
        BY <1>6, <1>7, <1>13, <3>1, <3>2, <3>5, <3>7, <4>1
      <4>2. CASE j # k
        BY <1>14, <3>5, <3>7, <4>2, SMTT(30)
      <4> QED
        BY <4>1, <4>2
    <3>9. ASSUME NEW i \in 1 .. Len(queue'), NEW j \in 1 .. Len(queue'),
                 queue'[i].index = queue'[j].index
          PROVE  i = j
      <4>1. \A l \in 1 .. Len(queue') : l # k => queue'[l].index \in 1 .. n
        BY <1>14, <3>5
      <4>2. queue'[k].index = n + 1
        BY <1>3, <3>1, <3>4, <3>5
      <4>3. CASE i # k /\ j # k
        <5>1. h(i) = h(j)
          BY <1>14, <3>5, <3>9, <4>3, SMTT(30)
        <5> QED
          BY <3>6, <4>3, <5>1
      <4>4. CASE i = k \/ j = k
        BY <3>7, <3>9, <4>1, <4>2, <4>4
      <4> QED
        BY <4>3, <4>4
    <3> QED
      BY <3>4, <3>8, <3>9 DEF QueueOK
  <2> QED
    BY <2>1, <2>2
<1>16. /\ current' \in Trying /\ current'.piece = source /\ current'.index = p
       /\ current'.inner = inner /\ current'.space = current.space /\ current'.depth = current.depth
  <2>1. current.todo \ {s} \subseteq Jigsaws
    BY <1>3 DEF Trying
  <2>2. PICK rest \in SUBSET Jigsaws : rest = current.todo \ {s}
    BY <2>1
  <2>3. current' = [current EXCEPT !.piece = source, !.inner = inner, !.todo = rest, !.surface = surface]
    BY <1>5, <2>2
  <2> QED
    BY <1>3, <1>4, <1>6, <1>8, <2>3 DEF Trying
<1>17. CurrentOK(pieces', spaces', new, queue', current')
  <2>1. inner = None => p \notin Owners(spaces', new)
    BY <1>6, <1>13
  <2>2. inner # None => inner \in 2 .. Len(spaces') /\ new[inner] = p
    BY <1>6, <1>10
  <2> QED
    BY <1>7, <1>15, <1>16, <2>1, <2>2 DEF CurrentOK
<1>18. Types'
  <2>1. ASSUME NEW i \in 1 .. Len(pieces')
        PROVE  /\ pieces'[i].box.x1 = pieces'[i].origin[1]
               /\ pieces'[i].box.y1 = pieces'[i].origin[2]
               /\ pieces'[i].source \in 0 .. Len(pieces')
    <3>1. CASE i \in 1 .. n
      <4>1. /\ pieces[i].box.x1 = pieces[i].origin[1]
            /\ pieces[i].box.y1 = pieces[i].origin[2]
            /\ pieces[i].source \in 0 .. n
        BY <1>3, <3>1 DEF Types
      <4>2. /\ pieces'[i].box = pieces[i].box /\ pieces'[i].origin = pieces[i].origin
            /\ pieces'[i].source = pieces[i].source
        BY <1>9, <3>1
      <4>3. 0 .. n \subseteq 0 .. Len(pieces')
        BY <1>3, <1>7
      <4> QED
        BY <4>1, <4>2, <4>3
    <3>2. CASE i = n + 1
      BY <1>3, <1>4, <1>7, <3>2
    <3> QED
      BY <1>3, <1>7, <3>1, <3>2
  <2>2. \A i \in 1 .. Len(queue') : /\ queue'[i].index \in 1 .. Len(pieces')
                                   /\ queue'[i].space \in 1 .. Len(spaces')
                                   /\ queue'[i].depth \in 0 .. def.size
    BY <1>7, <1>10, <1>15
  <2>3. /\ current'.index \in 1 .. Len(pieces')
        /\ current'.space \in 1 .. Len(spaces')
        /\ current'.depth \in 0 .. def.size - 1
    <3>1. Len(spaces) \in Nat
      BY <1>3, Lengths
    <3> QED
      BY <1>3, <1>6, <1>7, <1>10, <1>16, <3>1
  <2>4. def' = def /\ stage' = stage /\ stage \in {"new", "assembling", "built", "failed"}
    BY <1>3 DEF Types
  <2> QED
    BY <1>3, <1>4, <1>10, <1>15, <1>16, <2>1, <2>2, <2>3, <2>4 DEF Types
<1> QED
  BY <1>12, <1>15, <1>17, <1>18 DEF IInv, Owned

\* A jigsaw that is passed over, or for which nothing fits.
LEMMA TryJigsawStep ==
  ASSUME GroundEverywhere, IInv, TryJigsaw
  PROVE  IInv'
<1>1. /\ current # None /\ UNCHANGED <<def, stage>>
      /\ current \in Trying /\ def \in Candidates /\ Types
  BY DEF TryJigsaw, IInv, Types
<1>2. PICK s \in current.todo :
        \E o \in IF s.pool \in DOMAIN Pools THEN Outcomes(s) ELSE {[found |-> None, asked |-> FALSE]} :
          LET surface == IF o.asked THEN SurfaceFor(s) ELSE current.surface IN
          \/ o.found # None /\ Attach(s, o.found, surface)
          \/ /\ o.found = None
             /\ current' = [current EXCEPT !.todo = @ \ {s}, !.surface = surface]
             /\ UNCHANGED <<pieces, spaces, queue>>
  BY Zenon DEF TryJigsaw
<1>3. PICK o \in IF s.pool \in DOMAIN Pools THEN Outcomes(s) ELSE {[found |-> None, asked |-> FALSE]} :
          LET surface == IF o.asked THEN SurfaceFor(s) ELSE current.surface IN
          \/ o.found # None /\ Attach(s, o.found, surface)
          \/ /\ o.found = None
             /\ current' = [current EXCEPT !.todo = @ \ {s}, !.surface = surface]
             /\ UNCHANGED <<pieces, spaces, queue>>
  BY <1>2, Zenon
<1> DEFINE surface == IF o.asked THEN SurfaceFor(s) ELSE current.surface
<1>4. s \in Jigsaws /\ current.surface \in Int \cup {None}
  BY <1>1 DEF Trying
<1>5. SurfaceFor(s) \in Int
  BY <1>4 DEF SurfaceFor, GroundEverywhere, Jigsaws
<1>6. surface \in Int \cup {None}
  BY <1>4, <1>5
<1>7. CASE o.found # None /\ Attach(s, o.found, surface)
  <2>1. s.pool \in DOMAIN Pools /\ o \in Outcomes(s)
    BY <1>3, <1>7
  <2>2. Suits(s, o.found)
    BY <1>7, <2>1, OutcomeSuits
  <2> QED
    BY <1>1, <1>6, <1>7, <2>2, AttachStep
<1>8. CASE /\ o.found = None
           /\ current' = [current EXCEPT !.todo = @ \ {s}, !.surface = surface]
           /\ UNCHANGED <<pieces, spaces, queue>>
  <2> HIDE DEF surface
  <2>1. PICK rest \in SUBSET Jigsaws : rest = current.todo \ {s}
    BY <1>1 DEF Trying
  <2>2. current' = [current EXCEPT !.todo = rest, !.surface = surface]
    BY <1>8, <2>1
  <2>3. /\ current' \in Trying /\ current'.piece = current.piece /\ current'.index = current.index
        /\ current'.inner = current.inner /\ current'.space = current.space
        /\ current'.depth = current.depth
    BY <1>1, <1>6, <2>2 DEF Trying
  <2>4. stage # "new"
    BY <1>1 DEF Types
  <2>5. Types'
    BY <1>1, <1>8, <2>3, <2>4 DEF Types
  <2>6. PICK own : Owned(pieces, spaces, own, queue, current)
    BY DEF IInv
  <2>7. Owned(pieces, spaces, own, queue, current')
    BY <1>1, <2>3, <2>6 DEF Owned, CurrentOK
  <2> QED
    BY <1>8, <2>5, <2>7 DEF IInv
<1> QED
  BY <1>3, <1>7, <1>8

\* The steps that leave the pieces and the spaces alone.
LEMMA OtherSteps ==
  ASSUME IInv, Fail \/ Leave \/ Finish \/ Stored \/ UNCHANGED vars
  PROVE  IInv'
<1>1. Types
  BY DEF IInv
<1>2. PICK own : Owned(pieces, spaces, own, queue, current)
  BY DEF IInv
<1>3. UNCHANGED <<def, pieces, spaces, queue>>
  BY DEF Fail, Leave, Finish, Stored, vars
<1>4. current' = current \/ current' = None
  BY DEF Fail, Leave, Finish, Stored, vars
<1>5. /\ stage' \in {"new", "assembling", "built", "failed"}
      /\ stage' = "new" => stage = "new" /\ (current' = current \/ current # None)
  BY <1>1 DEF Fail, Leave, Finish, Stored, vars, Types
<1>6. Types'
  BY <1>1, <1>3, <1>4, <1>5 DEF Types
<1>7. Owned(pieces, spaces, own, queue, current')
  BY <1>2, <1>4 DEF Owned, CurrentOK
<1> QED
  BY <1>3, <1>6, <1>7 DEF IInv

\* IInv holds at the start.
LEMMA InitHolds ==
  ASSUME Init
  PROVE  IInv
<1>1. /\ pieces = <<>> /\ spaces = <<>> /\ queue = <<>> /\ current = None
      /\ Len(pieces) = 0 /\ Len(spaces) = 0 /\ Len(queue) = 0
      /\ pieces \in Seq(Piece) /\ spaces \in Seq(Space) /\ queue \in Seq(Pending)
  BY EmptySeq DEF Init
<1>2. (\A i \in 1 .. Len(pieces) : FALSE) /\ (\A i \in 1 .. Len(queue) : FALSE)
      /\ (\A i \in 1 .. Len(spaces) : FALSE) /\ (\A i \in 2 .. Len(spaces) : FALSE)
  BY <1>1
<1>3. Types
  BY <1>1, <1>2 DEF Types, Init
<1>4. PICK own : own = [s \in 2 .. Len(spaces) |-> 1]
  OBVIOUS
<1>5. own \in [2 .. Len(spaces) -> 1 .. Len(pieces)]
  BY <1>2, <1>4
<1>6. AllOK(pieces, spaces, own)
  BY <1>1, <1>2, <1>5 DEF AllOK, SpacesOK, SpacesKnow, PiecesOK
<1>7. QueueOK(pieces, spaces, own, queue) /\ CurrentOK(pieces, spaces, own, queue, current)
  BY <1>1, <1>2 DEF QueueOK, CurrentOK
<1> QED
  BY <1>3, <1>6, <1>7 DEF IInv, Owned

\* IInv holds in every state: the pieces and the spaces are as SpacesOK,
\* SpacesKnow and PiecesOK have it, and what waits or is tried is a copy of the
\* stored piece (buildPlannedStructure's loop).
THEOREM IInvAlways ==
  ASSUME GroundEverywhere
  PROVE  Spec => []IInv
<1>1. Init => IInv
  BY InitHolds
<1>2. IInv /\ [Next]_vars => IInv'
  BY RootAloneStep, BeginStep, TakeStep, TryJigsawStep, OtherSteps DEF Next
<1> QED
  BY <1>1, <1>2, PTL DEF Spec

\* PiecesApart always holds: canFit and occupy keep the boxes of the pieces
\* apart, whatever the elements, the pools, the priorities and the shuffles.
THEOREM PiecesStayApart ==
  ASSUME GroundEverywhere
  PROVE  Spec => []PiecesApart
<1>1. IInv => PiecesApart
  <2> SUFFICES ASSUME IInv PROVE PiecesApart
    OBVIOUS
  <2>1. pieces \in Seq(Piece) /\ \E own : PiecesOK(pieces, spaces, own)
    BY DEF IInv, Types, Owned, AllOK
  <2>2. DOMAIN pieces = 1 .. Len(pieces)
    BY <2>1, LenProperties
  <2> QED
    BY <2>1, <2>2 DEF PiecesApart, PiecesOK
<1> QED
  BY <1>1, IInvAlways, PTL
-----------------------------------------------------------------------------
(***************************************************************************)
(* Junctions.                                                              *)
(***************************************************************************)
Children(ps, i) == {j \in 1 .. Len(ps) : ps[j].source = i}
Rank(ps, i, j) == Cardinality({k \in Children(ps, i) : k <= j})
First(p) == IF p.source = 0 THEN 0 ELSE 1

\* The two ends of the junction of a piece and one that was attached to it.
Facing(p, child, here, there) ==
  /\ here.x = there.x + StepX[child.front]
  /\ there.x \in p.box.x1 .. p.box.x2
  /\ here.x \in child.box.x1 .. child.box.x2
  /\ Elements[p.element].rigid /\ Elements[child.element].rigid => here.y = there.y + StepY[child.front]

\* A piece is as wide as its element: only its top is expanded.
AsWide(p) == p.box.x2 = p.origin[1] + Elements[p.element].size[1] - 1

LinkedAt(ps, i) ==
  /\ Len(ps[i].junctions) = First(ps[i]) + Cardinality(Children(ps, i))
  /\ \A j \in Children(ps, i) :
       Facing(ps[i], ps[j], ps[i].junctions[First(ps[i]) + Rank(ps, i, j)], ps[j].junctions[1])

Linked(ps) == \A i \in 1 .. Len(ps) : LinkedAt(ps, i) /\ AsWide(ps[i])

\* The jigsaws that are tried are those of the piece, where it was put.
TodoOK(c) == c # None => c.todo \subseteq Placed(c.piece.element, c.piece.rotation, c.piece.origin)

JInv == IInv /\ Linked(pieces) /\ TodoOK(current)

\* The children of a piece can be counted.
LEMMA ChildrenFinite ==
  ASSUME NEW ps, Len(ps) \in Nat, NEW i
  PROVE  /\ IsFiniteSet(Children(ps, i)) /\ Cardinality(Children(ps, i)) \in Nat
         /\ \A j \in Children(ps, i) : Rank(ps, i, j) \in 1 .. Cardinality(Children(ps, i))
<1> DEFINE C == Children(ps, i)
<1>1. IsFiniteSet(1 .. Len(ps)) /\ C \in SUBSET (1 .. Len(ps))
  BY FS_Interval DEF Children
<1>2. IsFiniteSet(C)
  BY <1>1, FS_Subset
<1>3. Cardinality(C) \in Nat
  BY <1>2, FS_CardinalityType
<1> HIDE DEF C
<1>4. ASSUME NEW j \in C PROVE Rank(ps, i, j) \in 1 .. Cardinality(C)
  <2> DEFINE T == {k \in C : k <= j}
  <2>1. T \in SUBSET C /\ j \in T /\ T # {}
    BY <1>1
  <2>2. Rank(ps, i, j) = Cardinality(T)
    BY DEF Rank, C
  <2> HIDE DEF T
  <2>3. IsFiniteSet(T) /\ Cardinality(T) <= Cardinality(C)
    BY <1>2, <2>1, FS_Subset
  <2>4. Cardinality(T) \in Nat /\ Cardinality(T) # 0
    BY <2>1, <2>3, FS_CardinalityType, FS_EmptySet
  <2> QED
    BY <1>3, <2>2, <2>3, <2>4
<1> QED
  BY <1>2, <1>3, <1>4 DEF C

\* A piece that is attached has a junction, and so has the one it is attached to.
LEMMA LinkAdded ==
  ASSUME NEW ps \in Seq(Piece), NEW qs, Linked(ps),
         \A i \in 1 .. Len(ps) : ps[i].source \in 0 .. Len(ps),
         NEW p \in 1 .. Len(ps), NEW here, NEW there, NEW source, NEW child,
         source = [ps[p] EXCEPT !.junctions = Append(ps[p].junctions, here)],
         Append(ps[p].junctions, here) \in Seq(Junctions), here \in Junctions,
         child.source = p, child.junctions = <<there>>, AsWide(child),
         Facing(ps[p], child, here, there), Grown(ps, qs, p, source, child)
  PROVE  Linked(qs)
<1> DEFINE n == Len(ps)
           js == Append(ps[p].junctions, here)
<1>1. /\ n \in Nat /\ p \in 1 .. n /\ Len(qs) = n + 1 /\ 1 .. Len(qs) = (1 .. n) \cup {n + 1}
      /\ n + 1 \notin 1 .. n /\ Len(qs) \in Nat /\ p # n + 1
      /\ ps[p] \in Piece /\ \A i \in 1 .. n : ps[i] \in Piece
  BY LenProperties DEF Grown
<1>2. /\ qs[n + 1] = child /\ qs[p] = source /\ \A i \in 1 .. n : i # p => qs[i] = ps[i]
  BY DEF Grown
<1>3. /\ \A i \in 1 .. n : LinkedAt(ps, i) /\ AsWide(ps[i])
      /\ \A i \in 1 .. n : ps[i].source \in 0 .. n
  BY DEF Linked
<1>4. /\ ps[p].junctions \in Seq(Junctions) /\ Len(ps[p].junctions) \in Nat
      /\ js \in Seq(Junctions) /\ Len(js) = Len(ps[p].junctions) + 1
      /\ js[Len(ps[p].junctions) + 1] = here
      /\ \A k \in 1 .. Len(ps[p].junctions) : js[k] = ps[p].junctions[k]
  <2>1. ps[p].junctions \in Seq(Junctions)
    BY <1>1 DEF Piece
  <2> QED
    BY <2>1, AppendProperties, LenProperties
<1>5. source = [ps[p] EXCEPT !.junctions = js]
  OBVIOUS
<1> HIDE DEF n, js
<1>6. /\ source.junctions = js /\ source.source = ps[p].source /\ source.box = ps[p].box
      /\ source.element = ps[p].element /\ source.front = ps[p].front /\ source.origin = ps[p].origin
  BY <1>1, <1>5 DEF Piece
<1>7. \A i \in 1 .. n : /\ qs[i].source = ps[i].source /\ qs[i].box = ps[i].box
                       /\ qs[i].element = ps[i].element /\ qs[i].front = ps[i].front
                       /\ qs[i].origin = ps[i].origin
  BY <1>2, <1>6
<1>8. \A i \in 1 .. n : Len(ps[i].junctions) \in Nat
  BY <1>1, LenProperties DEF Piece
  \* Junctions are only added.
<1>9. \A i \in 1 .. n : \A k \in 1 .. Len(ps[i].junctions) : qs[i].junctions[k] = ps[i].junctions[k]
  <2> TAKE i \in 1 .. n
  <2>1. CASE i # p
    BY <1>2, <2>1
  <2>2. CASE i = p
    <3>1. qs[i].junctions = js /\ ps[i].junctions = ps[p].junctions
      BY <1>2, <1>6, <2>2
    <3> QED
      BY <1>4, <3>1
  <2> QED
    BY <2>1, <2>2
<1>10. ASSUME NEW i \in 1 .. n, i # p PROVE Children(qs, i) = Children(ps, i)
  BY <1>1, <1>2, <1>7, <1>10 DEF Children, n
<1>11. Children(qs, p) = Children(ps, p) \cup {n + 1} /\ n + 1 \notin Children(ps, p)
  BY <1>1, <1>2, <1>7 DEF Children, n
<1>12. Children(qs, n + 1) = {}
  <2>1. \A j \in 1 .. Len(qs) : qs[j].source # n + 1
    BY <1>1, <1>2, <1>3, <1>7, SMTT(30)
  <2> QED
    BY <2>1 DEF Children
<1>13. \A i \in 1 .. n : Children(ps, i) \subseteq 1 .. n
  BY DEF Children, n
<1>14. ASSUME NEW i \in 1 .. n, NEW j \in Children(ps, i) PROVE Rank(qs, i, j) = Rank(ps, i, j)
  <2>1. j \in 1 .. n /\ ~ (n + 1 <= j)
    BY <1>1, <1>13
  <2>2. {k \in Children(qs, i) : k <= j} = {k \in Children(ps, i) : k <= j}
    BY <1>10, <1>11, <2>1
  <2> QED
    BY <2>2 DEF Rank
<1>15. \A i \in 1 .. n :
         /\ IsFiniteSet(Children(ps, i)) /\ Cardinality(Children(ps, i)) \in Nat
         /\ \A j \in Children(ps, i) : Rank(ps, i, j) \in 1 .. Cardinality(Children(ps, i))
  BY <1>1, ChildrenFinite DEF n
<1>16. Cardinality(Children(qs, p)) = Cardinality(Children(ps, p)) + 1
  <2>1. IsFiniteSet(Children(ps, p))
    BY <1>1, <1>15
  <2> QED
    BY <1>11, <2>1, FS_AddElement
<1>17. Rank(qs, p, n + 1) = Cardinality(Children(ps, p)) + 1
  <2>1. \A k \in Children(qs, p) : k <= n + 1
    BY <1>1, <1>11, <1>13
  <2>2. {k \in Children(qs, p) : k <= n + 1} = Children(qs, p)
    BY <2>1
  <2> QED
    BY <1>16, <2>2 DEF Rank
<1>18. \A i \in 1 .. n : /\ First(qs[i]) = First(ps[i]) /\ First(ps[i]) \in {0, 1}
                        /\ Len(ps[i].junctions) = First(ps[i]) + Cardinality(Children(ps, i))
  BY <1>3, <1>7 DEF LinkedAt, First
  \* The links there were.
<1>19. ASSUME NEW i \in 1 .. n, NEW j \in Children(ps, i)
       PROVE  Facing(qs[i], qs[j], qs[i].junctions[First(qs[i]) + Rank(qs, i, j)], qs[j].junctions[1])
  <2>1. Facing(ps[i], ps[j], ps[i].junctions[First(ps[i]) + Rank(ps, i, j)], ps[j].junctions[1])
    BY <1>3 DEF LinkedAt
  <2>2. j \in 1 .. n /\ ps[j].source = i
    BY <1>13 DEF Children
  <2>3. First(ps[j]) = 1 /\ Len(ps[j].junctions) \in Nat \ {0}
    <3>1. First(ps[j]) = 1
      BY <2>2 DEF First
    <3> QED
      BY <1>15, <1>18, <2>2, <3>1
  <2>4. qs[j].junctions[1] = ps[j].junctions[1]
    BY <1>9, <2>2, <2>3
  <2>5. First(ps[i]) + Rank(ps, i, j) \in 1 .. Len(ps[i].junctions)
    <3>1. Rank(ps, i, j) \in 1 .. Cardinality(Children(ps, i)) /\ Cardinality(Children(ps, i)) \in Nat
      BY <1>15
    <3> QED
      BY <1>18, <3>1, SMTT(30)
  <2>6. qs[i].junctions[First(qs[i]) + Rank(qs, i, j)] = ps[i].junctions[First(ps[i]) + Rank(ps, i, j)]
    BY <1>9, <1>14, <1>18, <2>5
  <2> QED
    BY <1>7, <2>1, <2>2, <2>4, <2>6 DEF Facing
<1>20. ASSUME NEW i \in 1 .. n PROVE LinkedAt(qs, i)
  <2>1. CASE i # p
    BY <1>2, <1>10, <1>18, <1>19, <2>1 DEF LinkedAt
  <2>2. CASE i = p
    <3>1. Len(qs[p].junctions) = First(qs[p]) + Cardinality(Children(qs, p))
      <4>1. Cardinality(Children(ps, p)) \in Nat
        BY <1>1, <1>15
      <4>2. Len(qs[p].junctions) = Len(ps[p].junctions) + 1
        BY <1>2, <1>4, <1>6
      <4>3. /\ First(qs[p]) = First(ps[p]) /\ First(ps[p]) \in {0, 1}
            /\ Len(ps[p].junctions) = First(ps[p]) + Cardinality(Children(ps, p))
        BY <1>1, <1>18
      <4>4. Cardinality(Children(qs, p)) = Cardinality(Children(ps, p)) + 1
        BY <1>16
      <4> QED
        BY <4>1, <4>2, <4>3, <4>4
    <3>2. Facing(qs[p], qs[n + 1], qs[p].junctions[First(qs[p]) + Rank(qs, p, n + 1)],
                 qs[n + 1].junctions[1])
      <4>1. First(qs[p]) + Rank(qs, p, n + 1) = Len(ps[p].junctions) + 1
        <5>1. Cardinality(Children(ps, p)) \in Nat
          BY <1>1, <1>15
        <5>2. /\ First(qs[p]) = First(ps[p]) /\ First(ps[p]) \in {0, 1}
              /\ Len(ps[p].junctions) = First(ps[p]) + Cardinality(Children(ps, p))
          BY <1>1, <1>18
        <5> QED
          BY <1>17, <5>1, <5>2
      <4>2. qs[p].junctions[Len(ps[p].junctions) + 1] = here
        BY <1>2, <1>4, <1>6
      <4>3. qs[n + 1].junctions[1] = there
        BY <1>2
      <4>4. Facing(qs[p], qs[n + 1], here, there)
        BY <1>1, <1>2, <1>7 DEF Facing
      <4> QED
        BY <4>1, <4>2, <4>3, <4>4
    <3> QED
      BY <1>11, <1>19, <2>2, <3>1, <3>2 DEF LinkedAt
  <2> QED
    BY <2>1, <2>2
<1>21. LinkedAt(qs, n + 1)
  <2>1. Len(<<there>>) = 1 /\ First(qs[n + 1]) = 1
    BY <1>1, <1>2 DEF First
  <2>2. Cardinality(Children(qs, n + 1)) = 0
    BY <1>12, FS_EmptySet
  <2>3. Len(qs[n + 1].junctions) = 1
    BY <1>2, <2>1
  <2> QED
    BY <1>12, <2>1, <2>2, <2>3 DEF LinkedAt
<1>22. \A i \in 1 .. Len(qs) : AsWide(qs[i])
  <2>1. \A i \in 1 .. n : AsWide(ps[i])
    BY <1>3
  <2>2. \A i \in 1 .. n : AsWide(qs[i])
    BY <1>7, <2>1, SMTT(30) DEF AsWide
  <2>3. AsWide(qs[n + 1])
    BY <1>1, <1>2, SMTT(30) DEF AsWide
  <2> QED
    BY <1>1, <1>2, <2>2, <2>3
<1>23. \A i \in 1 .. Len(qs) : i \in 1 .. n \/ i = n + 1
  BY <1>1, <1>2
<1> QED
  BY <1>20, <1>21, <1>22, <1>23, Zenon DEF Linked
\* A jigsaw of a piece stands within its width.
LEMMA PlacedInside ==
  ASSUME NEW e \in DOMAIN Elements, NEW r \in Rotations, NEW origin \in Int \X Int,
         NEW j \in Placed(e, r, origin)
  PROVE  j.pos[1] \in origin[1] .. origin[1] + Elements[e].size[1] - 1
<1>1. PICK k \in Elements[e].jigsaws :
        j = [k EXCEPT !.pos = <<origin[1] + Rotated(Elements[e].size, k.pos, r)[1], origin[2] + k.pos[2]>>,
                      !.front = Turned(k.front, r), !.top = Turned(k.top, r)]
  BY DEF Placed
<1>2. /\ k \in Jigsaws /\ k.pos[1] \in 0 .. Elements[e].size[1] - 1 /\ Elements[e].size[1] \in Nat
      /\ origin[1] \in Int
  BY PoolsAssumption
<1>3. Rotated(Elements[e].size, k.pos, r)[1] \in 0 .. Elements[e].size[1] - 1
  BY <1>2 DEF Rotated
<1>4. j.pos[1] = origin[1] + Rotated(Elements[e].size, k.pos, r)[1]
  BY <1>1, <1>2 DEF Jigsaws
<1> QED
  BY <1>2, <1>3, <1>4

\* The junctions of the new piece and of the one it is attached to.
LEMMA ChildFaces ==
  ASSUME GroundEverywhere, JInv, current # None, NEW s \in current.todo, NEW a, Suits(s, a)
  PROVE  LET child == Child(s, a).piece
         IN /\ AsWide(child) /\ Child(s, a).junction \in Junctions
            /\ \E there : /\ child.junctions = <<there>>
                          /\ Facing(pieces[current.index], child, Child(s, a).junction, there)
<1> DEFINE t == a.jigsaw
           p == current.piece
           dy == DeltaY(s, t)
           origin == OriginOf(s, a.element, t)
           box == BoxOf(s, a)
           shared == IF Elements[p.element].rigid THEN p.box.y1 + Local(s)
                     ELSE IF Elements[a.element].rigid THEN box.y1 + t.pos[2]
                     ELSE SurfaceFor(s) + Half(dy)
           ground == IF Elements[a.element].rigid THEN p.ground - dy ELSE 1
           there == [x |-> s.pos[1], y |-> shared - t.pos[2] + ground]
           here == [x |-> InFront(s)[1], y |-> shared - Local(s) + p.ground]
           piece == [element |-> a.element, rotation |-> a.rotation, origin |-> origin, box |-> box,
                     ground |-> ground, source |-> current.index, front |-> s.front,
                     junctions |-> <<there>>]
<1>1. /\ def \in Candidates /\ current \in Trying /\ current.index \in 1 .. Len(pieces)
      /\ p = pieces[current.index] /\ p \in Piece /\ Solid(p.box) /\ AsWide(p)
      /\ p.box.x1 = p.origin[1]
  <2>1. PICK own : Owned(pieces, spaces, own, queue, current)
    BY DEF JInv, IInv
  <2>2. Types /\ Linked(pieces) /\ CurrentOK(pieces, spaces, own, queue, current)
        /\ AllOK(pieces, spaces, own)
    BY <2>1 DEF JInv, IInv, Owned
  <2>3. /\ current \in Trying /\ def \in Candidates /\ current.index \in 1 .. Len(pieces)
        /\ pieces[current.index].box.x1 = pieces[current.index].origin[1]
    BY <2>2 DEF Types
  <2>4. p = pieces[current.index] /\ p \in Piece
    BY <2>2, <2>3 DEF CurrentOK, Trying
  <2>5. Solid(p.box) /\ AsWide(p)
    BY <2>2, <2>3, <2>4 DEF AllOK, SpacesOK, Linked
  <2> QED
    BY <2>3, <2>4, <2>5
<1>2. s \in Jigsaws /\ s \in Placed(p.element, p.rotation, p.origin)
  BY <1>1 DEF JInv, TodoOK, Trying
<1>3. a.element \in DOMAIN Elements /\ a.rotation \in Rotations /\ <<0, 0>> \in Int \X Int
      /\ t \in Placed(a.element, a.rotation, <<0, 0>>)
  BY DEF Suits
<1>4. t \in Jigsaws
  BY <1>3, PlacedType
<1>5. /\ s.pos[1] \in Int /\ s.pos[2] \in Int /\ s.front \in Fronts
      /\ t.pos[1] \in Int /\ t.pos[2] \in Int
      /\ StepX[s.front] \in Int /\ StepY[s.front] \in Int
  BY <1>2, <1>4 DEF Jigsaws, Fronts, StepX, StepY
<1>6. s.pos[1] \in p.box.x1 .. p.box.x2
  <2>1. p.element \in DOMAIN Elements /\ p.rotation \in Rotations /\ p.origin \in Int \X Int
    BY <1>1 DEF Piece
  <2>2. s.pos[1] \in p.origin[1] .. p.origin[1] + Elements[p.element].size[1] - 1
    BY <1>2, <2>1, PlacedInside
  <2> QED
    BY <1>1, <2>2 DEF AsWide
<1>7. t.pos[1] \in 0 .. Elements[a.element].size[1] - 1 /\ Elements[a.element].size[1] \in Nat
  <2>1. t.pos[1] \in <<0, 0>>[1] .. <<0, 0>>[1] + Elements[a.element].size[1] - 1
    BY <1>3, PlacedInside
  <2>2. <<0, 0>>[1] = 0 /\ Elements[a.element].size[1] \in Nat
    BY <1>3, PoolsAssumption
  <2> QED
    BY <2>1, <2>2
<1>8. /\ Child(s, a).piece \in Piece /\ SurfaceFor(s) \in Int /\ Child(s, a).junction \in Junctions
      /\ Child(s, a).piece.box = box /\ Child(s, a).piece.box.x1 = Child(s, a).piece.origin[1]
  BY <1>1, <1>2, ChildType
<1>9. Child(s, a) = [piece |-> piece, junction |-> here]
  BY DEF Child
<1>10. Child(s, a).piece = piece /\ Child(s, a).junction = here
  BY <1>9
<1> HIDE DEF origin, box, shared, ground, dy
<1>11. piece.origin = origin /\ piece.box = box /\ piece.element = a.element /\ piece.front = s.front
       /\ piece.junctions = <<there>>
  OBVIOUS
<1>12. /\ InFront(s)[1] = s.pos[1] + StepX[s.front] /\ origin[1] = InFront(s)[1] - t.pos[1]
       /\ origin \in Int \X Int /\ box.x1 = origin[1]
  BY <1>5, <1>8, <1>10, <1>11 DEF InFront, OriginOf, origin, Piece
<1>13. box.x2 = origin[1] + Elements[a.element].size[1] - 1
  <2>1. /\ Solid(Box(a.element, origin))
        /\ Box(a.element, origin).x2 = origin[1] + Elements[a.element].size[1] - 1
    BY <1>3, <1>12, BoxSolid
  <2>2. Expanded(Box(a.element, origin), ExpandTo(a.element, a.rotation)).x2 = Box(a.element, origin).x2
    BY <2>1, ExpandToType, ExpandedSolid
  <2> QED
    BY <2>1, <2>2 DEF BoxOf, box, origin
<1>14. AsWide(piece)
  BY <1>11, <1>13 DEF AsWide
<1>15. here.x = there.x + StepX[s.front] /\ there.x = s.pos[1] /\ here.x = InFront(s)[1]
  BY <1>12
<1>16. here.x \in box.x1 .. box.x2
  <2>1. InFront(s)[1] \in Int
    BY <1>5, <1>12
  <2>2. origin[1] \in Int /\ origin[1] + t.pos[1] = InFront(s)[1]
    BY <1>5, <1>12, <2>1
  <2> QED
    BY <1>7, <1>12, <1>13, <1>15, <2>1, <2>2
<1>17. ASSUME Elements[p.element].rigid, Elements[a.element].rigid
       PROVE  here.y = there.y + StepY[s.front]
  <2>1. p.box.y1 \in Int /\ p.ground \in Int /\ p.origin[2] \in Int
    BY <1>1 DEF Piece, Boxes
  <2>2. Local(s) \in Int
    BY <1>5, <2>1 DEF Local
  <2>3. dy = Local(s) - t.pos[2] + StepY[s.front]
    BY DEF dy, DeltaY
  <2>4. shared = p.box.y1 + Local(s) /\ ground = p.ground - dy
    BY <1>17 DEF shared, ground
  <2>5. here.y = shared - Local(s) + p.ground /\ there.y = shared - t.pos[2] + ground
    OBVIOUS
  <2> HIDE DEF here, there, p, t
  <2> QED
    BY <1>5, <2>1, <2>2, <2>3, <2>4, <2>5
<1>18. Facing(p, piece, here, there)
  BY <1>6, <1>11, <1>15, <1>16, <1>17 DEF Facing
<1> QED
  BY <1>1, <1>8, <1>10, <1>11, <1>14, <1>18

\* A piece that is attached is linked to the one it is attached to.
LEMMA AttachLinks ==
  ASSUME GroundEverywhere, JInv, current # None, UNCHANGED <<def, stage>>,
         NEW s \in current.todo, NEW a, Suits(s, a),
         NEW surface, Attach(s, a, surface)
  PROVE  Linked(pieces') /\ TodoOK(current')
<1> DEFINE p == current.index
           here == Child(s, a).junction
           child == Child(s, a).piece
           js == Append(pieces[p].junctions, here)
           source == [pieces[p] EXCEPT !.junctions = js]
<1>1. IInv /\ Linked(pieces) /\ TodoOK(current)
  BY DEF JInv
<1>2. /\ p \in 1 .. Len(pieces) /\ current.piece = pieces[p] /\ pieces[p] \in Piece
      /\ child.source = p /\ js \in Seq(Junctions) /\ Grown(pieces, pieces', p, source, child)
  BY <1>1, PieceAttached
<1>3. AsWide(child) /\ here \in Junctions
  BY ChildFaces
<1>4. PICK there : child.junctions = <<there>> /\ Facing(pieces[p], child, here, there)
  BY ChildFaces
<1>5. pieces \in Seq(Piece) /\ \A i \in 1 .. Len(pieces) : pieces[i].source \in 0 .. Len(pieces)
  BY <1>1 DEF IInv, Types
<1>6. Linked(pieces')
  <2> HIDE DEF here, child
  <2>1. PICK h, c, r : h = here /\ c = child /\ r = source
    OBVIOUS
  <2> HIDE DEF source, js
  <2>2. r = [pieces[p] EXCEPT !.junctions = Append(pieces[p].junctions, h)]
    BY <2>1 DEF source, js
  <2>3. /\ Append(pieces[p].junctions, h) \in Seq(Junctions) /\ h \in Junctions
        /\ c.source = p /\ c.junctions = <<there>> /\ AsWide(c)
        /\ Facing(pieces[p], c, h, there) /\ Grown(pieces, pieces', p, r, c)
    BY <1>2, <1>3, <1>4, <2>1 DEF js
  <2> QED
    BY <1>1, <1>2, <1>5, <2>2, <2>3, LinkAdded
<1>7. TodoOK(current')
  <2>1. /\ current \in Trying /\ current.piece = pieces[p]
        /\ current.todo \subseteq Placed(pieces[p].element, pieces[p].rotation, pieces[p].origin)
    BY <1>1, <1>2 DEF IInv, Types, TodoOK
  <2>2. PICK copy : copy = [current.piece EXCEPT !.junctions = Append(current.piece.junctions, here)]
    OBVIOUS
  <2>3. PICK inner : inner = Inner(s)
    OBVIOUS
  <2>4. current' = [current EXCEPT !.piece = copy, !.inner = inner, !.todo = current.todo \ {s},
                                   !.surface = surface]
    BY <2>2, <2>3 DEF Attach, Inner, Opened
  <2>5. copy.element = pieces[p].element /\ copy.rotation = pieces[p].rotation
        /\ copy.origin = pieces[p].origin
    BY <1>2, <2>2 DEF Piece
  <2>6. current'.piece = copy /\ current'.todo = current.todo \ {s}
    BY <2>1, <2>4 DEF Trying
  <2> QED
    BY <2>1, <2>5, <2>6 DEF TodoOK
<1> QED
  BY <1>6, <1>7
\* A start piece has nothing to be linked to.
LEMMA RootLinked ==
  ASSUME NEW root, root.source = 0, root.junctions = <<>>, AsWide(root)
  PROVE  Linked(<<root>>)
<1>1. Len(<<root>>) = 1 /\ <<root>>[1] = root /\ 1 .. Len(<<root>>) = {1}
  OBVIOUS
<1>2. Children(<<root>>, 1) = {}
  BY <1>1 DEF Children
<1>3. Cardinality(Children(<<root>>, 1)) = 0 /\ Len(root.junctions) = 0 /\ First(root) = 0
  BY <1>2, FS_EmptySet DEF First
<1>4. LinkedAt(<<root>>, 1)
  BY <1>1, <1>2, <1>3 DEF LinkedAt
<1> QED
  BY <1>1, <1>4 DEF Linked

\* The steps and what is linked.
LEMMA LinksKept ==
  ASSUME GroundEverywhere, JInv, [Next]_vars
  PROVE  Linked(pieces') /\ TodoOK(current')
<1>1. IInv /\ Linked(pieces) /\ TodoOK(current) /\ def \in Candidates
  BY DEF JInv, IInv, Types
<1>2. CASE RootAlone \/ Begin
  <2>1. /\ current' = None
        /\ \E r \in Rotations : \E anchor \in Anchors(r), height \in def.heights :
             pieces' = <<RootOf(r, anchor, height)>>
    <3>1. CASE RootAlone
      BY <1>1, <3>1 DEF RootAlone, IInv, Types
    <3>2. CASE Begin
      <4>1. current' = None
        BY <1>1, <3>2 DEF Begin, IInv, Types
      <4>2. \E r \in Rotations : \E anchor \in Anchors(r), height \in def.heights :
              pieces' = <<RootOf(r, anchor, height)>>
        <5>1. \E r \in Rotations : \E anchor \in Anchors(r), height \in def.heights :
                Starts(r, anchor, height)
          BY <3>2, Zenon DEF Begin, Starts
        <5>2. \A r, anchor, height : Starts(r, anchor, height) => pieces' = <<RootOf(r, anchor, height)>>
          BY DEF Starts
        <5> QED
          BY <5>1, <5>2, Zenon
      <4> QED
        BY <4>1, <4>2
    <3> QED
      BY <1>2, <3>1, <3>2
  <2>2. PICK r \in Rotations : \E anchor \in Anchors(r), height \in def.heights :
                                 pieces' = <<RootOf(r, anchor, height)>>
    BY <2>1
  <2>3. PICK anchor \in Anchors(r), height \in def.heights : pieces' = <<RootOf(r, anchor, height)>>
    BY <2>2
  <2> DEFINE root == RootOf(r, anchor, height)
  <2>4. anchor \in Int \X Int
    BY <1>1, AnchorsType
  <2>5. root.source = 0 /\ root.junctions = <<>> /\ AsWide(root)
    BY <1>1, <2>4, RootType DEF AsWide
  <2> HIDE DEF root
  <2>6. Linked(<<root>>)
    BY <2>5, RootLinked
  <2> QED
    BY <2>1, <2>3, <2>6 DEF TodoOK, root
<1>3. CASE Take
  <2> DEFINE q == Head(queue)
             todo == Placed(q.piece.element, q.piece.rotation, q.piece.origin)
  <2>1. /\ pieces' = pieces
        /\ current' = IF AtLimit(q.depth) THEN None
                      ELSE [piece |-> q.piece, index |-> q.index, depth |-> q.depth,
                            space |-> q.space, inner |-> None, surface |-> None, todo |-> todo]
    BY <1>3 DEF Take
  <2> HIDE DEF q
  <2>2. TodoOK(current')
    BY <2>1 DEF TodoOK
  <2> QED
    BY <1>1, <2>1, <2>2
<1>4. CASE TryJigsaw
  <2>1. /\ current # None /\ UNCHANGED <<def, stage>> /\ current \in Trying
    BY <1>1, <1>4 DEF TryJigsaw, IInv, Types
  <2> DEFINE Some(s) == IF s.pool \in DOMAIN Pools THEN Outcomes(s)
                        ELSE {[found |-> None, asked |-> FALSE]}
             Comes(s, o) ==
               LET surface == IF o.asked THEN SurfaceFor(s) ELSE current.surface IN
               \/ o.found # None /\ Attach(s, o.found, surface)
               \/ /\ o.found = None
                  /\ current' = [current EXCEPT !.todo = @ \ {s}, !.surface = surface]
                  /\ UNCHANGED <<pieces, spaces, queue>>
  <2>2. \E s \in current.todo : \E o \in Some(s) : Comes(s, o)
    BY <1>4, Zenon DEF TryJigsaw
  <2> HIDE DEF Comes, Some
  <2>3. PICK s \in current.todo : \E o \in Some(s) : Comes(s, o)
    BY <2>2, Zenon
  <2>4. PICK o \in Some(s) : Comes(s, o)
    BY <2>3, Zenon
  <2> DEFINE surface == IF o.asked THEN SurfaceFor(s) ELSE current.surface
  <2>5. \/ o.found # None /\ Attach(s, o.found, surface)
        \/ /\ o.found = None
           /\ current' = [current EXCEPT !.todo = @ \ {s}, !.surface = surface]
           /\ UNCHANGED <<pieces, spaces, queue>>
    BY <2>4, Zenon DEF Comes
  <2>6. CASE o.found # None /\ Attach(s, o.found, surface)
    <3>1. s.pool \in DOMAIN Pools /\ o \in Outcomes(s)
      BY <2>4, <2>6 DEF Some
    <3>2. Suits(s, o.found)
      BY <2>6, <3>1, OutcomeSuits
    <3> QED
      BY <2>1, <2>6, <3>2, AttachLinks
  <2>7. CASE /\ o.found = None
             /\ current' = [current EXCEPT !.todo = @ \ {s}, !.surface = surface]
             /\ UNCHANGED <<pieces, spaces, queue>>
    <3> HIDE DEF surface
    <3>1. PICK rest : rest = current.todo \ {s}
      OBVIOUS
    <3>2. current' = [current EXCEPT !.todo = rest, !.surface = surface]
      BY <2>7, <3>1
    <3>3. current'.piece = current.piece /\ current'.todo = rest
      BY <2>1, <3>2 DEF Trying
    <3> QED
      BY <1>1, <2>1, <2>7, <3>1, <3>3 DEF TodoOK
  <2> QED
    BY <2>5, <2>6, <2>7
<1>5. CASE Fail \/ Leave \/ Finish \/ Stored \/ UNCHANGED vars
  <2>1. pieces' = pieces /\ (current' = current \/ current' = None)
    BY <1>5 DEF Fail, Leave, Finish, Stored, vars
  <2> QED
    BY <1>1, <2>1 DEF TodoOK
<1> QED
  BY <1>2, <1>3, <1>4, <1>5 DEF Next

\* JunctionsLinked always holds: each piece has one junction to its source and
\* one to each piece that was attached to it, in order, and their ends face each
\* other; what waits or is tried is a copy of the stored piece
\* (buildPlannedStructure).
THEOREM JunctionsStayLinked ==
  ASSUME GroundEverywhere
  PROVE  Spec => []JunctionsLinked
<1>1. Init => JInv
  <2> SUFFICES ASSUME Init PROVE JInv
    OBVIOUS
  <2>1. Len(pieces) = 0 /\ current = None
    BY DEF Init
  <2> QED
    BY <2>1, InitHolds DEF JInv, Linked, TodoOK
<1>2. JInv /\ [Next]_vars => JInv'
  <2> SUFFICES ASSUME JInv, [Next]_vars PROVE JInv'
    OBVIOUS
  <2>1. IInv'
    BY RootAloneStep, BeginStep, TakeStep, TryJigsawStep, OtherSteps DEF Next, JInv
  <2>2. Linked(pieces') /\ TodoOK(current')
    BY LinksKept
  <2> QED
    BY <2>1, <2>2 DEF JInv
<1>3. JInv => JunctionsLinked
  <2> SUFFICES ASSUME JInv PROVE JunctionsLinked
    OBVIOUS
  <2>1. Types /\ Linked(pieces) /\ \E own : Owned(pieces, spaces, own, queue, current)
    BY DEF JInv, IInv
  <2>2. DOMAIN pieces = 1 .. Len(pieces) /\ DOMAIN queue = 1 .. Len(queue)
    BY <2>1, LenProperties DEF Types
  <2>3. /\ \A i \in DOMAIN queue : queue[i].piece = pieces[queue[i].index]
        /\ current # None => current.piece = pieces[current.index]
    BY <2>1, <2>2 DEF Owned, QueueOK, CurrentOK
  <2>4. ASSUME NEW i \in DOMAIN pieces
        PROVE  LET own == IF pieces[i].source = 0 THEN 0 ELSE 1
               IN  /\ Len(pieces[i].junctions) = own + Cardinality(ChildrenOf(i))
                   /\ \A j \in ChildrenOf(i) :
                        LET child == pieces[j]
                            here == pieces[i].junctions[own + Cardinality({k \in ChildrenOf(i) : k <= j})]
                            there == child.junctions[1]
                        IN  /\ here.x = there.x + StepX[child.front]
                            /\ there.x \in pieces[i].box.x1 .. pieces[i].box.x2
                            /\ here.x \in child.box.x1 .. child.box.x2
                            /\ Elements[pieces[i].element].rigid /\ Elements[child.element].rigid
                                 => here.y = there.y + StepY[child.front]
    <3>1. LinkedAt(pieces, i)
      BY <2>1, <2>2 DEF Linked
    <3>2. ChildrenOf(i) = Children(pieces, i)
      BY <2>2 DEF ChildrenOf, Children
    <3> QED
      BY <3>1, <3>2, Zenon DEF LinkedAt, Facing, First, Rank
  <2> QED
    BY <2>3, <2>4, Zenon DEF JunctionsLinked
<1> QED
  BY <1>1, <1>2, <1>3, PTL DEF Spec
-----------------------------------------------------------------------------
(***************************************************************************)
(* The order of the queue.                                                 *)
(***************************************************************************)
Before(p, q) ==
  \/ p.priority > q.priority
  \/ p.priority = q.priority /\ p.index < q.index
Ordered(q) == \A i, j \in 1 .. Len(q) : i < j => Before(q[i], q[j])

\* A later piece that is put behind those that are not lower.
LEMMA InsertedOrdered ==
  ASSUME NEW q \in Seq(Pending), Ordered(q), NEW p \in Pending,
         \A i \in 1 .. Len(q) : q[i].index < p.index,
         NEW r, NEW k, PutAt(q, p, r, k)
  PROVE  Ordered(r)
<1>1. /\ k \in 1 .. Len(q) + 1 /\ Len(r) = Len(q) + 1 /\ Len(q) \in Nat
      /\ \A j \in 1 .. Len(q) : j < k => ~ (p.priority > q[j].priority)
      /\ k <= Len(q) => p.priority > q[k].priority
      /\ \A j \in 1 .. Len(q) + 1 : r[j] = IF j < k THEN q[j] ELSE IF j = k THEN p ELSE q[j - 1]
  BY LenProperties DEF PutAt
<1>2. p.priority \in Int /\ p.index \in Nat
  BY DEF Pending
<1>3. \A j \in 1 .. Len(q) : q[j].priority \in Int /\ q[j].index \in Nat
  <2>1. \A j \in 1 .. Len(q) : q[j] \in Pending
    BY LenProperties
  <2> QED
    BY <2>1 DEF Pending
<1>4. \A i, j \in 1 .. Len(q) : i < j => Before(q[i], q[j])
  BY DEF Ordered
  \* What is behind the place is lower.
<1>5. ASSUME NEW j \in 1 .. Len(q), k <= j PROVE Before(p, q[j])
  <2>1. k \in 1 .. Len(q) /\ p.priority > q[k].priority
    BY <1>1, <1>5
  <2>2. CASE j = k
    <3>1. p.priority > q[j].priority
      BY <2>1, <2>2
    <3> QED
      BY <3>1 DEF Before
  <2>3. CASE k < j
    <3>1. Before(q[k], q[j]) /\ q[k].priority \in Int /\ q[j].priority \in Int
      BY <1>3, <1>4, <2>1, <2>3
    <3>2. q[k].priority >= q[j].priority
      BY <3>1 DEF Before
    <3>3. p.priority > q[j].priority
      BY <1>2, <2>1, <3>1, <3>2
    <3> QED
      BY <3>3 DEF Before
  <2> QED
    BY <1>1, <1>5, <2>2, <2>3
  \* What is before it is not.
<1>6. ASSUME NEW j \in 1 .. Len(q), j < k PROVE Before(q[j], p)
  <2>1. ~ (p.priority > q[j].priority) /\ q[j].priority \in Int /\ q[j].index < p.index
    BY <1>1, <1>3, <1>6
  <2> QED
    BY <1>2, <2>1 DEF Before
<1>7. ASSUME NEW i \in 1 .. Len(r), NEW j \in 1 .. Len(r), i < j PROVE Before(r[i], r[j])
  <2>1. /\ i < k => i \in 1 .. Len(q) /\ r[i] = q[i]
        /\ i = k => r[i] = p
        /\ i > k => i - 1 \in 1 .. Len(q) /\ r[i] = q[i - 1]
    BY <1>1
  <2>2. /\ j < k => j \in 1 .. Len(q) /\ r[j] = q[j]
        /\ j = k => r[j] = p
        /\ j > k => j - 1 \in 1 .. Len(q) /\ r[j] = q[j - 1]
    BY <1>1
  <2>3. i \in Nat /\ j \in Nat /\ k \in Nat
    BY <1>1
  <2>4. CASE j < k
    BY <1>4, <1>7, <2>1, <2>2, <2>3, <2>4
  <2>5. CASE j = k
    BY <1>6, <1>7, <2>1, <2>2, <2>3, <2>5
  <2>6. CASE j > k /\ i < k
    <3>1. i < j - 1
      BY <2>3, <2>6
    <3> QED
      BY <1>4, <2>1, <2>2, <2>6, <3>1
  <2>7. CASE j > k /\ i = k
    <3>1. k <= j - 1
      BY <2>3, <2>7
    <3> QED
      BY <1>5, <2>1, <2>2, <2>7, <3>1
  <2>8. CASE j > k /\ i > k
    <3>1. i - 1 < j - 1
      BY <1>7, <2>3
    <3> QED
      BY <1>4, <2>1, <2>2, <2>8, <3>1
  <2> QED
    BY <2>3, <2>4, <2>5, <2>6, <2>7, <2>8
<1> QED
  BY <1>7 DEF Ordered

\* The steps and the order of the queue.
LEMMA OrderKept ==
  ASSUME GroundEverywhere, IInv, Ordered(queue), [Next]_vars
  PROVE  Ordered(queue')
<1>1. /\ def \in Candidates /\ pieces \in Seq(Piece) /\ queue \in Seq(Pending)
      /\ \A i \in 1 .. Len(queue) : queue[i].index \in 1 .. Len(pieces)
      /\ Len(queue) \in Nat /\ Len(pieces) \in Nat
  BY Lengths DEF IInv, Types
<1>2. CASE Begin
  <2>1. \E r \in Rotations : \E anchor \in Anchors(r), height \in def.heights : Starts(r, anchor, height)
    BY <1>2, Zenon DEF Begin, Starts
  <2>2. \A r, anchor, height : Starts(r, anchor, height) => Len(queue') = 1
    BY DEF Starts
  <2>3. Len(queue') = 1
    BY <2>1, <2>2, Zenon
  <2> QED
    BY <2>3 DEF Ordered
<1>3. CASE Take
  <2>1. queue # <<>> /\ queue' = Tail(queue)
    BY <1>3 DEF Take
  <2>2. /\ Len(queue') = Len(queue) - 1
        /\ \A i \in 1 .. Len(queue') : queue'[i] = queue[i + 1]
    BY <1>1, <2>1, HeadTailProperties
  <2>3. \A i, j \in 1 .. Len(queue') :
          i < j => i + 1 < j + 1 /\ i + 1 \in 1 .. Len(queue) /\ j + 1 \in 1 .. Len(queue)
    BY <1>1, <2>2
  <2> QED
    BY <2>2, <2>3 DEF Ordered
<1>4. CASE TryJigsaw
  <2>1. current # None /\ current \in Trying
    BY <1>4 DEF TryJigsaw, IInv, Types
  <2>2. \/ queue' = queue
        \/ \E s \in current.todo : \E a, surface : Suits(s, a) /\ Attach(s, a, surface)
    <3> DEFINE Some(s) == IF s.pool \in DOMAIN Pools THEN Outcomes(s)
                          ELSE {[found |-> None, asked |-> FALSE]}
               Comes(s, o) ==
                 LET surface == IF o.asked THEN SurfaceFor(s) ELSE current.surface IN
                 \/ o.found # None /\ Attach(s, o.found, surface)
                 \/ /\ o.found = None
                    /\ current' = [current EXCEPT !.todo = @ \ {s}, !.surface = surface]
                    /\ UNCHANGED <<pieces, spaces, queue>>
    <3>1. \E s \in current.todo : \E o \in Some(s) : Comes(s, o)
      BY <1>4, Zenon DEF TryJigsaw
    <3> HIDE DEF Comes, Some
    <3>2. PICK s \in current.todo : \E o \in Some(s) : Comes(s, o)
      BY <3>1, Zenon
    <3>3. PICK o \in Some(s) : Comes(s, o)
      BY <3>2, Zenon
    <3> DEFINE surface == IF o.asked THEN SurfaceFor(s) ELSE current.surface
    <3>4. (o.found # None /\ Attach(s, o.found, surface)) \/ (o.found = None /\ queue' = queue)
      BY <3>3, Zenon DEF Comes
    <3>5. ASSUME o.found # None PROVE Suits(s, o.found)
      <4>1. s.pool \in DOMAIN Pools /\ o \in Outcomes(s)
        BY <3>3, <3>5 DEF Some
      <4> QED
        BY <3>5, <4>1, OutcomeSuits
    <3> HIDE DEF surface
    <3> QED
      BY <3>4, <3>5, Zenon
  <2>3. CASE queue' = queue
    BY <2>3
  <2>4. CASE \E s \in current.todo : \E a, surface : Suits(s, a) /\ Attach(s, a, surface)
    <3>0. PICK s \in current.todo : \E a, surface : Suits(s, a) /\ Attach(s, a, surface)
      BY <2>4
    <3>1. PICK a, surface : Suits(s, a) /\ Attach(s, a, surface)
      BY <3>0
    <3> DEFINE child == Child(s, a).piece
               n == Len(pieces)
               pending == [piece |-> child, index |-> n + 1, depth |-> current.depth + 1,
                           priority |-> s.placement, space |-> Chosen(s)]
    <3>2. queue' = queue \/ queue' = Inserted(queue, pending)
      BY <3>1 DEF Attach, Chosen, Inner, Opened
    <3>3. pending \in Pending
      <4>1. child \in Piece
        BY <2>1, <3>1, PieceAttached
      <4>2. s.placement \in Int /\ current.depth \in Nat
        BY <2>1 DEF Trying, Jigsaws
      <4>3. Chosen(s) \in Nat
        <5>1. PICK own : Owned(pieces, spaces, own, queue, current)
          BY DEF IInv
        <5>2. Chosen(s) \in 1 .. Len(Opened(s)) /\ Len(Opened(s)) \in Nat
          BY <2>1, <5>1, SpaceChosen
        <5> QED
          BY <5>2
      <4>4. n + 1 \in Nat /\ current.depth + 1 \in Nat
        BY <1>1, <4>2
      <4> HIDE DEF child, n
      <4> QED
        BY <4>1, <4>2, <4>3, <4>4 DEF Pending
    <3>4. \A i \in 1 .. Len(queue) : queue[i].index < pending.index
      <4>1. pending.index = n + 1
        OBVIOUS
      <4> QED
        BY <1>1, <4>1
    <3> HIDE DEF pending
    <3>5. \E k : PutAt(queue, pending, Inserted(queue, pending), k)
      BY <1>1, <3>3, InsertedType
    <3>6. Ordered(Inserted(queue, pending))
      BY <1>1, <3>3, <3>4, <3>5, InsertedOrdered
    <3> QED
      BY <3>2, <3>6
  <2> QED
    BY <2>2, <2>3, <2>4
<1>5. CASE Fail \/ RootAlone \/ Leave \/ Finish \/ Stored \/ UNCHANGED vars
  BY <1>5 DEF Fail, RootAlone, Leave, Finish, Stored, vars
<1> QED
  BY <1>2, <1>3, <1>4, <1>5 DEF Next

\* QueueByPriority always holds: pieces of higher priority wait in front, those
\* of one priority as they were attached (insertPendingPiece).
THEOREM QueueStaysOrdered ==
  ASSUME GroundEverywhere
  PROVE  Spec => []QueueByPriority
<1> DEFINE QInv == IInv /\ Ordered(queue)
<1>1. Init => QInv
  <2> SUFFICES ASSUME Init PROVE QInv
    OBVIOUS
  <2>1. Len(queue) = 0
    BY DEF Init
  <2> QED
    BY <2>1, InitHolds DEF Ordered
<1>2. QInv /\ [Next]_vars => QInv'
  <2> SUFFICES ASSUME QInv, [Next]_vars PROVE QInv'
    OBVIOUS
  <2>1. IInv'
    BY RootAloneStep, BeginStep, TakeStep, TryJigsawStep, OtherSteps DEF Next
  <2> QED
    BY <2>1, OrderKept
<1>3. QInv => QueueByPriority
  <2> SUFFICES ASSUME QInv PROVE QueueByPriority
    OBVIOUS
  <2>1. DOMAIN queue = 1 .. Len(queue)
    BY LenProperties DEF IInv, Types
  <2> QED
    BY <2>1 DEF Ordered, Before, QueueByPriority
<1> QED
  BY <1>1, <1>2, <1>3, PTL DEF Spec

\* The type invariant: indices point into pieces and spaces, and what waits or
\* is tried is within the depth limit.
THEOREM TypeCorrect ==
  ASSUME GroundEverywhere
  PROVE  Spec => []TypeOK
<1>1. IInv => TypeOK
  <2> SUFFICES ASSUME IInv PROVE TypeOK
    OBVIOUS
  <2>1. PICK own : Owned(pieces, spaces, own, queue, current)
    BY DEF IInv
  <2>2. Types /\ CurrentOK(pieces, spaces, own, queue, current)
    BY <2>1 DEF IInv, Owned
  <2>3. /\ DOMAIN pieces = 1 .. Len(pieces) /\ DOMAIN spaces = 1 .. Len(spaces)
        /\ DOMAIN queue = 1 .. Len(queue) /\ Len(spaces) \in Nat
    BY <2>2, LenProperties DEF Types
  <2>4. \A i \in DOMAIN pieces : IsPiece(pieces[i])
    <3> TAKE i \in DOMAIN pieces
    <3>1. pieces[i] \in Piece
      BY <2>2, <2>3, LenProperties DEF Types
    <3>2. /\ pieces[i].box.x1 = pieces[i].origin[1] /\ pieces[i].box.y1 = pieces[i].origin[2]
          /\ pieces[i].source \in 0 .. Len(pieces)
      BY <2>2, <2>3 DEF Types
    <3> QED
      BY <3>1, <3>2 DEF IsPiece, Piece
  <2>5. \A i \in DOMAIN spaces : spaces[i].allowed \in Boxes /\ spaces[i].cutouts \subseteq Boxes
    <3>1. \A i \in DOMAIN spaces : spaces[i] \in Space
      BY <2>2, <2>3, LenProperties DEF Types
    <3> QED
      BY <3>1 DEF Space
  <2>6. \A i \in DOMAIN queue : /\ queue[i].index \in DOMAIN pieces
                               /\ queue[i].space \in DOMAIN spaces
                               /\ queue[i].depth \in 0 .. def.size
    BY <2>2, <2>3 DEF Types
  <2>7. current # None => /\ current.index \in DOMAIN pieces
                          /\ {current.space} \cup ({current.inner} \ {None}) \subseteq DOMAIN spaces
                          /\ current.depth \in 0 .. def.size - 1
    BY <2>2, <2>3 DEF Types, CurrentOK
  <2> QED
    BY <2>2, <2>4, <2>5, <2>6, <2>7 DEF Types, TypeOK
<1> QED
  BY <1>1, IInvAlways, PTL

-----------------------------------------------------------------------------
(***************************************************************************)
(* How far a structure reaches. Nothing but the start piece reaches out of *)
(* the range around its middle, for a space that was opened inside a piece *)
(* lies where that piece does.                                             *)
(***************************************************************************)
\* The start piece is where one of its anchors puts it.
StartPlaced(c, p) ==
  \E r \in Rotations : \E anchor \in AnchorsOf(c, r) :
    /\ p.box.x1 = -anchor[1]
    /\ p.box.x2 = -anchor[1] + Elements[c.start].size[1] - 1

RangeAround(c, p, b) ==
  /\ c.distance > 0
  /\ b.x1 = Half(p.box.x1 + p.box.x2) - c.distance
  /\ b.x2 = Half(p.box.x1 + p.box.x2) + c.distance

InReach(b, ps, ss) == LiesIn(b, ps[1].box) \/ (Len(ss) > 0 /\ LiesIn(b, ss[1].allowed))

Reaching(c, ps, ss) ==
  /\ Len(ps) > 0 => StartPlaced(c, ps[1])
  /\ Len(ss) > 0 => Len(ps) > 0 /\ RangeAround(c, ps[1], ss[1].allowed)
  /\ \A i \in 1 .. Len(ps) : InReach(ps[i].box, ps, ss)

RInv == IInv /\ Reaching(def, pieces, spaces)

\* The start piece, alone or in its range.
LEMMA StartReaches ==
  ASSUME GroundEverywhere, IInv, RootAlone \/ Begin
  PROVE  Reaching(def, pieces', spaces')
<1>1. def \in Candidates /\ spaces = <<>>
  BY DEF RootAlone, Begin, IInv, Types
<1>2. PICK r \in Rotations :
        \E anchor \in Anchors(r), height \in def.heights :
          /\ pieces' = <<RootOf(r, anchor, height)>>
          /\ spaces' = spaces \/ Starts(r, anchor, height)
  <2>1. CASE RootAlone
    BY <2>1 DEF RootAlone
  <2>2. CASE Begin
    <3>1. \E r \in Rotations : \E anchor \in Anchors(r), height \in def.heights :
            Starts(r, anchor, height)
      BY <2>2, Zenon DEF Begin, Starts
    <3>2. \A r, anchor, height : Starts(r, anchor, height) => pieces' = <<RootOf(r, anchor, height)>>
      BY DEF Starts
    <3> QED
      BY <3>1, <3>2, Zenon
  <2> QED
    BY <2>1, <2>2
<1>3. PICK anchor \in Anchors(r), height \in def.heights :
        /\ pieces' = <<RootOf(r, anchor, height)>>
        /\ spaces' = spaces \/ Starts(r, anchor, height)
  BY <1>2
<1> DEFINE root == RootOf(r, anchor, height)
           range == RangeBox(Half(root.box.x1 + root.box.x2), root.box.y1 + 1 + anchor[2])
<1>4. anchor \in Int \X Int
  BY <1>1, AnchorsType
<1>5. /\ root \in Piece /\ Solid(root.box) /\ root.box.x1 = root.origin[1]
      /\ root.box.x2 = root.origin[1] + Elements[root.element].size[1] - 1
  BY <1>1, <1>4, RootType
<1>6. root.origin[1] = -anchor[1] /\ root.element = def.start
  BY DEF RootOf, Root
<1>7. StartPlaced(def, root)
  BY <1>5, <1>6 DEF StartPlaced, Anchors
<1>8. spaces' = spaces \/ (range.x1 <= range.x2
                          /\ spaces' = <<[allowed |-> range, cutouts |-> {root.box}]>>)
  BY <1>3, Zenon DEF Starts
<1>9. range.x1 <= range.x2 => RangeAround(def, root, range)
  <2>1. def.distance \in Int
    BY <1>1, CandidatesAssumption
  <2> QED
    BY <2>1 DEF RangeBox, RangeAround
<1> HIDE DEF root, range
<1>10. LiesIn(root.box, root.box)
  BY <1>5, ApartBothWays DEF Solid
<1>11. /\ Len(pieces') = 1 /\ pieces'[1] = root
       /\ \A i \in 1 .. Len(pieces') : i = 1
  BY <1>3 DEF root
<1>12. Len(spaces') > 0 => RangeAround(def, root, spaces'[1].allowed)
  BY <1>1, <1>8, <1>9
<1> QED
  BY <1>7, <1>10, <1>11, <1>12 DEF Reaching, InReach

\* What is attached lies in the range, or where the piece lies whose inside it
\* was attached in.
LEMMA AttachReaches ==
  ASSUME GroundEverywhere, RInv, current # None, NEW s \in current.todo, NEW a, Suits(s, a),
         NEW surface, Attach(s, a, surface)
  PROVE  Reaching(def, pieces', spaces')
<1> DEFINE p == current.index
           n == Len(pieces)
           m == Len(spaces)
           child == Child(s, a).piece
           js == Append(pieces[p].junctions, Child(s, a).junction)
           source == [pieces[p] EXCEPT !.junctions = js]
           opened == Opened(s)
           k == Chosen(s)
<1>1. IInv /\ Reaching(def, pieces, spaces)
  BY DEF RInv
<1>2. PICK own : Owned(pieces, spaces, own, queue, current)
  BY <1>1 DEF IInv
<1>3. /\ p \in 1 .. n /\ pieces[p] \in Piece /\ child.box = BoxOf(s, a) /\ Solid(child.box)
      /\ source \in Piece /\ js \in Seq(Junctions)
      /\ Grown(pieces, pieces', p, source, child) /\ n \in Nat
  BY <1>1, PieceAttached, Lengths DEF IInv
<1>4. source.box = pieces[p].box
  <2> HIDE DEF js
  <2> QED
    BY <1>3 DEF Piece
<1>5. /\ opened \in Seq(Space) /\ Len(opened) \in Nat /\ m <= Len(opened) /\ m \in Nat
      /\ k \in 1 .. Len(opened) /\ opened[k] = SpaceFor(s)
      /\ \E new : AllOK(pieces, opened, new)
  <2> HIDE DEF opened, k
  <2> QED
    BY <1>1, <1>2, SpaceChosen, Lengths DEF IInv, opened, k
<1>6. PICK new : AllOK(pieces, opened, new)
  BY <1>5
<1>7. opened[1] = spaces[1] /\ m > 0
  <2>1. current.space \in 1 .. m /\ spaces \in Seq(Space)
    BY <1>1 DEF IInv, Types
  <2> QED
    BY <1>5, <2>1, AppendProperties DEF Opened
<1>8. spaces' = [opened EXCEPT ![k].cutouts = @ \cup {child.box}]
  BY DEF Attach, Opened, Inner, Chosen
<1> HIDE DEF opened, k, source, child, js
<1>9. /\ Len(spaces') = Len(opened)
      /\ \A i \in 1 .. Len(opened) : spaces'[i].allowed = opened[i].allowed
  <2>1. \A i \in 1 .. Len(opened) : opened[i] \in Space
    BY <1>5, LenProperties
  <2> QED
    BY <1>5, <1>8, <2>1 DEF Space
<1>10. LiesIn(child.box, opened[k].allowed) /\ child.box \in Boxes
  <2>1. Within(child.box, opened[k].allowed)
    BY <1>3, <1>5 DEF Suits, CanFit
  <2>2. opened[k].allowed \in Boxes
    BY <1>5, <1>6 DEF AllOK, SpacesOK
  <2> QED
    BY <1>3, <2>1, <2>2, WithinLiesIn DEF Solid
<1>11. InReach(child.box, pieces, spaces)
  <2>1. CASE k = 1
    BY <1>7, <1>10, <2>1 DEF InReach
  <2>2. CASE k # 1
    <3>1. k \in 2 .. Len(opened)
      BY <1>5, <2>2
    <3>2. new[k] \in 1 .. n /\ opened[k].allowed = pieces[new[k]].box
      BY <1>6, <3>1 DEF AllOK, SpacesOK
    <3>3. PICK i \in 1 .. n : opened[k].allowed = pieces[i].box
      BY <3>2
    <3>4. InReach(pieces[i].box, pieces, spaces)
      BY <1>1 DEF Reaching
    <3>5. /\ pieces[i].box \in Boxes /\ pieces[1].box \in Boxes /\ spaces[1].allowed \in Boxes
      BY <1>2, <1>3, <1>7, <1>5 DEF Owned, AllOK, SpacesOK, Solid
    <3> QED
      BY <1>10, <3>3, <3>4, <3>5, LiesInApart DEF InReach
  <2> QED
    BY <2>1, <2>2
<1>12. /\ Len(pieces') = n + 1 /\ pieces'[n + 1].box = child.box
       /\ \A i \in 1 .. n : pieces'[i].box = pieces[i].box
  BY <1>3, <1>4 DEF Grown
<1>13. \A b : InReach(b, pieces, spaces) => InReach(b, pieces', spaces')
  <2>1. pieces'[1].box = pieces[1].box
    BY <1>3, <1>12
  <2>2. Len(spaces') > 0 /\ spaces'[1].allowed = spaces[1].allowed
    BY <1>5, <1>7, <1>9
  <2> QED
    BY <2>1, <2>2 DEF InReach
<1>14. \A i \in 1 .. Len(pieces') : InReach(pieces'[i].box, pieces', spaces')
  <2>1. \A i \in 1 .. Len(pieces') : i = n + 1 \/ i \in 1 .. n
    BY <1>3, <1>12
  <2>2. \A i \in 1 .. n : InReach(pieces[i].box, pieces, spaces)
    BY <1>1 DEF Reaching
  <2> QED
    BY <1>11, <1>12, <1>13, <2>1, <2>2
<1>15. StartPlaced(def, pieces'[1]) /\ RangeAround(def, pieces'[1], spaces'[1].allowed)
  <2>1. StartPlaced(def, pieces[1]) /\ RangeAround(def, pieces[1], spaces[1].allowed)
    BY <1>1, <1>3, <1>7 DEF Reaching
  <2>2. pieces'[1].box = pieces[1].box /\ spaces'[1].allowed = spaces[1].allowed
    BY <1>3, <1>5, <1>7, <1>9, <1>12
  <2> QED
    BY <2>1, <2>2 DEF StartPlaced, RangeAround
<1> QED
  BY <1>3, <1>12, <1>14, <1>15 DEF Reaching

\* The steps and how far the structure reaches.
LEMMA ReachKept ==
  ASSUME GroundEverywhere, RInv, [Next]_vars
  PROVE  Reaching(def, pieces', spaces')
<1>1. IInv /\ Reaching(def, pieces, spaces)
  BY DEF RInv
<1>2. CASE RootAlone \/ Begin
  BY <1>1, <1>2, StartReaches
<1>3. CASE TryJigsaw
  <2> DEFINE Some(s) == IF s.pool \in DOMAIN Pools THEN Outcomes(s)
                        ELSE {[found |-> None, asked |-> FALSE]}
             Comes(s, o) ==
               LET surface == IF o.asked THEN SurfaceFor(s) ELSE current.surface IN
               \/ o.found # None /\ Attach(s, o.found, surface)
               \/ /\ o.found = None
                  /\ current' = [current EXCEPT !.todo = @ \ {s}, !.surface = surface]
                  /\ UNCHANGED <<pieces, spaces, queue>>
  <2>1. current # None
    BY <1>3 DEF TryJigsaw
  <2>2. \E s \in current.todo : \E o \in Some(s) : Comes(s, o)
    BY <1>3, Zenon DEF TryJigsaw
  <2> HIDE DEF Comes, Some
  <2>3. PICK s \in current.todo : \E o \in Some(s) : Comes(s, o)
    BY <2>2, Zenon
  <2>4. PICK o \in Some(s) : Comes(s, o)
    BY <2>3, Zenon
  <2> DEFINE surface == IF o.asked THEN SurfaceFor(s) ELSE current.surface
  <2>5. \/ o.found # None /\ Attach(s, o.found, surface)
        \/ o.found = None /\ UNCHANGED <<pieces, spaces>>
    BY <2>4, Zenon DEF Comes
  <2>6. CASE o.found # None /\ Attach(s, o.found, surface)
    <3>1. s.pool \in DOMAIN Pools /\ o \in Outcomes(s)
      BY <2>4, <2>6, NoneAssumption DEF Some
    <3>2. Suits(s, o.found)
      BY <2>6, <3>1, OutcomeSuits
    <3> QED
      BY <2>1, <2>6, <3>2, AttachReaches
  <2> QED
    BY <1>1, <2>5, <2>6
<1>4. CASE Take \/ Fail \/ Leave \/ Finish \/ Stored \/ UNCHANGED vars
  <2>1. UNCHANGED <<pieces, spaces>>
    BY <1>4 DEF Take, Fail, Leave, Finish, Stored, vars
  <2> QED
    BY <1>1, <2>1
<1> QED
  BY <1>2, <1>3, <1>4 DEF Next

\* Every piece lies where the start piece does or, with the first space, within
\* MaxDistanceFromCenter of the middle of the start piece (buildPlannedStructure
\* cuts the range once, and no space that is opened later reaches out of it).
NearStart ==
  \A i \in DOMAIN pieces :
    LET first == pieces[1].box
        middle == Half(first.x1 + first.x2)
    IN  \/ first.x1 <= pieces[i].box.x1 /\ pieces[i].box.x2 <= first.x2
        \/ /\ def.distance > 0
           /\ middle - def.distance <= pieces[i].box.x1
           /\ pieces[i].box.x2 <= middle + def.distance

LEMMA RInvAlways ==
  ASSUME GroundEverywhere
  PROVE  Spec => []RInv
<1>1. Init => RInv
  <2> SUFFICES ASSUME Init PROVE RInv
    OBVIOUS
  <2>1. Len(pieces) = 0 /\ Len(spaces) = 0
    BY DEF Init
  <2> QED
    BY <2>1, InitHolds DEF RInv, Reaching
<1>2. RInv /\ [Next]_vars => RInv'
  <2> SUFFICES ASSUME RInv, [Next]_vars PROVE RInv'
    OBVIOUS
  <2>1. IInv'
    BY RootAloneStep, BeginStep, TakeStep, TryJigsawStep, OtherSteps DEF Next, RInv
  <2>2. Reaching(def, pieces', spaces')
    BY ReachKept
  <2>3. def' = def
    BY DEF Next, vars, Fail, RootAlone, Begin, Take, TryJigsaw, Leave, Finish, Stored
  <2> QED
    BY <2>1, <2>2, <2>3, Zenon DEF RInv
<1> QED
  BY <1>1, <1>2, PTL DEF Spec

\* What InReach says, in numbers.
LEMMA ReachInNumbers ==
  ASSUME RInv, NEW i \in DOMAIN pieces
  PROVE  LET first == pieces[1].box
             middle == Half(first.x1 + first.x2)
             b == pieces[i].box
         IN  /\ first \in Boxes /\ b \in Boxes /\ middle \in Int /\ def.distance \in Int
             /\ StartPlaced(def, pieces[1])
             /\ \/ first.x1 <= b.x1 /\ b.x2 <= first.x2
                \/ /\ def.distance > 0
                   /\ middle - def.distance <= b.x1 /\ b.x2 <= middle + def.distance
<1> DEFINE first == pieces[1].box
           middle == Half(first.x1 + first.x2)
           b == pieces[i].box
<1>1. Types /\ Reaching(def, pieces, spaces) /\ \E own : AllOK(pieces, spaces, own)
  BY DEF RInv, IInv, Owned
<1>2. i \in 1 .. Len(pieces) /\ 1 \in 1 .. Len(pieces) /\ Len(pieces) > 0
  BY <1>1, Lengths, LenProperties DEF Types
<1>3. first \in Boxes /\ b \in Boxes
  BY <1>1, <1>2 DEF AllOK, SpacesOK, Solid
<1>4. first.x1 + first.x2 \in Int
  BY <1>3 DEF Boxes
<1>5. middle \in Int /\ def.distance \in Int
  BY <1>1, <1>4, HalfType, CandidatesAssumption DEF Types
<1>6. StartPlaced(def, pieces[1]) /\ InReach(b, pieces, spaces)
  BY <1>1, <1>2 DEF Reaching
<1>7. CASE LiesIn(b, first)
  BY <1>3, <1>5, <1>6, <1>7 DEF LiesIn
<1>8. CASE Len(spaces) > 0 /\ LiesIn(b, spaces[1].allowed)
  <2>1. RangeAround(def, pieces[1], spaces[1].allowed)
    BY <1>1, <1>8 DEF Reaching
  <2> QED
    BY <1>3, <1>5, <1>6, <1>8, <2>1 DEF LiesIn, RangeAround
<1> QED
  BY <1>6, <1>7, <1>8 DEF InReach

\* NearStart always holds, whatever the elements, pools and anchors.
THEOREM StaysNearItsStart ==
  ASSUME GroundEverywhere
  PROVE  Spec => []NearStart
<1>1. RInv => NearStart
  BY ReachInNumbers DEF NearStart
<1> QED
  BY <1>1, RInvAlways, PTL

\* The quotient by a positive number grows with what is divided.
LEMMA QuotientGrows ==
  ASSUME NEW x \in Int, NEW y \in Int, NEW w \in Nat \ {0}, x <= y
  PROVE  x \div w \in Int /\ y \div w \in Int /\ x \div w <= y \div w
OBVIOUS

\* Of two numbers the maximum is one and not less than the other.
LEMMA MaxOfTwo ==
  ASSUME NEW x \in Int, NEW y \in Int
  PROVE  Max({x, y}) \in Int /\ Max({x, y}) >= x /\ Max({x, y}) >= y
<1>1. \E a \in {x, y} : \A b \in {x, y} : a >= b
  <2>1. x >= y \/ y >= x
    OBVIOUS
  <2> QED
    BY <2>1
<1>2. Max({x, y}) \in {x, y} /\ \A b \in {x, y} : Max({x, y}) >= b
  BY <1>1 DEF Max
<1> QED
  BY <1>2

\* In numbers: a template of width w that begins in a chunk of width k, and the
\* range of d around its middle, end within what is taken of either.
LEMMA UnanchoredInNumbers ==
  ASSUME NEW w \in Nat \ {0}, NEW d \in Nat \ {0}, NEW k \in Nat \ {0}, d >= k
  PROVE  LET middle == Half(w - 1)
             reach == Max({(w - 1) \div k, (2 * d) \div k})
         IN  /\ reach \in Int /\ reach >= 0
             /\ (w - 1) \div k <= reach
             /\ (middle - d) \div k >= -reach /\ (middle + d) \div k <= reach
<1> DEFINE middle == Half(w - 1)
           reach == Max({(w - 1) \div k, (2 * d) \div k})
<1>1. middle \in Nat /\ 2 * middle <= w - 1
  BY DEF Half
<1> HIDE DEF middle
<1>2. /\ (w - 1) \div k \in Int /\ (2 * d) \div k \in Int /\ (middle + d) \div k \in Int
      /\ (w - 1) \div k >= 0
  BY <1>1
<1>3. /\ reach \in Int /\ reach >= (w - 1) \div k /\ reach >= (2 * d) \div k
  BY <1>2, MaxOfTwo
<1> HIDE DEF reach
<1>4. (middle + d) \div k <= reach
  <2>1. CASE middle + d <= w - 1
    <3>1. (middle + d) \div k <= (w - 1) \div k
      BY <1>1, <2>1, QuotientGrows
    <3> QED
      BY <1>2, <1>3, <3>1
  <2>2. CASE middle + d <= 2 * d
    <3>1. (middle + d) \div k <= (2 * d) \div k
      BY <1>1, <2>2, QuotientGrows
    <3> QED
      BY <1>2, <1>3, <3>1
  <2> QED
    BY <1>1, <2>1, <2>2
<1>5. (middle - d) \div k >= -reach
  <2>1. PICK from \in Int : from = (-d) \div k
    BY QuotientGrows
  <2>2. PICK past \in Int : past = (d + k - 1) \div k
    BY QuotientGrows
  <2>3. from = -past
    BY <2>1, <2>2
  <2>4. past <= (2 * d) \div k
    BY <2>2, QuotientGrows
  <2>5. from <= (middle - d) \div k /\ (middle - d) \div k \in Int
    BY <1>1, <2>1, QuotientGrows
  <2> QED
    BY <1>2, <1>3, <2>3, <2>4, <2>5
<1> QED
  BY <1>2, <1>3, <1>4, <1>5 DEF middle, reach

\* A structure without a start_jigsaw_name starts near enough, when its
\* max_distance_from_center is at least a chunk (buildPlannedStructure).
THEOREM UnanchoredStartsNear ==
  ASSUME \A c \in Candidates : c.jigsaw = None /\ c.distance >= ChunkWidth
  PROVE  StartsNear
<1> SUFFICES ASSUME NEW c \in Candidates, NEW r \in Rotations, NEW anchor \in AnchorsOf(c, r)
             PROVE  LET from == -anchor[1]
                        to == from + Elements[c.start].size[1] - 1
                        middle == Half(from + to)
                    IN  /\ InChunks(c, from, to)
                        /\ c.distance > 0 => InChunks(c, middle - c.distance, middle + c.distance)
  BY DEF StartsNear
<1>1. PICK w \in Nat \ {0} : w = Elements[c.start].size[1]
  BY CandidatesAssumption, PoolsAssumption
<1>2. PICK k \in Nat \ {0} : k = ChunkWidth
  BY NumbersAssumption
<1>3. PICK d \in Nat \ {0} : d = c.distance /\ d >= k
  BY <1>2, CandidatesAssumption
<1>4. PICK a \in Int : a = anchor[1] /\ a >= 0 /\ a <= 0
  BY DEF AnchorsOf
<1>5. -a = 0 /\ -a + w - 1 = w - 1 /\ -a + (-a + w - 1) = w - 1
  BY <1>4
<1>6. BackreachOf(c) = Max({(w - 1) \div k, (2 * d) \div k})
  BY <1>1, <1>2, <1>3 DEF BackreachOf
<1>7. 0 \div k = 0
  OBVIOUS
<1>8. InChunks(c, 0, w - 1) /\ InChunks(c, Half(w - 1) - d, Half(w - 1) + d)
  <2>1. PICK middle : middle = Half(w - 1)
    OBVIOUS
  <2>2. PICK reach : reach = BackreachOf(c)
    OBVIOUS
  <2>3. /\ reach \in Int /\ reach >= 0
        /\ (w - 1) \div k <= reach
        /\ (middle - d) \div k >= -reach /\ (middle + d) \div k <= reach
    BY <1>3, <1>6, <2>1, <2>2, UnanchoredInNumbers
  <2>4. 0 \div k >= -reach
    BY <1>7, <2>3
  <2> QED
    BY <1>2, <2>1, <2>2, <2>3, <2>4 DEF InChunks
<1> QED
  BY <1>1, <1>3, <1>4, <1>5, <1>8

\* WithinBackreach always holds when the start templates and the ranges around
\* their middles end within the backreach (buildStructurePlanners): what is
\* assembled from them, however deep, reaches no further.
THEOREM StaysWithinBackreach ==
  ASSUME GroundEverywhere, StartsNear
  PROVE  Spec => []WithinBackreach
<1>1. RInv => WithinBackreach
  <2> SUFFICES ASSUME RInv, NEW i \in DOMAIN pieces
               PROVE  /\ pieces[i].box.x1 \div ChunkWidth >= -Backreach
                      /\ pieces[i].box.x2 \div ChunkWidth <= Backreach
    BY DEF WithinBackreach
  <2> DEFINE first == pieces[1].box
             middle == Half(first.x1 + first.x2)
             b == pieces[i].box
  <2>1. def \in Candidates /\ ChunkWidth \in Nat \ {0}
    BY NumbersAssumption DEF RInv, IInv, Types
  <2>2. /\ first \in Boxes /\ b \in Boxes /\ middle \in Int /\ def.distance \in Int
        /\ StartPlaced(def, pieces[1])
        /\ \/ first.x1 <= b.x1 /\ b.x2 <= first.x2
           \/ /\ def.distance > 0
              /\ middle - def.distance <= b.x1 /\ b.x2 <= middle + def.distance
    BY ReachInNumbers
  <2>3. /\ InChunks(def, first.x1, first.x2)
        /\ def.distance > 0 => InChunks(def, middle - def.distance, middle + def.distance)
    BY <2>1, <2>2 DEF StartPlaced, StartsNear
  <2> HIDE DEF first, middle, b
  <2>4. PICK x1 \in Int, x2 \in Int : InChunks(def, x1, x2) /\ x1 <= b.x1 /\ b.x2 <= x2
    BY <2>2, <2>3 DEF Boxes
  <2>5. b.x1 \in Int /\ b.x2 \in Int
    BY <2>2 DEF Boxes
  <2>6. x1 \div ChunkWidth <= b.x1 \div ChunkWidth /\ b.x2 \div ChunkWidth <= x2 \div ChunkWidth
    BY <2>1, <2>4, <2>5, QuotientGrows
  <2>7. BackreachOf(def) \in Int
    <3>1. Elements[def.start].size[1] - 1 \in Int /\ 2 * def.distance \in Int
      BY <2>1, <2>2, PoolsAssumption, CandidatesAssumption
    <3>2. (Elements[def.start].size[1] - 1) \div ChunkWidth \in Int
          /\ (2 * def.distance) \div ChunkWidth \in Int
      BY <2>1, <3>1
    <3> QED
      BY <3>2, OfTwo DEF BackreachOf
  <2>8. /\ x1 \div ChunkWidth \in Int /\ x2 \div ChunkWidth \in Int
        /\ b.x1 \div ChunkWidth \in Int /\ b.x2 \div ChunkWidth \in Int
    BY <2>1, <2>4, <2>5, QuotientGrows
  <2> QED
    BY <2>4, <2>6, <2>7, <2>8 DEF InChunks, Backreach, b
<1> QED
  BY <1>1, RInvAlways, PTL
=============================================================================
