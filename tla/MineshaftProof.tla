--------------------------- MODULE MineshaftProof ---------------------------
(***************************************************************************)
(* Every mineshaft stays near its room, whatever its bounds: proved from   *)
(* an invariant that adds what the network is made of while it is dug and  *)
(* where the room begins. And its passages are open, its pieces apart, and *)
(* it lies in the rock: proved from what holds while it is dug (NetOK),    *)
(* that every piece opens to what was dug before it and every foot leads   *)
(* on from what its piece digs, and from what the move does to boxes.      *)
(* Last, that its timber is held, from what holds of every column of a     *)
(* slice while two chunks build it.                                        *)
(***************************************************************************)
EXTENDS Mineshaft, MineshaftTimber, SequenceLemmas, TLAPS

Cuboids == [x1 : Int, y1 : Int, z1 : Int, x2 : Int, y2 : Int, z2 : Int]
Directions == {"north", "south", "west", "east"}
Feet == [from : Nat, dir : Directions, depth : Int, y : Int, x : Int, z : Int]
ShaftPieces ==
  [kind : {"room", "corridor", "crossing", "stairs"}, box : Cuboids,
   dir : Directions \cup {"none"}, depth : Int, from : Nat, entrances : SUBSET Cuboids]

Near(p) ==
  /\ p.depth <= MaxDepth + 1
  /\ p.box.x1 >= 2 - (Reach + 19) /\ p.box.x2 <= 2 + Reach + 19
  /\ p.box.z1 >= 2 - (Reach + 19) /\ p.box.z2 <= 2 + Reach + 19

Unsettled == shaftStage \in {"new", "digging", "dug"}
ShaftInv ==
  /\ shaftStage \in {"new", "digging", "dug", "normal", "mesa", "none"}
  /\ kinds \subseteq Kinds
  /\ Unsettled => shaft \in Seq(ShaftPieces) /\ feet \in Seq(Feet)
  /\ shaftStage \in {"digging", "dug"} => shaft # <<>> /\ shaft[1].box.x1 = 2 /\ shaft[1].box.z1 = 2
  /\ \A i \in DOMAIN shaft : Near(shaft[i])

-----------------------------------------------------------------------------
\* What the operators return.

LEMMA WallDomain == DOMAIN Wall = Directions
BY DEF Wall, Directions

LEMMA AcrossType ==
  ASSUME NEW p
  PROVE  Across(p) \subseteq Directions /\ Places(p) \subseteq 1 .. 4
BY DEF Across, Places, Directions

LEMMA EntranceType ==
  ASSUME NEW room \in Cuboids, NEW b \in Cuboids, NEW dir
  PROVE  Entrance(room, dir, b) \in Cuboids
<1>1. CASE dir = "north"
  BY <1>1 DEF Entrance, Cuboid, Cuboids
<1>2. CASE dir = "south"
  BY <1>2 DEF Entrance, Cuboid, Cuboids
<1>3. CASE dir = "west"
  BY <1>3 DEF Entrance, Cuboid, Cuboids
<1>4. CASE dir \notin {"north", "south", "west"}
  BY <1>4 DEF Entrance, Cuboid, Cuboids
<1> QED BY <1>1, <1>2, <1>3, <1>4

LEMMA FootType ==
  ASSUME NEW i \in Nat, NEW b \in Cuboids, NEW dir \in Directions,
         NEW along \in Int, NEW lift \in Int, NEW depth \in Int
  PROVE  Foot(i, b, dir, along, lift, depth) \in Feet
BY DEF Foot, Feet, Cuboids, Directions, AlongZ

LEMMA PieceType ==
  ASSUME NEW kind \in {"room", "corridor", "crossing", "stairs"}, NEW b \in Cuboids,
         NEW dir \in Directions \cup {"none"}, NEW depth \in Int, NEW from \in Nat
  PROVE  ShaftPiece(kind, b, dir, depth, from) \in ShaftPieces
BY DEF ShaftPiece, ShaftPieces

LEMMA RoomFeetType ==
  ASSUME NEW b \in Cuboids, NEW f \in RoomFeet(b)
  PROVE  f \in Seq(Feet)
<1>1. PICK doors \in DoorRows(b) :
        f = [n \in DOMAIN doors |-> Foot(1, b, doors[n].dir, doors[n].place, doors[n].height + 1, 0)]
  BY DEF RoomFeet
<1>2. PICK k \in 0 .. MaxDoors : doors \in [1 .. k -> Doors(b)]
  BY <1>1 DEF DoorRows
<1>3. \A n \in 1 .. k : Foot(1, b, doors[n].dir, doors[n].place, doors[n].height + 1, 0) \in Feet
  <2> SUFFICES ASSUME NEW n \in 1 .. k
               PROVE  Foot(1, b, doors[n].dir, doors[n].place, doors[n].height + 1, 0) \in Feet
    OBVIOUS
  <2>1. /\ doors[n].dir \in Directions
        /\ doors[n].place \in Int
        /\ doors[n].height + 1 \in Int
    <3>1. doors[n] \in Doors(b)
      BY <1>2
    <3>2. doors[n] \in [dir : Directions, place : DoorPlaces, height : DoorHeights]
      BY <3>1, WallDomain DEF Doors
    <3>3. doors[n].dir \in Directions /\ doors[n].place \in DoorPlaces /\ doors[n].height \in DoorHeights
      BY <3>2
    <3>4. doors[n].place \in Nat /\ doors[n].height \in Nat
      BY <3>3, MineshaftAssumption
    <3> QED BY <3>3, <3>4
  <2> QED BY <2>1, FootType
<1> QED BY <1>1, <1>2, <1>3, MineshaftAssumption

LEMMA CorridorFeetParts ==
  ASSUME NEW i \in Nat, NEW p \in ShaftPieces, p.dir \in Directions, NEW f \in CorridorFeet(i, p)
  PROVE  \E end \in CorridorEnds(i, p), sides \in CorridorSides(i, p) : f = <<end>> \o sides
BY DEF CorridorFeet

LEMMA CorridorFeetType ==
  ASSUME NEW i \in Nat, NEW p \in ShaftPieces, p.dir \in Directions, NEW f \in CorridorFeet(i, p)
  PROVE  f \in Seq(Feet)
<1>1. PICK end \in CorridorEnds(i, p), sides \in CorridorSides(i, p) : f = <<end>> \o sides
  BY CorridorFeetParts
<1>2. p.box \in Cuboids /\ p.depth \in Int
  BY DEF ShaftPieces
<1>3. Far(p) \in Int
  BY <1>2 DEF Far, Cuboids
<1>4. end \in Feet
  <2>1. PICK dir \in Directions, along \in Int, lift \in Lifts :
          end = Foot(i, p.box, dir, along, lift, p.depth)
    <3> DEFINE at == IF p.dir \in {"south", "east"} THEN Far(p) - 4 ELSE 0
    <3>1. at \in Int
      BY <1>3
    <3>2. end \in {Foot(i, p.box, p.dir, 0, lift, p.depth) : lift \in Lifts}
                 \cup {Foot(i, p.box, dir, at, lift, p.depth) : dir \in Across(p), lift \in Lifts}
      BY <1>1 DEF CorridorEnds
    <3> HIDE DEF at
    <3> QED BY <3>1, <3>2, AcrossType
  <2> QED BY <2>1, <1>2, FootType, MineshaftAssumption
<1>5. sides \in Seq(Feet)
  <2>1. CASE sides = <<>>
    BY <2>1
  <2>2. CASE sides # <<>>
    <3>1. PICK s \in Branches(p) :
            sides = [k \in DOMAIN s |-> Foot(i, p.box, s[k].dir, 5 * s[k].at - 2, 0, p.depth + 1)]
      BY <1>1, <2>2 DEF CorridorSides
    <3>2. PICK n \in 0 .. MaxSides : s \in [1 .. n -> [at : 1 .. 4, dir : Directions]]
      BY <3>1, AcrossType DEF Branches
    <3>3. \A k \in 1 .. n : Foot(i, p.box, s[k].dir, 5 * s[k].at - 2, 0, p.depth + 1) \in Feet
      <4> SUFFICES ASSUME NEW k \in 1 .. n
                   PROVE  Foot(i, p.box, s[k].dir, 5 * s[k].at - 2, 0, p.depth + 1) \in Feet
        OBVIOUS
      <4> DEFINE at == 5 * s[k].at - 2
                 depth == p.depth + 1
      <4>1. s[k].dir \in Directions /\ at \in Int /\ depth \in Int /\ 0 \in Int
        BY <3>2, <1>2
      <4> HIDE DEF at, depth
      <4>2. Foot(i, p.box, s[k].dir, at, 0, depth) \in Feet
        BY <4>1, <1>2, FootType
      <4> QED BY <4>2 DEF at, depth
    <3> QED BY <3>1, <3>2, <3>3, MineshaftAssumption
  <2> QED BY <2>1, <2>2
<1> QED BY <1>1, <1>4, <1>5

LEMMA CrossingFeetType ==
  ASSUME NEW i \in Nat, NEW p \in ShaftPieces, NEW f \in CrossingFeet(i, p)
  PROVE  f \in Seq(Feet)
<1>1. PICK lower \in LowerFeet(i, p), upper \in UpperFeet(i, p) : f = lower \o upper
  BY DEF CrossingFeet
<1>2. p.box \in Cuboids /\ p.depth \in Int
  BY DEF ShaftPieces
<1>3. lower \in Seq(Feet)
  <2>1. PICK low \in LowerSides(p) :
          lower = [n \in 1 .. 3 |-> Foot(i, p.box, low[n], 1, 0, p.depth)]
    BY <1>1 DEF LowerFeet
  <2>2. low \in [1 .. 3 -> Directions]
    BY <2>1, WallDomain DEF LowerSides
  <2>3. \A n \in 1 .. 3 : Foot(i, p.box, low[n], 1, 0, p.depth) \in Feet
    BY <1>2, <2>2, FootType
  <2> QED BY <2>1, <2>3
<1>4. upper \in Seq(Feet)
  <2>1. PICK high \in UpperSides(p) :
          upper = [n \in DOMAIN high |-> Foot(i, p.box, high[n], 1, 4, p.depth)]
    BY <1>1 DEF UpperFeet
  <2>2. CASE TwoFloored(p)
    <3>1. PICK k \in 0 .. 4 : high \in [1 .. k -> Directions]
      BY <2>1, <2>2, WallDomain DEF UpperSides
    <3>2. \A n \in 1 .. k : Foot(i, p.box, high[n], 1, 4, p.depth) \in Feet
      BY <1>2, <3>1, FootType
    <3> QED BY <2>1, <3>1, <3>2
  <2>3. CASE ~ TwoFloored(p)
    <3>1. high = <<>>
      BY <2>1, <2>3 DEF UpperSides
    <3> QED BY <2>1, <3>1
  <2> QED BY <2>2, <2>3
<1> QED BY <1>1, <1>3, <1>4

LEMMA StairsFeetType ==
  ASSUME NEW i \in Nat, NEW p \in ShaftPieces, p.dir \in Directions, NEW f \in StairsFeet(i, p)
  PROVE  f \in Seq(Feet)
<1>1. f = <<Foot(i, p.box, p.dir, 0, 0, p.depth)>>
  BY DEF StairsFeet
<1>2. Foot(i, p.box, p.dir, 0, 0, p.depth) \in Feet
  BY FootType DEF ShaftPieces
<1> QED BY <1>1, <1>2

\* A box laid from a foot ends at most far blocks away from it, and three blocks
\* to its side.
LEMMA LaidNear ==
  ASSUME NEW foot \in Feet, NEW far \in 5 .. 20, NEW left \in 0 .. 1, NEW right \in 2 .. 3,
         NEW down \in Int, NEW up \in Int
  PROVE  LET b == Laid(foot, foot.dir, far, left, right, down, up)
         IN  /\ b \in Cuboids
             /\ b.x1 >= foot.x - 19 /\ b.x2 <= foot.x + 19
             /\ b.z1 >= foot.z - 19 /\ b.z2 <= foot.z + 19
BY DEF Laid, Cuboid, Cuboids, Feet, Directions

LEMMA NearFoot ==
  ASSUME NEW foot \in Feet, foot.depth <= MaxDepth,
         foot.x - 2 \in -Reach .. Reach, foot.z - 2 \in -Reach .. Reach,
         NEW p, NEW b \in Cuboids, p.box = b, p.depth = foot.depth + 1,
         b.x1 >= foot.x - 19, b.x2 <= foot.x + 19, b.z1 >= foot.z - 19, b.z2 <= foot.z + 19
  PROVE  Near(p)
<1>1. /\ foot.x \in Int /\ foot.z \in Int /\ foot.depth \in Int
      /\ b.x1 \in Int /\ b.x2 \in Int /\ b.z1 \in Int /\ b.z2 \in Int
  BY DEF Feet, Cuboids
<1>2. p.depth <= MaxDepth + 1
  BY <1>1, MineshaftAssumption
<1>3. b.x1 >= 2 - (Reach + 19) /\ b.x2 <= 2 + Reach + 19
  BY <1>1, MineshaftAssumption
<1>4. b.z1 >= 2 - (Reach + 19) /\ b.z2 <= 2 + Reach + 19
  BY <1>1, MineshaftAssumption
<1> QED BY <1>2, <1>3, <1>4 DEF Near

-----------------------------------------------------------------------------
LEMMA ShaftInvInit == ShaftInit => ShaftInv
BY DEF ShaftInit, ShaftInv, Unsettled

\* The room itself.
LEMMA RoomInv == ShaftInv /\ DigRoom => ShaftInv'
<1> SUFFICES ASSUME ShaftInv, DigRoom
             PROVE  ShaftInv'
  OBVIOUS
<1>1. PICK dx \in RoomGrowth, dy \in RoomGrowth, dz \in RoomGrowth :
        /\ shaft' = <<ShaftPiece("room", Cuboid(2, 50, 2, 9 + dx, 54 + dy, 9 + dz), "none", 0, 0)>>
        /\ feet' \in RoomFeet(Cuboid(2, 50, 2, 9 + dx, 54 + dy, 9 + dz))
  BY DEF DigRoom
<1> DEFINE b == Cuboid(2, 50, 2, 9 + dx, 54 + dy, 9 + dz)
<1>2. b \in Cuboids /\ b.x1 = 2 /\ b.z1 = 2 /\ b.x2 <= 14 /\ b.z2 <= 14
  BY MineshaftAssumption DEF Cuboid, Cuboids
<1>3. ShaftPiece("room", b, "none", 0, 0) \in ShaftPieces
  <2> HIDE DEF b
  <2> QED BY <1>2 DEF ShaftPiece, ShaftPieces
<1>4. Near(ShaftPiece("room", b, "none", 0, 0))
  BY <1>2, MineshaftAssumption DEF Near, ShaftPiece, Cuboids
<1>5. feet' \in Seq(Feet)
  BY <1>1, <1>2, RoomFeetType
<1>6. shaft' \in Seq(ShaftPieces) /\ shaft' # <<>> /\ shaft'[1].box = b /\ DOMAIN shaft' = {1}
  BY <1>1, <1>3 DEF ShaftPiece
<1> QED
  <2>1. \A i \in DOMAIN shaft' : Near(shaft'[i])
    BY <1>1, <1>4, <1>6
  <2>2. Near(ShaftPiece("room", b, "none", 0, 0)) = Near(ShaftPiece("room", b, "none", 0, 0))'
    OBVIOUS
  <2>3. shaftStage' = "digging" /\ kinds' = kinds
    BY DEF DigRoom
  <2> QED BY <1>2, <1>5, <1>6, <2>1, <2>3 DEF ShaftInv, Unsettled, Near

\* A piece laid from a foot within reach, whatever its kind and its own feet.
LEMMA AddInv ==
  ASSUME ShaftInv, MayAdd, NEW kind \in {"corridor", "crossing", "stairs"},
         NEW far \in 5 .. 20, NEW left \in 0 .. 1, NEW right \in 2 .. 3,
         NEW down \in Int, NEW up \in Int, NEW choices,
         \A f \in choices : f \in Seq(Feet),
         Add(NewPiece(kind, Laid(Head(feet), Head(feet).dir, far, left, right, down, up)), choices)
  PROVE  ShaftInv'
<1> DEFINE foot == Head(feet)
           b == Laid(foot, foot.dir, far, left, right, down, up)
           p == NewPiece(kind, b)
<1>1. shaft \in Seq(ShaftPieces) /\ feet \in Seq(Feet) /\ shaft # <<>>
  BY DEF ShaftInv, MayAdd, Unsettled
<1>2. foot \in Feet /\ Tail(feet) \in Seq(Feet)
  BY <1>1 DEF MayAdd
<1>3. /\ b \in Cuboids
      /\ b.x1 >= foot.x - 19 /\ b.x2 <= foot.x + 19
      /\ b.z1 >= foot.z - 19 /\ b.z2 <= foot.z + 19
  BY <1>2, LaidNear
<1>4. shaft[1].box.x1 = 2 /\ shaft[1].box.z1 = 2
  BY DEF ShaftInv, MayAdd
<1>5. foot.depth <= MaxDepth /\ foot.x - 2 \in -Reach .. Reach /\ foot.z - 2 \in -Reach .. Reach
  BY <1>4 DEF MayAdd, MayDig
<1>6. p \in ShaftPieces
  <2>1. foot.dir \in Directions \cup {"none"} /\ foot.depth + 1 \in Int /\ foot.from \in Nat
    <3> HIDE DEF foot
    <3> QED BY <1>2 DEF Feet
  <2> DEFINE depth == foot.depth + 1
  <2> HIDE DEF b, depth
  <2>2. depth \in Int
    BY <2>1 DEF depth
  <2>3. ShaftPiece(kind, b, foot.dir, depth, foot.from) \in ShaftPieces
    BY <2>1, <2>2, <1>3, PieceType
  <2> QED BY <2>3 DEF NewPiece, depth
<1>7. Near(p)
  <2>1. p.depth = foot.depth + 1 /\ p.box = b
    BY DEF NewPiece, ShaftPiece
  <2> HIDE DEF p, b, foot
  <2>3. b \in Cuboids
    BY <1>3
  <2> QED BY <2>1, <2>3, <1>2, <1>3, <1>5, NearFoot
<1>8. PICK pieces : pieces = WithEntrance(shaft, foot, b)
  OBVIOUS
<1>9. /\ pieces \in Seq(ShaftPieces) /\ pieces # <<>> /\ DOMAIN pieces = DOMAIN shaft
      /\ \A i \in DOMAIN shaft : pieces[i].box = shaft[i].box /\ pieces[i].depth = shaft[i].depth
  <2>1. CASE foot.from = 1
    <3>1. shaft[1] \in ShaftPieces /\ 1 \in DOMAIN shaft
      BY <1>1
    <3>2. Entrance(shaft[1].box, foot.dir, b) \in Cuboids
      <4>1. shaft[1].box \in Cuboids
        BY <3>1 DEF ShaftPieces
      <4> HIDE DEF b, foot
      <4> QED BY <4>1, <1>3, EntranceType
    <3>3. pieces = [shaft EXCEPT ![1].entrances = @ \cup {Entrance(shaft[1].box, foot.dir, b)}]
      BY <1>8, <2>1 DEF WithEntrance
    <3>4. [shaft[1] EXCEPT !.entrances = @ \cup {Entrance(shaft[1].box, foot.dir, b)}] \in ShaftPieces
      BY <3>1, <3>2 DEF ShaftPieces
    <3> HIDE DEF b, foot
    <3> QED BY <1>1, <3>1, <3>3, <3>4 DEF ShaftPieces
  <2>2. CASE foot.from # 1
    BY <1>1, <1>8, <2>2 DEF WithEntrance
  <2> QED BY <2>1, <2>2
<1>10. shaft' = Append(pieces, p) /\ kinds' = kinds /\ shaftStage' = "digging"
  <2>1. p.box = b
    BY DEF NewPiece, ShaftPiece
  <2> QED BY <1>8, <2>1 DEF Add, MayAdd
<1>11. feet' \in Seq(Feet)
  <2>1. PICK children \in choices : feet' = children \o Tail(feet)
    BY DEF Add
  <2> QED BY <2>1, <1>2
<1>12. shaft' \in Seq(ShaftPieces) /\ shaft' # <<>> /\ shaft'[1] = pieces[1]
  <2> HIDE DEF p
  <2> QED BY <1>6, <1>9, <1>10
<1>13. \A i \in DOMAIN shaft' : Near(shaft'[i])
  <2> SUFFICES ASSUME NEW i \in DOMAIN shaft'
               PROVE  Near(shaft'[i])
    OBVIOUS
  <2> HIDE DEF p
  <2>1. CASE i = Len(pieces) + 1
    BY <2>1, <1>7, <1>9, <1>10
  <2>2. CASE i # Len(pieces) + 1
    <3>1. i \in DOMAIN shaft /\ shaft'[i] = pieces[i]
      BY <2>2, <1>6, <1>9, <1>10
    <3>2. Near(shaft[i])
      BY <3>1 DEF ShaftInv
    <3> QED BY <3>1, <3>2, <1>9 DEF Near
  <2> QED BY <2>1, <2>2
<1>14. shaft'[1].box.x1 = 2 /\ shaft'[1].box.z1 = 2
  BY <1>1, <1>4, <1>9, <1>12
<1> QED BY <1>10, <1>11, <1>12, <1>13, <1>14 DEF ShaftInv, Unsettled, Near

LEMMA HeadType ==
  ASSUME ShaftInv, MayAdd
  PROVE  /\ Head(feet) \in Feet
         /\ Len(shaft) + 1 \in Nat
<1>1. shaft \in Seq(ShaftPieces) /\ feet \in Seq(Feet)
  BY DEF ShaftInv, MayAdd, Unsettled
<1> QED BY <1>1 DEF MayAdd

LEMMA NewPieceType ==
  ASSUME ShaftInv, MayAdd, NEW kind \in {"corridor", "crossing", "stairs"},
         NEW far \in 5 .. 20, NEW left \in 0 .. 1, NEW right \in 2 .. 3,
         NEW down \in Int, NEW up \in Int
  PROVE  LET p == NewPiece(kind, Laid(Head(feet), Head(feet).dir, far, left, right, down, up))
         IN  p \in ShaftPieces /\ p.dir \in Directions
<1>1. Head(feet) \in Feet
  BY HeadType
<1>2. Laid(Head(feet), Head(feet).dir, far, left, right, down, up) \in Cuboids
  BY <1>1, LaidNear
<1>3. Head(feet).dir \in Directions /\ Head(feet).depth + 1 \in Int /\ Head(feet).from \in Nat
  BY <1>1 DEF Feet
<1> DEFINE b == Laid(Head(feet), Head(feet).dir, far, left, right, down, up)
           depth == Head(feet).depth + 1
<1>4. b \in Cuboids /\ depth \in Int
  BY <1>2, <1>3
<1> HIDE DEF b, depth
<1>5. ShaftPiece(kind, b, Head(feet).dir, depth, Head(feet).from) \in ShaftPieces
  BY <1>3, <1>4, PieceType
<1>6. NewPiece(kind, b) = ShaftPiece(kind, b, Head(feet).dir, depth, Head(feet).from)
  BY DEF NewPiece, depth
<1>7. NewPiece(kind, b) \in ShaftPieces /\ NewPiece(kind, b).dir \in Directions
  BY <1>3, <1>5, <1>6 DEF ShaftPiece
<1> QED BY <1>7 DEF b

LEMMA CrossingInv == ShaftInv /\ DigCrossing => ShaftInv'
<1> SUFFICES ASSUME ShaftInv, DigCrossing
             PROVE  ShaftInv'
  OBVIOUS
<1>1. MayAdd
  BY DEF DigCrossing
<1>2. PICK up \in {2, 6} :
        Add(NewPiece("crossing", CrossingBox(Head(feet), up)),
            CrossingFeet(Len(shaft) + 1, NewPiece("crossing", CrossingBox(Head(feet), up))))
  BY DEF DigCrossing
<1> DEFINE p == NewPiece("crossing", Laid(Head(feet), Head(feet).dir, 5, 1, 3, 0, up))
<1>3. p \in ShaftPieces
  <2>1. up \in Int /\ 0 \in Int /\ 5 \in 5 .. 20 /\ 1 \in 0 .. 1 /\ 3 \in 2 .. 3
    OBVIOUS
  <2>2. "crossing" \in {"corridor", "crossing", "stairs"}
    OBVIOUS
  <2> QED BY <1>1, <2>1, <2>2, NewPieceType, Zenon
<1>4. \A f \in CrossingFeet(Len(shaft) + 1, p) : f \in Seq(Feet)
  <2> HIDE DEF p
  <2> QED BY <1>1, <1>3, HeadType, CrossingFeetType
<1>5. Add(p, CrossingFeet(Len(shaft) + 1, p))
  BY <1>2 DEF CrossingBox
<1> QED BY <1>1, <1>4, <1>5, AddInv

LEMMA StairsInv == ShaftInv /\ DigStairs => ShaftInv'
<1> SUFFICES ASSUME ShaftInv, DigStairs
             PROVE  ShaftInv'
  OBVIOUS
<1>1. MayAdd
  BY DEF DigStairs
<1> DEFINE p == NewPiece("stairs", Laid(Head(feet), Head(feet).dir, 9, 0, 2, 5, 2))
<1>2. p \in ShaftPieces /\ p.dir \in Directions
  <2>1. 5 \in Int /\ 2 \in Int /\ 9 \in 5 .. 20 /\ 0 \in 0 .. 1 /\ 2 \in 2 .. 3
    OBVIOUS
  <2>2. "stairs" \in {"corridor", "crossing", "stairs"}
    OBVIOUS
  <2> QED BY <1>1, <2>1, <2>2, NewPieceType, Zenon
<1>3. \A f \in StairsFeet(Len(shaft) + 1, p) : f \in Seq(Feet)
  <2> HIDE DEF p
  <2> QED BY <1>1, <1>2, HeadType, StairsFeetType
<1>4. Add(p, StairsFeet(Len(shaft) + 1, p))
  BY DEF DigStairs, StairsBox
<1> QED BY <1>1, <1>3, <1>4, AddInv

LEMMA CorridorPieceType ==
  ASSUME ShaftInv, MayAdd, NEW far \in 5 .. 20
  PROVE  LET p == NewPiece("corridor", Laid(Head(feet), Head(feet).dir, far, 0, 2, 0, 2))
         IN  p \in ShaftPieces /\ p.dir \in Directions
<1>1. "corridor" \in {"corridor", "crossing", "stairs"} /\ 0 \in 0 .. 1 /\ 2 \in 2 .. 3 /\ 0 \in Int /\ 2 \in Int
  OBVIOUS
<1> QED BY <1>1, NewPieceType

LEMMA CorridorInv == ShaftInv /\ DigCorridor => ShaftInv'
<1> SUFFICES ASSUME ShaftInv, DigCorridor
             PROVE  ShaftInv'
  OBVIOUS
<1>1. MayAdd
  BY DEF DigCorridor
<1>2. PICK sections \in CorridorLengths(Head(feet)) :
        Add(NewPiece("corridor", CorridorBox(Head(feet), sections)),
            CorridorFeet(Len(shaft) + 1, NewPiece("corridor", CorridorBox(Head(feet), sections))))
  BY DEF DigCorridor
<1> DEFINE far == 5 * sections
<1>3. far \in 5 .. 20
  BY DEF CorridorLengths
<1>4. CorridorBox(Head(feet), sections) = Laid(Head(feet), Head(feet).dir, far, 0, 2, 0, 2)
  BY DEF CorridorBox
<1> HIDE DEF far
<1> DEFINE p == NewPiece("corridor", Laid(Head(feet), Head(feet).dir, far, 0, 2, 0, 2))
<1>5. p \in ShaftPieces /\ p.dir \in Directions
  BY <1>1, <1>3, CorridorPieceType
<1>6. \A f \in CorridorFeet(Len(shaft) + 1, p) : f \in Seq(Feet)
  <2> HIDE DEF p
  <2> QED BY <1>1, <1>5, HeadType, CorridorFeetType
<1>7. Add(p, CorridorFeet(Len(shaft) + 1, p))
  BY <1>2, <1>4
<1> QED BY <1>1, <1>3, <1>6, <1>7, AddInv

LEMMA SettleInv == ShaftInv /\ Settle => ShaftInv'
<1> SUFFICES ASSUME ShaftInv, Settle
             PROVE  ShaftInv'
  OBVIOUS
<1>1. PICK kind \in kinds :
        \/ /\ \E dy \in Shifts(kind) : shaft' = [i \in DOMAIN shaft |-> Raised(shaft[i], dy)]
           /\ shaftStage' = kind
           /\ UNCHANGED kinds
        \/ /\ kinds' = kinds \ {kind}
           /\ shaftStage' = IF kinds' = {} THEN "none" ELSE "dug"
           /\ UNCHANGED shaft
  BY DEF Settle
<1>2. kind \in {"normal", "mesa"} /\ kinds' \subseteq Kinds /\ feet' = feet
  BY <1>1, MineshaftAssumption DEF ShaftInv, Settle
<1>3. CASE UNCHANGED shaft /\ shaftStage' \in {"none", "dug"}
  BY <1>2, <1>3 DEF ShaftInv, Unsettled, Settle, Near
<1>4. ASSUME NEW dy \in Shifts(kind), shaft' = [i \in DOMAIN shaft |-> Raised(shaft[i], dy)],
             shaftStage' = kind
      PROVE  ShaftInv'
  <2>1. \A i \in DOMAIN shaft' : Near(shaft'[i])
    <3> SUFFICES ASSUME NEW i \in DOMAIN shaft'
                 PROVE  Near(shaft'[i])
      OBVIOUS
    <3>1. i \in DOMAIN shaft /\ shaft'[i] = Raised(shaft[i], dy)
      BY <1>4
    <3>2. Near(shaft[i])
      BY <3>1 DEF ShaftInv
    <3>3. /\ Raised(shaft[i], dy).depth = shaft[i].depth
          /\ Raised(shaft[i], dy).box.x1 = shaft[i].box.x1
          /\ Raised(shaft[i], dy).box.x2 = shaft[i].box.x2
          /\ Raised(shaft[i], dy).box.z1 = shaft[i].box.z1
          /\ Raised(shaft[i], dy).box.z2 = shaft[i].box.z2
      BY DEF Raised, ShaftPiece, Up, Cuboid
    <3> QED BY <3>1, <3>2, <3>3 DEF Near
  <2> QED BY <1>2, <1>4, <2>1 DEF ShaftInv, Unsettled, Near
<1> QED BY <1>1, <1>3, <1>4

LEMMA ShaftInvStep == ShaftInv /\ [ShaftNext]_shaftVars => ShaftInv'
<1> SUFFICES ASSUME ShaftInv, [ShaftNext]_shaftVars
             PROVE  ShaftInv'
  OBVIOUS
<1>1. CASE DigRoom
  BY <1>1, RoomInv
<1>2. CASE DigCrossing
  BY <1>2, CrossingInv
<1>3. CASE DigStairs
  BY <1>3, StairsInv
<1>4. CASE DigCorridor
  BY <1>4, CorridorInv
<1>5. CASE PassOn
  BY <1>5 DEF PassOn, ShaftInv, Unsettled, Near
<1>6. CASE Dug
  BY <1>6 DEF Dug, ShaftInv, Unsettled, Near
<1>7. CASE Settle
  BY <1>7, SettleInv
<1>8. CASE UNCHANGED shaftVars
  BY <1>8 DEF shaftVars, ShaftInv, Unsettled, Near
<1> QED BY <1>1, <1>2, <1>3, <1>4, <1>5, <1>6, <1>7, <1>8 DEF ShaftNext

(***************************************************************************)
(* However it branches, no piece of a mineshaft is deeper than one below   *)
(* the limit or ends further from the room than the reach and the longest  *)
(* corridor, for any reach, depth, lengths and numbers of branches.        *)
(***************************************************************************)
THEOREM MineshaftEndsNearItsRoom == ShaftSpec => []ShaftWithinReach
<1>1. ShaftInv => ShaftWithinReach
  BY DEF ShaftInv, Near, ShaftWithinReach
<1> QED BY <1>1, ShaftInvInit, ShaftInvStep, PTL DEF ShaftSpec

-----------------------------------------------------------------------------
(***************************************************************************)
(* Passages: boxes that hold or touch each other.                          *)
(***************************************************************************)
Holds(a, e) ==
  /\ a.x1 <= e.x1 /\ e.x2 <= a.x2
  /\ a.y1 <= e.y1 /\ e.y2 <= a.y2
  /\ a.z1 <= e.z1 /\ e.z2 <= a.z2

\* Boxes that meet once one is widened by so much.
Near3(a, b, dx, dy, dz) ==
  /\ a.x1 - dx <= b.x2 /\ b.x1 <= a.x2 + dx
  /\ a.y1 - dy <= b.y2 /\ b.y1 <= a.y2 + dy
  /\ a.z1 - dz <= b.z2 /\ b.z1 <= a.z2 + dz

\* To touch is to meet when widened by one along one axis.
LEMMA TouchIsNear ==
  ASSUME NEW a \in Cuboids, NEW b \in Cuboids
  PROVE  Touch(a, b) <=> Near3(a, b, 1, 0, 0) \/ Near3(a, b, 0, 1, 0) \/ Near3(a, b, 0, 0, 1)
<1>1. /\ a.x1 \in Int /\ a.x2 \in Int /\ a.y1 \in Int /\ a.y2 \in Int /\ a.z1 \in Int /\ a.z2 \in Int
      /\ b.x1 \in Int /\ b.x2 \in Int /\ b.y1 \in Int /\ b.y2 \in Int /\ b.z1 \in Int /\ b.z2 \in Int
  BY DEF Cuboids
<1>2. Meet([a EXCEPT !.x1 = @ - 1, !.x2 = @ + 1], b) <=> Near3(a, b, 1, 0, 0)
  BY <1>1 DEF Meet, Near3, Cuboids
<1>3. Meet([a EXCEPT !.y1 = @ - 1, !.y2 = @ + 1], b) <=> Near3(a, b, 0, 1, 0)
  BY <1>1 DEF Meet, Near3, Cuboids
<1>4. Meet([a EXCEPT !.z1 = @ - 1, !.z2 = @ + 1], b) <=> Near3(a, b, 0, 0, 1)
  BY <1>1 DEF Meet, Near3, Cuboids
<1> QED
  BY <1>2, <1>3, <1>4 DEF Touch

\* What holds a box touches whatever the box touches.
LEMMA HolderTouches ==
  ASSUME NEW a \in Cuboids, NEW e \in Cuboids, NEW b \in Cuboids, Holds(a, e), Touch(e, b)
  PROVE  Touch(a, b)
<1>1. /\ a.x1 \in Int /\ a.x2 \in Int /\ a.y1 \in Int /\ a.y2 \in Int /\ a.z1 \in Int /\ a.z2 \in Int
      /\ b.x1 \in Int /\ b.x2 \in Int /\ b.y1 \in Int /\ b.y2 \in Int /\ b.z1 \in Int /\ b.z2 \in Int
      /\ e.x1 \in Int /\ e.x2 \in Int /\ e.y1 \in Int /\ e.y2 \in Int /\ e.z1 \in Int /\ e.z2 \in Int
  BY DEF Cuboids
<1> QED
  BY <1>1, TouchIsNear DEF Near3, Holds

\* Two boxes that touch still do when both are moved up or down.
LEMMA RaisedTouch ==
  ASSUME NEW a \in Cuboids, NEW b \in Cuboids, NEW dy \in Int
  PROVE  /\ Up(a, dy) \in Cuboids
         /\ Touch(a, b) => Touch(Up(a, dy), Up(b, dy))
<1>1. /\ a.x1 \in Int /\ a.x2 \in Int /\ a.y1 \in Int /\ a.y2 \in Int /\ a.z1 \in Int /\ a.z2 \in Int
      /\ b.x1 \in Int /\ b.x2 \in Int /\ b.y1 \in Int /\ b.y2 \in Int /\ b.z1 \in Int /\ b.z2 \in Int
  BY DEF Cuboids
<1>2. Up(a, dy) \in Cuboids /\ Up(b, dy) \in Cuboids
  BY <1>1 DEF Up, Cuboid, Cuboids
<1> QED
  BY <1>1, <1>2, TouchIsNear DEF Near3, Up, Cuboid

\* Two heights are in the same order after both are raised.
LEMMA RaisedOrder ==
  ASSUME NEW y \in Int, NEW z \in Int, NEW dy \in Int
  PROVE  y + dy <= z + dy <=> y <= z
OBVIOUS

\* Boxes that stand apart still do when both are raised.
LEMMA RaisedApart ==
  ASSUME NEW a \in Cuboids, NEW b \in Cuboids, NEW dy \in Int, ~ Meet(a, b)
  PROVE  ~ Meet(Up(a, dy), Up(b, dy))
<1>1. a.y1 \in Int /\ a.y2 \in Int /\ b.y1 \in Int /\ b.y2 \in Int
  BY DEF Cuboids
<1>2. a.y1 + dy <= b.y2 + dy <=> a.y1 <= b.y2
  BY <1>1, RaisedOrder
<1>3. b.y1 + dy <= a.y2 + dy <=> b.y1 <= a.y2
  BY <1>1, RaisedOrder
<1>4. /\ Up(a, dy).x1 = a.x1 /\ Up(a, dy).x2 = a.x2 /\ Up(a, dy).z1 = a.z1 /\ Up(a, dy).z2 = a.z2
      /\ Up(a, dy).y1 = a.y1 + dy /\ Up(a, dy).y2 = a.y2 + dy
  BY DEF Up, Cuboid
<1>5. /\ Up(b, dy).x1 = b.x1 /\ Up(b, dy).x2 = b.x2 /\ Up(b, dy).z1 = b.z1 /\ Up(b, dy).z2 = b.z2
      /\ Up(b, dy).y1 = b.y1 + dy /\ Up(b, dy).y2 = b.y2 + dy
  BY DEF Up, Cuboid
<1>6. Meet(Up(a, dy), Up(b, dy)) <=> Meet(a, b)
  BY <1>2, <1>3, <1>4, <1>5, Zenon DEF Meet
<1> QED
  BY <1>6

\* The hall of a room.
LEMMA HallIs ==
  ASSUME NEW p, p.box \in Cuboids
  PROVE  Hall(p) = Cuboid(p.box.x1, p.box.y1 + 1, p.box.z1, p.box.x2,
                          IF p.box.y1 + 3 <= p.box.y2 THEN p.box.y1 + 3 ELSE p.box.y2, p.box.z2)
<1> DEFINE b == p.box
<1>1. b.y1 + 3 \in Int /\ b.y2 \in Int
  BY DEF Cuboids
<1>2. Min({b.y1 + 3, b.y2}) = IF b.y1 + 3 <= b.y2 THEN b.y1 + 3 ELSE b.y2
  BY <1>1 DEF Min
<1>3. Hall(p) = [b EXCEPT !.y1 = b.y1 + 1, !.y2 = Min({b.y1 + 3, b.y2})]
  BY DEF Hall
<1> HIDE DEF b
<1>4. b \in Cuboids
  BY DEF b
<1> QED
  BY <1>2, <1>3, <1>4 DEF Cuboid, Cuboids, b

-----------------------------------------------------------------------------
(***************************************************************************)
(* Where a piece is entered: three blocks wide and two high at its foot,   *)
(* or at the same place of an upper floor.                                 *)
(***************************************************************************)
Entry(f, y) ==
  IF AlongZ(f.dir) THEN Cuboid(f.x, y, f.z, f.x + 2, y + 1, f.z)
                   ELSE Cuboid(f.x, y, f.z, f.x, y + 1, f.z + 2)

\* A piece laid from a foot is open where it is entered.
OpenAt(p, e) == \E a \in Air(p) \cap Cuboids : Holds(a, e)

LEMMA CorridorEntered ==
  ASSUME NEW f \in Feet, NEW s \in 1 .. 4, NEW p,
         p.kind = "corridor", p.dir = f.dir, p.box = Laid(f, f.dir, 5 * s, 0, 2, 0, 2)
  PROVE  OpenAt(p, Entry(f, f.y))
<1>1. f.x \in Int /\ f.y \in Int /\ f.z \in Int /\ f.dir \in Directions
  BY DEF Feet
<1> DEFINE n == 5 * s
<1>2. n \in 5 .. 20 /\ (n \div 5) * 5 = n
  OBVIOUS
<1>3. p.box = Laid(f, f.dir, n, 0, 2, 0, 2)
  OBVIOUS
<1> HIDE DEF n
<1>4. Far(p) = n
  BY <1>1, <1>2, <1>3 DEF Far, Laid, Cuboid, AlongZ, Directions
<1> DEFINE a == FromEntry(p, 0, 0, 1, n - 1)
<1>5. a \in Air(p)
  BY <1>2, <1>4 DEF Air, CorridorAir
<1>6. a \in Cuboids /\ Holds(a, Entry(f, f.y))
  <2>1. CASE f.dir = "north"
    BY <1>1, <1>2, <1>3, <2>1 DEF FromEntry, Laid, Cuboid, Cuboids, Holds, Entry, AlongZ
  <2>2. CASE f.dir = "south"
    BY <1>1, <1>2, <1>3, <2>2 DEF FromEntry, Laid, Cuboid, Cuboids, Holds, Entry, AlongZ
  <2>3. CASE f.dir = "west"
    BY <1>1, <1>2, <1>3, <2>3 DEF FromEntry, Laid, Cuboid, Cuboids, Holds, Entry, AlongZ
  <2>4. CASE f.dir = "east"
    BY <1>1, <1>2, <1>3, <2>4 DEF FromEntry, Laid, Cuboid, Cuboids, Holds, Entry, AlongZ
  <2> QED
    BY <1>1, <2>1, <2>2, <2>3, <2>4 DEF Directions
<1> QED
  BY <1>5, <1>6 DEF OpenAt

LEMMA StairsEntered ==
  ASSUME NEW f \in Feet, NEW p,
         p.kind = "stairs", p.dir = f.dir, p.box = StairsBox(f)
  PROVE  OpenAt(p, Entry(f, f.y))
<1>1. f.x \in Int /\ f.y \in Int /\ f.z \in Int /\ f.dir \in Directions
  BY DEF Feet
<1> DEFINE a == FromEntry(p, 5, 0, 7, 1)
<1>4. a \in Air(p)
  BY DEF Air, StairsAir
<1>5. CASE f.dir = "north"
  BY <1>1, <1>4, <1>5 DEF OpenAt, FromEntry, StairsBox, Laid, Cuboid, Cuboids, Holds, Entry, AlongZ
<1>6. CASE f.dir = "south"
  BY <1>1, <1>4, <1>6 DEF OpenAt, FromEntry, StairsBox, Laid, Cuboid, Cuboids, Holds, Entry, AlongZ
<1>7. CASE f.dir = "west"
  BY <1>1, <1>4, <1>7 DEF OpenAt, FromEntry, StairsBox, Laid, Cuboid, Cuboids, Holds, Entry, AlongZ
<1>8. CASE f.dir = "east"
  BY <1>1, <1>4, <1>8 DEF OpenAt, FromEntry, StairsBox, Laid, Cuboid, Cuboids, Holds, Entry, AlongZ
<1> QED
  BY <1>1, <1>5, <1>6, <1>7, <1>8 DEF Directions

\* A crossing is open in a cross on each of its floors.
CrossAlong(b, y) == Cuboid(b.x1 + 1, y, b.z1, b.x2 - 1, y + 2, b.z2)
CrossAthwart(b, y) == Cuboid(b.x1, y, b.z1 + 1, b.x2, y + 2, b.z2 - 1)

LEMMA CrossingFloors ==
  ASSUME NEW p, p.kind = "crossing", p.box \in Cuboids, p.box.y2 \in {p.box.y1 + 2, p.box.y1 + 6},
         NEW y \in {p.box.y1, p.box.y2 - 2}
  PROVE  CrossAlong(p.box, y) \in Air(p) /\ CrossAthwart(p.box, y) \in Air(p)
<1> DEFINE b == p.box
<1>1. b.y1 \in Int /\ b.y2 \in Int
  BY DEF Cuboids
<1>2. CASE b.y2 = b.y1 + 6
  <2>1. Cross(b, b.y1, b.y1 + 2) \cup Cross(b, b.y2 - 2, b.y2) \subseteq Air(p)
    BY <1>1, <1>2 DEF Air, CrossingAir, TwoFloored
  <2>2. (b.y2 - 2) + 2 = b.y2
    BY <1>1
  <2> HIDE DEF b
  <2>3. /\ CrossAlong(b, b.y1) \in Air(p) /\ CrossAthwart(b, b.y1) \in Air(p)
        /\ CrossAlong(b, b.y2 - 2) \in Air(p) /\ CrossAthwart(b, b.y2 - 2) \in Air(p)
    BY <2>1, <2>2 DEF Cross, CrossAlong, CrossAthwart
  <2> QED
    BY <2>3 DEF b
<1>3. CASE b.y2 = b.y1 + 2
  <2>1. Air(p) = Cross(b, b.y1, b.y1 + 2)
    BY <1>1, <1>3 DEF Air, CrossingAir, TwoFloored
  <2>2. y = b.y1
    BY <1>1, <1>3
  <2> HIDE DEF b
  <2> QED
    BY <2>1, <2>2 DEF Cross, CrossAlong, CrossAthwart, b
<1> QED
  BY <1>2, <1>3

LEMMA CrossingEntered ==
  ASSUME NEW f \in Feet, NEW up \in {2, 6}, NEW p,
         p.kind = "crossing", p.dir = f.dir, p.box = CrossingBox(f, up)
  PROVE  OpenAt(p, Entry(f, f.y)) /\ OpenAt(p, Entry(f, f.y + up - 2))
<1>1. f.x \in Int /\ f.y \in Int /\ f.z \in Int /\ f.dir \in Directions
  BY DEF Feet
<1> DEFINE b == p.box
<1>2. b = IF AlongZ(f.dir)
          THEN Cuboid(f.x - 1, f.y, IF f.dir = "north" THEN f.z - 4 ELSE f.z, f.x + 3, f.y + up,
                      IF f.dir = "north" THEN f.z ELSE f.z + 4)
          ELSE Cuboid(IF f.dir = "west" THEN f.x - 4 ELSE f.x, f.y, f.z - 1,
                      IF f.dir = "west" THEN f.x ELSE f.x + 4, f.y + up, f.z + 3)
  BY <1>1 DEF CrossingBox, Laid, AlongZ, Directions
<1> HIDE DEF b
<1>3. b.y1 = f.y /\ b.y2 = f.y + up /\ b \in Cuboids
  BY <1>1, <1>2 DEF Cuboid, Cuboids
<1>4. ASSUME NEW y \in {f.y, f.y + up - 2}
      PROVE  OpenAt(p, Entry(f, y))
  <2>1. y \in Int /\ y \in {b.y1, b.y2 - 2} /\ b.y2 \in {b.y1 + 2, b.y1 + 6}
    BY <1>1, <1>3
  <2>2. CrossAlong(b, y) \in Air(p) /\ CrossAthwart(b, y) \in Air(p)
    BY <1>3, <2>1, CrossingFloors DEF b
  <2>3. CASE AlongZ(f.dir)
    <3>1. CrossAlong(b, y) \in Cuboids /\ Holds(CrossAlong(b, y), Entry(f, y))
      BY <1>1, <1>2, <2>1, <2>3 DEF CrossAlong, Cuboid, Cuboids, Holds, Entry
    <3> QED
      BY <2>2, <3>1 DEF OpenAt
  <2>4. CASE ~ AlongZ(f.dir)
    <3>1. CrossAthwart(b, y) \in Cuboids /\ Holds(CrossAthwart(b, y), Entry(f, y))
      BY <1>1, <1>2, <2>1, <2>4 DEF CrossAthwart, Cuboid, Cuboids, Holds, Entry
    <3> QED
      BY <2>2, <3>1 DEF OpenAt
  <2> QED
    BY <2>3, <2>4
<1> QED
  BY <1>4

-----------------------------------------------------------------------------
(***************************************************************************)
(* The feet a piece leaves lead on from what it digs: what is entered      *)
(* there touches it.                                                       *)
(***************************************************************************)
LeadsFrom(p, f) == \E c \in Air(p) \cap Cuboids : Touch(Entry(f, f.y), c)

LEMMA EntryType ==
  ASSUME NEW f, f.x \in Int, f.z \in Int, NEW y \in Int
  PROVE  Entry(f, y) \in Cuboids
BY DEF Entry, Cuboid, Cuboids

\* A corridor as it is laid.
CorridorLaid(p) ==
  /\ p.kind = "corridor" /\ p.box \in Cuboids /\ p.dir \in Directions /\ p.depth \in Int
  /\ IF AlongZ(p.dir) THEN p.box.x2 = p.box.x1 + 2 ELSE p.box.z2 = p.box.z1 + 2
  /\ Far(p) \in {5, 10, 15, 20}

LEMMA CorridorShape ==
  ASSUME NEW p, CorridorLaid(p)
  PROVE  LET b == p.box IN
         /\ b.x1 \in Int /\ b.x2 \in Int /\ b.y1 \in Int /\ b.y2 \in Int /\ b.z1 \in Int /\ b.z2 \in Int
         /\ Far(p) \in 5 .. 20 /\ (Far(p) \div 5) * 5 = Far(p)
         /\ AlongZ(p.dir) => b.x2 = b.x1 + 2 /\ b.z2 = b.z1 + Far(p) - 1
         /\ ~ AlongZ(p.dir) => b.z2 = b.z1 + 2 /\ b.x2 = b.x1 + Far(p) - 1
         /\ Air(p) = {Cuboid(b.x1, b.y1, b.z1, b.x2, b.y1 + 1, b.z2)}
<1> DEFINE b == p.box
           n == Far(p)
<1>1. /\ b.x1 \in Int /\ b.x2 \in Int /\ b.y1 \in Int /\ b.y2 \in Int /\ b.z1 \in Int /\ b.z2 \in Int
  BY DEF CorridorLaid, Cuboids
<1>2. n \in 5 .. 20 /\ (n \div 5) * 5 = n
  BY DEF CorridorLaid
<1>3. AlongZ(p.dir) => b.x2 = b.x1 + 2 /\ n = b.z2 - b.z1 + 1
  BY DEF CorridorLaid, Far
<1>4. ~ AlongZ(p.dir) => b.z2 = b.z1 + 2 /\ n = b.x2 - b.x1 + 1
  BY DEF CorridorLaid, Far
<1>5. Air(p) = {FromEntry(p, 0, 0, 1, n - 1)}
  BY <1>2 DEF Air, CorridorAir, CorridorLaid
<1>6. p.dir \in Directions
  BY DEF CorridorLaid
<1> HIDE DEF n
<1>7. FromEntry(p, 0, 0, 1, n - 1) = Cuboid(b.x1, b.y1, b.z1, b.x2, b.y1 + 1, b.z2)
  <2>1. b.y1 + 0 = b.y1 /\ b.z1 + 0 = b.z1 /\ b.z2 - 0 = b.z2 /\ b.x1 + 0 = b.x1 /\ b.x2 - 0 = b.x2
    BY <1>1
  <2>2. AlongZ(p.dir) => b.z2 - (n - 1) = b.z1 /\ b.z1 + (n - 1) = b.z2 /\ b.x1 + 2 = b.x2
    BY <1>1, <1>2, <1>3
  <2>3. ~ AlongZ(p.dir) => b.x2 - (n - 1) = b.x1 /\ b.x1 + (n - 1) = b.x2 /\ b.z1 + 2 = b.z2
    BY <1>1, <1>2, <1>4
  <2>4. AlongZ(p.dir) <=> p.dir \in {"north", "south"}
    BY DEF AlongZ
  <2> HIDE DEF b
  <2> DEFINE m == n - 1
  <2> HIDE DEF m
  <2>5. FromEntry(p, 0, 0, 1, m) = Cuboid(b.x1, b.y1, b.z1, b.x2, b.y1 + 1, b.z2)
    <3>1. CASE p.dir = "north"
      BY <2>1, <2>2, <2>4, <3>1 DEF FromEntry, b, m
    <3>2. CASE p.dir = "south"
      BY <2>1, <2>2, <2>4, <3>2 DEF FromEntry, b, m
    <3>3. CASE p.dir = "west"
      BY <2>1, <2>3, <2>4, <3>3 DEF FromEntry, b, m
    <3>4. CASE p.dir = "east"
      BY <2>1, <2>3, <2>4, <3>4 DEF FromEntry, b, m
    <3> QED
      BY <1>6, <3>1, <3>2, <3>3, <3>4 DEF Directions
  <2> QED
    BY <2>5 DEF m
<1> QED
  BY <1>1, <1>2, <1>3, <1>4, <1>5, <1>7 DEF n

LEMMA CorridorFootLeads ==
  ASSUME NEW p, CorridorLaid(p), NEW dir, NEW along \in Int, NEW lift \in -1 .. 1, NEW i, NEW depth,
         (dir = p.dir /\ along = 0) \/ (dir \in Across(p) /\ along \in 0 .. Far(p) - 3)
  PROVE  LeadsFrom(p, Foot(i, p.box, dir, along, lift, depth))
<1> DEFINE b == p.box
           n == Far(p)
           f == Foot(i, b, dir, along, lift, depth)
           c == Cuboid(b.x1, b.y1, b.z1, b.x2, b.y1 + 1, b.z2)
<1>1. /\ b.x1 \in Int /\ b.x2 \in Int /\ b.y1 \in Int /\ b.y2 \in Int /\ b.z1 \in Int /\ b.z2 \in Int
      /\ n \in 5 .. 20
      /\ AlongZ(p.dir) => b.x2 = b.x1 + 2 /\ b.z2 = b.z1 + n - 1
      /\ ~ AlongZ(p.dir) => b.z2 = b.z1 + 2 /\ b.x2 = b.x1 + n - 1
      /\ Air(p) = {c}
  BY CorridorShape
<1>2. c \in Cuboids
  BY <1>1 DEF Cuboid, Cuboids
<1>3. \/ dir = p.dir /\ along = 0
      \/ along \in 0 .. n - 3 /\ (AlongZ(p.dir) <=> ~ AlongZ(dir))
  BY DEF Across, AlongZ
<1>4. p.dir \in Directions /\ dir \in Directions
  BY DEF CorridorLaid, Across, Directions
<1> HIDE DEF b, n
<1>5. f.x \in Int /\ f.y \in Int /\ f.z \in Int
  BY <1>1 DEF Foot
<1>6. Entry(f, f.y) \in Cuboids
  <2> HIDE DEF f
  <2> QED
    BY <1>5, EntryType
<1>7. Near3(Entry(f, f.y), c, 1, 0, 0) \/ Near3(Entry(f, f.y), c, 0, 0, 1)
  <2>1. CASE dir = "north"
    BY <1>1, <1>3, <2>1 DEF AlongZ, Entry, Foot, Cuboid, Near3
  <2>2. CASE dir = "south"
    BY <1>1, <1>3, <2>2 DEF AlongZ, Entry, Foot, Cuboid, Near3
  <2>3. CASE dir = "west"
    BY <1>1, <1>3, <2>3 DEF AlongZ, Entry, Foot, Cuboid, Near3
  <2>4. CASE dir = "east"
    BY <1>1, <1>3, <2>4 DEF AlongZ, Entry, Foot, Cuboid, Near3
  <2> QED
    BY <1>4, <2>1, <2>2, <2>3, <2>4 DEF Directions
<1>8. Touch(Entry(f, f.y), c)
  <2> HIDE DEF c, f
  <2> QED
    BY <1>2, <1>6, <1>7, TouchIsNear
<1> QED
  BY <1>1, <1>2, <1>8 DEF LeadsFrom, b

\* A crossing as it is laid.
CrossingLaid(p) ==
  /\ p.kind = "crossing" /\ p.box \in Cuboids
  /\ p.box.x2 = p.box.x1 + 4 /\ p.box.z2 = p.box.z1 + 4
  /\ p.box.y2 \in {p.box.y1 + 2, p.box.y1 + 6}

LEMMA CrossingFootLeads ==
  ASSUME NEW p, CrossingLaid(p), NEW dir \in Directions, NEW lift, NEW i, NEW depth,
         lift = 0 \/ (lift = 4 /\ TwoFloored(p))
  PROVE  LeadsFrom(p, Foot(i, p.box, dir, 1, lift, depth))
<1> DEFINE b == p.box
           f == Foot(i, b, dir, 1, lift, depth)
           c == IF AlongZ(dir) THEN CrossAlong(b, b.y1 + lift) ELSE CrossAthwart(b, b.y1 + lift)
<1>1. /\ b.x1 \in Int /\ b.x2 \in Int /\ b.y1 \in Int /\ b.y2 \in Int /\ b.z1 \in Int /\ b.z2 \in Int
      /\ lift \in Int
  BY DEF CrossingLaid, Cuboids
<1>2. c \in Cuboids
  BY <1>1 DEF CrossAlong, CrossAthwart, Cuboid, Cuboids
<1>3. b.y1 + lift \in {b.y1, b.y2 - 2}
  BY <1>1 DEF CrossingLaid, TwoFloored
<1>4. c \in Air(p)
  BY <1>3, CrossingFloors DEF CrossingLaid
<1>5. f.x \in Int /\ f.y \in Int /\ f.z \in Int
  BY <1>1 DEF Foot
<1>6. Entry(f, f.y) \in Cuboids
  <2> HIDE DEF f
  <2> QED
    BY <1>5, EntryType
<1>7. Near3(Entry(f, f.y), c, 1, 0, 0) \/ Near3(Entry(f, f.y), c, 0, 0, 1)
  <2>1. CASE dir = "north"
    BY <1>1, <2>1 DEF CrossingLaid, CrossAlong, CrossAthwart, AlongZ, Entry, Foot, Cuboid, Near3
  <2>2. CASE dir = "south"
    BY <1>1, <2>2 DEF CrossingLaid, CrossAlong, CrossAthwart, AlongZ, Entry, Foot, Cuboid, Near3
  <2>3. CASE dir = "west"
    BY <1>1, <2>3 DEF CrossingLaid, CrossAlong, CrossAthwart, AlongZ, Entry, Foot, Cuboid, Near3
  <2>4. CASE dir = "east"
    BY <1>1, <2>4 DEF CrossingLaid, CrossAlong, CrossAthwart, AlongZ, Entry, Foot, Cuboid, Near3
  <2> QED
    BY <2>1, <2>2, <2>3, <2>4 DEF Directions
<1>8. Touch(Entry(f, f.y), c)
  <2> HIDE DEF c, f
  <2> QED
    BY <1>2, <1>6, <1>7, TouchIsNear
<1> QED
  BY <1>2, <1>4, <1>8 DEF LeadsFrom

\* Stairs as they are laid.
StairsLaid(p) ==
  /\ p.kind = "stairs" /\ p.box \in Cuboids /\ p.dir \in Directions
  /\ IF AlongZ(p.dir) THEN p.box.x2 = p.box.x1 + 2 /\ p.box.z2 = p.box.z1 + 8
                      ELSE p.box.z2 = p.box.z1 + 2 /\ p.box.x2 = p.box.x1 + 8

LEMMA StairsFootLeads ==
  ASSUME NEW p, StairsLaid(p), NEW i, NEW depth
  PROVE  LeadsFrom(p, Foot(i, p.box, p.dir, 0, 0, depth))
<1> DEFINE b == p.box
           f == Foot(i, b, p.dir, 0, 0, depth)
           c == FromEntry(p, 0, 7, 2, 8)
<1>1. /\ b.x1 \in Int /\ b.x2 \in Int /\ b.y1 \in Int /\ b.y2 \in Int /\ b.z1 \in Int /\ b.z2 \in Int
  BY DEF StairsLaid, Cuboids
<1>2. c \in Cuboids
  BY <1>1 DEF FromEntry, Cuboid, Cuboids
<1>3. c \in Air(p)
  BY DEF StairsLaid, Air, StairsAir
<1>4. f.x \in Int /\ f.y \in Int /\ f.z \in Int
  BY <1>1 DEF Foot
<1>5. Entry(f, f.y) \in Cuboids
  <2> HIDE DEF f
  <2> QED
    BY <1>4, EntryType
<1>6. Near3(Entry(f, f.y), c, 1, 0, 0) \/ Near3(Entry(f, f.y), c, 0, 0, 1)
  <2>1. CASE p.dir = "north"
    BY <1>1, <2>1 DEF StairsLaid, FromEntry, AlongZ, Entry, Foot, Cuboid, Near3
  <2>2. CASE p.dir = "south"
    BY <1>1, <2>2 DEF StairsLaid, FromEntry, AlongZ, Entry, Foot, Cuboid, Near3
  <2>3. CASE p.dir = "west"
    BY <1>1, <2>3 DEF StairsLaid, FromEntry, AlongZ, Entry, Foot, Cuboid, Near3
  <2>4. CASE p.dir = "east"
    BY <1>1, <2>4 DEF StairsLaid, FromEntry, AlongZ, Entry, Foot, Cuboid, Near3
  <2> QED
    BY <2>1, <2>2, <2>3, <2>4 DEF StairsLaid, Directions
<1>7. Touch(Entry(f, f.y), c)
  <2> HIDE DEF c, f
  <2> QED
    BY <1>2, <1>5, <1>6, TouchIsNear
<1> QED
  BY <1>2, <1>3, <1>7 DEF LeadsFrom

\* A foot by a wall of the room, above its floor.
AtWall(f, b) ==
  /\ f.y >= b.y1 + 1
  /\ IF AlongZ(f.dir)
     THEN f.x \in b.x1 .. b.x2 /\ f.z = IF f.dir = "north" THEN b.z1 - 1 ELSE b.z2 + 1
     ELSE f.z \in b.z1 .. b.z2 /\ f.x = IF f.dir = "west" THEN b.x1 - 1 ELSE b.x2 + 1

\* The doorway that is broken for a piece, and what is entered through it.
Doorway(e) == [e EXCEPT !.y1 = e.y2 - 2]

LEMMA DoorwayOpens ==
  ASSUME NEW f \in Feet, NEW r, r.box \in Cuboids,
         r.box.x1 <= r.box.x2, r.box.z1 <= r.box.z2, r.box.y1 < r.box.y2, AtWall(f, r.box),
         NEW far \in 5 .. 20, NEW left \in 0 .. 1, NEW right \in 2 .. 3, NEW down \in Int, NEW up \in {2, 6},
         NEW b, b = Laid(f, f.dir, far, left, right, down, up)
  PROVE  LET w == Doorway(Entrance(r.box, f.dir, b)) IN
         /\ w \in Cuboids
         /\ Touch(Entry(f, f.y + up - 2), w)
         /\ Touch(w, Hall(r)) \/ w.y1 > Hall(r).y2 + 1
<1> DEFINE c == r.box
           w == Doorway(Entrance(c, f.dir, b))
           e == Entry(f, f.y + up - 2)
           top == IF c.y1 + 3 <= c.y2 THEN c.y1 + 3 ELSE c.y2
           hall == Cuboid(c.x1, c.y1 + 1, c.z1, c.x2, top, c.z2)
<1>1. /\ f.x \in Int /\ f.y \in Int /\ f.z \in Int /\ f.dir \in Directions
      /\ c.x1 \in Int /\ c.x2 \in Int /\ c.y1 \in Int /\ c.y2 \in Int /\ c.z1 \in Int /\ c.z2 \in Int
  BY DEF Feet, Cuboids
<1>2. w = CASE f.dir = "north" -> Cuboid(f.x - left, f.y + up - 2, c.z1, f.x + right, f.y + up, c.z1 + 1)
            [] f.dir = "south" -> Cuboid(f.x - left, f.y + up - 2, c.z2 - 1, f.x + right, f.y + up, c.z2)
            [] f.dir = "west" -> Cuboid(c.x1, f.y + up - 2, f.z - left, c.x1 + 1, f.y + up, f.z + right)
            [] OTHER -> Cuboid(c.x2 - 1, f.y + up - 2, f.z - left, c.x2, f.y + up, f.z + right)
  <2> HIDE DEF c
  <2>1. CASE f.dir = "north"
    BY <1>1, <2>1 DEF Doorway, Entrance, Laid, Cuboid
  <2>2. CASE f.dir = "south"
    BY <1>1, <2>2 DEF Doorway, Entrance, Laid, Cuboid
  <2>3. CASE f.dir = "west"
    BY <1>1, <2>3 DEF Doorway, Entrance, Laid, Cuboid
  <2>4. CASE f.dir = "east"
    BY <1>1, <2>4 DEF Doorway, Entrance, Laid, Cuboid
  <2> QED
    BY <1>1, <2>1, <2>2, <2>3, <2>4 DEF Directions
<1>3. Hall(r) = hall
  BY HallIs
<1>4. AtWall(f, c) /\ c.x1 <= c.x2 /\ c.z1 <= c.z2 /\ c.y1 < c.y2
  OBVIOUS
<1> HIDE DEF w, c
<1>5. w \in Cuboids /\ e \in Cuboids /\ hall \in Cuboids
  BY <1>1, <1>2 DEF Cuboid, Cuboids, Entry
<1>6. Near3(e, w, 1, 0, 0) \/ Near3(e, w, 0, 0, 1)
  <2>1. CASE f.dir = "north"
    BY <1>1, <1>2, <1>4, <2>1 DEF AtWall, AlongZ, Entry, Cuboid, Near3
  <2>2. CASE f.dir = "south"
    BY <1>1, <1>2, <1>4, <2>2 DEF AtWall, AlongZ, Entry, Cuboid, Near3
  <2>3. CASE f.dir = "west"
    BY <1>1, <1>2, <1>4, <2>3 DEF AtWall, AlongZ, Entry, Cuboid, Near3
  <2>4. CASE f.dir = "east"
    BY <1>1, <1>2, <1>4, <2>4 DEF AtWall, AlongZ, Entry, Cuboid, Near3
  <2> QED
    BY <1>1, <2>1, <2>2, <2>3, <2>4 DEF Directions
<1>7. Near3(w, hall, 0, 1, 0) \/ w.y1 > hall.y2 + 1
  <2>1. CASE f.dir = "north"
    BY <1>1, <1>2, <1>4, <2>1 DEF AtWall, AlongZ, Cuboid, Near3
  <2>2. CASE f.dir = "south"
    BY <1>1, <1>2, <1>4, <2>2 DEF AtWall, AlongZ, Cuboid, Near3
  <2>3. CASE f.dir = "west"
    BY <1>1, <1>2, <1>4, <2>3 DEF AtWall, AlongZ, Cuboid, Near3
  <2>4. CASE f.dir = "east"
    BY <1>1, <1>2, <1>4, <2>4 DEF AtWall, AlongZ, Cuboid, Near3
  <2> QED
    BY <1>1, <2>1, <2>2, <2>3, <2>4 DEF Directions
<1> HIDE DEF hall, e
<1>8. Touch(e, w) /\ (Touch(w, hall) \/ w.y1 > hall.y2 + 1)
  BY <1>5, <1>6, <1>7, TouchIsNear
<1> QED
  BY <1>3, <1>5, <1>8 DEF w, c, e
-----------------------------------------------------------------------------
\* The feet of piece i, p, that lead on from what it digs.
LeadingFeet(i, p) == {f \in Feet : f.from = i /\ LeadsFrom(p, f)}

LEMMA FootFrom ==
  ASSUME NEW i, NEW b, NEW dir, NEW along, NEW lift, NEW depth
  PROVE  Foot(i, b, dir, along, lift, depth).from = i
BY DEF Foot

LEMMA CorridorLeadsOn ==
  ASSUME NEW i \in Nat, NEW p \in ShaftPieces, p.dir \in Directions,
         CorridorLaid(p), NEW f \in CorridorFeet(i, p)
  PROVE  f \in Seq(LeadingFeet(i, p))
<1>1. PICK end \in CorridorEnds(i, p), sides \in CorridorSides(i, p) : f = <<end>> \o sides
  BY CorridorFeetParts
<1>2. p.box \in Cuboids /\ p.depth \in Int /\ p.dir \in Directions
  BY DEF CorridorLaid
<1>3. Far(p) \in 5 .. 20
  BY CorridorShape
<1>4. Across(p) \subseteq Directions /\ Places(p) \subseteq 1 .. 4
  BY DEF Across, Places, Directions
<1>5. ASSUME NEW dir \in Directions, NEW along \in Int, NEW lift \in -1 .. 1, NEW depth \in Int,
             (dir = p.dir /\ along = 0) \/ (dir \in Across(p) /\ along \in 0 .. Far(p) - 3)
      PROVE  Foot(i, p.box, dir, along, lift, depth) \in LeadingFeet(i, p)
  <2>1. Foot(i, p.box, dir, along, lift, depth) \in Feet
    BY <1>2, FootType
  <2>2. LeadsFrom(p, Foot(i, p.box, dir, along, lift, depth))
    BY <1>5, CorridorFootLeads
  <2> QED
    BY <2>1, <2>2, FootFrom DEF LeadingFeet
<1>6. end \in LeadingFeet(i, p)
  <2> DEFINE at == IF p.dir \in {"south", "east"} THEN Far(p) - 4 ELSE 0
  <2>1. at \in Int /\ at \in 0 .. Far(p) - 3
    BY <1>3
  <2>2. end \in {Foot(i, p.box, p.dir, 0, lift, p.depth) : lift \in Lifts}
                \cup {Foot(i, p.box, dir, at, lift, p.depth) : dir \in Across(p), lift \in Lifts}
    BY <1>1 DEF CorridorEnds
  <2> HIDE DEF at
  <2>3. CASE \E lift \in Lifts : end = Foot(i, p.box, p.dir, 0, lift, p.depth)
    BY <1>2, <1>5, <2>3, MineshaftAssumption
  <2>4. CASE \E dir \in Across(p), lift \in Lifts : end = Foot(i, p.box, dir, at, lift, p.depth)
    BY <1>2, <1>4, <1>5, <2>1, <2>4, MineshaftAssumption
  <2> QED
    BY <2>2, <2>3, <2>4
<1>7. sides \in Seq(LeadingFeet(i, p))
  <2>1. CASE sides = <<>>
    BY <2>1
  <2>2. CASE sides # <<>>
    <3>1. PICK s \in Branches(p) :
            sides = [k \in DOMAIN s |-> Foot(i, p.box, s[k].dir, 5 * s[k].at - 2, 0, p.depth + 1)]
      BY <1>1, <2>2 DEF CorridorSides
    <3>2. PICK n \in 0 .. MaxSides : s \in [1 .. n -> [at : Places(p), dir : Across(p)]]
      BY <3>1 DEF Branches
    <3>3. \A k \in 1 .. n : Foot(i, p.box, s[k].dir, 5 * s[k].at - 2, 0, p.depth + 1) \in LeadingFeet(i, p)
      <4> SUFFICES ASSUME NEW k \in 1 .. n
                   PROVE  Foot(i, p.box, s[k].dir, 5 * s[k].at - 2, 0, p.depth + 1) \in LeadingFeet(i, p)
        OBVIOUS
      <4> DEFINE at == 5 * s[k].at - 2
                 depth == p.depth + 1
      <4>1. s[k].dir \in Across(p) /\ s[k].at \in Places(p)
        BY <3>2
      <4>2. at \in 0 .. Far(p) - 3 /\ at \in Int /\ depth \in Int
        BY <1>2, <1>3, <4>1 DEF Places
      <4> HIDE DEF at, depth
      <4>3. Foot(i, p.box, s[k].dir, at, 0, depth) \in LeadingFeet(i, p)
        BY <1>4, <1>5, <4>1, <4>2
      <4> QED
        BY <4>3 DEF at, depth
    <3> QED
      BY <3>1, <3>2, <3>3, MineshaftAssumption
  <2> QED
    BY <2>1, <2>2
<1> QED
  BY <1>1, <1>6, <1>7

LEMMA CrossingLeadsOn ==
  ASSUME NEW i \in Nat, NEW p, CrossingLaid(p), p.depth \in Int, NEW f \in CrossingFeet(i, p)
  PROVE  f \in Seq(LeadingFeet(i, p))
<1>1. PICK lower \in LowerFeet(i, p), upper \in UpperFeet(i, p) : f = lower \o upper
  BY DEF CrossingFeet
<1>2. p.box \in Cuboids
  BY DEF CrossingLaid
<1>3. ASSUME NEW dir \in Directions, NEW lift \in Int, lift = 0 \/ (lift = 4 /\ TwoFloored(p))
      PROVE  Foot(i, p.box, dir, 1, lift, p.depth) \in LeadingFeet(i, p)
  <2>1. Foot(i, p.box, dir, 1, lift, p.depth) \in Feet
    BY <1>2, FootType
  <2>2. LeadsFrom(p, Foot(i, p.box, dir, 1, lift, p.depth))
    BY <1>3, CrossingFootLeads
  <2> QED
    BY <2>1, <2>2, FootFrom DEF LeadingFeet
<1>4. DOMAIN Wall = Directions
  BY DEF Wall, Directions
<1>5. lower \in Seq(LeadingFeet(i, p))
  <2>1. PICK low \in LowerSides(p) :
          lower = [n \in 1 .. 3 |-> Foot(i, p.box, low[n], 1, 0, p.depth)]
    BY <1>1 DEF LowerFeet
  <2>2. low \in [1 .. 3 -> Directions]
    BY <2>1, <1>4 DEF LowerSides
  <2>3. \A n \in 1 .. 3 : Foot(i, p.box, low[n], 1, 0, p.depth) \in LeadingFeet(i, p)
    BY <1>3, <2>2
  <2> QED
    BY <2>1, <2>3
<1>6. upper \in Seq(LeadingFeet(i, p))
  <2>1. PICK high \in UpperSides(p) :
          upper = [n \in DOMAIN high |-> Foot(i, p.box, high[n], 1, 4, p.depth)]
    BY <1>1 DEF UpperFeet
  <2>2. CASE TwoFloored(p)
    <3>1. PICK k \in 0 .. 4 : high \in [1 .. k -> Directions]
      BY <2>1, <2>2, <1>4 DEF UpperSides
    <3>2. \A n \in 1 .. k : Foot(i, p.box, high[n], 1, 4, p.depth) \in LeadingFeet(i, p)
      BY <1>3, <2>2, <3>1
    <3> QED
      BY <2>1, <3>1, <3>2
  <2>3. CASE ~ TwoFloored(p)
    <3>1. high = <<>>
      BY <2>1, <2>3 DEF UpperSides
    <3> QED
      BY <2>1, <3>1
  <2> QED
    BY <2>2, <2>3
<1> QED
  BY <1>1, <1>5, <1>6

LEMMA StairsLeadOn ==
  ASSUME NEW i \in Nat, NEW p, StairsLaid(p), p.depth \in Int, NEW f \in StairsFeet(i, p)
  PROVE  f \in Seq(LeadingFeet(i, p))
<1>1. f = <<Foot(i, p.box, p.dir, 0, 0, p.depth)>>
  BY DEF StairsFeet
<1>2. Foot(i, p.box, p.dir, 0, 0, p.depth) \in Feet
  BY FootType DEF StairsLaid
<1>3. LeadsFrom(p, Foot(i, p.box, p.dir, 0, 0, p.depth))
  BY StairsFootLeads
<1> QED
  BY <1>1, <1>2, <1>3, FootFrom DEF LeadingFeet

\* The doors of the room are in its walls, above its floor.
LEMMA DoorsAtWalls ==
  ASSUME NEW b \in Cuboids, NEW f \in RoomFeet(b)
  PROVE  f \in Seq({g \in Feet : g.from = 1 /\ AtWall(g, b)})
<1>1. PICK doors \in DoorRows(b) :
        f = [n \in DOMAIN doors |-> Foot(1, b, doors[n].dir, doors[n].place, doors[n].height + 1, 0)]
  BY DEF RoomFeet
<1>2. PICK k \in 0 .. MaxDoors : doors \in [1 .. k -> Doors(b)]
  BY <1>1 DEF DoorRows
<1>3. ASSUME NEW d \in Doors(b)
      PROVE  LET g == Foot(1, b, d.dir, d.place, d.height + 1, 0) IN
             g \in Feet /\ g.from = 1 /\ AtWall(g, b)
  <2>1. d.dir \in Directions /\ d.place \in Nat /\ d.height \in Nat /\ d.place + 3 <= Span(b, d.dir)
    BY MineshaftAssumption DEF Doors, Wall, Directions
  <2>2. Foot(1, b, d.dir, d.place, d.height + 1, 0) \in Feet
    BY <2>1, FootType
  <2>3. /\ b.x1 \in Int /\ b.x2 \in Int /\ b.y1 \in Int /\ b.y2 \in Int /\ b.z1 \in Int /\ b.z2 \in Int
    BY DEF Cuboids
  <2>4. AtWall(Foot(1, b, d.dir, d.place, d.height + 1, 0), b)
    BY <2>1, <2>3 DEF AtWall, Foot, AlongZ, Span, Directions
  <2> QED
    BY <2>2, <2>4, FootFrom
<1> QED
  BY <1>1, <1>2, <1>3, MineshaftAssumption

-----------------------------------------------------------------------------
(***************************************************************************)
(* The network that is dug: how the pieces open to each other and where    *)
(* the feet that are left lead on from.                                    *)
(***************************************************************************)
RoomOK(r) ==
  /\ r.kind = "room" /\ r.from = 0 /\ r.box \in Cuboids
  /\ r.box.x1 <= r.box.x2 /\ r.box.y1 < r.box.y2 /\ r.box.z1 <= r.box.z2
  /\ \A d \in Doorways(r) : Touch(d, Hall(r)) \/ d.y1 > Hall(r).y2 + 1

Opens(p, s) ==
  /\ p.kind # "room" /\ p.entrances = {} /\ p.from \in 1 .. Len(s)
  /\ p.from = 1 => \E a \in Air(p) \cap Cuboids, d \in Doorways(s[1]) \cap Cuboids : Touch(a, d)
  /\ p.from > 1 => \E a \in Air(p) \cap Cuboids, b \in Air(s[p.from]) \cap Cuboids : Touch(a, b)

LeadsOn(f, s) ==
  /\ f.from \in 1 .. Len(s)
  /\ f.from = 1 => AtWall(f, s[1].box)
  /\ f.from > 1 => LeadsFrom(s[f.from], f)

Apart(s) == \A i, j \in 1 .. Len(s) : i # j => ~ Meet(s[i].box, s[j].box)

NetOK(s, fs) ==
  /\ RoomOK(s[1])
  /\ \A i \in 2 .. Len(s) : Opens(s[i], s)
  /\ \A n \in 1 .. Len(fs) : LeadsOn(fs[n], s)
  /\ Apart(s)

\* What a new entrance does to the room, and to nothing else.
LEMMA EntranceAdded ==
  ASSUME NEW s \in Seq(ShaftPieces), s # <<>>, NEW f \in Feet, NEW b \in Cuboids
  PROVE  LET t == WithEntrance(s, f, b) IN
         /\ t \in Seq(ShaftPieces) /\ Len(t) = Len(s)
         /\ \A i \in 2 .. Len(s) : t[i] = s[i]
         /\ t[1].kind = s[1].kind /\ t[1].box = s[1].box /\ t[1].from = s[1].from
         /\ f.from # 1 => t[1] = s[1]
         /\ f.from = 1 => t[1].entrances = s[1].entrances \cup {Entrance(s[1].box, f.dir, b)}
<1>1. s[1] \in ShaftPieces /\ 1 \in 1 .. Len(s)
  OBVIOUS
<1>2. CASE f.from = 1
  <2>1. Entrance(s[1].box, f.dir, b) \in Cuboids
    <3>1. s[1].box \in Cuboids
      BY <1>1 DEF ShaftPieces
    <3> QED
      BY <3>1, EntranceType
  <2> DEFINE r == [s[1] EXCEPT !.entrances = @ \cup {Entrance(s[1].box, f.dir, b)}]
  <2>2. /\ r \in ShaftPieces
        /\ r.kind = s[1].kind /\ r.box = s[1].box /\ r.from = s[1].from
        /\ r.entrances = s[1].entrances \cup {Entrance(s[1].box, f.dir, b)}
    BY <1>1, <2>1 DEF ShaftPieces
  <2>3. WithEntrance(s, f, b) = [s EXCEPT ![1] = r]
    BY <1>2 DEF WithEntrance
  <2> HIDE DEF r
  <2>4. /\ [s EXCEPT ![1] = r] \in Seq(ShaftPieces)
        /\ Len([s EXCEPT ![1] = r]) = Len(s)
        /\ [s EXCEPT ![1] = r][1] = r
        /\ \A i \in 2 .. Len(s) : [s EXCEPT ![1] = r][i] = s[i]
    BY <1>1, <2>2
  <2> QED
    BY <1>2, <2>2, <2>3, <2>4
<1>3. CASE f.from # 1
  BY <1>3 DEF WithEntrance
<1> QED
  BY <1>2, <1>3

\* A piece that is opened where its foot was.
LEMMA NetGrows ==
  ASSUME NEW s \in Seq(ShaftPieces), s # <<>>, NEW fs \in Seq(Feet), fs # <<>>, NetOK(s, fs),
         NEW p \in ShaftPieces, p.kind # "room", p.entrances = {}, p.from = Head(fs).from,
         NEW far \in 5 .. 20, NEW left \in 0 .. 1, NEW right \in 2 .. 3, NEW down \in Int, NEW up \in {2, 6},
         p.box = Laid(Head(fs), Head(fs).dir, far, left, right, down, up),
         OpenAt(p, Entry(Head(fs), Head(fs).y)), OpenAt(p, Entry(Head(fs), Head(fs).y + up - 2)),
         \A i \in 1 .. Len(s) : ~ Meet(s[i].box, p.box),
         NEW children \in Seq(LeadingFeet(Len(s) + 1, p))
  PROVE  NetOK(Append(WithEntrance(s, Head(fs), p.box), p), children \o Tail(fs))
<1> DEFINE f == Head(fs)
           t == WithEntrance(s, f, p.box)
           n == Len(s)
           u == Append(t, p)
           gs == children \o Tail(fs)
<1>1. /\ f \in Feet /\ n \in Nat \ {0} /\ LeadsOn(f, s) /\ p.box \in Cuboids
      /\ Tail(fs) \in Seq(Feet) /\ Len(Tail(fs)) = Len(fs) - 1
      /\ \A k \in 1 .. Len(fs) - 1 : Tail(fs)[k] = fs[k + 1] /\ k + 1 \in 1 .. Len(fs)
  <2>1. f = fs[1] /\ 1 \in 1 .. Len(fs)
    OBVIOUS
  <2>2. p.box \in Cuboids
    BY DEF ShaftPieces
  <2> QED
    BY <2>1, <2>2 DEF NetOK
<1>2. /\ t \in Seq(ShaftPieces) /\ Len(t) = n
      /\ \A i \in 2 .. n : t[i] = s[i]
      /\ t[1].kind = s[1].kind /\ t[1].box = s[1].box /\ t[1].from = s[1].from
      /\ f.from # 1 => t[1] = s[1]
      /\ f.from = 1 => t[1].entrances = s[1].entrances \cup {Entrance(s[1].box, f.dir, p.box)}
  <2>1. f \in Feet /\ p.box \in Cuboids
    BY <1>1
  <2> HIDE DEF f
  <2> QED
    BY <2>1, EntranceAdded, Zenon DEF n
<1> HIDE DEF t
<1>3. /\ Len(u) = n + 1 /\ u[n + 1] = p /\ u[1] = t[1]
      /\ \A i \in 2 .. n : u[i] = s[i]
      /\ \A i \in 1 .. n : u[i].box = s[i].box
  <2>1. n \in Nat \ {0} /\ t \in Seq(ShaftPieces) /\ Len(t) = n
    BY <1>1, <1>2
  <2> HIDE DEF n
  <2>2. Len(u) = n + 1 /\ u[n + 1] = p /\ \A i \in 1 .. n : u[i] = t[i]
    BY <2>1
  <2>3. u[1] = t[1] /\ \A i \in 2 .. n : u[i] = t[i]
    BY <2>1, <2>2
  <2> HIDE DEF u
  <2>4. \A i \in 1 .. n : i = 1 \/ i \in 2 .. n
    BY <2>1
  <2>5. \A i \in 1 .. n : u[i].box = s[i].box
    BY <1>2, <2>3, <2>4
  <2> QED
    BY <1>2, <2>2, <2>3, <2>5
<1>4. RoomOK(s[1]) /\ f.from \in 1 .. n /\ (f.from = 1 => AtWall(f, s[1].box))
  BY <1>1 DEF NetOK, LeadsOn
<1> DEFINE w == Doorway(Entrance(s[1].box, f.dir, p.box))
<1>5. f.from = 1 => /\ w \in Cuboids
                    /\ Touch(Entry(f, f.y + up - 2), w)
                    /\ Touch(w, Hall(s[1])) \/ w.y1 > Hall(s[1]).y2 + 1
  <2> SUFFICES ASSUME f.from = 1
               PROVE  /\ w \in Cuboids
                      /\ Touch(Entry(f, f.y + up - 2), w)
                      /\ Touch(w, Hall(s[1])) \/ w.y1 > Hall(s[1]).y2 + 1
    OBVIOUS
  <2> DEFINE r == s[1]
             b == p.box
  <2>1. /\ AtWall(f, r.box) /\ r.box \in Cuboids
        /\ r.box.x1 <= r.box.x2 /\ r.box.z1 <= r.box.z2 /\ r.box.y1 < r.box.y2
    BY <1>4 DEF RoomOK
  <2>2. b = Laid(f, f.dir, far, left, right, down, up)
    OBVIOUS
  <2> HIDE DEF f, r, b
  <2>3. LET v == Doorway(Entrance(r.box, f.dir, b)) IN
        /\ v \in Cuboids
        /\ Touch(Entry(f, f.y + up - 2), v)
        /\ Touch(v, Hall(r)) \/ v.y1 > Hall(r).y2 + 1
    BY <1>1, <2>1, <2>2, DoorwayOpens
  <2> QED
    BY <2>3 DEF r, b
<1>6. /\ Doorways(s[1]) \subseteq Doorways(u[1])
      /\ f.from = 1 => Doorways(u[1]) = Doorways(s[1]) \cup {w}
      /\ f.from # 1 => Doorways(u[1]) = Doorways(s[1])
  <2>1. Doorways(s[1]) = {Doorway(e) : e \in s[1].entrances}
    BY DEF Doorways, Doorway
  <2>2. Doorways(u[1]) = {Doorway(e) : e \in u[1].entrances}
    BY DEF Doorways, Doorway
  <2>3. f.from # 1 => u[1].entrances = s[1].entrances
    BY <1>2, <1>3
  <2>4. f.from = 1 => u[1].entrances = s[1].entrances \cup {Entrance(s[1].box, f.dir, p.box)}
    BY <1>2, <1>3
  <2>5. f.from = 1 => Doorways(u[1]) = Doorways(s[1]) \cup {w}
    BY <2>1, <2>2, <2>4, Zenon
  <2>6. f.from # 1 => Doorways(u[1]) = Doorways(s[1])
    BY <2>1, <2>2, <2>3
  <2> QED
    BY <2>5, <2>6
<1>7. Hall(u[1]) = Hall(s[1])
  BY <1>2, <1>3 DEF Hall
<1> HIDE DEF w, u, n, f
<1>8. RoomOK(u[1])
  BY <1>2, <1>3, <1>4, <1>5, <1>6, <1>7 DEF RoomOK
<1>9. ASSUME NEW i \in 2 .. n PROVE Opens(u[i], u)
  <2>1. u[i] = s[i] /\ Opens(s[i], s)
    BY <1>3 DEF NetOK, n
  <2> DEFINE m == s[i].from
  <2>a. m \in 1 .. n
    BY <2>1 DEF Opens, n
  <2> HIDE DEF m
  <2>b. m \in 1 .. Len(u) /\ (m > 1 => m \in 2 .. n)
    BY <1>1, <1>3, <2>a
  <2>c. m > 1 => u[m] = s[m]
    BY <1>3, <2>b
  <2>2. s[i].from \in 1 .. n /\ s[i].from \in 1 .. Len(u)
    BY <2>a, <2>b DEF m
  <2>3. s[i].from > 1 => u[s[i].from] = s[s[i].from]
    BY <2>c DEF m
  <2> QED
    BY <1>6, <2>1, <2>2, <2>3 DEF Opens
<1>10. Opens(u[n + 1], u)
  <2>1. p.from = f.from /\ p.from \in 1 .. n /\ p.from \in 1 .. Len(u)
    BY <1>1, <1>3, <1>4 DEF f
  <2>2. p.from = 1 => \E a \in Air(p) \cap Cuboids, d \in Doorways(u[1]) \cap Cuboids : Touch(a, d)
    <3> SUFFICES ASSUME p.from = 1
                 PROVE  \E a \in Air(p) \cap Cuboids, d \in Doorways(u[1]) \cap Cuboids : Touch(a, d)
      OBVIOUS
    <3> DEFINE y == f.y + up - 2
    <3>1. PICK a \in Air(p) \cap Cuboids : Holds(a, Entry(f, y))
      BY DEF OpenAt, f
    <3>2. Entry(f, y) \in Cuboids
      <4>1. f.x \in Int /\ f.z \in Int /\ y \in Int
        BY <1>1 DEF Feet
      <4> HIDE DEF y
      <4> QED
        BY <4>1, EntryType
    <3>3. w \in Cuboids /\ Touch(Entry(f, y), w)
      BY <1>5, <2>1
    <3> HIDE DEF y
    <3>4. Touch(a, w)
      BY <3>1, <3>2, <3>3, HolderTouches
    <3> QED
      BY <1>6, <2>1, <3>3, <3>4
  <2>3. p.from > 1 => \E a \in Air(p) \cap Cuboids, b \in Air(u[p.from]) \cap Cuboids : Touch(a, b)
    <3> SUFFICES ASSUME p.from > 1
                 PROVE  \E a \in Air(p) \cap Cuboids, b \in Air(u[p.from]) \cap Cuboids : Touch(a, b)
      OBVIOUS
    <3>1. LeadsFrom(s[f.from], f) /\ u[p.from] = s[f.from]
      BY <1>1, <1>3, <2>1 DEF LeadsOn
    <3>2. PICK b \in Air(s[f.from]) \cap Cuboids : Touch(Entry(f, f.y), b)
      BY <3>1 DEF LeadsFrom
    <3>3. PICK a \in Air(p) \cap Cuboids : Holds(a, Entry(f, f.y))
      BY DEF OpenAt, f
    <3>4. Entry(f, f.y) \in Cuboids
      BY <1>1, EntryType DEF Feet
    <3>5. Touch(a, b)
      BY <3>2, <3>3, <3>4, HolderTouches
    <3> QED
      BY <3>1, <3>5
  <2> QED
    BY <1>3, <2>1, <2>2, <2>3 DEF Opens
<1>11. /\ Len(gs) = Len(children) + (Len(fs) - 1) /\ Len(children) \in Nat /\ Len(fs) \in Nat \ {0}
       /\ \A k \in 1 .. Len(gs) : gs[k] = IF k <= Len(children) THEN children[k] ELSE Tail(fs)[k - Len(children)]
       /\ \A k \in 1 .. Len(children) : children[k] \in LeadingFeet(n + 1, p)
  BY <1>1 DEF n
<1> HIDE DEF gs
<1>12. ASSUME NEW k \in 1 .. Len(gs) PROVE LeadsOn(gs[k], u)
  <2>1. CASE k <= Len(children)
    <3>1. gs[k] \in LeadingFeet(n + 1, p)
      <4>1. k \in 1 .. Len(children)
        BY <1>11, <2>1
      <4>2. gs[k] = children[k]
        BY <1>11, <2>1
      <4>3. children[k] \in LeadingFeet(n + 1, p)
        BY <1>11, <4>1
      <4> QED
        BY <4>2, <4>3
    <3>2. gs[k].from = n + 1 /\ LeadsFrom(u[n + 1], gs[k])
      BY <1>3, <3>1 DEF LeadingFeet
    <3> QED
      BY <1>1, <1>3, <3>2 DEF LeadsOn
  <2>2. CASE ~ (k <= Len(children))
    <3>1. PICK m \in 1 .. Len(fs) : gs[k] = fs[m]
      <4>1. k - Len(children) \in 1 .. Len(fs) - 1
        BY <1>11, <2>2
      <4> QED
        BY <1>1, <1>11, <2>2, <4>1
    <3>2. LeadsOn(fs[m], s)
      BY DEF NetOK
    <3>3. fs[m].from \in 1 .. n
      BY <3>2 DEF LeadsOn, n
    <3>4. /\ fs[m].from \in 1 .. Len(u)
          /\ u[1].box = s[1].box
          /\ fs[m].from > 1 => u[fs[m].from] = s[fs[m].from]
      <4> DEFINE h == fs[m].from
      <4>1. h \in 1 .. n
        BY <3>3
      <4> HIDE DEF h
      <4>2. 1 \in 1 .. n /\ h \in 1 .. Len(u) /\ (h > 1 => h \in 2 .. n)
        BY <1>1, <1>3, <4>1
      <4>3. u[1].box = s[1].box /\ (h > 1 => u[h] = s[h])
        BY <1>3, <4>2
      <4> QED
        BY <4>2, <4>3 DEF h
    <3> QED
      BY <3>1, <3>2, <3>3, <3>4 DEF LeadsOn
  <2> QED
    BY <2>1, <2>2
<1>13. Apart(u)
  <2> SUFFICES ASSUME NEW i \in 1 .. n + 1, NEW j \in 1 .. n + 1, i # j, Meet(u[i].box, u[j].box)
               PROVE  FALSE
    BY <1>3 DEF Apart
  <2>1. CASE i \in 1 .. n /\ j \in 1 .. n
    BY <1>3, <2>1 DEF NetOK, Apart, n
  <2>2. CASE i = n + 1
    <3>1. j \in 1 .. n
      BY <1>1, <2>2
    <3>2. Meet(s[j].box, p.box)
      BY <1>3, <2>2, <3>1 DEF Meet
    <3> QED
      BY <3>1, <3>2 DEF n
  <2>3. CASE j = n + 1
    <3>1. i \in 1 .. n
      BY <1>1, <2>3
    <3>2. Meet(s[i].box, p.box)
      BY <1>3, <2>3, <3>1
    <3> QED
      BY <3>1, <3>2 DEF n
  <2> QED
    BY <1>1, <2>1, <2>2, <2>3
<1>14. \A i \in 2 .. Len(u) : Opens(u[i], u)
  <2> SUFFICES ASSUME NEW i \in 2 .. Len(u) PROVE Opens(u[i], u)
    OBVIOUS
  <2>1. i \in 2 .. n \/ i = n + 1
    BY <1>1, <1>3
  <2>2. CASE i \in 2 .. n
    BY <1>9, <2>2
  <2>3. CASE i = n + 1
    BY <1>10, <2>3
  <2> QED
    BY <2>1, <2>2, <2>3
<1>15. NetOK(u, gs)
  BY <1>8, <1>12, <1>13, <1>14 DEF NetOK
<1> QED
  BY <1>15 DEF u, t, gs, f

\* The pieces as they are laid from a foot.
LEMMA CorridorIsLaid ==
  ASSUME NEW f \in Feet, NEW s \in 1 .. 4, NEW p \in ShaftPieces,
         p.kind = "corridor", p.dir = f.dir, p.box = CorridorBox(f, s)
  PROVE  CorridorLaid(p)
<1>1. f.x \in Int /\ f.y \in Int /\ f.z \in Int /\ f.dir \in Directions /\ p.box \in Cuboids /\ p.depth \in Int
  BY DEF Feet, ShaftPieces
<1> DEFINE n == 5 * s
<1>2. n \in {5, 10, 15, 20} /\ n \in Int
  OBVIOUS
<1>3. p.box = Laid(f, f.dir, n, 0, 2, 0, 2)
  BY DEF CorridorBox
<1> HIDE DEF n
<1>4. /\ IF AlongZ(f.dir) THEN p.box.x2 = p.box.x1 + 2 ELSE p.box.z2 = p.box.z1 + 2
      /\ Far(p) = n
  <2>1. CASE f.dir = "north"
    BY <1>1, <1>2, <1>3, <2>1 DEF Far, Laid, Cuboid, AlongZ
  <2>2. CASE f.dir = "south"
    BY <1>1, <1>2, <1>3, <2>2 DEF Far, Laid, Cuboid, AlongZ
  <2>3. CASE f.dir = "west"
    BY <1>1, <1>2, <1>3, <2>3 DEF Far, Laid, Cuboid, AlongZ
  <2>4. CASE f.dir = "east"
    BY <1>1, <1>2, <1>3, <2>4 DEF Far, Laid, Cuboid, AlongZ
  <2> QED
    BY <1>1, <2>1, <2>2, <2>3, <2>4 DEF Directions
<1> QED
  BY <1>1, <1>2, <1>4 DEF CorridorLaid

LEMMA CrossingIsLaid ==
  ASSUME NEW f \in Feet, NEW up \in {2, 6}, NEW p \in ShaftPieces,
         p.kind = "crossing", p.dir = f.dir, p.box = CrossingBox(f, up)
  PROVE  CrossingLaid(p)
<1>1. f.x \in Int /\ f.y \in Int /\ f.z \in Int /\ f.dir \in Directions /\ p.box \in Cuboids
  BY DEF Feet, ShaftPieces
<1> QED
  BY <1>1 DEF CrossingLaid, CrossingBox, Laid, Cuboid, Directions

LEMMA StairsAreLaid ==
  ASSUME NEW f \in Feet, NEW p \in ShaftPieces,
         p.kind = "stairs", p.dir = f.dir, p.box = StairsBox(f)
  PROVE  StairsLaid(p)
<1>1. f.x \in Int /\ f.y \in Int /\ f.z \in Int /\ f.dir \in Directions /\ p.box \in Cuboids
  BY DEF Feet, ShaftPieces
<1> QED
  BY <1>1 DEF StairsLaid, StairsBox, Laid, Cuboid, Directions, AlongZ

\* The room, before anything is dug from it.
LEMMA RoomNet == ShaftInv /\ DigRoom => NetOK(shaft', feet')
<1> SUFFICES ASSUME ShaftInv, DigRoom
             PROVE  NetOK(shaft', feet')
  OBVIOUS
<1>1. PICK dx \in RoomGrowth, dy \in RoomGrowth, dz \in RoomGrowth :
        /\ shaft' = <<ShaftPiece("room", Cuboid(2, 50, 2, 9 + dx, 54 + dy, 9 + dz), "none", 0, 0)>>
        /\ feet' \in RoomFeet(Cuboid(2, 50, 2, 9 + dx, 54 + dy, 9 + dz))
  BY DEF DigRoom
<1> DEFINE b == Cuboid(2, 50, 2, 9 + dx, 54 + dy, 9 + dz)
           r == ShaftPiece("room", b, "none", 0, 0)
<1>2. b \in Cuboids /\ b.x1 <= b.x2 /\ b.y1 < b.y2 /\ b.z1 <= b.z2
  BY MineshaftAssumption DEF Cuboid, Cuboids
<1> HIDE DEF b
<1>3. RoomOK(r)
  BY <1>2 DEF RoomOK, ShaftPiece, Doorways
<1>4. shaft' = <<r>> /\ feet' \in RoomFeet(b)
  BY <1>1 DEF b
<1>5. feet' \in Seq({g \in Feet : g.from = 1 /\ AtWall(g, b)})
  BY <1>2, <1>4, DoorsAtWalls
<1>6. r.box = b
  BY DEF ShaftPiece
<1> HIDE DEF r
<1>7. Len(<<r>>) = 1 /\ <<r>>[1] = r
  OBVIOUS
<1>8. ASSUME NEW n \in 1 .. Len(feet') PROVE LeadsOn(feet'[n], <<r>>)
  <2>1. feet'[n].from = 1 /\ AtWall(feet'[n], b)
    BY <1>5
  <2> QED
    BY <1>6, <1>7, <2>1 DEF LeadsOn
<1>9. 2 .. 1 = {} /\ 1 .. 1 = {1}
  OBVIOUS
<1> QED
  BY <1>3, <1>4, <1>7, <1>8, <1>9 DEF NetOK, Apart

\* A piece that is added, whatever its kind.
LEMMA AddNet ==
  ASSUME ShaftInv, MayAdd, NetOK(shaft, feet),
         NEW kind \in {"corridor", "crossing", "stairs"},
         NEW far \in 5 .. 20, NEW left \in 0 .. 1, NEW right \in 2 .. 3, NEW down \in Int, NEW up \in {2, 6},
         NEW p \in ShaftPieces, p = NewPiece(kind, Laid(Head(feet), Head(feet).dir, far, left, right, down, up)),
         OpenAt(p, Entry(Head(feet), Head(feet).y)), OpenAt(p, Entry(Head(feet), Head(feet).y + up - 2)),
         NEW choices, \A c \in choices : c \in Seq(LeadingFeet(Len(shaft) + 1, p)),
         Add(p, choices)
  PROVE  NetOK(shaft', feet')
<1>1. shaft \in Seq(ShaftPieces) /\ feet \in Seq(Feet) /\ shaft # <<>> /\ feet # <<>>
  BY DEF ShaftInv, MayAdd, Unsettled
<1>2. /\ p.kind # "room" /\ p.entrances = {} /\ p.from = Head(feet).from
      /\ p.box = Laid(Head(feet), Head(feet).dir, far, left, right, down, up)
  BY DEF NewPiece, ShaftPiece
<1>3. \A i \in 1 .. Len(shaft) : ~ Meet(shaft[i].box, p.box)
  BY <1>1 DEF Add, Free
<1>4. PICK c \in choices : feet' = c \o Tail(feet)
  BY DEF Add
<1>5. c \in Seq(LeadingFeet(Len(shaft) + 1, p))
  BY <1>4
<1>6. shaft' = Append(WithEntrance(shaft, Head(feet), p.box), p)
  BY DEF Add
<1>7. NetOK(Append(WithEntrance(shaft, Head(feet), p.box), p), c \o Tail(feet))
  BY <1>1, <1>2, <1>3, <1>5, NetGrows
<1> QED
  BY <1>4, <1>6, <1>7

LEMMA CrossingNet == ShaftInv /\ NetOK(shaft, feet) /\ DigCrossing => NetOK(shaft', feet')
<1> SUFFICES ASSUME ShaftInv, NetOK(shaft, feet), DigCrossing
             PROVE  NetOK(shaft', feet')
  OBVIOUS
<1>1. MayAdd /\ Head(feet) \in Feet /\ Len(shaft) + 1 \in Nat
  BY HeadType DEF DigCrossing
<1>2. PICK up \in {2, 6} :
        Add(NewPiece("crossing", CrossingBox(Head(feet), up)),
            CrossingFeet(Len(shaft) + 1, NewPiece("crossing", CrossingBox(Head(feet), up))))
  BY DEF DigCrossing
<1>3. /\ up \in Int /\ 0 \in Int /\ 5 \in 5 .. 20 /\ 1 \in 0 .. 1 /\ 3 \in 2 .. 3
      /\ "crossing" \in {"corridor", "crossing", "stairs"}
  OBVIOUS
<1> DEFINE p == NewPiece("crossing", CrossingBox(Head(feet), up))
<1>4. p = NewPiece("crossing", Laid(Head(feet), Head(feet).dir, 5, 1, 3, 0, up))
  BY DEF CrossingBox
<1>5. p \in ShaftPieces
  BY <1>1, <1>3, <1>4, NewPieceType, Zenon
<1>6. p.kind = "crossing" /\ p.dir = Head(feet).dir /\ p.box = CrossingBox(Head(feet), up)
  BY DEF NewPiece, ShaftPiece
<1>7. Add(p, CrossingFeet(Len(shaft) + 1, p))
  BY <1>2
<1> HIDE DEF p
<1>8. OpenAt(p, Entry(Head(feet), Head(feet).y)) /\ OpenAt(p, Entry(Head(feet), Head(feet).y + up - 2))
  BY <1>1, <1>6, CrossingEntered
<1>9. CrossingLaid(p) /\ p.depth \in Int
  BY <1>1, <1>5, <1>6, CrossingIsLaid DEF ShaftPieces
<1>10. \A c \in CrossingFeet(Len(shaft) + 1, p) : c \in Seq(LeadingFeet(Len(shaft) + 1, p))
  BY <1>1, <1>9, CrossingLeadsOn
<1> QED
  BY <1>1, <1>3, <1>4, <1>5, <1>7, <1>8, <1>10, AddNet

LEMMA StairsNet == ShaftInv /\ NetOK(shaft, feet) /\ DigStairs => NetOK(shaft', feet')
<1> SUFFICES ASSUME ShaftInv, NetOK(shaft, feet), DigStairs
             PROVE  NetOK(shaft', feet')
  OBVIOUS
<1>1. MayAdd /\ Head(feet) \in Feet /\ Len(shaft) + 1 \in Nat
  BY HeadType DEF DigStairs
<1>2. /\ 2 \in {2, 6} /\ 2 \in Int /\ 5 \in Int /\ 9 \in 5 .. 20 /\ 0 \in 0 .. 1 /\ 2 \in 2 .. 3
      /\ "stairs" \in {"corridor", "crossing", "stairs"}
  OBVIOUS
<1> DEFINE p == NewPiece("stairs", StairsBox(Head(feet)))
<1>3. p = NewPiece("stairs", Laid(Head(feet), Head(feet).dir, 9, 0, 2, 5, 2))
  BY DEF StairsBox
<1>4. p \in ShaftPieces
  BY <1>1, <1>2, <1>3, NewPieceType, Zenon
<1>5. p.kind = "stairs" /\ p.dir = Head(feet).dir /\ p.box = StairsBox(Head(feet))
  BY DEF NewPiece, ShaftPiece
<1>6. Add(p, StairsFeet(Len(shaft) + 1, p))
  BY DEF DigStairs
<1> HIDE DEF p
<1>7. OpenAt(p, Entry(Head(feet), Head(feet).y))
  BY <1>1, <1>5, StairsEntered
<1>8. Head(feet).y + 2 - 2 = Head(feet).y
  BY <1>1 DEF Feet
<1>9. StairsLaid(p) /\ p.depth \in Int
  BY <1>1, <1>4, <1>5, StairsAreLaid DEF ShaftPieces
<1>10. \A c \in StairsFeet(Len(shaft) + 1, p) : c \in Seq(LeadingFeet(Len(shaft) + 1, p))
  BY <1>1, <1>9, StairsLeadOn
<1> QED
  BY <1>1, <1>2, <1>3, <1>4, <1>6, <1>7, <1>8, <1>10, AddNet

LEMMA CorridorNet == ShaftInv /\ NetOK(shaft, feet) /\ DigCorridor => NetOK(shaft', feet')
<1> SUFFICES ASSUME ShaftInv, NetOK(shaft, feet), DigCorridor
             PROVE  NetOK(shaft', feet')
  OBVIOUS
<1>1. MayAdd /\ Head(feet) \in Feet /\ Len(shaft) + 1 \in Nat
  BY HeadType DEF DigCorridor
<1>2. PICK sections \in CorridorLengths(Head(feet)) :
        Add(NewPiece("corridor", CorridorBox(Head(feet), sections)),
            CorridorFeet(Len(shaft) + 1, NewPiece("corridor", CorridorBox(Head(feet), sections))))
  BY DEF DigCorridor
<1> DEFINE far == 5 * sections
           p == NewPiece("corridor", CorridorBox(Head(feet), sections))
<1>3. sections \in 1 .. 4 /\ far \in 5 .. 20
  BY DEF CorridorLengths
<1>4. p = NewPiece("corridor", Laid(Head(feet), Head(feet).dir, far, 0, 2, 0, 2))
  BY DEF CorridorBox
<1>5. p.kind = "corridor" /\ p.dir = Head(feet).dir /\ p.box = CorridorBox(Head(feet), sections)
  BY DEF NewPiece, ShaftPiece
<1>6. Add(p, CorridorFeet(Len(shaft) + 1, p))
  BY <1>2
<1> HIDE DEF p, far
<1>7. p \in ShaftPieces /\ p.dir \in Directions
  BY <1>1, <1>3, <1>4, CorridorPieceType
<1>8. OpenAt(p, Entry(Head(feet), Head(feet).y))
  BY <1>1, <1>3, <1>5, CorridorEntered DEF CorridorBox
<1>9. Head(feet).y + 2 - 2 = Head(feet).y
  BY <1>1 DEF Feet
<1>10. CorridorLaid(p)
  BY <1>1, <1>3, <1>5, <1>7, CorridorIsLaid
<1>11. \A c \in CorridorFeet(Len(shaft) + 1, p) : c \in Seq(LeadingFeet(Len(shaft) + 1, p))
  BY <1>1, <1>7, <1>10, CorridorLeadsOn
<1>12. /\ 2 \in {2, 6} /\ 0 \in Int /\ 0 \in 0 .. 1 /\ 2 \in 2 .. 3
       /\ "corridor" \in {"corridor", "crossing", "stairs"}
  OBVIOUS
<1> QED
  BY <1>1, <1>3, <1>4, <1>6, <1>7, <1>8, <1>9, <1>11, <1>12, AddNet

-----------------------------------------------------------------------------
(***************************************************************************)
(* The network is moved up or down.                                        *)
(***************************************************************************)
\* Finitely many numbers have a least and a greatest.
LEMMA ExtremesOfRow ==
  ASSUME NEW n \in Nat \ {0}, NEW v \in [1 .. n -> Int]
  PROVE  /\ \E i \in 1 .. n : \A j \in 1 .. n : v[i] <= v[j]
         /\ \E i \in 1 .. n : \A j \in 1 .. n : v[i] >= v[j]
<1> DEFINE S == {m \in Nat : m \in 1 .. n => /\ \E i \in 1 .. m : \A j \in 1 .. m : v[i] <= v[j]
                                             /\ \E i \in 1 .. m : \A j \in 1 .. m : v[i] >= v[j]}
<1>1. 0 \in S
  OBVIOUS
<1>2. ASSUME NEW m \in Nat, m \in S PROVE m + 1 \in S
  <2> SUFFICES ASSUME m + 1 \in 1 .. n
               PROVE  /\ \E i \in 1 .. m + 1 : \A j \in 1 .. m + 1 : v[i] <= v[j]
                      /\ \E i \in 1 .. m + 1 : \A j \in 1 .. m + 1 : v[i] >= v[j]
    OBVIOUS
  <2>1. \A j \in 1 .. m + 1 : v[j] \in Int /\ (j \in 1 .. m \/ j = m + 1)
    OBVIOUS
  <2>2. CASE m = 0
    <3>1. 1 .. m + 1 = {1} /\ v[1] \in Int
      BY <2>1, <2>2
    <3>2. 1 \in 1 .. m + 1 /\ \A j \in 1 .. m + 1 : v[1] <= v[j] /\ v[1] >= v[j]
      BY <3>1
    <3> QED
      BY <3>2
  <2>3. CASE m # 0
    <3>0. m \in 1 .. n
      BY <2>3
    <3>1. PICK i \in 1 .. m : \A j \in 1 .. m : v[i] <= v[j]
      BY <1>2, <3>0, Zenon
    <3>2. PICK k \in 1 .. m : \A j \in 1 .. m : v[k] >= v[j]
      BY <1>2, <3>0, Zenon
    <3>3. i \in 1 .. m + 1 /\ k \in 1 .. m + 1 /\ m + 1 \in 1 .. m + 1
      OBVIOUS
    <3>4. \E h \in 1 .. m + 1 : \A j \in 1 .. m + 1 : v[h] <= v[j]
      <4>1. CASE v[i] <= v[m + 1]
        BY <2>1, <3>1, <3>3, <4>1
      <4>2. CASE ~ (v[i] <= v[m + 1])
        <5>1. \A j \in 1 .. m + 1 : v[m + 1] <= v[j]
          BY <2>1, <3>1, <3>3, <4>2
        <5> QED
          BY <3>3, <5>1
      <4> QED
        BY <4>1, <4>2
    <3>5. \E h \in 1 .. m + 1 : \A j \in 1 .. m + 1 : v[h] >= v[j]
      <4>1. CASE v[k] >= v[m + 1]
        BY <2>1, <3>2, <3>3, <4>1
      <4>2. CASE ~ (v[k] >= v[m + 1])
        <5>1. \A j \in 1 .. m + 1 : v[m + 1] >= v[j]
          BY <2>1, <3>2, <3>3, <4>2
        <5> QED
          BY <3>3, <5>1
      <4> QED
        BY <4>1, <4>2
    <3> QED
      BY <3>4, <3>5
  <2> QED
    BY <2>2, <2>3
<1> HIDE DEF S
<1>3. Nat \subseteq S
  BY <1>1, <1>2, Induction
<1>4. n \in S /\ n \in 1 .. n
  BY <1>3
<1> QED
  BY <1>4 DEF S

\* How deep and how high a network goes.
Bottoms(s) == {s[i].box.y1 : i \in DOMAIN s}
Tops(s) == {s[i].box.y2 : i \in DOMAIN s}

LEMMA Extremes ==
  ASSUME NEW s, NEW n \in Nat \ {0}, DOMAIN s = 1 .. n, \A i \in 1 .. n : s[i].box \in Cuboids
  PROVE  /\ Min(Bottoms(s)) \in Int /\ Max(Tops(s)) \in Int
         /\ \E i \in DOMAIN s : Min(Bottoms(s)) = s[i].box.y1
         /\ \E i \in DOMAIN s : Max(Tops(s)) = s[i].box.y2
         /\ \A i \in DOMAIN s : Min(Bottoms(s)) <= s[i].box.y1 /\ s[i].box.y2 <= Max(Tops(s))
<1>1. \A i \in 1 .. n : s[i].box.y1 \in Int /\ s[i].box.y2 \in Int
  BY DEF Cuboids
<1> DEFINE low == [i \in 1 .. n |-> s[i].box.y1]
           high == [i \in 1 .. n |-> s[i].box.y2]
<1>2. low \in [1 .. n -> Int] /\ high \in [1 .. n -> Int]
  BY <1>1
<1>3. \E i \in 1 .. n : \A j \in 1 .. n : low[i] <= low[j]
  <2> HIDE DEF low
  <2> QED
    BY <1>2, ExtremesOfRow
<1>4. \E i \in 1 .. n : \A j \in 1 .. n : high[i] >= high[j]
  <2> HIDE DEF high
  <2> QED
    BY <1>2, ExtremesOfRow
<1>5. \E x \in Bottoms(s) : \A y \in Bottoms(s) : x =< y
  BY <1>3 DEF Bottoms
<1>6. \E x \in Tops(s) : \A y \in Tops(s) : x >= y
  BY <1>4 DEF Tops
<1>7. Min(Bottoms(s)) \in Bottoms(s) /\ \A y \in Bottoms(s) : Min(Bottoms(s)) =< y
  BY <1>5 DEF Min
<1>8. Max(Tops(s)) \in Tops(s) /\ \A y \in Tops(s) : Max(Tops(s)) >= y
  BY <1>6 DEF Max
<1>9. /\ \A x \in Bottoms(s) : x \in Int /\ \E i \in DOMAIN s : x = s[i].box.y1
      /\ \A x \in Tops(s) : x \in Int /\ \E i \in DOMAIN s : x = s[i].box.y2
      /\ \A i \in DOMAIN s : s[i].box.y1 \in Bottoms(s) /\ s[i].box.y2 \in Tops(s)
  BY <1>1 DEF Bottoms, Tops
<1> HIDE DEF low, high
<1> QED
  BY <1>7, <1>8, <1>9

\* What a piece is after the move.
LEMMA RaisedIs ==
  ASSUME NEW p \in ShaftPieces, NEW dy \in Int
  PROVE  LET q == Raised(p, dy) IN
         /\ q.kind = p.kind /\ q.dir = p.dir /\ q.from = p.from
         /\ q.box = Up(p.box, dy) /\ q.box \in Cuboids
         /\ q.entrances = {Up(e, dy) : e \in p.entrances}
<1>1. p.box \in Cuboids
  BY DEF ShaftPieces
<1>2. Up(p.box, dy) \in Cuboids
  BY <1>1 DEF Up, Cuboid, Cuboids
<1> QED
  BY <1>2 DEF Raised, ShaftPiece

LEMMA RaisedEntry ==
  ASSUME NEW p \in ShaftPieces, NEW dy \in Int, NEW y1 \in Int, NEW y2 \in Int, NEW z1 \in Int, NEW z2 \in Int
  PROVE  FromEntry(Raised(p, dy), y1, z1, y2, z2) = Up(FromEntry(p, y1, z1, y2, z2), dy)
<1> DEFINE b == p.box
           q == Raised(p, dy)
<1>1. /\ b.x1 \in Int /\ b.x2 \in Int /\ b.y1 \in Int /\ b.y2 \in Int /\ b.z1 \in Int /\ b.z2 \in Int
  BY DEF ShaftPieces, Cuboids
<1>2. q.dir = p.dir /\ q.box = Up(b, dy)
  BY RaisedIs
<1>3. (b.y1 + dy) + y1 = (b.y1 + y1) + dy /\ (b.y1 + dy) + y2 = (b.y1 + y2) + dy
  BY <1>1
<1>4. /\ q.box.x1 = b.x1 /\ q.box.x2 = b.x2 /\ q.box.z1 = b.z1 /\ q.box.z2 = b.z2
      /\ q.box.y1 = b.y1 + dy
  BY <1>2 DEF Up, Cuboid
<1> HIDE DEF q, b
<1>5. FromEntry(q, y1, z1, y2, z2) = Up(FromEntry(p, y1, z1, y2, z2), dy)
  <2>1. CASE p.dir = "north"
    BY <1>2, <1>3, <1>4, <2>1 DEF FromEntry, Up, Cuboid, b
  <2>2. CASE p.dir = "south"
    BY <1>2, <1>3, <1>4, <2>2 DEF FromEntry, Up, Cuboid, b
  <2>3. CASE p.dir = "west"
    BY <1>2, <1>3, <1>4, <2>3 DEF FromEntry, Up, Cuboid, b
  <2>4. CASE p.dir \notin {"north", "south", "west"}
    BY <1>2, <1>3, <1>4, <2>4 DEF FromEntry, Up, Cuboid, b
  <2> QED
    BY <2>1, <2>2, <2>3, <2>4
<1> QED
  BY <1>5 DEF q

LEMMA RaisedCross ==
  ASSUME NEW b \in Cuboids, NEW dy \in Int, NEW y1 \in Int, NEW y2 \in Int, NEW c \in Cross(b, y1, y2)
  PROVE  Up(c, dy) \in Cross(Up(b, dy), y1 + dy, y2 + dy)
BY DEF Cross, Up, Cuboid

\* What a piece that is no room digs is moved with it.
LEMMA RaisedAir ==
  ASSUME NEW p \in ShaftPieces, p.kind # "room", NEW dy \in Int, NEW a \in Air(p)
  PROVE  Up(a, dy) \in Air(Raised(p, dy))
<1> DEFINE q == Raised(p, dy)
           b == p.box
<1>1. q.kind = p.kind /\ q.dir = p.dir /\ q.box = Up(b, dy) /\ b \in Cuboids
  BY RaisedIs DEF ShaftPieces
<1>2. /\ b.x1 \in Int /\ b.x2 \in Int /\ b.y1 \in Int /\ b.y2 \in Int /\ b.z1 \in Int /\ b.z2 \in Int
  BY <1>1 DEF Cuboids
<1>3. /\ q.box.x1 = b.x1 /\ q.box.x2 = b.x2 /\ q.box.z1 = b.z1 /\ q.box.z2 = b.z2
      /\ q.box.y1 = b.y1 + dy /\ q.box.y2 = b.y2 + dy
  BY <1>1 DEF Up, Cuboid
<1>4. p.kind \in {"corridor", "stairs", "crossing"}
  BY DEF ShaftPieces
<1>5. CASE p.kind = "corridor"
  <2>1. Far(q) = Far(p) /\ Far(p) \in Int
    BY <1>1, <1>2, <1>3 DEF Far
  <2> DEFINE m == (Far(p) \div 5) * 5 - 1
  <2>2. m \in Int
    BY <2>1
  <2>3. a = FromEntry(p, 0, 0, 1, m) /\ FromEntry(q, 0, 0, 1, m) \in Air(q)
    <3> HIDE DEF q
    <3> QED
      BY <1>1, <1>5, <2>1 DEF Air, CorridorAir
  <2> HIDE DEF m
  <2> QED
    BY <2>2, <2>3, RaisedEntry
<1>6. CASE p.kind = "stairs"
  <2> DEFINE Step(r, i) == FromEntry(r, 5 - i - (IF i < 4 THEN 1 ELSE 0), 2 + i, 7 - i, 2 + i)
             Flight(r) == {FromEntry(r, 5, 0, 7, 1), FromEntry(r, 0, 7, 2, 8)} \cup {Step(r, i) : i \in 0 .. 4}
  <2>1. Air(p) = Flight(p) /\ Air(q) = Flight(q)
    <3> HIDE DEF q
    <3> QED
      BY <1>1, <1>6 DEF Air, StairsAir
  <2>2. \A i \in 0 .. 4 : Step(q, i) = Up(Step(p, i), dy)
    <3> SUFFICES ASSUME NEW i \in 0 .. 4 PROVE Step(q, i) = Up(Step(p, i), dy)
      OBVIOUS
    <3> DEFINE y1 == 5 - i - (IF i < 4 THEN 1 ELSE 0)
               y2 == 7 - i
               z == 2 + i
    <3>1. y1 \in Int /\ y2 \in Int /\ z \in Int
      OBVIOUS
    <3> HIDE DEF y1, y2, z
    <3>2. FromEntry(q, y1, z, y2, z) = Up(FromEntry(p, y1, z, y2, z), dy)
      BY <3>1, RaisedEntry
    <3> QED
      BY <3>2 DEF y1, y2, z
  <2>3. /\ FromEntry(q, 5, 0, 7, 1) = Up(FromEntry(p, 5, 0, 7, 1), dy)
        /\ FromEntry(q, 0, 7, 2, 8) = Up(FromEntry(p, 0, 7, 2, 8), dy)
    BY RaisedEntry
  <2>4. \/ a = FromEntry(p, 5, 0, 7, 1) \/ a = FromEntry(p, 0, 7, 2, 8)
        \/ \E i \in 0 .. 4 : a = Step(p, i)
    BY <2>1
  <2>5. /\ FromEntry(q, 5, 0, 7, 1) \in Air(q) /\ FromEntry(q, 0, 7, 2, 8) \in Air(q)
        /\ \A i \in 0 .. 4 : Step(q, i) \in Air(q)
    BY <2>1
  <2> HIDE DEF q, Step
  <2>6. Up(a, dy) \in Air(q)
    BY <2>2, <2>3, <2>4, <2>5
  <2> QED
    BY <2>6 DEF q
<1>7. CASE p.kind = "crossing"
  <2> HIDE DEF q
  <2>1. Air(p) = CrossingAir(p) /\ Air(q) = CrossingAir(q)
    BY <1>1, <1>7 DEF Air
  <2>2. TwoFloored(q) <=> TwoFloored(p)
    BY <1>2, <1>3 DEF TwoFloored
  <2>3. /\ q.box.y1 + 2 = (b.y1 + 2) + dy /\ q.box.y2 - 2 = (b.y2 - 2) + dy
        /\ b.y1 + 2 \in Int /\ b.y2 - 2 \in Int
    BY <1>2, <1>3
  <2>4. CASE ~ TwoFloored(p)
    <3>1. a \in Cross(b, b.y1, b.y2) /\ Air(q) = Cross(q.box, q.box.y1, q.box.y2)
      BY <2>1, <2>2, <2>4 DEF CrossingAir
    <3>2. Up(a, dy) \in Cross(Up(b, dy), b.y1 + dy, b.y2 + dy)
      <4> HIDE DEF b
      <4> QED
        BY <1>1, <1>2, <3>1, RaisedCross
    <3> QED
      BY <1>1, <1>3, <3>1, <3>2 DEF q
  <2>5. CASE TwoFloored(p)
    <3> DEFINE Mid(c) == Cuboid(c.x1 + 1, c.y1 + 3, c.z1 + 1, c.x2 - 1, c.y1 + 3, c.z2 - 1)
    <3>1. Air(p) = Cross(b, b.y1, b.y1 + 2) \cup Cross(b, b.y2 - 2, b.y2) \cup {Mid(b)}
      BY <2>1, <2>5 DEF CrossingAir
    <3>2. Air(q) = Cross(q.box, q.box.y1, q.box.y1 + 2) \cup Cross(q.box, q.box.y2 - 2, q.box.y2)
                     \cup {Mid(q.box)}
      BY <2>1, <2>2, <2>5 DEF CrossingAir
    <3>3. Mid(q.box) = Up(Mid(b), dy)
      <4>1. (b.y1 + dy) + 3 = (b.y1 + 3) + dy
        BY <1>2
      <4> QED
        BY <1>3, <4>1 DEF Up, Cuboid
    <3> HIDE DEF Mid, b
    <3>4. CASE a \in Cross(b, b.y1, b.y1 + 2)
      <4>1. Up(a, dy) \in Cross(Up(b, dy), b.y1 + dy, (b.y1 + 2) + dy)
        BY <1>1, <1>2, <2>3, <3>4, RaisedCross
      <4> QED
        BY <1>1, <1>3, <2>3, <3>2, <4>1 DEF q
    <3>5. CASE a \in Cross(b, b.y2 - 2, b.y2)
      <4>1. Up(a, dy) \in Cross(Up(b, dy), (b.y2 - 2) + dy, b.y2 + dy)
        BY <1>1, <1>2, <2>3, <3>5, RaisedCross
      <4> QED
        BY <1>1, <1>3, <2>3, <3>2, <4>1 DEF q
    <3>6. CASE a = Mid(b)
      BY <3>2, <3>3, <3>6 DEF q
    <3> QED
      BY <3>1, <3>4, <3>5, <3>6
  <2> QED
    BY <2>4, <2>5
<1> QED
  BY <1>4, <1>5, <1>6, <1>7

\* The doorways of the room and its hall are moved with it, and nothing comes
\* to meet what it did not meet.
LEMMA RaisedDoorways ==
  ASSUME NEW p \in ShaftPieces, NEW dy \in Int
  PROVE  /\ \A d \in Doorways(p) : d \in Cuboids
         /\ Doorways(Raised(p, dy)) = {Up(d, dy) : d \in Doorways(p)}
<1>1. p.entrances \subseteq Cuboids
  BY DEF ShaftPieces
<1>2. ASSUME NEW e \in p.entrances
      PROVE  /\ Doorway(e) \in Cuboids
             /\ Doorway(Up(e, dy)) = Up(Doorway(e), dy)
  <2>1. /\ e.x1 \in Int /\ e.x2 \in Int /\ e.y1 \in Int /\ e.y2 \in Int /\ e.z1 \in Int /\ e.z2 \in Int
        /\ e \in Cuboids
    BY <1>1 DEF Cuboids
  <2>2. (e.y2 + dy) - 2 = (e.y2 - 2) + dy
    BY <2>1
  <2> QED
    BY <2>1, <2>2 DEF Doorway, Up, Cuboid, Cuboids
<1>3. Doorways(p) = {Doorway(e) : e \in p.entrances}
  BY DEF Doorways, Doorway
<1>4. Doorways(Raised(p, dy)) = {Doorway(e) : e \in {Up(e, dy) : e \in p.entrances}}
  <2>1. Raised(p, dy).entrances = {Up(e, dy) : e \in p.entrances}
    BY RaisedIs
  <2> QED
    BY <2>1 DEF Doorways, Doorway
<1>5. {Doorway(e) : e \in {Up(e, dy) : e \in p.entrances}} = {Up(d, dy) : d \in {Doorway(e) : e \in p.entrances}}
  BY <1>2
<1> QED
  BY <1>2, <1>3, <1>4, <1>5

LEMMA RaisedHall ==
  ASSUME NEW p \in ShaftPieces, NEW dy \in Int
  PROVE  Hall(p) \in Cuboids /\ Hall(Raised(p, dy)) = Up(Hall(p), dy)
<1> DEFINE q == Raised(p, dy)
           b == p.box
           Top(c) == IF c.y1 + 3 <= c.y2 THEN c.y1 + 3 ELSE c.y2
           Under(c) == Cuboid(c.x1, c.y1 + 1, c.z1, c.x2, Top(c), c.z2)
<1>1. b \in Cuboids /\ q.box \in Cuboids /\ q.box = Up(b, dy)
  BY RaisedIs DEF ShaftPieces
<1>2. /\ b.x1 \in Int /\ b.x2 \in Int /\ b.y1 \in Int /\ b.y2 \in Int /\ b.z1 \in Int /\ b.z2 \in Int
  BY <1>1 DEF Cuboids
<1>3. Hall(p) = Under(b) /\ Hall(q) = Under(q.box)
  <2> HIDE DEF q
  <2> QED
    BY <1>1, HallIs
<1>4. Under(b) \in Cuboids
  BY <1>2 DEF Cuboid, Cuboids
<1>5. /\ q.box.x1 = b.x1 /\ q.box.x2 = b.x2 /\ q.box.z1 = b.z1 /\ q.box.z2 = b.z2
      /\ q.box.y1 = b.y1 + dy /\ q.box.y2 = b.y2 + dy
  BY <1>1 DEF Up, Cuboid
<1>6. Top(q.box) = Top(b) + dy /\ (b.y1 + dy) + 1 = (b.y1 + 1) + dy
  <2> HIDE DEF q
  <2> QED
    BY <1>2, <1>5
<1> HIDE DEF q, Top
<1>7. Under(q.box) = Up(Under(b), dy)
  BY <1>5, <1>6 DEF Up, Cuboid
<1> QED
  BY <1>3, <1>4, <1>7 DEF q

\* How far the network may be moved, and for a normal mineshaft where that leaves
\* it: clear of the bottom, and of the sea if it is not too tall.
LEMMA ShiftsAre ==
  ASSUME shaft \in Seq(ShaftPieces), shaft # <<>>, NEW kind, NEW dy \in Shifts(kind)
  PROVE  /\ Lowest \in Int /\ Highest \in Int /\ dy \in Int
         /\ kind # "mesa" => /\ Lowest + dy >= Bottom + 2
                             /\ Highest + dy < SeaLevel - 10 \/ Lowest + dy = Bottom + 2
<1>1. Len(shaft) \in Nat \ {0} /\ DOMAIN shaft = 1 .. Len(shaft)
  OBVIOUS
<1>2. \A i \in 1 .. Len(shaft) : shaft[i].box \in Cuboids
  <2>1. \A p \in ShaftPieces : p.box \in Cuboids
    BY DEF ShaftPieces
  <2> QED
    BY <2>1
<1>3. Lowest \in Int /\ Highest \in Int
  <2> DEFINE n == Len(shaft)
  <2> HIDE DEF n
  <2>1. Min(Bottoms(shaft)) \in Int /\ Max(Tops(shaft)) \in Int
    BY <1>1, <1>2, Extremes DEF n
  <2> QED
    BY <2>1 DEF Lowest, Highest, Bottoms, Tops
<1>4. Tall \in Int /\ Tall = Highest - Lowest + 1
  BY <1>3 DEF Tall
<1>5. Bottom \in Int /\ SeaLevel \in Int
  BY MineshaftAssumption
<1>6. CASE kind = "mesa"
  <2>1. dy \in MesaShifts
    BY <1>6 DEF Shifts
  <2>2. PICK g \in Grounds : \E y \in SeaLevel .. Max({g, SeaLevel}) : dy = y - (Lowest + Tall \div 2)
    BY <2>1 DEF MesaShifts
  <2>3. dy \in Int
    BY <1>3, <1>4, <2>2
  <2> QED
    BY <1>3, <1>6, <2>3
<1>7. CASE kind # "mesa"
  <2> DEFINE top == Tall + Bottom + 1
             room == SeaLevel - 10 - top - 1
  <2>1. top \in Int /\ room \in Int
    BY <1>4, <1>5
  <2>2. PICK n \in 0 .. Max({0, room}) : dy = top + n - Highest
    BY <1>7 DEF Shifts, NormalShifts
  <2>3. Max({0, room}) = IF room > 0 THEN room ELSE 0
    <3> HIDE DEF room
    <3> QED
      BY <2>1 DEF Max
  <2>4. n \in Nat /\ n <= (IF room > 0 THEN room ELSE 0)
    <3> HIDE DEF room
    <3> QED
      BY <2>1, <2>2, <2>3
  <2>5. /\ Highest + dy = top + n
        /\ Lowest + dy = Bottom + 2 + n
    BY <1>3, <1>4, <1>5, <2>1, <2>2, <2>4
  <2>6. dy \in Int
    BY <1>3, <2>1, <2>2, <2>4
  <2> QED
    BY <1>3, <1>5, <2>1, <2>4, <2>5, <2>6
<1> QED
  BY <1>6, <1>7

\* The network after the move.
LEMMA MovedNet ==
  ASSUME shaft \in Seq(ShaftPieces), shaft # <<>>, NetOK(shaft, feet), NEW dy \in Int,
         shaft' = [i \in DOMAIN shaft |-> Raised(shaft[i], dy)]
  PROVE  PassagesOpen' /\ ShaftPiecesApart'
<1>1. Len(shaft) \in Nat \ {0} /\ DOMAIN shaft = 1 .. Len(shaft) /\ DOMAIN shaft' = 1 .. Len(shaft)
  OBVIOUS
<1>2. \A i \in 1 .. Len(shaft) : shaft[i] \in ShaftPieces /\ shaft'[i] = Raised(shaft[i], dy)
  BY <1>1
<1>3. \A i \in 1 .. Len(shaft) : /\ shaft'[i].from = shaft[i].from
                                 /\ shaft'[i].box = Up(shaft[i].box, dy)
                                 /\ shaft[i].box \in Cuboids
  <2>1. \A p \in ShaftPieces : p.box \in Cuboids
    BY DEF ShaftPieces
  <2> QED
    BY <1>2, <2>1, RaisedIs
<1>4. ASSUME NEW i \in DOMAIN shaft'
      PROVE  /\ shaft'[i].from = 1 => \E a \in Air(shaft'[i]), d \in Doorways(shaft'[1]) : Touch(a, d)
             /\ shaft'[i].from > 1 => \E a \in Air(shaft'[i]), b \in Air(shaft'[shaft'[i].from]) : Touch(a, b)
             /\ \A d \in Doorways(shaft'[i]) : Touch(d, Hall(shaft'[i])) \/ d.y1 > Hall(shaft'[i]).y2 + 1
  <2> DEFINE p == shaft[i]
  <2>1. i \in 1 .. Len(shaft) /\ p \in ShaftPieces /\ shaft'[i] = Raised(p, dy) /\ shaft'[i].from = p.from
    BY <1>1, <1>2, <1>3
  <2>2. i = 1 => RoomOK(p)
    BY DEF NetOK
  <2>3. i # 1 => Opens(p, shaft)
    BY <1>1, <2>1 DEF NetOK
  <2>4. i = 1 => p.from = 0
    BY <2>2 DEF RoomOK
  <2> HIDE DEF p
  <2>5. ASSUME p.from = 1
        PROVE  \E a \in Air(Raised(p, dy)), d \in Doorways(shaft'[1]) : Touch(a, d)
    <3>1. PICK a \in Air(p) \cap Cuboids, d \in Doorways(shaft[1]) \cap Cuboids : Touch(a, d)
      BY <2>3, <2>4, <2>5 DEF Opens
    <3>2. Up(a, dy) \in Air(Raised(p, dy))
      BY <2>1, <2>3, <2>4, <2>5, RaisedAir DEF Opens
    <3>3. Up(d, dy) \in Doorways(shaft'[1])
      BY <1>1, <1>2, RaisedDoorways
    <3>4. Touch(Up(a, dy), Up(d, dy))
      BY <3>1, RaisedTouch
    <3> QED
      BY <3>2, <3>3, <3>4
  <2>6. ASSUME p.from > 1
        PROVE  \E a \in Air(Raised(p, dy)), b \in Air(shaft'[p.from]) : Touch(a, b)
    <3>0. i # 1 /\ Opens(p, shaft)
      BY <2>3, <2>4, <2>6
    <3>1. PICK a \in Air(p) \cap Cuboids, b \in Air(shaft[p.from]) \cap Cuboids : Touch(a, b)
      BY <2>6, <3>0 DEF Opens
    <3>2. Up(a, dy) \in Air(Raised(p, dy))
      BY <2>1, <3>0, RaisedAir DEF Opens
    <3>3. p.from \in 2 .. Len(shaft) /\ p.from \in 1 .. Len(shaft)
      BY <1>1, <2>6, <3>0 DEF Opens
    <3>4. shaft[p.from].kind # "room" /\ shaft[p.from] \in ShaftPieces
      BY <1>2, <3>3 DEF NetOK, Opens
    <3>5. Up(b, dy) \in Air(shaft'[p.from])
      BY <1>2, <3>3, <3>4, RaisedAir
    <3>6. Touch(Up(a, dy), Up(b, dy))
      BY <3>1, RaisedTouch
    <3> QED
      BY <3>2, <3>5, <3>6
  <2>7. ASSUME NEW d \in Doorways(Raised(p, dy))
        PROVE  Touch(d, Hall(Raised(p, dy))) \/ d.y1 > Hall(Raised(p, dy)).y2 + 1
    <3>1. PICK e \in Doorways(p) : d = Up(e, dy) /\ e \in Cuboids
      BY <2>1, RaisedDoorways
    <3>2. RoomOK(p)
      <4>1. Doorways(p) # {}
        BY <3>1
      <4>2. i = 1
        BY <2>3, <4>1 DEF Opens, Doorways
      <4> QED
        BY <2>2, <4>2
    <3>3. Touch(e, Hall(p)) \/ e.y1 > Hall(p).y2 + 1
      BY <3>1, <3>2 DEF RoomOK
    <3>4. Hall(p) \in Cuboids /\ Hall(Raised(p, dy)) = Up(Hall(p), dy)
      BY <2>1, RaisedHall
    <3>5. CASE Touch(e, Hall(p))
      BY <3>1, <3>4, <3>5, RaisedTouch
    <3>6. CASE e.y1 > Hall(p).y2 + 1
      <4>1. e.y1 \in Int /\ Hall(p).y2 \in Int
        BY <3>1, <3>4 DEF Cuboids
      <4>2. d.y1 = e.y1 + dy /\ Hall(Raised(p, dy)).y2 = Hall(p).y2 + dy
        BY <3>1, <3>4 DEF Up, Cuboid
      <4> QED
        BY <3>6, <4>1, <4>2
    <3> QED
      BY <3>3, <3>5, <3>6
  <2> QED
    BY <2>1, <2>5, <2>6, <2>7
<1>5. PassagesOpen'
  BY <1>4 DEF PassagesOpen, Touch, Air, Doorways, Hall, Meet
<1>6. ASSUME NEW i \in DOMAIN shaft', NEW j \in DOMAIN shaft', i # j
      PROVE  ~ Meet(shaft'[i].box, shaft'[j].box)
  <2> DEFINE a == shaft[i].box
             b == shaft[j].box
  <2>1. ~ Meet(a, b) /\ a \in Cuboids /\ b \in Cuboids
    BY <1>1, <1>3, <1>6 DEF NetOK, Apart
  <2>2. shaft'[i].box = Up(a, dy) /\ shaft'[j].box = Up(b, dy)
    BY <1>1, <1>3
  <2> HIDE DEF a, b
  <2>3. ~ Meet(Up(a, dy), Up(b, dy))
    BY <2>1, RaisedApart
  <2> QED
    BY <2>2, <2>3
<1>7. ShaftPiecesApart'
  BY <1>6 DEF ShaftPiecesApart, Meet
<1> QED
  BY <1>5, <1>7

-----------------------------------------------------------------------------
(***************************************************************************)
(* The invariant of the network: while it is dug NetOK, which is more than *)
(* what is promised at the end.                                            *)
(***************************************************************************)
Digging == shaftStage \in {"digging", "dug"}
PassageInv ==
  /\ ShaftInv
  /\ Digging => NetOK(shaft, feet)
  /\ PassagesOpen
  /\ ShaftPiecesApart
  /\ ShaftInRock

LEMMA PassageInit == ShaftInit => PassageInv
<1> SUFFICES ASSUME ShaftInit
             PROVE  PassageInv
  OBVIOUS
<1>1. ShaftInv
  BY ShaftInvInit
<1>2. DOMAIN shaft = {} /\ shaftStage = "new"
  BY DEF ShaftInit
<1> QED
  BY <1>1, <1>2 DEF PassageInv, Digging, PassagesOpen, ShaftPiecesApart, ShaftInRock

\* A step of the digging keeps the network together.
LEMMA DiggingKeeps ==
  ASSUME ShaftInv', Digging', NetOK(shaft', feet')
  PROVE  PassageInv'
<1>1. shaft' \in Seq(ShaftPieces) /\ shaft' # <<>>
  BY DEF ShaftInv, Unsettled, Digging
<1>2. DOMAIN shaft' = 1 .. Len(shaft') /\ Len(shaft') \in Nat \ {0}
  BY <1>1
<1>3. ASSUME NEW i \in DOMAIN shaft'
      PROVE  /\ shaft'[i].from = 1 => \E a \in Air(shaft'[i]), d \in Doorways(shaft'[1]) : Touch(a, d)
             /\ shaft'[i].from > 1 => \E a \in Air(shaft'[i]), b \in Air(shaft'[shaft'[i].from]) : Touch(a, b)
             /\ \A d \in Doorways(shaft'[i]) : Touch(d, Hall(shaft'[i])) \/ d.y1 > Hall(shaft'[i]).y2 + 1
  <2>1. CASE i = 1
    BY <2>1 DEF NetOK, RoomOK
  <2>2. CASE i # 1
    <3>1. Opens(shaft'[i], shaft')
      BY <1>2, <2>2 DEF NetOK
    <3>2. Doorways(shaft'[i]) = {}
      BY <3>1 DEF Opens, Doorways
    <3> QED
      BY <3>1, <3>2 DEF Opens
  <2> QED
    BY <2>1, <2>2
<1>4. PassagesOpen'
  BY <1>3 DEF PassagesOpen
<1>5. ShaftPiecesApart'
  BY <1>2 DEF NetOK, Apart, ShaftPiecesApart
<1>6. ShaftInRock' /\ (Digging => NetOK(shaft, feet))'
  BY DEF ShaftInRock, Digging
<1> QED
  BY <1>4, <1>5, <1>6 DEF PassageInv

\* The move, or a kind that is not allowed where it would be.
LEMMA SettleKeeps == PassageInv /\ Settle => PassageInv'
<1> SUFFICES ASSUME PassageInv, Settle
             PROVE  PassageInv'
  OBVIOUS
<1>1. ShaftInv /\ ShaftInv'
  BY SettleInv DEF PassageInv
<1>2. /\ shaftStage = "dug" /\ NetOK(shaft, feet) /\ feet' = feet
      /\ shaft \in Seq(ShaftPieces) /\ shaft # <<>>
  BY DEF PassageInv, Settle, Digging, ShaftInv, Unsettled
<1>3. PICK kind \in kinds :
        \/ /\ \E dy \in Shifts(kind) : shaft' = [i \in DOMAIN shaft |-> Raised(shaft[i], dy)]
           /\ shaftStage' = kind
        \/ /\ shaftStage' \in {"none", "dug"}
           /\ UNCHANGED shaft
  BY DEF Settle
<1>4. kind \in {"normal", "mesa"}
  BY <1>1, <1>3, MineshaftAssumption DEF ShaftInv
<1>5. CASE UNCHANGED shaft /\ shaftStage' \in {"none", "dug"}
  BY <1>1, <1>2, <1>5 DEF PassageInv, Digging, PassagesOpen, ShaftPiecesApart, ShaftInRock
<1>6. ASSUME NEW dy \in Shifts(kind), shaft' = [i \in DOMAIN shaft |-> Raised(shaft[i], dy)],
             shaftStage' = kind
      PROVE  PassageInv'
  <2>1. /\ Lowest \in Int /\ Highest \in Int /\ dy \in Int
        /\ kind = "normal" => /\ Lowest + dy >= Bottom + 2
                              /\ Highest + dy < SeaLevel - 10 \/ Lowest + dy = Bottom + 2
    BY <1>2, ShiftsAre
  <2>2. PassagesOpen' /\ ShaftPiecesApart'
    BY <1>2, <1>6, <2>1, MovedNet
  <2>3. Lowest' = Lowest + dy /\ Highest' = Highest + dy
    <3> DEFINE n == Len(shaft)
    <3>1. n \in Nat \ {0} /\ DOMAIN shaft = 1 .. n /\ DOMAIN shaft' = 1 .. n
      BY <1>2, <1>6
    <3>2. \A i \in 1 .. n : shaft[i] \in ShaftPieces /\ shaft'[i] = Raised(shaft[i], dy)
      BY <1>2, <1>6, <3>1
    <3>3. \A i \in 1 .. n : shaft[i].box \in Cuboids /\ shaft'[i].box \in Cuboids
      BY <2>1, <3>2, RaisedIs DEF ShaftPieces
    <3>4. \A i \in 1 .. n : /\ shaft[i].box.y1 \in Int /\ shaft[i].box.y2 \in Int
                            /\ shaft'[i].box.y1 = shaft[i].box.y1 + dy
                            /\ shaft'[i].box.y2 = shaft[i].box.y2 + dy
      <4> SUFFICES ASSUME NEW i \in 1 .. n
                   PROVE  /\ shaft[i].box.y1 \in Int /\ shaft[i].box.y2 \in Int
                          /\ shaft'[i].box.y1 = shaft[i].box.y1 + dy
                          /\ shaft'[i].box.y2 = shaft[i].box.y2 + dy
        OBVIOUS
      <4>1. shaft[i].box \in Cuboids /\ shaft'[i].box = Up(shaft[i].box, dy)
        BY <2>1, <3>2, <3>3, RaisedIs
      <4> QED
        BY <4>1 DEF Cuboids, Up, Cuboid
    <3> HIDE DEF n
    <3>5. /\ Lowest = Min(Bottoms(shaft)) /\ Highest = Max(Tops(shaft))
          /\ Lowest' = Min(Bottoms(shaft')) /\ Highest' = Max(Tops(shaft'))
      BY DEF Lowest, Highest, Bottoms, Tops, Min, Max
    <3>6. /\ \E i \in 1 .. n : Lowest = shaft[i].box.y1
          /\ \E i \in 1 .. n : Highest = shaft[i].box.y2
          /\ \A i \in 1 .. n : Lowest <= shaft[i].box.y1 /\ shaft[i].box.y2 <= Highest
      BY <3>1, <3>3, <3>5, Extremes
    <3>7. /\ Lowest' \in Int /\ Highest' \in Int
          /\ \E i \in 1 .. n : Lowest' = shaft'[i].box.y1
          /\ \E i \in 1 .. n : Highest' = shaft'[i].box.y2
          /\ \A i \in 1 .. n : Lowest' <= shaft'[i].box.y1 /\ shaft'[i].box.y2 <= Highest'
      BY <3>1, <3>3, <3>5, Extremes
    <3>8. Lowest' = Lowest + dy
      <4>1. PICK i \in 1 .. n : Lowest = shaft[i].box.y1
        BY <3>6
      <4>2. PICK j \in 1 .. n : Lowest' = shaft'[j].box.y1
        BY <3>7
      <4>3. Lowest <= shaft[j].box.y1 /\ Lowest' <= shaft'[i].box.y1
        BY <3>6, <3>7
      <4> QED
        BY <2>1, <3>4, <3>7, <4>1, <4>2, <4>3
    <3>9. Highest' = Highest + dy
      <4>1. PICK i \in 1 .. n : Highest = shaft[i].box.y2
        BY <3>6
      <4>2. PICK j \in 1 .. n : Highest' = shaft'[j].box.y2
        BY <3>7
      <4>3. shaft[j].box.y2 <= Highest /\ shaft'[i].box.y2 <= Highest'
        BY <3>6, <3>7
      <4> QED
        BY <2>1, <3>4, <3>7, <4>1, <4>2, <4>3
    <3> QED
      BY <3>8, <3>9
  <2>4. ShaftInRock'
    BY <1>6, <2>1, <2>3 DEF ShaftInRock
  <2> QED
    BY <1>1, <1>4, <1>6, <2>2, <2>4 DEF PassageInv, Digging
<1> QED
  BY <1>3, <1>5, <1>6

LEMMA PassageStep == PassageInv /\ [ShaftNext]_shaftVars => PassageInv'
<1> SUFFICES ASSUME PassageInv, [ShaftNext]_shaftVars
             PROVE  PassageInv'
  OBVIOUS
<1>1. ShaftInv /\ ShaftInv'
  BY ShaftInvStep DEF PassageInv
<1>2. CASE DigRoom
  <2>1. NetOK(shaft', feet') /\ Digging'
    BY <1>1, <1>2, RoomNet DEF DigRoom, Digging
  <2> QED
    BY <1>1, <2>1, DiggingKeeps
<1>3. CASE DigCrossing
  <2>1. NetOK(shaft, feet) /\ Digging'
    BY <1>3 DEF PassageInv, DigCrossing, MayAdd, Add, Digging
  <2> QED
    BY <1>1, <1>3, <2>1, CrossingNet, DiggingKeeps
<1>4. CASE DigStairs
  <2>1. NetOK(shaft, feet) /\ Digging'
    BY <1>4 DEF PassageInv, DigStairs, MayAdd, Add, Digging
  <2> QED
    BY <1>1, <1>4, <2>1, StairsNet, DiggingKeeps
<1>5. CASE DigCorridor
  <2>1. NetOK(shaft, feet) /\ Digging'
    BY <1>5 DEF PassageInv, DigCorridor, MayAdd, Add, Digging
  <2> QED
    BY <1>1, <1>5, <2>1, CorridorNet, DiggingKeeps
<1>6. CASE PassOn
  <2>1. NetOK(shaft, feet) /\ Digging' /\ shaft' = shaft /\ feet' = Tail(feet)
    BY <1>6 DEF PassageInv, PassOn, Digging
  <2>2. feet \in Seq(Feet) /\ feet # <<>>
    BY <1>1, <1>6 DEF ShaftInv, PassOn, Unsettled
  <2>3. /\ Len(feet') = Len(feet) - 1
        /\ \A n \in 1 .. Len(feet) - 1 : feet'[n] = feet[n + 1] /\ n + 1 \in 1 .. Len(feet)
    BY <2>1, <2>2
  <2>4. NetOK(shaft', feet')
    BY <2>1, <2>3 DEF NetOK
  <2> QED
    BY <1>1, <2>1, <2>4, DiggingKeeps
<1>7. CASE Dug
  <2>1. NetOK(shaft', feet') /\ Digging'
    BY <1>7 DEF PassageInv, Dug, Digging
  <2> QED
    BY <1>1, <2>1, DiggingKeeps
<1>8. CASE Settle
  BY <1>8, SettleKeeps
<1>9. CASE UNCHANGED shaftVars
  BY <1>1, <1>9 DEF shaftVars, PassageInv, Digging, PassagesOpen, ShaftPiecesApart, ShaftInRock, Lowest, Highest
<1> QED
  BY <1>2, <1>3, <1>4, <1>5, <1>6, <1>7, <1>8, <1>9 DEF ShaftNext

(***************************************************************************)
(* Nobody digs into solid rock, for any lengths, places of doors and       *)
(* numbers of branches: every piece of a mineshaft is open to the piece it *)
(* was dug from, or to a doorway of the room, when it is dug and after the *)
(* network has been moved.                                                 *)
(***************************************************************************)
THEOREM MineshaftPassagesOpen == ShaftSpec => []PassagesOpen
<1>1. PassageInv => PassagesOpen
  BY DEF PassageInv
<1> QED
  BY <1>1, PassageInit, PassageStep, PTL DEF ShaftSpec

(***************************************************************************)
(* No two pieces of a mineshaft share a block, before and after the move   *)
(* (mineshaftFindCollision).                                               *)
(***************************************************************************)
THEOREM MineshaftPiecesStayApart == ShaftSpec => []ShaftPiecesApart
<1>1. PassageInv => ShaftPiecesApart
  BY DEF PassageInv
<1> QED
  BY <1>1, PassageInit, PassageStep, PTL DEF ShaftSpec

(***************************************************************************)
(* However tall the network, wherever the bottom and the sea, and whatever *)
(* was drawn: a normal mineshaft is moved clear of the bottom of the world *)
(* and below the sea, or, if it does not fit, to the bottom                *)
(* (moveBelowSeaLevel in generateMineshaftStart).                          *)
(***************************************************************************)
THEOREM NormalMineshaftInRock == ShaftSpec => []ShaftInRock
<1>1. PassageInv => ShaftInRock
  BY DEF PassageInv
<1> QED
  BY <1>1, PassageInit, PassageStep, PTL DEF ShaftSpec

-----------------------------------------------------------------------------
(***************************************************************************)
(* Nothing wooden floats. A chunk's columns are bare until its plan comes  *)
(* to the first part that builds, so what that part finds is what the rock *)
(* was; from then on every column is held, whatever is set in it; the      *)
(* posts of a support stand or lack together, and a column of a pillar     *)
(* finds them together.                                                    *)
(***************************************************************************)
Own(x, chunk) == (x < border) = (chunk = 1)
Bare(x) == \A y \in Levels : rock[x][y] \notin Timber \cup {"rail"}
Held(x) ==
  \A y \in Levels :
    /\ rock[x][y] = "log" => y < -1 /\ (y > Low => rock[x][y - 1] \in Sturdy)
    /\ rock[x][y] = "chain" => y > 0 /\ (y < High => rock[x][y + 1] \in HangsFrom \cup {"chain"})
    /\ rock[x][y] = "rail" => y = 0 /\ rock[x][-1] # "air"
    /\ rock[x][y] = "planks" /\ y > 0 /\ y < High => rock[x][y + 1] # "air"
PostOrNone(x) == rock[x][0] = "fence" <=> rock[x][1] = "fence"
Posted(x) == Post(x) => rock[x][2] = "planks" /\ rock[x][3] # "air"

\* How much of its plan a chunk has done, and how much leaves its columns bare.
Ahead(done) == [i \in 1 .. Len(Plan[slice.kind]) - done |-> Plan[slice.kind][i + done]]
BareSteps == [support |-> 3, beside |-> 5, crossing |-> 1]
AtStep(done) ==
  /\ work = Ahead(done)
  /\ done <= BareSteps[slice.kind] => \A x \in Shell(slice) : Mine(x) => Bare(x)
  /\ done < 7 /\ slice.kind = "support" => \A x \in {0, 2} : Mine(x) => PostOrNone(x)
TimberInv ==
  /\ slice \in Slices /\ border \in Int
  /\ DOMAIN rock = Shell(slice)
  /\ pending \subseteq {1, 2} /\ here \in {0, 1, 2} \ pending
  /\ IF here = 0 THEN work = <<>> ELSE \E done \in 0 .. Len(Plan[slice.kind]) : AtStep(done)
  /\ \A chunk \in pending : \A x \in Shell(slice) : Own(x, chunk) => Bare(x)
  /\ \A x \in Shell(slice) : Held(x)
  /\ slice.kind = "support" => (Post(0) <=> Post(2)) /\ Posted(0) /\ Posted(2)

LEMMA SlicesKinds ==
  ASSUME NEW s \in Slices
  PROVE  /\ s.kind \in {"support", "beside", "crossing"} /\ s.roof \in {2, 6}
         /\ s.kind # "crossing" => s.roof = 2
         /\ {0, 1, 2} \subseteq Row(s) /\ {0, 1, 2} \subseteq Shell(s)
         /\ Row(s) \subseteq Shell(s)
         /\ s.kind = "crossing" => {1, 3} \subseteq Shell(s)
<1>1. /\ s.kind \in {"support", "beside", "crossing"} /\ s.roof \in {2, 6}
      /\ s.kind # "crossing" => s.roof = 2
  BY DEF Slices
<1>2. Width(s) \in {3, 5} /\ (s.kind = "crossing" => Width(s) = 5)
  BY DEF Width
<1> QED BY <1>1, <1>2 DEF Row, Shell

LEMMA LevelsOfPlay ==
  /\ {-2, -1, 0, 1, 2, 3, 7} \subseteq Levels
  /\ Levels \subseteq Int
  /\ Low \in Int /\ High \in Int
BY TimberAssumption DEF Levels

\* What each part of the plan is for.
LEMMA PlanParts ==
  ASSUME NEW kind \in {"support", "beside", "crossing"}, NEW j \in 1 .. Len(Plan[kind]),
         NEW what, what = Plan[kind][j]
  PROVE  /\ what \in {"dig", "roof", "webs", "torch", "cobwebs"} => j <= BareSteps[kind]
         /\ what = "support" => kind = "support" /\ j = 4
         /\ what = "chest" => kind = "beside" /\ j = 6
         /\ what = "pillars" => kind = "crossing" /\ j = 2
         /\ what = "columns" => kind = "support" /\ j = 7
         /\ what \in {"spawner", "floor", "rails"} => j > BareSteps[kind] + 1 \/ (kind = "crossing" /\ j = 3)
         /\ what \in {"roof", "webs", "torch", "cobwebs", "spawner", "rails"} => kind # "crossing"
<1>1. CASE kind = "support"
  <2>1. j \in 1 .. 8 BY <1>1 DEF Plan
  <2> QED BY <1>1, <2>1 DEF Plan, BareSteps
<1>2. CASE kind = "beside"
  <2>1. j \in 1 .. 9 BY <1>2 DEF Plan
  <2> QED BY <1>2, <2>1 DEF Plan, BareSteps
<1>3. CASE kind = "crossing"
  <2>1. j \in 1 .. 3 BY <1>3 DEF Plan
  <2> QED BY <1>3, <2>1 DEF Plan, BareSteps
<1> QED BY <1>1, <1>2, <1>3

LEMMA PlanLengths ==
  ASSUME NEW kind \in {"support", "beside", "crossing"}
  PROVE  Len(Plan[kind]) \in Nat \ {0}
BY DEF Plan

LEMMA TailOf ==
  ASSUME NEW S, NEW s \in Seq(S), s # <<>>
  PROVE  /\ Head(s) = s[1]
         /\ Tail(s) = [i \in 1 .. Len(s) - 1 |-> s[i + 1]]
<1>1. Tail(s) \in Seq(S) /\ Len(Tail(s)) = Len(s) - 1 /\ \A i \in 1 .. Len(Tail(s)) : Tail(s)[i] = s[i + 1]
  BY HeadTailProperties
<1>2. \A t \in Seq(S) : t = [i \in 1 .. Len(t) |-> t[i]]
  OBVIOUS
<1>3. Tail(s) = [i \in 1 .. Len(Tail(s)) |-> Tail(s)[i]]
  BY <1>1, <1>2
<1>4. Tail(s) = [i \in 1 .. Len(s) - 1 |-> Tail(s)[i]]
  BY <1>1, <1>3
<1>5. [i \in 1 .. Len(s) - 1 |-> Tail(s)[i]] = [i \in 1 .. Len(s) - 1 |-> s[i + 1]]
  BY <1>1
<1>6. Head(s) = s[1]
  BY HeadTailProperties
<1> QED BY <1>4, <1>5, <1>6

LEMMA RestTaken ==
  ASSUME NEW p, NEW done \in Nat, NEW m \in Nat, m # 0, NEW f, f = [i \in 1 .. m |-> p[i + done]]
  PROVE  Head(f) = p[1 + done] /\ Tail(f) = [i \in 1 .. m - 1 |-> p[i + 1 + done]]
<1>1. PICK S : S = {p[i + done] : i \in 1 .. m}
  OBVIOUS
<1>2. f \in [1 .. m -> S]
  BY <1>1
<1>3. f \in Seq(S) /\ Len(f) = m
  BY <1>2, FunctionAsSeq
<1>4. f # <<>>
  BY <1>3
<1>5. Head(f) = f[1] /\ Tail(f) = [i \in 1 .. m - 1 |-> f[i + 1]]
  BY <1>3, <1>4, TailOf
<1> QED BY <1>5

LEMMA PlanTaken ==
  ASSUME slice \in Slices, NEW done \in 0 .. Len(Plan[slice.kind]), work = Ahead(done), work # <<>>
  PROVE  /\ done + 1 \in 1 .. Len(Plan[slice.kind])
         /\ Head(work) = Plan[slice.kind][done + 1]
         /\ Tail(work) = Ahead(done + 1)
<1> DEFINE n == Len(Plan[slice.kind])
<1>1. n \in Nat
  BY SlicesKinds, PlanLengths
<1>2. done # n
  <2>1. SUFFICES ASSUME done = n PROVE FALSE
    OBVIOUS
  <2>2. 1 .. n - done = {}
    BY <1>1, <2>1
  <2> QED BY <2>2, <2>1, <1>1 DEF Ahead
<1>3. done < n
  BY <1>1, <1>2
<1>0. done \in Nat
  BY <1>1
<1>4. \A m \in Nat : \A f : f = [i \in 1 .. m |-> Plan[slice.kind][i + done]] /\ m # 0 =>
        /\ Head(f) = Plan[slice.kind][1 + done]
        /\ Tail(f) = [i \in 1 .. m - 1 |-> Plan[slice.kind][i + 1 + done]]
  BY <1>0, RestTaken
<1>5. n - done \in Nat /\ n - done # 0
  BY <1>1, <1>3
<1>6. work = [i \in 1 .. n - done |-> Plan[slice.kind][i + done]]
  BY DEF Ahead
<1>7. /\ Head(work) = Plan[slice.kind][1 + done]
      /\ Tail(work) = [i \in 1 .. n - done - 1 |-> Plan[slice.kind][i + 1 + done]]
  BY <1>4, <1>5, <1>6
<1>8. /\ n - done - 1 = n - (done + 1)
      /\ \A i \in 1 .. n - done - 1 : i + 1 + done = i + (done + 1)
      /\ 1 + done = done + 1 /\ done + 1 \in 1 .. n
  BY <1>1, <1>3
<1>9. Tail(work) = Ahead(done + 1)
  BY <1>7, <1>8 DEF Ahead
<1> QED BY <1>7, <1>8, <1>9

LEMMA BareHeld ==
  ASSUME NEW x, Bare(x)
  PROVE  Held(x) /\ PostOrNone(x) /\ ~ Post(x)
BY LevelsOfPlay DEF Bare, Held, PostOrNone, Post, Timber

\* A column that is not touched stays what it was.
LEMMA Untouched ==
  ASSUME NEW x, \A y \in Levels : rock'[x][y] = rock[x][y]
  PROVE  /\ Bare(x) => Bare(x)'
         /\ Held(x) => Held(x)'
         /\ Post(x)' <=> Post(x)
         /\ Posted(x)' <=> Posted(x)
         /\ PostOrNone(x)' <=> PostOrNone(x)
<1>1. Bare(x) => Bare(x)'
  BY DEF Bare
<1>2. Held(x) => Held(x)'
  <2> SUFFICES ASSUME Held(x), NEW y \in Levels
               PROVE  /\ rock'[x][y] = "log" => y < -1 /\ (y > Low => rock'[x][y - 1] \in Sturdy)
                      /\ rock'[x][y] = "chain" =>
                           y > 0 /\ (y < High => rock'[x][y + 1] \in HangsFrom \cup {"chain"})
                      /\ rock'[x][y] = "rail" => y = 0 /\ rock'[x][-1] # "air"
                      /\ rock'[x][y] = "planks" /\ y > 0 /\ y < High => rock'[x][y + 1] # "air"
    BY DEF Held
  <2>1. y > Low => y - 1 \in Levels
    BY LevelsOfPlay DEF Levels
  <2>2. y < High => y + 1 \in Levels
    BY LevelsOfPlay DEF Levels
  <2> QED BY <2>1, <2>2, LevelsOfPlay DEF Held
<1>3. (Post(x)' <=> Post(x)) /\ (Posted(x)' <=> Posted(x)) /\ (PostOrNone(x)' <=> PostOrNone(x))
  BY LevelsOfPlay DEF Post, Posted, PostOrNone
<1> QED BY <1>1, <1>2, <1>3

LEMMA Theirs ==
  ASSUME TimberInv, here # 0, NEW chunk \in pending, NEW x, Own(x, chunk)
  PROVE  ~ Mine(x)
BY DEF TimberInv, Own, Mine

\* A part of the plan keeps the invariant if what it leaves of its own columns
\* is held.
LEMMA PartDone ==
  ASSUME TimberInv, here # 0, work # <<>>, work' = Tail(work),
         UNCHANGED <<slice, border, pending, here>>,
         NEW done \in 0 .. Len(Plan[slice.kind]), AtStep(done),
         DOMAIN rock' = DOMAIN rock,
         \A x \in Shell(slice) : ~ Mine(x) => \A y \in Levels : rock'[x][y] = rock[x][y],
         \A x \in Shell(slice) : Mine(x) => Held(x)',
         done + 1 <= BareSteps[slice.kind] => \A x \in Shell(slice) : Mine(x) => Bare(x)',
         slice.kind = "support" /\ done + 1 < 7 => \A x \in {0, 2} : Mine(x) => PostOrNone(x)',
         slice.kind = "support" => (Post(0)' <=> Post(2)') /\ Posted(0)' /\ Posted(2)'
  PROVE  TimberInv'
<1>1. done + 1 \in 0 .. Len(Plan[slice.kind]) /\ work' = Ahead(done + 1)
  BY PlanTaken, SlicesKinds, PlanLengths DEF TimberInv, AtStep
<1>2. \A x : Mine(x)' <=> Mine(x)
  BY DEF Mine
<1>3. AtStep(done + 1)'
  BY <1>1, <1>2 DEF AtStep, Ahead
<1>4. \A chunk \in pending : \A x \in Shell(slice) : Own(x, chunk)' => Bare(x)'
  BY Theirs, Untouched DEF TimberInv, Own
<1>5. \A x \in Shell(slice) : Held(x)'
  BY Untouched DEF TimberInv
<1>6. slice' \in Slices /\ border' \in Int /\ DOMAIN rock' = Shell(slice')
  BY DEF TimberInv
<1>7. pending' \subseteq {1, 2} /\ here' \in {0, 1, 2} \ pending'
  BY DEF TimberInv
<1>8. \E d \in 0 .. Len(Plan[slice'.kind]) : AtStep(d)'
  BY <1>1, <1>3
<1>9. slice'.kind = "support" => (Post(0)' <=> Post(2)') /\ Posted(0)' /\ Posted(2)'
  OBVIOUS
<1> QED BY <1>4, <1>5, <1>6, <1>7, <1>8, <1>9 DEF TimberInv

\* Digging, and what is hung before anything is built, leaves no wood.
LEMMA DugBare ==
  ASSUME TimberInv, here # 0, work # <<>>, work' = Tail(work),
         UNCHANGED <<slice, border, pending, here>>,
         NEW done \in 0 .. Len(Plan[slice.kind]), AtStep(done),
         done + 1 <= BareSteps[slice.kind],
         DOMAIN rock' = DOMAIN rock,
         \A x \in Shell(slice) : \A y \in Levels :
           \/ rock'[x][y] = rock[x][y]
           \/ Mine(x) /\ rock'[x][y] \notin Timber \cup {"rail"}
  PROVE  TimberInv'
<1>0. BareSteps[slice.kind] \in Nat
  BY SlicesKinds DEF TimberInv, BareSteps
<1>1. \A x \in Shell(slice) : ~ Mine(x) => \A y \in Levels : rock'[x][y] = rock[x][y]
  OBVIOUS
<1>2. \A x \in Shell(slice) : Mine(x) => Bare(x)
  BY <1>0 DEF AtStep
<1>3. \A x \in Shell(slice) : Mine(x) => Bare(x)'
  BY <1>2 DEF Bare
<1>4. \A x : Bare(x)' => Held(x)' /\ PostOrNone(x)' /\ ~ Post(x)'
  BY LevelsOfPlay DEF Bare, Held, PostOrNone, Post, Timber
<1>5. {0, 2} \subseteq Shell(slice)
  BY SlicesKinds DEF TimberInv
<1>6. slice.kind = "support" => (Post(0)' <=> Post(2)') /\ Posted(0)' /\ Posted(2)'
  <2> SUFFICES ASSUME slice.kind = "support"
               PROVE  (Post(0)' <=> Post(2)') /\ Posted(0)' /\ Posted(2)'
    OBVIOUS
  <2>1. \A x \in {0, 2} : (Post(x)' <=> Post(x)) /\ (Posted(x) => Posted(x)')
    <3> SUFFICES ASSUME NEW x \in {0, 2}
                 PROVE  (Post(x)' <=> Post(x)) /\ (Posted(x) => Posted(x)')
      OBVIOUS
    <3>1. CASE Mine(x)
      <4>1. ~ Post(x) /\ ~ Post(x)'
        BY <1>2, <1>3, <1>4, <1>5, <3>1, BareHeld
      <4> QED BY <4>1 DEF Posted
    <3>2. CASE ~ Mine(x)
      BY <1>1, <1>5, <3>2, Untouched
    <3> QED BY <3>1, <3>2
  <2> QED BY <2>1 DEF TimberInv
<1> QED BY <1>1, <1>3, <1>4, <1>5, <1>6, PartDone


LEMMA Placed ==
  ASSUME TimberInv, NEW cells, NEW b, Place(cells, b)
  PROVE  /\ DOMAIN rock' = DOMAIN rock
         /\ \A x \in Shell(slice) : \A y \in Levels :
              \/ rock'[x][y] = rock[x][y]
              \/ Mine(x) /\ <<x, y>> \in cells /\ rock[x][y] \notin Timber /\ rock'[x][y] = b
BY DEF Place, SetAll, TimberInv

LEMMA AllSet ==
  ASSUME TimberInv, NEW cells, NEW b, SetAll(cells, b)
  PROVE  /\ DOMAIN rock' = DOMAIN rock
         /\ \A x \in Shell(slice) : \A y \in Levels :
              \/ rock'[x][y] = rock[x][y]
              \/ Mine(x) /\ <<x, y>> \in cells /\ rock'[x][y] = b
BY DEF SetAll, TimberInv

\* Which part of its plan a chunk is at.
LEMMA Turn ==
  ASSUME TimberInv, NEW what, Does(what)
  PROVE  /\ here # 0 /\ work # <<>> /\ work' = Tail(work) /\ UNCHANGED <<slice, border, pending, here>>
         /\ slice.kind \in {"support", "beside", "crossing"}
         /\ BareSteps[slice.kind] \in Nat
         /\ \E done \in 0 .. Len(Plan[slice.kind]) :
              /\ AtStep(done)
              /\ done + 1 \in 1 .. Len(Plan[slice.kind])
              /\ what = Plan[slice.kind][done + 1]
<1>1. PICK done \in 0 .. Len(Plan[slice.kind]) : AtStep(done)
  BY DEF TimberInv, Does
<1>2. done + 1 \in 1 .. Len(Plan[slice.kind]) /\ Head(work) = Plan[slice.kind][done + 1]
  BY <1>1, PlanTaken DEF TimberInv, Does, AtStep
<1>3. slice.kind \in {"support", "beside", "crossing"}
  BY SlicesKinds DEF TimberInv
<1> QED BY <1>1, <1>2, <1>3 DEF Does, BareSteps

LEMMA Bores ==
  ASSUME TimberInv, NEW what \in {"dig", "roof", "webs", "torch", "cobwebs"}, Does(what),
         UNCHANGED rock \/ \E cells, b : b \in {"air", "web", "torch"} /\ Place(cells, b)
  PROVE  TimberInv'
<1>1. PICK done \in 0 .. Len(Plan[slice.kind]) :
        /\ AtStep(done)
        /\ done + 1 \in 1 .. Len(Plan[slice.kind])
        /\ what = Plan[slice.kind][done + 1]
  BY Turn
<1>2. done + 1 <= BareSteps[slice.kind]
  BY <1>1, PlanParts, Turn
<1>3. /\ DOMAIN rock' = DOMAIN rock
      /\ \A x \in Shell(slice) : \A y \in Levels :
           \/ rock'[x][y] = rock[x][y]
           \/ Mine(x) /\ rock'[x][y] \notin Timber \cup {"rail"}
  <2>1. CASE UNCHANGED rock
    BY <2>1
  <2>2. ASSUME NEW cells, NEW b \in {"air", "web", "torch"}, Place(cells, b)
        PROVE  /\ DOMAIN rock' = DOMAIN rock
               /\ \A x \in Shell(slice) : \A y \in Levels :
                    \/ rock'[x][y] = rock[x][y]
                    \/ Mine(x) /\ rock'[x][y] \notin Timber \cup {"rail"}
    <3>1. b \notin Timber \cup {"rail"}
      BY DEF Timber
    <3>2. /\ DOMAIN rock' = DOMAIN rock
          /\ \A x \in Shell(slice) : \A y \in Levels :
               rock'[x][y] = rock[x][y] \/ (Mine(x) /\ rock'[x][y] = b)
      <4>1. Place(cells, b)
        BY <2>2
      <4>2. DOMAIN rock' = DOMAIN rock
        BY <4>1, Placed
      <4>3. \A x \in Shell(slice) : \A y \in Levels :
              \/ rock'[x][y] = rock[x][y]
              \/ Mine(x) /\ <<x, y>> \in cells /\ rock[x][y] \notin Timber /\ rock'[x][y] = b
        BY <4>1, Placed
      <4> QED BY <4>2, <4>3
    <3> QED BY <3>1, <3>2
  <2> QED BY <2>1, <2>2
<1> QED BY <1>1, <1>2, <1>3, Turn, DugBare

LEMMA DigSliceStep ==
  ASSUME TimberInv, DigSlice
  PROVE  TimberInv'
BY Bores DEF DigSlice

LEMMA DigRoofStep ==
  ASSUME TimberInv, DigRoof
  PROVE  TimberInv'
BY Bores DEF DigRoof

LEMMA SpinWebsStep ==
  ASSUME TimberInv, SpinWebs
  PROVE  TimberInv'
<1>1. CASE slice.spiders
  <2>1. PICK drawn \in SUBSET Slab(0 .. 2, 0 .. 1) : Place({c \in drawn : Interior(c[1], c[2])}, "web")
    BY <1>1 DEF SpinWebs
  <2> QED BY <2>1, Bores DEF SpinWebs
<1>2. CASE ~ slice.spiders
  BY <1>2, Bores DEF SpinWebs
<1> QED BY <1>1, <1>2

LEMMA HangTorchStep ==
  ASSUME TimberInv, HangTorch
  PROVE  TimberInv'
BY Bores DEF HangTorch

LEMMA HangCobwebsStep ==
  ASSUME TimberInv, HangCobwebs
  PROVE  TimberInv'
<1>1. PICK xs \in SUBSET {0, 2} : \E more \in [xs -> 0 .. 2] :
        Place({<<x, 2>> : x \in {v \in xs : Interior(v, 2) /\ SturdyBeside(v, 2) + more[v] >= 2}}, "web")
  BY DEF HangCobwebs
<1> QED BY <1>1, Bores DEF HangCobwebs


\* What the later parts set in a column that is held leaves it held: a spawner
\* at the bottom, planks under it, a rail on what lies there.
LEMMA SetInHeld ==
  ASSUME NEW x, Held(x), NEW at \in {-1, 0}, NEW b \in {"spawner", "planks", "rail"},
         at = -1 => b = "planks", at = 0 => b # "planks",
         b = "rail" => rock[x][-1] # "air",
         rock'[x][at] = b, \A y \in Levels : y # at => rock'[x][y] = rock[x][y]
  PROVE  Held(x)'
<1> SUFFICES ASSUME NEW y \in Levels
             PROVE  /\ rock'[x][y] = "log" => y < -1 /\ (y > Low => rock'[x][y - 1] \in Sturdy)
                    /\ rock'[x][y] = "chain" =>
                         y > 0 /\ (y < High => rock'[x][y + 1] \in HangsFrom \cup {"chain"})
                    /\ rock'[x][y] = "rail" => y = 0 /\ rock'[x][-1] # "air"
                    /\ rock'[x][y] = "planks" /\ y > 0 /\ y < High => rock'[x][y + 1] # "air"
  BY DEF Held
<1>1. (y > Low => y - 1 \in Levels) /\ (y < High => y + 1 \in Levels)
  BY LevelsOfPlay DEF Levels
<1>2. rock'[x][y] = "log" => y < -1 /\ (y > Low => rock'[x][y - 1] \in Sturdy)
  BY <1>1, LevelsOfPlay DEF Held
<1>3. rock'[x][y] = "chain" => y > 0 /\ (y < High => rock'[x][y + 1] \in HangsFrom \cup {"chain"})
  BY <1>1, LevelsOfPlay DEF Held
<1>4. rock'[x][y] = "rail" => y = 0 /\ rock'[x][-1] # "air"
  BY <1>1, LevelsOfPlay DEF Held
<1>5. rock'[x][y] = "planks" /\ y > 0 /\ y < High => rock'[x][y + 1] # "air"
  BY <1>1, LevelsOfPlay DEF Held
<1> QED BY <1>2, <1>3, <1>4, <1>5

\* The posts of a column, where a part sets something that is no fence away from
\* them.
LEMMA SetBelowPosts ==
  ASSUME NEW x, \A y \in Levels : y >= 0 => rock'[x][y] = rock[x][y]
  PROVE  /\ Post(x)' <=> Post(x)
         /\ Posted(x)' <=> Posted(x)
         /\ PostOrNone(x)' <=> PostOrNone(x)
BY LevelsOfPlay DEF Post, Posted, PostOrNone

\* A part that sets one block in a column, not before the last bare part.
LEMMA OneSet ==
  ASSUME TimberInv, NEW what, Does(what), NEW at \in {-1, 0}, NEW b \in {"spawner", "planks", "rail"},
         NEW done \in 0 .. Len(Plan[slice.kind]), AtStep(done), done + 1 > BareSteps[slice.kind],
         at = -1 => b = "planks", at = 0 => b # "planks",
         DOMAIN rock' = DOMAIN rock,
         \A x \in Shell(slice) : ~ Mine(x) => \A y \in Levels : rock'[x][y] = rock[x][y],
         \A x \in Shell(slice) : \A y \in Levels : y # at => rock'[x][y] = rock[x][y],
         \A x \in Shell(slice) :
           rock'[x][at] # rock[x][at] => rock'[x][at] = b /\ (b = "rail" => rock[x][-1] # "air"),
         slice.kind = "support" /\ at = 0 => \A x \in {0, 2} : rock'[x][0] = rock[x][0]
  PROVE  TimberInv'
<1>1. \A x \in Shell(slice) : Held(x)'
  <2> SUFFICES ASSUME NEW x \in Shell(slice) PROVE Held(x)'
    OBVIOUS
  <2>1. Held(x)
    BY DEF TimberInv
  <2>2. CASE rock'[x][at] = rock[x][at]
    <3>1. \A y \in Levels : rock'[x][y] = rock[x][y]
      BY <2>2
    <3> QED BY <2>1, <3>1, Untouched
  <2>3. CASE rock'[x][at] # rock[x][at]
    <3>1. rock'[x][at] = b /\ (b = "rail" => rock[x][-1] # "air")
      BY <2>3
    <3>2. \A y \in Levels : y # at => rock'[x][y] = rock[x][y]
      OBVIOUS
    <3> QED BY <2>1, <3>1, <3>2, SetInHeld
  <2> QED BY <2>2, <2>3
<1>2. BareSteps[slice.kind] \in Nat
  BY Turn
<1>3. slice.kind = "support" =>
        \A x \in {0, 2} : /\ Post(x)' <=> Post(x)
                          /\ Posted(x)' <=> Posted(x)
                          /\ PostOrNone(x)' <=> PostOrNone(x)
  <2> SUFFICES ASSUME slice.kind = "support", NEW x \in {0, 2}
               PROVE  \A y \in Levels : y >= 0 => rock'[x][y] = rock[x][y]
    BY SetBelowPosts
  <2>1. x \in Shell(slice)
    BY SlicesKinds DEF TimberInv
  <2> QED BY <2>1
<1>4. slice.kind = "support" => (Post(0)' <=> Post(2)') /\ Posted(0)' /\ Posted(2)'
  BY <1>3 DEF TimberInv
<1>5. slice.kind = "support" /\ done + 1 < 7 => \A x \in {0, 2} : Mine(x) => PostOrNone(x)'
  BY <1>3 DEF AtStep
<1>6. ~ (done + 1 <= BareSteps[slice.kind])
  BY <1>2
<1>7. here # 0 /\ work # <<>> /\ work' = Tail(work) /\ UNCHANGED <<slice, border, pending, here>>
  BY DEF Does
<1> QED BY <1>1, <1>4, <1>5, <1>6, <1>7, PartDone

LEMMA PutChestStep ==
  ASSUME TimberInv, PutChest
  PROVE  TimberInv'
<1>1. PICK done \in 0 .. Len(Plan[slice.kind]) :
        /\ AtStep(done)
        /\ done + 1 \in 1 .. Len(Plan[slice.kind])
        /\ "chest" = Plan[slice.kind][done + 1]
  BY Turn DEF PutChest
<1>2. slice.kind = "beside" /\ done + 1 = 6
  BY <1>1, PlanParts, Turn DEF PutChest
<1>3. done + 1 > BareSteps[slice.kind]
  BY <1>2 DEF BareSteps
<1>4. PICK xs \in {{}, {0}, {2}} :
        Place({<<x, 0>> : x \in {v \in xs : Seen(v, 0) = "air" /\ Mine(v) /\ rock[v][-1] # "air"}}, "rail")
  BY DEF PutChest
<1>5. PICK cells : /\ Place(cells, "rail")
                   /\ \A x, y : <<x, y>> \in cells => y = 0 /\ rock[x][-1] # "air"
  <2>1. \A x, y :
          <<x, y>> \in {<<v, 0>> : v \in {w \in xs : Seen(w, 0) = "air" /\ Mine(w) /\ rock[w][-1] # "air"}}
            => y = 0 /\ rock[x][-1] # "air"
    OBVIOUS
  <2> QED BY <1>4, <2>1
<1>6. \A x, y : <<x, y>> \in cells => y = 0 /\ rock[x][-1] # "air"
  BY <1>5
<1>7. /\ DOMAIN rock' = DOMAIN rock
      /\ \A x \in Shell(slice) : \A y \in Levels :
           \/ rock'[x][y] = rock[x][y]
           \/ Mine(x) /\ <<x, y>> \in cells /\ rock[x][y] \notin Timber /\ rock'[x][y] = "rail"
  BY <1>5, Placed
<1>8. \A x \in Shell(slice) : \A y \in Levels : ~ Mine(x) \/ y # 0 => rock'[x][y] = rock[x][y]
  <2> SUFFICES ASSUME NEW x \in Shell(slice), NEW y \in Levels, ~ Mine(x) \/ y # 0
               PROVE  rock'[x][y] = rock[x][y]
    OBVIOUS
  <2>1. Mine(x) => <<x, y>> \notin cells
    BY <1>6
  <2>2. \/ rock'[x][y] = rock[x][y]
        \/ Mine(x) /\ <<x, y>> \in cells
    BY <1>7
  <2> QED BY <2>1, <2>2
<1>9. 0 \in Levels
  BY LevelsOfPlay
<1>10. \A x \in Shell(slice) : rock'[x][0] # rock[x][0] => rock'[x][0] = "rail" /\ rock[x][-1] # "air"
  BY <1>6, <1>7, <1>9
<1>11. Does("chest")
  BY DEF PutChest
<1> QED BY <1>1, <1>2, <1>3, <1>7, <1>8, <1>10, <1>11, OneSet

LEMMA PutSpawnerStep ==
  ASSUME TimberInv, PutSpawner
  PROVE  TimberInv'
<1>1. PICK done \in 0 .. Len(Plan[slice.kind]) :
        /\ AtStep(done)
        /\ done + 1 \in 1 .. Len(Plan[slice.kind])
        /\ "spawner" = Plan[slice.kind][done + 1]
  BY Turn DEF PutSpawner
<1>2. done + 1 > BareSteps[slice.kind]
  <2>1. Does("spawner")
    BY DEF PutSpawner
  <2>2. slice.kind \in {"support", "beside", "crossing"} /\ BareSteps[slice.kind] \in Nat
    BY <2>1, Turn
  <2>3. /\ done + 1 > BareSteps[slice.kind] + 1 \/ (slice.kind = "crossing" /\ done + 1 = 3)
        /\ slice.kind # "crossing"
    BY <1>1, <2>2, PlanParts
  <2> QED BY <2>2, <2>3
<1>3. PICK cells : cells \subseteq {<<1, 0>>} /\ SetAll(cells, "spawner")
  BY DEF PutSpawner
<1>4. /\ DOMAIN rock' = DOMAIN rock
      /\ \A x \in Shell(slice) : \A y \in Levels :
           \/ rock'[x][y] = rock[x][y]
           \/ Mine(x) /\ <<x, y>> \in cells /\ rock'[x][y] = "spawner"
  BY <1>3, AllSet
<1>5. \A x \in Shell(slice) : \A y \in Levels : ~ Mine(x) \/ y # 0 \/ x # 1 => rock'[x][y] = rock[x][y]
  BY <1>3, <1>4
<1>6. 0 \in Levels /\ {0, 2} \subseteq Shell(slice)
  BY LevelsOfPlay, SlicesKinds DEF TimberInv
<1>7. \A x \in Shell(slice) : rock'[x][0] # rock[x][0] => rock'[x][0] = "spawner"
  BY <1>4, <1>6
<1>8. \A x \in {0, 2} : rock'[x][0] = rock[x][0]
  BY <1>5, <1>6
<1>9. Does("spawner")
  BY DEF PutSpawner
<1> QED BY <1>1, <1>2, <1>4, <1>5, <1>7, <1>8, <1>9, OneSet

LEMMA LayFloorStep ==
  ASSUME TimberInv, LayFloor
  PROVE  TimberInv'
<1>1. PICK done \in 0 .. Len(Plan[slice.kind]) :
        /\ AtStep(done)
        /\ done + 1 \in 1 .. Len(Plan[slice.kind])
        /\ "floor" = Plan[slice.kind][done + 1]
  BY Turn DEF LayFloor
<1>2. done + 1 > BareSteps[slice.kind]
  <2>1. done + 1 > BareSteps[slice.kind] + 1 \/ (slice.kind = "crossing" /\ done + 1 = 3)
    BY <1>1, PlanParts, Turn DEF LayFloor
  <2> QED BY <2>1, <1>1, Turn DEF LayFloor, BareSteps
<1>3. PICK cells : SetAll(cells, "planks") /\ \A x, y : <<x, y>> \in cells => y = -1
  <2>1. \A x, y :
          <<x, y>> \in {<<v, -1>> : v \in {w \in Row(slice) : Interior(w, -1) /\ rock[w][-1] \notin Sturdy}}
            => y = -1
    OBVIOUS
  <2> QED BY <2>1 DEF LayFloor
<1>4. \A x, y : <<x, y>> \in cells => y = -1
  BY <1>3
<1>5. /\ DOMAIN rock' = DOMAIN rock
      /\ \A x \in Shell(slice) : \A y \in Levels :
           \/ rock'[x][y] = rock[x][y]
           \/ Mine(x) /\ <<x, y>> \in cells /\ rock'[x][y] = "planks"
  BY <1>3, AllSet
<1>6. \A x \in Shell(slice) : \A y \in Levels : ~ Mine(x) \/ y # -1 => rock'[x][y] = rock[x][y]
  BY <1>4, <1>5
<1>7. \A x \in Shell(slice) : rock'[x][-1] # rock[x][-1] => rock'[x][-1] = "planks"
  BY <1>5, LevelsOfPlay
<1>8. Does("floor")
  BY DEF LayFloor
<1> QED BY <1>1, <1>2, <1>5, <1>6, <1>7, <1>8, OneSet

LEMMA LayRailsStep ==
  ASSUME TimberInv, LayRails
  PROVE  TimberInv'
<1>1. PICK done \in 0 .. Len(Plan[slice.kind]) :
        /\ AtStep(done)
        /\ done + 1 \in 1 .. Len(Plan[slice.kind])
        /\ "rails" = Plan[slice.kind][done + 1]
  BY Turn DEF LayRails
<1>2. done + 1 > BareSteps[slice.kind]
  <2>1. Does("rails")
    BY DEF LayRails
  <2>2. slice.kind \in {"support", "beside", "crossing"} /\ BareSteps[slice.kind] \in Nat
    BY <2>1, Turn
  <2>3. /\ done + 1 > BareSteps[slice.kind] + 1 \/ (slice.kind = "crossing" /\ done + 1 = 3)
        /\ slice.kind # "crossing"
    BY <1>1, <2>2, PlanParts
  <2> QED BY <2>2, <2>3
<1>3. PICK cells : /\ cells \subseteq {<<1, 0>>} /\ Place(cells, "rail")
                   /\ cells # {} => Seen(1, -1) \in SolidRender
  BY DEF LayRails
<1>4. /\ DOMAIN rock' = DOMAIN rock
      /\ \A x \in Shell(slice) : \A y \in Levels :
           \/ rock'[x][y] = rock[x][y]
           \/ Mine(x) /\ <<x, y>> \in cells /\ rock[x][y] \notin Timber /\ rock'[x][y] = "rail"
  BY <1>3, Placed
<1>5. \A x \in Shell(slice) : \A y \in Levels : ~ Mine(x) \/ y # 0 \/ x # 1 => rock'[x][y] = rock[x][y]
  BY <1>3, <1>4
<1>6. 0 \in Levels /\ {0, 2} \subseteq Shell(slice)
  BY LevelsOfPlay, SlicesKinds DEF TimberInv
<1>7. \A x \in Shell(slice) : rock'[x][0] # rock[x][0] => rock'[x][0] = "rail" /\ rock[x][-1] # "air"
  <2> SUFFICES ASSUME NEW x \in Shell(slice), rock'[x][0] # rock[x][0]
               PROVE  rock'[x][0] = "rail" /\ rock[x][-1] # "air"
    OBVIOUS
  <2>1. Mine(x) /\ x = 1 /\ cells # {} /\ rock'[x][0] = "rail"
    BY <1>3, <1>4, <1>6
  <2>2. Seen(1, -1) = rock[x][-1]
    BY <2>1 DEF Seen
  <2> QED BY <1>3, <2>1, <2>2 DEF SolidRender, Sturdy
<1>8. \A x \in {0, 2} : rock'[x][0] = rock[x][0]
  BY <1>5, <1>6
<1>9. Does("rails")
  BY DEF LayRails
<1> QED BY <1>1, <1>2, <1>4, <1>5, <1>7, <1>8, <1>9, OneSet


\* What a column gets, by height.
LogAt(x, y) == \E d \in Stands(x) : (\A u \in Hangs(x) : d <= u) /\ y \in -d .. -2
HangsHere(x, u) == u \in Hangs(x) /\ \A d \in Stands(x) : u < d
ChainAt(x, y) == \E u \in Hangs(x) : HangsHere(x, u) /\ y \in 1 .. u - 2
FenceAt(x, y) == y = 0 /\ \E u \in Hangs(x) : HangsHere(x, u)

LEMMA ColumnByHeight ==
  ASSUME NEW x, NEW y \in Levels
  PROVE  /\ LogAt(x, y) => Column(x)[y] = "log" /\ y < -1
         /\ FenceAt(x, y) => Column(x)[y] = "fence"
         /\ ChainAt(x, y) => Column(x)[y] = "chain" /\ y > 0
         /\ ~ LogAt(x, y) /\ ~ FenceAt(x, y) /\ ~ ChainAt(x, y) => Column(x)[y] = rock[x][y]
<1>1. Column(x)[y] = IF LogAt(x, y) THEN "log" ELSE IF FenceAt(x, y) THEN "fence"
                     ELSE IF ChainAt(x, y) THEN "chain" ELSE rock[x][y]
  <2>1. Column(x)[y] = CASE LogAt(x, y) -> "log" [] FenceAt(x, y) -> "fence" [] ChainAt(x, y) -> "chain"
                         [] OTHER -> rock[x][y]
    BY DEF Column, LogAt, FenceAt, ChainAt, HangsHere
  <2>2. LogAt(x, y) => y < -1
    BY LevelsOfPlay DEF LogAt, Stands
  <2>3. (FenceAt(x, y) => y = 0) /\ (ChainAt(x, y) => y > 0)
    BY LevelsOfPlay DEF FenceAt, ChainAt, Hangs
  <2> QED BY <2>1, <2>2, <2>3, LevelsOfPlay
<1>2. (LogAt(x, y) => y < -1) /\ (FenceAt(x, y) => y = 0) /\ (ChainAt(x, y) => y > 0)
  BY LevelsOfPlay DEF LogAt, Stands, FenceAt, ChainAt, Hangs
<1> QED BY <1>1, <1>2, LevelsOfPlay

\* A log stands on a log or on the ground that was found, a chain hangs from a
\* chain or from the roof that was found.
LEMMA ColumnHeld ==
  ASSUME NEW x, Held(x), \A y \in Levels : rock'[x][y] = Column(x)[y]
  PROVE  Held(x)'
<1>0. \A y \in Levels : (y > Low => y - 1 \in Levels) /\ (y < High => y + 1 \in Levels)
  BY LevelsOfPlay DEF Levels
<1>1. ASSUME NEW y \in Levels, rock'[x][y] = "log"
      PROVE  y < -1 /\ (y > Low => rock'[x][y - 1] \in Sturdy)
  <2>1. y < -1
    BY <1>1, ColumnByHeight DEF Held
  <2>2. SUFFICES ASSUME y > Low PROVE rock'[x][y - 1] \in Sturdy
    BY <2>1
  <2>3. y - 1 \in Levels /\ y - 1 < -1 /\ y \in Int
    BY <1>0, <2>1, <2>2, LevelsOfPlay
  <2>4. rock'[x][y - 1] = "log" \/ (~ LogAt(x, y - 1) /\ rock'[x][y - 1] = rock[x][y - 1])
    <3>1. ~ FenceAt(x, y - 1) /\ ~ ChainAt(x, y - 1)
      BY <2>3, ColumnByHeight DEF FenceAt
    <3> QED BY <2>3, <3>1, ColumnByHeight
  <2>5. SUFFICES ASSUME ~ LogAt(x, y - 1), rock'[x][y - 1] = rock[x][y - 1]
                 PROVE  rock[x][y - 1] \in Sturdy
    BY <2>4 DEF Sturdy
  <2>6. CASE LogAt(x, y)
    <3>1. PICK d \in Stands(x) : (\A u \in Hangs(x) : d <= u) /\ y \in -d .. -2
      BY <2>6 DEF LogAt
    <3>2. d \in Int /\ rock[x][-1 - d] \in Sturdy
      BY LevelsOfPlay DEF Stands
    <3>3. y - 1 \notin -d .. -2
      BY <2>5, <3>1 DEF LogAt
    <3>4. y - 1 = -1 - d
      BY <2>1, <2>3, <3>1, <3>2, <3>3
    <3> QED BY <3>2, <3>4
  <2>7. CASE ~ LogAt(x, y)
    <3>1. ~ FenceAt(x, y) /\ ~ ChainAt(x, y)
      BY <2>1, ColumnByHeight, LevelsOfPlay DEF FenceAt
    <3>2. rock[x][y] = "log"
      BY <1>1, <2>7, <3>1, ColumnByHeight
    <3> QED BY <2>2, <3>2 DEF Held
  <2> QED BY <2>6, <2>7
<1>2. ASSUME NEW y \in Levels, rock'[x][y] = "chain"
      PROVE  y > 0 /\ (y < High => rock'[x][y + 1] \in HangsFrom \cup {"chain"})
  <2>1. y > 0
    BY <1>2, ColumnByHeight DEF Held
  <2>2. SUFFICES ASSUME y < High PROVE rock'[x][y + 1] \in HangsFrom \cup {"chain"}
    BY <2>1
  <2>3. y + 1 \in Levels /\ y + 1 > 0 /\ y \in Int
    BY <1>0, <2>1, <2>2, LevelsOfPlay
  <2>4. rock'[x][y + 1] = "chain" \/ (~ ChainAt(x, y + 1) /\ rock'[x][y + 1] = rock[x][y + 1])
    <3>1. ~ FenceAt(x, y + 1) /\ ~ LogAt(x, y + 1)
      BY <2>3, ColumnByHeight DEF FenceAt
    <3> QED BY <2>3, <3>1, ColumnByHeight
  <2>5. SUFFICES ASSUME ~ ChainAt(x, y + 1), rock'[x][y + 1] = rock[x][y + 1]
                 PROVE  rock[x][y + 1] \in HangsFrom \cup {"chain"}
    BY <2>4
  <2>6. CASE ChainAt(x, y)
    <3>1. PICK u \in Hangs(x) : HangsHere(x, u) /\ y \in 1 .. u - 2
      BY <2>6 DEF ChainAt
    <3>2. u \in Int /\ rock[x][u - 1] \in HangsFrom
      BY LevelsOfPlay DEF Hangs
    <3>3. y + 1 \notin 1 .. u - 2
      BY <2>5, <3>1 DEF ChainAt
    <3>4. y + 1 = u - 1
      BY <2>1, <2>3, <3>1, <3>2, <3>3
    <3> QED BY <3>2, <3>4
  <2>7. CASE ~ ChainAt(x, y)
    <3>1. ~ FenceAt(x, y) /\ ~ LogAt(x, y)
      BY <2>1, <2>3, ColumnByHeight DEF FenceAt
    <3>2. rock[x][y] = "chain"
      BY <1>2, <2>7, <3>1, ColumnByHeight
    <3> QED BY <2>2, <3>2 DEF Held
  <2> QED BY <2>6, <2>7
<1>3. ASSUME NEW y \in Levels, rock'[x][y] = "rail"
      PROVE  y = 0 /\ rock'[x][-1] # "air"
  <2>1. rock[x][y] = "rail"
    BY <1>3, ColumnByHeight
  <2>2. y = 0 /\ rock[x][-1] # "air"
    BY <2>1 DEF Held
  <2>3. -1 \in Levels
    BY LevelsOfPlay
  <2> QED BY <2>2, <2>3, ColumnByHeight
<1>4. ASSUME NEW y \in Levels, rock'[x][y] = "planks", y > 0, y < High
      PROVE  rock'[x][y + 1] # "air"
  <2>1. rock[x][y] = "planks"
    BY <1>4, ColumnByHeight
  <2>2. rock[x][y + 1] # "air"
    BY <1>4, <2>1 DEF Held
  <2>3. y + 1 \in Levels
    BY <1>0, <1>4
  <2> QED BY <2>2, <2>3, ColumnByHeight
<1> QED BY <1>1, <1>2, <1>3, <1>4 DEF Held

\* A chain hangs through what structures replace, and a post is none of it.
LEMMA ColumnPosts ==
  ASSUME NEW x, PostOrNone(x), \A y \in Levels : rock'[x][y] = Column(x)[y]
  PROVE  /\ Post(x)' <=> Post(x)
         /\ Posted(x) => Posted(x)'
<1>1. CASE Post(x)
  <2>1. rock[x][0] = "fence"
    BY <1>1 DEF Post
  <2>2. Hangs(x) = {}
    <3> SUFFICES ASSUME NEW u \in Hangs(x) PROVE FALSE
      OBVIOUS
    <3>1. /\ u \in Int /\ u >= 1 /\ rock[x][u - 1] \in HangsFrom
          /\ \A e \in 1 .. u - 1 : rock[x][e - 1] \in Replaceable
      BY LevelsOfPlay DEF Hangs
    <3>2. CASE u = 1
      <4>1. rock[x][0] \in HangsFrom
        BY <3>1, <3>2
      <4> QED BY <2>1, <4>1 DEF HangsFrom, Sturdy
    <3>3. CASE u # 1
      <4>1. 1 \in 1 .. u - 1
        BY <3>1, <3>3
      <4>2. rock[x][0] \in Replaceable
        BY <3>1, <4>1
      <4> QED BY <2>1, <4>2 DEF Replaceable, Liquid
    <3> QED BY <3>2, <3>3
  <2>3. \A y \in Levels : y >= 0 => rock'[x][y] = rock[x][y]
    BY <2>2, ColumnByHeight, LevelsOfPlay DEF FenceAt, ChainAt
  <2> QED BY <2>3, SetBelowPosts
<1>2. CASE ~ Post(x)
  <2>1. rock[x][1] # "fence"
    BY <1>2 DEF Post, PostOrNone
  <2>2. rock'[x][1] # "fence"
    BY <2>1, ColumnByHeight, LevelsOfPlay DEF FenceAt
  <2> QED BY <1>2, <2>2 DEF Post, Posted
<1> QED BY <1>1, <1>2

LEMMA RaiseColumnsStep ==
  ASSUME TimberInv, RaiseColumns
  PROVE  TimberInv'
<1>1. PICK done \in 0 .. Len(Plan[slice.kind]) :
        /\ AtStep(done)
        /\ done + 1 \in 1 .. Len(Plan[slice.kind])
        /\ "columns" = Plan[slice.kind][done + 1]
  BY Turn DEF RaiseColumns
<1>2. slice.kind = "support" /\ done + 1 = 7
  BY <1>1, PlanParts, Turn DEF RaiseColumns
<1>3. done = 6 /\ ~ (done + 1 <= BareSteps[slice.kind])
  BY <1>2 DEF BareSteps
<1>4. /\ DOMAIN rock' = DOMAIN rock
      /\ \A x \in Shell(slice) :
           \/ \A y \in Levels : rock'[x][y] = rock[x][y]
           \/ Mine(x) /\ x \in {0, 2} /\ \A y \in Levels : rock'[x][y] = Column(x)[y]
  BY DEF RaiseColumns, TimberInv
<1>5. \A x \in Shell(slice) : Held(x)'
  <2> SUFFICES ASSUME NEW x \in Shell(slice) PROVE Held(x)'
    OBVIOUS
  <2>1. Held(x)
    BY DEF TimberInv
  <2>2. CASE \A y \in Levels : rock'[x][y] = rock[x][y]
    BY <2>1, <2>2, Untouched
  <2>3. CASE \A y \in Levels : rock'[x][y] = Column(x)[y]
    BY <2>1, <2>3, ColumnHeld
  <2> QED BY <1>4, <2>2, <2>3
<1>6. \A x \in {0, 2} : Mine(x) => PostOrNone(x)
  BY <1>1, <1>2, <1>3 DEF AtStep
<1>7. \A x \in {0, 2} : (Post(x)' <=> Post(x)) /\ (Posted(x) => Posted(x)')
  <2> SUFFICES ASSUME NEW x \in {0, 2}
               PROVE  (Post(x)' <=> Post(x)) /\ (Posted(x) => Posted(x)')
    OBVIOUS
  <2>1. x \in Shell(slice)
    BY SlicesKinds DEF TimberInv
  <2>2. CASE \A y \in Levels : rock'[x][y] = rock[x][y]
    BY <2>2, Untouched
  <2>3. CASE Mine(x) /\ \A y \in Levels : rock'[x][y] = Column(x)[y]
    BY <1>6, <2>3, ColumnPosts
  <2> QED BY <1>4, <2>1, <2>2, <2>3
<1>8. (Post(0)' <=> Post(2)') /\ Posted(0)' /\ Posted(2)'
  BY <1>2, <1>7 DEF TimberInv
<1>9. \A x \in Shell(slice) : ~ Mine(x) => \A y \in Levels : rock'[x][y] = rock[x][y]
  BY <1>4
<1>10. here # 0 /\ work # <<>> /\ work' = Tail(work) /\ UNCHANGED <<slice, border, pending, here>>
  BY DEF RaiseColumns, Does
<1>11. ~ (done + 1 < 7)
  BY <1>3
<1> QED BY <1>1, <1>3, <1>4, <1>5, <1>8, <1>9, <1>10, <1>11, PartDone

LEMMA BuildSupportStep ==
  ASSUME TimberInv, BuildSupport
  PROVE  TimberInv'
<1>1. PICK done \in 0 .. Len(Plan[slice.kind]) :
        /\ AtStep(done)
        /\ done + 1 \in 1 .. Len(Plan[slice.kind])
        /\ "support" = Plan[slice.kind][done + 1]
  BY Turn DEF BuildSupport
<1>2. slice.kind = "support" /\ done + 1 = 4
  BY <1>1, PlanParts, Turn DEF BuildSupport
<1>3. done = 3 /\ ~ (done + 1 <= BareSteps[slice.kind]) /\ done <= BareSteps[slice.kind]
  BY <1>2 DEF BareSteps
<1>4. \A x \in Shell(slice) : Mine(x) => Bare(x)
  BY <1>1, <1>3 DEF AtStep
<1>5. here # 0 /\ work # <<>> /\ work' = Tail(work) /\ UNCHANGED <<slice, border, pending, here>>
  BY DEF BuildSupport, Does
<1>6. {0, 1, 2} \subseteq Shell(slice) /\ {0, 1, 2, 3} \subseteq Levels
  BY SlicesKinds, LevelsOfPlay DEF TimberInv
<1>7. CASE UNCHANGED rock
  <2>1. \A x : (Held(x) => Held(x)') /\ (Post(x)' <=> Post(x)) /\ (Posted(x)' <=> Posted(x))
               /\ (PostOrNone(x)' <=> PostOrNone(x))
    BY <1>7, Untouched
  <2>2. slice.kind = "support" /\ done + 1 < 7 => \A x \in {0, 2} : Mine(x) => PostOrNone(x)'
    BY <1>4, <1>6, <2>1, BareHeld
  <2>3. slice.kind = "support" => (Post(0)' <=> Post(2)') /\ Posted(0)' /\ Posted(2)'
    BY <2>1 DEF TimberInv
  <2>4. DOMAIN rock' = DOMAIN rock /\ \A x \in Shell(slice) : \A y \in Levels : rock'[x][y] = rock[x][y]
    BY <1>7
  <2>5. \A x \in Shell(slice) : Held(x)'
    BY <2>1 DEF TimberInv
  <2> QED BY <1>1, <1>3, <1>5, <2>2, <2>3, <2>4, <2>5, PartDone
<1>8. ASSUME \A x \in 0 .. 2 : Seen(x, 3) # "air",
             NEW beam \in {0 .. 2, {0, 2}},
             rock' = [x \in DOMAIN rock |-> [y \in Levels |->
                        CASE ~ Mine(x) \/ rock[x][y] \in Timber -> rock[x][y]
                          [] y = 2 /\ x \in beam -> "planks"
                          [] y \in 0 .. 1 /\ x \in {0, 2} -> "fence"
                          [] OTHER -> rock[x][y]]]
      PROVE  TimberInv'
  <2>1. \A x \in {0, 1, 2} : Mine(x) /\ rock[x][3] # "air" /\ Bare(x)
    BY <1>4, <1>6, <1>8 DEF Seen
  <2>2. DOMAIN rock' = DOMAIN rock
    BY <1>8
  <2>3. ASSUME NEW x \in Shell(slice), NEW y \in Levels, ~ Mine(x)
        PROVE  rock'[x][y] = rock[x][y]
    <3>1. x \in DOMAIN rock
      BY DEF TimberInv
    <3>2. rock'[x][y] = CASE ~ Mine(x) \/ rock[x][y] \in Timber -> rock[x][y]
                          [] y = 2 /\ x \in beam -> "planks"
                          [] y \in 0 .. 1 /\ x \in {0, 2} -> "fence"
                          [] OTHER -> rock[x][y]
      BY <1>8, <3>1
    <3>3. (y = 2 /\ x \in beam) \/ (y \in 0 .. 1 /\ x \in {0, 2}) => x \in {0, 1, 2}
      OBVIOUS
    <3> QED BY <2>1, <2>3, <3>2, <3>3
  <2>4. ASSUME NEW x \in Shell(slice), NEW y \in Levels, Mine(x)
        PROVE  rock'[x][y] = IF y = 2 /\ x \in beam THEN "planks"
                             ELSE IF y \in 0 .. 1 /\ x \in {0, 2} THEN "fence" ELSE rock[x][y]
    <3>1. rock[x][y] \notin Timber
      BY <1>4, <2>4 DEF Bare
    <3>2. x \in DOMAIN rock
      BY DEF TimberInv
    <3>3. ~ (y = 2 /\ y \in 0 .. 1)
      OBVIOUS
    <3> QED BY <1>8, <2>4, <3>1, <3>2, <3>3
  <2>5. ASSUME NEW x \in Shell(slice), Mine(x)
        PROVE  Held(x)'
    <3>1. ASSUME NEW y \in Levels
          PROVE  rock'[x][y] # "log" /\ rock'[x][y] # "chain" /\ rock'[x][y] # "rail"
      <4>1. rock[x][y] \notin {"log", "chain", "rail"}
        BY <1>4, <2>5 DEF Bare, Timber
      <4> QED BY <2>4, <2>5, <4>1
    <3>2. ASSUME NEW y \in Levels, rock'[x][y] = "planks"
          PROVE  rock'[x][y + 1] # "air"
      <4>1. rock[x][y] # "planks"
        BY <1>4, <2>5 DEF Bare, Timber
      <4>2. y = 2 /\ x \in beam
        BY <2>4, <2>5, <3>2, <4>1
      <4>3. x \in {0, 1, 2}
        BY <4>2
      <4>4. rock'[x][3] = rock[x][3]
        BY <1>6, <2>4, <2>5
      <4> QED BY <2>1, <4>2, <4>3, <4>4
    <3> QED BY <3>1, <3>2 DEF Held
  <2>6. \A x \in {0, 2} : rock'[x][0] = "fence" /\ rock'[x][1] = "fence" /\ rock'[x][2] = "planks"
                          /\ rock'[x][3] = rock[x][3]
    <3>1. \A x \in {0, 2} : x \in Shell(slice) /\ Mine(x) /\ x \in beam
      BY <1>6, <2>1
    <3> QED BY <1>6, <2>4, <3>1
  <2>7. \A x \in {0, 2} : Post(x)' /\ Posted(x)' /\ PostOrNone(x)'
    BY <2>1, <2>6 DEF Post, Posted, PostOrNone
  <2> QED BY <1>1, <1>3, <1>5, <2>2, <2>3, <2>5, <2>7, PartDone
<1> QED BY <1>7, <1>8 DEF BuildSupport

LEMMA BuildPillarsStep ==
  ASSUME TimberInv, BuildPillars
  PROVE  TimberInv'
<1>1. PICK done \in 0 .. Len(Plan[slice.kind]) :
        /\ AtStep(done)
        /\ done + 1 \in 1 .. Len(Plan[slice.kind])
        /\ "pillars" = Plan[slice.kind][done + 1]
  BY Turn DEF BuildPillars
<1>2. slice.kind = "crossing" /\ done + 1 = 2
  BY <1>1, PlanParts, Turn DEF BuildPillars
<1>3. done = 1 /\ ~ (done + 1 <= BareSteps[slice.kind]) /\ done <= BareSteps[slice.kind]
  BY <1>2 DEF BareSteps
<1>4. \A x \in Shell(slice) : Mine(x) => Bare(x)
  BY <1>1, <1>3 DEF AtStep
<1>5. here # 0 /\ work # <<>> /\ work' = Tail(work) /\ UNCHANGED <<slice, border, pending, here>>
  BY DEF BuildPillars, Does
<1>6. slice.roof \in {2, 6} /\ slice.roof + 1 \in Levels
  BY SlicesKinds, LevelsOfPlay DEF TimberInv
<1>7. PICK cells : /\ Place(cells, "planks")
                   /\ \A x, y : <<x, y>> \in cells <=>
                        x \in {1, 3} /\ Seen(x, slice.roof + 1) # "air" /\ y \in 0 .. slice.roof
  <2>1. \A x, y : <<x, y>> \in Slab({v \in {1, 3} : Seen(v, slice.roof + 1) # "air"}, 0 .. slice.roof) <=>
                        x \in {1, 3} /\ Seen(x, slice.roof + 1) # "air" /\ y \in 0 .. slice.roof
    BY DEF Slab
  <2> QED BY <2>1 DEF BuildPillars
<1>8. DOMAIN rock' = DOMAIN rock
  BY <1>7, Placed
<1>9. \A x \in Shell(slice) : \A y \in Levels :
        \/ rock'[x][y] = rock[x][y]
        \/ Mine(x) /\ <<x, y>> \in cells /\ rock[x][y] \notin Timber /\ rock'[x][y] = "planks"
  BY <1>7, Placed
<1>10. \A x \in Shell(slice) : \A y \in Levels :
         Mine(x) /\ <<x, y>> \in cells => rock'[x][y] = "planks"
  BY <1>4, <1>7 DEF Place, SetAll, TimberInv, Bare
<1>11. ASSUME NEW x \in Shell(slice), Mine(x)
       PROVE  Held(x)'
  <2>1. ASSUME NEW y \in Levels
        PROVE  rock'[x][y] # "log" /\ rock'[x][y] # "chain" /\ rock'[x][y] # "rail"
    <3>1. rock[x][y] \notin {"log", "chain", "rail"}
      BY <1>4, <1>11 DEF Bare, Timber
    <3> QED BY <1>9, <3>1
  <2>2. ASSUME NEW y \in Levels, rock'[x][y] = "planks", y > 0
        PROVE  rock'[x][y + 1] # "air"
    <3>1. rock[x][y] # "planks"
      BY <1>4, <1>11 DEF Bare, Timber
    <3>2. <<x, y>> \in cells
      BY <1>9, <2>2, <3>1
    <3>3. x \in {1, 3} /\ Seen(x, slice.roof + 1) # "air" /\ y \in 0 .. slice.roof
      BY <1>7, <3>2
    <3>4. CASE y = slice.roof
      <4>1. rock[x][y + 1] # "air"
        BY <1>11, <3>3, <3>4 DEF Seen
      <4>2. <<x, y + 1>> \notin cells
        BY <1>6, <1>7, <3>4
      <4>3. rock'[x][y + 1] = rock[x][y + 1]
        BY <1>6, <1>9, <3>4, <4>2
      <4> QED BY <4>1, <4>3
    <3>5. CASE y # slice.roof
      <4>1. y + 1 \in 0 .. slice.roof /\ y + 1 \in Levels
        BY <1>6, <3>3, <3>5, LevelsOfPlay DEF Levels
      <4>2. <<x, y + 1>> \in cells
        BY <1>7, <3>3, <4>1
      <4> QED BY <1>10, <1>11, <4>1, <4>2
    <3> QED BY <3>4, <3>5
  <2> QED BY <2>1, <2>2 DEF Held
<1>12. \A x \in Shell(slice) : ~ Mine(x) => \A y \in Levels : rock'[x][y] = rock[x][y]
  BY <1>9
<1>13. slice.kind # "support"
  BY <1>2
<1> QED BY <1>1, <1>3, <1>5, <1>8, <1>11, <1>12, <1>13, PartDone


Parts ==
  {"dig", "roof", "webs", "support", "torch", "cobwebs", "chest", "spawner", "floor", "columns", "rails",
   "pillars"}

LEMMA PlanWhole ==
  ASSUME NEW kind \in {"support", "beside", "crossing"}
  PROVE  Plan[kind] = [i \in 1 .. Len(Plan[kind]) - 0 |-> Plan[kind][i + 0]]
<1>1. \A p \in Seq(Parts) : p = [i \in 1 .. Len(p) - 0 |-> p[i + 0]]
  OBVIOUS
<1>2. Plan["support"] \in Seq(Parts)
  <2>1. Plan["support"] =
          <<"dig", "roof", "webs", "support", "spawner", "floor", "columns", "rails">>
    BY DEF Plan
  <2> QED BY <2>1 DEF Parts
<1>3. Plan["beside"] \in Seq(Parts)
  <2>1. Plan["beside"] =
          <<"dig", "roof", "webs", "torch", "cobwebs", "chest", "spawner", "floor", "rails">>
    BY DEF Plan
  <2> QED BY <2>1 DEF Parts
<1>4. Plan["crossing"] \in Seq(Parts)
  <2>1. Plan["crossing"] = <<"dig", "pillars", "floor">>
    BY DEF Plan
  <2> QED BY <2>1 DEF Parts
<1> QED BY <1>1, <1>2, <1>3, <1>4

LEMMA TimberStays ==
  ASSUME TimberInv, UNCHANGED timberVars
  PROVE  TimberInv'
BY DEF timberVars, TimberInv, AtStep, Ahead, Bare, Held, Own, Mine, Post, Posted, PostOrNone

LEMMA BeginPartStep ==
  ASSUME TimberInv, BeginPart
  PROVE  TimberInv'
<1>1. PICK chunk \in pending :
        /\ pending' = pending \ {chunk}
        /\ \/ here' = chunk /\ work' = Plan[slice.kind]
           \/ UNCHANGED <<here, work>>
  BY DEF BeginPart
<1>2. here = 0 /\ UNCHANGED <<rock, slice, border>>
  BY DEF BeginPart
<1>3. slice.kind \in {"support", "beside", "crossing"} /\ {0, 2} \subseteq Shell(slice)
  BY SlicesKinds DEF TimberInv
<1>4. chunk \in {1, 2}
  BY DEF TimberInv
<1>5. pending' \subseteq {1, 2} /\ here' \in {0, 1, 2} \ pending'
  BY <1>1, <1>2, <1>4 DEF TimberInv
<1>6. IF here' = 0 THEN work' = <<>> ELSE \E done \in 0 .. Len(Plan[slice'.kind]) : AtStep(done)'
  <2>1. CASE UNCHANGED <<here, work>>
    BY <1>2, <2>1 DEF TimberInv
  <2>2. CASE here' = chunk /\ work' = Plan[slice.kind]
    <3>1. Plan[slice.kind] = [i \in 1 .. Len(Plan[slice.kind]) - 0 |-> Plan[slice.kind][i + 0]]
      BY <1>3, PlanWhole
    <3>2. work' = Ahead(0)'
      BY <1>2, <2>2, <3>1 DEF Ahead
    <3>3. \A x \in Shell(slice) : Mine(x)' => Bare(x)
      BY <1>1, <1>2, <1>4, <2>2 DEF TimberInv, Mine, Own
    <3>4. \A x \in Shell(slice) : Mine(x)' => Bare(x)'
      BY <1>2, <3>3, Untouched
    <3>5. \A x \in {0, 2} : Mine(x)' => PostOrNone(x)'
      BY <1>2, <1>3, <3>3, BareHeld, Untouched
    <3>6. AtStep(0)'
      BY <1>2, <3>2, <3>4, <3>5 DEF AtStep
    <3>7. 0 \in 0 .. Len(Plan[slice'.kind])
      BY <1>2, <1>3, PlanLengths
    <3> QED BY <1>4, <2>2, <3>6, <3>7
  <2> QED BY <1>1, <2>1, <2>2
<1>7. \A c \in pending' : \A x \in Shell(slice') : Own(x, c)' => Bare(x)'
  BY <1>1, <1>2, Untouched DEF TimberInv, Own
<1>8. \A x \in Shell(slice') : Held(x)'
  BY <1>2, Untouched DEF TimberInv
<1>9. slice'.kind = "support" => (Post(0)' <=> Post(2)') /\ Posted(0)' /\ Posted(2)'
  BY <1>2, Untouched DEF TimberInv
<1> QED BY <1>2, <1>5, <1>6, <1>7, <1>8, <1>9 DEF TimberInv

LEMMA EndPartStep ==
  ASSUME TimberInv, EndPart
  PROVE  TimberInv'
<1>1. here' = 0 /\ work' = <<>> /\ UNCHANGED <<rock, slice, border, pending>>
  BY DEF EndPart
<1>2. 0 \notin pending
  BY DEF TimberInv
<1>3. \A c \in pending' : \A x \in Shell(slice') : Own(x, c)' => Bare(x)'
  BY <1>1, Untouched DEF TimberInv, Own
<1>4. \A x \in Shell(slice') : Held(x)'
  BY <1>1, Untouched DEF TimberInv
<1>5. slice'.kind = "support" => (Post(0)' <=> Post(2)') /\ Posted(0)' /\ Posted(2)'
  BY <1>1, Untouched DEF TimberInv
<1> QED BY <1>1, <1>2, <1>3, <1>4, <1>5 DEF TimberInv

LEMMA TimberStarts ==
  ASSUME TimberInit
  PROVE  TimberInv
<1>1. slice \in Slices /\ border \in Int /\ here = 0 /\ work = <<>>
  BY DEF TimberInit, Width
<1>2. pending \subseteq {1, 2}
  BY DEF TimberInit
<1>3. PICK left \in Columns, right \in Columns, edge \in Row(slice) :
        rock = [x \in Shell(slice) |-> IF x <= edge THEN left ELSE right]
  BY DEF TimberInit
<1>4. DOMAIN rock = Shell(slice) /\ \A x \in Shell(slice) : rock[x] \in Columns
  BY <1>3
<1>5. \A x \in Shell(slice) : Bare(x)
  BY <1>4, ColumnsAssumption DEF Bare
<1>6. {0, 2} \subseteq Shell(slice)
  BY <1>1, SlicesKinds
<1>7. (Post(0) <=> Post(2)) /\ Posted(0) /\ Posted(2)
  BY <1>5, <1>6, BareHeld DEF Posted
<1> QED BY <1>1, <1>2, <1>4, <1>5, <1>7, BareHeld DEF TimberInv

\* What the invariant says of every column is what the property asks of those
\* the piece covers.
LEMMA TimberInvHeld ==
  ASSUME TimberInv
  PROVE  TimberHeld
<1>1. slice.kind = "support" =>
        /\ Post(0) <=> Post(2)
        /\ \A x \in {0, 2} : Post(x) => rock[x][2] = "planks" /\ rock[x][3] # "air"
  BY DEF TimberInv, Posted
<1>2. ASSUME NEW x \in Row(slice), NEW y \in Low + 1 .. High - 1
      PROVE  /\ rock[x][y] = "log" => rock[x][y - 1] \in Sturdy
             /\ rock[x][y] = "chain" => rock[x][y + 1] \in HangsFrom \cup {"chain"}
             /\ rock[x][y] = "rail" => rock[x][y - 1] # "air"
             /\ rock[x][y] = "planks" /\ y > 0 => rock[x][y + 1] # "air"
  <2>1. y \in Levels /\ y > Low /\ y < High /\ y \in Int
    BY LevelsOfPlay DEF Levels
  <2>2. Held(x)
    BY SlicesKinds DEF TimberInv
  <2>3. rock[x][y] = "rail" => y - 1 = -1
    BY <2>1, <2>2 DEF Held
  <2> QED BY <2>1, <2>2, <2>3 DEF Held
<1> QED BY <1>1, <1>2 DEF TimberHeld

\* TimberHeld for every height, every rock no mineshaft ran through before and
\* every border: nothing wooden floats (structure_mineshaft.go:1046-1180).
THEOREM TimberAlwaysHeld == TimberSpec => []TimberHeld
<1>1. TimberInit => TimberInv
  BY TimberStarts
<1>2. TimberInv /\ [TimberNext]_timberVars => TimberInv'
  <2> SUFFICES ASSUME TimberInv, [TimberNext]_timberVars
               PROVE  TimberInv'
    OBVIOUS
  <2>1. CASE BeginPart
    BY <2>1, BeginPartStep
  <2>2. CASE EndPart
    BY <2>2, EndPartStep
  <2>3. CASE DigSlice
    BY <2>3, DigSliceStep
  <2>4. CASE DigRoof
    BY <2>4, DigRoofStep
  <2>5. CASE SpinWebs
    BY <2>5, SpinWebsStep
  <2>6. CASE BuildSupport
    BY <2>6, BuildSupportStep
  <2>7. CASE HangTorch
    BY <2>7, HangTorchStep
  <2>8. CASE HangCobwebs
    BY <2>8, HangCobwebsStep
  <2>9. CASE PutChest
    BY <2>9, PutChestStep
  <2>10. CASE PutSpawner
    BY <2>10, PutSpawnerStep
  <2>11. CASE LayFloor
    BY <2>11, LayFloorStep
  <2>12. CASE RaiseColumns
    BY <2>12, RaiseColumnsStep
  <2>13. CASE LayRails
    BY <2>13, LayRailsStep
  <2>14. CASE BuildPillars
    BY <2>14, BuildPillarsStep
  <2>15. CASE UNCHANGED timberVars
    BY <2>15, TimberStays
  <2> QED BY <2>1, <2>2, <2>3, <2>4, <2>5, <2>6, <2>7, <2>8, <2>9, <2>10, <2>11, <2>12, <2>13, <2>14,
             <2>15 DEF TimberNext
<1>3. TimberInv => TimberHeld
  BY TimberInvHeld
<1> QED BY <1>1, <1>2, <1>3, PTL DEF TimberSpec
=============================================================================
