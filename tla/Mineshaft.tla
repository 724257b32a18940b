----------------------------- MODULE Mineshaft -----------------------------
(***************************************************************************)
(* The network of a mineshaft (structure_mineshaft.go): a room, and from   *)
(* its doors corridors, crossings and stairs, each of which digs on before *)
(* its siblings do. What the random numbers decide is chosen; a piece      *)
(* draws for its own children when it is added, which the code does one    *)
(* draw at a time. When nothing is left to dig the network is moved up or  *)
(* down, for each kind of mineshaft in the set until the biome at the      *)
(* place it would get is one the kind allows: each kind draws the same     *)
(* network, as it starts from the same seed.                               *)
(***************************************************************************)
EXTENDS Integers, Sequences, SequencesExt

CONSTANTS
  Reach,        \* how far from the room a piece may begin: 80
  MaxDepth,     \* the depth that may still have children: 8
  Sections,     \* lengths of corridors, in sections of five: 2 .. 4
  RoomGrowth,   \* what a side of the room may have beyond its least: 0 .. 5
  DoorPlaces,   \* where along a wall doors may be
  DoorHeights,  \* how high above the floor
  Lifts,        \* how much higher a corridor may go on: {-1, 0, 1}
  MaxDoors,     \* bound: doors of the room
  MaxSides,     \* bound: branches of one corridor beside its end
  MaxPieces,    \* bound: pieces of the network
  Kinds,        \* kinds of mineshaft in the set: {"normal", "mesa"}
  Bottom,       \* the lowest block of the world
  SeaLevel,
  Grounds       \* heights of the ground

ASSUME MineshaftAssumption ==
  /\ Reach \in Nat /\ MaxDepth \in Nat /\ MaxPieces \in Nat /\ MaxDoors \in Nat /\ MaxSides \in Nat
  /\ Sections \subseteq 1 .. 4 /\ RoomGrowth \subseteq 0 .. 5 /\ Lifts \subseteq -1 .. 1
  /\ DoorPlaces \subseteq Nat /\ DoorHeights \subseteq Nat
  /\ Kinds \subseteq {"normal", "mesa"}
  /\ Bottom \in Int /\ SeaLevel \in Int /\ Grounds \subseteq Int

VARIABLES
  shaft,        \* the pieces, the room first
  feet,         \* where to dig on, the next one first
  kinds,        \* the kinds of the set that have not been tried
  shaftStage    \* "new", "digging", "dug", "normal", "mesa" or "none"

shaftVars == <<shaft, feet, kinds, shaftStage>>

-----------------------------------------------------------------------------
\* Directions and boxes; the room starts two blocks into its chunk, which is
\* the one at 0.
Wall == [north |-> 1, south |-> 2, west |-> 3, east |-> 4]
Behind == [north |-> "south", south |-> "north", west |-> "east", east |-> "west"]
AlongZ(dir) == dir \in {"north", "south"}

Cuboid(x1, y1, z1, x2, y2, z2) ==
  [x1 |-> x1, y1 |-> y1, z1 |-> z1, x2 |-> x2, y2 |-> y2, z2 |-> z2]
Meet(a, b) ==
  /\ a.x1 <= b.x2 /\ b.x1 <= a.x2
  /\ a.y1 <= b.y2 /\ b.y1 <= a.y2
  /\ a.z1 <= b.z2 /\ b.z1 <= a.z2

\* The box that begins at foot and goes far blocks on (mineshaftBoxForDirection).
Laid(foot, dir, far, left, right, down, up) ==
  CASE dir = "north" -> Cuboid(foot.x - left, foot.y - down, foot.z - far + 1,
                            foot.x + right, foot.y + up, foot.z)
    [] dir = "south" -> Cuboid(foot.x - left, foot.y - down, foot.z,
                            foot.x + right, foot.y + up, foot.z + far - 1)
    [] dir = "west" -> Cuboid(foot.x - far + 1, foot.y - down, foot.z - left,
                           foot.x, foot.y + up, foot.z + right)
    [] OTHER -> Cuboid(foot.x, foot.y - down, foot.z - left,
                    foot.x + far - 1, foot.y + up, foot.z + right)

\* A place to dig on from piece i: just outside its box in direction dir, along
\* blocks from its low corner and lift blocks above its floor.
\* (FootPastWall takes the far corner for one beyond the box.)
FootPastWall(i, b, dir, along, lift, depth) ==
  [from |-> i, dir |-> dir, depth |-> depth, y |-> b.y1 + lift,
   x |-> CASE AlongZ(dir) -> b.x1 + along [] dir = "west" -> b.x1 - 1 [] OTHER -> b.x2 + 2,
   z |-> CASE ~ AlongZ(dir) -> b.z1 + along [] dir = "north" -> b.z1 - 1 [] OTHER -> b.z2 + 2]
Foot(i, b, dir, along, lift, depth) ==
  [from |-> i, dir |-> dir, depth |-> depth, y |-> b.y1 + lift,
   x |-> CASE AlongZ(dir) -> b.x1 + along [] dir = "west" -> b.x1 - 1 [] OTHER -> b.x2 + 1,
   z |-> CASE ~ AlongZ(dir) -> b.z1 + along [] dir = "north" -> b.z1 - 1 [] OTHER -> b.z2 + 1]

ShaftPiece(kind, box, dir, depth, from) ==
  [kind |-> kind, box |-> box, dir |-> dir, depth |-> depth, from |-> from, entrances |-> {}]

TwoFloored(p) == p.box.y2 - p.box.y1 + 1 > 3
Far(p) == IF AlongZ(p.dir) THEN p.box.z2 - p.box.z1 + 1 ELSE p.box.x2 - p.box.x1 + 1

-----------------------------------------------------------------------------
\* Doors of the room, those of one wall at least four blocks apart, in the order
\* of the walls and then of places (mineshaftRoomAddChildren).
Span(b, dir) == IF AlongZ(dir) THEN b.x2 - b.x1 + 1 ELSE b.z2 - b.z1 + 1
Doors(b) ==
  {d \in [dir : DOMAIN Wall, place : DoorPlaces, height : DoorHeights] :
     d.place + 3 <= Span(b, d.dir) /\ d.height < Max({1, b.y2 - b.y1 + 1 - 3 - 1})}
Follows(c, d) == Wall[c.dir] < Wall[d.dir] \/ (c.dir = d.dir /\ c.place + 4 <= d.place)
DoorRows(b) ==
  {doors \in UNION {[1 .. n -> Doors(b)] : n \in 0 .. MaxDoors} :
     \A m, n \in DOMAIN doors : m < n => Follows(doors[m], doors[n])}
RoomFeet(b) ==
  {[n \in DOMAIN doors |-> Foot(1, b, doors[n].dir, doors[n].place, doors[n].height + 1, 0)] :
   doors \in DoorRows(b)}

\* mineshaftCorridorAddChildren: first its end, straight on or to a side, then
\* a branch or none for each of its sections but the last.
Across(p) == IF AlongZ(p.dir) THEN {"west", "east"} ELSE {"north", "south"}
CorridorEnds(i, p) ==
  LET along == IF p.dir \in {"south", "east"} THEN Far(p) - 4 ELSE 0
  IN  {Foot(i, p.box, p.dir, 0, lift, p.depth) : lift \in Lifts}
      \cup {Foot(i, p.box, dir, along, lift, p.depth) : dir \in Across(p), lift \in Lifts}
Places(p) == {k \in 1 .. 4 : 5 * k + 1 <= Far(p) - 1}
Branches(p) ==
  {s \in UNION {[1 .. n -> [at : Places(p), dir : Across(p)]] : n \in 0 .. MaxSides} :
     \A j, k \in DOMAIN s : j < k => s[j].at < s[k].at}
CorridorSides(i, p) ==
  IF p.depth >= MaxDepth THEN {<<>>}
  ELSE {[k \in DOMAIN s |-> Foot(i, p.box, s[k].dir, 5 * s[k].at - 2, 0, p.depth + 1)] :
        s \in Branches(p)}
CorridorFeet(i, p) == {<<end>> \o sides : end \in CorridorEnds(i, p), sides \in CorridorSides(i, p)}

\* mineshaftCrossingAddChildren: all sides but the one it was entered from; on
\* an upper floor any of the four.
UpperWall == [north |-> 1, west |-> 2, east |-> 3, south |-> 4]
LowerSides(p) ==
  {s \in [1 .. 3 -> DOMAIN Wall \ {Behind[p.dir]}] : \A m, n \in 1 .. 3 : m < n => Wall[s[m]] < Wall[s[n]]}
UpperSides(p) ==
  IF TwoFloored(p)
  THEN {s \in UNION {[1 .. k -> DOMAIN Wall] : k \in 0 .. 4} :
          \A m, n \in DOMAIN s : m < n => UpperWall[s[m]] < UpperWall[s[n]]}
  ELSE {<<>>}
LowerFeet(i, p) == {[n \in 1 .. 3 |-> Foot(i, p.box, low[n], 1, 0, p.depth)] : low \in LowerSides(p)}
UpperFeet(i, p) ==
  {[n \in DOMAIN high |-> Foot(i, p.box, high[n], 1, 4, p.depth)] : high \in UpperSides(p)}
CrossingFeet(i, p) == {lower \o upper : lower \in LowerFeet(i, p), upper \in UpperFeet(i, p)}

StairsFeet(i, p) == {<<Foot(i, p.box, p.dir, 0, 0, p.depth)>>}

-----------------------------------------------------------------------------
ShaftInit ==
  /\ shaft = <<>>
  /\ feet = <<>>
  /\ kinds = Kinds
  /\ shaftStage = "new"

\* generateMineshaftPieces.
DigRoom ==
  /\ shaftStage = "new"
  /\ Kinds # {}
  /\ \E dx, dy, dz \in RoomGrowth :
     LET b == Cuboid(2, 50, 2, 9 + dx, 54 + dy, 9 + dz) IN
       /\ shaft' = <<ShaftPiece("room", b, "none", 0, 0)>>
       /\ feet' \in RoomFeet(b)
  /\ shaftStage' = "digging"
  /\ UNCHANGED kinds

\* mineshaftFindCollision.
Free(b) == \A i \in DOMAIN shaft : ~ Meet(shaft[i].box, b)

\* (WithinAnyReach does not stop at the reach.)
WithinAnyReach(foot) == foot.depth <= MaxDepth
MayDig(foot) ==
  /\ foot.depth <= MaxDepth
  /\ foot.x - shaft[1].box.x1 \in -Reach .. Reach
  /\ foot.z - shaft[1].box.z1 \in -Reach .. Reach

CrossingBox(foot, up) == Laid(foot, foot.dir, 5, 1, 3, 0, up)
StairsBox(foot) == Laid(foot, foot.dir, 9, 0, 2, 5, 2)
CorridorBox(foot, sections) == Laid(foot, foot.dir, 5 * sections, 0, 2, 0, 2)

\* The longest corridor that fits, starting from the length drawn.
CorridorLengths(foot) ==
  {s \in 1 .. 4 : /\ Free(CorridorBox(foot, s))
                  /\ \E drawn \in Sections :
                       drawn >= s /\ \A t \in s + 1 .. drawn : ~ Free(CorridorBox(foot, t))}

\* The room opens its wall, two blocks deep, to a piece that begins at it.
Entrance(room, dir, b) ==
  CASE dir = "north" -> Cuboid(b.x1, b.y1, room.z1, b.x2, b.y2, room.z1 + 1)
    [] dir = "south" -> Cuboid(b.x1, b.y1, room.z2 - 1, b.x2, b.y2, room.z2)
    [] dir = "west" -> Cuboid(room.x1, b.y1, b.z1, room.x1 + 1, b.y2, b.z2)
    [] OTHER -> Cuboid(room.x2 - 1, b.y1, b.z1, room.x2, b.y2, b.z2)
WithEntrance(pieces, foot, b) ==
  IF foot.from = 1
  THEN [pieces EXCEPT ![1].entrances = @ \cup {Entrance(pieces[1].box, foot.dir, b)}]
  ELSE pieces

\* mineshaftGenerateAndAddPiece with a piece: its own children come before what
\* is left of its siblings.
NewPiece(kind, b) == ShaftPiece(kind, b, Head(feet).dir, Head(feet).depth + 1, Head(feet).from)
Add(p, choices) ==
  /\ Free(p.box)
  /\ shaft' = Append(WithEntrance(shaft, Head(feet), p.box), p)
  /\ \E children \in choices : feet' = children \o Tail(feet)
  /\ UNCHANGED <<kinds, shaftStage>>

MayAdd ==
  /\ shaftStage = "digging"
  /\ feet # <<>>
  /\ MayDig(Head(feet))
  /\ Len(shaft) < MaxPieces

DigCrossing ==
  /\ MayAdd
  /\ \E up \in {2, 6} :
       LET p == NewPiece("crossing", CrossingBox(Head(feet), up))
       IN  Add(p, CrossingFeet(Len(shaft) + 1, p))

DigStairs ==
  /\ MayAdd
  /\ LET p == NewPiece("stairs", StairsBox(Head(feet)))
     IN  Add(p, StairsFeet(Len(shaft) + 1, p))

DigCorridor ==
  /\ MayAdd
  /\ \E sections \in CorridorLengths(Head(feet)) :
       LET p == NewPiece("corridor", CorridorBox(Head(feet), sections))
       IN  Add(p, CorridorFeet(Len(shaft) + 1, p))

\* mineshaftGenerateAndAddPiece with nil: too deep, too far, or no room for what
\* was drawn. At the bound on pieces nothing is dug either.
NothingDug(foot) ==
  \/ ~ MayDig(foot)
  \/ Len(shaft) >= MaxPieces
  \/ \E up \in {2, 6} : ~ Free(CrossingBox(foot, up))
  \/ ~ Free(StairsBox(foot))
  \/ \E s \in Sections : \A t \in 1 .. s : ~ Free(CorridorBox(foot, t))

PassOn ==
  /\ shaftStage = "digging"
  /\ feet # <<>>
  /\ NothingDug(Head(feet))
  /\ feet' = Tail(feet)
  /\ UNCHANGED <<shaft, kinds, shaftStage>>

Dug ==
  /\ shaftStage = "digging"
  /\ feet = <<>>
  /\ shaftStage' = "dug"
  /\ UNCHANGED <<shaft, feet, kinds>>

-----------------------------------------------------------------------------
\* generateMineshaftStart, the rest: how far up the network goes.
Lowest == Min({shaft[i].box.y1 : i \in DOMAIN shaft})
Highest == Max({shaft[i].box.y2 : i \in DOMAIN shaft})
Tall == Highest - Lowest + 1

\* moveBelowSeaLevel: ten blocks below the sea if that leaves it above the
\* bottom. (NormalShiftsFromTop forgets how tall the network is.)
NormalShiftsFromTop == {Bottom + 1 + n - Highest : n \in 0 .. Max({0, SeaLevel - 10 - Bottom - 2})}
NormalShifts ==
  LET top == Tall + Bottom + 1
  IN  {top + n - Highest : n \in 0 .. Max({0, SeaLevel - 10 - top - 1})}
MesaShifts ==
  {y - (Lowest + Tall \div 2) : y \in UNION {SeaLevel .. Max({g, SeaLevel}) : g \in Grounds}}
Shifts(kind) == IF kind = "mesa" THEN MesaShifts ELSE NormalShifts

Up(b, dy) == Cuboid(b.x1, b.y1 + dy, b.z1, b.x2, b.y2 + dy, b.z2)
Raised(p, dy) ==
  [ShaftPiece(p.kind, Up(p.box, dy), p.dir, p.depth, p.from)
     EXCEPT !.entrances = {Up(e, dy) : e \in p.entrances}]

\* The candidate loop of planMineshaftSetStart, one kind at a time.
Settle ==
  /\ shaftStage = "dug"
  /\ \E kind \in kinds, allowed \in BOOLEAN :
       \/ /\ allowed
          /\ \E dy \in Shifts(kind) : shaft' = [i \in DOMAIN shaft |-> Raised(shaft[i], dy)]
          /\ shaftStage' = kind
          /\ UNCHANGED kinds
       \/ /\ ~ allowed
          /\ kinds' = kinds \ {kind}
          /\ shaftStage' = IF kinds' = {} THEN "none" ELSE "dug"
          /\ UNCHANGED shaft
  /\ UNCHANGED feet

ShaftSettled == shaftStage \in {"normal", "mesa", "none"}

ShaftNext == DigRoom \/ DigCrossing \/ DigStairs \/ DigCorridor \/ PassOn \/ Dug \/ Settle
ShaftSpec == ShaftInit /\ [][ShaftNext]_shaftVars

-----------------------------------------------------------------------------
\* What the pieces dig when they are placed (roomPostProcess and the others), but
\* for the dome over the hall of the room. A corridor, and stairs, count from where
\* they were entered (worldPos).
FromEntry(p, y1, z1, y2, z2) ==
  LET b == p.box IN
  CASE p.dir = "north" -> Cuboid(b.x1, b.y1 + y1, b.z2 - z2, b.x1 + 2, b.y1 + y2, b.z2 - z1)
    [] p.dir = "south" -> Cuboid(b.x1, b.y1 + y1, b.z1 + z1, b.x1 + 2, b.y1 + y2, b.z1 + z2)
    [] p.dir = "west" -> Cuboid(b.x2 - z2, b.y1 + y1, b.z1, b.x2 - z1, b.y1 + y2, b.z1 + 2)
    [] OTHER -> Cuboid(b.x1 + z1, b.y1 + y1, b.z1, b.x1 + z2, b.y1 + y2, b.z1 + 2)

Doorways(p) == {[e EXCEPT !.y1 = e.y2 - 2] : e \in p.entrances}
Hall(p) == [p.box EXCEPT !.y1 = @ + 1, !.y2 = Min({p.box.y1 + 3, @})]
CorridorAir(p) == {FromEntry(p, 0, 0, 1, (Far(p) \div 5) * 5 - 1)}
StairsAir(p) ==
  {FromEntry(p, 5, 0, 7, 1), FromEntry(p, 0, 7, 2, 8)}
  \cup {FromEntry(p, 5 - i - (IF i < 4 THEN 1 ELSE 0), 2 + i, 7 - i, 2 + i) : i \in 0 .. 4}
\* A cross over the height of a floor; a second floor has its own, and the
\* middle is open between them.
Cross(b, y1, y2) ==
  {Cuboid(b.x1 + 1, y1, b.z1, b.x2 - 1, y2, b.z2), Cuboid(b.x1, y1, b.z1 + 1, b.x2, y2, b.z2 - 1)}
CrossingAir(p) ==
  IF TwoFloored(p)
  THEN Cross(p.box, p.box.y1, p.box.y1 + 2) \cup Cross(p.box, p.box.y2 - 2, p.box.y2)
       \cup {Cuboid(p.box.x1 + 1, p.box.y1 + 3, p.box.z1 + 1, p.box.x2 - 1, p.box.y1 + 3, p.box.z2 - 1)}
  ELSE Cross(p.box, p.box.y1, p.box.y2)
Air(p) ==
  CASE p.kind = "room" -> {Hall(p)} \cup Doorways(p) [] p.kind = "corridor" -> CorridorAir(p)
    [] p.kind = "stairs" -> StairsAir(p) [] OTHER -> CrossingAir(p)

Touch(a, b) ==
  \/ Meet([a EXCEPT !.x1 = @ - 1, !.x2 = @ + 1], b)
  \/ Meet([a EXCEPT !.y1 = @ - 1, !.y2 = @ + 1], b)
  \/ Meet([a EXCEPT !.z1 = @ - 1, !.z2 = @ + 1], b)

(***************************************************************************)
(* Nobody digs into solid rock: what a piece digs is open to what the      *)
(* piece it was dug from digs, whatever heights, turns and offsets lie     *)
(* between the two, and still is when the network has moved. What leaves   *)
(* the room leaves by a doorway in its wall, which is open to the hall     *)
(* unless it lies higher: there a dome may reach it, or not, as nobody     *)
(* asks (structure_mineshaft.go:372-566, 941-1249).                        *)
(***************************************************************************)
PassagesOpen ==
  \A i \in DOMAIN shaft : LET p == shaft[i] IN
    /\ p.from = 1 => \E a \in Air(p), d \in Doorways(shaft[1]) : Touch(a, d)
    /\ p.from > 1 => \E a \in Air(p), b \in Air(shaft[p.from]) : Touch(a, b)
    /\ \A d \in Doorways(p) : Touch(d, Hall(p)) \/ d.y1 > Hall(p).y2 + 1

(***************************************************************************)
(* No two pieces share a block (mineshaftFindCollision), so none fills in  *)
(* or cuts what another has dug.                                           *)
(***************************************************************************)
ShaftPiecesApart ==
  \A i, j \in DOMAIN shaft : i # j => ~ Meet(shaft[i].box, shaft[j].box)

(***************************************************************************)
(* However the network branches, it ends: no piece is deeper than one      *)
(* below the limit, and none ends further from the room than the reach and *)
(* the longest corridor. With a reach of 80 blocks that is within the 8    *)
(* chunks in which a chunk looks for mineshafts                            *)
(* (estimateDirectStructureBackreach).                                     *)
(***************************************************************************)
ShaftWithinReach ==
  \A i \in DOMAIN shaft :
    /\ shaft[i].depth <= MaxDepth + 1
    /\ shaft[i].box.x1 >= 2 - (Reach + 19) /\ shaft[i].box.x2 <= 2 + Reach + 19
    /\ shaft[i].box.z1 >= 2 - (Reach + 19) /\ shaft[i].box.z2 <= 2 + Reach + 19

(***************************************************************************)
(* A normal mineshaft is moved into the rock: it stays clear of the bottom *)
(* of the world and, unless it is too tall for that, of the sea above it   *)
(* (generateMineshaftStart).                                               *)
(***************************************************************************)
ShaftInRock ==
  shaftStage = "normal" =>
    Lowest >= Bottom + 2 /\ (Highest < SeaLevel - 10 \/ Lowest = Bottom + 2)
=============================================================================
