--------------------------- MODULE MineshaftTimber ---------------------------
(***************************************************************************)
(* What mineshaftPlacer builds where it has dug (structure_mineshaft.go):  *)
(* supports, floors, columns of logs or chains, pillars, rails, webs. The  *)
(* model is one slice across a corridor or a crossing: columns 0 .. Width  *)
(* - 1 of blocks and one of rock to either side, height 0 the lowest the   *)
(* piece digs. The border of two chunks may run through it; each chunk     *)
(* does its own columns, in either order, with random numbers of its own,  *)
(* and sees air beyond the border.                                         *)
(* The rock changes once across the slice.                                 *)
(* What the rest of the piece decides for the slice is chosen.             *)
(***************************************************************************)
EXTENDS Integers, FiniteSets, SequencesExt

CONSTANTS
  Low, High,        \* levelMinY and levelMaxY
  DownReach,        \* how far down a log is let: 20
  UpReach,          \* how far up a chain is hung: 50
  Columns           \* what a column may be before: a block by height

ASSUME TimberAssumption ==
  /\ Low \in Int /\ High \in Int /\ Low < -1 /\ High > 7
  /\ DownReach \in Nat /\ UpReach \in Nat

VARIABLES
  rock,             \* the blocks, by column and height
  slice,            \* what is built here
  border,           \* the first column of the second chunk
  pending,          \* the chunks that have not placed their part
  here,             \* the chunk at work, or 0
  work              \* what it does next

timberVars == <<rock, slice, border, pending, here, work>>

Levels == Low .. High
Width(s) == IF s.kind = "crossing" THEN 5 ELSE 3
Row(s) == 0 .. Width(s) - 1
Shell(s) == -1 .. Width(s)
Mine(x) == IF x < border THEN here = 1 ELSE here = 2

\* Slices: a corridor at a support and beside one, and a crossing at its pillars,
\* with one floor or two. A corridor has rails, or spiders, or neither.
Slices ==
  {s \in [kind : {"support", "beside"}, roof : {2}, columns : BOOLEAN, rails : BOOLEAN, spiders : BOOLEAN] :
     ~ (s.rails /\ s.spiders) /\ (s.columns => s.kind = "support")}
  \cup [kind : {"crossing"}, roof : {2, 6}, columns : {FALSE}, rails : {FALSE}, spiders : {FALSE}]
Plan ==
  [support |-> <<"dig", "roof", "webs", "support", "spawner", "floor", "columns", "rails">>,
   beside |-> <<"dig", "roof", "webs", "torch", "cobwebs", "chest", "spawner", "floor", "rails">>,
   crossing |-> <<"dig", "pillars", "floor">>]

-----------------------------------------------------------------------------
\* Kinds of block (faceSturdy, isSolidRender, canBeReplaced and the tests of
\* names).
Liquid == {"water", "lava"}
Timber == {"planks", "log", "fence", "chain"}
Sturdy == {"stone", "gravel", "planks", "log", "spawner"}
SolidRender == Sturdy \ {"spawner"}
Replaceable == {"air"} \cup Liquid
HangsFrom == Sturdy \ {"gravel"}
Covers == Sturdy \cup {"fence", "chain"}

\* No mineshaft stood here before: two that cross are left out.
ASSUME ColumnsAssumption ==
  \A c \in Columns, y \in Levels : c[y] \notin Timber \cup {"rail"}

\* getBlockName: beyond the chunk there is air. (SeenBeyond looks at the rock.)
SeenBeyond(x, y) == rock[x][y]
Seen(x, y) == IF Mine(x) THEN rock[x][y] ELSE "air"
Interior(x, y) == Mine(x) /\ \E v \in Levels : v > y /\ rock[x][v] \in Covers

\* setBlock, and placeBlock which spares timber.
SetAll(cells, b) ==
  rock' = [x \in DOMAIN rock |-> [y \in Levels |->
             IF <<x, y>> \in cells /\ Mine(x) THEN b ELSE rock[x][y]]]
Place(cells, b) == SetAll({c \in cells : rock[c[1]][c[2]] \notin Timber}, b)

Slab(xs, ys) == xs \X ys

-----------------------------------------------------------------------------
TimberInit ==
  /\ slice \in Slices
  /\ \E left, right \in Columns, edge \in Row(slice) :
       rock = [x \in Shell(slice) |-> IF x <= edge THEN left ELSE right]
  /\ border \in -1 .. Width(slice) + 1
  /\ pending = (IF border > 0 THEN {1} ELSE {}) \cup (IF border < Width(slice) THEN {2} ELSE {})
  /\ here = 0
  /\ work = <<>>

\* isInInvalidLocation, on the part of the shell in this slice, whose sides are
\* moved in to the border; liquid or a biome met elsewhere in the piece turns it
\* down as well.
Wet(chunk) ==
  LET own == {x \in Shell(slice) : (x < border) = (chunk = 1)} IN
  \E x \in own :
    \/ rock[x][-1] \in Liquid \/ rock[x][slice.roof + 1] \in Liquid
    \/ x \in {Min(own), Max(own)} /\ \E y \in -1 .. slice.roof + 1 : rock[x][y] \in Liquid
BeginPart ==
  /\ here = 0
  /\ \E chunk \in pending, valid \in BOOLEAN :
       /\ pending' = pending \ {chunk}
       /\ IF valid /\ ~ Wet(chunk)
          THEN here' = chunk /\ work' = Plan[slice.kind]
          ELSE UNCHANGED <<here, work>>
  /\ UNCHANGED <<rock, slice, border>>

EndPart ==
  /\ here # 0
  /\ work = <<>>
  /\ here' = 0
  /\ UNCHANGED <<rock, slice, border, pending, work>>

Does(what) ==
  /\ here # 0
  /\ work # <<>>
  /\ Head(work) = what
  /\ work' = Tail(work)
  /\ UNCHANGED <<slice, border, pending, here>>

DigSlice ==
  /\ Does("dig")
  /\ Place(IF slice.kind = "crossing"
           THEN Slab(Row(slice), 0 .. 2) \cup Slab(Row(slice), slice.roof - 2 .. slice.roof)
                \cup Slab(1 .. 3, 3 .. slice.roof - 3)
           ELSE Slab(0 .. 2, 0 .. 1), "air")

\* generateMaybeBox, where the random numbers say so.
DigRoof ==
  /\ Does("roof")
  /\ \E xs \in SUBSET (0 .. 2) : Place(Slab(xs, {2}), "air")
SpinWebs ==
  /\ Does("webs")
  /\ IF slice.spiders
     THEN \E drawn \in SUBSET Slab(0 .. 2, 0 .. 1) :
            Place({c \in drawn : Interior(c[1], c[2])}, "web")
     ELSE UNCHANGED rock

\* placeSupport: posts under a beam, or under its two ends, if there is a roof.
BuildSupport ==
  /\ Does("support")
  /\ IF \A x \in 0 .. 2 : Seen(x, 3) # "air"
     THEN \E beam \in {0 .. 2, {0, 2}} :
            rock' = [x \in DOMAIN rock |-> [y \in Levels |->
                       CASE ~ Mine(x) \/ rock[x][y] \in Timber -> rock[x][y]
                         [] y = 2 /\ x \in beam -> "planks"
                         [] y \in 0 .. 1 /\ x \in {0, 2} -> "fence"
                         [] OTHER -> rock[x][y]]]
     ELSE UNCHANGED rock
HangTorch ==
  /\ Does("torch")
  /\ \E lit \in BOOLEAN : Place(IF lit THEN {<<1, 2>>} ELSE {}, "torch")

\* maybePlaceCobWeb, with sturdy neighbours before and behind as may be.
SturdyBeside(x, y) ==
  Cardinality({c \in {<<x, y - 1>>, <<x, y + 1>>, <<x - 1, y>>, <<x + 1, y>>} :
                 c[1] \in Shell(slice) /\ Mine(c[1]) /\ rock[c[1]][c[2]] \in Sturdy})
HangCobwebs ==
  /\ Does("cobwebs")
  /\ \E xs \in SUBSET {0, 2} : \E more \in [xs -> 0 .. 2] :
       Place({<<x, 2>> : x \in {v \in xs : Interior(v, 2) /\ SturdyBeside(v, 2) + more[v] >= 2}}, "web")

\* createChest: the rail under it.
PutChest ==
  /\ Does("chest")
  /\ \E xs \in {{}, {0}, {2}} :
       Place({<<x, 0>> : x \in {v \in xs : Seen(v, 0) = "air" /\ Mine(v) /\ rock[v][-1] # "air"}}, "rail")
PutSpawner ==
  /\ Does("spawner")
  /\ \E found \in BOOLEAN :
       SetAll(IF found /\ slice.spiders /\ Interior(1, 0) THEN {<<1, 0>>} ELSE {}, "spawner")

\* setPlanksBlock.
LayFloor ==
  /\ Does("floor")
  /\ SetAll({<<x, -1>> : x \in {v \in Row(slice) : Interior(v, -1) /\ rock[v][-1] \notin Sturdy}},
            "planks")

\* fillPillarDownOrChainUp: whichever is nearer, ground to stand on or a roof to
\* hang from; it goes on through what structures replace, but not down through
\* lava.
Stands(x) ==
  {d \in 1 .. -1 - Low :
     /\ rock[x][-1 - d] \in Sturdy
     /\ \A e \in 1 .. d - 1 :
          e <= DownReach /\ rock[x][-1 - e] \in Replaceable \ {"lava"} /\ -1 - e > Low + 1}
Hangs(x) ==
  {d \in 1 .. High + 1 :
     /\ rock[x][d - 1] \in HangsFrom
     /\ \A e \in 1 .. d - 1 : e <= UpReach /\ rock[x][e - 1] \in Replaceable /\ e - 1 < High}
Column(x) ==
  [y \in Levels |->
     CASE \E d \in Stands(x) : (\A u \in Hangs(x) : d <= u) /\ y \in -d .. -2 -> "log"
       [] \E u \in Hangs(x) : (\A d \in Stands(x) : u < d) /\ y = 0 -> "fence"
       [] \E u \in Hangs(x) : (\A d \in Stands(x) : u < d) /\ y \in 1 .. u - 2 -> "chain"
       [] OTHER -> rock[x][y]]
RaiseColumns ==
  /\ Does("columns")
  /\ rock' = [x \in DOMAIN rock |->
                IF slice.columns /\ x \in {0, 2} /\ Mine(x) /\ rock[x][-1] = "planks"
                THEN Column(x) ELSE rock[x]]

LayRails ==
  /\ Does("rails")
  /\ \E laid \in BOOLEAN :
       Place(IF laid /\ slice.rails /\ Seen(1, -1) \in SolidRender THEN {<<1, 0>>} ELSE {}, "rail")

\* placeSupportPillar.
BuildPillars ==
  /\ Does("pillars")
  /\ Place(Slab({x \in {1, 3} : Seen(x, slice.roof + 1) # "air"}, 0 .. slice.roof), "planks")

TimberDone == here = 0 /\ pending = {}
TimberNext ==
  \/ BeginPart \/ EndPart \/ DigSlice \/ DigRoof \/ SpinWebs \/ BuildSupport \/ HangTorch
  \/ HangCobwebs \/ PutChest \/ PutSpawner \/ LayFloor \/ RaiseColumns \/ LayRails \/ BuildPillars
TimberSpec == TimberInit /\ [][TimberNext]_timberVars

-----------------------------------------------------------------------------
(***************************************************************************)
(* Nothing wooden floats, wherever the border runs: a support has both its *)
(* posts, each under planks that touch the roof; a pillar of a crossing    *)
(* touches the roof; logs stand on solid ground, chains hang from a roof   *)
(* that holds them, and rails lie on something                             *)
(* (structure_mineshaft.go:1046-1071, 1136-1180, 1228-1233).               *)
(***************************************************************************)
Post(x) == rock[x][0] = "fence" /\ rock[x][1] = "fence"
TimberHeld ==
  /\ slice.kind = "support" =>
       /\ Post(0) <=> Post(2)
       /\ \A x \in {0, 2} : Post(x) => rock[x][2] = "planks" /\ rock[x][3] # "air"
  /\ \A x \in Row(slice), y \in Low + 1 .. High - 1 :
       /\ rock[x][y] = "log" => rock[x][y - 1] \in Sturdy
       /\ rock[x][y] = "chain" => rock[x][y + 1] \in HangsFrom \cup {"chain"}
       /\ rock[x][y] = "rail" => rock[x][y - 1] # "air"
       /\ rock[x][y] = "planks" /\ y > 0 => rock[x][y + 1] # "air"
=============================================================================
