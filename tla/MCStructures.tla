---------------------------- MODULE MCStructures ----------------------------
(***************************************************************************)
(* How structures are built, one of a kind in each scene: a village from   *)
(* jigsaw pieces, the pieces of a mineshaft, what stands in a slice of one, *)
(* and the structures laid block by block. They share no state.            *)
(***************************************************************************)
EXTENDS JigsawAssembly, Mineshaft, MineshaftTimber, Buildings

CONSTANT Scenes
VARIABLE scene

-----------------------------------------------------------------------------
(***************************************************************************)
(* The village has five elements: a square with a lamp inside, paths that  *)
(* follow the ground, houses, and fences where nothing else fits.          *)
(***************************************************************************)
Street(x, front, priority) ==
  [pos |-> <<x, 0>>, front |-> front, top |-> "up", joint |-> "aligned", name |-> "street",
   pool |-> "paths", target |-> "street", placement |-> priority, selection |-> 0]
Stand(x, y) ==
  [pos |-> <<x, y>>, front |-> "up", top |-> "south", joint |-> "rollable", name |-> "stand",
   pool |-> "decor", target |-> "bottom", placement |-> 2, selection |-> 1]
Socket ==
  [pos |-> <<0, 0>>, front |-> "down", top |-> "south", joint |-> "rollable", name |-> "bottom",
   pool |-> "nothing", target |-> "nothing", placement |-> 0, selection |-> 0]

MCElements ==
  [square |-> [size |-> <<3, 2>>, rigid |-> TRUE,
               jigsaws |-> {Street(0, "west", 0), Street(2, "east", 1), Stand(1, 0)}],
   path |-> [size |-> <<2, 1>>, rigid |-> FALSE,
             jigsaws |-> {Street(0, "west", 0), Street(1, "east", 0)}],
   house |-> [size |-> <<2, 2>>, rigid |-> TRUE,
              jigsaws |-> {Street(0, "west", 1), Stand(1, 0)}],
   fence |-> [size |-> <<1, 1>>, rigid |-> TRUE, jigsaws |-> {Street(0, "west", 0)}],
   lamp |-> [size |-> <<1, 1>>, rigid |-> TRUE, jigsaws |-> {Socket}],
   mast |-> [size |-> <<1, 3>>, rigid |-> TRUE, jigsaws |-> {Socket}]]

MCPools ==
  [paths |-> [entries |-> {"path", "house"}, fallback |-> "ends"],
   ends |-> [entries |-> {"fence", Empty}, fallback |-> "nothing"],
   decor |-> [entries |-> {"lamp", "mast"}, fallback |-> "nothing"]]

\* With a projected start and expansion, with a named anchor and padding, in a
\* narrow range, with no depth, without room, and with an anchor no element has.
Village == [start |-> "square", jigsaw |-> None, heights |-> {0}, project |-> TRUE,
            size |-> 2, distance |-> 5, padding |-> 0, expansion |-> TRUE]
MCCandidates ==
  {Village,
   [Village EXCEPT !.jigsaw = "street", !.project = FALSE, !.heights = {3}, !.padding = 1,
                   !.expansion = FALSE, !.distance = 6],
   [Village EXCEPT !.distance = 2],
   [Village EXCEPT !.size = 0],
   [Village EXCEPT !.distance = 0],
   [Village EXCEPT !.jigsaw = "gate"]}

\* What the theorem about WithinBackreach assumes of a structure.
ASSUME VillageNear == StartsNear

MCMinY == -1

\* The ground rises by a block east of the start.
MCSurface == [x \in -12 .. 12 |-> IF x < 3 THEN 1 ELSE 2]

-----------------------------------------------------------------------------
\* The mineshaft goes down and up; its timber stands under gravel and over stone,
\* hangs from stone over lava, or is under water.
MCLifts == {-1, 1}
MCLow == -5
Cave(roof, low, over, under) ==
  [y \in Levels |-> IF y >= roof THEN over ELSE IF y > low THEN "air" ELSE under]
MCColumns ==
  {Cave(3, -4, "gravel", "stone"), Cave(4, -4, "stone", "lava"), Cave(3, -1, "stone", "water")}

-----------------------------------------------------------------------------
NoVillage ==
  /\ def = Village /\ stage = "failed" /\ pieces = <<>> /\ spaces = <<>> /\ queue = <<>>
  /\ current = None
NoShaft == shaft = <<>> /\ feet = <<>> /\ kinds = {} /\ shaftStage = "none"
NoTimber ==
  /\ slice = CHOOSE s \in Slices : s.kind = "crossing" /\ s.roof = 2
  /\ rock = [x \in Shell(slice) |-> [y \in Levels |-> "stone"]]
  /\ border = 0 /\ pending = {} /\ here = 0 /\ work = <<>>
NoHouse ==
  /\ house = "stronghold" /\ turned = "none" /\ slope = CHOOSE s \in [near : Depths, far : Depths] : TRUE
  /\ laid = <<>> /\ tolay = <<>>

AllInit ==
  /\ scene \in Scenes
  /\ IF scene = "village" THEN Init ELSE NoVillage
  /\ IF scene = "mineshaft" THEN ShaftInit ELSE NoShaft
  /\ IF scene = "timber" THEN TimberInit ELSE NoTimber
  /\ IF scene = "building" THEN HouseInit ELSE NoHouse

InVillage == Next /\ UNCHANGED <<scene, shaftVars, timberVars, houseVars>>
InShaft == ShaftNext /\ UNCHANGED <<scene, vars, timberVars, houseVars>>
InTimber == TimberNext /\ UNCHANGED <<scene, vars, shaftVars, houseVars>>
InHouse == HouseNext /\ UNCHANGED <<scene, vars, shaftVars, timberVars>>

AllBuilt ==
  /\ scene # "village" /\ ShaftSettled /\ TimberDone /\ HouseDone
  /\ UNCHANGED <<scene, vars, shaftVars, timberVars, houseVars>>
AllNext == InVillage \/ InShaft \/ InTimber \/ InHouse \/ AllBuilt
AllSpec == AllInit /\ [][AllNext]_<<scene, vars, shaftVars, timberVars, houseVars>>
=============================================================================
