------------------------------- MODULE Carvers -------------------------------
(***************************************************************************)
(* Caves and canyons (carvers.go). Every chunk runs the carvers that start *)
(* up to eight chunks away, with dice of their own, and carves the part of *)
(* each ellipsoid that is in it; it gives a tunnel up as soon as it thinks *)
(* that the tunnel cannot come near.                                       *)
(*                                                                         *)
(* There is one horizontal axis. The dice have made a tunnel a list of     *)
(* moves; radii are doubled and thickness is in tenths, to be integers.    *)
(***************************************************************************)
EXTENDS Surface

CONSTANTS
  Cavities,         \* what the dice may make of the carvers: lists of origins
  CarvedChunks,     \* the chunks that are carved
  Substance(_, _),  \* what the aquifer says at a block
  AnyAquifer,       \* whether there is one
  LavaLevel,
  Nether,
  GroundAt(_)       \* the block at a height before carving

VARIABLES
  caves,        \* the origins, with what starts there
  carved,       \* the blocks of the chunks that are done
  inChunk,      \* the chunk that is being carved
  blocks,       \* its blocks
  mask,         \* the blocks of it that were looked at
  toCarve,      \* rooms and tunnels to carve, each with the step it is at
  carveStage    \* "ready" or "carve"

carverVars == <<caves, carved, inChunk, blocks, mask, toCarve, carveStage, site>>

BlocksOf(c) == (16 * c .. 16 * c + 15) \X Heights
Middle(c) == 16 * c + 8
Distance(a, b) == IF a < b THEN b - a ELSE a - b

-----------------------------------------------------------------------------
\* carverCanReach; TooShort allows for the half of a chunk only.
TooShort(c, x, remaining, thickness) ==
  100 * (Distance(x, Middle(c)) * Distance(x, Middle(c)) - remaining * remaining) <= (thickness + 20) * (thickness + 20)
CanReach(c, x, remaining, thickness) ==
  100 * (Distance(x, Middle(c)) * Distance(x, Middle(c)) - remaining * remaining)
    <= (thickness + 180) * (thickness + 180)

\* The skip function of caves, with a floor, and of canyons, whose walls have a
\* width of their own at each height.
InsideOf(e, x, y) ==
  LET xd == 2 * x + 1 - 2 * e.x
      yd == 2 * y - 1 - 2 * e.y
  IN  /\ xd * xd < e.h * e.h
      /\ IF e.canyon
         THEN /\ y - Floor >= 1
              /\ 6 * xd * xd * e.widths[y - Floor] * e.v * e.v + yd * yd * e.h * e.h < 6 * e.h * e.h * e.v * e.v
         ELSE /\ 10 * yd > e.floorLevel * e.v
              /\ xd * xd * e.v * e.v + yd * yd * e.h * e.h < e.h * e.h * e.v * e.v

\* carveEllipsoid: the columns of the chunk, and heights within the world; the
\* lowest blocks and the topmost are left alone.
Columns(e, c) ==
  IF Distance(e.x, Middle(c)) > 16 + e.h THEN {}
  ELSE Max({16 * c, ((2 * e.x - e.h) \div 2) - 1}) .. Min({16 * c + 15, (2 * e.x + e.h) \div 2})
Levels(e) ==
  Max({((2 * e.y - e.v) \div 2) - 1, Floor + 1}) + 1 .. Min({((2 * e.y + e.v) \div 2) + 1, Roof - 7})

-----------------------------------------------------------------------------
\* isCarverReplaceable and carveState.
Replaceable(b) == b \notin {"air", "lava", "bedrock"} /\ (Nether => b # "gravel")
CarveState(x, y) ==
  CASE y <= LavaLevel -> "lava"
    [] y > LavaLevel /\ AnyAquifer -> Substance(x, y)
    [] OTHER -> IF y < SeaLevel THEN FilledWith ELSE "air"
Stays(x, y) == CarveState(x, y) = "barrier"

\* carveTopMaterial: the rule of the surface, as for a block at the top.
TopMaterial(y, under) ==
  Given([y |-> y, above |-> 1, below |-> 1, water |-> IF under THEN y + 1 ELSE NoWater,
         steep |-> FALSE, least |-> y - site.depth], SurfaceRule)

\* carveBlock, for the blocks of a column from the top; c is the column and
\* whether grass was met.
CarveBlock(c, x, y) ==
  LET grass == c.grass \/ c.at[y] \in {"grass_block", "mycelium"}
      state == CarveState(x, y)
      material == TopMaterial(y - 1, state \in {"water", "lava", FilledWith})
      patched == grass /\ y - 1 >= Floor /\ c.at[y - 1] = "dirt" /\ material # "none"
  IN  IF ~ Replaceable(c.at[y]) \/ Stays(x, y) THEN [c EXCEPT !.grass = grass]
      ELSE [grass |-> grass,
            at |-> [c.at EXCEPT ![y] = state, ![IF patched THEN y - 1 ELSE y] =
                      IF patched THEN material ELSE state]]
Downwards(S) == Reverse(SetToSortSeq(S, <))
CarvedColumn(e, x) ==
  FoldLeft(LAMBDA c, y : CarveBlock(c, x, y),
           [grass |-> FALSE, at |-> [y \in Heights |-> blocks[<<x, y>>]]],
           Downwards({y \in Levels(e) : InsideOf(e, x, y) /\ <<x, y>> \notin mask})).at
CarveEllipsoid(e) ==
  LET columns == Columns(e, inChunk)
      after == [x \in columns |-> CarvedColumn(e, x)]
  IN  /\ blocks' = [p \in BlocksOf(inChunk) |-> IF p[1] \in columns THEN after[p[1]][p[2]] ELSE blocks[p]]
      /\ mask' = mask \cup {p \in columns \X Levels(e) : InsideOf(e, p[1], p[2])}

-----------------------------------------------------------------------------
CarversInit ==
  /\ site \in Sites
  /\ caves \in Cavities
  /\ carved = [c \in CarvedChunks |-> <<>>]
  /\ inChunk = CHOOSE c \in CarvedChunks : TRUE
  /\ blocks = <<>> /\ mask = {} /\ toCarve = <<>>
  /\ carveStage = "ready"

\* carveTerrain: the origins in range, in order, each with the rooms and tunnels
\* that the dice made there.
StartCarving(c) ==
  /\ carveStage = "ready" /\ carved[c] = <<>>
  /\ inChunk' = c
  /\ blocks' = [p \in BlocksOf(c) |-> GroundAt(p[2])]
  /\ mask' = {}
  /\ toCarve' = FlattenSeq([i \in DOMAIN caves |->
                   IF Distance(caves[i].origin, c) <= 8 THEN caves[i].works ELSE <<>>])
  /\ carveStage' = "carve"
  /\ UNCHANGED <<caves, carved, site>>

Work == Head(toCarve)
Carving == carveStage = "carve" /\ toCarve # <<>>
Unchanged == UNCHANGED <<caves, carved, inChunk, carveStage, site>>

\* The room of a cave, next to where its tunnels start.
Shape(w, x, y, h, v) ==
  [x |-> x, y |-> y, h |-> h, v |-> v, canyon |-> w.kind = "canyon", floorLevel |-> w.floorLevel, widths |-> w.widths]
CarveRoom ==
  /\ Carving /\ Work.kind = "room"
  /\ CarveEllipsoid(Shape(Work, Work.x + 1, Work.y, Work.h, Work.v))
  /\ toCarve' = Tail(toCarve)
  /\ Unchanged

\* createTunnel and the loop of carveCanyon: a step. A thick cave splits in two,
\* that go on for the rest of its way, and ends.
Move == Work.moves[Work.step + 1]
Moved == [Work EXCEPT !.x = @ + Move.dx, !.y = @ + Move.dy, !.step = @ + 1]
Splits == Work.kind = "cave" /\ Work.step = Work.splitPoint /\ Work.thickness > 10
Stepping == Carving /\ Work.kind \in {"cave", "canyon"} /\ Work.step < Len(Work.moves)
Child(t) == [t EXCEPT !.x = Moved.x, !.y = Moved.y, !.step = Work.step]
Split ==
  /\ Stepping /\ Splits
  /\ toCarve' = <<Child(Work.children[1]), Child(Work.children[2])>> \o Tail(toCarve)
  /\ UNCHANGED <<blocks, mask>> /\ Unchanged
Walk ==
  /\ Stepping /\ ~ Splits /\ ~ Move.carves
  /\ toCarve' = <<Moved>> \o Tail(toCarve)
  /\ UNCHANGED <<blocks, mask>> /\ Unchanged
Reaches == CanReach(inChunk, Moved.x, Len(Work.moves) - Work.step, Work.thickness)
Dig ==
  /\ Stepping /\ ~ Splits /\ Move.carves /\ Reaches
  /\ CarveEllipsoid(Shape(Work, Moved.x, Moved.y, Move.h, Move.v))
  /\ toCarve' = <<Moved>> \o Tail(toCarve)
  /\ Unchanged
GiveUp ==
  /\ Stepping /\ ~ Splits /\ Move.carves /\ ~ Reaches
  /\ toCarve' = Tail(toCarve)
  /\ UNCHANGED <<blocks, mask>> /\ Unchanged
EndTunnel ==
  /\ Carving /\ Work.kind \in {"cave", "canyon"} /\ Work.step = Len(Work.moves)
  /\ toCarve' = Tail(toCarve)
  /\ UNCHANGED <<blocks, mask>> /\ Unchanged

EndCarving ==
  /\ carveStage = "carve" /\ toCarve = <<>>
  /\ carved' = [carved EXCEPT ![inChunk] = blocks]
  /\ blocks' = <<>> /\ mask' = {}
  /\ carveStage' = "ready"
  /\ UNCHANGED <<caves, inChunk, toCarve, site>>

CarversNext ==
  \/ \E c \in CarvedChunks : StartCarving(c)
  \/ CarveRoom \/ Split \/ Walk \/ Dig \/ GiveUp \/ EndTunnel
  \/ EndCarving
CarversSpec == CarversInit /\ [][CarversNext]_carverVars

-----------------------------------------------------------------------------
(***************************************************************************)
(* A chunk carves what lies in it of every cave, of whatever origin, and   *)
(* nothing else: tunnels go on across the borders of chunks, though each   *)
(* chunk decides for itself when to give one up (carvers.go:291-299). Only *)
(* of tunnels that run straight at it from afar may a chunk lose the end,  *)
(* as in vanilla; the others come nearer by seven blocks in ten steps or   *)
(* less. Blocks that keep out of it, or are held by the aquifer, stay.     *)
(***************************************************************************)
Along(w, from, n) ==
  FoldLeft(LAMBDA p, m : [x |-> p.x + m.dx, y |-> p.y + m.dy], from, SubSeq(w.moves, w.step + 1, n))
SplitsAt(w) == w.kind = "cave" /\ w.thickness > 10 /\ w.splitPoint < Len(w.moves)
\* Of a whole tunnel that is at step w.step: its ellipsoids without the children.
Own(w) ==
  {LET p == Along(w, [x |-> w.x, y |-> w.y], n)
   IN  Shape(w, p.x, p.y, w.moves[n].h, w.moves[n].v) :
     n \in {n \in w.step + 1 .. (IF SplitsAt(w) THEN w.splitPoint ELSE Len(w.moves)) : w.moves[n].carves}}
Grown(w, child) ==
  LET p == Along(w, [x |-> w.x, y |-> w.y], w.splitPoint + 1)
  IN  [child EXCEPT !.x = p.x, !.y = p.y, !.step = w.splitPoint]
Ellipsoids(w) ==
  IF w.kind = "room" THEN {Shape(w, w.x + 1, w.y, w.h, w.v)}
  ELSE Own(w) \cup (IF SplitsAt(w) THEN UNION {Own(Grown(w, w.children[i])) : i \in 1 .. 2} ELSE {})
Winds(t) ==
  \A n \in t.step .. Len(t.moves) : \A m \in n .. Len(t.moves) :
    10 * Distance(Along(t, [x |-> t.x, y |-> t.y], n).x, Along(t, [x |-> t.x, y |-> t.y], m).x) <= 7 * (Len(t.moves) - n + 1)
Winding(w) ==
  w.kind = "room" \/ (Winds(w) /\ (SplitsAt(w) => \A i \in 1 .. 2 : Winds(Grown(w, w.children[i]))))
Works == UNION {ToSet(caves[i].works) : i \in DOMAIN caves}
Hollow(works, c) ==
  LET all == UNION {Ellipsoids(w) : w \in works}
  IN  {p \in BlocksOf(c) : \E e \in all : p[2] \in Levels(e) /\ InsideOf(e, p[1], p[2])}
TunnelsWhole ==
  carveStage = "ready" /\ carved[inChunk] # <<>> =>
    LET hollow == Hollow({w \in Works : Winding(w)}, inChunk)
        any == Hollow(Works, inChunk)
        Kept(p) == ~ Replaceable(GroundAt(p[2])) \/ Stays(p[1], p[2])
        after == carved[inChunk]
    IN  \A p \in BlocksOf(inChunk) :
          /\ p \in hollow /\ ~ Kept(p) => after[p] = CarveState(p[1], p[2])
          /\ p \notin any \/ Kept(p) => after[p] = GroundAt(p[2]) \/ GroundAt(p[2]) = "dirt"
=============================================================================
