--------------------------- MODULE JigsawAssembly ---------------------------
(***************************************************************************)
(* How a structure of type jigsaw is put together (structure_jigsaw.go):   *)
(* from a root piece, pieces are attached jigsaw to jigsaw, taken from the *)
(* pool a jigsaw names or from its fallback, as long as they fit into the  *)
(* free space and the depth allows. Pieces wait in a queue by priority.    *)
(*                                                                         *)
(* The model has one horizontal axis, x, and the height, y: a rotation     *)
(* leaves x as it is or turns it round. A shuffled list is a choice: what   *)
(* may be attached is what some order of the list would attach. Elements   *)
(* have a size, and the aliases of pools are left out: a jigsaw names the  *)
(* pool its alias stands for.                                              *)
(***************************************************************************)
EXTENDS Integers, Sequences, FiniteSets, SequencesExt

CONSTANTS
  Elements,     \* resolvedPoolElement: size, rigid, jigsaws, by name
  Pools,        \* resolvedStructurePool: entries and fallback, by name
  Candidates,   \* JigsawStructureDef: what there is to build
  Surface,      \* worldSurfaceLevelAt, by x
  MinY, MaxY,   \* the heights of the dimension
  ChunkWidth,   \* blocks of a chunk: 16
  None

Empty == "empty_pool_element"

\* What appendShuffledJigsaws reads of a jigsaw block in a template.
Fronts == {"west", "east", "up", "down"}
Tops == Fronts \cup {"north", "south"}
Jigsaws ==
  [pos : Int \X Int, front : Fronts, top : Tops, joint : STRING, name : STRING, pool : STRING,
   target : STRING, placement : Int, selection : Int]

ASSUME NumbersAssumption == MinY \in Int /\ MaxY \in Int /\ ChunkWidth \in Nat \ {0}
ASSUME NoneAssumption == None \notin Int
ASSUME PoolsAssumption ==
  /\ IsFiniteSet(DOMAIN Elements)
  /\ \A e \in DOMAIN Elements : /\ Elements[e].size \in (Nat \ {0}) \X (Nat \ {0})
                                /\ Elements[e].jigsaws \subseteq Jigsaws
                                /\ \A j \in Elements[e].jigsaws : j.pos[1] \in 0 .. Elements[e].size[1] - 1
  /\ \A p \in DOMAIN Pools : Pools[p].entries \subseteq DOMAIN Elements \cup {Empty}
ASSUME CandidatesAssumption ==
  \A c \in Candidates : /\ c.start \in DOMAIN Elements
                        /\ c.size \in Int /\ c.distance \in Int /\ c.padding \in Nat
                        /\ {c.expansion, c.project} \subseteq BOOLEAN
                        /\ c.heights \subseteq Int

VARIABLES
  def,          \* the structure that is built, one of Candidates
  stage,        \* "new", "assembling", "built" or "failed"
  pieces,       \* the pieces placed so far, the root first
  spaces,       \* structureCollisionSpace: what pieces may occupy
  queue,        \* pendingStructurePiece: pieces whose jigsaws are to be tried
  current       \* the piece whose jigsaws are tried, or None

vars == <<def, stage, pieces, spaces, queue, current>>

-----------------------------------------------------------------------------
\* Geometry. A box is the cells from <<x1, y1>> to <<x2, y2>>.
Rotations == {"none", "half"}
Rotated(size, pos, r) == IF r = "half" THEN <<size[1] - 1 - pos[1], pos[2]>> ELSE pos

Opposite == [west |-> "east", east |-> "west", up |-> "down", down |-> "up"]
Turned(d, r) == IF r = "half" /\ d \in {"west", "east"} THEN Opposite[d] ELSE d
StepX == [west |-> -1, east |-> 1, up |-> 0, down |-> 0]
StepY == [west |-> 0, east |-> 0, up |-> 1, down |-> -1]
InFront(j) == <<j.pos[1] + StepX[j.front], j.pos[2] + StepY[j.front]>>

Box(e, origin) ==
  [x1 |-> origin[1], y1 |-> origin[2],
   x2 |-> origin[1] + Elements[e].size[1] - 1, y2 |-> origin[2] + Elements[e].size[2] - 1]
HasPos(b, pos) == pos[1] \in b.x1 .. b.x2 /\ pos[2] \in b.y1 .. b.y2

\* boxDeflatedWithin and boxDeflatedIntersects compare in quarters of a block,
\* with a quarter taken off each side of the new box.
\* (WithinLeft forgets the right side.)
WithinLeft(b, allowed) ==
  /\ 4 * b.x1 + 1 >= 4 * allowed.x1
  /\ 4 * b.y1 + 1 >= 4 * allowed.y1 /\ 4 * b.y2 + 3 <= 4 * (allowed.y2 + 1)
Within(b, allowed) ==
  /\ 4 * b.x1 + 1 >= 4 * allowed.x1 /\ 4 * b.x2 + 3 <= 4 * (allowed.x2 + 1)
  /\ 4 * b.y1 + 1 >= 4 * allowed.y1 /\ 4 * b.y2 + 3 <= 4 * (allowed.y2 + 1)
\* (CollidesShort takes the other box to end a block short in x.)
CollidesShort(b, c) ==
  /\ 4 * b.x1 + 1 < 4 * c.x2 /\ 4 * b.x2 + 3 > 4 * c.x1
  /\ 4 * b.y1 + 1 < 4 * (c.y2 + 1) /\ 4 * b.y2 + 3 > 4 * c.y1
Collides(b, c) ==
  /\ 4 * b.x1 + 1 < 4 * (c.x2 + 1) /\ 4 * b.x2 + 3 > 4 * c.x1
  /\ 4 * b.y1 + 1 < 4 * (c.y2 + 1) /\ 4 * b.y2 + 3 > 4 * c.y1
CanFit(space, b) == Within(b, space.allowed) /\ \A c \in space.cutouts : ~ Collides(b, c)

NewSpace(allowed) == [allowed |-> allowed, cutouts |-> {}]

\* The jigsaws of an element rotated and moved (appendShuffledJigsaws).
Placed(e, r, origin) ==
  {[j EXCEPT !.pos = <<origin[1] + Rotated(Elements[e].size, j.pos, r)[1], origin[2] + j.pos[2]>>,
             !.front = Turned(j.front, r), !.top = Turned(j.top, r)] : j \in Elements[e].jigsaws}

CanAttach(s, t) ==
  /\ s.front = Opposite[t.front]
  /\ s.joint = "rollable" \/ s.top = t.top
  /\ s.target = t.name

\* structureExpansionHackY: room above a low piece for what may be put on it.
Heights(p) == {Elements[e].size[2] : e \in Pools[p].entries \ {Empty}}
ExpandTo(e, r) ==
  LET onIt == {j \in Placed(e, r, <<0, 0>>) : HasPos(Box(e, <<0, 0>>), InFront(j))}
      pools == {j.pool : j \in onIt} \cap DOMAIN Pools
      fallbacks == {Pools[p].fallback : p \in pools} \cap DOMAIN Pools
  IN  IF ~ def.expansion \/ Elements[e].size[2] > 16 THEN 0
      ELSE Max({0} \cup UNION {Heights(p) : p \in pools \cup fallbacks})
Expanded(b, to) ==
  LET newSize == IF to + 1 > b.y2 - b.y1 THEN to + 1 ELSE b.y2 - b.y1
  IN  IF to > 0 THEN [b EXCEPT !.y2 = b.y1 + newSize] ELSE b

-----------------------------------------------------------------------------
\* A piece; source and front tell the properties what it was attached to.
Root(e, r, origin) ==
  [element |-> e, rotation |-> r, origin |-> origin, box |-> Box(e, origin),
   ground |-> 1, junctions |-> <<>>, source |-> 0, front |-> "none"]

\* Go's division rounds towards zero.
Half(n) == IF n < 0 THEN -((-n) \div 2) ELSE n \div 2

\* structureCollisionRangeBox, empty where x2 < x1 or y2 < y1.
RangeBox(x, y) ==
  IF def.distance <= 0 THEN [x1 |-> 1, y1 |-> 1, x2 |-> 0, y2 |-> 0]
  ELSE [x1 |-> x - def.distance, x2 |-> x + def.distance,
        y1 |-> Max({y - def.distance, MinY + def.padding}),
        y2 |-> Min({y + def.distance, MaxY - def.padding})]
FitsPadding(b) == def.padding > 0 => b.y1 >= MinY + def.padding /\ b.y2 <= MaxY - def.padding

Init ==
  /\ def \in Candidates
  /\ stage = "new"
  /\ pieces = <<>>
  /\ spaces = <<>>
  /\ queue = <<>>
  /\ current = None

\* buildPlannedStructure up to its loop, with the start chunk's first block at 0.
AnchorsOf(c, r) ==
  IF c.jigsaw = None THEN {<<0, 0>>}
  ELSE {j.pos : j \in {k \in Placed(c.start, r, <<0, 0>>) : k.name = c.jigsaw}}
Anchors(r) == AnchorsOf(def, r)

RootOf(r, anchor, height) ==
  LET flat == Box(def.start, <<-anchor[1], 0>>)
      ground == IF def.project THEN Surface[Half(flat.x1 + flat.x2)] ELSE 0
  IN  Root(def.start, r, <<-anchor[1], height + ground - 1>>)

Fail ==
  /\ stage = "new"
  /\ stage' = "failed"
  /\ \E r \in Rotations :
       \/ Anchors(r) = {}
       \/ \E anchor \in Anchors(r), height \in def.heights :
            LET b == RootOf(r, anchor, height).box
                range == RangeBox(Half(b.x1 + b.x2), b.y1 + 1 + anchor[2])
            IN  ~ FitsPadding(b) \/ (def.size > 0 /\ (range.x1 > range.x2 \/ range.y1 > range.y2))
  /\ UNCHANGED <<def, pieces, spaces, queue, current>>

RootAlone ==
  /\ stage = "new"
  /\ def.size <= 0
  /\ \E r \in Rotations : \E anchor \in Anchors(r), height \in def.heights :
       LET root == RootOf(r, anchor, height)
       IN  FitsPadding(root.box) /\ pieces' = <<root>>
  /\ stage' = "built"
  /\ UNCHANGED <<def, spaces, queue, current>>

Begin ==
  /\ stage = "new"
  /\ def.size > 0
  /\ \E r \in Rotations : \E anchor \in Anchors(r), height \in def.heights :
       LET root == RootOf(r, anchor, height)
           range == RangeBox(Half(root.box.x1 + root.box.x2), root.box.y1 + 1 + anchor[2])
       IN  /\ FitsPadding(root.box)
           /\ range.x1 <= range.x2 /\ range.y1 <= range.y2
           /\ pieces' = <<root>>
           /\ spaces' = <<[allowed |-> range, cutouts |-> {root.box}]>>
           /\ queue' = <<[piece |-> root, index |-> 1, depth |-> 0, priority |-> 0, space |-> 1]>>
  /\ stage' = "assembling"
  /\ UNCHANGED <<def, current>>

\* The next piece of the queue; one at the depth limit is passed over.
AtLimit(depth) ==
  depth >= def.size

Take ==
  /\ stage = "assembling"
  /\ current = None
  /\ queue # <<>>
  /\ LET q == Head(queue) IN
     current' = IF AtLimit(q.depth) THEN None
                ELSE [piece |-> q.piece, index |-> q.index, depth |-> q.depth, space |-> q.space,
                      inner |-> None, surface |-> None,
                      todo |-> Placed(q.piece.element, q.piece.rotation, q.piece.origin)]
  /\ queue' = Tail(queue)
  /\ UNCHANGED <<def, stage, pieces, spaces>>

-----------------------------------------------------------------------------
\* Attaching a piece to jigsaw s of the current one.
BothRigid(e) == Elements[current.piece.element].rigid /\ Elements[e].rigid

\* sourceSurfaceY is read once for the current piece, at the jigsaw that first
\* needs it.
SurfaceFor(s) == IF current.surface # None THEN current.surface ELSE Surface[s.pos[1]]

Local(s) == s.pos[2] - current.piece.origin[2]
DeltaY(s, t) == Local(s) - t.pos[2] + StepY[s.front]

OriginOf(s, e, t) ==
  <<InFront(s)[1] - t.pos[1],
    IF BothRigid(e) THEN current.piece.box.y1 + DeltaY(s, t) ELSE SurfaceFor(s) - t.pos[2]>>

\* A jigsaw that points into its own piece attaches within that piece.
IsInside(s) == HasPos(current.piece.box, InFront(s))
SpaceFor(s) ==
  IF ~ IsInside(s) THEN spaces[current.space]
  ELSE IF current.inner = None THEN NewSpace(current.piece.box) ELSE spaces[current.inner]

Attachments(s, entries) ==
  UNION {UNION {{[element |-> e, rotation |-> r, jigsaw |-> t] :
                   t \in {u \in Placed(e, r, <<0, 0>>) : CanAttach(s, u)}} :
                r \in Rotations} : e \in entries \ {Empty}}

BoxOf(s, a) ==
  Expanded(Box(a.element, OriginOf(s, a.element, a.jigsaw)), ExpandTo(a.element, a.rotation))

\* Of the jigsaws of an element, those of higher selection priority come first.
Fitting(s, entries) ==
  LET fits == {a \in Attachments(s, entries) : CanFit(SpaceFor(s), BoxOf(s, a))}
  IN  {a \in fits : \A b \in fits :
         b.element = a.element /\ b.rotation = a.rotation
           => b.jigsaw.selection <= a.jigsaw.selection}

\* What comes of a shuffled list: the attachment found, if the search ended
\* there or at an empty element, and whether the surface was asked for. An
\* element that does not fit may have been tried before, and has when all were.
Search(s, entries) ==
  LET fits == Fitting(s, entries)
      elements == entries \ {Empty}
      asks(es) == \E e \in es : ~ BothRigid(e) /\ Attachments(s, {e}) # {}
      mayAsk == {FALSE, asks(elements \ {a.element : a \in fits})}
  IN  {[found |-> a, ended |-> TRUE, asked |-> x \/ asks({a.element})] : a \in fits, x \in mayAsk}
      \cup {[found |-> None, ended |-> TRUE, asked |-> x] :
               x \in {y \in mayAsk : Empty \in entries}}
      \cup {[found |-> None, ended |-> FALSE, asked |-> x] :
               x \in {y \in {asks(elements)} : fits = {} /\ Empty \notin entries}}

Fallback(s) ==
  LET f == Pools[s.pool].fallback IN IF f \in DOMAIN Pools THEN Pools[f].entries ELSE {}

\* The list is the pool, shuffled, and then its fallback, shuffled.
Outcomes(s) ==
  LET first == Search(s, Pools[s.pool].entries)
  IN  {o \in first : o.ended} \cup
      {[then EXCEPT !.asked = @ \/ o.asked] :
         o \in {x \in first : ~ x.ended}, then \in Search(s, Fallback(s))}

\* insertPendingPiece: before the first of lower priority.
\* (InsertedBeforeEqual goes before the first that is not higher.)
InsertedBeforeEqual(q, p) ==
  LET after == {i \in DOMAIN q : p.priority >= q[i].priority}
      i == Min(after \cup {Len(q) + 1})
  IN  InsertAt(q, i, p)
Inserted(q, p) ==
  LET after == {i \in DOMAIN q : p.priority > q[i].priority}
      i == Min(after \cup {Len(q) + 1})
  IN  InsertAt(q, i, p)

Child(s, a) ==
  LET shared == IF Elements[current.piece.element].rigid THEN current.piece.box.y1 + Local(s)
                ELSE IF Elements[a.element].rigid THEN BoxOf(s, a).y1 + a.jigsaw.pos[2]
                ELSE SurfaceFor(s) + Half(DeltaY(s, a.jigsaw))
      ground == IF Elements[a.element].rigid
                THEN current.piece.ground - DeltaY(s, a.jigsaw) ELSE 1
  IN  [piece |-> [element |-> a.element, rotation |-> a.rotation,
                  origin |-> OriginOf(s, a.element, a.jigsaw), box |-> BoxOf(s, a),
                  ground |-> ground, source |-> current.index, front |-> s.front,
                  junctions |-> <<[x |-> s.pos[1], y |-> shared - a.jigsaw.pos[2] + ground]>>],
       junction |-> [x |-> InFront(s)[1], y |-> shared - Local(s) + current.piece.ground]]

\* pieces[state.pieceIndex] = state.piece: the queue and the loop hold copies.
\* (WrittenBackNever leaves the junction with the copy.)
WrittenBackNever(source) == pieces
WrittenBack(source) ==
  [pieces EXCEPT ![current.index] = source]

Attach(s, a, surface) ==
  LET child == Child(s, a)
      source == [current.piece EXCEPT !.junctions = Append(@, child.junction)]
      opened == IF IsInside(s) /\ current.inner = None
                THEN Append(spaces, NewSpace(current.piece.box)) ELSE spaces
      inner == IF IsInside(s) /\ current.inner = None THEN Len(opened) ELSE current.inner
      space == IF IsInside(s) THEN inner ELSE current.space
  IN /\ pieces' = Append(WrittenBack(source), child.piece)
     /\ spaces' = [opened EXCEPT ![space].cutouts = @ \cup {child.piece.box}]
     /\ queue' = IF Elements[a.element].jigsaws # {} /\ current.depth + 1 <= def.size
                 THEN Inserted(queue, [piece |-> child.piece, index |-> Len(pieces) + 1,
                                       depth |-> current.depth + 1, priority |-> s.placement,
                                       space |-> space])
                 ELSE queue
     /\ current' = [current EXCEPT !.piece = source, !.inner = inner, !.todo = @ \ {s},
                      !.surface = surface]

\* Jigsaws of higher selection priority are tried first; one whose pool does not
\* load is passed over.
TryJigsaw ==
  /\ current # None
  /\ \E s \in current.todo :
     /\ \A t \in current.todo : t.selection <= s.selection
     /\ \E o \in IF s.pool \in DOMAIN Pools THEN Outcomes(s)
               ELSE {[found |-> None, asked |-> FALSE]} :
        LET surface == IF o.asked THEN SurfaceFor(s) ELSE current.surface IN
        \/ o.found # None /\ Attach(s, o.found, surface)
        \/ /\ o.found = None
           /\ current' = [current EXCEPT !.todo = @ \ {s}, !.surface = surface]
           /\ UNCHANGED <<pieces, spaces, queue>>
  /\ UNCHANGED <<def, stage>>

Leave ==
  /\ current # None
  /\ current.todo = {}
  /\ current' = None
  /\ UNCHANGED <<def, stage, pieces, spaces, queue>>

Finish ==
  /\ stage = "assembling"
  /\ current = None
  /\ queue = <<>>
  /\ stage' = "built"
  /\ UNCHANGED <<def, pieces, spaces, queue, current>>

\* The start is stored in the start cache and never changed.
Stored == stage \in {"built", "failed"} /\ UNCHANGED vars

Next == Fail \/ RootAlone \/ Begin \/ Take \/ TryJigsaw \/ Leave \/ Finish \/ Stored

Spec == Init /\ [][Next]_vars
-----------------------------------------------------------------------------
Boxes == [x1 : Int, y1 : Int, x2 : Int, y2 : Int]
IsPiece(p) ==
  /\ p.element \in DOMAIN Elements /\ p.rotation \in Rotations
  /\ p.box \in Boxes /\ p.box.x1 = p.origin[1] /\ p.box.y1 = p.origin[2]
  /\ p.source \in 0 .. Len(pieces) /\ p.ground \in Int

\* The variables have their types: indices point into pieces and spaces, and
\* what waits or is tried is within the depth limit.
TypeOK ==
  /\ def \in Candidates
  /\ stage \in {"new", "assembling", "built", "failed"}
  /\ \A i \in DOMAIN pieces : IsPiece(pieces[i])
  /\ \A i \in DOMAIN spaces : spaces[i].allowed \in Boxes /\ spaces[i].cutouts \subseteq Boxes
  /\ \A i \in DOMAIN queue : /\ queue[i].index \in DOMAIN pieces
                            /\ queue[i].space \in DOMAIN spaces
                            /\ queue[i].depth \in 0 .. def.size
  /\ current # None => /\ current.index \in DOMAIN pieces
                       /\ {current.space} \cup ({current.inner} \ {None}) \subseteq DOMAIN spaces
                       /\ current.depth \in 0 .. def.size - 1

Apart(b, c) == b.x2 < c.x1 \/ c.x2 < b.x1 \/ b.y2 < c.y1 \/ c.y2 < b.y1
LiesIn(b, c) == c.x1 <= b.x1 /\ b.x2 <= c.x2 /\ c.y1 <= b.y1 /\ b.y2 <= c.y2

\* No two pieces share a block, unless the later one stands wholly inside the
\* earlier one: the collision spaces of all the pieces, the shared one and
\* those opened for the inside of a piece, keep the boxes apart
\* (buildPlannedStructure, canFit and occupy), also after boxes were expanded.
PiecesApart ==
  \A i, j \in DOMAIN pieces :
    i < j => Apart(pieces[i].box, pieces[j].box) \/ LiesIn(pieces[j].box, pieces[i].box)

ChildrenOf(i) == {j \in DOMAIN pieces : pieces[j].source = i}

\* The terrain is shaped around the junctions of the pieces: a piece has one
\* junction to its source and one to each piece attached to it, in order; the
\* two ends of a junction face each other, at one height where both pieces are
\* rigid. The copies of a piece in the queue and in the loop have the junctions
\* of the stored one (buildPlannedStructure writes state.piece back).
JunctionsLinked ==
  /\ \A i \in DOMAIN pieces :
       LET own == IF pieces[i].source = 0 THEN 0 ELSE 1
       IN  /\ Len(pieces[i].junctions) = own + Cardinality(ChildrenOf(i))
           /\ \A j \in ChildrenOf(i) :
                LET child == pieces[j]
                    here == pieces[i].junctions[own + Cardinality({k \in ChildrenOf(i) : k <= j})]
                    there == child.junctions[1]
                IN  /\ here.x = there.x + StepX[child.front]
                    /\ there.x \in pieces[i].box.x1 .. pieces[i].box.x2
                    /\ here.x \in child.box.x1 .. child.box.x2
                    /\ Elements[pieces[i].element].rigid /\ Elements[child.element].rigid
                         => here.y = there.y + StepY[child.front]
  /\ \A i \in DOMAIN queue : queue[i].piece = pieces[queue[i].index]
  /\ current # None => current.piece = pieces[current.index]

\* Pieces wait in order of their placement priority, those of one priority in
\* the order in which they were attached (insertPendingPiece).
QueueByPriority ==
  \A i, j \in DOMAIN queue :
    i < j => \/ queue[i].priority > queue[j].priority
             \/ queue[i].priority = queue[j].priority /\ queue[i].index < queue[j].index

\* A chunk looks for starts at most backreach chunks away: no piece reaches
\* further (buildStructurePlanners takes the distance from the start template
\* and MaxDistanceFromCenter alone, before anything is assembled).
BackreachOf(c) ==
  Max({(Elements[c.start].size[1] - 1) \div ChunkWidth, (2 * c.distance) \div ChunkWidth})
Backreach == BackreachOf(def)
WithinBackreach ==
  \A i \in DOMAIN pieces :
    /\ pieces[i].box.x1 \div ChunkWidth >= -Backreach
    /\ pieces[i].box.x2 \div ChunkWidth <= Backreach

\* What makes it so, before anything is assembled: the start template and the
\* range around its middle end within the backreach, wherever it is anchored.
InChunks(c, x1, x2) == x1 \div ChunkWidth >= -BackreachOf(c) /\ x2 \div ChunkWidth <= BackreachOf(c)
StartsNear ==
  \A c \in Candidates, r \in Rotations : \A anchor \in AnchorsOf(c, r) :
    LET from == -anchor[1]
        to == from + Elements[c.start].size[1] - 1
        middle == Half(from + to)
    IN  /\ InChunks(c, from, to)
        /\ c.distance > 0 => InChunks(c, middle - c.distance, middle + c.distance)
=============================================================================
