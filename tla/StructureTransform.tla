------------------------- MODULE StructureTransform -------------------------
(***************************************************************************)
(* How positions and block states of a template are turned and mirrored    *)
(* when it is put into the world (structure_transform.go,                  *)
(* structure_processors.go). A position has x and z, a rotation counts     *)
(* quarters clockwise. A piece is a record with origin, rotation, mirror,  *)
(* pivot, size and useTemplateTransform.                                   *)
(***************************************************************************)
EXTENDS Integers, SequencesExt

\* Directions and what turns them. The rotations count quarters clockwise.
Clockwise == [north |-> "east", east |-> "south", south |-> "west", west |-> "north"]
TurnedBy(d, n) == FoldLeft(LAMBDA e, i : Clockwise[e], d, [i \in 1 .. n |-> i])
MirroredDir(d, m) ==
  CASE m = "front_back" /\ d = "east" -> "west"
    [] m = "front_back" /\ d = "west" -> "east"
    [] m = "left_right" /\ d = "north" -> "south"
    [] m = "left_right" /\ d = "south" -> "north"
    [] OTHER -> d

\* transformStructurePos, and rotateStructurePos for the pieces of jigsaws.
MirroredPos(pos, m) ==
  CASE m = "left_right" -> <<pos[1], -pos[2]>>
    [] m = "front_back" -> <<-pos[1], pos[2]>>
    [] OTHER -> pos
AroundPivot(pos, n, pivot) ==
  CASE n = 1 -> <<pivot[1] + pivot[2] - pos[2], pivot[2] - pivot[1] + pos[1]>>
    [] n = 2 -> <<2 * pivot[1] - pos[1], 2 * pivot[2] - pos[2]>>
    [] n = 3 -> <<pivot[1] - pivot[2] + pos[2], pivot[1] + pivot[2] - pos[1]>>
    [] OTHER -> pos
WithinSize(pos, n, size) ==
  CASE n = 1 -> <<size[2] - 1 - pos[2], pos[1]>>
    [] n = 2 -> <<size[1] - 1 - pos[1], size[2] - 1 - pos[2]>>
    [] n = 3 -> <<pos[2], size[1] - 1 - pos[1]>>
    [] OTHER -> pos
Plus(a, b) == <<a[1] + b[1], a[2] + b[2]>>
WorldPos(p, pos) ==
  Plus(p.origin, IF p.useTemplateTransform THEN AroundPivot(MirroredPos(pos, p.mirror), p.rotation, p.pivot)
                 ELSE WithinSize(pos, p.rotation, p.size))

\* structureTemplateWorldBox: the box around two opposite corners.
WorldBox(p) ==
  LET first == WorldPos(p, <<0, 0>>)
      last == WorldPos(p, <<p.size[1] - 1, p.size[2] - 1>>)
      Low(i) == Min({first[i], last[i]})
      High(i) == Max({first[i], last[i]})
  IN  [x0 |-> Low(1), z0 |-> Low(2), x1 |-> High(1), z1 |-> High(2)]

\* The states of blocks that have a direction: facing (also direction, the
\* ascending shapes of rails and the front of an orientation), the four sides a
\* fence or a wire connects to, the two ends of a flat rail, the axis of a log, and
\* the sixteen rotations of signs, from south clockwise.
MirroredState(s, m) ==
  CASE s.key = "facing" -> [s EXCEPT !.of = MirroredDir(@, m)]
    [] s.key \in {"sides", "rail"} -> [s EXCEPT !.of = {MirroredDir(d, m) : d \in @}]
    [] s.key = "rotation" /\ m = "front_back" -> [s EXCEPT !.of = (16 - @) % 16]
    [] s.key = "rotation" /\ m = "left_right" -> [s EXCEPT !.of = (24 - @) % 16]
    [] OTHER -> s
TurnedState(s, n) ==
  CASE s.key = "facing" -> [s EXCEPT !.of = TurnedBy(@, n)]
    [] s.key \in {"sides", "rail"} -> [s EXCEPT !.of = {TurnedBy(d, n) : d \in @}]
    [] s.key = "rotation" -> [s EXCEPT !.of = (@ + 4 * n) % 16]
    [] s.key = "axis" /\ n % 2 = 1 -> [s EXCEPT !.of = IF @ = "x" THEN "z" ELSE "x"]
    [] OTHER -> s
\* applyPlacedStructureStateTransform. (TurnedThenMirrored swaps the two.)
TurnedThenMirrored(s, m, n) == MirroredState(TurnedState(s, n), m)
PlacedState(s, m, n) == TurnedState(MirroredState(s, m), n)
=============================================================================
