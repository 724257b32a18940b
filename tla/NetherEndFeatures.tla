------------------------- MODULE NetherEndFeatures -------------------------
(***************************************************************************)
(* The features of the nether and of the end (features.go). All of them    *)
(* keep to the source chunk. endSpikesForSeed is the constant Spikes, and  *)
(* the void platform lies about a column of its own.                       *)
(***************************************************************************)
EXTENDS LandformFeatures

CONSTANTS
  Spikes,          \* endSpikesForSeed: x, radius and height of each
  SpikeFoot,       \* the row the spikes stand on: 45
  PlatformX,       \* the column of the middle of the void platform: 8
  PlatformRadius   \* 16

ASSUME SpikesAssumption ==
  /\ \A s \in Spikes : s.x \in Int /\ s.radius \in Nat /\ s.height \in Int
  /\ SpikeFoot \in Int /\ PlatformX \in Int /\ PlatformRadius \in Nat

Netherrack == {"netherrack", "nylium", "blackstone"}
Anchor == {"netherrack", "basalt", "blackstone"}
AirHere(t, p) == InChunk(t, p) /\ LocalAt(t, p) = "air"
Scatter(t, o, i) == <<o[1] + Swing(t, i, 2), o[2] + Swing(t, i + 1, 1)>>

-----------------------------------------------------------------------------
\* executeHugeFungus: a stem up to what cannot be replaced, and a hat cut to
\* the chunk about the height the stem was to have.
HugeFungus(t, o) ==
  LET height == Min({StalkMin + Roll(t, 0, 2), MaxY - o[2]})
      Gives(p) == Matches(t, p, {"air", "plant", "leaves"})
      stem == Put(t, Upward(o, Extent(o, 1, height, Gives)), "stem")
      top == o[2] + height - 1
      hat == {p \in {<<o[1] + dx, y>> : dx \in -2 .. 2, y \in top - 3 .. top} :
                (p[2] = top - 3 => Magnitude(p[1] - o[1]) <= 1) /\ Matches(stem, p, {"air", "plant", "leaves"})}
  IN  IF ~ /\ InChunk(t, o) /\ o[2] > MinY + 1 /\ Gives(o) /\ height > 0
           /\ At(t, Above(o, -1)) = "nylium"
      THEN Refuse(t)
      ELSE Reply(Put(stem, hat, "wart_block"), TRUE)

NetherForestVegetation(t, o) ==
  LET p == Scatter(t, o, 0)
  IN  IF AirHere(t, p) /\ Matches(t, Above(p, -1), {"nylium"})
      THEN Reply(Put(t, {p}, "plant"), TRUE) ELSE Refuse(t)

\* executeTwistingVines and executeWeepingVines: a try, up or down, to the
\* first cell that is not air.
VineRun(t, p, step, n) ==
  LET Free(q) == AirHere(t, q) /\ (step = -1 => q[2] > MinY)
      cells == {Above(p, step * i) : i \in 0 .. Extent(p, step, n, Free) - 1}
  IN  Reply(Put(t, cells, "nether_vine"), cells # {})
TwistingVines(t, o) ==
  LET p == Scatter(t, o, 0)
  IN  IF AirHere(t, p) /\ Matches(t, Above(p, -1), Netherrack) THEN VineRun(t, p, 1, 1 + Roll(t, 2, 3))
      ELSE Refuse(t)
WeepingVines(t, o) ==
  LET p == Scatter(t, o, 0)
  IN  IF AirHere(t, p) /\ Matches(t, Above(p, 1), {"netherrack", "wart_block"})
      THEN VineRun(t, p, -1, 1 + Roll(t, 2, 3)) ELSE Refuse(t)

NetherrackReplaceBlobs(t, o) ==
  LET hit == {p \in Blob(o, 1 + Roll(t, 0, 2)) : Matches(t, p, {"netherrack"})}
  IN  Reply(Put(t, hit, "blackstone"), hit # {})

\* executeGlowstoneBlob: at the origin, or beside glowstone of the same chunk.
Glow(t, o, p) ==
  LET beside == \E q \in Faces(p) : Matches(t, q, {"glowstone"})
  IN  IF AirHere(t, p) /\ (p = o \/ beside) THEN Reply(Put(t, {p}, "glowstone"), TRUE) ELSE t
GlowstoneBlob(t, o) ==
  LET tries == <<o, <<o[1] + Swing(t, 0, 1), o[2] - Roll(t, 1, 2)>>, <<o[1] + Swing(t, 1, 1), o[2] - Roll(t, 2, 3)>>>>
      order == IF Roll(t, 0, 2) = 0 THEN tries ELSE Reverse(tries)
  IN  IF AirHere(t, o) /\ Matches(t, Above(o, 1), Anchor)
      THEN FoldLeft(LAMBDA u, p : Glow(u, o, p), Refuse(t), order) ELSE Refuse(t)

\* executeBasaltPillar: from under the ceiling down through air.
BasaltPillar(t, o) ==
  LET ends == {y \in o[2] .. MaxY : y = MaxY \/ LocalAt(t, <<o[1], y>>) # "air"}
      roof == <<o[1], Min(ends)>>
      Free(p) == AirHere(t, p)
      n == Extent(Above(roof, -1), -1, 2 + Roll(t, 0, 3), Free)
  IN  IF InChunk(t, o) /\ Matches(t, roof, Anchor)
      THEN Reply(Put(t, Downward(Above(roof, -1), n), "basalt"), n > 0) ELSE Refuse(t)

BasaltColumns(t, o) ==
  LET reach == 1 + Roll(t, 0, 2)
      Free(p) == AirHere(t, p)
      Foot(x) == LET rows == {y \in MinY + 1 .. o[2] : LocalAt(t, <<x, y>>) # "air"}
                 IN  <<x, IF rows = {} THEN MinY ELSE Max(rows)>>
      columns == {x \in o[1] - reach .. o[1] + reach : InChunk(t, <<x, o[2]>>) /\ Matches(t, Foot(x), Anchor)}
      cells == UNION {Upward(Above(Foot(x), 1), Extent(Above(Foot(x), 1), 1, 1 + Roll(t, 1, 2), Free)) :
                        x \in columns}
  IN  Reply(Put(t, cells, "basalt"), cells # {})

Delta(t, o) ==
  LET size == 1 + Roll(t, 0, 2)
      rim == Roll(t, 1, 2)
      Gives(p) == Matches(t, p, {"air", "lava", "netherrack", "magma"})
      cells == {p \in Square(o, size + rim, 0, 0) : Gives(p)}
      contents == {p \in cells : Distance(p, o) <= size}
  IN  Reply(Put(Put(t, contents, "lava"), cells \ contents, "magma"), cells # {})

-----------------------------------------------------------------------------
\* The end.

\* A branch goes on through air and the chunk, and flowers above the cell it
\* reached, be that the one that stopped it.
Branch(t, top, dir, length) ==
  LET Cell(i) == Right(top, dir * i)
      n == Cardinality({i \in 1 .. length : \A j \in 1 .. i : AirHere(t, Cell(j))})
      flower == Above(Cell(IF n < length THEN n + 1 ELSE n), 1)
      grown == Put(t, {Cell(i) : i \in 1 .. n}, "chorus_plant")
      bloomed == IF AirHere(grown, flower) THEN Put(grown, {flower}, "chorus_flower") ELSE grown
  IN  [bloomed EXCEPT !.ok = t.ok \/ n > 0 \/ AirHere(grown, flower)]
ChorusPlant(t, o) ==
  LET Free(p) == AirHere(t, p)
      n == Extent(o, 1, 2 + Roll(t, 0, 2), Free)
      top == IF n = 0 THEN o ELSE Above(o, n - 1)
      stem == Reply(Put(t, Upward(o, n), "chorus_plant"), n > 0)
      branched == FoldLeft(LAMBDA u, i : Branch(u, top, IF Roll(t, i, 2) = 0 THEN -1 ELSE 1, 1 + Roll(t, i + 1, 3)),
                           stem, [i \in 1 .. 1 + Roll(t, 1, 2) |-> i])
  IN  IF ~ (InChunk(t, o) /\ Matches(t, Above(o, -1), {"end_stone", "chorus_plant"})) THEN Refuse(t)
      ELSE IF branched.ok THEN branched
      ELSE Reply(Put(branched, {Above(top, 1)}, "chorus_flower"), TRUE)

EndIsland(t, o) ==
  LET r == 1 + Roll(t, 0, 3)
      cells == {p \in Square(o, r, 1 - r, 0) : InChunk(t, p) /\ Magnitude(p[1] - o[1]) <= r + p[2] - o[2]}
  IN  Reply(Put(t, cells, "end_stone"), cells # {})

\* The platform is a figure of fixed columns; each chunk it reaches lays its own.
VoidStartPlatform(t, o) ==
  LET cells == {p \in {<<x, o[2] + 3>> : x \in t.v.source * W .. t.v.source * W + W - 1} :
                  Magnitude(p[1] - PlatformX) <= PlatformRadius}
  IN  IF Magnitude(t.v.source - Chunk(PlatformX)) > 1 THEN Reply(t, TRUE)
      ELSE IF o[2] + 3 \notin Rows THEN Refuse(t)
      ELSE Reply(Put(t, cells, "stone"), cells # {})

\* executeEndSpike: of every spike what lies in the source chunk, with bedrock
\* and fire on top where the middle does.
SpikePart(t, s) ==
  {<<x, y>> : x \in {x \in s.x - s.radius .. s.x + s.radius : Chunk(x) = t.v.source},
              y \in Max({MinY, SpikeFoot}) .. Min({MaxY, s.height})}
EndSpike(t, o) ==
  LET tops == {<<s.x, s.height + 1>> : s \in {s \in Spikes : InChunk(t, <<s.x, s.height + 1>>)}}
      stone == UNION {SpikePart(t, s) : s \in Spikes}
  IN  Reply(Put(Put(Put(t, stone, "obsidian"), {Above(p, -1) : p \in tops}, "bedrock"), tops, "fire"),
            stone \cup tops # {})

EndPlatform(t, o) ==
  LET floor == {p \in Square(o, 2, -1, -1) : InChunk(t, p)}
      room == {p \in Square(o, 2, 0, 3) : InChunk(t, p)}
  IN  Reply(Put(Put(t, floor, "obsidian"), room, "air"), floor \cup room # {})

EndGateway(t, o) ==
  IF InChunk(t, o) THEN Reply(Put(PutInChunk(t, Faces(o), "bedrock"), {o}, "end_gateway"), TRUE) ELSE Refuse(t)
=============================================================================
