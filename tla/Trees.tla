-------------------------------- MODULE Trees --------------------------------
(***************************************************************************)
(* Trees (tree_runtime.go): where a tree may grow, its roots, its trunk,   *)
(* its foliage and what decorates it, and which leaves are left to decay.  *)
(* A species names its placers and sizes. A tree is a try with the cells   *)
(* of its four placement records and the tops its foliage hangs from. The  *)
(* four horizontal directions are two here, and the order of a Java hash   *)
(* set is from west to east, within rows from the bottom up.               *)
(***************************************************************************)
EXTENDS FeatureWorld

LeafKinds == {"leaves", "loose"}
ReplaceableByTrees == {"plant", "vine", "water", "seagrass", "hanging_roots"} \cup LeafKinds
RootsGrowThrough == {"mud", "roots", "vine"}
LogsGrowThrough == {"mud", "roots", "log", "vine"} \cup LeafKinds

\* newTreeRuntime
Plant(t, s) ==
  [w |-> t.w, v |-> t.v, d |-> t.d, ok |-> t.ok, stray |-> t.stray, species |-> s,
   roots |-> {}, logs |-> {}, leaves |-> {}, hung |-> {}, tops |-> <<>>]
Harvest(r, b) == [w |-> r.w, v |-> r.v, d |-> r.d, ok |-> b, stray |-> r.stray]

\* blockNameAt of a tree: out of scope there is air.
Seen(r, p) == IF InScope(r, p) THEN At(r, p) ELSE "air"
AirAt(r, p) == Seen(r, p) = "air"
ValidTreePos(r, p) == InScope(r, p) /\ At(r, p) \in {"air"} \cup ReplaceableByTrees
LogMayGo(r, p) == \/ ValidTreePos(r, p)
                  \/ r.species.trunk = "upwards_branching" /\ Seen(r, p) \in LogsGrowThrough
TrunkIsFree(r, p) == LogMayGo(r, p) \/ Seen(r, p) = "log"
CanPlaceRoot(r, p) == ValidTreePos(r, p) \/ Seen(r, p) \in RootsGrowThrough

\* setRootState, setTrunkState, setFoliageState and setDecorationState.
Record(r, S, k, part) ==
  LET placed == {p \in S : InScope(r, p)}
  IN  [Put(r, placed, k) EXCEPT ![part] = @ \cup placed]
PlaceLogs(r, S) == Record(r, {p \in S : LogMayGo(r, p)}, "log", "logs")
BelowTrunk(r, S) ==
  Record(r, {p \in S : r.species.forceDirt \/ At(r, p) \notin {"dirt", "rooted_dirt", "podzol", "mud", "moss"}}, "dirt", "logs")
Top(p, extra, wide) == [at |-> p, extra |-> extra, wide |-> wide]
WithTops(r, tops) == [r EXCEPT !.tops = @ \o tops]
Turned(r, i) == IF Roll(r, i, 2) = 0 THEN -1 ELSE 1
Truncated(n, m) == IF n < 0 THEN -((-n) \div m) ELSE n \div m

-----------------------------------------------------------------------------
\* Room to grow.

SizeAtHeight(s, height, y) ==
  IF y < s.limit THEN s.lower
  ELSE IF s.layers = 3 /\ y < height - s.upperLimit THEN s.middle ELSE s.upper

\* maxFreeTreeHeight: two below the first row that is blocked.
MaxFreeHeight(r, o, height) ==
  LET s == r.species
      Blocked(y) == \E dx \in -SizeAtHeight(s, height, y) .. SizeAtHeight(s, height, y) :
                      LET p == <<o[1] + dx, o[2] + y>>
                      IN  ~ TrunkIsFree(r, p) \/ (~ s.ignoreVines /\ Seen(r, p) = "vine")
      rows == {y \in 0 .. height + 1 : Blocked(y)}
  IN  IF rows = {} THEN height ELSE Min(rows) - 2

-----------------------------------------------------------------------------
\* Mangrove roots: placeRoots plans the roots of both sides before it writes any.
RootStep(r, p, dir, trunk, i) ==
  LET width == Distance(p, trunk)
      below == Above(p, -1)
      aside == Right(p, dir)
      skew == Roll(r, i, 3) = 0
  IN  IF width > r.species.rootWidth THEN {below}
      ELSE IF width > r.species.rootWidth - 3
      THEN IF skew THEN {below, Above(aside, -1)} ELSE {below}
      ELSE IF skew \/ Roll(r, i + 1, 2) = 1 THEN {below} ELSE {aside}

\* simulateMangroveRoots: level by level the cells reached, and whether they end
\* before the roots grow too long.
RootWay(r, trunk, dir) ==
  LET length == r.species.rootLength
      reach[n \in 0 .. length] ==
        IF n = 0 THEN {Right(trunk, dir)}
        ELSE UNION {{q \in RootStep(r, p, dir, trunk, n) : CanPlaceRoot(r, q)} : p \in reach[n - 1]}
      cells == UNION {reach[n] : n \in 1 .. length}
  IN  [cells |-> cells, fits |-> reach[length] = {} /\ Cardinality(cells) <= length]

PlaceRoot(r, p) ==
  LET placed == Record(r, {p}, "roots", "roots")
      above == Above(p, 1)
  IN  IF ~ CanPlaceRoot(r, p) THEN r
      ELSE IF Roll(r, p[1], 2) = 0 /\ AirAt(placed, above) THEN Record(placed, {above}, "moss", "roots")
      ELSE placed

PlaceRoots(r, o, trunk) ==
  LET column == {Above(o, y) : y \in 0 .. trunk[2] - o[2] - 1}
      west == RootWay(r, trunk, -1)
      east == RootWay(r, trunk, 1)
      order == <<Above(trunk, -1)>> \o Reverse(Rising(east.cells)) \o <<Right(trunk, 1)>>
               \o Reverse(Rising(west.cells)) \o <<Right(trunk, -1)>>
  IN  IF ~ r.species.rooted THEN Reply(r, TRUE)
      ELSE IF (\E p \in column : ~ CanPlaceRoot(r, p)) \/ ~ west.fits \/ ~ east.fits THEN Refuse(r)
      ELSE Reply(FoldLeft(PlaceRoot, r, order), TRUE)

-----------------------------------------------------------------------------
\* Trunks. Each leaves the tops its foliage hangs from.

StraightTrunk(r, o, h) ==
  WithTops(PlaceLogs(BelowTrunk(r, {Above(o, -1)}), Upward(o, h)), <<Top(Above(o, h), 0, FALSE)>>)

\* One above the highest log placed; the sentinel -1, and every row below 0,
\* stands for no log at all.
ForkTop(r, cells, x, extra) ==
  LET ends == {p[2] + 1 : p \in {q \in cells : LogMayGo(r, q)}}
  IN  IF ends = {} THEN <<>> ELSE IF Max(ends) < 0 THEN <<>> ELSE <<Top(<<x, Max(ends)>>, extra, FALSE)>>
ForkingTrunk(r, o, h) ==
  LET lean == Turned(r, 0)
      leanHeight == h - Roll(r, 1, 4) - 1
      leanSteps == 3 - Roll(r, 2, 3)
      Lean(y) == IF y < leanHeight THEN 0 ELSE Min({leanSteps, y - Max({0, leanHeight}) + 1})
      stem == {<<o[1] + lean * Lean(y), o[2] + y>> : y \in 0 .. h - 1}
      rooted == BelowTrunk(r, {Above(o, -1)})
      first == leanHeight - Roll(r, 3, 2) - 1
      rows == {y \in first .. Min({h - 1, first + Roll(r, 4, 3)}) : y >= 1}
      branch == {<<o[1] - lean * (y - Max({1, first}) + 1), o[2] + y>> : y \in rows}
      grown == PlaceLogs(rooted, stem)
  IN  LET one == WithTops(grown, ForkTop(rooted, stem, o[1] + lean * Lean(h - 1), 1))
      IN  IF Turned(r, 3) = lean THEN one
          ELSE WithTops(PlaceLogs(one, branch), ForkTop(grown, branch, o[1] - lean * Cardinality(rows), 0))

GiantTrunk(r, o, h) ==
  WithTops(PlaceLogs(BelowTrunk(r, {Above(o, -1), <<o[1] + 1, o[2] - 1>>}),
                     Upward(o, h) \cup Upward(Right(o, 1), h - 1)),
           <<Top(Above(o, h), 0, TRUE)>>)

DarkOakTrunk(r, o, h) ==
  LET lean == Turned(r, 0)
      leanHeight == h - Roll(r, 1, 4)
      leanSteps == 2 - Roll(r, 2, 3)
      Lean(y) == IF y < leanHeight THEN 0 ELSE Min({leanSteps, y - Max({0, leanHeight}) + 1})
      rooted == BelowTrunk(r, {Above(o, -1), <<o[1] + 1, o[2] - 1>>})
      bases == {p \in {<<o[1] + lean * Lean(y), o[2] + y>> : y \in 0 .. h - 1} :
                  InScope(rooted, p) /\ At(rooted, p) \in {"air"} \cup LeafKinds}
      top == o[2] + h - 1
      sides == {x \in {o[1] - 1, o[1] + 2} : Roll(r, x % 3, 3) = 0}
      props == UNION {Downward(<<x, top - 1>>, Roll(r, 1, 3) + 2) : x \in sides}
  IN  WithTops(PlaceLogs(PlaceLogs(rooted, bases \cup {Right(p, 1) : p \in bases}), props),
               <<Top(<<o[1] + lean * Lean(h - 1), top>>, 0, TRUE)>>
               \o [i \in 1 .. Cardinality(sides) |-> Top(Rising({<<x, top>> : x \in sides})[i], 0, FALSE)])

MegaJungleTrunk(r, o, h) ==
  LET step == 2 + Roll(r, 1, 4)
      rows == {y \in (h \div 2) + 1 .. h - 2 - Roll(r, 0, 4) : (h - 2 - Roll(r, 0, 4) - y) % step = 0}
      X(b) == Truncated(3 + 2 * Turned(r, 2) * b, 2)
      arms == {<<o[1] + X(b), o[2] + y - 3 + (b \div 2)>> : b \in 0 .. 4, y \in rows}
      ends == Rising({<<o[1] + X(4), o[2] + y>> : y \in rows})
  IN  WithTops(PlaceLogs(GiantTrunk(r, o, h), arms), [i \in DOMAIN ends |-> Top(ends[i], -2, FALSE)])

BendingTrunk(r, o, h) ==
  LET dir == Turned(r, 0)
      Bend(i) == Cardinality({j \in 0 .. i : j + 1 >= h - 1 + Roll(r, 1 + j, 2)})
      Cell(i) == <<o[1] + dir * Bend(i), o[2] + i>>
      last == <<o[1] + dir * Bend(h - 1), o[2] + h>>
      bend == [i \in 1 .. r.species.bend + 1 |-> Right(last, dir * (i - 1))]
      crowned == SelectSeq([i \in 1 .. h |-> <<i - 1, Cell(i - 1)>>], LAMBDA c : c[1] >= r.species.bare)
      valid == {p \in {Cell(i) : i \in 0 .. h - 1} \cup ToSet(bend) : ValidTreePos(r, p)}
  IN  WithTops(PlaceLogs(BelowTrunk(r, {Above(o, -1)}), valid),
               [i \in DOMAIN crowned |-> Top(crowned[i][2], 0, FALSE)] \o [i \in DOMAIN bend |-> Top(bend[i], 0, FALSE)])

\* placeUpwardsBranch
UpwardsBranch(r, log, h, i) ==
  LET dir == Turned(r, i)
      first == Max({0, Roll(r, i + 1, 2) - 1})
      steps == {n \in first .. Min({h - 1, first + Roll(r, i + 2, 3)}) : n >= 1}
      Cell(n) == <<log[1] + dir * (n - Max({1, first}) + 1), log[2] + n>>
      tip == IF steps = {} THEN log[2] + first
             ELSE Cell(Max(steps))[2] + IF LogMayGo(r, Cell(Max(steps))) THEN 1 ELSE 0
      x == log[1] + dir * Cardinality(steps)
      along == Rising({Cell(n) : n \in steps})
  IN  WithTops(PlaceLogs(r, ToSet(along)),
               [n \in DOMAIN along |-> Top(along[n], 0, FALSE)]
               \o IF tip - log[2] > 1 THEN <<Top(<<x, tip>>, 0, FALSE), Top(<<x, tip - 2>>, 0, FALSE)>> ELSE <<>>)
UpwardsBranchingTrunk(r, o, h) ==
  LET Log(u, i) ==
        LET p == Above(o, i - 1)
            placed == PlaceLogs(u, {p})
        IN  IF LogMayGo(u, p) /\ InScope(u, p) /\ i < h /\ Roll(u, i, 2) = 0
            THEN UpwardsBranch(placed, p, h, i) ELSE placed
  IN  WithTops(FoldLeft(Log, r, [i \in 1 .. h |-> i]), IF h > 0 THEN <<Top(Above(o, h), 0, FALSE)>> ELSE <<>>)

\* generateCherryBranch: out from the trunk, and a way to the end of the branch,
\* sideways or upright first.
CherryBranch(r, o, h, dir, from, onward, i) ==
  LET end == h - 1 + Roll(r, i, 2) - 1
      away == onward \/ end < from
      out == 1 + Roll(r, i + 1, 2) + IF away THEN 2 ELSE 1
      turn == IF Roll(r, i + 2, 2) = 0 THEN IF away THEN 2 ELSE 1 ELSE out
      Between(a, b) == Min({a, b}) .. Max({a, b})
      cells == {<<o[1] + dir * n, o[2] + from>> : n \in 1 .. turn}
               \cup {<<o[1] + dir * turn, o[2] + y>> : y \in Between(from, end)}
               \cup {<<o[1] + dir * n, o[2] + end>> : n \in turn .. out}
  IN  WithTops(PlaceLogs(r, cells), <<Top(<<o[1] + dir * out, o[2] + end + 1>>, 0, FALSE)>>)
CherryTrunk(r, o, h) ==
  LET first == Max({0, h - 3 + Roll(r, 0, 2)})
      second == Max({0, h - 3}) + IF Max({0, h - 3}) >= first THEN 1 ELSE 0
      branches == 1 + Roll(r, 1, 3)
      height == IF branches = 3 THEN h ELSE IF branches = 2 THEN Max({first, second}) + 1 ELSE first + 1
      dir == Turned(r, 2)
      stem == PlaceLogs(BelowTrunk(r, {Above(o, -1)}), Upward(o, height))
      crowned == WithTops(stem, IF branches = 3 THEN <<Top(Above(o, height), 0, FALSE)>> ELSE <<>>)
      one == CherryBranch(crowned, o, h, dir, first, first < height - 1, 0)
  IN  IF branches = 1 THEN one ELSE CherryBranch(one, o, h, -dir, second, second < height - 1, 1)

\* makeFancyLimb: the cells of the line from p to q, by the longer axis.
Limb(p, q) ==
  LET dx == q[1] - p[1]
      dy == q[2] - p[2]
      steps == Max({Magnitude(dx), Magnitude(dy)})
      Share(i, d) == (2 * i * d + steps) \div (2 * steps)
  IN  IF steps = 0 THEN {p} ELSE {<<p[1] + Share(i, dx), p[2] + Share(i, dy)>> : i \in 0 .. steps}
FancyTrunk(r, o, h) ==
  LET height == h + 2
      trunkTop == (618 * height) \div 1000
      rooted == BelowTrunk(r, {Above(o, -1)})
      Clear(p, q) == p = q \/ \A c \in Limb(p, q) : TrunkIsFree(rooted, c)
      shaped == SelectSeq([i \in 1 .. Max({0, height - 4}) |-> height - 4 - i], LAMBDA y : 10 * y >= 3 * height)
      starts == [i \in DOMAIN shaped |-> <<o[1] + Swing(r, i, 2), o[2] + shaped[i] - 1>>]
      Base(p) == <<o[1], Min({o[2] + trunkTop, Truncated(1000 * p[2] - 381 * Magnitude(p[1] - o[1]), 1000)})>>
      kept == SelectSeq(starts, LAMBDA p : Clear(p, Above(p, 5)) /\ Clear(Base(p), p))
      coords == <<<<Above(o, height - 5), Above(o, trunkTop)>>>> \o [i \in DOMAIN kept |-> <<kept[i], Base(kept[i])>>]
      high == SelectSeq(coords, LAMBDA c : 5 * (c[2][2] - o[2]) >= height)
      limbs == UNION {IF high[i][1] = high[i][2] THEN {} ELSE Limb(high[i][2], high[i][1]) : i \in DOMAIN high}
  IN  WithTops(PlaceLogs(rooted, Limb(o, Above(o, trunkTop)) \cup limbs),
               [i \in DOMAIN high |-> Top(high[i][1], 0, FALSE)])

PlaceTrunk(r, o, h) ==
  CASE r.species.trunk = "straight" -> StraightTrunk(r, o, h)
    [] r.species.trunk = "forking" -> ForkingTrunk(r, o, h)
    [] r.species.trunk = "giant" -> GiantTrunk(r, o, h)
    [] r.species.trunk = "dark_oak" -> DarkOakTrunk(r, o, h)
    [] r.species.trunk = "mega_jungle" -> MegaJungleTrunk(r, o, h)
    [] r.species.trunk = "bending" -> BendingTrunk(r, o, h)
    [] r.species.trunk = "upwards_branching" -> UpwardsBranchingTrunk(r, o, h)
    [] r.species.trunk = "cherry" -> CherryTrunk(r, o, h)
    [] r.species.trunk = "fancy" -> FancyTrunk(r, o, h)

-----------------------------------------------------------------------------
\* Foliage.

\* tryPlaceLeaf of the cells of a row, whose corners a skip may leave out.
LeafRow(r, at, y, radius, wide) ==
  LET corner == IF Roll(r, y + 9, 2) = 0 /\ radius > 0 THEN {-radius, radius + IF wide THEN 1 ELSE 0} ELSE {}
      cells == {<<at[1] + dx, at[2] + y>> : dx \in (-radius .. radius + IF wide THEN 1 ELSE 0) \ corner}
  IN  Record(r, {p \in cells : ValidTreePos(r, p)}, "leaves", "leaves")
LeafRows(r, top, rows) ==
  FoldLeft(LAMBDA u, row : IF row[2] < 0 THEN u ELSE LeafRow(u, top.at, row[1], row[2], top.wide), r, rows)

\* The rows from dy = high down to low, each with the radius that Radius gives.
Layers(high, low, Radius(_)) == [i \in 1 .. Max({0, high - low + 1}) |-> <<high + 1 - i, Radius(high + 1 - i)>>]

\* The radius grows to a bound that itself grows, and falls back each time.
SpruceRows(high, low, first, leafRadius) ==
  LET Next(s, y) ==
        [rows |-> Append(s.rows, <<y, s.now>>),
         now |-> IF s.now >= s.most THEN s.least ELSE s.now + 1,
         least |-> IF s.now >= s.most THEN 1 ELSE s.least,
         most |-> IF s.now >= s.most THEN Min({s.most + 1, leafRadius}) ELSE s.most]
  IN  FoldLeft(Next, [rows |-> <<>>, now |-> first, least |-> 0, most |-> 1],
               [i \in 1 .. Max({0, high - low + 1}) |-> high + 1 - i]).rows
PineRows(high, low, leafRadius) ==
  LET Next(s, y) ==
        [rows |-> Append(s.rows, <<y, s.now>>),
         now |-> IF s.now >= 1 /\ y = low + 1 THEN s.now - 1
                 ELSE IF s.now < leafRadius THEN s.now + 1 ELSE s.now]
  IN  FoldLeft(Next, [rows |-> <<>>, now |-> 0], [i \in 1 .. Max({0, high - low + 1}) |-> high + 1 - i]).rows

\* placeLeavesRowWithHangingLeavesBelow: under leaves of this tree, one or two,
\* near the trunk.
HangingLeaves(r, at, y, radius) ==
  LET Hang(u, p) ==
        IF /\ Above(p, 1) \in u.leaves /\ Distance(p, Above(at, -1)) < 7 /\ Roll(u, p[1], 2) = 0
           /\ ValidTreePos(u, p)
        THEN LET one == Record(u, {p}, "leaves", "leaves")
                 more == {q \in {Above(p, -1)} : Roll(u, p[1] + 1, 2) = 0 /\ Distance(q, Above(at, -1)) < 7
                                                 /\ ValidTreePos(one, q)}
             IN  Record(one, more, "leaves", "leaves")
        ELSE u
  IN  IF radius < 0 THEN r
      ELSE FoldLeft(Hang, r, [i \in 1 .. 2 |-> <<at[1] + (2 * i - 3) * radius, at[2] + y - 1>>])

PlaceFoliage(r, top, height, radius) ==
  LET kind == r.species.foliage
      off == Roll(r, 3, 2)
      reach == radius + top.extra
      BlobRadius(y) == Max({reach - 1 - Truncated(y, 2), 0})
      FancyRadius(y) == IF y = off \/ y = off - height THEN radius ELSE radius + 1
      BushRadius(y) == reach - 1 - y
      JungleRadius(y) == reach + 1 - y
      jungleHeight == IF top.wide THEN height ELSE 1 + Roll(r, 4, 2)
      Smooth(y) == reach + (7 * y) \div (2 * Max({height, 1}))
      Jagged(y) == Smooth(y) + IF y > 0 /\ Smooth(y) = (IF y = height - off THEN 0 ELSE Smooth(y + 1))
                                  /\ (top.at[2] - y) % 2 = 0 THEN 1 ELSE 0
      pine == [i \in 1 .. height + 1 |-> <<-(height - off - i + 1), Jagged(height - off - i + 1)>>]
      above == [top EXCEPT !.at = Above(@, off)]
      cherry == LeafRows(r, above, <<<<height - 3, reach - 3>>, <<height - 4, reach - 2>>>>
                                   \o Layers(height - 5, 0, LAMBDA y : reach - 1))
      fringe == HangingLeaves(LeafRows(cherry, above, <<<<-1, reach - 1>>>>), above.at, -1, reach - 1)
      spread == {<<top.at[1] + Roll(r, i, Max({radius, 1})) - Roll(r, i + 2, Max({radius, 1})),
                   top.at[2] + Roll(r, i + 1, Max({height, 1})) - Roll(r, i + 3, Max({height, 1}))>> : i \in 0 .. 2}
  IN  CASE kind = "blob" -> LeafRows(r, top, Layers(off, off - height, BlobRadius))
        [] kind = "fancy" -> LeafRows(r, top, Layers(off, off - height, FancyRadius))
        [] kind = "bush" -> LeafRows(r, top, Layers(off, off - height, BushRadius))
        [] kind = "spruce" -> LeafRows(r, top, SpruceRows(off, -height, Roll(r, 4, 2), reach))
        [] kind = "pine" -> LeafRows(r, top, PineRows(off, off - height, reach))
        [] kind = "acacia" -> LeafRows(r, above, <<<<-1 - height, reach>>, <<-height, radius - 1>>, <<0, reach - 1>>>>)
        [] kind = "dark_oak" ->
             LeafRows(r, above, IF top.wide THEN <<<<-1, radius + 2>>, <<0, radius + 3>>, <<1, radius + 2>>>>
                                                 \o IF Roll(r, 4, 2) = 0 THEN <<<<2, radius>>>> ELSE <<>>
                                ELSE <<<<-1, radius + 2>>, <<0, radius + 1>>>>)
        [] kind = "random_spread" -> Record(r, {p \in spread : ValidTreePos(r, p)}, "leaves", "leaves")
        [] kind = "cherry" -> HangingLeaves(LeafRows(fringe, above, <<<<-2, reach - 2>>>>), above.at, -2, reach - 2)
        [] kind = "jungle" -> LeafRows(r, top, Layers(off, off - jungleHeight, JungleRadius))
        [] kind = "mega_pine" -> LeafRows(r, top, pine)

FoliageHeight(s, height, roll) ==
  CASE s.foliage = "spruce" -> Max({4, height - roll})
    [] s.foliage = "acacia" -> 0
    [] s.foliage = "dark_oak" -> 4
    [] OTHER -> s.foliageHeight

-----------------------------------------------------------------------------
\* Decorators.

Lowest(r) ==
  LET roots == Rising(r.roots)
      logs == Rising(r.logs)
  IN  IF roots = <<>> THEN logs
      ELSE IF logs = <<>> THEN roots
      ELSE IF roots[1][2] = logs[1][2] THEN logs \o roots ELSE roots

Beehive(r) ==
  LET logs == Rising(r.logs)
      leaves == Rising(r.leaves)
      y == IF leaves # <<>> THEN Max({leaves[1][2] - 1, logs[1][2] + 1})
           ELSE Min({logs[1][2] + 1 + Roll(r, 0, 3), logs[Len(logs)][2]})
      sides == UNION {Sides(p) : p \in {q \in r.logs : q[2] = y}}
      free == SelectSeq(Rising(sides), LAMBDA p : AirAt(r, p))
  IN  IF logs = <<>> \/ Roll(r, 1, 3) # 0 THEN r
      ELSE IF free = <<>> THEN r ELSE Record(r, {free[1]}, "bee_nest", "hung")

\* placeOnGroundDecorator. The height of the ground is read from the column of
\* the source chunk that the cell wraps to, not from the cell's.
PlaceOnGround(r) ==
  LET low == Lowest(r)
      row == {p[1] : p \in {q \in ToSet(low) : q[2] = low[1][2]}}
      cells == {<<x, low[1][2] - Roll(r, 0, 2)>> : x \in Min(row) - 2 .. Max(row) + 2}
      MotionBlocking(k) == k # "air" /\ k \notin LeafKinds /\ k \notin Thin
      Surface(x) == LET hits == {y \in Rows : MotionBlocking(LocalAt(r, <<x, y>>))}
                    IN  IF hits = {} THEN MinY ELSE Min({MaxY, Max(hits) + 1})
      hit == {Above(p, 1) : p \in {q \in cells : /\ Seen(r, Above(q, 1)) \in {"air", "vine"}
                                                 /\ FilledInScope(r, q)
                                                 /\ Surface(q[1]) <= q[2] + 1
                                                 /\ Roll(r, q[1], 2) = 0}}
  IN  IF low = <<>> THEN r ELSE Record(r, hit, "litter", "hung")

LeafVine(r) ==
  LET Hang(u, p) ==
        LET Free(q) == AirAt(u, q)
        IN  IF Free(p) /\ Roll(u, p[1] + p[2] + 8, 3) = 0
            THEN Record(u, Downward(p, 1 + Extent(Above(p, -1), -1, 4, Free)), "vine", "hung") ELSE u
      leaves == Rising(r.leaves)
  IN  FoldLeft(Hang, r, FlattenSeq([i \in DOMAIN leaves |-> <<Right(leaves[i], -1), Right(leaves[i], 1)>>]))
TrunkVine(r) ==
  Record(r, {p \in UNION {Sides(q) : q \in r.logs} : AirAt(r, p) /\ Roll(r, p[1] + p[2] + 8, 3) > 0}, "vine", "hung")

AttachedToLogs(r, logs) ==
  Record(r, {p \in {Right(q, Turned(r, q[2] + 8)) : q \in logs} : AirAt(r, p) /\ Roll(r, p[1] + 8, 2) = 0}, "fungus", "hung")

\* placeAttachedToLeavesDecorator: no two of them within the exclusion radius.
AttachedToLeaves(r) ==
  LET Attach(s, p) ==
        IF p \in s.barred \/ Roll(r, p[1] + p[2] + 8, 2) # 0 \/ ~ AirAt(s.r, p) THEN s
        ELSE [r |-> Record(s.r, {p}, "propagule", "hung"), barred |-> s.barred \cup Square(p, 1, 0, 0)]
      leaves == Rising(r.leaves)
  IN  FoldLeft(Attach, [r |-> r, barred |-> {}], [i \in DOMAIN leaves |-> Above(leaves[i], -1)]).r

\* placeAlterGroundDecorator: about each of the lowest cells, the highest ground
\* of the columns within reach becomes podzol.
AlterGround(r) ==
  LET low == Lowest(r)
      columns == UNION {x - 3 .. x + 4 : x \in {p[1] : p \in {q \in ToSet(low) : q[2] = low[1][2]}}}
      Turf(x) == {y \in low[1][2] - 3 .. low[1][2] + 2 :
                      /\ Seen(r, <<x, y>>) \in Soil
                      /\ \A z \in y + 1 .. low[1][2] + 2 :
                           Seen(r, <<x, z>>) \notin Soil /\ (z < low[1][2] => AirAt(r, <<x, z>>))}
  IN  IF low = <<>> THEN r
      ELSE Record(r, UNION {{<<x, y>> : y \in Turf(x)} : x \in columns}, "podzol", "hung")

\* placePaleMossDecorator: hangers under logs and leaves, each down to a length
\* that is rolled. The pale_moss_patch it may run beside the tree, a vegetation
\* patch like any other, is left out.
PaleMoss(r) ==
  LET Hang(u, q) ==
        LET p == Above(q, -1)
            Free(c) == AirAt(u, c)
        IN  IF Free(p) /\ Roll(u, p[1] + p[2] + 8, 2) = 0
            THEN Record(u, Downward(p, 1 + Extent(Above(p, -1), -1, Roll(u, p[1], 3), Free)), "pale_moss", "hung") ELSE u
  IN  FoldLeft(Hang, r, Rising(r.logs) \o Rising(r.leaves))

CreakingHeart(r) ==
  LET enclosed == SelectSeq(Rising(r.logs), LAMBDA p : \A q \in Faces(p) : Seen(r, q) = "log")
  IN  IF Roll(r, 0, 2) # 0 \/ enclosed = <<>> THEN r ELSE Record(r, {enclosed[1]}, "creaking_heart", "hung")

Decorate(r, decorator) ==
  CASE decorator = "beehive" -> Beehive(r)
    [] decorator = "place_on_ground" -> PlaceOnGround(r)
    [] decorator = "leave_vine" -> LeafVine(r)
    [] decorator = "trunk_vine" -> TrunkVine(r)
    [] decorator = "attached_to_logs" -> AttachedToLogs(r, r.logs)
    [] decorator = "attached_to_leaves" -> AttachedToLeaves(r)
    [] decorator = "alter_ground" -> AlterGround(r)
    [] decorator = "pale_moss" -> PaleMoss(r)
    [] decorator = "creaking_heart" -> CreakingHeart(r)

-----------------------------------------------------------------------------
\* updateLeaves: in the box about everything the tree wrote, the leaves that no
\* way of six leaves joins to one of its logs are marked for an update.
Box(S) ==
  LET xs == {p[1] : p \in S}
      ys == {p[2] : p \in S}
  IN  {<<x, y>> : x \in Min(xs) .. Max(xs), y \in Min(ys) .. Max(ys)}
Joined(r, leaves) ==
  LET wave[n \in 0 .. 6] ==
        IF n = 0 THEN r.logs
        ELSE LET near == wave[n - 1]
             IN  near \cup {p \in UNION {Faces(q) : q \in near} : p \in leaves}
  IN  wave[6]
UpdateLeavesNever(r) == r
UpdateLeaves(r) ==
  LET written == r.roots \cup r.logs \cup r.leaves \cup r.hung
      found == {p \in Box(written) : InScope(r, p) /\ At(r, p) \in LeafKinds}
      joined == Joined(r, found)
  IN  IF written = {} THEN r ELSE Put(Put(r, found \cap joined, "leaves"), found \ joined, "loose")

-----------------------------------------------------------------------------
\* executeJavaTree: the foliage of every top of the trunk, then the decorators and
\* the leaves' distances, unless neither log nor leaf was placed.
Leafed(r, height, radius) == FoldLeft(LAMBDA u, top : PlaceFoliage(u, top, height, radius), r, r.tops)
Decorated(r, s) ==
  IF r.logs = {} /\ r.leaves = {} THEN Harvest(r, FALSE)
  ELSE Harvest(UpdateLeaves(FoldLeft(Decorate, r, s.decorators)), TRUE)
Raised(r, s, trunk, free, height, radius) ==
  IF r.ok THEN Decorated(Leafed(PlaceTrunk(r, trunk, free), height, radius), s) ELSE Harvest(r, FALSE)
Tree(t, o, s) ==
  LET r == Plant(t, s)
      height == s.base + Roll(t, 0, s.heightRand + 1)
      foliageHeight == FoliageHeight(s, height, Roll(t, 1, 2))
      radius == s.radius + IF s.foliage = "pine" THEN Roll(t, 2, Max({height - foliageHeight + 1, 1})) ELSE 0
      trunk == Above(o, IF s.rooted THEN 1 + Roll(t, 1, 2) ELSE 0)
      free == MaxFreeHeight(r, trunk, height)
  IN  IF \/ height <= 0 \/ o[2] < MinY + 1 \/ trunk[2] + height > MaxY
         \/ free < height /\ free < s.minClipped
         THEN Harvest(r, FALSE)
      ELSE Raised(PlaceRoots(r, o, trunk), s, trunk, free, foliageHeight, radius)

\* executeFallenTree: a stump, whatever stands there, and a log beside it if all
\* of it finds room over ground with gaps of at most two.
FallenTree(t, o, s) ==
  LET r == Plant(t, s)
      Sturdy(u, p) == FilledInScope(u, Above(p, -1))
      stump == Record(r, {o}, "log", "logs")
      decked == IF "attached_to_logs" \in ToSet(s.decorators) THEN AttachedToLogs(stump, {o}) ELSE stump
      dir == Turned(t, 0)
      length == 1 + Roll(t, 1, 3)
      x == o[1] + dir * (2 + Roll(t, 2, 2))
      rests == {i \in 0 .. 5 : ValidTreePos(decked, <<x, o[2] + 1 - i>>) /\ Sturdy(decked, <<x, o[2] + 1 - i>>)}
      start == <<x, o[2] + 1 - IF rests = {} THEN 6 ELSE Min(rests)>>
      log == [i \in 1 .. length |-> Right(start, dir * (i - 1))]
      gap == \E i \in 3 .. length : \A j \in i - 2 .. i : ~ Sturdy(decked, log[j])
      placed == Record(decked, ToSet(log), "log", "logs")
  IN  IF gap \/ \E i \in DOMAIN log : ~ ValidTreePos(decked, log[i]) THEN Harvest(decked, TRUE)
      ELSE Harvest(IF "attached_to_logs" \in ToSet(s.decorators) THEN AttachedToLogs(placed, ToSet(log)) ELSE placed, TRUE)
=============================================================================
