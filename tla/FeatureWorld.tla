---------------------------- MODULE FeatureWorld ----------------------------
(***************************************************************************)
(* The ground features are placed on, and the ways features read and write *)
(* it (features.go, tree_region.go). The model has one horizontal axis, x, *)
(* and the height, y: a cell is <<x, y>> and a chunk W columns. A block is *)
(* its name; what a draw of the random generator gives is read off a few   *)
(* dice, the same for every run of the same feature instance.              *)
(*                                                                         *)
(* A try t carries the world w it works on (a column of blocks for each x), *)
(* the view v it has of it, the dice d, what it reports (ok) and the cells *)
(* it aimed at but did not hit (stray). A feature is an operator from a try and an origin to the try   *)
(* it leaves.                                                              *)
(***************************************************************************)
EXTENDS Integers, Sequences, FiniteSets, FiniteSetsExt, SequencesExt

CONSTANTS
  W,            \* columns of a chunk: 16
  MinY, MaxY    \* the heights of the dimension

ASSUME SizeAssumption == W \in Nat \ {0} /\ MinY \in Int /\ MaxY \in Int /\ MinY < MaxY

Chunk(x) == x \div W
Rows == MinY .. MaxY

\* A feature of chunk source is run for chunk centre, with the region of the
\* chunks around centre (activeTreeRegion) or with the source chunk alone.
View(source, centre, region) == [source |-> source, centre |-> centre, region |-> region]

Start(w, v, d) == [w |-> w, v |-> v, d |-> d, ok |-> FALSE, stray |-> {}]
Roll(t, i, n) == (t.d[1 + (i % Len(t.d))] + (i \div Len(t.d))) % n
Swing(t, i, r) == Roll(t, i, 2 * r + 1) - r
Reply(t, b) == [t EXCEPT !.ok = b]
Refuse(t) == Reply(t, FALSE)

-----------------------------------------------------------------------------
\* Where a feature may go.
InChunk(t, p) == Chunk(p[1]) = t.v.source /\ p[2] \in Rows
Near(t, x) == Chunk(x) \in t.v.centre - 1 .. t.v.centre + 1
InScopeAnyColumn(t, p) == IF t.v.region THEN p[2] \in Rows ELSE InChunk(t, p)
InScope(t, p) == IF t.v.region THEN Near(t, p[1]) /\ p[2] \in Rows ELSE InChunk(t, p)

\* Where a read or a write of p lands: in the chunk of the region p lies in,
\* otherwise in the source chunk, at the remainder of its column.
Wrapped(t, p) == <<t.v.source * W + (p[1] % W), p[2]>>
Home(t, p) == IF t.v.region /\ Near(t, p[1]) THEN p ELSE Wrapped(t, p)

At(t, p) == IF p[2] \in Rows THEN t.w[Home(t, p)[1]][p[2]] ELSE "none"
LocalAt(t, p) == IF p[2] \in Rows THEN t.w[Wrapped(t, p)[1]][p[2]] ELSE "none"

\* Writes block k to the cells S, and without the check of S to be in scope.
Put(t, S, k) ==
  LET homes == {Home(t, p) : p \in S}
      columns == {c[1] : c \in homes}
  IN  [t EXCEPT !.w = [x \in DOMAIN @ |-> IF x \notin columns THEN @[x]
                                         ELSE [y \in Rows |-> IF <<x, y>> \in homes THEN k ELSE @[x][y]]],
                !.stray = @ \cup {p \in S : Home(t, p) # p \/ p[2] \notin Rows}]
PutInChunk(t, S, k) == Put(t, {p \in S : InChunk(t, p)}, k)
PutInScope(t, S, k) == Put(t, {p \in S : InScope(t, p)}, k)

-----------------------------------------------------------------------------
\* Shapes, and the cells beside a cell.
Right(p, n) == <<p[1] + n, p[2]>>
Above(p, n) == <<p[1], p[2] + n>>
Magnitude(n) == IF n < 0 THEN -n ELSE n
Square(o, r, low, high) == {<<o[1] + dx, o[2] + dy>> : dx \in -r .. r, dy \in low .. high}
Distance(p, q) == Magnitude(p[1] - q[1]) + Magnitude(p[2] - q[2])
Blob(o, r) == {p \in Square(o, r, -r, r) : Distance(p, o) <= r}
Upward(o, n) == {Above(o, i) : i \in 0 .. n - 1}
Downward(o, n) == {Above(o, -i) : i \in 0 .. n - 1}
Sides(p) == {Right(p, -1), Right(p, 1)}
Faces(p) == Sides(p) \cup {Above(p, 1), Above(p, -1)}

\* How many of the n cells from o on in direction step (1 or -1) are good, up to
\* the first that is not.
Extent(o, step, n, Good(_)) ==
  Cardinality({i \in 0 .. n - 1 : \A j \in 0 .. i : Good(Above(o, step * j))})

\* The cells S from the bottom up, and in a row from west to east.
Before(p, q) == p[2] < q[2] \/ (p[2] = q[2] /\ p[1] < q[1])
Rising(S) == [i \in 1 .. Cardinality(S) |-> CHOOSE p \in S : Cardinality({q \in S : Before(q, p)}) = i - 1]

-----------------------------------------------------------------------------
\* What blocks are. Filled is isSolidRID, Solid what stands (javaSolidName), and
\* Kept the tag features_cannot_replace.
Open(k) == k \in {"air", "water"}
Fluid(k) == k \in {"water", "lava"}
Filled(k) == k \notin {"air", "water", "lava", "none"}
Thin == {"kelp", "kelp_plant", "seagrass", "plant", "vine", "snow", "pointed_dripstone",
         "sea_pickle", "vein", "bamboo", "hanging_roots", "bud"}
Solid(k) == Filled(k) /\ k \notin Thin
Stone == {"stone", "sculk", "dripstone_block"}
Soil == {"dirt", "grass", "podzol", "mud", "moss", "rooted_dirt"}
Kept == {"bedrock", "mob_spawner", "chest"}

\* columnScanDown, and the heightmaps made of it: one above the highest cell
\* of column x that counts, at most MaxY, and MinY if none does.
Highest(t, x, Counts(_)) ==
  LET hits == {y \in Rows : Counts(At(t, <<x, y>>))}
  IN  IF hits = {} THEN MinY ELSE Min({MaxY, Max(hits) + 1})
NotAir(k) == k # "air"
WorldSurface(t, x) == Highest(t, x, NotAir)
OceanFloor(t, x) == Highest(t, x, Solid)

\* heightmapPlacementYAtPos: MinY where column x is out of scope.
Placement(t, x, y) == IF InScope(t, <<x, MinY>>) THEN y ELSE MinY

\* isSolidInChunk
FilledInScope(t, p) == InScope(t, p) /\ Filled(At(t, p))

\* findFloorAndCeiling: the nearest filled cells below and above, or <<>>.
FloorAndCeiling(t, p, range) ==
  LET down == {y \in Max({MinY, p[2] - range}) .. p[2] : FilledInScope(t, <<p[1], y>>)}
      up == {y \in p[2] .. Min({MaxY, p[2] + range}) : FilledInScope(t, <<p[1], y>>)}
  IN  IF down = {} \/ up = {} THEN <<>>
      ELSE IF Min(up) - Max(down) > 2 THEN <<Max(down), Min(up)>> ELSE <<>>

\* testBlockPredicate: what lies outside the source chunk matches nothing.
Matches(t, p, kinds) == InChunk(t, p) /\ At(t, p) \in kinds
=============================================================================
