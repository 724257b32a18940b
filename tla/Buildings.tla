------------------------------ MODULE Buildings ------------------------------
(***************************************************************************)
(* The structures that are built box by box rather than from templates:    *)
(* stronghold, fortress, monument, mansion, jungle temple and desert       *)
(* pyramid (proceduralStructureBuilder and its callers). A box replaces    *)
(* what earlier ones laid; the whole is turned when it is put into the     *)
(* world. Materials are what the properties tell apart: wall, air, fluid,  *)
(* trim (stairs, slabs, torches, bars, fences) and the fixtures. Heights   *)
(* count from the builder's own zero; the height of the ground is left     *)
(* out.                                                                    *)
(***************************************************************************)
EXTENDS Integers, Sequences, FiniteSets

CONSTANTS
  Houses,       \* what is built: names of DOMAIN Design
  Depths        \* bound: how many blocks of a foundation there are above the ground

VARIABLES
  house,        \* what is built
  turned,       \* its rotation
  slope,        \* how deep the ground is, near the builder's zero and far from it
  laid,         \* what has been laid, in order
  tolay         \* what is still to be laid

houseVars == <<house, turned, slope, laid, tolay>>

-----------------------------------------------------------------------------
\* A part: boxes of one material, laid at once; deep if each is the top of a column
\* that goes down to the ground, chance if random numbers say whether it is laid.
B(x0, y0, z0, x1, y1, z1) == [x0 |-> x0, y0 |-> y0, z0 |-> z0, x1 |-> x1, y1 |-> y1, z1 |-> z1]
At(x, y, z) == B(x, y, z, x, y, z)
Lay(what, boxes) == [what |-> what, boxes |-> boxes, deep |-> FALSE, chance |-> FALSE]
Inside(b) == B(b.x0 + 1, b.y0 + 1, b.z0 + 1, b.x1 - 1, b.y1 - 1, b.z1 - 1)
\* fillSelectedBox and fillHollowBox with a wall around something.
Room(b, filling) == <<Lay("wall", {b}), Lay(filling, {Inside(b)})>>
Foundation(columns, y) ==
  [what |-> "wall", boxes |-> {At(c[1], y, c[2]) : c \in columns}, deep |-> TRUE, chance |-> FALSE]

\* buildStrongholdStructure: rooms, the openings between them, and what stands
\* in each.
Openings ==
  {B(17, 1, 8, 19, 3, 8), B(10, 1, 13, 12, 3, 15), B(24, 1, 13, 26, 3, 15),
   B(17, 1, 18, 19, 3, 19), B(17, 1, 28, 19, 3, 29)}
Frames == {At(x, 3, z) : x \in 17 .. 19, z \in {36, 40}} \cup {At(x, 3, z) : x \in {16, 20}, z \in 37 .. 39}
Shelves == {12, 13, 15, 16, 17, 19, 20, 21, 23, 24, 25, 26}
Stronghold ==
  Room(B(14, 0, 0, 22, 8, 8), "air") \o Room(B(12, 0, 8, 24, 7, 18), "air")
  \o Room(B(0, 0, 11, 10, 9, 27), "air") \o Room(B(26, 0, 11, 36, 7, 21), "air")
  \o Room(B(14, 0, 19, 22, 6, 28), "air") \o Room(B(12, 0, 29, 24, 8, 44), "air")
  \o <<Lay("air", Openings),
       Lay("trim", {B(17, 6 - i, 1 + i, 19, 6 - i, 1 + i) : i \in 0 .. 4}),
       Lay("wall", {B(17, 5 - i, 1 + i, 19, 5 - i, 1 + i) : i \in 0 .. 3}),
       Lay("wall", {B(16, 0, 10, 20, 0, 16)}),
       Lay("trim", {At(x, 2, z) : x \in {15, 21}, z \in {12, 16}} \cup {At(18, 1, 13), At(18, 1, 15)}),
       \* the library
       Lay("wall", {B(1, 0, 12, 9, 0, 26)} \cup {B(x, 1, z, x, 5, z) : x \in {1, 9}, z \in {14, 18, 22}}),
       Lay("shelf", {B(x, 1, z, x, 5, z) : x \in {1, 9}, z \in Shelves}
                    \cup {B(3, 1, z, 7, 3, z) : z \in {14, 18, 22}}),
       Lay("wall", {B(2, 6, 13, 8, 6, 25)}),
       Lay("trim", {B(x, 7, 14, x, 7, 24) : x \in {2, 8}} \cup {B(3, 7, z, 7, 7, z) : z \in {13, 25}}),
       Lay("ladder", {B(8, 1, 24, 8, 6, 24)}),
       Lay("trim", {At(5, 1, 20), At(5, 7, 20)}),
       \* the prison
       Lay("wall", {B(27, 0, 12, 35, 0, 20)}), Lay("wall", {B(30, 1, 13, 30, 4, 19)}),
       Lay("trim", {B(29, 1, 14, 29, 4, 18), B(31, 1, 14, 31, 4, 18)}),
       Lay("air", {B(28, 1, 14, 28, 3, 16), B(32, 1, 17, 32, 3, 19)}),
       Lay("trim", {At(33, 2, 14), At(33, 2, 18)}),
       \* the corridor and the room of the portal
       Lay("wall", {B(16, 0, 20, 20, 0, 27)}),
       Lay("trim", {At(x, 1, z) : x \in {17, 19}, z \in {22, 25}} \cup {At(18, 2, 24)}),
       Lay("wall", {B(13, 0, 30, 23, 0, 43), B(15, 1, 33, 21, 1, 40)}),
       Lay("fluid", {B(16, 1, 34, 20, 1, 39)}),
       Lay("trim", {B(16, n, 30 + n, 20, n, 30 + n) : n \in 1 .. 3}
                   \cup {At(x, 3, 33 + 2 * n) : x \in {13, 23}, n \in 0 .. 4}
                   \cup {At(15 + 2 * n, 3, 44) : n \in 0 .. 3}),
       Lay("frame", Frames),
       [Lay("portal", {B(17, 3, 37, 19, 3, 39)}) EXCEPT !.chance = TRUE],
       Lay("trim", {At(18, 3, 34), At(15, 5, 35), At(21, 5, 35)}),
       Lay("wall", {B(12, 6, 8, 24, 6, 8), B(12, 6, 18, 24, 6, 18), B(14, 6, 29, 22, 6, 29)}),
       Lay("trim", {At(x, 2, z) : x \in {14, 22}, z \in {31, 41}} \cup {At(17, 1, 34), At(19, 1, 34)})>>

\* buildFortressStructure: a keep, two crossing bridges through it, four towers.
Fortress ==
  Room(B(14, 5, 14, 28, 11, 28), "air")
  \o <<Lay("air", {B(19, 6, z, 23, 8, z) : z \in {14, 28}} \cup {B(x, 6, 19, x, 8, 23) : x \in {14, 28}}),
       Lay("wall", {B(18, 5, 18, 24, 5, 24)}),
       Lay("crop", {B(19, 6, 19, 23, 7, 23)}),
       Lay("trim", {B(16, 9, z, 26, 9, z) : z \in {16, 26}} \cup {B(x, 9, 17, x, 9, 25) : x \in {16, 26}}),
       Lay("wall", {B(19, 5, 0, 23, 5, 42)}), Lay("air", {B(19, 6, 0, 23, 8, 42)}),
       Lay("wall", {B(0, 5, 19, 42, 5, 23)}), Lay("air", {B(0, 6, 19, 42, 8, 23)}),
       Lay("trim", {B(x, 6, 6 * n, x, 8, 6 * n) : x \in {19, 23}, n \in 0 .. 7}),
       Lay("wall", {B(19, 9, 6 * n, 23, 9, 6 * n) : n \in 0 .. 7}),
       Lay("trim", {B(6 * n, 6, z, 6 * n, 8, z) : z \in {19, 23}, n \in 0 .. 7}),
       Lay("wall", {B(6 * n, 9, 19, 6 * n, 9, 23) : n \in 0 .. 7}),
       Lay("trim", {B(x, 6, 0, x, 6, 42) : x \in {18, 24}}), Lay("air", {B(x, 6, 1, x, 6, 41) : x \in {19, 23}}),
       Lay("trim", {B(0, 6, z, 42, 6, z) : z \in {18, 24}}), Lay("air", {B(1, 6, z, 41, 6, z) : z \in {19, 23}})>>
  \o Room(B(17, 5, 0, 25, 10, 6), "air") \o Room(B(17, 5, 36, 25, 10, 42), "air")
  \o Room(B(0, 5, 17, 6, 10, 25), "air") \o Room(B(36, 5, 17, 42, 10, 25), "air")
  \o <<Lay("trim", {B(18, 6, z, 24, 6, z) : z \in {6, 36}} \cup {B(x, 6, 18, x, 6, 24) : x \in {6, 36}}),
       Foundation(({19, 23} \X {0, 42}) \cup ({0, 42} \X {19, 23}) \cup ({16, 26} \X {16, 26}), 4)>>

\* buildOceanMonumentStructure: three shells, four wings, lanterns.
Monument ==
  Room(B(0, 0, 0, 57, 14, 57), "fluid") \o Room(B(10, 2, 10, 47, 17, 47), "fluid")
  \o Room(B(18, 4, 18, 39, 21, 39), "fluid")
  \o Room(B(22, 3, 0, 35, 10, 12), "fluid") \o Room(B(22, 3, 45, 35, 10, 57), "fluid")
  \o Room(B(0, 3, 22, 12, 10, 35), "fluid") \o Room(B(45, 3, 22, 57, 10, 35), "fluid")
  \o <<Lay("wall", {B(20, 5, 20, 37, 5, 37), B(23, 6, 23, 34, 6, 34)}),
       Lay("lantern", {At(x, 4, z) : x \in {6, 51}, z \in {6, 51}}
                      \cup {At(28, 8, z) : z \in {20, 28, 36}} \cup {At(20, 8, 28), At(36, 8, 28), At(28, 14, 28)}
                      \cup {At(14, 10, 28), At(42, 10, 28), At(28, 10, 14), At(28, 10, 42)}),
       Foundation(({6, 51} \X {6, 51}) \cup ({14, 43} \X {14, 43}) \cup ({28} \X {6, 51}) \cup ({6, 51} \X {28}), 0)>>

\* buildWoodlandMansionStructure: a plinth, two storeys, four wings, roof.
Mansion ==
  <<Lay("wall", {B(0, 0, 0, 44, 2, 44)})>>
  \o Room(B(0, 3, 0, 44, 9, 44), "air") \o Room(B(4, 10, 4, 40, 16, 40), "air")
  \o Room(B(16, 3, 0, 28, 9, 10), "air") \o Room(B(16, 3, 34, 28, 9, 44), "air")
  \o Room(B(0, 3, 16, 10, 9, 28), "air") \o Room(B(34, 3, 16, 44, 9, 28), "air")
  \o <<Lay("wall", {B(2, 3, 2, 42, 3, 42), B(6, 10, 6, 38, 10, 38)}),
       Lay("air", {B(10, 4, 10, 34, 8, 34), B(12, 11, 12, 32, 15, 32)}),
       Lay("wall", {B(12, 4, 12, 32, 4, 14), B(12, 4, 30, 32, 4, 32), B(12, 4, 15, 14, 4, 29),
                    B(30, 4, 15, 32, 4, 29), B(20, 4, 20, 24, 8, 24)}),
       Lay("trim", {B(0, 17, z, 44, 17, z) : z \in {0, 44}} \cup {B(x, 17, 1, x, 17, 43) : x \in {0, 44}}),
       Lay("wall", {B(1, 18, 1, 43, 18, 43)} \cup {B(4 * n, 17, z, 4 * n, 21, z) : z \in {4, 40}, n \in 1 .. 10}
                   \cup {B(x, 17, 4 * n, x, 21, 4 * n) : x \in {4, 40}, n \in 2 .. 9}
                   \cup {B(8, 21, z, 36, 21, z) : z \in {8, 36}} \cup {B(x, 21, 9, x, 21, 35) : x \in {8, 36}}),
       Foundation(({8 * n : n \in 0 .. 5} \X {0, 44}) \cup ({0, 44} \X {8 * n : n \in 0 .. 5}) \cup {<<44, 44>>}, 1)>>

\* buildJungleTempleBlocks: the temple, then the traps under it. (JungleDugLast
\* digs the tunnels when the traps are in place.)
JungleHouse ==
  <<Lay("wall", {B(0, -4, 0, 11, 0, 14), B(2, 1, 2, 9, 2, 2), B(2, 1, 12, 9, 2, 12), B(2, 1, 3, 2, 2, 11),
                 B(9, 1, 3, 9, 2, 11), B(1, 3, 1, 10, 6, 1), B(1, 3, 13, 10, 6, 13), B(1, 3, 2, 1, 6, 12),
                 B(10, 3, 2, 10, 6, 12), B(2, 3, 2, 9, 3, 12), B(2, 6, 2, 9, 6, 12), B(3, 7, 3, 8, 7, 11),
                 B(4, 8, 4, 7, 8, 10)}),
    Lay("air", {B(3, 1, 3, 8, 2, 11), B(4, 3, 6, 7, 3, 9), B(2, 4, 2, 9, 5, 12), B(4, 6, 5, 7, 6, 9),
                B(5, 7, 6, 6, 7, 8), B(5, 1, 2, 6, 2, 2), B(5, 2, 12, 6, 2, 12), B(5, 5, 1, 6, 5, 1),
                B(5, 5, 13, 6, 5, 13)} \cup {At(x, 5, z) : x \in {1, 10}, z \in {5, 9}}),
    Lay("wall", {B(x, 4, z, x, 5, z) : x \in {2, 4, 7, 9}, z \in {0, 14}} \cup {B(5, 6, 0, 6, 6, 0)}
                \cup {B(x, 4, 2 * n, x, 5, 2 * n) : x \in {0, 11}, n \in 1 .. 6}
                \cup {At(x, 6, z) : x \in {0, 11}, z \in {5, 9}}
                \cup {B(x, 7, z, x, 9, z) : x \in {2, 9}, z \in {2, 12}}
                \cup {At(x, 9, z) : x \in {4, 7}, z \in {4, 10}} \cup {B(5, 9, 7, 6, 9, 7)}),
    Lay("trim", {B(5, 9, 6, 6, 9, 6), B(5, 9, 8, 6, 9, 8), B(4, 0, 0, 7, 0, 0)}
                \cup {At(x, n, 7 + n) : x \in {4, 7}, n \in 1 .. 3}),
    Lay("wall", {At(4, 1, 9), At(7, 1, 9), B(4, 1, 10, 7, 2, 10), B(5, 4, 5, 6, 4, 5)}),
    Lay("trim", {At(4, 4, 5), At(7, 4, 5)})>>
JungleTunnels ==
  <<Lay("trim", {B(5, 0, 6, 6, 0, 6)}), Lay("air", {B(5, 0, 7, 6, 0, 9)}),
    Lay("trim", {B(5, -1, 7, 6, -1, 7)}), Lay("air", {B(5, -1, 8, 6, -1, 10)}),
    Lay("trim", {B(5, -2, 8, 6, -2, 8)}), Lay("air", {B(5, -2, 9, 6, -2, 11)}),
    Lay("trim", {B(5, -3, 9, 6, -3, 9)}), Lay("air", {B(5, -3, 10, 6, -3, 12)}),
    Lay("air", {B(1, -3, 12, 10, -1, 13), B(1, -3, 1, 3, -1, 13), B(1, -3, 1, 9, -1, 5)}),
    Lay("wall", {B(1, -3, 2 * n + 1, 1, -2, 2 * n + 1) : n \in 0 .. 6}
                \cup {B(1, -1, 2 * n, 3, -1, 2 * n) : n \in 1 .. 6}
                \cup {B(2, -2, 1, 5, -2, 1), B(7, -2, 1, 9, -2, 1), At(6, -3, 1), At(6, -1, 1)})>>
JungleTraps ==
  <<Lay("hook", {At(1, -3, 8), At(4, -3, 8)}), Lay("string", {B(2, -3, 8, 3, -3, 8)}),
    Lay("wire", {B(5, -3, 1, 5, -3, 7), At(4, -3, 1)}), Lay("wall", {At(3, -3, 1)}),
    Lay("dispenser", {At(3, -2, 1)}), Lay("vine", {At(3, -2, 2)}),
    Lay("hook", {At(7, -3, 1), At(7, -3, 5)}), Lay("string", {B(7, -3, 2, 7, -3, 4)}),
    Lay("wire", {B(8, -3, 6, 9, -3, 6), At(9, -3, 5)}), Lay("wall", {At(9, -3, 4)}), Lay("wire", {At(9, -2, 4)}),
    Lay("dispenser", {At(9, -2, 3)}), Lay("vine", {B(8, -2, 3, 8, -1, 3)}), Lay("chest", {At(8, -3, 3)}),
    Lay("wall", {At(9, -3, 2), At(8, -3, 1), At(4, -3, 5), B(5, -2, 5, 5, -1, 5), At(6, -3, 5),
                 B(7, -2, 5, 7, -1, 5), At(8, -3, 5), B(9, -1, 1, 9, -1, 5)}),
    Lay("air", {B(8, -3, 8, 10, -1, 10)}),
    Lay("wall", {B(8, -2, 11, 10, -2, 11)}), Lay("lever", {B(8, -2, 12, 10, -2, 12)}),
    Lay("wall", {B(8, -3, 8, 8, -3, 10), B(10, -3, 8, 10, -3, 10), At(10, -2, 9)}),
    Lay("wire", {B(8, -2, 9, 8, -2, 10), At(10, -1, 9)}),
    Lay("piston", {At(9, -2, 8), B(10, -2, 8, 10, -1, 8)}),
    Lay("repeater", {At(10, -2, 10)}), Lay("chest", {At(9, -3, 10)})>>
JungleDugLast == JungleHouse \o JungleTraps \o JungleTunnels
Jungle == JungleHouse \o JungleTunnels \o JungleTraps

\* buildDesertPyramidBlocks: the pyramid with its towers, the shaft with the
\* chests, and (buildDesertPyramidCellar) a cellar full of sand. What replaces one
\* wall by another of a different colour is left out.
PyramidHouse ==
  <<Lay("wall", {B(0, -4, 0, 20, 0, 20)}), Lay("wall", {B(n, n, n, 20 - n, n, 20 - n) : n \in 1 .. 9}),
    Lay("air", {B(n + 1, n, n + 1, 19 - n, n, 19 - n) : n \in 1 .. 9}), Foundation((0 .. 20) \X (0 .. 20), -5)>>
  \o Room(B(0, 0, 0, 4, 9, 4), "air") \o Room(B(16, 0, 0, 20, 9, 4), "air")
  \o <<Lay("wall", {B(1, 10, 1, 3, 10, 3), B(17, 10, 1, 19, 10, 3)}),
       Lay("trim", {At(x, 10, z) : x \in {2, 18}, z \in {0, 4}} \cup {At(x, 10, 2) : x \in {0, 4, 16, 20}})>>
  \o Room(B(8, 0, 0, 12, 4, 4), "air")
  \o <<Lay("wall", {B(9, 1, 1, 9, 3, 1), At(10, 3, 1), B(11, 1, 1, 11, 3, 1)})>>
  \o Room(B(4, 1, 1, 8, 3, 3), "air") \o <<Lay("air", {B(4, 1, 2, 8, 2, 2)})>>
  \o Room(B(12, 1, 1, 16, 3, 3), "air")
  \o <<Lay("air", {B(12, 1, 2, 16, 2, 2)}), Lay("wall", {B(5, 4, 5, 15, 4, 15)}),
       Lay("air", {B(9, 4, 9, 11, 4, 11)}),
       Lay("wall", {B(x, 1, z, x, 3, z) : x \in {8, 12}, z \in {8, 12}}
                   \cup {B(1, 1, 5, 4, 4, 11), B(16, 1, 5, 19, 4, 11)}
                   \cup {B(x, 7, 9, x, 7, 11) : x \in {6, 14}} \cup {B(x, 5, 9, x, 7, 11) : x \in {5, 15}}),
       Lay("air", {B(x, 5, 10, x, 6, 10) : x \in {5, 15}} \cup {At(6, 6, 10), At(14, 6, 10)}
                  \cup {B(x, 4, 4, x, 6, 4) : x \in {2, 18}}),
       Lay("trim", {At(x, 4, 5) : x \in {2, 18}} \cup {At(x, 3, 4) : x \in {2, 18}}),
       Lay("wall", {B(1, 1, 3, 2, 2, 3), B(18, 1, 3, 19, 2, 3), At(1, 1, 2), At(19, 1, 2)}),
       Lay("trim", {At(1, 2, 2), At(19, 2, 2), At(2, 1, 2), At(18, 1, 2)}),
       Lay("wall", {B(x, 3, 5, x, 3, 17) : x \in {4, 16}}),
       Lay("air", {B(3, 1, 5, 4, 2, 16), B(15, 1, 5, 16, 2, 16)}),
       Lay("wall", {B(x, 1, 5 + 2 * n, x, 2, 5 + 2 * n) : x \in {4, 16}, n \in 0 .. 6}
                   \cup {B(x, 2, 1, x, 8, 3) : x \in {0, 20}} \cup {B(x - 1, 2, 0, x + 1, 8, 0) : x \in {2, 18}}
                   \cup {B(8, 4, 0, 12, 6, 0)}),
       Lay("air", {At(8, 6, 0), At(12, 6, 0)})>>
PyramidVault ==
  <<Lay("wall", {B(8, -14, 8, 12, -1, 12)}), Lay("air", {B(9, -11, 9, 11, -1, 11)}),
    Lay("plate", {At(10, -11, 10)}), Lay("tnt", {B(9, -13, 9, 11, -13, 11)}),
    Lay("air", {B(x, -11, 10, x, -10, 10) : x \in {8, 12}} \cup {B(10, -11, z, 10, -10, z) : z \in {8, 12}}),
    Lay("wall", {B(x, -11, 10, x, -10, 10) : x \in {7, 13}} \cup {B(10, -11, z, 10, -10, z) : z \in {7, 13}}),
    Lay("chest", {At(12, -11, 10), At(8, -11, 10), At(10, -11, 8), At(10, -11, 12)})>>
PyramidCellar ==
  <<Lay("trim", {At(13, -1, 17), At(14, -2, 17), At(15, -3, 17)}),
    Lay("wall", {B(12, 0, 17, 16, 0, 17), B(14, -1, 17, 16, -1, 17), B(15, -2, 17, 16, -2, 17), At(16, -3, 17),
                 B(13, -3, 10, 13, -1, 15), B(19, -3, 10, 19, -1, 15), B(13, -3, 10, 19, -1, 11),
                 B(13, -3, 16, 19, -1, 16), B(14, -3, 11, 18, 0, 15),
                 B(12, -3, 13, 12, -2, 13), B(20, -3, 13, 20, -2, 13), B(16, -3, 9, 16, -2, 9)}
                \cup {At(x, -4, z) : x \in {15, 17}, z \in {12, 14}} \cup {At(16, -4, 13)}
                \cup {At(x, -4, 13) : x \in {13, 14, 18, 19}} \cup {At(16, -4, z) : z \in {10, 11, 15, 16}})>>
Pyramid == PyramidHouse \o PyramidVault \o PyramidCellar

Plans == [stronghold |-> Stronghold, fortress |-> Fortress, monument |-> Monument, mansion |-> Mansion,
          jungle_temple |-> Jungle, desert_pyramid |-> Pyramid]

-----------------------------------------------------------------------------
\* Sizes, lowest heights, how far a chunk looks for a start (in chunks), and
\* whether the builder is put at a foot by its facing or at a fixed distance.
Design ==
  [stronghold |-> [size |-> <<37, 13, 45>>, low |-> 0, backreach |-> 4, off |-> 2],
   fortress |-> [size |-> <<43, 17, 43>>, low |-> 0, backreach |-> 3, off |-> 2],
   monument |-> [size |-> <<58, 23, 58>>, low |-> 0, backreach |-> 4, off |-> -29],
   mansion |-> [size |-> <<45, 24, 45>>, low |-> 0, backreach |-> 4, off |-> -14],
   jungle_temple |-> [size |-> <<12, 14, 15>>, low |-> -4, backreach |-> 2, off |-> 0],
   desert_pyramid |-> [size |-> <<21, 25, 21>>, low |-> -14, backreach |-> 2, off |-> 0]]
Rotations4 == {"none", "clockwise_90", "clockwise_180", "counterclockwise_90"}

\* rotateStructurePos and rotatedStructureSize. (TurnedSizeNever leaves the size.)
TurnedCell(size, x, z, r) ==
  CASE r = "clockwise_90" -> <<size[3] - 1 - z, x>>
    [] r = "clockwise_180" -> <<size[1] - 1 - x, size[3] - 1 - z>>
    [] r = "counterclockwise_90" -> <<z, size[1] - 1 - x>>
    [] OTHER -> <<x, z>>
TurnedSizeNever(size, r) == size
TurnedSize(size, r) ==
  IF r \in {"clockwise_90", "counterclockwise_90"} THEN <<size[3], size[2], size[1]>> ELSE size

\* proceduralStructurePlacementFromFoot, with structureFacingFromRotation.
FromFoot(size, r) ==
  CASE r = "clockwise_180" -> <<0, 1 - size[3]>>
    [] r = "clockwise_90" -> <<1 - size[3], 0>>
    [] OTHER -> <<0, 0>>
HouseOrigin ==
  IF house \in {"jungle_temple", "desert_pyramid"} THEN FromFoot(Design[house].size, turned)
  ELSE <<Design[house].off, Design[house].off>>
\* worldPos and proceduralStructureWorldBox, seen from above.
WorldCell(x, z) ==
  LET c == TurnedCell(Design[house].size, x, z, turned) IN <<HouseOrigin[1] + c[1], HouseOrigin[2] + c[2]>>
Declared ==
  LET size == TurnedSize(Design[house].size, turned)
  IN  [x0 |-> HouseOrigin[1], z0 |-> HouseOrigin[2],
       x1 |-> HouseOrigin[1] + size[1] - 1, z1 |-> HouseOrigin[2] + size[3] - 1]

-----------------------------------------------------------------------------
HouseInit ==
  /\ house \in Houses
  /\ turned \in Rotations4
  /\ slope \in [near : Depths, far : Depths]
  /\ laid = <<>>
  /\ tolay = Plans[house]

\* fillFoundationColumn: each column down to its own ground, none where there is
\* ground already. The ground falls or rises once, halfway across.
Fall(x) == IF 2 * x < Design[house].size[1] THEN slope.near ELSE slope.far
Deepened(p) ==
  [p EXCEPT !.boxes = {[b EXCEPT !.y0 = @ + 1 - Fall(b.x0)] : b \in {c \in @ : Fall(c.x0) > 0}}]
LayPart ==
  /\ tolay # <<>>
  /\ laid' = Append(laid, IF Head(tolay).deep THEN Deepened(Head(tolay)) ELSE Head(tolay))
  /\ tolay' = Tail(tolay)
  /\ UNCHANGED <<house, turned, slope>>

SkipPart ==
  /\ tolay # <<>>
  /\ Head(tolay).chance
  /\ tolay' = Tail(tolay)
  /\ UNCHANGED <<house, turned, slope, laid>>

\* A mansion asks for even and high ground.
RefuseGround ==
  /\ house = "mansion"
  /\ laid = <<>>
  /\ tolay # <<>>
  /\ tolay' = <<>>
  /\ UNCHANGED <<house, turned, slope, laid>>

HouseDone == tolay = <<>>
HouseNext == LayPart \/ SkipPart \/ RefuseGround
HouseSpec == HouseInit /\ [][HouseNext]_houseVars

-----------------------------------------------------------------------------
Covers0(b, x, y, z) == x \in b.x0 .. b.x1 /\ y \in b.y0 .. b.y1 /\ z \in b.z0 .. b.z1
LaidAt(i, x, y, z) == \E b \in laid[i].boxes : Covers0(b, x, y, z)
BlockAt(x, y, z) ==
  LET parts == {i \in DOMAIN laid : LaidAt(i, x, y, z)}
  IN  IF parts = {} THEN "ground" ELSE laid[CHOOSE i \in parts : \A j \in parts : j <= i].what

(***************************************************************************)
(* A structure is placed chunk by chunk, in the chunks its declared box    *)
(* meets and that look far enough for its start: however it is turned,     *)
(* every block laid is in the box (foundations leave it downwards only),   *)
(* and the box within that distance (structure_procedural.go:29-51,        *)
(* structure_direct.go:11-49, structures.go:858-867).                      *)
(***************************************************************************)
HouseFound ==
  /\ \A i \in DOMAIN laid : \A b \in laid[i].boxes :
       /\ laid[i].deep \/ b.y0 >= Design[house].low
       /\ b.y1 < Design[house].low + Design[house].size[2]
  /\ \A i \in DOMAIN laid : \A b \in laid[i].boxes : \A x \in {b.x0, b.x1}, z \in {b.z0, b.z1} :
       LET c == WorldCell(x, z)
       IN  c[1] \in Declared.x0 .. Declared.x1 /\ c[2] \in Declared.z0 .. Declared.z1
  /\ \A v \in {Declared.x0, Declared.z0, Declared.x1, Declared.z1} :
       v \div 16 \in -Design[house].backreach .. Design[house].backreach

(***************************************************************************)
(* What makes the structure work stays: no later box fills in a chest, a   *)
(* frame of the portal or a part of a trap, and wires, repeaters and       *)
(* plates lie on something in the end (structure_temples.go:172-236,       *)
(* 403-435, structure_stronghold.go:167-192).                              *)
(***************************************************************************)
Fixtures ==
  {"chest", "frame", "portal", "hook", "string", "wire", "dispenser", "lever", "piston", "repeater",
   "plate", "tnt", "lantern", "ladder"}
Meets0(a, b) ==
  a.x0 <= b.x1 /\ b.x0 <= a.x1 /\ a.y0 <= b.y1 /\ b.y0 <= a.y1 /\ a.z0 <= b.z1 /\ b.z0 <= a.z1
FixturesStand ==
  \A i \in DOMAIN laid : laid[i].what \in Fixtures =>
    /\ \A j \in i + 1 .. Len(laid) : \A a \in laid[i].boxes, b \in laid[j].boxes : ~ Meets0(a, b)
    /\ HouseDone /\ laid[i].what \in {"wire", "repeater", "plate"} =>
         \A b \in laid[i].boxes : \A x \in b.x0 .. b.x1, z \in b.z0 .. b.z1 :
           BlockAt(x, b.y0 - 1, z) \notin {"air", "fluid"}

\* Both: the house is found where it is declared, and works.
HouseStands == HouseFound /\ FixturesStand

(***************************************************************************)
(* The openings of a stronghold connect its rooms ("Main entrance, hub,    *)
(* wings, and portal-room chain", structure_stronghold.go:51): behind each *)
(* there is room to walk on (structure_stronghold.go:59-64).               *)
(***************************************************************************)
Walkable(x, z) == \A y \in 1 .. 2 : BlockAt(x, y, z) \in {"air", "trim"}
OpeningsLead ==
  house = "stronghold" /\ HouseDone =>
    \A o \in Openings :
      \/ \E x \in o.x0 .. o.x1 : \A z \in o.z0 - 1 .. o.z1 + 1 : Walkable(x, z)
      \/ \E z \in o.z0 .. o.z1 : \A x \in o.x0 - 1 .. o.x1 + 1 : Walkable(x, z)
=============================================================================
