------------------------- MODULE MCDecorationReplay -------------------------
(***************************************************************************)
(* DecorationReplay on a line of four chunks: the regions of the two inner *)
(* ones overlap, each has the other as a neighbour, and their replays have *)
(* three sources each.                                                     *)
(***************************************************************************)
EXTENDS DecorationReplay

Line == 0 .. 3
Inner == {1, 2}
OneCenter == {1}
AllOf(c) == [i \in 1 .. Cardinality({k \in Line : k \in c - 1 .. c + 1}) |->
               (IF c = 0 THEN 0 ELSE c - 1) + i - 1]

\* Structures and a plant in the chunk alone, an ore and a tree in the region;
\* a source that has no biome with features has none of them.
Features(s) == IF s = 0 THEN <<"ore", "tree">>
               ELSE IF s = 3 THEN <<>>
               ELSE <<"structures", "ore", "tree", "grass">>
RegionalFeatures == {"ore", "tree"}
OreFeatures == {"ore"}
=============================================================================
