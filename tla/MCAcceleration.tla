--------------------------- MODULE MCAcceleration ---------------------------
(***************************************************************************)
(* Acceleration with a biome query that takes two batches and one chunk of *)
(* terrain.                                                                *)
(***************************************************************************)
EXTENDS Acceleration

CONSTANTS p1, p2, p3  \* points

TwoBatches == {<<p1, p2, p3>>}
OneChunk == {p1}
=============================================================================
