------------------------------ MODULE Surface -------------------------------
(***************************************************************************)
(* A column of terrain, from the density to its surface: the fill of       *)
(* prepareChunkUncached (generator.go) and applySurfaceAndBiomes           *)
(* (surface.go) with the rules of the dimension (gen/surface_runtime.go).  *)
(* The surface is laid in one pass from the top, that counts how deep in   *)
(* the ground it is and looks ahead for the next ceiling.                  *)
(*                                                                         *)
(* What noise and biome say at a column is its site; heights are scaled.   *)
(***************************************************************************)
EXTENDS Integers, Sequences, SequencesExt

CONSTANTS
  Sites,        \* what noise, climate and neighbours may be at a column
  SurfaceRule,  \* the rule of the dimension
  Floor, Roof,  \* minY and maxY
  SeaLevel,
  FilledWith,   \* the default fluid, "air" where there is none
  NoWater       \* noWaterHeight

ASSUME HeightsAssumption == Floor \in Int /\ Roof \in Int /\ Floor < Roof /\ SeaLevel \in Int

VARIABLES
  site,         \* the column
  column,       \* its blocks, by height
  ground,       \* the blocks when the pass begins
  top,          \* heights[x][z]
  at,           \* y of the pass
  depthAbove,   \* stoneAboveDepth
  waterTop,     \* waterHeight
  ceiling,      \* nextCeilingStoneY
  columnStage   \* "fill", "extend", "scan", "freeze" or "laid"

surfaceVars == <<site, column, ground, top, at, depthAbove, waterTop, ceiling, columnStage>>

Heights == Floor .. Roof
Fluids == {"water", "lava", FilledWith} \ {"air"}
Topmost(blocks) == Max({Floor - 1} \cup {y \in Heights : blocks[y] # "air"})

\* steepColumn: heights on two sides, clamped to the chunk.
Steep == site.south >= site.north + 4 \/ site.west >= site.east + 4

-----------------------------------------------------------------------------
\* evalCondition; c is the context of a block: its height and depths.
Resolved(anchor) ==
  CASE anchor.kind = "above_bottom" -> Floor + anchor.value
    [] anchor.kind = "below_top" -> Roof - anchor.value
    [] OTHER -> anchor.value
DepthHolds(c, cond) ==
  (IF cond.surface = "ceiling" THEN c.below ELSE c.above)
    <= 1 + cond.offset + (IF cond.addSurfaceDepth THEN site.depth ELSE 0)
         + ((site.secondary * cond.secondary) \div 100)
\* A gradient is certain at either end and a matter of luck between them.
GradientHolds(c, cond) ==
  \/ c.y <= Resolved(cond.trueAt)
  \/ c.y < Resolved(cond.falseAt) /\ c.y \in site.lucky
RECURSIVE Holds(_, _)
Holds(c, cond) ==
  LET y == c.y + IF cond.kind \in {"y_above", "water"} /\ cond.addStoneDepth THEN c.above ELSE 0
  IN  CASE cond.kind = "not" -> ~ Holds(c, cond.inner)
        [] cond.kind = "biome" -> site.biome \in cond.biomes
        [] cond.kind = "stone_depth" -> DepthHolds(c, cond)
        [] cond.kind = "y_above" -> y >= Resolved(cond.anchor) + site.depth * cond.multiplier
        [] cond.kind = "water" ->
             c.water = NoWater \/ y >= c.water + cond.offset + site.depth * cond.multiplier
        [] cond.kind = "noise_threshold" -> site.noise >= cond.min /\ site.noise <= cond.max
        [] cond.kind = "vertical_gradient" -> GradientHolds(c, cond)
        [] cond.kind = "steep" -> c.steep
        [] cond.kind = "hole" -> site.depth <= 0
        [] cond.kind = "above_preliminary_surface" -> c.y >= c.least
        [] cond.kind = "temperature" -> c.y >= site.snowLine
        [] OTHER -> FALSE

\* evalRule: the block it gives, or "none".
Band(y) == site.bands[((y + site.bandOffset) % Len(site.bands)) + 1]
RECURSIVE Given(_, _)
Given(c, rule) ==
  CASE rule.kind = "block" -> rule.block
    [] rule.kind = "bandlands" -> Band(c.y)
    [] rule.kind = "condition" -> IF Holds(c, rule.ifTrue) THEN Given(c, rule.thenRun) ELSE "none"
    [] rule.kind = "sequence" ->
         LET giving == {i \in DOMAIN rule.of : Given(c, rule.of[i]) # "none"}
         IN  IF giving = {} THEN "none" ELSE Given(c, rule.of[Min(giving)])

\* minSurfaceLevel: the level between the corners of the chunk.
Least == site.level + site.depth - 8
Context(y, above, below, water) ==
  [y |-> y, above |-> above, below |-> below, water |-> water, steep |-> Steep, least |-> Least]
\* What the rule makes of the default block.
Replaced(c) == LET b == Given(c, SurfaceRule) IN IF b = "none" THEN "stone" ELSE b

-----------------------------------------------------------------------------
ColumnInit ==
  /\ site \in Sites
  /\ column = [y \in Heights |-> "air"]
  /\ ground = column
  /\ top = Floor - 1 /\ at = Roof /\ depthAbove = 0 /\ waterTop = NoWater /\ ceiling = Roof + 1
  /\ columnStage = "fill"

\* prepareChunkUncached: the lowest block is left to the bedrock.
Filled(y) ==
  CASE y = Floor -> IF site.bedrock THEN "bedrock" ELSE "air"
    [] y # Floor /\ site.substance[y] \in {"solid", "barrier"} -> "stone"
    [] y # Floor /\ site.substance[y] \in {"water", "lava"} -> site.substance[y]
    [] OTHER -> IF ~ site.aquifer /\ y <= SeaLevel THEN FilledWith ELSE "air"
Fill ==
  /\ columnStage = "fill"
  /\ column' = [y \in Heights |-> Filled(y)]
  /\ top' = Topmost(column')
  /\ columnStage' = "extend"
  /\ UNCHANGED <<site, ground, at, depthAbove, waterTop, ceiling>>

\* erodedBadlandsExtension: a pillar, unless there is water below its top.
DrownedFrom(y) ==
  \E w \in Floor .. y : column[w] = "water" /\ \A z \in w .. y : column[z] # "stone"
Pillar == {y \in Floor .. site.pillar : \A z \in y .. site.pillar : column[z] = "air"}
Extended ==
  /\ site.biome = "eroded_badlands" /\ site.pillar >= Floor
  /\ top + 1 <= site.pillar /\ ~ DrownedFrom(site.pillar)
Extend ==
  /\ columnStage = "extend"
  /\ column' = [y \in Heights |-> IF Extended /\ y \in Pillar THEN "stone" ELSE column[y]]
  /\ ground' = column'
  /\ top' = IF Extended THEN Max({top} \cup Pillar) ELSE top
  /\ at' = Min({top' + 1, Roof})
  /\ columnStage' = "scan"
  /\ UNCHANGED <<site, depthAbove, waterTop, ceiling>>

\* The lowest block of the ground that y is in, looked for below y. (CeilingToAir
\* takes water for ground.)
Open(b) == b = "air" \/ b \in Fluids
CeilingToAir(y) == Max({Floor} \cup {z + 1 : z \in {z \in Floor .. y - 1 : column[z] = "air"}})
CeilingFrom(y) == Max({Floor} \cup {z + 1 : z \in {z \in Floor .. y - 1 : Open(column[z])}})

\* A step of the pass. Fluids do not end the ground, only air does.
ScanAir ==
  /\ column[at] = "air"
  /\ depthAbove' = 0 /\ waterTop' = NoWater
  /\ UNCHANGED <<column, ceiling>>
ScanFluid ==
  /\ column[at] \in Fluids
  /\ waterTop' = IF waterTop = NoWater THEN at + 1 ELSE waterTop
  /\ UNCHANGED <<column, depthAbove, ceiling>>
ScanGround ==
  /\ ~ Open(column[at])
  /\ ceiling' = IF ceiling >= at THEN CeilingFrom(at) ELSE ceiling
  /\ depthAbove' = depthAbove + 1
  /\ column' = IF column[at] = "stone"
               THEN [column EXCEPT ![at] = Replaced(Context(at, depthAbove', at - ceiling' + 1, waterTop))]
               ELSE column
  /\ UNCHANGED waterTop
Scan ==
  /\ columnStage = "scan"
  /\ at >= Floor
  /\ ScanAir \/ ScanFluid \/ ScanGround
  /\ at' = at - 1
  /\ UNCHANGED <<site, ground, top, columnStage>>
EndScan ==
  /\ columnStage = "scan" /\ at < Floor
  /\ columnStage' = IF site.biome \in {"frozen_ocean", "deep_frozen_ocean"} /\ site.iceberg > 0 THEN "freeze" ELSE "laid"
  /\ UNCHANGED <<site, column, ground, top, at, depthAbove, waterTop, ceiling>>

\* frozenOceanExtension: an iceberg as high above the sea as below, but for 7;
\* small ones have neither. The first blocks over a height are snow. Some blocks
\* are left out by luck.
IceTop == IF site.iceberg > 2 THEN SeaLevel + site.iceberg ELSE 0
IceBottom == IF site.iceberg > 2 THEN SeaLevel - site.iceberg - 7 ELSE 0
Freezes(y) ==
  /\ y \in Heights \cap (Least .. Max({top + 1, IceTop + 1}))
  /\ y \notin site.lucky
  /\ \/ column[y] = "air" /\ y < IceTop
     \/ column[y] = "water" /\ y > IceBottom /\ y < SeaLevel /\ IceBottom # 0
Snows(y) == y > site.snowFrom /\ Cardinality({z \in y + 1 .. Roof : Freezes(z)}) <= site.snow
Freeze ==
  /\ columnStage = "freeze"
  /\ column' = [y \in Heights |-> IF ~ Freezes(y) THEN column[y]
                                  ELSE IF Snows(y) THEN "snow" ELSE "packed_ice"]
  /\ top' = Max({top} \cup {y \in Heights : Freezes(y)})
  /\ columnStage' = "laid"
  /\ UNCHANGED <<site, ground, at, depthAbove, waterTop, ceiling>>

ColumnNext == Fill \/ Extend \/ Scan \/ EndScan \/ Freeze
ColumnSpec == ColumnInit /\ [][ColumnNext]_surfaceVars

-----------------------------------------------------------------------------
(***************************************************************************)
(* The pass lays what the rule says of each block by its true place in the *)
(* ground as it was before: how many blocks are over it up to open air,    *)
(* how many are under it down to the next cave or water, and how high the  *)
(* water over it stands; though it replaces blocks, with air and fluids    *)
(* too, while it goes down (surface.go:59-121).                            *)
(***************************************************************************)
AirOver(y) == Min({Roof + 1} \cup {z \in y .. Roof : ground[z] = "air"})
Solid(y) == ground[y] # "air" /\ ground[y] \notin Fluids
TrueContext(y) ==
  LET water == {z \in y .. AirOver(y) - 1 : ground[z] \in Fluids}
  IN  Context(y, Cardinality({z \in y .. AirOver(y) - 1 : Solid(z)}),
              Cardinality({z \in Floor .. y : \A v \in z .. y : Solid(v)}),
              IF water = {} THEN NoWater ELSE Max(water) + 1)
SurfaceLaid ==
  columnStage = "scan" =>
    \A y \in Heights : column[y] =
      IF y > at /\ ground[y] = "stone" THEN Replaced(TrueContext(y)) ELSE ground[y]
=============================================================================
