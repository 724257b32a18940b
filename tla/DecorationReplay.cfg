SPECIFICATION Spec
CONSTANTS
  Callers = {g1, g2}
  Chunks <- Line
  Centers <- Inner
  Sources <- AllOf
  Items <- Features
  Regional <- RegionalFeatures
  Ores <- OreFeatures
  None = None
  Cap = 2
INVARIANTS
  AnswerIsReplay
PROPERTIES
  EveryChunkEnds
