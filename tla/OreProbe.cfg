SPECIFICATION Spec
CONSTANTS
  Callers = {g1}
  Chunks <- Line
  Centers <- OneCenter
  Sources <- AllOf
  Items <- Features
  Regional <- RegionalFeatures
  Ores <- OreFeatures
  None = None
  Cap = 2
INVARIANTS
  OresProbeCurrentFloor
