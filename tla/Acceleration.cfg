SPECIFICATION Spec
CONSTANTS
  Workers = {w1, w2}
  p1 = p1
  p2 = p2
  p3 = p3
  BiomeQueries <- TwoBatches
  Chunks <- OneChunk
  None = None
  BatchSize = 2
  MinBatch = 2
  MaxFaults = 1
INVARIANTS
  AnswersTrue
  FallbackExplained
PROPERTIES
  EveryJobEnds
