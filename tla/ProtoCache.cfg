SPECIFICATION Spec
CONSTANTS
  Workers = {w1, w2}
  Keys = {a, b, c}
  Cells = {c1, c2, c3}
  None = None
  Cap = 1
  MaxPanics = 1
INVARIANTS
  CacheIndexed
  SingleFlight
  EntriesPristine
  WaitersHaveBuilder
PROPERTIES
  EveryRequestEnds
  KeepsPromise
