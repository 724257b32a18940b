SPECIFICATION AllSpec
CONSTANTS
  Scenes = {"order", "starts", "asked", "direct", "placement", "reader"}
  ore = ore
  tree = tree
  grass = grass
  plains = plains
  forest = forest
  swamp = swamp
  Names = {ore, tree, grass}
  StepCount = 2
  PossibleBiomes <- ThreeBiomes
  Registries <- TwoSteps
  Workers = {w1, w2}
  Chunks <- AroundZero
  Positions <- Line
  StructureSets <- SomeSets
  Dimension = "overworld"
  GenerationSteps <- SomeSteps
  Estimate <- Estimates
  RingRadius = 2
  MaxExtra = 1
  Bootstrap <- BootstrapNames
  Sorted <- SortedNames
  Extent <- Extents
  Worlds <- AllWorlds
  None = None
  DirectKinds = {"igloo", "shipwreck", "ocean_ruin", "ruined_portal", "buried_treasure", "swamp_hut", "nether_fossil", "end_city"}
  Grounds <- Slopes
  MaxRuins = 2
  Turns = {3}
  MinY <- LowestBlock
  MaxY = 319
  Sea = 32
  Cells <- Land
  Natural <- NaturalNames
  Starts <- PlacedStarts
  Lucks <- SomeLucks
  Shuffles <- SomeShuffles
  Borders <- SomeBorders
  Documents <- SomeDocuments
  LibraryDepth = 6
  MaxDepth = 10
INVARIANTS
  BiomesAgree
  StructuresWhole
  DirectFound
  StandsOnGround
  TemplatesWhole
  StatesTurnWithPositions
