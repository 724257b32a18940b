SPECIFICATION AllSpec
CONSTANTS
  TerrainScenes = {"climate", "adaptation", "surface", "carvers", "aquifer", "density"}
  Dimensions = 3
  Fan = 2
  StackSize = 4
  Presets <- SomePresets
  Climates <- SomeClimates
  Towns <- SomeTowns
  BuiltChunks = {0, 1}
  CellCount = 5
  LowestCorner <- LowestOfThem
  NoChunk = NoChunk
  MayAccelerate = TRUE
  Sites <- SomeSites
  SurfaceRule <- LikeOverworld
  Floor = 0
  Roof = 14
  SeaLevel = 8
  FilledWith = "water"
  NoWater <- NoWaterThere
  Cavities <- SomeCaves
  CarvedChunks = {0, 1}
  Substance <- Underground
  AnyAquifer = TRUE
  LavaLevel = 2
  Nether = FALSE
  GroundAt <- GroundOf
  Undergrounds <- SomeUndergrounds
  Askers <- AllAskers
  WetColumns = {0, 15}
  Lowest <- LowestWet
  Highest = 43
  SeaLine = 26
  LavaLine <- LavaBelow
  LavaThreshold <- LavaLevels
  Nodes <- LikeRouter
  Marks = 4
  Inquiries <- SomeInquiries
  MaxInquiries = 2
  NoGrid = NoGrid
INVARIANTS
  NearestBiome
  SharedGroundAgrees
  SurfaceLaid
  TunnelsWhole
