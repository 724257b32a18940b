SPECIFICATION Spec
CONSTANTS
  W = 8
  MinY = 0
  MaxY = 11
  Sea = 8
  RoomHalf = 1
  RoomTop = 3
  LakeMargin = 2
  WellTop = 3
  StalkMin = 3
  Ground = 6
  PillarFloor = 2
  SpikeFoot = 2
  PlatformX = 6
  PlatformRadius = 4
  Spikes <- MCSpikes
  PlacedFeatures <- MCPlaced
  ConfiguredFeatures <- MCConfigured
  BiomeFeatures <- MCBiomeFeatures
  BiomeAt <- MCBiomeAt
  Noise <- MCNoise
  Terrain <- MCTerrain
  Scenes <- SeamScenes
CHECK_DEADLOCK FALSE
INVARIANT DecorationRunsInFull
