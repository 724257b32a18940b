SPECIFICATION AllSpec
CONSTANTS
  Scenes = {"building"}
  Elements <- MCElements
  Pools <- MCPools
  Candidates <- MCCandidates
  Surface <- MCSurface
  MinY <- MCMinY
  MaxY = 8
  ChunkWidth = 2
  None = None
  Reach = 20
  MaxDepth = 2
  Sections = {4}
  RoomGrowth = {1}
  DoorPlaces = {0, 5}
  DoorHeights = {0, 3}
  Lifts <- MCLifts
  MaxDoors = 2
  MaxSides = 1
  MaxPieces = 3
  Kinds = {"normal", "mesa"}
  Bottom = 0
  SeaLevel = 24
  Grounds = {20, 26}
  Low <- MCLow
  High = 8
  DownReach = 2
  UpReach = 5
  Columns <- MCColumns
  Houses = {"stronghold"}
  Depths = {0, 3}
INVARIANTS
  OpeningsLead
