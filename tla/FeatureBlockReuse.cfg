SPECIFICATION AllSpec
CONSTANTS
  Scenes = {"shard"}
  Workers = {w1, w2}
  a = a
  Keys = {a, b}
  Requests <- AllRequests
  Cells = {c1, c2, c3}
  None = None
  Cap = 1
  MaxPanics = 1
  Decorators = {w1, w2}
  Names = {vines, mushroom}
  x = x
  y = y
  free = free
  short = short
  long = long
  Contents <- Ages
  Addresses <- AllAddresses
  Registry <- RegistryMaps
  NoBlock = NoBlock
  BlockCap = 2
  Starters = {w1, w2}
  JigsawSets <- SomeJigsaws
  Accelerated = {"overworld", "nowhere"}
  Undefined = {"nowhere"}
  TemplatePools <- SomePools
  Templates <- SomeTemplates
  AliasDefs <- AllAliasDefs
  FailingSteps = {0, 18}
  MaxNesting = 2
  NoName = NoName
  Askers = {w1, w2}
  NoAsker = NoAsker
  BlockName <- SomeNames
  AskedIDs = {0, 1, 2}
  Headroom = 1
  RegisteredState <- SomeStates
  FixedBlock <- SomeFixed
  NoProperties = "none"
  AirRID = "r0"
  MemoKeys <- SomeKeys
  Noise <- SomeNoise
  Level <- SomeLevels
  Embedded <- SomeDefs
  RawTemplate <- SomeBytes
  Template <- SomeRead
  Accessors <- SomeAccessors
  Decoded <- SomeDecoded
  Unheard = Unheard
  NotFound = NotFound
  Failed = Failed
  Unset = Unset
INVARIANTS
  MadeStatesPlaced
