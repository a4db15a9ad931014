SPECIFICATION RoutedSpec
CONSTANTS
  claude = claude
  local = local
  opencode = opencode
  api = api
  mA = mA
  mA2 = mA2
  mB = mB
  mApi = mApi
  poolA = poolA
  poolB = poolB
  NoModel = NoModel
  NoLane = NoLane
  NoPool = NoPool
  NoCap = NoCap
  NoTool = NoTool
  Tools <- AllTools
  Models = {mA, mA2, mB, mApi}
  ModelsOf <- DetectedModels
  Claude = claude
  Cli = {claude, local, opencode}
  Configured = {local, opencode, api}
  Volatile = {opencode}
  Walks = {w1, w2}
  MaxTries = 2
  MaxFailures = 3
  MaxChanges = 1
  ToolOrder <- NameOrder
  DetectOrder <- RegistryOrder
  Cost <- CostRanks
  Fit <- Breadth
  NeedsModel = {local}
  PoolOf <- ModelPool
  PoolOrder <- PoolNames
  PoolCaps <- OwnCaps
  TargetCaps <- SharedCaps
  ForcedOn = {claude}
  ForcedOff = {}
  Requests <- MixedRequests
CHECK_DEADLOCK FALSE
INVARIANTS
  ChargesInOrder
  TrailFaithful
  SpentIsLastResort
  QuotaLeftAlone
PROPERTIES
  WalkEnds
