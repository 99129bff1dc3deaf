SPECIFICATION Spec
CONSTANTS
  LadderOptions <- Ladders
  LadderStrategies = 2
  LadderConnects = 2
  ParallelMaxEpoch = 3
  ParallelMaxObject = 4
  ParallelGrowers = {1, 2}
  ParallelPorts = 1
  MemoryNetworks = {"a", "b"}
  MemoryPeers = {"p"}
  MemoryMaxNetworks = 2
  MemoryConnects = 2
  WireSessions = {"a"}
  WireMaxSessions = 2
  WireLastEdge = 2
  WireModes <- ModesOfWire
  WireModulus = 4
  WireFirstSeq = {0, 3}
  WireRepeat = 2
  WireAttempts = 2
  WireStarts = 1
  EdgesSessions = {"a", "b"}
  EdgesMaxSessions = 2
  EdgesLastEdge = 2
  EdgesModes <- EdgeModes
  EdgesModulus = 4
  EdgesFirstSeq = {3}
  EdgesRepeat = 2
  EdgesAttempts = 2
  EdgesStarts = 1
  ExitsWorkers = {1, 2}
  ExitsMaxRun = 3
  ExitsMoves = 2
  ExitsFaults = 1
  LeftMaxApp = 3
  LeftMaxProc = 4
  LeftFaults = 2
  EchDomains = {"cf", "other"}
  EchBuiltIn = {"cf"}
  EchThreads = {1, 2}
  EchMaxKey = 2
  GeneHello = 7
  GeneName <- SniSpan
  GeneRaw <- GeneFile
  GeneMaxOps = 4
  GeneImports = 2
  ForwardServers = {"router"}
  ForwardPorts = {1}
  ForwardMaxOpen = 2
  ForwardWorkers = {"w1"}
  ForwardMaxThread = 3
  ForwardFaults = 1
  ResetDirs = {"profiles"}
  ResetFiles = {"settings", "record"}
  ResetProcs = {1, 2}
  ResetFaults = 2
  FlowProfiles = {"built", "user"}
  FlowBuiltin = {"built"}
  FlowDirect = {}
  FlowGenes = {"gene", "ops"}
  FlowPrimitive = {"ops"}
  FlowOptions <- Flows
  FlowPerProfile = 2
  FlowGeneAttempts = 2
  FlowFails = 2
  FlowConnects = 2
  MakerProfiles = {"a", "e"}
  MakerEch = {"e"}
  MakerRounds = 2
  MakerLaunches = 2
  MakerImports = 2
  StoreGenes = {"g"}
  StoreChanges = 2
  StoreValues = 1
  StoreRestarts = 1
  FactsMaxRun = 2
  FactsMaxAsk = 2
  FactsExits = {"proxy", "tun"}
  GuideEdges = 3
  GuideFlows = 2
  GuideImports = 1
  GuideTests = 1
  SwitchClicks = 4
  ScanDomains = {"d1", "d2"}
  ScanCarriers = {"auto", "irancell"}
  ScanEdges = {"e1"}
  ScanProfiles = {"p"}
  ScanSteps = 5
  ScanFaults = 1
  ChoiceOrigin <- ListOrigin
  ChoiceFirstCode <- ListCode
  ChoiceInitial = {1, 2, 3}
  ChoiceCodes = {"a"}
  ChoiceChanges = 3
  ChoiceConnects = 2
INVARIANTS
  TypeOK
  KnownIsTrue
  NothingLeftBehind
  SpoofedInOrder
  LearnedFromOwnRuns
  RoutesApart
  ChosenExitThere
  FactsCurrent
  WindowOfEngine
  TestsEndAsFound
  CarriersApart
  DataKept
PROPERTIES
  KeysKept
  SwitchLands
CHECK_DEADLOCK FALSE
