SPECIFICATION ResearchSpec
CONSTANTS
  Size = 3
  Families = 3
  Variants = 3
  LargestBuilt = 2
  CacheEntries = 2
  CacheBytes = 4
  ReservoirRoom = 2
  CellRoom = 2
  ArchiveRoom = 2
  Draws = 2
  Sides = 2
  MaxFits = 5
  MaxCrashes = 1
  Nil = Nil
  Policies <- AllPolicies
  Outcomes <- ThreeOutcomes
  Drivers <- AllDrivers
  Arms <- ThreeArms
  MainSeeds = 2
  Scores = {2, 3}
  StudyFits = 2
  SegmentFits = 1
  MaxDeaths = 1
  MaxPauses = 1
  MaxFailures = 1
  ChainFamilies <- AllFamilies
  Slots <- TwoSlots
  FitsPerRun = 2
  MaxBreaks = 5
  Seeds = {1, 2}
  MaxCases = 3
  MaxCaseHarm = 2
  Epochs = 3
  Batches = 2
  Patience = 1
  Ranks = {1, 2}
  Engines = {"prism", "topograph", "stratograph", "primordia"}
  MaxTrainings = 2
  MaxMacro = 3
  MaxCell = 2
  MaxEdits = 3
  MaxDepth = 4
  LegacyDepth = 2
  Embeddings = {4, 8}
  Heads = {1, 2, 4}
  MaxBlocks = 3
  MaxRewrites = 3
  MaxLayers = 4
  MaxLinks = 6
  MaxChanges = 3
  PilotArms <- AllPilotArms
  PilotSystems <- ThreeSystems
  Candidates = 1
  PreSteps = 1
  FineSteps = 1
  MaxPilotHarm = 2
  Publishers = {1, 2}
  Pieces = 2
  Documents = 1
  MaxTries = 2
  MaxOutages = 2
  Required <- LastOfPool
  Optional <- FirstOptional
  PoolBenchmarks = 2
  Attempts = 2
  PoolScores = {1, 2}
  Directions = {"min"}
  Messages = {"line"}
  Readings <- BackAndForth
  Timeout = 2
  MaxStepsBack = 1
  MaxWall = 3
  MaxInvocations = 2
  None = None
  Fields <- SixFields
  Bodies <- SixBodies
  Levels = 4
  Interval = 2
  MaxSteps = 3
INVARIANTS
  ArchivesMatchHistory
  LineageIsTrue
  LanesAreServed
  ListsResumeExactly
  ScheduleKept
  EveryFitIsReported
  TrendsReproduce
  BestEpochIsReturned
  GenomesStayExecutable
  InnovationsMeanOneThing
  PilotFailsClosed
  ContrastsAreMatched
  EvidenceStands
  FloorIsEarned
  BudgetKeptByClock
  JournalReplays
PROPERTY SkipsKeepTheirSource
CHECK_DEADLOCK FALSE
