SPECIFICATION SearchSpec
CONSTANTS
  Size = 3
  Families = 3
  Variants = 3
  LargestBuilt = 2
  CacheEntries = 2
  CacheBytes = 4
  ReservoirRoom = 2
  CellRoom = 2
  ArchiveRoom = 2
  Draws = 2
  Sides = 2
  MaxFits = 7
  MaxCrashes = 1
  Nil = Nil
  Policies <- FrontierPrism
  Outcomes <- ThreeOutcomes
INVARIANT ResumeIsExact
CHECK_DEADLOCK FALSE
