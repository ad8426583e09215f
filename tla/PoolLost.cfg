\* Two benchmarks of two attempts; the text of an exception may have lines.
CONSTANTS
  Required <- LastOfPool
  Optional <- FirstOptional
  PoolBenchmarks = 2
  Attempts = 2
  PoolScores = {1, 2}
  Directions = {"max"}
  Messages = {"line", "lines"}
  Readings = {1}
SPECIFICATION ContendersSpec
INVARIANT FailuresStayVisible
CHECK_DEADLOCK FALSE
