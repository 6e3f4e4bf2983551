SPECIFICATION Spec
CONSTANTS
  Program = {pA, pB}
  NoFile = NoFile
  MatchBefore = 3
  MatchAfter = 1
  RetryEvery = 2
  RetryFor = 3
  Jitter = 1
  MaxRuns = 2
  MaxTime = 8
  MaxStalls = 1
SYMMETRY ProgramSymmetry
INVARIANTS IdsAreNear ShownIsFound
CHECK_DEADLOCK FALSE
