SPECIFICATION Spec
CONSTANTS
  Program = {pA, pB}
  NoProgram = NoProgram
  MinValid = 1
  MaxTime = 2
  MaxRuns = 3
  MaxSubs = 1
SYMMETRY ProgramSymmetry
INVARIANTS TypeOK PartsAreCountedOnce   FactsAgree
CHECK_DEADLOCK FALSE
