SPECIFICATION FairSpec
CONSTANTS
  Program = {big, small}
  Big = {big}
  NoFile = NoFile
  MaxErrors = 2
  MaxSessions = 2
  MaxEdits = 2
  MaxOpens = 2
INVARIANTS CycleOfOneSession JudgedByItsProgram
PROPERTIES ScanEnds AttachesAgain
CHECK_DEADLOCK FALSE
