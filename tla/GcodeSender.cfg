SPECIFICATION FairSpec
CONSTANTS
  p = p
  q = q
  Path = {p, q}
  NoPath = NoPath
  Huge <- TooBig
  Over <- TooLong
  MaxVersion = 2
  MaxEdits = 2
  MaxResets = 1
INVARIANTS OneStream SentWholeSinceReset
PROPERTIES ProgramArrives
