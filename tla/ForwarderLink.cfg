SPECIFICATION FairSpec
CONSTANTS
  Addr = {a1, a2}
  Configured = a1
  NoAddr = NoAddr
  LookAfter = 2
  MaxEnrol = 2
  MaxMoves = 2
  MaxRestarts = 1
INVARIANTS  AddressIsProved
PROPERTIES Resumes
CHECK_DEADLOCK FALSE
