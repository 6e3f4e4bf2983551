SPECIFICATION FairSpec
CONSTANTS
  QueueSize = 1
  ReadBatch = 2
  SendBatch = 2
  Budget = 1
  Invalid = {}
  MaxCycles = 2
  MaxOutbox = 0
  MaxOutboxEpochs = 1
  MaxRestarts = 0
PROPERTIES RefusedIsStoredLater
CHECK_DEADLOCK FALSE
