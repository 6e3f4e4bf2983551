SPECIFICATION FairSpec
CONSTANTS
  QueueSize = 1
  ReadBatch = 2
  SendBatch = 2
  Budget = 2
  Invalid <- SecondInvalid
  MaxCycles = 1
  MaxOutbox = 2
  MaxOutboxEpochs = 2
  MaxRestarts = 1
INVARIANTS DurableBeforeAck NothingSkipped CopiedInOrder FinalBeforeForgotten 
PROPERTIES AckMovesOn ImplementsDelivery Delivered Collected
CHECK_DEADLOCK FALSE
