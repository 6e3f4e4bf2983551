SPECIFICATION BatchFairSpec
CONSTANTS
  Type = {t1, t2}
  Size = {1, 3}
  Envelope = 1
  DefaultLimits <- RoomyLimits
  Offer <- Announced
  MaxRow = 3
  MaxOffers = 2
INVARIANTS BatchTypeOK BatchWithinLimits
 
CHECK_DEADLOCK FALSE
