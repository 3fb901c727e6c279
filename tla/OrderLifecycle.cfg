SPECIFICATION Spec
CONSTANTS
  k1 = k1  k2 = k2
  Cancellers <- Handlers
  Quantity = 1
  Identified = TRUE
  MaxFaults = 0
  MaxCrashes = 0
SYMMETRY HandlerSymmetry
INVARIANTS JournalChain SettlementTrue CancelFenced
PROPERTIES NothingLost
CHECK_DEADLOCK FALSE
