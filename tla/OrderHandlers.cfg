\* Further instance: both handlers and one fault (8.2 million states).
SPECIFICATION Spec
CONSTANTS
  k1 = k1  k2 = k2
  Cancellers <- Handlers
  Quantity = 1
  Identified = TRUE
  MaxFaults = 1
  MaxCrashes = 0
SYMMETRY HandlerSymmetry
INVARIANTS JournalChain SettlementTrue CancelFenced
PROPERTIES NothingLost
CHECK_DEADLOCK FALSE
