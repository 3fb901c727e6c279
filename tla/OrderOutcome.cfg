SPECIFICATION FairSpec
CONSTANTS
  k1 = k1  k2 = k2
  Cancellers <- OneHandler
  Quantity = 1
  Identified = TRUE
  MaxFaults = 1
  MaxCrashes = 1
INVARIANTS SettlementTrue
PROPERTIES OutcomeMirrored NothingLost
CHECK_DEADLOCK FALSE
