\* Further instance: an order that fills in two executions.
SPECIFICATION Spec
CONSTANTS
  k1 = k1  k2 = k2
  Cancellers <- OneHandler
  Quantity = 2
  Identified = TRUE
  MaxFaults = 1
  MaxCrashes = 0
INVARIANTS TypeOK SettlementTrue NeverOverfilled
CHECK_DEADLOCK FALSE
