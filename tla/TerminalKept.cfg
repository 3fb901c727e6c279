SPECIFICATION Spec
CONSTANTS
  k1 = k1  k2 = k2
  Cancellers <- OneHandler
  Quantity = 1
  Identified = TRUE
  MaxFaults = 1
  MaxCrashes = 0
PROPERTIES TerminalKept
CHECK_DEADLOCK FALSE
