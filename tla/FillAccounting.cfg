SPECIFICATION FairSpec
CONSTANTS
  Quantity = 2
  MaxTime = 2
  MaxLags = 2
INVARIANTS NeverOverfilled
PROPERTIES FillsConverge
CHECK_DEADLOCK FALSE
