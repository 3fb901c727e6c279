SPECIFICATION Spec
CONSTANTS
  u1 = u1  u2 = u2  c1 = c1  c2 = c2  c3 = c3
  NoCall = NoCall
  Users <- TwoUsers
  Calls <- TwoCalls
  Batches <- OneRound
  MaxEvents = 1
PROPERTY CallsKept
CHECK_DEADLOCK FALSE
