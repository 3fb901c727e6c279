SPECIFICATION Spec
CONSTANTS
  u1 = u1  u2 = u2  c1 = c1  c2 = c2  c3 = c3
  NoCall = NoCall
  Users <- OneUser
  Calls <- TwoCalls
  Batches <- OneRound
  MaxEvents = 1
INVARIANT ApprovalStands
CHECK_DEADLOCK FALSE
