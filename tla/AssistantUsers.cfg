SPECIFICATION Spec
CONSTANTS
  u1 = u1  u2 = u2  c1 = c1  c2 = c2  c3 = c3
  NoCall = NoCall
  Users <- TwoUsers
  Calls <- TwoCalls
  Batches <- OneRound
  MaxEvents = 2
INVARIANTS TypeOK Decidable
PROPERTIES PlansApproved EndedStays
SYMMETRY UserSymmetry
CHECK_DEADLOCK FALSE
