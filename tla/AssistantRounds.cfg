\* A second round of calls follows the first: what is kept of the first round
\* must not be taken for the second.
SPECIFICATION Spec
CONSTANTS
  u1 = u1  u2 = u2  c1 = c1  c2 = c2  c3 = c3
  NoCall = NoCall
  Users <- OneUser
  Calls <- ThreeCalls
  Batches <- TwoRounds
  MaxEvents = 2
INVARIANTS TypeOK Decidable
PROPERTIES PlansApproved EndedStays
CHECK_DEADLOCK FALSE
