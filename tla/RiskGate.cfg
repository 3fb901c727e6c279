SPECIFICATION Spec
CONSTANTS
  o1 = o1  o2 = o2  o3 = o3  a = a  b = b   wide = wide  narrow = narrow
  Orders = {o1, o2, o3}
  Operators = {a, b}
  Readers = {s}
  Nobody = Nobody
  realOrders = {o1, o2}
  malformed = {}
  oversized = {o2}
  Scopes = {wide, narrow}
  covers <- Covers
  EventLimit = 2
  MaxFaults = 1
SYMMETRY OperatorSymmetry
INVARIANTS AcknowledgedControlsKept HaltHonoured
PROPERTIES FailsClosed HardStopAudited
