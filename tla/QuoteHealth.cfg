SPECIFICATION Spec
CONSTANTS
  SnapA = SnapA
  KlineA = KlineA
  BookB = BookB
  BasicA = BasicA
  KlA = KlA
  ObB = ObB
  BasicB = BasicB
  A = A
  B = B
  Refs = {SnapA, BookB}
  Keys = {BasicA, BasicB, ObB}
  Instruments = {A, B}
  InstrumentOf <- MCInstrumentOf
  Physical <- MCPhysical
  BasicOf <- MCBasicOf
  MaxChanges = 2
  MaxFaults = 1
CHECK_DEADLOCK FALSE
INVARIANT ConnectedCurrent
