CONSTANTS
  Index = {i1, i2}
  MaxPieces = 2
  NoCall = NoCall
SPECIFICATION Spec
INVARIANTS KeepsAll
PROPERTIES WellFormed
CHECK_DEADLOCK FALSE
