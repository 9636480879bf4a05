CONSTANTS
  Inputs = {i1, i2}
  NoInput = NoInput
  Ops = {o1, o2}
  MaxTurn = 2
  MaxRows = 6
SYMMETRY Symmetry
SPECIFICATION LogSpec
PROPERTIES ImplementsJournal
CHECK_DEADLOCK FALSE
