CONSTANTS
  Inputs = {i1, i2}
  NoInput = NoInput
  Ops = {o1}
  MaxTurn = 2
SYMMETRY Symmetry
SPECIFICATION JournalSpec
INVARIANTS JournalTypeOK AtMostOnce
PROPERTIES TurnsStartFresh RecordsOnlyAdvance
