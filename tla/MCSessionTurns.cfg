CONSTANTS
  Inputs = {i1}
  NoInput = NoInput
  Ops = {o1}
  MaxTurn = 3
  Tasks = {t1, t2, t3}
  Keys = {own, routed}
  Own = own
  Nobody = Nobody
  MaxRouted = 1
  MaxCrashes = 1
  MaxStops = 1
SYMMETRY Symmetry
SPECIFICATION Spec
INVARIANTS NothingLeftOpen StaysInOwnTurn 
CHECK_DEADLOCK FALSE
