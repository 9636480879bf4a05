CONSTANTS
  Msgs = {m1, m2, m3}
  Stops = {s1, s2}
SPECIFICATION Spec
INVARIANTS OneTurnAtATime InOrder
PROPERTIES EveryoneEnds
CHECK_DEADLOCK FALSE
