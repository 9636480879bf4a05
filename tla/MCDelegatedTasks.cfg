CONSTANTS
  Spawned = {t1}
  Meas = {t2}
  Outcomes = {"succeeded"}
  MaxResets = 2
  MaxStops = 1
  MaxRestarts = 1
SPECIFICATION Spec
INVARIANTS RunningIsTracked  
CHECK_DEADLOCK FALSE
PROPERTY LatchClears
