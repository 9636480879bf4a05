SPECIFICATION Spec
CONSTANTS
  a = a
  b = b
  Chunks = {a, b}
  Personal <- MCPersonal
  Jobs <- MCJobs
  NoChunk = none
  MaxTroubles = 2
INVARIANTS ArchivedOnce 
PROPERTY LinesMoveForAReason
CONSTRAINT Crowd
CHECK_DEADLOCK FALSE
