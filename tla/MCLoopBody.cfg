SPECIFICATION LoopSpec
CONSTANTS
 MaxUsers = 2
 MaxMade = 2
 MaxBatch = 2
 HardCap = 2
 Limits <- MCLimits
 MaxTroubles = 2
INVARIANTS LoopTypeOK BatchesComplete PromptIsLegal TurnsKeptOnce NewForgets
CHECK_DEADLOCK FALSE
