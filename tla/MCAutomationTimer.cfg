CONSTANTS
    remind = remind
    report = report
    alarm = alarm
    OneShots = {remind}
    Recurring = {alarm}
    Late = {alarm}
    Held = {alarm}
    Vanishing = {}
    MaxRuns = 2
    MaxEdits = 1
    MaxEnds = 1
SPECIFICATION Spec
INVARIANTS TypeOK 
PROPERTIES OncePerCause 
CHECK_DEADLOCK FALSE
