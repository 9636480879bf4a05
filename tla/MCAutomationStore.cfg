CONSTANTS
    gateway = gateway
    evolve = evolve
    j1 = j1
    call = call
    daily = daily
    note = note
    Services = {gateway}
    Commands = {evolve}
    Jobs = {j1}
    Schedules = {daily}
    Messages = {note, call}
    OneShots = {j1}
    Vanishing = {j1}
    NoGrant = NoGrant
    MaxEdits = 3
    MaxRuns = 1
SPECIFICATION Spec
INVARIANTS RemovedStaysGone ApprovalWasGiven
PROPERTIES ImplementsEdits
CHECK_DEADLOCK FALSE
