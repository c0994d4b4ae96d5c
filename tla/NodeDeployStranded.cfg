SPECIFICATION Spec
CONSTANTS
    Machines = {guest, host}
    Members = {guest}
    Callers = {h1, h2}
    Slots = 1
    MaxTasks = 1
    MaxCrashes = 0
    DbMayFail = TRUE
    PanicsAllowed = FALSE
    LeavesAllowed = FALSE
    EditsAllowed = FALSE
INVARIANTS
    NoStrandedTask
