SPECIFICATION FairSpec
CONSTANTS
    Machines = {guest, host}
    Members = {guest}
    Callers = {h1, h2}
    Slots = 2
    MaxTasks = 2
    MaxCrashes = 1
    DbMayFail = FALSE
    PanicsAllowed = TRUE
    LeavesAllowed = FALSE
    EditsAllowed = FALSE
INVARIANTS
    NoStrandedTask
    RowsTellOutcome
PROPERTIES
    DeploysUnderLock
    TaskEnds
