SPECIFICATION Spec
CONSTANTS
    Machines = {guest, host}
    Members = {guest}
    Callers = {h1, h2}
    Slots = 2
    MaxTasks = 2
    MaxCrashes = 1
    DbMayFail = TRUE
    PanicsAllowed = TRUE
    LeavesAllowed = TRUE
    EditsAllowed = TRUE
SYMMETRY Symmetry
INVARIANTS
    DeploymentsExact
    KeysNeverLost
