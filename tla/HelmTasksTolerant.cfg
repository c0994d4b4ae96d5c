SPECIFICATION FairSpec
CONSTANTS
    Releases = {r1}
    Requests = {q1}
    MaxTasks = 2
    StaleAfter = 3
    HeartbeatEvery = 1
    MaxMissed = 1
    MaxCrashes = 1
    DbMayFail = TRUE
    PanicsAllowed = FALSE
CHECK_DEADLOCK FALSE
INVARIANTS
    OneLivePerRelease
PROPERTIES
    ImplementsLock
    ReleaseFreed
