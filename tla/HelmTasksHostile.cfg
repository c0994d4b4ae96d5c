SPECIFICATION Spec
CONSTANTS
    Releases = {r1}
    Requests = {q1, q2}
    MaxTasks = 2
    StaleAfter = 2
    HeartbeatEvery = 1
    MaxMissed = 1
    MaxCrashes = 1
    DbMayFail = TRUE
    PanicsAllowed = TRUE
SYMMETRY Symmetry
CHECK_DEADLOCK FALSE
INVARIANTS
    KeysExact
    DoneMeansSucceeded
PROPERTIES
    TerminalIsFinal
    TakeoverOnlyOfSilent
    DeletedStaysOff
    OrphanLogsOnlyLate
