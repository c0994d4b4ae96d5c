SPECIFICATION FairSpec
CONSTANTS
    Writers = {w1, w2}
    BatchSize = 2
    RecorderLines = 7
    DbMayFail = TRUE
    DriverHangs = TRUE
    PanicsAllowed = TRUE
    EventCap = 2
    StreamLines = 5
    LogsLate = FALSE
    Machines = {m1}
    Sessions = {s1, s2}
    Calls = {c1}
    None = None
CHECK_DEADLOCK FALSE
INVARIANTS
    LinesKept
    OutcomeAgrees
PROPERTIES
    GoroutinesEnd
    Reachable
