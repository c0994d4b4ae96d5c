SPECIFICATION Spec
CONSTANTS
    EventCap = 2
    MaxLines = 2
    LogsLate = TRUE
CHECK_DEADLOCK FALSE
INVARIANTS
    NoSendOnClosed
