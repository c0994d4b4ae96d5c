SPECIFICATION FairSpec
CONSTANTS
    Services = {s1}
    Nodes = {n1}
    MaxEdits = 1
    MaxMoves = 0
    MaxFaults = 1
    MaxRestarts = 0
CHECK_DEADLOCK FALSE
PROPERTY OnlyReadyPublished
