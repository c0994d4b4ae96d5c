SPECIFICATION Spec
CONSTANTS
    MaxStarts = 0
    MaxFaults = 1
CHECK_DEADLOCK FALSE
INVARIANT ConsistentChain
