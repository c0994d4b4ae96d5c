SPECIFICATION Spec
CONSTANTS
    Machines = {m1}
    Sessions = {s1, s2}
    Calls = {c1, c2}
    None = None
SYMMETRY CallSymmetry
CHECK_DEADLOCK FALSE
INVARIANTS
    SessionsExact
    CallsExact
