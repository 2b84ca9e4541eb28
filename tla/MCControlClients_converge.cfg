SPECIFICATION Spec
CONSTANTS
    Sessions = {s1, s2}
    Kinds = {"terminal", "admin"}
    NoSession = NoSession
    MaxLaunches = 0
    MaxFaults = 0
    MaxEdits = 1
SYMMETRY Symmetry
INVARIANTS ClientsConverge
CHECK_DEADLOCK FALSE
