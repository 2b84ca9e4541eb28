SPECIFICATION Spec
CONSTANTS
    Processes = {p1, p2}
    Clients = {c1, c2}
    None = None
    MaxEdits = 2
    MaxFaults = 2
SYMMETRY Symmetry
INVARIANTS
    TypeOK
    OneWriter
    SomeLaunchAttaches
PROPERTIES
    ImplementsDurableQueue
CHECK_DEADLOCK FALSE
