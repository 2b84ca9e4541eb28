SPECIFICATION Spec
CONSTANTS
    Processes = {p1, p2}
    Clients = {c1, c2}
    None = None
    MaxEdits = 2
    MaxFaults = 1
PROPERTIES
    StalePidNeverSignalled
CHECK_DEADLOCK FALSE
