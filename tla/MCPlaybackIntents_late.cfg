SPECIFICATION BoundedSpec
CONSTANTS
    Connections = {c1, c2}
    NoConnection = NoConnection
    Items = {"a", "b"}
    Plays <- MCPlays
    NoIntent = NoIntent
    NoTransition = NoTransition
    Pipe = TRUE
    Delay = TRUE
    MaxRequest = 2
    MaxLocal = 0
    MaxCommands = 1
    MaxEvents = 1
SYMMETRY Symmetry
INVARIANTS
    TypeOK
    NoOrphanIntent
PROPERTIES
    LatestIntentWins
    GoneClientStartsNothing
    LastWordIsLast
