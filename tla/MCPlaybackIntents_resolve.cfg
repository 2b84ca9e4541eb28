SPECIFICATION BoundedFairSpec
CONSTANTS
    Connections = {c1}
    NoConnection = NoConnection
    Items = {"a", "b"}
    Plays <- MCPlays
    NoIntent = NoIntent
    NoTransition = NoTransition
    Pipe = TRUE
    Delay = FALSE
    MaxRequest = 2
    MaxLocal = 1
    MaxCommands = 1
    MaxEvents = 1
PROPERTIES
    ResolvingEnds
