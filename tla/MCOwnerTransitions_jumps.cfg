SPECIFICATION BoundedFairSpec
CONSTANTS
    Contents = {"emby"}
    EmbyContents = {"emby"}
    TwitchContents = {}
    Progress = {0}
    NoProgress = 0
    Metas = {0}
    NoSlot = NoSlot
    Clients = {c1}
    NoClient = NoClient
    NoRequest = NoRequest
    NoTransition = NoTransition
    NoOrigin = NoOrigin
    Replacements <- MCReplacements
    Playlists <- MCPlaylists
    MaxLen = 2
    MaxSlotId = 3
    MaxRequest = 2
    MaxLocal = 1
    MaxStarts = 4
    MaxLineage = 1
    MaxSubmissions = 3
    MaxReports = 1
    MaxCommands = 1
INVARIANTS
    TypeOK  SupersededNeverPlays InFlightWasSent
PROPERTIES
    TransitionsResolve DisplacedIsTold ImplementsLatestJump
