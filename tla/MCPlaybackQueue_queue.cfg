CONSTANTS
    Contents = {e1, f1, t1}
    EmbyContents = {e1}
    TwitchContents = {t1}
    NoProgress = 0
    Progress = {0, 1}
    Metas = {0, 1}
    NoSlot = NoSlot
    Mints = {m1, m2}
    Snapshots <- MCSnapshots
    ItemLists <- MCItemLists
    Fetches <- MCFetches
    FetchLists <- MCFetchLists
    MaxLen = 2
    MaxSlotId = 3
    MaxRevision = 3
SPECIFICATION BoundedSpec
INVARIANTS TypeOK SlotIdentity IdsNeverReused
PROPERTIES RefreshKeepsActive RevisionFresh
