SPECIFICATION Spec
CONSTANTS
  Slots = {s1, s2, s3, s4}
  NoSlot = NoSlot
  StartLen = 3
  Policies = {TRUE, FALSE}
  Edits = {"remove", "move", "append", "shuffle"}
  MaxEdits = 2
  MaxKeys = 1
  MaxPending = 2
SYMMETRY Symmetry
INVARIANTS TypeOK PlaylistMirrorsRun CoordinateSettles RunKeepsUp ObservedSlotIsPlaying
CHECK_DEADLOCK FALSE
