SPECIFICATION Spec
CONSTANTS
  Slots = {s1, s2, s3, s4}
  NoSlot = NoSlot
  StartLen = 4
  Policies = {TRUE}
  Edits = {"shuffle"}
  MaxEdits = 1
  MaxKeys = 0
  MaxPending = 0
SYMMETRY Symmetry
INVARIANT NaturalEndFollowsQueue
CHECK_DEADLOCK FALSE
