SPECIFICATION Spec
CONSTANTS
    Sessions = {s1, s2}
    Kinds = {"terminal", "admin"}
    NoSession = NoSession
    MaxLaunches = 2
    MaxFaults = 2
    MaxEdits = 1
SYMMETRY Symmetry
INVARIANTS TypeOK ExclusiveOwner QuitMeansReplaced ToldBeforeExit NoForgottenOwner
CHECK_DEADLOCK FALSE
