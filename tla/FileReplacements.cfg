CONSTANTS
    Callers = {c1, c2}
    Attempts = 2
    MaxEdits = 1
    MaxTicks = 1
    MaxCrashes = 1
SPECIFICATION Spec
INVARIANTS OnlyExpectedLost NeverTorn NothingStaged
PROPERTIES OthersKept
CHECK_DEADLOCK FALSE
SYMMETRY Symmetry
