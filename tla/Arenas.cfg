CONSTANTS
    Allocators = {"pool"}
    Bases = {1, 4, 12}
    Header = 1
    Home = 2
    InitialCapacity = 2
    GrowthLimit = 4
    Limit = 9
    Sizes = {0, 3, 9}
    Alignments = {1, 3, 4, 8}
    MaxObjects = 3
    MaxPasses = 2
    MaxScopes = 1
SPECIFICATION Spec
INVARIANTS ObjectsSound SameAgain NothingLeft
CHECK_DEADLOCK FALSE
