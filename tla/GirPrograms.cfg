CONSTANTS
    Narrow = 2
    Word = 4
    Programs <- MCPrograms
SPECIFICATION Spec
INVARIANT MeaningKept
CHECK_DEADLOCK FALSE
