\* Ten-symbol files, five contexts, read size 3.
CONSTANTS
    FileSizes = {10}
    IOThreads = 5
    ReadSize = 3
    ReadErrors = FALSE
SPECIFICATION Spec
INVARIANT RegionsDisjoint
CHECK_DEADLOCK FALSE
