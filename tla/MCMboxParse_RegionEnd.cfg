CONSTANTS
    FileSizes = {0, 1, 2, 3, 4, 5, 6, 7, 8, 9, 10}
    ThreadCount = 4
    ReadSize = 2
    ReadErrors = FALSE
    PlanReadErrors = FALSE
    RefillMargin = 2
    Separated = TRUE
    CarriageReturns = FALSE
    OpenResults = {"ok"}
    WriteRefcounts = {1}
SPECIFICATION Spec
INVARIANT NoMessageLost
CHECK_DEADLOCK FALSE
