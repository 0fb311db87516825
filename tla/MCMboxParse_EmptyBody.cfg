CONSTANTS
    FileSizes = {0, 1, 2, 3, 4, 5, 6, 7, 8, 9, 10}
    ThreadCount = 2
    ReadSize = 3
    ReadErrors = FALSE
    PlanReadErrors = FALSE
    RefillMargin = 2
    Separated = FALSE
    CarriageReturns = FALSE
    OpenResults = {"ok"}
    WriteRefcounts = {1}
SPECIFICATION Spec
INVARIANT NoMergedMessages
CHECK_DEADLOCK FALSE
