CONSTANTS
    FileSizes = {0, 1, 2, 3, 4, 5, 6, 7, 8, 9, 10, 11, 12}
    ThreadCount = 4
    ReadSize = 3
    ReadErrors = TRUE
    PlanReadErrors = FALSE
    RefillMargin = 2
    Separated = TRUE
    CarriageReturns = TRUE
    OpenResults = {"ok", "open_fails", "fstat_fails"}
    WriteRefcounts = {0, 1}
SPECIFICATION Spec
INVARIANT TypeOK NoMergedMessages ParseReturnsAllRecords
PROPERTY ParseTerminates
\* mboxParse returns: the system stops once both Waits have returned.
CHECK_DEADLOCK FALSE
