\* mboxRelease after a parse of small files: mboxSetAllOffsets raises
\* read_refcount once per kept context, mboxRemoveContext lowers it once
\* per kept context, so it ends at 1 and readfd is never closed.
CONSTANTS
    FileSizes = {9, 10}
    ThreadCount = 4
    ReadSize = 3
    ReadErrors = FALSE
    PlanReadErrors = FALSE
    RefillMargin = 2
    Separated = TRUE
    CarriageReturns = FALSE
    OpenResults = {"ok"}
    WriteRefcounts = {1}
SPECIFICATION Spec
INVARIANT NoReadFdLeak
CHECK_DEADLOCK FALSE
