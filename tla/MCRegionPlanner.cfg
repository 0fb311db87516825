\* Every mbox file of up to 10 symbols, five I/O contexts and a read size
\* of 3: chunks (2 symbols) are shorter than a read, so some contexts
\* jump back past their predecessor's start; pread may fail in any
\* iteration of any SeekStart loop.
CONSTANTS
    FileSizes = {0, 1, 2, 3, 4, 5, 6, 7, 8, 9, 10}
    IOThreads = 5
    ReadSize = 3
    ReadErrors = TRUE
SPECIFICATION Spec
INVARIANT TypeOK RegionsCover
\* Once every context is planned the planner has nothing left to do.
CHECK_DEADLOCK FALSE
