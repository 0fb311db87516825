\* Reproducer: the filter misses "aaab" for the pattern "Aab".
\* Mboxes of up to three messages of 1 or 4 bytes (offsets up to 12, so
\* index lines of 4 and 5 bytes), every date and sender shape, filters by
\* patterns that do and do not occur (ignoring case), a read budget
\* of 4 and a write chunk of 8 bytes; pwrite, fsync and open of the index may
\* fail and the process may be killed during a save.
CONSTANTS
    MaxMsgs = 3
    MsgLens = {1, 4}
    Dates <- MCDates
    NoDate = NoDate
    Senders <- MCSenders
    NoFrom = NoFrom
    Headers <- MCHeaders
    ReadSize = 4
    BufSiz = 8
    NoFile = NoFile
    WriteErrors = TRUE
    Crashes = TRUE
    MboxMissing = FALSE
    Patterns <- MCPatterns
SPECIFICATION Spec
PROPERTY FilterComplete
\* A caller whose call crashed or blocked takes no further step.
CHECK_DEADLOCK FALSE
