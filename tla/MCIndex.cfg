\* Mboxes of up to three messages of 1 or 4 bytes (offsets up to 12, so
\* index lines of 4 and 5 bytes), a Date that parses, one that gives -1 or
\* date that gives -1, none, or a Date first (then from is the date's text), filters by "Aab" and "AA" (each occurs,
\* ignoring case, in "aaab"; "AA" in "aa" too), a read budget
\* of 4 and a write chunk of 8 bytes; pwrite, fsync and open of the index may
\* fail and the process may be killed during a save.
CONSTANTS
    MaxMsgs = 3
    MsgLens = {1, 4}
    Dates <- MCDates
    NoDate = NoDate
    Senders <- MCSenders
    NoFrom = NoFrom
    Headers <- MCHeaders
    ReadSize = 4
    BufSiz = 8
    NoFile = NoFile
    WriteErrors = TRUE
    Crashes = TRUE
    MboxMissing = FALSE
    Patterns <- MCPatterns
SPECIFICATION Spec
INVARIANT TypeOK ListHoldsMboxRecords
PROPERTY LoadReturnsIndex SortedByOwnComparator FilterSound
\* A caller whose call crashed or blocked takes no further step.
CHECK_DEADLOCK FALSE
