\* Mboxes of up to three messages of 1 or 4 bytes (offsets up to 12, so
\* index lines of 4 and 5 bytes), every date and sender shape, a read budget
\* of 4 and a write chunk of 8 bytes; pwrite, fsync and open of the index may
\* fail, the process may be killed during a save and the mbox may be missing.
CONSTANTS
    MaxMsgs = 3
    MsgLens = {1, 4}
    Dates <- MCDates
    NoDate = NoDate
    Senders <- MCSenders
    NoFrom = NoFrom
    Headers <- MCHeaders
    ReadSize = 4
    BufSiz = 8
    NoFile = NoFile
    WriteErrors = TRUE
    Crashes = TRUE
    MboxMissing = TRUE
    Patterns <- MCPatterns
SPECIFICATION Spec
INVARIANT CallsReturn
\* A caller whose call crashed or blocked takes no further step.
CHECK_DEADLOCK FALSE
