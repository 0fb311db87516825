\* As MCIndex.cfg, with a Date header in January: spec.md 4.5 has every
\* Date parsed, and mboxDateStringToStruct reads no month but February.
CONSTANTS
    MaxMsgs = 3
    MsgLens = {1, 4}
    Dates <- MCJanDates
    NoDate = NoDate
    Senders <- MCSenders
    NoFrom = NoFrom
    Headers <- MCJanHeaders
    ReadSize = 4
    BufSiz = 8
    NoFile = NoFile
    WriteErrors = TRUE
    Crashes = TRUE
    MboxMissing = FALSE
    Patterns <- MCPatterns
SPECIFICATION Spec
INVARIANT DateParsedAsSpecified
\* A caller whose call crashed or blocked takes no further step.
CHECK_DEADLOCK FALSE
