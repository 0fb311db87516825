\* Files of up to six symbols split between two contexts; among them the
\* files that hold a single message.
CONSTANTS
    FileSizes = {0, 1, 2, 3, 4, 5, 6}
    IOThreads = 2
    ReadSize = 3
    ReadErrors = FALSE
SPECIFICATION Spec
PROPERTY SeekStartTerminates
CHECK_DEADLOCK FALSE
