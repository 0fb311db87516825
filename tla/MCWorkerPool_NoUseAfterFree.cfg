\* As in mboxRelease: after the last Wait the client calls
\* mboxWorkerPoolRelease.
CONSTANTS
    Workers = {w1, w2, w3}
    NoJob = NoJob
    Release = TRUE
    Rounds <- MCRounds

SPECIFICATION Spec

INVARIANT NoUseAfterFree

CHECK_DEADLOCK FALSE
