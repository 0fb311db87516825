\* Three workers, two rounds of three jobs, then mboxWorkerPoolRelease:
\* mboxParse with thread_count 6 (three io threads, three contexts kept).
CONSTANTS
    Workers = {w1, w2, w3}
    NoJob = NoJob
    Release = TRUE
    Rounds <- MCRounds

SPECIFICATION Spec

INVARIANT TypeOK
INVARIANT NoLostWakeup
INVARIANT JobListLinked
PROPERTY WaitReturns
PROPERTY ImplementsWorkerPoolJobs
PROPERTY ImplementsListFifo

\* When the client is done every worker blocks on the semaphore for ever
\* (the detached threads are never stopped), and a client blocked in
\* mboxWorkerPoolStop waits for a signal nobody sends: the system stops.
CHECK_DEADLOCK FALSE
