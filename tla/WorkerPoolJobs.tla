--------------------------- MODULE WorkerPoolJobs ---------------------------
(***************************************************************************)
(* What the worker pool of src/src/mbox-worker.c promises its callers,    *)
(* stated without threads, locks or the semaphore:                         *)
(*   - mboxWorkerPoolEnqueue hands a job to the pool;                      *)
(*   - every job's callback runs at most once, and only after it was       *)
(*     enqueued;                                                           *)
(*   - mboxWorkerPoolWait returns only when every job enqueued so far has  *)
(*     finished its callback.                                              *)
(* The detailed module WorkerPool is checked to implement this one.        *)
(***************************************************************************)
EXTENDS Naturals

CONSTANT JobIds          \* identities of the jobs a client may enqueue

VARIABLES
    submitted,           \* jobs handed to mboxWorkerPoolEnqueue
    completed,           \* jobs whose callback has returned
    waits                \* number of calls of mboxWorkerPoolWait that returned

vars == <<submitted, completed, waits>>

Init ==
    /\ submitted = {}
    /\ completed = {}
    /\ waits = 0

Submit(j) ==
    /\ j \notin submitted
    /\ submitted' = submitted \cup {j}
    /\ UNCHANGED <<completed, waits>>

Complete(j) ==
    /\ j \in submitted \ completed
    /\ completed' = completed \cup {j}
    /\ UNCHANGED <<submitted, waits>>

WaitReturns ==
    /\ completed = submitted
    /\ waits' = waits + 1
    /\ UNCHANGED <<submitted, completed>>

Next ==
    \/ \E j \in JobIds : Submit(j) \/ Complete(j)
    \/ WaitReturns

Spec == Init /\ [][Next]_vars
=============================================================================
