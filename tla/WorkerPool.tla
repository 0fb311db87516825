----------------------------- MODULE WorkerPool -----------------------------
(***************************************************************************)
(* The thread pool of src/src/mbox-worker.c and the client thread that     *)
(* drives it the way src/src/mbox.c does: enqueue a round of jobs, call    *)
(* mboxWorkerPoolWait, enqueue the next round, wait again, and finally     *)
(* (optionally) mboxWorkerPoolRelease.                                     *)
(*                                                                         *)
(* Shared state of the pool: the job list (guarded by qlock), the binary   *)
(* semaphore sem->val (guarded by sem->lock), the counters alive_threads   *)
(* and active_threads (guarded by lock) and the condition variables        *)
(* no_work and has_work.  Each worker thread runs mboxWorkerPoolMain; its  *)
(* loop is split at every lock acquisition, since that is where another    *)
(* thread can interleave.  Steps that happen under one mutex and touch     *)
(* only state that mutex guards are single actions.                       *)
(***************************************************************************)
EXTENDS Naturals, Sequences, FiniteSets

CONSTANTS
    Workers,      \* the worker threads spawned by workerSpawn
    Rounds,       \* Rounds[r] = number of jobs the client enqueues before its r-th Wait
    Release,      \* does the client call mboxWorkerPoolRelease after its last Wait?
    NoJob         \* the NULL returned by mboxListRemoveHead on an empty list

ASSUME Workers # {}
ASSUME Rounds \in Seq(Nat \ {0}) /\ Len(Rounds) > 0
ASSUME Release \in BOOLEAN

(* Jobs are numbered in the order the client enqueues them. *)
RECURSIVE SumSeq(_)
SumSeq(s) == IF s = <<>> THEN 0 ELSE Head(s) + SumSeq(Tail(s))

JobIds == 1..SumSeq(Rounds)

(* The list never holds more than one round: the next round is enqueued   *)
(* only after a Wait that saw it empty.                                    *)
MaxRound == CHOOSE b \in {Rounds[r] : r \in DOMAIN Rounds} : \A r \in DOMAIN Rounds : Rounds[r] <= b

(* pool->jobs, an mboxList (src/src/mbox-list.c) at the level of its      *)
(* pointers, with node addresses 1..MaxRound.                              *)
JL == INSTANCE MboxList WITH NodeIds <- 1..MaxRound, Nil <- NoJob

VARIABLES
    jobs,         \* pool->jobs, the mboxList of enqueued, not yet dequeued jobs
    sem,          \* pool->sem->val
    alive,        \* pool->alive_threads
    active,       \* pool->active_threads
    pc,           \* where each worker thread is in mboxWorkerPoolMain
    job,          \* the local variable 'job' of each worker
    client,       \* where the client thread is
    rnd,          \* number of client calls to mboxWorkerPoolWait that returned
    enqueued,     \* history: jobs the client has enqueued
    done          \* history: jobs whose callback has returned

vars == <<jobs, sem, alive, active, pc, job, client, rnd, enqueued, done>>

WorkerPCs == {"start", "sem", "inc", "deq", "run", "dec"}
ClientPCs == {"new", "enqueue", "wait", "wait_blocked",
              "stop", "stop_blocked", "freed", "done"}

(* Number of jobs enqueued before the r-th Wait. *)
JobsBefore(r) == SumSeq(SubSeq(Rounds, 1, r))

-----------------------------------------------------------------------------
(* mboxSemNew: val starts at 0.  mboxSemaphoreSignal: under the lock, val *)
(* := 1 whatever it was (a binary semaphore), and one waiter is woken.    *)
mboxSemNew == 0
mboxSemaphoreSignal == 1

(* mboxWorkerPoolNew: the job list is mboxListNew, the semaphore is 0, no  *)
(* thread is alive yet; workerSpawn creates and detaches the threads.       *)
Init ==
    /\ jobs = JL!mboxListNew
    /\ sem = mboxSemNew
    /\ alive = 0
    /\ active = 0
    /\ pc = [w \in Workers |-> "start"]
    /\ job = [w \in Workers |-> NoJob]
    /\ client = "new"
    /\ rnd = 0
    /\ enqueued = {}
    /\ done = {}

(* The busy loop at the end of mboxWorkerPoolNew: the pool is returned     *)
(* only once every worker has incremented alive_threads.                   *)
mboxWorkerPoolNew ==
    /\ client = "new"
    /\ alive = Cardinality(Workers)
    /\ client' = "enqueue"
    /\ UNCHANGED <<jobs, sem, alive, active, pc, job, rnd, enqueued, done>>

(* mboxWorkerPoolEnqueue: mboxWorkerJobNew makes job j; under qlock,       *)
(* mboxListAddTail links it in and the semaphore is signalled (val := 1,    *)
(* whatever it was).                                                        *)
mboxWorkerPoolEnqueue ==
    LET j == Cardinality(enqueued) + 1 IN
    /\ client = "enqueue"
    /\ j <= JobsBefore(rnd + 1)
    /\ jobs' = JL!mboxListAddTail(jobs, j)
    /\ sem' = mboxSemaphoreSignal
    /\ enqueued' = enqueued \cup {j}
    /\ client' = IF j = JobsBefore(rnd + 1) THEN "wait" ELSE "enqueue"
    /\ UNCHANGED <<alive, active, pc, job, rnd, done>>

(* What the client does once a Wait returns: the next round, Release, or   *)
(* nothing more.                                                           *)
AfterWait ==
    IF rnd + 1 < Len(Rounds) THEN "enqueue"
    ELSE IF Release THEN "stop" ELSE "done"

(* Mutant of mboxWorkerPoolWait: only active_threads is tested. *)
mboxWorkerPoolWaitIdleOnly ==
    /\ client = "wait"
    /\ IF active = 0
          THEN /\ client' = AfterWait
               /\ rnd' = rnd + 1
          ELSE /\ client' = "wait_blocked"
               /\ UNCHANGED rnd
    /\ UNCHANGED <<jobs, sem, alive, active, pc, job, enqueued, done>>

(* mboxWorkerPoolWait, one test of its loop under pool->lock.  The list     *)
(* length is read without qlock.  If the test fails the client blocks on   *)
(* no_work, releasing the lock atomically.                                 *)
mboxWorkerPoolWait ==
    /\ client = "wait"
    /\ IF jobs.len = 0 /\ active = 0
          THEN /\ client' = AfterWait
               /\ rnd' = rnd + 1
          ELSE /\ client' = "wait_blocked"
               /\ UNCHANGED rnd
    /\ UNCHANGED <<jobs, sem, alive, active, pc, job, enqueued, done>>

(* mboxWorkerPoolRelease -> mboxWorkerPoolStop.  Under pool->lock it waits  *)
(* on has_work until active_threads is 0; no worker ever signals has_work.  *)
(* Once past the loop it sets run = 0 (which no worker reads), broadcasts  *)
(* has_work, calls pthread_join on the detached workers (which returns     *)
(* EINVAL at once on glibc), destroys the mutexes and frees the job list   *)
(* and the pool; mboxListRelease empties the job list first.  The         *)
(* semaphore is never freed.                                               *)
mboxWorkerPoolStop ==
    /\ client = "stop"
    /\ client' = IF active = 0 THEN "freed" ELSE "stop_blocked"
    /\ jobs' = IF active = 0 THEN JL!mboxListRelease(jobs) ELSE jobs
    /\ UNCHANGED <<sem, alive, active, pc, job, rnd, enqueued, done>>

-----------------------------------------------------------------------------
(* Worker w moves from one point of mboxWorkerPoolMain to the next. *)
Transition(w, from, to) ==
    /\ pc[w] = from
    /\ pc' = [pc EXCEPT ![w] = to]

(* Thread start: alive_threads++ under pool->lock. *)
WorkerAlive(w) ==
    /\ Transition(w, "start", "sem")
    /\ alive' = alive + 1
    /\ UNCHANGED <<jobs, sem, active, job, client, rnd, enqueued, done>>

(* mboxSemaphoreWait: block until val = 1, then take it (val := 0). *)
mboxSemaphoreWait(w) ==
    /\ sem = 1
    /\ Transition(w, "sem", "inc")
    /\ sem' = 0
    /\ UNCHANGED <<jobs, alive, active, job, client, rnd, enqueued, done>>

(* active_threads++ under pool->lock. *)
WorkerBusy(w) ==
    /\ Transition(w, "inc", "deq")
    /\ active' = active + 1
    /\ UNCHANGED <<jobs, sem, alive, job, client, rnd, enqueued, done>>

(* Mutants of mboxWorkerPoolDequeue: a counting semaphore (val++), and   *)
(* no re-signal after a job is drawn.                                      *)
mboxWorkerPoolDequeueCounting(w) ==
    /\ pc[w] = "deq"
    /\ LET r == JL!mboxListRemoveHead(jobs) IN
       /\ jobs' = r[1]
       /\ IF r[2] # NoJob
          THEN /\ job' = [job EXCEPT ![w] = r[2]]
               /\ sem' = sem + 1
               /\ pc' = [pc EXCEPT ![w] = "run"]
          ELSE /\ pc' = [pc EXCEPT ![w] = "dec"]
               /\ UNCHANGED <<job, sem>>
    /\ UNCHANGED <<alive, active, client, rnd, enqueued, done>>

mboxWorkerPoolDequeueNoSignal(w) ==
    /\ pc[w] = "deq"
    /\ LET r == JL!mboxListRemoveHead(jobs) IN
       /\ jobs' = r[1]
       /\ IF r[2] # NoJob
          THEN /\ job' = [job EXCEPT ![w] = r[2]]
               /\ pc' = [pc EXCEPT ![w] = "run"]
               /\ UNCHANGED sem
          ELSE /\ pc' = [pc EXCEPT ![w] = "dec"]
               /\ UNCHANGED <<job, sem>>
    /\ UNCHANGED <<alive, active, client, rnd, enqueued, done>>

(* mboxWorkerPoolDequeue: under qlock mboxListRemoveHead unlinks the head  *)
(* (NULL if the list is empty); if a job was drawn, signal the semaphore   *)
(* again so another worker drains the rest.                                *)
mboxWorkerPoolDequeue(w) ==
    /\ pc[w] = "deq"
    /\ LET r == JL!mboxListRemoveHead(jobs) IN
       /\ jobs' = r[1]
       /\ IF r[2] # NoJob
          THEN /\ job' = [job EXCEPT ![w] = r[2]]
               /\ sem' = mboxSemaphoreSignal
               /\ pc' = [pc EXCEPT ![w] = "run"]
          ELSE /\ pc' = [pc EXCEPT ![w] = "dec"]
               /\ UNCHANGED <<job, sem>>
    /\ UNCHANGED <<alive, active, client, rnd, enqueued, done>>

(* job->callback(pool->priv_data, job->argv); free(job). *)
RunCallback(w) ==
    /\ Transition(w, "run", "dec")
    /\ done' = done \cup {job[w]}
    /\ job' = [job EXCEPT ![w] = NoJob]
    /\ UNCHANGED <<jobs, sem, alive, active, client, rnd, enqueued>>

(* Mutant of WorkerIdle: no_work is never signalled. *)
WorkerIdleNoSignal(w) ==
    /\ Transition(w, "dec", "sem")
    /\ active' = active - 1
    /\ UNCHANGED <<jobs, sem, alive, job, client, rnd, enqueued, done>>

(* Under pool->lock: active_threads--, and if it reached 0 signal no_work, *)
(* which wakes the client if it is blocked in mboxWorkerPoolWait.          *)
WorkerIdle(w) ==
    /\ Transition(w, "dec", "sem")
    /\ active' = active - 1
    /\ client' = IF active - 1 = 0 /\ client = "wait_blocked"
                    THEN "wait" ELSE client
    /\ UNCHANGED <<jobs, sem, alive, job, rnd, enqueued, done>>

-----------------------------------------------------------------------------
ClientNext ==
    \/ mboxWorkerPoolNew
    \/ mboxWorkerPoolEnqueue
    \/ mboxWorkerPoolWait
    \/ mboxWorkerPoolStop

WorkerNext(w) ==
    \/ WorkerAlive(w)
    \/ mboxSemaphoreWait(w)
    \/ WorkerBusy(w)
    \/ mboxWorkerPoolDequeue(w)
    \/ RunCallback(w)
    \/ WorkerIdle(w)

Next == ClientNext \/ \E w \in Workers : WorkerNext(w)

(* Threads are scheduled by the OS: a thread that can run keeps running.  *)
Fairness ==
    /\ WF_vars(ClientNext)
    /\ \A w \in Workers : WF_vars(WorkerNext(w))

Spec == Init /\ [][Next]_vars /\ Fairness

-----------------------------------------------------------------------------
TypeOK ==
    /\ jobs \in JL!LNodes(JobIds)
    /\ sem \in {0, 1}
    /\ alive \in 0..Cardinality(Workers)
    /\ active \in 0..Cardinality(Workers)
    /\ pc \in [Workers -> WorkerPCs]
    /\ job \in [Workers -> JobIds \cup {NoJob}]
    /\ client \in ClientPCs
    /\ rnd \in 0..Len(Rounds)
    /\ enqueued \in SUBSET JobIds
    /\ done \in SUBSET JobIds

(* The binary semaphore never loses a wake-up: while a job sits in the     *)
(* queue, either the semaphore holds a token or some worker has taken one  *)
(* and has yet to call mboxWorkerPoolDequeue.  Two enqueues before any     *)
(* worker wakes leave a single token; only the re-signal in               *)
(* mboxWorkerPoolDequeue keeps the second job from being stranded.        *)
NoLostWakeup ==
    jobs.len # 0 => (sem = 1 \/ \E w \in Workers : pc[w] \in {"inc", "deq"})

(* Every call of mboxWorkerPoolWait eventually returns. *)
WaitReturns ==
    client \in {"wait", "wait_blocked"} ~> client \notin {"wait", "wait_blocked"}

(* After mboxWorkerPoolRelease frees the pool, no worker may touch it: all *)
(* must be blocked in mboxSemaphoreWait (the semaphore is never freed)    *)
(* with no token left that would let one of them go on to lock the freed  *)
(* pool->lock.                                                             *)
NoUseAfterFree ==
    client = "freed" => (sem = 0 /\ \A w \in Workers : pc[w] = "sem")

(* pool->jobs stays a well-linked circular list through every interleaving *)
(* of the client's mboxListAddTail with the workers' mboxListRemoveHead,   *)
(* including removal down to one node and to none and insertion into the  *)
(* empty list, where root and the self links are rewritten.               *)
JobListLinked == JL!WellLinked(jobs)

(* The links implement a FIFO (ListFifo): read off along next from root,   *)
(* each enqueue appends its job at the end and each dequeue drops exactly  *)
(* the first; this is the sequence view Index and ListSort take of lists.  *)
Fifo == INSTANCE ListFifo WITH Values <- JobIds, queue <- JL!Items(jobs)

ImplementsListFifo == Fifo!Spec

(* The pool implements WorkerPoolJobs: each callback runs once, after its  *)
(* job was enqueued, and Wait returns only when all enqueued jobs are done.*)
Abstract == INSTANCE WorkerPoolJobs
    WITH submitted <- enqueued, completed <- done, waits <- rnd

ImplementsWorkerPoolJobs == Abstract!Spec
=============================================================================
