# TLA+ models of libmbox2

These modules model the concurrent core of libmbox2 (`src/src/`): the
worker pool, the chunk planner that splits an mbox file into regions for
parallel parsing, the framing loop that cuts each region into messages,
the header parser with its red-black tree and MIME decoder, the date
parser, the open and release of an mbox handle, and the index that saves
a message list, loads it back, sorts and filters it. The TLC configurations next to them check the models. Each
definition that models code is listed in `PROJECT.json` ("map") with the
source lines it translates.

## 1. The system: components, state, interactions

`mboxParse(m, thread_count)` (src/src/mbox.c) runs a two-stage pipeline.

| Component | Source | State | Operations |
|---|---|---|---|
| Worker pool | mbox-worker.c | job FIFO `jobs` (qlock); binary semaphore `sem->val` (sem->lock); `active_threads`, `alive_threads` (lock); condition variables `no_work`, `has_work`; `run` flag | `mboxWorkerPoolNew` (spawn detached threads, spin until all alive), `Enqueue` (append + signal), `Dequeue` (pop + re-signal if a job was drawn), `Wait` (until queue empty and no thread active), worker loop `mboxWorkerPoolMain`, `Stop`/`Release` |
| Chunk planner | mbox.c `mboxSetAllOffsets`, mbox-parser.c `mboxParserCtxSeekStart` | per context: `start_offset`, `end_offset`, `file_offset`, read buffer | cut the file at `i * file_size/T`; on the io pool, move each cut back to a `\nFrom ` line; set ends to the next start; drop empty contexts |
| Framing loop | mbox-parser.c `mboxParserCtxGetNextMessage` and helpers | per context: buffer, `buf->offset`, `file_offset`, `offset` | find end of headers, find the next From line with refills, emit a raw message `[start, end)` |
| Pipeline driver | mbox.c | `io_pool`, `parse_pool`, `contexts`, `completed_parse` (thread-safe list) | `mboxParserInit`, `mboxMain`, `mboxParseAllMessages` (io jobs enqueue parse jobs), `mboxRelease` |
| Header/MIME parsing, records, dates | mbox-parser.c, mbox-buf.c, mbox-msg.c, mbox-date.c | none shared | pure conversions per message |
| Index | mbox-index.c | the sidecar file; a pool of its own for loading | `mboxIdxSave` (sort by start, buffered writes), `mboxIdxLoad` (read pairs, batch them, read each batch on a pool) |
| Lists | mbox-list.c | circular list + mutex | add/remove head/tail, thread-safe wrappers, `mboxListQSort` |

The components interact in this order. The main thread creates two pools,
with `thread_count/2` workers each. The planner enqueues T =
`io_thread_count` SeekStart jobs on the io pool and waits. Next, one
framing job per kept context goes on the io pool. Each framing job enqueues
one parse job per message on the parse pool. The main thread waits on the
io pool, then on the parse pool. `mboxRelease` stops and frees both pools.
The index loader makes its own pool and only ever waits on it.

### What is hard here

- **The pool's binary semaphore.** Enqueue sets `val = 1` whatever it was,
  so wake-ups collapse. Correctness rests on Dequeue re-signalling after
  each drawn job. That re-signal leaves a stale token after the last job,
  and an idle worker then makes a pass of its own (`active++`, empty
  dequeue, `active--`). This pass can race with `mboxWorkerPoolWait` and
  with `mboxWorkerPoolRelease`.
- **Planner alignment.** T independent backward searches must together
  give regions that tile the file. The searches scan each window
  forwards. They exit only on a match, EOF or an error. Whether the
  regions tile depends on the file, the chunk size and the read size.
- **Framing across refills.** The buffer is refilled in the middle of a
  scan, so a `\nFrom ` or a `\n\r\n` can be cut by a read. A region's
  end can land within 10 bytes of the buffer end, and EOF and read
  errors each have their own return path.
- **Index save and load.** The index file is truncated before the first
  line is written and written in BUFSIZ chunks, so an error, a crash or a
  blocked sort leaves a prefix on disk. Loading cuts the pairs into
  batches whose read budget is checked after the message is added, and
  an empty index is not handled.
- **Descriptor reference counts.** `read_refcount` is raised once per
  kept context during planning and lowered once per context at release;
  whether the descriptor is ever closed depends on the two loops agreeing.
- **The list mutex.** `mboxListQSort` returns with the mutex held when the
  list has at most one node, so the next sort of the same list blocks.

### Properties each component needs

- Pool:
  - no queued job is stranded;
  - every Wait returns, and only when all jobs enqueued so far have run;
  - Release returns;
  - nothing touches the pool after Release frees it.
- Planner:
  - it terminates;
  - regions are disjoint and cover the file;
  - each region starts on a message boundary.
- Framing: records in a region are in file order, disjoint, and each
  starts at a From line; no message is lost at a region end or at EOF.
- Header tree: stays a red-black search tree, never writes the shared
  sentinel, and behaves as a first-value-wins map.
- Index: the file on disk is always whole, ordered lines of real messages;
  load(save(l)) gives back l's offsets; every sort that returns sorts;
  a filter returns exactly the matching senders; a record's timestamp is
  the instant its Date header names.
- Handle: every descriptor `mboxReadOpen` opens is closed by the time the
  caller is done.

## 2. Modules and plan

| Module | Models | Status |
|---|---|---|
| `WorkerPoolJobs` | abstract pool: jobs submitted, completed once, Wait returns only when all are done | done |
| `WorkerPool` | mbox-worker.c + a client driving it like mbox.c; its job list is an `MboxList`; refines `WorkerPoolJobs` and, for the list, `ListFifo` | done |
| `MboxList` | mbox-list.c at the level of its pointers: `mboxListNew`, `mboxLNodeNew`, `AddTail`, `RemoveHead`, `Release`, operators applied by a client | done (operators) |
| `ListFifo` | abstract list: a FIFO of values (AddTail appends, RemoveHead drops the head) | done |
| `RegionPlanner` | `mboxSetAllOffsets` + `mboxParserCtxSeekStart` + `mboxIORead` outcomes | done |
| `MboxParse` | `mboxReadOpen`, then `mboxMain`: the planner (an INSTANCE of `RegionPlanner`), `mboxParserCtxGetNextMessage`, `SeekHeaders`, `mboxBufCanParseHeaders`, `SeekNextFromLine` in every kept context, the parse jobs and both Waits; then `mboxRelease` | done |
| `MboxBuf` | `mboxBufCaseCmp` / strncasecmp (the key comparison of the header tree) and the MIME encoded-word test and decoder | done |
| `MboxDate` | mbox-date.c: `mboxDateStringToStruct` (the format-driven parser, with its own strtol and name lookup) and `mboxDateStructToUnix` (mktime in UTC, then the zone) | done (operators) |
| `HeaderMap` | abstract header map: keys equal under the comparator, first value wins | done |
| `RBTree` | mbox-redblacktree.c: node allocation, insert with fix-up and rotations, Get, Has, Clear and Release; refines `HeaderMap` | done (no Delete) |
| `HeaderParse` | `mboxParseEmailHeaders` on a whole header block (MIME values decoded) and the fields `mboxMsgLiteFromBuffer` reads | done |
| `ListSort` | `mboxListQSort` (pivot, helper, circular wrap) as RECURSIVE operators, with the three comparators of its callers | done (operators) |
| `Index` | `mboxIdxSave`, `loadIndexes`/`indexesToList`, `mboxIdxBatchLoad`/`mboxIdxGetMessages`, the caller's date and sender sorts and the sender filter (KMP), all on one caller list; record timestamps through `MboxDate`; the list operations the callers use | done |

## 3. How the modules correspond to the code

### WorkerPool

Variables:

- `jobs`, `sem`, `alive`, `active`: the pool fields. `jobs` is the
  `mboxList` itself (see MboxList below), not a sequence.
- `pc[w]`: where worker `w` is in `mboxWorkerPoolMain`. The loop is cut
  at each mutex acquisition: `start` → `sem` → `inc` → `deq` → (`run`) →
  `dec` → `sem`.
- `client`: where the client thread is.
- `rnd`: the number of Wait calls that returned.
- `enqueued`, `done`: history variables for the refinement.

Enqueue and Dequeue are single steps: qlock serialises them, and the
semaphore signal happens inside qlock. Wait reads the list length without
qlock, but under `pool->lock`. Taking that read as atomic loses no
behaviour. A `len` write not ordered before the read by `pool->lock`
comes from a thread inside `mboxListRemoveHead`, and that worker has
already raised `active_threads` under `pool->lock`. The test then fails
on `active_threads` whatever value of `len` it reads, and that worker's
decrement to 0 signals `no_work`. So `WaitReturns` does not rest on the
atomic read. `mboxWorkerPoolStop` is one step:

- if `active_threads` is 0 it passes and the pool is freed;
- otherwise it blocks on `has_work`. The model has no action that wakes
  it, because no worker code signals `has_work`.

`pthread_join` on the detached threads returns at once (glibc gives
EINVAL). When Stop passes, `mboxListRelease` empties the job list.

### MboxList and ListFifo

`MboxList` has no variables, like a data-structure module: a list is a
record of the `mboxList` fields (`len`, `root`) and of the `next`,
`prev` and `data` fields of every node address, with `live` the nodes
malloc has handed out. A freed node's fields are reset to NULL, since
nothing reads freed memory. malloc returns the lowest free address;
addresses are interchangeable, so this loses no behaviour. Each
operator is one call, under the lock its caller holds:
`mboxListAddTail` links the new node after `root->prev` in the order of
the code's four assignments, and `mboxListRemoveHead` moves `root`,
relinks the tail and the new root, frees the head and returns its data
(NULL on an empty list). `mboxListRelease` is its loop of RemoveHead.

`Items(l)` reads the values along `next` from `root`. It is the
refinement mapping onto `ListFifo`, whose state is that sequence. Run
`pool` checks that the job list implements `ListFifo` and stays
`WellLinked` under every interleaving of the client and the workers.
That is the ground for the sequence view of lists that `Index` and
`ListSort` take.

### WorkerPoolJobs

The abstract specification. `WorkerPool` maps onto it with
`submitted <- enqueued`, `completed <- done` and `waits <- rnd`.

### RegionPlanner

The file is a sequence of symbols:

- `"F"` stands for the five bytes `From `;
- `"N"` stands for a newline;
- `"x"` stands for any other byte.

`From ` is taken only at the start of a line. The file begins with one,
as an mbox file does. `<<N, F>>` is the code's `\nFrom `. Offsets and
sizes count symbols, and `ReadSize` plays IO_READ_SIZE. The scaling keeps
the one relation that matters: the chunk size against the read size.

Each iteration of the SeekStart loop is one action, with four outcomes:

- the read fails;
- it reads 0 bytes;
- the first match in the buffer sets `start_offset = offset + idx`;
- there is no match and the loop goes round.

A match must lie wholly before `buf->len`, where mboxBufSetLen writes a
NUL. The T searches run as independent steps in any interleaving.
`mboxSetAllOffsets` is one step after all of them. Module `WorkerPool`
shows that `mboxWorkerPoolWait` returns only then.

### MboxParse

The file has one more symbol, `"R"` (a carriage return), so that
`\n\r\n` header ends can be formed. `PlanStep` is a step of the
`RegionPlanner` instance, which has its own constant for pread failures
(`PlanReadErrors`). `mboxParseAllMessages` then starts one framing job per
kept region, at `ioctx->offset = file_offset = start_offset` with an empty
buffer.

Per context, the variables are:

- `off`: `ioctx->offset`, where the message being framed starts;
- `fo`: `ioctx->file_offset`;
- `boff`: `buf->offset`, relative to `off`;
- `fpc`: which loop the job is in (`headers`, `from`, `done`);
- `recs`: the records handed to the parse pool, in order.

The buffer always holds the file range `[off, fo)`, with the NUL
that `mboxIORead` leaves at `buf->len` (`Data`). A framing step runs the
scanning loops as the recursive operators `CanParseHeaders`, `ScanLines`
and `NextNewline`, up to the next pread, and then does that read. So a
step is one read and the scan that follows it. The possible read results
are the clamped byte count, 0 at EOF, and -1 when `ReadErrors`.

- `mboxParserCtxSeekHeaders`:
  - the headers end (go to `from`);
  - or a read when `NeedsRead` holds: more bytes, or the job ends on 0
    or -1.
- `mboxParserCtxSeekNextFromLine` has five outcomes:
  - a From line: `Emit` the record up to just past its newline;
  - the early return 0 when `file_offset > end_offset`;
  - EOF: emit where the scan stands;
  - an error;
  - a refill, after which the scan re-tests the same newline
    (`RescanFrom`).
- `Emit` includes the slide of the buffer at the next call. It also
  includes the `MBOX_PARSE_DONE` test that ends the callback loop.

The jobs share only the read-only file, so their steps interleave freely.
Each emitted record is a parse job (`mboxIOMsgParseCallback`, set
`parsed`), run in any order. The main thread's two Waits (`waits`) return,
io pool first (`WaitOrder`), once their pool is idle (`PoolIdle`): the
pools are taken by their contract, which run `pool` checks against the
pool code (`ImplementsWorkerPoolJobs`). `ThreadCount` goes through
`mboxParserInit`: half of it is the io pool and the number of contexts.

Around the parse is the handle (`handle`):
- `mboxReadOpen` has three outcomes: NULL when open fails; NULL with the
  descriptor left open when fstat fails; a handle with `read_refcount` 1.
  `write_refcount` is never set, so Init takes it from `WriteRefcounts`
  (the heap's garbage).
- the filter loop of `mboxSetAllOffsets` adds 1 to `read_refcount` for
  each kept context (`KeptRefs`); the model adds them when the framing
  jobs are enqueued, the first step after planning that reads the handle;
- `mboxRelease`, after both Waits, runs `mboxRemoveContext` once per kept
  context: a refcount of 0 closes its descriptor, any other is decremented.

### ListSort

The circular list is a sequence. Node `i`'s next is `i % n + 1`, and its
prev wraps from 1 to `n`, just as the root's prev is the tail. The sort
swaps data and never nodes, so positions identify nodes exactly.

- `QSortPivot`: one call of `mboxListQSortPivot`. Its scan loop is a
  recursive LET operator. `prev` starts at `low->prev`, which is never
  NULL in a circular list.
- `QSortHelper`: `mboxQSortHelper`, including its count guard. Its two
  recursive calls are kept as a stack of ranges still to sort, left side
  first. The right side's bounds are the nodes fixed when the pivot is
  found, so the order of work is the code's.
- `QSort`: `mboxListQSort`.
- The comparators are translated as written:
  - the start-offset comparator of `mboxIdxSave`;
  - the date comparator, which answers -1 both ways when a timestamp
    is -1;
  - the sender comparator: -1 for a missing sender, otherwise
    `strncasecmp` over the shorter length. So "a" equals both "aa" and
    "ab".

A message is a record of the three keys. The module has operators only;
the three call sites are actions of `Index`.

### MboxBuf, HeaderMap, RBTree

A buffer is the sequence of its bytes. `mboxBufCaseCmp` is strncasecmp
over the length of the shorter buffer, so a key equals every key it is a
prefix of. `RBTree` keeps the tree as records of per-node fields (`child`,
`parent`, `color`, `key`, `value`, `root`). Node z is the z-th node
allocated, 0 is the static `RB_SENTINAL` shared by every tree, and -1 is
NULL. Insert is the descent, `rbNodeNew`, the fix-up loop and the
rotations as operators; the rotation guards the one write that could
reach the sentinel (`y->left->parent = x`), as the code does. Get and Has are lookups. `mboxRBTreeRelease` is
`mboxRBTreeClear` (its size guard and the recursive `rbNodeFree` walk,
left subtree, right subtree, then `rbNodeRelease`) followed by the free of
the tree; the variable `leaked` holds the allocated nodes the walk did not
reach, and `NoNodeLeak` says there are none, whatever shape the rotations
left. The next tree starts again from `rbTreeNew`. `RBTree` maps onto
`HeaderMap`, whose map is the set of `<<key, value>>` pairs present (a
set rather than a function, so the refinement mapping is a plain image of
the nodes), and whose `Release` empties it; run `rbtree` checks that
refinement.

### HeaderParse

A message is generated from its structure: an envelope `From ` line, one
or two header lines, each with or without a continuation, a blank line
and a body byte. Names are abbreviated to their first letter and values
to one letter. The message is then parsed as the bytes it is: the outer
and inner loops of `mboxParseEmailHeaders` are recursive operators over
the byte sequence that insert into an `RBTree` instance. The one action
is `mboxMsgLiteFromBuffer` reading the five fields.

A header value may be a MIME encoded word (`=?utf-8?Q?...?=`). When
`mboxBufIsMimeEncoded` holds, the parser stores
`mboxBufDecodeMimeEncoded(value)` instead. That function copies its input
from `buf + 10`, an offset from the struct pointer, not from the bytes:
it reads whatever the heap holds there. The model chooses those bytes
from `Heap` (undefined behaviour as a nondeterministic choice) and
decodes them with `decodeMimeEncoded` (`=XX` hex escapes, `_` to space).

### MboxDate

Operators only. Strings are byte sequences. `ParseLoop` is the loop of
`mboxDateStringToStruct`: it walks the format and the date side by side,
a `%` selecting a `Conversion`. The numeric conversions use `Strtol`
(blanks, sign, digits; no digits leaves the end pointer in place), and
`%a`/`%b` use `NameAt` (a case-insensitive three-byte lookup). The steps
after each conversion are the code's: `%d` steps two bytes, `%b` steps two
(not three), the others step past the number and one more.
`mboxDateStructToUnix` is `mktime` in UTC, with its normalisation of
out-of-range fields (`DaysFromCivil`), then the zone as `+-HHMM`, where 0
and -1 (unset) change nothing. `FormatDate` writes the Date header of a
date record and `TrueTime` is the instant it names; `Index` uses them to
generate the headers its messages carry.

### Index

One caller list, the index file and the mbox file:

- `mbox`: each message's length and its header lines in order (From,
  Date or another name, with a value). A record's offsets are the running
  sums of the lengths (`MsgStart`). Its `from` and Date are what
  `mboxHeadersGet` finds in the tree `mboxParseEmailHeaders` builds
  (`FromField`, `DateField`). The envelope line stays in `key`, so the
  first header is filed under "From <sender><name>" and the lookup of
  "From" matches it: `from` is the first header's value, whatever its
  name, and a Date is found only if it is not the first header.
  `HeaderParse` shows this byte by byte (run `headers_from_line`). The
  timestamp is what `mboxMsgTimestamp` makes of that Date (`DateTs`,
  through `MboxDate`).
- `list`, `locked`: the caller's list and whether its mutex is held.
- `idx`: the index file's bytes, or `NoFile`.
- `pending`, `loading`: the batches on the load pool and the list its
  workers append to.
- `pc`: the caller, which is `ready`, `loading`, `crashed` (a NULL
  dereference or heap corruption) or `blocked` (on the list mutex).
- `filtered`: the list the last `mboxMsgListFilterBySender` returned.
- `op`: a history variable naming the call or pool step just taken (the
  filter with its pattern). The action properties test `op'` rather than
  evaluating the actions a second time.

The list starts as any order of all the mbox's records, which is what
`mboxParse` can return. `mboxIdxSave` sorts by start offset, formats
each record as decimal `start end\n` (`Decimal`, `IndexLine`), and cuts
the text into the chunks that `mboxIdxTryWrite` writes (`Chunks`: a flush
whenever the buffer length is a multiple of BUFSIZ). The file then holds
all chunks, or a prefix when a pwrite or fsync fails (`FailedWrite`) or
when the process crashes. A crash loses the caller's list and keeps the
file. `mboxIdxLoad` reads the file back with `indexesToList` (`Atol` on
digit runs) and enqueues the `Batches` of `mboxIdxBatchLoad`. Each
`mboxIdxGetMessages` step runs one batch, reading one slab and making a
record per pair (`SlabRecords`). The pool is taken by its contract,
checked in run `pool`: each batch runs once, in any order, and the wait
returns after all of them. `MboxMissing` lets the mbox file be absent at
load time: then pread returns -1 and `buf[-1]` is written.

The lists are sequences. `mboxListAddHead`, `mboxListAddTail`,
`mboxListTSAddTail` and `mboxListRemoveHead` are operators used where the
code calls them: building the pairs, cutting the batches, appending
loaded records, and the filter, which puts each hit at the head. The
filter builds the KMP table once (`mboxBufComputePrefixTable`, with its
case-sensitive comparison) and runs the case-insensitive matcher
(`mboxBufContainsCasePatternWithTable`) on each sender. A NULL `from`
would crash the matcher, but every record here starts with its envelope
line and so has a `from`.

## 4. Runs

| Run | Config | Expect | What it shows |
|---|---|---|---|
| pool | MCWorkerPool.cfg | pass (10,489 states) | 3 workers, two rounds of 3 jobs, then Release. `NoLostWakeup`: a queued job always has a token or a worker about to dequeue. `JobListLinked`: the job list's links, root and len stay consistent. `WaitReturns`. `ImplementsWorkerPoolJobs`: the refinement. `ImplementsListFifo`: the pointer-level list is a FIFO. |
| pool_use_after_free | MCWorkerPool_NoUseAfterFree.cfg | violation | After the last Wait, a worker takes the stale token. Release frees the pool while that worker still runs. |
| planner | MCRegionPlanner.cfg | pass (2,948,874 states, about 1 min) | Every mbox file up to 10 symbols, 5 contexts, read size 3, and any pread may fail. `RegionsCover`: no byte is in no region, whichever contexts are dropped. |
| planner_overlap | MCRegionPlanner_Disjoint.cfg | violation | File `F N F x N F x x x x`, 5 contexts. The starts come out as 0,1,1,4,1, so regions [1,4) and [1,10) overlap and messages are parsed twice. |
| planner_single_message | MCRegionPlanner_Terminates.cfg | violation | File `F x` (one message) with 2 contexts. Context 1 loops for ever at offset 0. |
| parse | MCMboxParse.cfg | pass (794,162 states, about 1 min) | Every separated mbox file of up to 12 symbols, with CRLF header ends, thread count 4 (2 contexts), reads of 3 that may fail, and every outcome of `mboxReadOpen`. `NoMergedMessages`: no record runs over a From line. `ParseTerminates`: mboxParse returns. `ParseReturnsAllRecords`: when it does, every emitted record has been parsed. |
| parse_region_end_loss | MCMboxParse_RegionEnd.cfg | violation | File `F N N N F x x x N N`, 2 contexts, reads of 2. Context 0 has read past its end_offset before it sees the next From line. It returns 0 at mbox-parser.c:589, and the message [0,4) is in no record. |
| parse_empty_body_merge | MCMboxParse_EmptyBody.cfg | violation | File `F N N F N N`. The blank line that ends the first message's headers is also the newline before the next From line. `offset += 2` skips it, so both messages come out as the single record [0,4). |
| rbtree | MCRBTree.cfg | pass (436,846 states, about 3 min) | Up to six insertions of seven keys, two equal under `mboxBufCaseCmp`, with Get, Has and release of the tree in between. `SentinelReadOnly`: the shared sentinel, which parse workers' trees use at once, is never written. `Linked`, `RedBlack`, `SearchOrder`. `NoNodeLeak`: release frees every node of every reachable shape. `ImplementsHeaderMap`: the refinement. |
| headers_from_line | MCHeaderParse.cfg | violation | The envelope line stays in `key` and the first header's name is appended to it. `mboxBufCaseCmp` compares the shorter length, so the lookup of `From` matches that key: `From a` then `Date: a` gives from = `a` and date = NULL, against spec.md 4.3. |
| index | MCIndex.cfg | pass (250,220 states, about 1 min) | Every mbox of up to 3 messages, saved, loaded, sorted by date and by sender and filtered by sender in any order, with write errors and crashes. `ListHoldsMboxRecords`: the list never holds a foreign or duplicated record, even after a load of an interrupted save. `LoadReturnsIndex`: a load returns one record per index line. `SortedByOwnComparator`: every sort that returns is ordered under its comparator. `FilterSound`: the filter returns only matching senders, in reverse list order. `TypeOK` includes that no batch is empty. |
| index_calls_return | MCIndex_CallsReturn.cfg | violation | Calls do not all return. TLC's trace: a second save of a one-message list blocks on the mutex the first sort left held, after O_TRUNC emptied the index. A load of that empty index, or with the mbox missing (`buf[-1]` is written), crashes too. |
Every property of a passing run has a mutant in `PROJECT.json`: a
plausible bug in the mapped code that TLC catches under the run's own
configuration.

### Bounds

**Pool.** The instance is `mboxParse` with `thread_count` 6: three io
workers, a round of three seek jobs, a Wait, a round of three framing
jobs (every context kept), a Wait, then Release. Two workers already show
every race found (one worker holding the stale token while another is
idle); the third lets three enqueues collapse into one token and two
workers drain the queue while a third is still running a callback. Two
rounds exercise a Wait that is followed by more work. The job list has three
node addresses, the most one round queues. A round of three walks the list
through every shape the code distinguishes: insertion into the empty list
(root and self links), into one and two nodes, and removal from three,
two and one. Between rounds, the addresses freed are reused.

**Planner.** Five contexts over up to 10 symbols gives a chunk of 2
against a read size of 3. That is the regime where windows of
neighbouring contexts overlap without being aligned, which is the case
the overlap needs. All sizes from 0 (empty file: the read returns 0) up
to 10 are included.

**Parse.** Reads of 3 against a margin of 2 (the code's 10 bytes) make
every kind of cut happen:
- a `\nFrom ` split by a refill;
- a header end split by a refill;
- a region ending inside the margin.

Twelve symbols give up to four messages over two regions. They also give
messages longer than a read, which both `NeedsRead` and `RescanFrom` need
to matter: their mutants are caught only from 11 symbols on. `Separated`
restricts the passing run to files in which every message but the last
ends in a newline of its own, which is what mbox writers produce. The
empty-body case is its own violation run.

**RBTree.** Six insertions force every fix-up case (uncle red, inner
and outer rotation on both sides) and a rotation at the root; the key
`c ` equal to `c` exercises the duplicate return.

**Index.** Up to three messages of lengths 1 and 4, a read budget of 4
and a BUFSIZ of 8 give:
- batches of one message that overflow the budget, and batches of
  several;
- a save of two or three lines cut into two chunks, so a failure or a
  crash between chunks leaves a proper prefix;
- offsets of two digits (up to 12).

Two Date headers and none give the timestamps 1677537453 (the tests'
date), -1 (a crafted header that mktime normalises to -1, the value the
date comparator treats apart) and 0. A message takes one of four header
lists:
- From `aa`, then the tests' Date;
- another header `aa`, then the crafted Date (timestamp -1);
- the tests' Date first, then From `aaab`: the sender is the date's
  text, the timestamp 0;
- From `aaab` alone (timestamp 0).

So the senders are `aa`, `aaab` (equal under the prefix comparison) and
a date's text, which orders before both by its bytes. An unsorted sender
list is therefore caught. Four lists keep the mboxes far fewer than
every combination of headers. The patterns `Aab` and `AA` mix case, and `Aab` occurs
in `aaab` only after a mismatch that makes the matcher fall back along
its table. Each sort runs on every permutation of up to three records.

Observed and not run (the run cap keeps one run per question; each has a
reproducer configuration):
- after a failed pread in `mboxParserCtxSeekStart`, the context is kept
  at its unaligned first cut, so a region can start mid-message (the
  planner run checks that coverage still holds);
- file `F N R N` with reads of 3 (config `MCMboxParse_SplitCRLF.cfg`,
  invariant `NoMessageLost`): `mboxBufCanParseHeaders` steps past a
  `\n\r` at the buffer end, so after the refill the header end is never
  seen and the only message is lost.
- `MCIndex_DateParse.cfg` (`DateParsedAsSpecified`): after `%b` the parser
  steps two bytes, not three, so only "Feb" is followed by the space the
  format expects; a Date in any other month gives timestamp 0. A Date
  that is a message's first header gives 0 as well, since the lookup
  never finds it.
- A Date without seconds ("27 Feb 2023 14:37 -0800"): `%S` reads "-0800"
  as the seconds and the zone stays unset, 1677507820 instead of
  1677537420. A zone of "-0001" is taken for "unset" and ignored. No
  passing run states that a non-zero timestamp is right: with these
  dates the statement fails, and no run is left for it.
- `MCHeaderParse_Mime.cfg` (`MimeDecodedAsSpecified`): an encoded Subject
  decodes to heap garbage (`buf + 10`), not its text. An 11-byte value
  `=?utf-8?Q?=` also passes the test, and `len - 12` underflows.
- `MCIndex_FilterComplete.cfg` (`FilterComplete`): the KMP table is built
  with case, the match without it, so "Aab" is not found in "aaab".
- `MCMboxParse_Release.cfg` (`NoReadFdLeak`): `read_refcount` starts at 1
  and gains 1 per kept context, and `mboxRelease` takes 1 per kept
  context, so the mbox descriptor is never closed. A failed fstat in
  `mboxReadOpen` also leaks it. With a garbage `write_refcount` of 0,
  `mboxRemoveContext` closes an unset `writefd`.

Two divergences from spec.md are recorded here and not run:
- region starts lie on the `\n` of `\nFrom `, not the `F` (section 3).
  The record before the boundary ends just past that newline, so the
  two records share one byte. No message is lost or merged by it: the
  parse run's properties hold with the start moved onto the `F`;
- at EOF, with one context, the last record stops at the last newline
  that was scanned, one symbol short of the end of the file (section 8,
  scenario 1).

### Fairness

Every thread is weakly fair. The OS scheduler runs a runnable thread, and
no thread of this code spins on a condition that another thread toggles.
The client is one fair process. The planner has a single WF on its next
state relation. Its steps are the io workers' jobs, which the pool runs
(run `pool`).

`CHECK_DEADLOCK FALSE` is set for every module, each for its own reason:

- WorkerPool: once the client is done or blocked in Stop, every worker
  sleeps on the semaphore for ever. The threads are detached and never
  told to exit.
- RegionPlanner: planning ends after one `mboxSetAllOffsets` step.
- MboxParse: the system stops once every framing job is done.
- RBTree: a full tree still answers lookups; the bound stops insertions.
- HeaderParse: the record is built once.
- Index: a crashed or blocked caller takes no more steps, as in the code.

Index needs no fairness: its properties are safety and action
properties, and its pool is covered by run `pool`.

MboxParse has one WF on its next-state relation. The planner and framing
steps are jobs of the io pool, and the record parses jobs of the parse
pool, which run every enqueued job. `mboxRelease` is the caller's and
needs no fairness: no property waits for it.

## 5. Not modelled (yet), and why

- The two pools inside `MboxParse` are their contract, not two instances
  of `WorkerPool`; the contract is what run `pool` checks the code
  against.
- `mboxListRemoveTail`, `mboxListFind`, `mboxListAppendListTail` and the
  TS variants nobody calls are not modelled. `mboxListAddHead`, used by
  the sender filter, is modelled in `Index` on the sequence only.
- `mboxRBTreeDelete`: no caller deletes a header, and the function
  never returns. When the key is present the search loop sets `z = cur`
  without advancing `cur`, so it spins for ever (mbox-redblacktree.c
  318-327). When the key is absent the walk reaches `RB_SENTINAL` and
  calls `keycmp(key, NULL)`, which `mboxBufCaseCmp` dereferences. Its
  fix-up (`rbFixDelete`) is therefore unreachable.
- The multipart walker (`mboxParserParseMessage` and the functions under
  it in mbox-parser.c) and `mboxParseFrom` are never called.
- The message preview is a fixed-size copy with no state.
- `mboxBufContainsPattern` (case-sensitive KMP) is called only by the
  multipart walker.
- A short pwrite (0 < written < size, as on a full disk) is taken as
  success by `mboxIOWrite`. `mboxIdxTryWrite` then advances by the bytes
  written and empties the buffer, so the next chunk follows a cut line
  ("0 4\n4" then "5 9\n" reads back as the pair 45, 9). The load of
  such an index works on pairs that are no message's offsets: a negative
  size reaches `malloc` and `pread`, or a window parses part of a
  message. The model has no record for that, so only failed and zero
  writes are modelled. For the same reason no property claims that the
  index file stays well formed.
- `mboxIdxSave` of an empty list returns before opening the file, so an
  older index stays on disk. The modelled caller never saves an empty
  list.
- `mboxIOOpen` and `mboxIOClose` of the index file: a failed open returns
  before any state changes.
- The memory pool, the lookback prototype and the demo programs are not
  on the parse or load path.
- `mboxWorkerPoolNew` spins on `alive_threads` without a lock. A compiler
  may hoist that read; the model reads it atomically.
- Buffer ownership is not modelled, since no run has room for a leak
  property, and four leaks were found while modelling:
  - `mboxRBTreeInsert` returns on an equal key without freeing the key
    and value it was handed (mbox-redblacktree.c 167-169). Its caller
    passes fresh `mboxBufDup` copies (mbox-parser.c 274-278), so every
    repeated header, such as a second "Received" or a name equal under
    the prefix comparison, leaks two buffers. The tree's contents are
    checked (run `rbtree`); the discarded copies are not.
  - `mboxMsgLiteClear` frees the fields of the record with `free`, not
    `mboxBufRelease`, so the data of each `mboxBuf` leak
    (mbox-msg.c 59-63).
  - The same function never frees `from_line`, which
    `mboxMsgLiteFromBuffer` duplicates (mbox-msg.c 109).
  - `mboxIdxBatchLoad` creates a worker pool (mbox-index.c 275) and
    never releases it.
