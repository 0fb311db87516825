------------------------------ MODULE MboxParse ------------------------------
(***************************************************************************)
(* mboxMain of src/src/mbox.c: the chunk planner (module RegionPlanner)    *)
(* followed by the framing loop that each kept context runs on the io pool *)
(* (mboxParserCtxGetNextMessageCallback in src/src/mbox.c and              *)
(* mboxParserCtxGetNextMessage, mboxParserCtxSeekHeaders,                  *)
(* mboxBufCanParseHeaders and mboxParserCtxSeekNextFromLine in             *)
(* src/src/mbox-parser.c).                                                 *)
(*                                                                         *)
(* Symbols as in RegionPlanner, plus "R" for a carriage return.  The       *)
(* context's buffer always holds file[O, fo) where O is ioctx->offset (the *)
(* start of the message being framed: mboxParserCtxGetNextMessage slides   *)
(* the buffer there) and fo = ioctx->file_offset; buf->offset counts from  *)
(* O, and the NUL at buf->len is the end of that range.                    *)
(* Each step of a context runs its scanning loops up to the next pread, so *)
(* a step is one read plus the scan that follows it.  The contexts share   *)
(* nothing but the read-only file, so their steps interleave freely.       *)
(* Each record a framing job emits is enqueued on the parse pool, whose    *)
(* workers turn it into a message record and append it to completed_parse *)
(* in any order; the main thread waits on the io pool, then on the parse  *)
(* pool.  Both pools are taken by their contract (module WorkerPoolJobs): *)
(* a Wait returns once every job enqueued so far has run.                 *)
(***************************************************************************)
EXTENDS Integers, Sequences, FiniteSets

CONSTANTS
    FileSizes,     \* the sizes of file considered, in symbols
    ThreadCount,   \* the thread_count mboxParse is called with
    ReadSize,      \* MBOX_IO_READ_SIZE
    ReadErrors,    \* may a pread of a framing job fail?
    PlanReadErrors, \* may a pread of a SeekStart job fail?
    RefillMargin,  \* the 10 of 'buf->offset + 10 >= buf->len', in symbols
    Separated,     \* does every message but the last end with a newline of its own?
    CarriageReturns, \* may the file hold "\r" (headers ending "\n\r\n")?
    OpenResults,   \* outcomes of mboxReadOpen: "ok", "open_fails", "fstat_fails"
    WriteRefcounts \* what the never-set m->write_refcount may hold

(* mboxParserInit: half of thread_count for each pool, context_len the io *)
(* half; thread_count 0 returns before any pool exists.                    *)
mboxParserInit(tc) ==
    IF tc = 0 THEN [pools |-> FALSE, io |-> 0, parse |-> 0]
    ELSE [pools |-> TRUE, io |-> tc \div 2, parse |-> tc \div 2]

(* io_thread_count of mboxSetAllOffsets, the io pool's worker_count. *)
IOThreads == mboxParserInit(ThreadCount).io

ASSUME mboxParserInit(ThreadCount).pools /\ IOThreads >= 1

ASSUME RefillMargin \in Nat \ {0} /\ Separated \in BOOLEAN /\ CarriageReturns \in BOOLEAN

VARIABLES
    file, jump, status, startOff, endOff, regions, planned,  \* RegionPlanner
    started,       \* have the framing jobs been enqueued?
    fpc,           \* per kept context: "headers", "from" or "done"
    off,           \* ioctx->offset: where the message being framed starts
    fo,            \* ioctx->file_offset: end of what the buffer holds
    boff,          \* buf->offset, relative to off
    recs,          \* the records each context emitted, in order
    parsed,        \* the emitted records the parse pool has run
    waits,         \* the Waits of mboxParseAllMessages that have returned
    handle         \* what mboxReadOpen returned, and its descriptors

planVars == <<file, jump, status, startOff, endOff, regions, planned>>
frameVars == <<started, fpc, off, fo, boff, recs>>
pipeVars == <<parsed, waits, handle>>
vars == <<planVars, frameVars, pipeVars>>

Plan == INSTANCE RegionPlanner WITH ReadErrors <- PlanReadErrors

FileSize == Plan!FileSize
Byte(o) == Plan!Byte(o)
Min(a, b) == Plan!Min(a, b)

Sym == {"F", "N", "x"} \cup (IF CarriageReturns THEN {"R"} ELSE {})

(* Offsets of the From lines of a file: 0 and every F after a newline. *)
FromLines(f) == {o \in 0..Len(f) - 1 : f[o + 1] = "F"}

(* The end of the message that starts at From line p. *)
MessageEnd(f, p) ==
    LET later == {q \in FromLines(f) : q > p} IN
    IF later = {} THEN Len(f) ELSE CHOOSE q \in later : \A r \in later : q <= r

(* A blank line at j: "\n\n" or "\n\r\n". *)
HeaderBreak(f, j) ==
    /\ f[j + 1] = "N"
    /\ \/ j + 1 < Len(f) /\ f[j + 2] = "N"
       \/ j + 2 < Len(f) /\ f[j + 2] = "R" /\ f[j + 3] = "N"

(* The first byte of the body of the message at p: past its first blank   *)
(* line.                                                                   *)
BodyStart(f, p) ==
    LET j == CHOOSE j \in p..Len(f) - 1 :
                 /\ HeaderBreak(f, j)
                 /\ \A i \in p..j - 1 : ~HeaderBreak(f, i)
    IN IF f[j + 2] = "N" THEN j + 2 ELSE j + 3

(* A well-formed mbox file: it begins with a From line, "From " counts only *)
(* after a newline, a carriage return only comes before a newline, and    *)
(* every message has a blank line ending its headers.  In a Separated     *)
(* file the body of every message but the last ends with a newline of its *)
(* own, so the blank line after the headers is never also the newline     *)
(* that precedes the next From line.                                      *)
MboxFiles(n) ==
    {f \in [1..n -> Sym] :
        /\ n > 0 => f[1] = "F"
        /\ \A k \in 2..n : f[k] = "F" => f[k - 1] = "N"
        /\ \A k \in 1..n : f[k] = "R" => k < n /\ f[k + 1] = "N"
        /\ \A p \in FromLines(f) :
             /\ \E j \in p..MessageEnd(f, p) - 1 :
                   HeaderBreak(f, j) /\ (IF f[j + 2] = "N" THEN j + 2 ELSE j + 3) <= MessageEnd(f, p)
             /\ Separated /\ MessageEnd(f, p) < n => BodyStart(f, p) < MessageEnd(f, p)}

Kept == 1..Len(regions)
EndOf(k) == regions[k][2]

(* The byte at offset j of the buffer of context k, whose message starts   *)
(* at o; "NUL" at and past buf->len.                                       *)
Data(k, o, j) == IF o + j < fo[k] THEN Byte(o + j) ELSE "NUL"

(* Mutant of ReadResults: the byte count not clamped at the end of file. *)
ReadResultsUnclamped(at) ==
    {ReadSize} \cup (IF ReadErrors THEN {-1} ELSE {})

(* mboxIORead: pread of ReadSize bytes at file offset at returns the number *)
(* of bytes read (0 at the end of file), or -1 when it may fail.           *)
ReadResults(at) ==
    {Min(ReadSize, FileSize - at)} \cup (IF ReadErrors THEN {-1} ELSE {})

(* Mutant of NeedsRead: the buffer counted as scanned one byte later. *)
NeedsReadStrict(k, o, j) == fo[k] = o \/ j + 1 > fo[k] - o

(* The condition of mboxParserCtxSeekHeaders for reading more: the buffer *)
(* is empty, or buf->offset stands on its last byte or past it.           *)
NeedsRead(k, o, j) == fo[k] = o \/ j + 1 >= fo[k] - o

(* Mutant of RescanFrom: after a refill the scan goes on past the newline. *)
RescanFromNextByte(n) == n + 1

(* After a refill mboxParserCtxSeekNextFromLine steps back (buf->offset--) *)
(* so that the loop's buf->offset++ leaves it on the same newline, which  *)
(* is tested again with the new bytes after it.                           *)
RescanFrom(n) == n

(* mboxSetAllOffsets sets ioctx->offset, where each framing job's first   *)
(* message starts, to the context's start_offset.                         *)
FramingStart(k) == regions[k][1]

(* The inner while loops: from j, the first offset holding a newline, or   *)
(* the end of the buffer.                                                  *)
RECURSIVE NextNewline(_, _, _)
NextNewline(k, o, j) ==
    IF Data(k, o, j) \in {"N", "NUL"} THEN j ELSE NextNewline(k, o, j + 1)

(* mboxBufCanParseHeaders from buf->offset j: <<TRUE, j'>> when a "\n\n"   *)
(* or "\n\r\n" ends the headers (j' the first body byte), <<FALSE, j'>>    *)
(* when the buffer runs out first.                                         *)
RECURSIVE CanParseHeaders(_, _, _)
CanParseHeaders(k, o, j) ==
    LET n == NextNewline(k, o, j) IN
    IF Data(k, o, n) = "NUL" \/ Data(k, o, n + 1) = "NUL" THEN <<FALSE, n>>
    ELSE IF Data(k, o, n + 1) = "N" THEN <<TRUE, n + 2>>
    ELSE IF Data(k, o, n + 1) = "R" /\ Data(k, o, n + 2) = "N" THEN <<TRUE, n + 3>>
    ELSE CanParseHeaders(k, o, n + 1)

(* mboxIsFromLine: "\nFrom " at j, wholly before the NUL. *)
IsFromLine(k, o, j) == Data(k, o, j) = "N" /\ Data(k, o, j + 1) = "F"

(* The line-at-a-time loop of mboxParserCtxSeekNextFromLine from j, up to  *)
(* the first newline that starts a From line or lies within RefillMargin  *)
(* of buf->len.                                                            *)
RECURSIVE ScanLines(_, _, _)
ScanLines(k, o, j) ==
    LET n == NextNewline(k, o, j) IN
    IF IsFromLine(k, o, n) \/ n + RefillMargin >= fo[k] - o THEN n
    ELSE ScanLines(k, o, n + 1)

(* mboxReadOpen: a failed open returns NULL; a failed fstat returns NULL  *)
(* with the descriptor still open; else a malloc'd mbox with read_refcount *)
(* 1 and readfd open.  writefd and write_refcount are never set, so they  *)
(* hold whatever the heap did: w.  m is FALSE for NULL.                   *)
mboxReadOpen(r, w) ==
    [m |-> r = "ok", readOpen |-> r # "open_fails", read_refcount |-> 1,
     write_refcount |-> w, readCloses |-> 0, writeCloses |-> 0, released |-> FALSE]

(* The read_refcount++ of mboxSetAllOffsets for each context it keeps. *)
KeptRefs == Len(regions)

(* mboxRemoveContext: each refcount, when 0, closes its descriptor, else  *)
(* is decremented; then the context's buffer is freed.                    *)
mboxRemoveContext(h) ==
    [h EXCEPT !.readOpen = IF h.read_refcount = 0 THEN FALSE ELSE @,
              !.readCloses = IF h.read_refcount = 0 THEN @ + 1 ELSE @,
              !.read_refcount = IF @ = 0 THEN 0 ELSE @ - 1,
              !.writeCloses = IF h.write_refcount = 0 THEN @ + 1 ELSE @,
              !.write_refcount = IF @ = 0 THEN 0 ELSE @ - 1]

RECURSIVE RemoveContexts(_, _)
RemoveContexts(h, n) == IF n = 0 THEN h ELSE RemoveContexts(mboxRemoveContext(h), n - 1)

-----------------------------------------------------------------------------
Init ==
    /\ \E n \in FileSizes : file \in MboxFiles(n)
    /\ Plan!InitContexts
    /\ started = FALSE
    /\ fpc = <<>> /\ off = <<>> /\ fo = <<>> /\ boff = <<>> /\ recs = <<>>
    /\ parsed = {} /\ waits = 0
    /\ \E r \in OpenResults, w \in WriteRefcounts : handle = mboxReadOpen(r, w)

(* The planner runs first (mboxSetAllOffsets), on a handle mboxReadOpen *)
(* did return.                                                            *)
PlanStep ==
    /\ handle.m
    /\ Plan!Next
    /\ UNCHANGED <<frameVars, pipeVars>>

(* mboxParseAllMessages: one framing job per kept context, each starting   *)
(* with an empty buffer at offset = file_offset = start_offset.            *)
mboxParseAllMessages ==
    /\ planned /\ ~started
    /\ started' = TRUE
    /\ fpc' = [k \in Kept |-> "headers"]
    /\ off' = [k \in Kept |-> FramingStart(k)]
    /\ fo' = [k \in Kept |-> regions[k][1]]
    /\ boff' = [k \in Kept |-> 0]
    /\ recs' = [k \in Kept |-> <<>>]
    /\ handle' = [handle EXCEPT !.read_refcount = @ + KeptRefs]
    /\ UNCHANGED <<planVars, parsed, waits>>

(* mboxParserCtxSeekHeaders: test the buffer with mboxBufCanParseHeaders; *)
(* if the headers do not end in it and the buffer is empty or scanned to   *)
(* its last byte, read ReadSize more bytes at file_offset onto its end    *)
(* (otherwise the loop would test the same buffer again for ever).  A     *)
(* read of 0 bytes or an error makes mboxParserCtxGetNextMessage return   *)
(* NULL, which ends the callback loop.                                    *)
mboxParserCtxSeekHeaders(k) ==
    LET o == off[k]
        r == CanParseHeaders(k, o, boff[k])
    IN
    /\ fpc[k] = "headers"
    /\ IF r[1]
          THEN /\ fpc' = [fpc EXCEPT ![k] = "from"]
               /\ boff' = [boff EXCEPT ![k] = r[2]]
               /\ UNCHANGED fo
          ELSE \E rb \in ReadResults(fo[k]) :
                 /\ NeedsRead(k, o, r[2])
                 /\ boff' = [boff EXCEPT ![k] = r[2]]
                 /\ IF rb > 0
                       THEN /\ fo' = [fo EXCEPT ![k] = fo[k] + rb]
                            /\ UNCHANGED fpc
                       ELSE /\ fpc' = [fpc EXCEPT ![k] = "done"]
                            /\ UNCHANGED fo
    /\ UNCHANGED <<planVars, started, off, recs, pipeVars>>

(* Emit the message [off, off + j) and prepare the next call: the buffer   *)
(* is slid so that it starts at the new offset (mboxBufSlice).  The loop   *)
(* of the callback stops when offset >= end_offset or the last read hit    *)
(* EOF (MBOX_PARSE_DONE).                                                  *)
Emit(k, j, eof) ==
    /\ recs' = [recs EXCEPT ![k] = Append(recs[k], <<off[k], off[k] + j>>)]
    /\ off' = [off EXCEPT ![k] = off[k] + j]
    /\ boff' = [boff EXCEPT ![k] = 0]
    /\ fpc' = [fpc EXCEPT ![k] =
                 IF off[k] + j >= EndOf(k) \/ eof THEN "done" ELSE "headers"]

(* mboxParserCtxSeekNextFromLine: scan line by line; at a From line step   *)
(* past its newline and return 1.  Within RefillMargin of the buffer end:  *)
(* return 0 if file_offset is already past end_offset, else read more;     *)
(* on EOF return 1 where the scan stands, on an error return it, and after *)
(* a read re-test the same newline (buf->offset-- then ++).                *)
mboxParserCtxSeekNextFromLine(k) ==
    LET o == off[k]
        n == ScanLines(k, o, boff[k])
    IN
    /\ fpc[k] = "from"
    /\ IF IsFromLine(k, o, n)
          THEN Emit(k, n + 1, FALSE) /\ UNCHANGED fo
       ELSE IF fo[k] > EndOf(k)
          THEN /\ fpc' = [fpc EXCEPT ![k] = "done"]
               /\ boff' = [boff EXCEPT ![k] = n]
               /\ UNCHANGED <<fo, off, recs>>
       ELSE \E rb \in ReadResults(fo[k]) :
              \/ /\ rb = 0
                 /\ Emit(k, n, TRUE) /\ UNCHANGED fo
              \/ /\ rb < 0
                 /\ fpc' = [fpc EXCEPT ![k] = "done"]
                 /\ boff' = [boff EXCEPT ![k] = n]
                 /\ UNCHANGED <<fo, off, recs>>
              \/ /\ rb > 0
                 /\ fo' = [fo EXCEPT ![k] = fo[k] + rb]
                 /\ boff' = [boff EXCEPT ![k] = RescanFrom(n)]
                 /\ UNCHANGED <<fpc, off, recs>>
    /\ UNCHANGED <<planVars, started, pipeVars>>

(* Once every framing job has returned. *)
Parsed == started /\ \A k \in Kept : fpc[k] = "done"

(* Every record emitted, with the context and position that emitted it. *)
Emitted == IF ~started THEN {} ELSE UNION {{<<k, i>> : i \in 1..Len(recs[k])} : k \in Kept}

(* mboxIOMsgParseCallback on a parse worker: mboxMsgLiteCreate parses the *)
(* record and mboxListTSAddTail appends it to completed_parse.            *)
mboxIOMsgParseCallback(e) ==
    /\ e \in Emitted \ parsed
    /\ parsed' = parsed \cup {e}
    /\ UNCHANGED <<planVars, frameVars, waits, handle>>

(* A pool is idle, so that its Wait returns: no job queued or running. *)
PoolIdle(pool) == IF pool = "io" THEN Parsed ELSE Emitted \subseteq parsed

(* Mutant of WaitOrder: the parse pool waited on first. *)
WaitOrderSwapped == <<"parse", "io">>

(* The two Waits that end mboxParseAllMessages, in order. *)
WaitOrder == <<"io", "parse">>

(* The main thread's next Wait returns once its pool is idle; after the   *)
(* second, mboxParse returns completed_parse.                              *)
mboxWorkerPoolWait ==
    /\ started
    /\ waits < 2
    /\ PoolIdle(WaitOrder[waits + 1])
    /\ waits' = waits + 1
    /\ UNCHANGED <<planVars, frameVars, parsed, handle>>

(* mboxRelease, once mboxParse has returned: the list and both pools are *)
(* freed (the pools are idle), then mboxRemoveContext runs for each of    *)
(* the context_len kept contexts.                                          *)
mboxRelease ==
    /\ waits = 2
    /\ ~handle.released
    /\ handle' = [RemoveContexts(handle, Len(regions)) EXCEPT !.released = TRUE]
    /\ UNCHANGED <<planVars, frameVars, parsed, waits>>

Next ==
    \/ PlanStep
    \/ mboxParseAllMessages
    \/ \E k \in Kept : started /\ (mboxParserCtxSeekHeaders(k) \/ mboxParserCtxSeekNextFromLine(k))
    \/ \E e \in Emitted : mboxIOMsgParseCallback(e)
    \/ mboxWorkerPoolWait
    \/ mboxRelease

Spec == Init /\ [][Next]_vars /\ WF_vars(Next)

-----------------------------------------------------------------------------
(* mboxParse has returned. *)
Returned == waits = 2

Rec(e) == recs[e[1]][e[2]]

TypeOK ==
    /\ file \in Seq(Sym)
    /\ startOff \in [Plan!Ctx -> 0..FileSize]
    /\ regions \in Seq((0..FileSize) \X (0..FileSize))
    /\ started \in BOOLEAN
    /\ started =>
         /\ fpc \in [Kept -> {"headers", "from", "done"}]
         /\ off \in [Kept -> 0..FileSize]
         /\ fo \in [Kept -> 0..FileSize]
         /\ boff \in [Kept -> 0..FileSize]
         /\ recs \in [Kept -> Seq((0..FileSize) \X (0..FileSize))]
    /\ parsed \subseteq Emitted
    /\ waits \in 0..2
    /\ handle \in [m : BOOLEAN, readOpen : BOOLEAN, read_refcount : Nat,
                   write_refcount : Nat, readCloses : Nat, writeCloses : Nat,
                   released : BOOLEAN]

(* No message is lost: once every mboxParserCtxGetNextMessageCallback     *)
(* loop has ended, the From line of every message lies in some record     *)
(* that a context handed to the parse pool.                               *)
NoMessageLost ==
    Parsed => \A p \in FromLines(file) : \E e \in Emitted : Rec(e)[1] <= p /\ p < Rec(e)[2]

(* No record runs over a From line into the next message: a From line    *)
(* inside a record is at most the one right after the newline the record  *)
(* starts on.  A "\nFrom " that a refill cuts in two is only found        *)
(* because mboxParserCtxSeekNextFromLine steps back onto the newline      *)
(* after reading more.                                                     *)
NoMergedMessages ==
    \A e \in Emitted :
        \A p \in FromLines(file) :
            Rec(e)[1] < p /\ p < Rec(e)[2] => p = Rec(e)[1] + 1

(* mboxParse returns once the planner has: the SeekHeaders and            *)
(* SeekNextFromLine loops never spin on a buffer without reading, the     *)
(* reads reach the end of file or the region's end, and both Waits        *)
(* return.                                                                 *)
ParseTerminates == planned ~> Returned

(* When mboxParse returns, completed_parse holds a parsed record for every *)
(* message any framing job emitted: the io callbacks enqueue parse jobs   *)
(* while the main thread waits, so the parse pool is idle for good only   *)
(* once the io pool is.                                                    *)
ParseReturnsAllRecords == Returned => parsed = Emitted

(* Every descriptor mboxReadOpen opened is closed once the caller is done *)
(* with it: at once when mboxReadOpen returned NULL, by mboxRelease       *)
(* otherwise (mboxRemoveContext closes readfd when read_refcount is 0).   *)
NoReadFdLeak == (~handle.m \/ handle.released) => ~handle.readOpen
=============================================================================
