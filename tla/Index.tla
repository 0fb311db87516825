-------------------------------- MODULE Index --------------------------------
(***************************************************************************)
(* The index of src/src/mbox-index.c, composed with the caller that uses  *)
(* it: mboxIdxSave sorts the caller's record list by start offset and     *)
(* writes one "start end\n" line per record to the index file in chunks;  *)
(* mboxIdxLoad reads the index back, cuts it into batches and has a pool  *)
(* of workers read each batch from the mbox and rebuild its records; the  *)
(* caller sorts the list it holds by date or by sender                     *)
(* (src/src/mbox-msg.c).  Sorting is mboxListQSort of module ListSort.     *)
(*                                                                         *)
(* The index file is persistent: a process crash during mboxIdxSave keeps *)
(* the chunks written so far, and the restarted caller holds no list.     *)
(* The pool is taken by its contract (module WorkerPoolJobs, implemented  *)
(* by module WorkerPool): every enqueued batch is run once, in any order, *)
(* and mboxWorkerPoolWait returns once all have run.                      *)
(***************************************************************************)
EXTENDS Integers, Sequences, SequencesExt, FiniteSets, TLC

CONSTANTS
    MaxMsgs,       \* messages in the mbox file
    MsgLens,       \* their lengths in bytes
    Dates,         \* dates a message's Date header names
    NoDate,        \* a message without a Date header
    Senders,       \* values of From and other headers
    NoFrom,        \* the NULL from of a record without one
    Headers,       \* the header lists a message may carry
    ReadSize,      \* MBOX_IO_READ_SIZE, the read budget of a batch
    BufSiz,        \* BUFSIZ, the write chunk of mboxIdxSave
    NoFile,        \* no index file on disk
    WriteErrors,   \* open, pwrite or fsync of the index may fail
    Crashes,       \* the process may be killed during mboxIdxSave
    MboxMissing,   \* the mbox file may be absent when the index is loaded
    Patterns       \* sender patterns the caller filters by

LS == INSTANCE ListSort
MB == INSTANCE MboxBuf
DT == INSTANCE MboxDate

SP == 32
NL == 10

(* unix_timestamp of mboxMsgLiteFromBuffer: 0 without a Date header;    *)
(* otherwise the header is parsed with MBOX_DATE_FORMAT and, if an hour   *)
(* was set, the struct converted, whatever the parser returned.            *)
mboxMsgTimestamp(date) ==
    IF date = NoDate THEN 0
    ELSE LET d == DT!mboxDateStringToStruct(DT!FormatDate(date), DT!MBOX_DATE_FORMAT).t
         IN IF d.hour # -1 THEN DT!mboxDateStructToUnix(d) ELSE 0

DateTs == [d \in Dates \cup {NoDate} |-> mboxMsgTimestamp(d)]

(* A message carries header lines in order, each a name and a value: a    *)
(* sender for From and other names, a date for Date.                      *)
HeaderNames == {"From", "Date", "Other"}
ASSUME Headers \subseteq Seq([name : HeaderNames, val : Senders \cup Dates])

(* The bytes of a header value. *)
HeaderText(h) == IF h.name = "Date" THEN DT!FormatDate(h.val) ELSE h.val

(* An mbox: its messages in file order, each starting with its envelope   *)
(* line.                                                                    *)
Mboxes ==
    UNION {[1..n -> {[len |-> l, hdrs |-> hs] : l \in MsgLens, hs \in Headers}]
             : n \in 1..MaxMsgs}

(* The fields mboxMsgLiteFromBuffer reads through mboxHeadersGet from the *)
(* tree of mboxParseEmailHeaders.  key is not emptied after the envelope  *)
(* line, so the first header is filed under "From <sender><name>", which   *)
(* the lookup key "From" matches (mboxBufCaseCmp compares the shorter      *)
(* length), and a later From: header is dropped as a duplicate: from is   *)
(* the first header's value, whatever its name.  "Date" is found only      *)
(* under a later header's own name, the first such (HeaderParse checks     *)
(* this byte by byte).                                                     *)
FromField(hs) == HeaderText(hs[1])
DateField(hs) ==
    LET ds == {i \in 2..Len(hs) : hs[i].name = "Date"} IN
    IF ds = {} THEN NoDate ELSE hs[CHOOSE i \in ds : \A j \in ds : i <= j].val

(* The Date a message names, wherever its header is. *)
NamedDate(hs) ==
    LET ds == {i \in DOMAIN hs : hs[i].name = "Date"} IN
    IF ds = {} THEN NoDate ELSE hs[CHOOSE i \in ds : \A j \in ds : i <= j].val

(* The mboxMsgLite of message i: its offsets and what its headers give. *)
MsgStart(mb, i) ==
    LET upto[j \in 0..Len(mb)] == IF j = 0 THEN 0 ELSE upto[j - 1] + mb[j].len IN upto[i - 1]
Record(mb, i) ==
    [start |-> MsgStart(mb, i), end |-> MsgStart(mb, i) + mb[i].len,
     ts |-> DateTs[DateField(mb[i].hdrs)], from |-> FromField(mb[i].hdrs)]
Records(mb) == {Record(mb, i) : i \in DOMAIN mb}

(* mboxMsgLiteCreate, on a parse worker: the record of the framed message *)
(* (its buffer and the mboxIOMsg are then freed).                         *)
mboxMsgLiteCreate(mb, i) == Record(mb, i)

Pair(r) == [start |-> r.start, end |-> r.end]

-----------------------------------------------------------------------------
(* "%zu %zu\n" of mboxBufCatPrintf: decimal ASCII digits. *)
RECURSIVE Decimal(_)
Decimal(n) == IF n < 10 THEN <<48 + n>> ELSE Decimal(n \div 10) \o <<48 + (n % 10)>>

IndexLine(r) == Decimal(r.start) \o <<SP>> \o Decimal(r.end) \o <<NL>>

(* The chunks mboxIdxSave hands to mboxIdxTryWrite, in order: the buffer  *)
(* whenever its length is a multiple of BUFSIZ after a line was appended, *)
(* then what is left.                                                      *)
(* Mutant of Chunks: the buffer not emptied after a write. *)
RECURSIVE ChunksNoReset(_, _)
ChunksNoReset(rs, buf) ==
    IF rs = <<>> THEN (IF buf = <<>> THEN <<>> ELSE <<buf>>)
    ELSE LET b == buf \o IndexLine(Head(rs)) IN
         IF Len(b) % BufSiz = 0 THEN <<b>> \o ChunksNoReset(Tail(rs), b)
         ELSE ChunksNoReset(Tail(rs), b)

RECURSIVE Chunks(_, _)
Chunks(rs, buf) ==
    IF rs = <<>> THEN (IF buf = <<>> THEN <<>> ELSE <<buf>>)
    ELSE LET b == buf \o IndexLine(Head(rs)) IN
         IF Len(b) % BufSiz = 0 THEN <<b>> \o Chunks(Tail(rs), <<>>)
         ELSE Chunks(Tail(rs), b)

(* What is on disk once the first k chunks were written. *)
Written(cs, k) == FlattenSeq(SubSeq(cs, 1, k))

(* mboxIOWrite then mboxIOFsync on chunk k + 1 failing: a pwrite that     *)
(* fails (or writes nothing) leaves the first k chunks; an fsync that     *)
(* fails leaves chunk k + 1 written as well.                              *)
FailedWrite(cs, k) == {Written(cs, k), Written(cs, k + 1)}

-----------------------------------------------------------------------------
(* atol on a run of digits. *)
RECURSIVE Atol(_)
Atol(ds) == IF ds = <<>> THEN 0 ELSE Atol(Front(ds)) * 10 + (Last(ds) - 48)

(* The list operations of mbox-list.c on the sequence of the nodes' data *)
(* from root along next (the circular links are the representation of    *)
(* that sequence): a new node at the head or the tail, or the head's data *)
(* removed (on an empty list it is NULL: the caller that meets that case, *)
(* mboxIdxBatchLoad, is the load's crash).                                 *)
mboxListAddHead(l, x) == <<x>> \o l
mboxListAddTail(l, x) == Append(l, x)
(* mboxListTSAddTail: the same under the list's mutex, which makes it one *)
(* step of the worker that calls it.                                       *)
mboxListTSAddTail(l, x) == mboxListAddTail(l, x)
mboxListRemoveHead(l) ==
    [val |-> Head(l), rest |-> Tail(l)]

(* The first offset at or after o holding c (the scans of indexesToList   *)
(* have no other bound).                                                   *)
FirstAt(b, o, c) ==
    CHOOSE i \in o..Len(b) - 1 : b[i + 1] = c /\ \A j \in o..i - 1 : b[j + 1] # c

(* indexesToList: while offset < len, the digits up to ' ' are the start, *)
(* the digits up to '\n' the end.                                          *)
RECURSIVE IndexLinesFrom(_, _, _)
IndexLinesFrom(b, o, l) ==
    IF o >= Len(b) THEN l
    ELSE LET sp == FirstAt(b, o, SP)
             nl == FirstAt(b, sp + 1, NL)
         IN IndexLinesFrom(b, nl + 1,
                mboxListAddTail(l, [start |-> Atol(SubSeq(b, o + 1, sp)),
                                    end |-> Atol(SubSeq(b, sp + 2, nl))]))
indexesToList(b, o) == IndexLinesFrom(b, o, <<>>)

(* mboxIdxBatchLoad's loop: take the head offset pair, append it to the   *)
(* batch, and if the batch's bytes plus this message reach the budget     *)
(* enqueue the batch (this message included) and start a new one; finally *)
(* enqueue a non-empty last batch.                                         *)
(* Mutant of Batches: the last batch enqueued even when it is empty. *)
RECURSIVE BatchesEmptyTail(_, _, _)
BatchesEmptyTail(idxs, batch, bytes) ==
    LET r    == mboxListRemoveHead(idxs)
        o    == r.val
        size == o.end - o.start
        b    == mboxListAddTail(batch, o)
    IN IF bytes + size < ReadSize
       THEN IF r.rest = <<>> THEN <<b>> ELSE BatchesEmptyTail(r.rest, b, bytes + size)
       ELSE <<b>> \o (IF r.rest = <<>> THEN <<<<>>>> ELSE BatchesEmptyTail(r.rest, <<>>, 0))

RECURSIVE Batches(_, _, _)
Batches(idxs, batch, bytes) ==
    LET r    == mboxListRemoveHead(idxs)
        o    == r.val
        size == o.end - o.start
        b    == mboxListAddTail(batch, o)
    IN IF bytes + size < ReadSize
       THEN IF r.rest = <<>> THEN <<b>> ELSE Batches(r.rest, b, bytes + size)
       ELSE <<b>> \o (IF r.rest = <<>> THEN <<>> ELSE Batches(r.rest, <<>>, 0))

(* mboxIdxGetMessages on an intact read: one slab from the first start to *)
(* the last end, and for each pair, in batch order, the record            *)
(* mboxMsgLiteFromBuffer makes of its window.                              *)
(* Mutant of SlabRecords: the loop stops after the head pair. *)
SlabRecordsHeadOnly(mb, batch) ==
    [k \in 1..1 |->
        LET i == CHOOSE i \in DOMAIN mb : MsgStart(mb, i) = batch[k].start
        IN [Record(mb, i) EXCEPT !.end = batch[k].end]]

SlabRecords(mb, batch) ==
    [k \in 1..Len(batch) |->
        LET i == CHOOSE i \in DOMAIN mb : MsgStart(mb, i) = batch[k].start
        IN [Record(mb, i) EXCEPT !.end = batch[k].end]]

-----------------------------------------------------------------------------
(* The KMP matcher of mboxMsgListFilterBySender, over 0-based offsets.     *)
At(s, j) == s[j + 1]

(* The while loop of mboxBufComputePrefixTable: fall back along the table *)
(* while pattern[k] and pattern[i] differ, compared byte for byte.        *)
RECURSIVE PrefixFallback(_, _, _, _)
PrefixFallback(p, t, k, i) ==
    IF k > 0 /\ At(p, k) # At(p, i) THEN PrefixFallback(p, t, At(t, k - 1), i) ELSE k

(* The for loop over i, with the table so far t (table[0..i-1]). *)
RECURSIVE PrefixTableFrom(_, _, _, _)
PrefixTableFrom(p, t, k, i) ==
    IF i >= Len(p) THEN t
    ELSE LET k1 == PrefixFallback(p, t, k, i)
             k2 == IF At(p, k1) = At(p, i) THEN k1 + 1 ELSE k1
         IN PrefixTableFrom(p, Append(t, k2), k2, i + 1)

(* table[0] = 0 is written even for an empty pattern. *)
mboxBufComputePrefixTable(p) == PrefixTableFrom(p, <<0>>, 0, 1)

(* The matching loop of mboxBufContainsCasePatternWithTable: the same     *)
(* fall-back, but pattern and buffer bytes compared through tolower.      *)
RECURSIVE CaseFallback(_, _, _, _, _)
CaseFallback(b, t, p, q, i) ==
    IF q > 0 /\ MB!LowerCase(At(p, q)) # MB!LowerCase(At(b, i))
    THEN CaseFallback(b, t, p, At(t, q - 1), i) ELSE q

(* Mutant of CaseScan: a match reported one byte before the pattern ends. *)
RECURSIVE CaseScanEarly(_, _, _, _, _)
CaseScanEarly(b, t, p, q, i) ==
    IF i >= Len(b) \/ At(b, i) = MB!NUL THEN -1
    ELSE LET q1 == CaseFallback(b, t, p, q, i)
             q2 == IF MB!LowerCase(At(p, q1)) = MB!LowerCase(At(b, i)) THEN q1 + 1 ELSE q1
         IN IF q2 + 1 = Len(p) THEN i - Len(p) + 2 ELSE CaseScanEarly(b, t, p, q2, i + 1)

RECURSIVE CaseScan(_, _, _, _, _)
CaseScan(b, t, p, q, i) ==
    IF i >= Len(b) \/ At(b, i) = MB!NUL THEN -1
    ELSE LET q1 == CaseFallback(b, t, p, q, i)
             q2 == IF MB!LowerCase(At(p, q1)) = MB!LowerCase(At(b, i)) THEN q1 + 1 ELSE q1
         IN IF q2 = Len(p) THEN i - Len(p) + 1 ELSE CaseScan(b, t, p, q2, i + 1)

(* The offset of the first match, or -1 (always for an empty pattern). *)
mboxBufContainsCasePatternWithTable(b, t, p) ==
    IF p = <<>> THEN -1 ELSE CaseScan(b, t, p, 0, 0)

(* The do-while of mboxMsgListFilterBySender over a list whose messages *)
(* all have a sender: each hit is added at the head of the new list.      *)
(* Mutant of FilterList: hits added at the tail.                           *)
FilterListAddTail(l, pat) ==
    LET t == mboxBufComputePrefixTable(pat) IN
    FoldLeft(LAMBDA f, r : IF mboxBufContainsCasePatternWithTable(r.from, t, pat) # -1
                           THEN mboxListAddTail(f, r) ELSE f, <<>>, l)

FilterList(l, pat) ==
    LET t == mboxBufComputePrefixTable(pat) IN
    FoldLeft(LAMBDA f, r : IF mboxBufContainsCasePatternWithTable(r.from, t, pat) # -1
                           THEN mboxListAddHead(f, r) ELSE f, <<>>, l)

(* The reference: p occurs in s, letters compared without case. *)
ContainsIgnoringCase(s, p) ==
    LET low(x) == [j \in DOMAIN x |-> MB!LowerCase(x[j])] IN low(p) \in SubSeqs(low(s))

-----------------------------------------------------------------------------
VARIABLES
    mbox,          \* the mbox file
    present,       \* whether the mbox file can be opened
    list,          \* the record list the caller holds
    locked,        \* that list's mutex is held (left so by mboxListQSort)
    idx,           \* the index file: its bytes, or NoFile
    pending,       \* batches enqueued on the load pool and not yet run
    loading,       \* the list the load's workers append to
    pc,            \* the caller: "ready", "loading", "crashed" or "blocked"
    filtered,      \* the list the caller's last filter returned
    op             \* history: the call or pool step taken last

vars == <<mbox, present, list, locked, idx, pending, loading, pc, filtered, op>>

Init ==
    /\ mbox \in Mboxes
    /\ present \in IF MboxMissing THEN BOOLEAN ELSE {TRUE}
    \* the list mboxParse returned: every message, in whatever order the
    \* parse workers finished them
    /\ list \in {[k \in DOMAIN p |-> mboxMsgLiteCreate(mbox, p[k])] : p \in Permutations(DOMAIN mbox)}
    /\ locked = FALSE
    /\ idx = NoFile
    /\ pending = {}
    /\ loading = <<>>
    /\ pc = "ready"
    /\ filtered = <<>>
    /\ op = <<"init">>

(* mboxListQSort on the caller's list: it locks the list's mutex first; a *)
(* mutex left held by an earlier sort of a list of at most one node makes *)
(* the caller wait on itself for ever.                                     *)
Sort(by) ==
    IF locked THEN [list |-> list, locked |-> TRUE, pc |-> "blocked"]
    ELSE [list |-> LS!QSort(list, by), locked |-> Len(list) <= 1, pc |-> "ready"]

(* mboxIdxSave: an empty list, or a failed open, returns 0 and changes   *)
(* nothing.  Else the open truncates the index (O_TRUNC), the list is     *)
(* sorted, and the chunks are written, each by pwrite then fsync.  A      *)
(* failed pwrite or fsync ends the save (what fsync failed on stays       *)
(* written).  If the sort blocks, the index stays truncated.  A crash     *)
(* ends the process after any chunk; the restarted caller holds no list.  *)
mboxIdxSave ==
    /\ pc = "ready"
    /\ list # <<>>
    /\ LET s  == Sort("start")
           cs == Chunks(s.list, <<>>)
       IN \/ /\ s.pc = "blocked"
             /\ idx' = <<>>
             /\ pc' = "blocked"
             /\ UNCHANGED <<list, locked>>
          \/ /\ s.pc = "ready"
             /\ \/ idx' = Written(cs, Len(cs))
                \/ WriteErrors /\ \E k \in 0..Len(cs) - 1 : idx' \in FailedWrite(cs, k)
             /\ list' = s.list
             /\ locked' = s.locked
             /\ UNCHANGED pc
          \/ /\ Crashes
             /\ s.pc = "ready"
             /\ \E k \in 0..Len(cs) - 1 : idx' = Written(cs, k)
             /\ list' = <<>>
             /\ locked' = FALSE
             /\ UNCHANGED pc
    /\ op' = <<"save">>
    /\ UNCHANGED <<mbox, present, pending, loading, filtered>>

(* mboxIdxLoad up to mboxWorkerPoolWait: without an index file it returns *)
(* NULL and changes nothing; else the whole file is read, turned into a  *)
(* list of pairs, and mboxIdxBatchLoad enqueues the batches.  Its first  *)
(* mboxListRemoveHead on an empty list returns NULL, which it reads.     *)
mboxIdxLoad ==
    /\ pc = "ready"
    /\ idx # NoFile
    /\ op' = <<"load">>
    /\ LET pairs == indexesToList(idx, 0) IN
            IF pairs = <<>>
            THEN /\ pc' = "crashed"
                 /\ UNCHANGED <<mbox, present, list, locked, idx, pending, loading, filtered>>
            ELSE /\ pending' = ToSet(Batches(pairs, <<>>, 0))
                 /\ loading' = <<>>
                 /\ pc' = "loading"
                 /\ UNCHANGED <<mbox, present, list, locked, idx, filtered>>

(* A pool worker runs mboxIdxGetMessages on a batch: one pread of the    *)
(* slab, then a record per pair appended under the list's lock.  Without *)
(* the mbox, open gave -1, pread returns -1 and buf[-1] = '\0' writes     *)
(* before the slab: the heap is corrupt and free(buf) aborts.             *)
mboxIdxGetMessages(b) ==
    /\ pc = "loading"
    /\ b \in pending
    /\ pending' = pending \ {b}
    /\ op' = <<"get">>
    /\ IF present
       THEN /\ loading' = FoldLeft(mboxListTSAddTail, loading, SlabRecords(mbox, b))
            /\ UNCHANGED pc
       ELSE /\ pc' = "crashed"
            /\ UNCHANGED loading
    /\ UNCHANGED <<mbox, present, list, locked, idx, filtered>>

(* mboxWorkerPoolWait returns once every batch has run; mboxIdxLoad      *)
(* returns the new list (a fresh mutex).                                   *)
mboxIdxLoadReturns ==
    /\ pc = "loading"
    /\ pending = {}
    /\ list' = loading
    /\ locked' = FALSE
    /\ loading' = <<>>
    /\ pc' = "ready"
    /\ op' = <<"loadReturns">>
    /\ UNCHANGED <<mbox, present, idx, pending, filtered>>

mboxMsgListSortByDate ==
    /\ pc = "ready"
    /\ LET s == Sort("date") IN
       /\ list' = s.list /\ locked' = s.locked /\ pc' = s.pc
    /\ op' = <<"sortDate">>
    /\ UNCHANGED <<mbox, present, idx, pending, loading, filtered>>

mboxMsgListSortByFrom ==
    /\ pc = "ready"
    /\ LET s == Sort("from") IN
       /\ list' = s.list /\ locked' = s.locked /\ pc' = s.pc
    /\ op' = <<"sortFrom">>
    /\ UNCHANGED <<mbox, present, idx, pending, loading, filtered>>

(* mboxMsgListFilterBySender: an empty list gives NULL.  Else the table   *)
(* is built once and the messages are filtered (FilterList).  A record    *)
(* whose from is NULL would be handed to the matcher, which reads         *)
(* buf->data at once; a record parsed from an envelope line always has a  *)
(* from (FromField), so the records of this module never take that path.  *)
mboxMsgListFilterBySender(pat) ==
    /\ pc = "ready"
    /\ list # <<>>
    /\ IF \E k \in DOMAIN list : list[k].from = NoFrom
       THEN /\ pc' = "crashed"
            /\ UNCHANGED filtered
       ELSE /\ filtered' = FilterList(list, pat)
            /\ UNCHANGED pc
    /\ op' = <<"filter", pat>>
    /\ UNCHANGED <<mbox, present, list, locked, idx, pending, loading>>

Next ==
    \/ mboxIdxSave
    \/ mboxIdxLoad
    \/ \E b \in pending : mboxIdxGetMessages(b)
    \/ mboxIdxLoadReturns
    \/ mboxMsgListSortByDate
    \/ mboxMsgListSortByFrom
    \/ \E pat \in Patterns : mboxMsgListFilterBySender(pat)

Spec == Init /\ [][Next]_vars

-----------------------------------------------------------------------------
RecordType == [start : Nat, end : Nat, ts : Int, from : Seq(0..127) \cup {NoFrom}]

(* Types; a batch on the pool is never empty (mboxIdxGetMessages reads   *)
(* its root's data at once).                                              *)
TypeOK ==
    /\ mbox \in Mboxes
    /\ present \in BOOLEAN
    /\ list \in Seq(RecordType)
    /\ locked \in BOOLEAN
    /\ idx = NoFile \/ idx \in Seq(0..127)
    /\ pending \subseteq Seq([start : Nat, end : Nat]) \ {<<>>}
    /\ loading \in Seq(RecordType)
    /\ pc \in {"ready", "loading", "crashed", "blocked"}
    /\ filtered \in Seq(RecordType)
    /\ op \in {<<"init">>, <<"save">>, <<"load">>, <<"get">>, <<"loadReturns">>,
               <<"sortDate">>, <<"sortFrom">>} \cup ({"filter"} \X Patterns)

(* The list the caller holds, whether mboxParse, mboxIdxLoad or a sort    *)
(* produced it, holds distinct records, each the record of a message of   *)
(* the mbox: the sorts swap data through a temporary, and each loaded     *)
(* record is parsed from its own window of its batch's slab.              *)
ListHoldsMboxRecords ==
    /\ \A k \in DOMAIN list : list[k] \in Records(mbox)
    /\ \A j, k \in DOMAIN list : j < k => list[j] # list[k]

(* When mboxIdxLoad returns a list, it holds one record for each line of *)
(* the index file: mboxIdxBatchLoad puts every pair into exactly one     *)
(* batch (the one that overflows the budget included, the last partial   *)
(* one too), and every batch is run before mboxWorkerPoolWait returns.   *)
LoadReturnsIndex ==
    [][op' = <<"loadReturns">> =>
          LET ps == indexesToList(idx, 0) IN
          /\ Len(list') = Len(ps)
          /\ {Pair(r) : r \in ToSet(list')} = ToSet(ps)]_vars

SortedBy(l, by) == \A j, k \in DOMAIN l : j < k => LS!Comparator(by, l[j], l[k]) <= 0

(* A sort that returns leaves no two records out of order under its own   *)
(* comparator: by start offset in mboxIdxSave, by date and by sender for  *)
(* the caller, though -1 timestamps and missing senders compare below     *)
(* everything both ways and a sender equals its own extensions.           *)
SortedByOwnComparator ==
    [][/\ op' = <<"save">> /\ pc' = "ready" /\ list' # <<>> => SortedBy(list', "start")
       /\ op' = <<"sortDate">> /\ pc' = "ready" => SortedBy(list', "date")
       /\ op' = <<"sortFrom">> /\ pc' = "ready" => SortedBy(list', "from")]_vars

(* spec.md 4.5: a record's unix_timestamp is the instant its message's   *)
(* Date header names.  Two ways the code misses it: mboxDateStringToStruct *)
(* reads no month but February, and a Date that is the first header is    *)
(* filed under the envelope line and never found (reproducer              *)
(* MCIndex_DateParse.cfg).                                                 *)
DateParsedAsSpecified ==
    \A k \in DOMAIN list, i \in DOMAIN mbox :
        MsgStart(mbox, i) = list[k].start /\ NamedDate(mbox[i].hdrs) # NoDate =>
            list[k].ts = DT!TrueTime(NamedDate(mbox[i].hdrs))

(* mboxMsgListFilterBySender returns only messages whose sender holds the *)
(* pattern, ignoring case, in the reverse of the list's order: the KMP    *)
(* fall-back never skips to a longer prefix than the bytes matched, even  *)
(* with a table built case-sensitively, and each hit goes to the head.    *)
FilterSound ==
    [][\A pat \in Patterns :
          op' = <<"filter", pat>> /\ pc' = "ready" =>
              /\ \A k \in DOMAIN filtered' : ContainsIgnoringCase(filtered'[k].from, pat)
              /\ Reverse(filtered') = SelectSeq(list, LAMBDA r : r \in ToSet(filtered'))]_vars

(* spec.md (section 6, filter_by_sender): the filter is a case-insensitive*)
(* substring match against each record's from, so every message whose     *)
(* sender holds a non-empty pattern is returned.  The prefix table of     *)
(* mboxBufComputePrefixTable compares bytes with their case, so after a   *)
(* mismatch the matcher can fall back further than it should.             *)
FilterComplete ==
    [][\A pat \in Patterns :
          op' = <<"filter", pat>> /\ pc' = "ready" /\ pat # <<>> =>
              \A k \in DOMAIN list :
                  ContainsIgnoringCase(list[k].from, pat) => list[k] \in ToSet(filtered')]_vars

(* Every call the caller makes returns to it: none dereferences NULL,    *)
(* writes outside its buffer or waits for ever on a mutex it holds.      *)
CallsReturn == pc \in {"ready", "loading"}
=============================================================================
