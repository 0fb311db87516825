---------------------------- MODULE RegionPlanner ----------------------------
(***************************************************************************)
(* The chunk planner of src/src/mbox.c (mboxSetAllOffsets) with the        *)
(* boundary search of src/src/mbox-parser.c (mboxParserCtxSeekStart).      *)
(*                                                                         *)
(* The file is a sequence of symbols: "F" stands for the five bytes        *)
(* "From " at the start of a line, "N" for a newline, "x" for any other    *)
(* byte; offsets and sizes count symbols.  The two-symbol window <<N, F>>  *)
(* is the code's six-byte pattern "\nFrom ".  IO_READ_SIZE is the constant *)
(* ReadSize, scaled down with the file.                                    *)
(*                                                                         *)
(* The io_thread_count SeekStart jobs run in the io pool and are           *)
(* independent: each touches only its own context and reads with pread.   *)
(* Each iteration of the search loop is one step.  mboxWorkerPoolWait      *)
(* returns only when all of them have finished (module WorkerPool checks   *)
(* this), so the planning step waits for all of them.                      *)
(***************************************************************************)
EXTENDS Naturals, Sequences, FiniteSets

CONSTANTS
    FileSizes,     \* the sizes of file considered, in symbols
    IOThreads,     \* io_thread_count = thread_count / 2
    ReadSize,      \* MBOX_IO_READ_SIZE, which is also the jump size
    ReadErrors     \* may pread fail (return -1)?

ASSUME IOThreads \in Nat \ {0} /\ ReadSize \in Nat \ {0}
ASSUME ReadErrors \in BOOLEAN

Sym == {"F", "N", "x"}

Min(a, b) == IF a < b THEN a ELSE b
Max(a, b) == IF a > b THEN a ELSE b

(* An mbox file of n symbols: it begins with a From line, and "From " is  *)
(* only taken for a From line after a newline.                           *)
MboxFiles(n) ==
    {f \in [1..n -> Sym] :
        /\ n > 0 => f[1] = "F"
        /\ \A k \in 2..n : f[k] = "F" => f[k - 1] = "N"}

Ctx == 0..IOThreads - 1

VARIABLES
    file,          \* the mbox file; byte at offset o is file[o + 1]
    jump,          \* the local 'offset' of each SeekStart loop
    status,        \* "seeking", or "found" / "stopped" once the loop exits
    startOff,      \* ioctx->start_offset of each context
    endOff,        \* ioctx->end_offset of each context
    regions,       \* m->contexts after the filter: <<start, end>> pairs
    planned        \* has mboxSetAllOffsets returned?

vars == <<file, jump, status, startOff, endOff, regions, planned>>

FileSize == Len(file)
Byte(o) == file[o + 1]

(* Mutant of ChunkSize: the chunk rounded up. *)
ChunkSizeRoundedUp == (FileSize + IOThreads - 1) \div IOThreads

(* chunk_size = m->file_size / io_thread_count and the first cut i*chunk. *)
ChunkSize == FileSize \div IOThreads
Nominal(i) == i * ChunkSize

(* Does the search of context i stop at offset o of a buffer that holds   *)
(* the file up to offset lim?  A context whose file_offset is not 0 looks  *)
(* for the newline of "\nFrom ", one whose file_offset is 0 for any       *)
(* "From "; the pattern must lie before the NUL at buf->len.              *)
IsFromPattern(i, o, lim) ==
    IF Nominal(i) # 0
        THEN o + 1 < lim /\ Byte(o) = "N" /\ Byte(o + 1) = "F"
        ELSE Byte(o) = "F"

(* ioctx->start_offset = offset + idx: the position of the match, in both *)
(* branches of the scan.                                                  *)
MatchStart(i, off, k) == off + k

-----------------------------------------------------------------------------
(* mboxIONew, through mboxParserCtxInit: every offset of a new ioctx is 0. *)
mboxIONew == [file_offset |-> 0, offset |-> 0, end_offset |-> 0, start_offset |-> 0]

(* mboxSetAllOffsets, first loop: each context starts at its first cut,    *)
(* with the end_offset 0 of mboxIONew, and its SeekStart job is enqueued.  *)
InitContexts ==
    /\ jump = [i \in Ctx |-> Nominal(i)]
    /\ status = [i \in Ctx |-> "seeking"]
    /\ startOff = [i \in Ctx |-> Nominal(i)]
    /\ endOff = [i \in Ctx |-> mboxIONew.end_offset]
    /\ regions = <<>>
    /\ planned = FALSE

Init ==
    /\ \E n \in FileSizes : file \in MboxFiles(n)
    /\ InitContexts

(* One iteration of the while (1) loop of mboxParserCtxSeekStart: jump back *)
(* ReadSize (not below 0), pread ReadSize bytes there into the buffer, and *)
(* scan the buffer FORWARD for the first pattern lying wholly inside it    *)
(* (the byte at buf->len is the NUL that mboxIORead leaves there).  If     *)
(* nothing matches, go round again from the new offset.  After the loop    *)
(* the buffer is emptied and file_offset := start_offset.                  *)
mboxParserCtxSeekStart(i) ==
    LET off == Max(0, jump[i] - ReadSize)
        rbytes == Max(0, Min(ReadSize, FileSize - off))
        hits == {k \in 0..rbytes - 1 : IsFromPattern(i, off + k, off + rbytes)}
    IN
    /\ status[i] = "seeking"
    /\ jump' = [jump EXCEPT ![i] = off]
    /\ \/ /\ ReadErrors
          /\ status' = [status EXCEPT ![i] = "stopped"]
          /\ UNCHANGED startOff
       \/ /\ rbytes = 0
          /\ status' = [status EXCEPT ![i] = "stopped"]
          /\ UNCHANGED startOff
       \/ /\ rbytes > 0
          /\ hits # {}
          /\ LET k == CHOOSE k \in hits : \A h \in hits : k <= h IN
             startOff' = [startOff EXCEPT ![i] = MatchStart(i, off, k)]
          /\ status' = [status EXCEPT ![i] = "found"]
       \/ /\ rbytes > 0
          /\ hits = {}
          /\ UNCHANGED <<status, startOff>>
    /\ UNCHANGED <<file, endOff, regions, planned>>

(* Mutant of ContextEnds: the last context keeps the end_offset 0 given  *)
(* by mboxIONew.                                                          *)
ContextEndsLastUnset ==
    [i \in Ctx |-> IF i < IOThreads - 1 THEN startOff[i + 1] ELSE 0]

(* After mboxWorkerPoolWait each context ends where the next one starts,   *)
(* the last at the file size.                                             *)
ContextEnds ==
    [i \in Ctx |-> IF i < IOThreads - 1 THEN startOff[i + 1] ELSE FileSize]

(* The rest of mboxSetAllOffsets, after mboxWorkerPoolWait: the ends are   *)
(* set (ContextEnds) and the contexts with end_offset - start_offset <= 0 (signed) are dropped,      *)
(* keeping the order of the others.                                        *)
mboxSetAllOffsets ==
    LET ends == ContextEnds
        kept == {i \in Ctx : ends[i] - startOff[i] > 0}
        RECURSIVE Keep(_)
        Keep(i) == IF i = IOThreads THEN <<>>
                   ELSE IF i \in kept
                        THEN <<<<startOff[i], ends[i]>>>> \o Keep(i + 1)
                        ELSE Keep(i + 1)
    IN
    /\ \A i \in Ctx : status[i] # "seeking"
    /\ ~planned
    /\ endOff' = ends
    /\ regions' = Keep(0)
    /\ planned' = TRUE
    /\ UNCHANGED <<file, jump, status, startOff>>

Next ==
    \/ \E i \in Ctx : mboxParserCtxSeekStart(i)
    \/ mboxSetAllOffsets

Spec == Init /\ [][Next]_vars /\ WF_vars(Next)

-----------------------------------------------------------------------------
TypeOK ==
    /\ file \in Seq(Sym)
    /\ jump \in [Ctx -> 0..FileSize]
    /\ status \in [Ctx -> {"seeking", "found", "stopped"}]
    /\ startOff \in [Ctx -> 0..FileSize]
    /\ endOff \in [Ctx -> 0..FileSize]
    /\ regions \in Seq((0..FileSize) \X (0..FileSize))
    /\ planned \in BOOLEAN

(* Once mboxSetAllOffsets returns, every byte of the file lies in some   *)
(* kept context: no message is lost between two regions.  A context whose *)
(* search went further back than the next one's is dropped by the filter, *)
(* and coverage then rests on the previous context ending where the       *)
(* dropped one started.                                                   *)
RegionsCover ==
    planned =>
        \A o \in 0..FileSize - 1 :
            \E k \in 1..Len(regions) : regions[k][1] <= o /\ o < regions[k][2]

(* Region invariant of spec.md section 3: the kept contexts are pairwise   *)
(* disjoint, so no message is parsed by two I/O workers.  Each context    *)
(* takes the FIRST "\nFrom " of the window it jumped back to, so a        *)
(* context can start before its predecessor when a message is longer than *)
(* IO_READ_SIZE and the chunks are shorter than it.                       *)
RegionsDisjoint ==
    planned =>
        \A k, l \in 1..Len(regions) :
            k # l => regions[k][2] <= regions[l][1] \/ regions[l][2] <= regions[k][1]

(* mboxSetAllOffsets returns: every SeekStart loop exits. *)
SeekStartTerminates == <>planned
=============================================================================
