------------------------------ MODULE ListSort ------------------------------
(***************************************************************************)
(* mboxListQSort of src/src/mbox-list.c: an in-place quicksort of the data *)
(* of a circular doubly linked list (Lomuto partition around the last     *)
(* node), with the comparators its callers pass: by start offset          *)
(* (mboxIdxSave), by date and by sender (src/src/mbox-msg.c).              *)
(*                                                                         *)
(* The list is a sequence of message records; node i is position i, its    *)
(* next is i % n + 1 and its prev wraps from 1 to n, as the root's prev is *)
(* the tail.  Sorting swaps data, never nodes, so a sequence is exact.     *)
(***************************************************************************)
EXTENDS Integers, Sequences

CONSTANT NoFrom    \* a message without a From header (msg->from == NULL)

(* A message is a record with at least the fields start, ts               *)
(* (unix_timestamp; -1 is what 1969-12-31T23:59:59Z gives) and from (the  *)
(* From header as a tuple of letters, or NoFrom).                          *)

(* strncasecmp(a, b, len) on letters already folded to one case: the sign *)
(* of the first difference within len, else 0.                            *)
RECURSIVE StrNCmp(_, _, _)
StrNCmp(a, b, len) ==
    IF len = 0 THEN 0
    ELSE IF Head(a) < Head(b) THEN -1
    ELSE IF Head(a) > Head(b) THEN 1
    ELSE StrNCmp(Tail(a), Tail(b), len - 1)

(* mboxListSortByStartOffset. *)
CompareByStart(m1, m2) ==
    IF m1.start < m2.start THEN -1 ELSE IF m1.start = m2.start THEN 0 ELSE 1

(* Mutant of CompareByDate: the two comparisons swapped. *)
CompareByDateReversed(m1, m2) ==
    IF m1.ts = -1 \/ m2.ts = -1 THEN -1
    ELSE IF m1.ts > m2.ts THEN -1
    ELSE IF m1.ts < m2.ts THEN 1
    ELSE 0

(* mboxMsgListCompareByDate: -1 whenever either timestamp is -1. *)
CompareByDate(m1, m2) ==
    IF m1.ts = -1 \/ m2.ts = -1 THEN -1
    ELSE IF m1.ts < m2.ts THEN -1
    ELSE IF m1.ts > m2.ts THEN 1
    ELSE 0

(* mboxMsgListCompareByFrom: -1 when either sender is missing, else the   *)
(* case-insensitive comparison of the shorter length only.                 *)
CompareByFrom(m1, m2) ==
    IF m1.from = NoFrom \/ m2.from = NoFrom THEN -1
    ELSE LET len == IF Len(m1.from) < Len(m2.from) THEN Len(m1.from) ELSE Len(m2.from)
         IN StrNCmp(m1.from, m2.from, len)

(* The comparator each caller passes to mboxListQSort. *)
Comparator(by, m1, m2) ==
    CASE by = "start" -> CompareByStart(m1, m2)
      [] by = "date"  -> CompareByDate(m1, m2)
      [] by = "from"  -> CompareByFrom(m1, m2)

NextNode(n, i) == (i % n) + 1
PrevNode(n, i) == IF i = 1 THEN n ELSE i - 1

(* Mutant of SwapData: the temporary never written back. *)
SwapDataNoTmp(s, i, j) == [s EXCEPT ![i] = s[j]]

(* The data exchange through tmp in mboxListQSortPivot. *)
SwapData(s, i, j) == [s EXCEPT ![i] = s[j], ![j] = s[i]]

(* Mutant of QSortPivot: prev starts at low instead of low->prev. *)
QSortPivotPrevAtLow(s, low, high, by) ==
    LET n == Len(s)
        RECURSIVE Loop(_, _, _)
        Loop(t, prev, cur) ==
            IF cur = high THEN <<t, prev>>
            ELSE LET le == Comparator(by, t[cur], t[high]) <= 0
                 IN Loop(IF le THEN SwapData(t, NextNode(n, prev), cur) ELSE t,
                         IF le THEN NextNode(n, prev) ELSE prev, NextNode(n, cur))
        r == Loop(s, low, low)
        p == NextNode(n, r[2])
    IN <<SwapData(r[1], p, high), p>>

(* mboxListQSortPivot: prev starts at low->prev (never NULL in a circular *)
(* list); each node from low up to high whose data compares <= 0 to the  *)
(* pivot's is swapped onto prev->next; finally the pivot data is swapped  *)
(* onto prev->next, which is returned.                                     *)
QSortPivot(s, low, high, by) ==
    LET n == Len(s)
        RECURSIVE Loop(_, _, _)
        Loop(t, prev, cur) ==
            IF cur = high THEN <<t, prev>>
            ELSE LET le == Comparator(by, t[cur], t[high]) <= 0
                 IN Loop(IF le THEN SwapData(t, NextNode(n, prev), cur) ELSE t,
                         IF le THEN NextNode(n, prev) ELSE prev, NextNode(n, cur))
        r == Loop(s, PrevNode(n, low), low)
        p == NextNode(n, r[2])
    IN <<SwapData(r[1], p, high), p>>

(* mboxQSortHelper: stop on a one-node range, or (below the top call) on  *)
(* the empty range where low is high->next; else partition and sort the  *)
(* two sides of the pivot, the left one first.  The recursion is kept as  *)
(* the stack of ranges still to sort, each [low, high, count] with count  *)
(* 0 for the top call; the right side's bounds are nodes fixed when the   *)
(* pivot is found, since sorting the left side only moves data.           *)
RECURSIVE QSortHelper(_, _, _)
QSortHelper(s, todo, by) ==
    IF todo = <<>> THEN s
    ELSE LET c == Head(todo)
             stop == c.low = c.high \/ (c.count = 1 /\ c.low = NextNode(Len(s), c.high))
             r == QSortPivot(s, c.low, c.high, by)
         IN QSortHelper(IF stop THEN s ELSE r[1],
                        IF stop THEN Tail(todo)
                        ELSE <<[low |-> c.low, high |-> PrevNode(Len(s), r[2]), count |-> 1],
                               [low |-> NextNode(Len(s), r[2]), high |-> c.high, count |-> 1]>>
                             \o Tail(todo), by)

(* mboxListQSort: nothing to do for fewer than two nodes; else sort from   *)
(* root to root->prev.                                                     *)
QSort(s, by) ==
    IF Len(s) <= 1 THEN s ELSE QSortHelper(s, <<[low |-> 1, high |-> Len(s), count |-> 0]>>, by)
=============================================================================
