------------------------------- MODULE MCIndex -------------------------------
(* Model-checking instance of Index.  Senders are ASCII strings: "aa" is a *)
(* proper prefix of "aaab", so the sender comparator takes them for equal, *)
(* and a Date first in its message makes the date's text the sender;       *)
(* the patterns mix cases, and "Aab" occurs in "aaab" only after a          *)
(* mismatch that makes the matcher fall back along its table.               *)
(* Dates: "27 Feb 2023 14:37:33 -0800" of the tests, and "0 Feb 1970      *)
(* -721:59:59 +0000", a header crafted so that mktime normalises it to    *)
(* -1, the timestamp the date comparator treats apart; with no Date the   *)
(* timestamp is 0.  MCJanDates adds "2 Jan 2023 10:00:00 +0000", which    *)
(* the parser cannot read (MCIndex_DateParse.cfg).                         *)
EXTENDS Index

MCDates ==
    {[mday |-> 27, mon |-> 1, year |-> 2023, hour |-> 14, min |-> 37, sec |-> 33, zone |-> -800],
     [mday |-> 0, mon |-> 1, year |-> 1970, hour |-> -721, min |-> 59, sec |-> 59, zone |-> 0]}

MCJanDates ==
    MCDates \cup {[mday |-> 2, mon |-> 0, year |-> 2023, hour |-> 10, min |-> 0, sec |-> 0, zone |-> 0]}

MCSenders == {<<97, 97>>, <<97, 97, 97, 98>>}
MCFeb == CHOOSE d \in MCDates : d.mday = 27
MCCrafted == CHOOSE d \in MCDates : d.mday = 0
MCJan == CHOOSE d \in MCJanDates : d.mon = 0

Hdr(n, v) == [name |-> n, val |-> v]

(* From "aa" then the Feb Date; another header "aa" then the Date that   *)
(* gives -1; the Feb Date first, then From "aaab" (from is the date's     *)
(* text, the timestamp 0); From "aaab" and no Date.                       *)
MCHeaders ==
    {<<Hdr("From", <<97, 97>>), Hdr("Date", MCFeb)>>,
     <<Hdr("Other", <<97, 97>>), Hdr("Date", MCCrafted)>>,
     <<Hdr("Date", MCFeb), Hdr("From", <<97, 97, 97, 98>>)>>,
     <<Hdr("From", <<97, 97, 97, 98>>)>>}
MCJanHeaders ==
    MCHeaders \cup {<<Hdr("From", <<97, 97>>), Hdr("Date", MCJan)>>}

MCPatterns == {<<65, 97, 98>>, <<65, 65>>}
=============================================================================
