------------------------------- MODULE MboxDate -------------------------------
(***************************************************************************)
(* The date parser of src/src/mbox-date.c: mboxDateStringToStruct, the    *)
(* home-rolled strptime that walks the format and the date string side by *)
(* side, and mboxDateStructToUnix, which hands the fields to mktime and    *)
(* then applies the zone.  Strings are byte sequences without their NUL;   *)
(* a read at or past the end reads the NUL.  mktime is taken in UTC (the   *)
(* tests' timestamps assume TZ=UTC), with its normalisation of fields out  *)
(* of range.                                                               *)
(***************************************************************************)
EXTENDS Integers, Sequences
LOCAL INSTANCE MboxBuf

PCT == 37
PLUS == 43
MINUS == 45

Ch(s, i) == IF i < Len(s) THEN s[i + 1] ELSE NUL
Rest(s, i) == SubSeq(s, i + 1, Len(s)) \o <<NUL>>
IsDigit(c) == c \in 48..57
IsSpace(c) == c \in {32} \cup 9..13

Days == <<<<83,117,110>>, <<77,111,110>>, <<84,117,101>>, <<87,101,100>>,
          <<84,104,117>>, <<70,114,105>>, <<83,97,116>>>>
Months == <<<<74,97,110>>, <<70,101,98>>, <<77,97,114>>, <<65,112,114>>,
            <<77,97,121>>, <<74,117,110>>, <<74,117,108>>, <<65,117,103>>,
            <<83,101,112>>, <<79,99,116>>, <<78,111,118>>, <<68,101,99>>>>

(* MBOX_DATE_FORMAT, "%d %b %Y %H:%M:%S %z". *)
MBOX_DATE_FORMAT ==
    <<37,100,32,37,98,32,37,89,32,37,72,58,37,77,58,37,83,32,37,122>>

-----------------------------------------------------------------------------
(* strtol(s + i, &endptr, 10): blanks, a sign, then digits; with no digit  *)
(* the value is 0 and endptr is s + i.                                      *)
RECURSIVE SkipBlanks(_, _)
SkipBlanks(s, j) == IF IsSpace(Ch(s, j)) THEN SkipBlanks(s, j + 1) ELSE j

RECURSIVE DigitsFrom(_, _, _)
DigitsFrom(s, j, v) ==
    IF IsDigit(Ch(s, j)) THEN DigitsFrom(s, j + 1, 10 * v + Ch(s, j) - 48)
    ELSE [val |-> v, end |-> j]

Strtol(s, i) ==
    LET w == SkipBlanks(s, i)
        d == IF Ch(s, w) \in {PLUS, MINUS} THEN w + 1 ELSE w
        r == DigitsFrom(s, d, 0)
    IN IF r.end = d THEN [val |-> 0, end |-> i]
       ELSE [r EXCEPT !.val = IF Ch(s, w) = MINUS THEN -@ ELSE @]

(* The first of names (0-based) that the next three bytes spell in any   *)
(* case, or -1.                                                            *)
NameAt(s, i, names) ==
    LET ks == {k \in DOMAIN names : StrNCaseCmp(Rest(s, i), names[k], 3) = 0}
    IN IF ks = {} THEN -1 ELSE (CHOOSE k \in ks : \A j \in ks : k <= j) - 1

(* The fields of struct mboxDate, all -1 after the memset. *)
Unset == [f \in {"sec", "min", "hour", "mday", "mon", "year", "wday", "zone"} |-> -1]

(* Conversions that read a number: the field set, and where strdate goes   *)
(* next ('d' steps two bytes, the others past endptr and one more).        *)
NumField == [c \in {100, 109, 89, 72, 77, 83, 122} |->
                CASE c = 100 -> "mday" [] c = 109 -> "mon" [] c = 89 -> "year"
                  [] c = 72 -> "hour" [] c = 77 -> "min" [] c = 83 -> "sec"
                  [] c = 122 -> "zone"]

(* One case of the switch on the conversion byte c, at state st of the   *)
(* loop: [s |-> strdate, e |-> endptr, t |-> the struct, ok |-> FALSE once *)
(* it returned 0].                                                          *)
Conversion(str, st, c) ==
    CASE c \in {97, 98} ->
            LET names == IF c = 97 THEN Days ELSE Months
                f == IF c = 97 THEN "wday" ELSE "mon"
                k == NameAt(str, st.s, names)
            IN IF k = -1 THEN [st EXCEPT !.ok = st.t[f] # -1]
               ELSE [st EXCEPT !.s = @ + (IF c = 97 THEN 3 ELSE 2), !.t[f] = k]
      [] c \in DOMAIN NumField ->
            LET r == Strtol(str, st.s) IN
            [st EXCEPT !.t[NumField[c]] = r.val, !.e = r.end, !.ok = r.end # st.s,
                       !.s = IF c = 100 THEN @ + 2 ELSE r.end + 1]
      [] c = 112 ->
            LET am == StrNCaseCmp(Rest(str, st.s), <<65, 77>>, 2) = 0
                pm == StrNCaseCmp(Rest(str, st.s), <<80, 77>>, 2) = 0
                h == st.t.hour
                r == Strtol(str, st.s)
            IN [st EXCEPT !.t.hour = IF am /\ h >= 12 THEN h - 12
                                     ELSE IF ~am /\ pm THEN h + 12 ELSE h,
                          !.t.mon = r.val, !.e = r.end, !.ok = r.end # st.s,
                          !.s = @ + 1]
      [] OTHER -> st

(* While neither string is at its NUL: a '%' selects the conversion     *)
(* after it; the loop stops once endptr is at the NUL; a format byte      *)
(* equal to the date byte consumes it; the format always moves on.        *)
RECURSIVE ParseLoop(_, _, _)
ParseLoop(str, fmt, st) ==
    IF Ch(str, st.s) = NUL \/ Ch(fmt, st.f) = NUL THEN st
    ELSE LET a == IF Ch(fmt, st.f) = PCT
                  THEN Conversion(str, [st EXCEPT !.f = @ + 1], Ch(fmt, st.f + 1))
                  ELSE st
         IN IF ~a.ok \/ Ch(str, a.e) = NUL THEN a
            ELSE ParseLoop(str, fmt,
                    [a EXCEPT !.s = IF Ch(fmt, a.f) = Ch(str, a.s) THEN @ + 1 ELSE @,
                              !.f = @ + 1])

(* The return value (1 or 0) and the struct. *)
mboxDateStringToStruct(str, fmt) ==
    LET r == ParseLoop(str, fmt, [s |-> 0, f |-> 0, e |-> 0, t |-> Unset, ok |-> TRUE])
    IN [ret |-> IF r.ok THEN 1 ELSE 0, t |-> r.t]

-----------------------------------------------------------------------------
(* Days from 1970-01-01 to the civil date y-m-d, m in 1..12 (\div floors). *)
DaysFromCivil(y, m, d) ==
    LET y1 == IF m <= 2 THEN y - 1 ELSE y
        era == y1 \div 400
        yoe == y1 - era * 400
        doy == (153 * ((m + 9) % 12) + 2) \div 5 + d - 1
    IN era * 146097 + yoe * 365 + yoe \div 4 - yoe \div 100 + doy - 719468

(* mktime in UTC on a struct tm: a month outside 0..11 moves the year,    *)
(* and day, hour, minute and second out of range carry linearly.          *)
mktime(tm) ==
    LET y == tm.year + 1900 + tm.mon \div 12 IN
    (DaysFromCivil(y, (tm.mon % 12) + 1, 1) + tm.mday - 1) * 86400
        + tm.hour * 3600 + tm.min * 60 + tm.sec

(* Mutant of mboxDateStructToUnix: the zone's sign taken the other way.  *)
ZoneSignSwapped(d) ==
    LET ts == mktime([d EXCEPT !.year = @ - 1900])
        a == IF d.zone < 0 THEN -d.zone ELSE d.zone
    IN IF d.zone = 0 \/ d.zone = -1 THEN ts
       ELSE ts - (IF d.zone < -1 THEN 1 ELSE -1) * ((a \div 100) * 3600 + (a % 100) * 60)

(* The struct tm built field by field, mktime, then the zone taken as     *)
(* +-HHMM: subtracted when positive, added when below -1; 0 and -1 (unset) *)
(* leave the timestamp alone.                                               *)
mboxDateStructToUnix(d) ==
    LET ts == mktime([d EXCEPT !.year = @ - 1900])
        z == d.zone
        a == IF z < 0 THEN -z ELSE z
        diff == (a \div 100) * 3600 + (a % 100) * 60
    IN CASE z = 0 \/ z = -1 -> ts
         [] z < -1 -> ts + diff
         [] OTHER -> ts - diff

-----------------------------------------------------------------------------
(* The Date header a sender writes for the date d (a record of the fields *)
(* above, month 0-based, zone as +-HHMM): "27 Feb 2023 07:30:00 -0800",    *)
(* and the instant it names.                                                *)
RECURSIVE Digits(_)
Digits(n) == IF n < 10 THEN <<48 + n>> ELSE Digits(n \div 10) \o <<48 + (n % 10)>>
Signed(n) == IF n < 0 THEN <<MINUS>> \o Digits(-n) ELSE Digits(n)
Padded(n, w) == IF n < 0 THEN Signed(n) ELSE [i \in 1..w - Len(Digits(n)) |-> 48] \o Digits(n)

FormatDate(d) ==
    Signed(d.mday) \o <<32>> \o Months[d.mon + 1] \o <<32>> \o Signed(d.year) \o <<32>>
      \o Padded(d.hour, 2) \o <<58>> \o Padded(d.min, 2) \o <<58>> \o Padded(d.sec, 2)
      \o <<32, IF d.zone < 0 THEN MINUS ELSE PLUS>> \o Padded(IF d.zone < 0 THEN -d.zone ELSE d.zone, 4)

(* Seconds since the epoch of d: its local time less its offset from UTC. *)
TrueTime(d) ==
    LET a == IF d.zone < 0 THEN -d.zone ELSE d.zone
        offset == (IF d.zone < 0 THEN -1 ELSE 1) * ((a \div 100) * 3600 + (a % 100) * 60)
    IN mktime([d EXCEPT !.year = @ - 1900]) - offset
=============================================================================
