----------------------------- MODULE HeaderParse -----------------------------
(***************************************************************************)
(* mboxParseEmailHeaders (src/src/mbox-parser.c) run on the header block *)
(* of a message, and the fields mboxMsgLiteFromBuffer (src/src/mbox-msg.c)*)
(* then reads from the tree with mboxHeadersGet.                          *)
(*                                                                         *)
(* A message is generated from its structure (an envelope line, header   *)
(* lines with an optional continuation, a blank line, a body byte) and    *)
(* parsed as the bytes it is.  Header names are abstracted to their first *)
(* letter ("From" is "f", "Subject" "s", "Date" "d", "X-..." "x"), so     *)
(* "From " is "f ", and values to one letter, or to the MIME encoded word  *)
(* "=?utf-8?Q?" letter "=41?=" (the letter and "A").                      *)
(***************************************************************************)
EXTENDS Integers, Sequences, MboxBuf

CONSTANTS
    Names,         \* header names (first letters) a message may carry
    Vals,          \* one-letter header values
    MaxHeaders,    \* header lines per message
    NoValue,       \* NULL
    Heap           \* bytes the heap may hold where the decoder reads

TAB == 9
NL == 10
CR == 13
SP == 32
COLON == 58
US == 95           \* '_'
F == 102           \* "From"
D == 100           \* "Date"
M == 109           \* "Message-ID"
S == 115           \* "Subject"

NoCont == 0
Header == [name : Names, val : Vals, enc : BOOLEAN, cont : Vals \cup {NoCont}]

Encoded(v) == MimePrefix \o <<v, EQ, 52, 49>> \o MimeSuffix
ValueBytes(h) == IF h.enc THEN Encoded(h.val) ELSE <<h.val>>

(* A message: the envelope "From <sender>" line, its headers, then a      *)
(* blank line and the body.                                                *)
Messages ==
    [sender : Vals,
     headers : UNION {[1..n -> Header] : n \in 1..MaxHeaders}]

HeaderLine(h) ==
    <<h.name, COLON, SP>> \o ValueBytes(h) \o <<NL>> \o (IF h.cont = NoCont THEN <<>> ELSE <<SP, h.cont, NL>>)

RECURSIVE HeaderLines(_)
HeaderLines(hs) == IF hs = <<>> THEN <<>> ELSE HeaderLine(Head(hs)) \o HeaderLines(Tail(hs))

Bytes(m) == <<F, SP, m.sender, NL>> \o HeaderLines(m.headers) \o <<NL, 97>>

RB == INSTANCE RBTree WITH Keys <- Seq(0..127), Values <- Seq(0..127),
          KeyCmp <- mboxBufCaseCmp, MaxSize <- MaxHeaders + 1,
          tree <- NoValue, got <- NoValue, has <- FALSE, leaked <- {}

-----------------------------------------------------------------------------
(* The buffer: data[i] for i < len, and the NUL at data[len]. *)
Byte(b, i) == IF i < Len(b) THEN b[i + 1] ELSE NUL
Span(b, from, to) == SubSeq(b, from + 1, to)
Without(s, cs) == SelectSeq(s, LAMBDA c : c \notin cs)
isLine(c) == c \in {CR, NL}

(* The first offset at or after o that holds c; every scan of the parser *)
(* runs until it finds its byte, whatever the buffer length.              *)
FirstAt(b, o, c) ==
    CHOOSE i \in o..Len(b) - 1 : Byte(b, i) = c /\ \A j \in o..i - 1 : Byte(b, j) # c

RECURSIVE SkipLines(_, _)
SkipLines(b, o) == IF isLine(Byte(b, o)) THEN SkipLines(b, o + 1) ELSE o

(* mboxBufMatchFromLine: "From " at the offset. *)
mboxBufMatchFromLine(b, o) == Byte(b, o) = F /\ Byte(b, o + 1) = SP

(* "__FROM_LINE__", the key of the envelope line. *)
FromLineKey == <<US, F>>

(* The inner while (1) of mboxParseEmailHeaders: append the rest of the   *)
(* line, without '\r' and '\t', to value; go on while the next line starts *)
(* with a space or a tab.  Then insert a copy of key and value, empty      *)
(* both, and if a blank line follows skip every '\r' and '\n' and stop.   *)
(* A value that is a MIME encoded word is inserted decoded, by             *)
(* mboxBufDecodeMimeEncoded from the bytes s.heap it reads.                *)
RECURSIVE ValueLoop(_, _)
ValueLoop(b, s) ==
    LET e == FirstAt(b, s.off, NL)
        v == s.value \o Without(Span(b, s.off, e), {CR, TAB})
        o == e + 1
    IN IF Byte(b, o) \in {SP, TAB}
       THEN ValueLoop(b, [s EXCEPT !.value = v, !.off = o])
       ELSE [s EXCEPT !.tree = RB!Insert(s.tree, s.key,
                                  IF mboxBufIsMimeEncoded(v)
                                  THEN mboxBufDecodeMimeEncoded(v, s.heap) ELSE v),
                      !.key = <<>>, !.value = <<>>,
                      !.off = IF isLine(Byte(b, o)) THEN SkipLines(b, o) ELSE o,
                      !.run = ~isLine(Byte(b, o))]

(* The outer loop: an envelope line is put into key (without '\r') and   *)
(* inserted under __FROM_LINE__, and key is NOT emptied; then the name up *)
(* to ':' is appended to key, ": " skipped, and the value read.           *)
RECURSIVE HeaderLoop(_, _)
HeaderLoop(b, s) ==
    IF ~s.run \/ s.off >= Len(b) THEN s.tree
    ELSE LET s1 == IF mboxBufMatchFromLine(b, s.off)
                   THEN LET e == FirstAt(b, s.off, NL)
                            k == s.key \o Without(Span(b, s.off, e), {CR})
                        IN [s EXCEPT !.key = k, !.off = e + 1,
                                     !.tree = RB!Insert(s.tree, FromLineKey, k)]
                   ELSE s
             c  == FirstAt(b, s1.off, COLON)
             s2 == [s1 EXCEPT !.key = @ \o Span(b, s1.off, c), !.off = c + 2]
         IN HeaderLoop(b, ValueLoop(b, s2))

(* mboxParseEmailHeaders: a new tree, leading '\r'/'\n' skipped; value is *)
(* one buffer for the whole call, so the decoder reads the same place.    *)
mboxParseEmailHeaders(b, heap) ==
    HeaderLoop(b, [off |-> SkipLines(b, 0), key |-> <<>>, value |-> <<>>,
                   tree |-> RB!rbTreeNew, run |-> TRUE, heap |-> heap])

(* mboxExpectedHeaders: the lookup keys with the lengths given there      *)
(* ("Subject" has length 8, its NUL included).                           *)
ExpectedHeader ==
    [from |-> <<F>>, subject |-> <<S, NUL>>, date |-> <<D>>,
     msg_id |-> <<M>>, from_line |-> FromLineKey]

(* mboxMsgLiteFromBuffer: the fields it copies out of the tree. *)
MsgLiteFields(t) == [f \in DOMAIN ExpectedHeader |-> RB!Get(t, ExpectedHeader[f])]

-----------------------------------------------------------------------------
VARIABLES
    msg,           \* the message in the buffer
    fields         \* what mboxMsgLiteFromBuffer copied out, once it ran

vars == <<msg, fields>>

Init ==
    /\ msg \in Messages
    /\ fields = NoValue

mboxMsgLiteFromBuffer ==
    /\ fields = NoValue
    /\ \E heap \in [1..4 -> Heap] :
          fields' = MsgLiteFields(mboxParseEmailHeaders(Bytes(msg), heap))
    /\ UNCHANGED msg

Next == mboxMsgLiteFromBuffer

Spec == Init /\ [][Next]_vars

-----------------------------------------------------------------------------
(* spec.md sections 4.3 and 4.5: the envelope line is stored verbatim     *)
(* under __FROM_LINE__, each header under its name with its continuation  *)
(* appended (indent space kept), and a value that is one encoded word     *)
(* decoded (4.3: "=XX" to the byte); the record's from, subject and date  *)
(* are the value of a header of that name, or NULL when there is none.    *)
(* mboxParseEmailHeaders appends the first header's name to the envelope  *)
(* line still in key, and mboxBufCaseCmp compares only the length of the  *)
(* shorter key.                                                            *)
SpecValue(h) ==
    CASE h.enc /\ h.cont = NoCont -> <<h.val, 65>>
      [] OTHER -> ValueBytes(h) \o (IF h.cont = NoCont THEN <<>> ELSE <<SP, h.cont>>)

SpecField(name) ==
    LET hs == {i \in DOMAIN msg.headers : msg.headers[i].name = name} IN
    IF hs = {} THEN {NoValue} ELSE {SpecValue(msg.headers[i]) : i \in hs}

HeaderFieldsAsSpecified ==
    fields # NoValue =>
        /\ fields.from_line = <<F, SP, msg.sender>>
        /\ fields.from \in SpecField(F)
        /\ fields.subject \in SpecField(S)
        /\ fields.date \in SpecField(D)

(* spec.md 4.3 and section 8, scenario 2: a Subject that is one encoded   *)
(* word is stored decoded.  Checked where the first-header defect above   *)
(* cannot interfere: Subject is the second header and the first is not.  *)
(* mboxBufDecodeMimeEncoded decodes memory past the mboxBuf struct.       *)
MimeDecodedAsSpecified ==
    fields # NoValue /\ Len(msg.headers) = 2
        /\ msg.headers[2].name = S /\ msg.headers[1].name # S
        => fields.subject \in SpecField(S)

=============================================================================
