------------------------------- MODULE MboxBuf -------------------------------
(***************************************************************************)
(* The comparison of mboxBuf (src/src/mbox-buf.c) that the header tree     *)
(* uses, and the decoding of MIME encoded words in header values.  A      *)
(* buffer is the sequence of its len bytes, as ASCII codes.                *)
(***************************************************************************)
EXTENDS Integers, Sequences

NUL == 0

LowerCase(c) == IF c \in 65..90 THEN c + 32 ELSE c

(* libc strncasecmp(a, b, n): the difference of the first pair of bytes   *)
(* that differ after case folding, or 0 once n bytes, or a NUL in both,    *)
(* have compared equal.                                                    *)
RECURSIVE StrNCaseCmp(_, _, _)
StrNCaseCmp(a, b, n) ==
    IF n = 0 THEN 0
    ELSE LET d == LowerCase(Head(a)) - LowerCase(Head(b)) IN
         IF d # 0 \/ Head(a) = NUL THEN d
         ELSE StrNCaseCmp(Tail(a), Tail(b), n - 1)

(* mboxBufCaseCmp: strncasecmp over the length of the SHORTER buffer, so   *)
(* a buffer compares equal to every buffer it is a prefix of.             *)
mboxBufCaseCmp(b1, b2) ==
    StrNCaseCmp(b1, b2, IF Len(b1) < Len(b2) THEN Len(b1) ELSE Len(b2))

-----------------------------------------------------------------------------
EQ == 61

(* "=?utf-8?Q?" and "?=". *)
MimePrefix == <<61, 63, 117, 116, 102, 45, 56, 63, 81, 63>>
MimeSuffix == <<63, 61>>

(* mboxBufIsMimeEncoded: strncmp of the prefix with the data (a shorter   *)
(* value meets its NUL and differs), and of the last two bytes with "?=". *)
mboxBufIsMimeEncoded(v) ==
    /\ Len(v) >= 10
    /\ SubSeq(v, 1, 10) = MimePrefix
    /\ SubSeq(v, Len(v) - 1, Len(v)) = MimeSuffix

hexToInt(c) ==
    CASE c \in 48..57 -> c - 48
      [] c \in 65..70 -> c - 55
      [] c \in 97..102 -> c - 87
      [] OTHER -> -1

(* decodeMimeEncoded over a NUL-terminated input: "=" and two hex digits  *)
(* give one byte, any other byte is copied, and the NUL ends it.           *)
RECURSIVE decodeMimeEncoded(_)
decodeMimeEncoded(in) ==
    LET at(k) == IF k <= Len(in) THEN in[k] ELSE NUL IN
    IF at(1) = NUL THEN <<>>
    ELSE IF at(1) = EQ /\ hexToInt(at(2)) # -1 /\ hexToInt(at(3)) # -1
         THEN <<hexToInt(at(2)) * 16 + hexToInt(at(3))>>
                \o decodeMimeEncoded(SubSeq(in, 4, Len(in)))
         ELSE <<at(1)>> \o decodeMimeEncoded(Tail(in))

(* mboxBufDecodeMimeEncoded(v): memcpy(tmp, buf + 10, len - 12) copies    *)
(* from 10 mboxBuf structs past the buffer header, not from its data:     *)
(* heap holds the bytes found there.  tmp is NUL-terminated and decoded.  *)
mboxBufDecodeMimeEncoded(v, heap) ==
    decodeMimeEncoded(SubSeq(heap, 1, Len(v) - 12) \o <<NUL>>)
=============================================================================
