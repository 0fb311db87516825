---------------------------- MODULE MCHeaderParse ----------------------------
EXTENDS HeaderParse

(* "From", "Subject", "Date" and one name no field reads ("X-..."). *)
MCNames == {F, S, D, 120}

(* Two values, "a" and "b". *)
MCVals == {97, 98}

(* What the MIME decoder finds past the mboxBuf struct: a NUL or "a". *)
MCHeap == {0, 97}
=============================================================================
