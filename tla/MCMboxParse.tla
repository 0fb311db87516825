----------------------------- MODULE MCMboxParse -----------------------------
(* Model-checking instance of MboxParse. *)
EXTENDS MboxParse
=============================================================================
