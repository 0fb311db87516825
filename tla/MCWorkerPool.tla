---------------------------- MODULE MCWorkerPool ----------------------------
(* Instantiates WorkerPool for TLC.  Two rounds of jobs, as in mboxParse:  *)
(* one batch for mboxSetAllOffsets, a Wait, a second batch for            *)
(* mboxParseAllMessages, a second Wait.                                   *)
EXTENDS WorkerPool

MCRounds == <<3, 3>>
=============================================================================
