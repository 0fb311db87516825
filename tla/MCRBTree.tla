------------------------------ MODULE MCRBTree ------------------------------
(* Header names abstracted to one lower-case letter each ("a".."f"), and  *)
(* "c " (a name followed by more text) whose prefix "c" is another key:   *)
(* mboxBufCaseCmp takes them for the same key.                             *)
EXTENDS RBTree, MboxBuf

CONSTANTS v1, v2

MCValues == {v1, v2}

(* No property tells the two values apart. *)
ValueSymmetry == Permutations(MCValues)

MCKeys == {<<97>>, <<98>>, <<99>>, <<100>>, <<101>>, <<102>>, <<99, 32>>}
=============================================================================
