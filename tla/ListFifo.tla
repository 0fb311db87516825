------------------------------- MODULE ListFifo -------------------------------
(***************************************************************************)
(* What an mboxList used through mboxListAddTail and mboxListRemoveHead     *)
(* promises its callers: a FIFO of values.  Index and ListSort model their  *)
(* lists as such sequences; WorkerPool shows its pointer-level job list    *)
(* implements this specification.                                           *)
(***************************************************************************)
EXTENDS Sequences

CONSTANT Values

VARIABLE queue     \* the values in the list, head first

Init == queue = <<>>

(* A value joins at the tail. *)
AddTail(v) == queue' = Append(queue, v)

(* The head leaves; nothing else changes. *)
RemoveHead == queue # <<>> /\ queue' = Tail(queue)

Next == (\E v \in Values : AddTail(v)) \/ RemoveHead

Spec == Init /\ [][Next]_queue
=============================================================================
