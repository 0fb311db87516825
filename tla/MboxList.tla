------------------------------- MODULE MboxList -------------------------------
(***************************************************************************)
(* The circular doubly linked list of src/src/mbox-list.c, at the level of *)
(* its pointers: a list is the mboxList struct (len, root) together with   *)
(* the next, prev and data fields of the nodes it has allocated.  root is  *)
(* the head, root->prev the tail.  The module has no variables: a client   *)
(* keeps a list in one of its own and applies these operators to it, each *)
(* call running under the lock the client holds.                          *)
(***************************************************************************)
LOCAL INSTANCE Naturals
LOCAL INSTANCE Sequences
LOCAL INSTANCE FiniteSets

CONSTANTS
    NodeIds,       \* the addresses malloc may return for an mboxLNode
    Nil            \* NULL

ASSUME Nil \notin NodeIds

(* The nodes of a list: free nodes hold NULL in every field, so a freed   *)
(* node leaves no trace (what free leaves in memory is never read).       *)
LNodes(Data) ==
    [len : Nat, root : NodeIds \cup {Nil}, live : SUBSET NodeIds,
     next : [NodeIds -> NodeIds \cup {Nil}], prev : [NodeIds -> NodeIds \cup {Nil}],
     data : [NodeIds -> Data \cup {Nil}]]

(* mboxListNew: len 0, root NULL, no node. *)
mboxListNew ==
    [len |-> 0, root |-> Nil, live |-> {},
     next |-> [n \in NodeIds |-> Nil], prev |-> [n \in NodeIds |-> Nil],
     data |-> [n \in NodeIds |-> Nil]]

(* The address malloc returns in mboxLNodeNew.  Addresses are             *)
(* interchangeable, so the lowest free one stands for any.                *)
FreeNode(l) == CHOOSE n \in NodeIds \ l.live : \A m \in NodeIds \ l.live : n <= m

(* mboxLNodeNew: a node holding data, with next and prev NULL. *)
mboxLNodeNew(l, n, d) ==
    [l EXCEPT !.live = @ \cup {n}, !.data[n] = d, !.next[n] = Nil, !.prev[n] = Nil]

(* mboxListAddTail: the new node becomes the root of an empty list, linked *)
(* to itself; otherwise it goes between the tail (root->prev) and the head *)
(* (root), in the order of the four assignments of the code.              *)
mboxListAddTail(l, d) ==
    LET n == FreeNode(l)
        m == mboxLNodeNew(l, n, d)
        tail == l.prev[l.root]
        head == l.root
    IN IF l.root = Nil
       THEN [m EXCEPT !.root = n, !.next[n] = n, !.prev[n] = n, !.len = @ + 1]
       ELSE [m EXCEPT !.next = [@ EXCEPT ![n] = head, ![tail] = n],
                      !.prev = [@ EXCEPT ![n] = tail, ![head] = n],
                      !.len = @ + 1]

(* free(head): the node returns to malloc. *)
FreeLNode(l, n) ==
    [l EXCEPT !.live = @ \ {n}, !.data[n] = Nil, !.next[n] = Nil, !.prev[n] = Nil]

(* Mutant of mboxListRemoveHead: the new root keeps the freed head as its  *)
(* prev (l->root->prev = tail is missing).                                 *)
mboxListRemoveHeadNoPrev(l) ==
    IF l.len = 0 \/ l.root = Nil THEN <<l, Nil>>
    ELSE LET head == l.root
             tail == l.prev[l.root]
             root == l.next[l.root]
             relinked ==
                 IF l.len = 1 THEN [l EXCEPT !.root = Nil]
                 ELSE [l EXCEPT !.root = root, !.next[tail] = root]
         IN <<[FreeLNode(relinked, head) EXCEPT !.len = @ - 1], l.data[head]>>

(* Mutant of mboxListRemoveHead: the tail is unlinked and returned, as     *)
(* mboxListRemoveTail does.                                                *)
mboxListRemoveHeadTakesTail(l) ==
    IF l.len = 0 \/ l.root = Nil THEN <<l, Nil>>
    ELSE LET tail == l.prev[l.root]
             relinked ==
                 IF l.len = 1 THEN [l EXCEPT !.root = Nil]
                 ELSE [l EXCEPT !.next[l.prev[tail]] = l.root, !.prev[l.root] = l.prev[tail]]
         IN <<[FreeLNode(relinked, tail) EXCEPT !.len = @ - 1], l.data[tail]>>

(* mboxListRemoveHead: <<the list, the value returned>>.  NULL when len is *)
(* 0 or root NULL; a single node empties the list; otherwise root moves to *)
(* root->next and the tail and the new root are linked to each other.     *)
(* Then the old head is freed and len decremented.                        *)
mboxListRemoveHead(l) ==
    IF l.len = 0 \/ l.root = Nil THEN <<l, Nil>>
    ELSE LET head == l.root
             tail == l.prev[l.root]
             root == l.next[l.root]
             relinked ==
                 IF l.len = 1 THEN [l EXCEPT !.root = Nil]
                 ELSE [l EXCEPT !.root = root, !.next[tail] = root, !.prev[root] = tail]
         IN <<[FreeLNode(relinked, head) EXCEPT !.len = @ - 1], l.data[head]>>

(* mboxListRelease: RemoveHead until len is 0 (freedata is NULL for the   *)
(* lists modelled, so the data stay); the struct itself is then freed.    *)
(* The result is the list as the loop leaves it: its live field holds     *)
(* the nodes that stay allocated.                                         *)
RECURSIVE mboxListRelease(_)
mboxListRelease(l) ==
    IF l.len > 0 THEN mboxListRelease(mboxListRemoveHead(l)[1]) ELSE l

-----------------------------------------------------------------------------
(* The node i - 1 steps after root along next. *)
RECURSIVE NodeAt(_, _)
NodeAt(l, i) == IF i = 1 THEN l.root ELSE l.next[NodeAt(l, i - 1)]

(* The values of the list, head first: what the links stand for. *)
Items(l) == [i \in 1..l.len |-> l.data[NodeAt(l, i)]]

(* The list is well linked: len counts the allocated nodes, root is NULL  *)
(* exactly when it is empty, the walk along next from root meets every   *)
(* node once and comes back to root after len steps, and prev undoes next.*)
WellLinked(l) ==
    /\ l.len = Cardinality(l.live)
    /\ (l.root = Nil) = (l.len = 0)
    /\ l.len > 0 =>
          /\ {NodeAt(l, i) : i \in 1..l.len} = l.live
          /\ NodeAt(l, l.len + 1) = l.root
          /\ \A n \in l.live : l.next[n] \in l.live /\ l.prev[l.next[n]] = n
=============================================================================
