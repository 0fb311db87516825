------------------------------- MODULE RBTree -------------------------------
(***************************************************************************)
(* mboxRBTree of src/src/mbox-redblacktree.c: the red-black tree that     *)
(* holds the headers of a message (one tree per message, built by         *)
(* mboxParseEmailHeaders and read by mboxHeadersGet).                     *)
(*                                                                         *)
(* Nodes are the numbers 1..MaxSize; node z is the z-th node rbNodeNew    *)
(* allocates, as nodes are only freed with the whole tree.  0 is the one  *)
(* static RB_SENTINAL that every tree of the process shares as its leaf,  *)
(* and -1 is NULL.  A tree is a record of the fields of its nodes.         *)
(* mboxRBTreeRelease frees them all; mboxRBTreeDelete is not modelled    *)
(* (see README).                                                          *)
(***************************************************************************)
EXTENDS Integers, FiniteSets, Sequences, TLC

CONSTANTS
    Keys,          \* the keys callers insert and look up
    Values,        \* the values they insert
    KeyCmp(_, _),  \* t->keycmp
    NoValue,       \* a NULL key or value
    MaxSize        \* the most nodes a tree gets

SENTINAL == 0
NULL == -1
DUP == -2          \* the "equal -> no dupes" return of the descent
NodeIds == 1..MaxSize
Slots == {SENTINAL} \cup NodeIds
Ptr == Slots \cup {NULL}
Dirs == {"left", "right"}
Opp(d) == IF d = "left" THEN "right" ELSE "left"

Tree ==
    [root : Slots, size : 0..MaxSize,
     color : [Slots -> {"red", "black"}], child : [Slots -> [Dirs -> Ptr]],
     parent : [Slots -> Ptr], key : [Slots -> Keys \cup {NoValue}],
     value : [Slots -> Values \cup {NoValue}]]

Child(t, n, d) == t.child[n][d]
SetChild(t, n, d, v) == [t EXCEPT !.child[n][d] = v]
SetParent(t, n, p) == [t EXCEPT !.parent[n] = p]
SetColor(t, n, c) == [t EXCEPT !.color[n] = c]

(* rbTreeNew: an empty tree whose root is the sentinel, and the sentinel  *)
(* (re)set to a black leaf with no children, key or value.                *)
rbTreeNew ==
    [root |-> SENTINAL, size |-> 0,
     color |-> [n \in Slots |-> "black"],
     child |-> [n \in Slots |-> [d \in Dirs |-> NULL]],
     parent |-> [n \in Slots |-> NULL],
     key |-> [n \in Slots |-> NoValue], value |-> [n \in Slots |-> NoValue]]

(* rbNodeNew: a red node with sentinel children and no parent. *)
rbNodeNew(t, z, k, v) ==
    [t EXCEPT !.key[z] = k, !.value[z] = v, !.color[z] = "red",
              !.child[z] = [d \in Dirs |-> SENTINAL], !.parent[z] = NULL]

(* The link from u's parent p (or t->root when p is NULL) to u now leads *)
(* to v, as at the end of both rotations.                                 *)
ReplaceChild(t, p, u, v) ==
    IF p = NULL THEN [t EXCEPT !.root = v]
    ELSE IF u = Child(t, p, "left") THEN SetChild(t, p, "left", v)
    ELSE SetChild(t, p, "right", v)

(* Mutant of Rotate: y->left->parent = x written even to the sentinel. *)
RotateUnguarded(t, x, d) ==
    LET y  == Child(t, x, Opp(d))
        b  == Child(t, y, d)
        t1 == SetParent(SetChild(t, x, Opp(d), b), b, x)
        t2 == ReplaceChild(SetParent(t1, y, t.parent[x]), t.parent[x], x, y)
    IN SetParent(SetChild(t2, y, d, x), x, y)

(* rbLeftRotate (d = "left") and rbRightRotate (d = "right"): x's child y *)
(* on the other side takes x's place; y's d-child b becomes x's child on  *)
(* that side (its parent is set unless b is the sentinel); x becomes y's  *)
(* d-child.                                                                *)
Rotate(t, x, d) ==
    LET y  == Child(t, x, Opp(d))
        b  == Child(t, y, d)
        t1 == SetChild(t, x, Opp(d), b)
        t2 == IF b # SENTINAL THEN SetParent(t1, b, x) ELSE t1
        t3 == ReplaceChild(SetParent(t2, y, t.parent[x]), t.parent[x], x, y)
    IN SetParent(SetChild(t3, y, d, x), x, y)

(* t->root->color = RB_BLACK, the last line of rbInsertFixup. *)
BlackRoot(t) == SetColor(t, t.root, "black")

(* Mutant of InsertFixup: the red-uncle case leaves the grandparent black. *)
RECURSIVE InsertFixupNoGrandRed(_, _)
InsertFixupNoGrandRed(t, z) ==
    IF t.color[t.parent[z]] # "red" THEN BlackRoot(t)
    ELSE LET zp == t.parent[z]
             g  == t.parent[zp]
             d  == IF zp = Child(t, g, "left") THEN "left" ELSE "right"
             y  == Child(t, g, Opp(d))
         IN IF t.color[y] = "red"
            THEN LET t1 == SetColor(SetColor(t, y, "black"), zp, "black")
                 IN IF g = t1.root THEN BlackRoot(t1) ELSE InsertFixupNoGrandRed(t1, g)
            ELSE LET z1 == IF z = Child(t, zp, Opp(d)) THEN zp ELSE z
                     t1 == IF z = Child(t, zp, Opp(d)) THEN Rotate(t, zp, d) ELSE t
                     t2 == SetColor(t1, t1.parent[z1], "black")
                     t3 == SetColor(t2, t2.parent[t2.parent[z1]], "red")
                     t4 == Rotate(t3, t3.parent[t3.parent[z1]], Opp(d))
                 IN IF z1 = t4.root THEN BlackRoot(t4) ELSE InsertFixupNoGrandRed(t4, z1)

(* rbInsertFixup, both mirrored halves: d is the side of z's parent under *)
(* the grandparent g and y the uncle.  A red uncle: recolour and go on    *)
(* from g.  Otherwise rotate z's parent (if z is an inner child), then    *)
(* recolour and rotate g the other way.  The loop runs while z's parent   *)
(* is red and breaks when z is the root.                                  *)
RECURSIVE InsertFixup(_, _)
InsertFixup(t, z) ==
    IF t.color[t.parent[z]] # "red" THEN BlackRoot(t)
    ELSE LET zp == t.parent[z]
             g  == t.parent[zp]
             d  == IF zp = Child(t, g, "left") THEN "left" ELSE "right"
             y  == Child(t, g, Opp(d))
         IN IF t.color[y] = "red"
            THEN LET t1 == SetColor(SetColor(SetColor(t, y, "black"), zp, "black"), g, "red")
                 IN IF g = t1.root THEN BlackRoot(t1) ELSE InsertFixup(t1, g)
            ELSE LET z1 == IF z = Child(t, zp, Opp(d)) THEN zp ELSE z
                     t1 == IF z = Child(t, zp, Opp(d)) THEN Rotate(t, zp, d) ELSE t
                     t2 == SetColor(t1, t1.parent[z1], "black")
                     t3 == SetColor(t2, t2.parent[t2.parent[z1]], "red")
                     t4 == Rotate(t3, t3.parent[t3.parent[z1]], Opp(d))
                 IN IF z1 = t4.root THEN BlackRoot(t4) ELSE InsertFixup(t4, z1)

(* The search loop of mboxRBTreeInsert: y is the last node visited, or   *)
(* DUP when a node's key compares equal.                                  *)
RECURSIVE Descend(_, _, _, _)
Descend(t, k, x, y) ==
    IF x = SENTINAL THEN y
    ELSE LET c == KeyCmp(k, t.key[x]) IN
         IF c < 0 THEN Descend(t, k, Child(t, x, "left"), x)
         ELSE IF c > 0 THEN Descend(t, k, Child(t, x, "right"), x)
         ELSE DUP

(* Mutant of Insert: z->parent = y left out. *)
InsertNoParent(t, k, v) ==
    LET y  == Descend(t, k, t.root, NULL)
        z  == t.size + 1
        t1 == rbNodeNew(t, z, k, v)
        t2 == IF y = NULL THEN [t1 EXCEPT !.root = z]
              ELSE IF KeyCmp(k, t.key[y]) < 0 THEN SetChild(t1, y, "left", z)
              ELSE SetChild(t1, y, "right", z)
        t3 == [t2 EXCEPT !.size = @ + 1]
    IN IF y = DUP THEN t
       ELSE IF y = NULL THEN SetColor(t3, z, "black")
       ELSE IF t3.parent[y] = NULL THEN t3
       ELSE InsertFixup(t3, z)

(* Mutant of Insert: the new node is hung on the side given by comparing  *)
(* the arguments the other way round.                                     *)
InsertSidesSwapped(t, k, v) ==
    LET y  == Descend(t, k, t.root, NULL)
        z  == t.size + 1
        t1 == SetParent(rbNodeNew(t, z, k, v), z, y)
        t2 == IF y = NULL THEN [t1 EXCEPT !.root = z]
              ELSE IF KeyCmp(t.key[y], k) < 0 THEN SetChild(t1, y, "left", z)
              ELSE SetChild(t1, y, "right", z)
        t3 == [t2 EXCEPT !.size = @ + 1]
    IN IF y = DUP THEN t
       ELSE IF y = NULL THEN SetColor(t3, z, "black")
       ELSE IF t3.parent[y] = NULL THEN t3
       ELSE InsertFixup(t3, z)

(* mboxRBTreeInsert: nothing for a key that compares equal to one in the *)
(* tree; else a new red node under y on the side keycmp(z->key, y->key)  *)
(* gives, size + 1, and: a root is made black, a child of the root is    *)
(* left as it is, anything deeper goes through rbInsertFixup.            *)
Insert(t, k, v) ==
    LET y  == Descend(t, k, t.root, NULL)
        z  == t.size + 1
        t1 == SetParent(rbNodeNew(t, z, k, v), z, y)
        t2 == IF y = NULL THEN [t1 EXCEPT !.root = z]
              ELSE IF KeyCmp(k, t.key[y]) < 0 THEN SetChild(t1, y, "left", z)
              ELSE SetChild(t1, y, "right", z)
        t3 == [t2 EXCEPT !.size = @ + 1]
    IN IF y = DUP THEN t
       ELSE IF y = NULL THEN SetColor(t3, z, "black")
       ELSE IF t3.parent[y] = NULL THEN t3
       ELSE InsertFixup(t3, z)

(* Mutant of rbNodeFind: the two directions swapped. *)
RECURSIVE rbNodeFindSwapped(_, _, _)
rbNodeFindSwapped(t, n, k) ==
    IF n = NULL \/ n = SENTINAL THEN NULL
    ELSE LET c == KeyCmp(k, t.key[n]) IN
         IF c = 0 THEN n
         ELSE IF c > 0 THEN rbNodeFindSwapped(t, Child(t, n, "left"), k)
         ELSE rbNodeFindSwapped(t, Child(t, n, "right"), k)

(* rbNodeFind: walk down from n until a key compares equal (that node) or *)
(* the walk leaves the tree (NULL).                                        *)
RECURSIVE rbNodeFind(_, _, _)
rbNodeFind(t, n, k) ==
    IF n = NULL \/ n = SENTINAL THEN NULL
    ELSE LET c == KeyCmp(k, t.key[n]) IN
         IF c = 0 THEN n
         ELSE IF c < 0 THEN rbNodeFind(t, Child(t, n, "left"), k)
         ELSE rbNodeFind(t, Child(t, n, "right"), k)

(* Mutant of Get: the node's key returned instead of its value. *)
GetReturnsKey(t, k) ==
    LET n == rbNodeFind(t, t.root, k) IN
    IF n # NULL /\ n # SENTINAL THEN t.key[n] ELSE NoValue

(* mboxRBTreeGet *)
Get(t, k) ==
    LET n == rbNodeFind(t, t.root, k) IN
    IF n # NULL /\ n # SENTINAL THEN t.value[n] ELSE NoValue

(* mboxRBTreeHas *)
Has(t, k) == rbNodeFind(t, t.root, k) # NULL

(* rbForEachHelper: the nodes of the subtree at n in order. *)
RECURSIVE InOrder(_, _)
InOrder(t, n) ==
    IF n = NULL \/ n = SENTINAL THEN <<>>
    ELSE InOrder(t, Child(t, n, "left")) \o <<n>> \o InOrder(t, Child(t, n, "right"))

(* Mutant of rbNodeFree: the right subtree is not visited. *)
RECURSIVE rbNodeFreeLeftOnly(_, _)
rbNodeFreeLeftOnly(t, n) ==
    IF n = NULL \/ n = SENTINAL THEN {}
    ELSE rbNodeFreeLeftOnly(t, Child(t, n, "left")) \cup {n}

(* rbNodeRelease: the node freed, with its key and value buffers. *)
rbNodeRelease(n) == IF n = NULL \/ n = SENTINAL THEN {} ELSE {n}

(* rbNodeFree: the nodes freed by the walk from n (left subtree, right    *)
(* subtree, then n through rbNodeRelease); NULL and the sentinel are      *)
(* skipped.                                                                *)
RECURSIVE rbNodeFree(_, _)
rbNodeFree(t, n) ==
    IF n = NULL \/ n = SENTINAL THEN {}
    ELSE rbNodeFree(t, Child(t, n, "left")) \cup rbNodeFree(t, Child(t, n, "right")) \cup rbNodeRelease(n)

(* mboxRBTreeClear: the nodes it frees; nothing when size is 0. *)
mboxRBTreeClear(t) == IF t.size # 0 THEN rbNodeFree(t, t.root) ELSE {}

-----------------------------------------------------------------------------
VARIABLES
    tree,          \* the mboxRBTree and the nodes it reaches
    got,           \* what the last mboxRBTreeGet returned
    has,           \* what the last mboxRBTreeHas returned
    leaked         \* nodes the last mboxRBTreeRelease left allocated

vars == <<tree, got, has, leaked>>

Init ==
    /\ tree = rbTreeNew
    /\ got = NoValue
    /\ has = FALSE
    /\ leaked = {}

mboxRBTreeInsert(k, v) ==
    /\ tree.size < MaxSize
    /\ tree' = Insert(tree, k, v)
    /\ UNCHANGED <<got, has, leaked>>

mboxRBTreeGet(k) ==
    /\ got' = Get(tree, k)
    /\ UNCHANGED <<tree, has, leaked>>

mboxRBTreeHas(k) ==
    /\ has' = Has(tree, k)
    /\ UNCHANGED <<tree, got, leaked>>

(* mboxRBTreeRelease, called by mboxMsgLiteFromBuffer once it has copied *)
(* the fields it reads: mboxRBTreeClear frees nodes (with their keys and  *)
(* values), sets size 0 and root to the sentinel, and the tree is freed.  *)
(* The next message's mboxParseEmailHeaders starts from rbTreeNew, so     *)
(* nodes are numbered from 1 again.                                        *)
mboxRBTreeRelease ==
    /\ leaked' = (1..tree.size) \ mboxRBTreeClear(tree)
    /\ tree' = rbTreeNew
    /\ UNCHANGED <<got, has>>

Next ==
    \/ \E k \in Keys :
        \/ \E v \in Values : mboxRBTreeInsert(k, v)
        \/ mboxRBTreeGet(k)
        \/ mboxRBTreeHas(k)
    \/ mboxRBTreeRelease

Spec == Init /\ [][Next]_vars

-----------------------------------------------------------------------------
Nodes == 1..tree.size
Keyed(n) == tree.key[n]

TypeOK ==
    /\ tree \in Tree
    /\ got \in Values \cup {NoValue}
    /\ has \in BOOLEAN
    /\ leaked \subseteq NodeIds

(* The static RB_SENTINAL, shared by the trees that parse workers build   *)
(* at the same time, is only ever read by insertion: the rotations guard  *)
(* the one write that could reach it (y->left->parent = x), so no thread  *)
(* writes a field another thread's tree reads.                            *)
SentinelReadOnly ==
    /\ tree.color[SENTINAL] = "black"
    /\ tree.parent[SENTINAL] = NULL
    /\ tree.child[SENTINAL] = [d \in Dirs |-> NULL]

(* After any sequence of insertions the pointers form one tree: the nodes *)
(* reachable from the root are exactly the size nodes allocated, each    *)
(* once, every child's parent pointer leads back to its parent, and the  *)
(* root has no parent; the rotations rewrite up to six pointers each.    *)
Linked ==
    LET order == InOrder(tree, tree.root) IN
    /\ Len(order) = tree.size
    /\ {order[i] : i \in 1..Len(order)} = Nodes
    /\ tree.root # SENTINAL => tree.parent[tree.root] = NULL
    /\ \A n \in Nodes, d \in Dirs :
           Child(tree, n, d) # SENTINAL => tree.parent[Child(tree, n, d)] = n

(* The red-black rules hold after every insertion: the root is black, no *)
(* red node has a red child, and every path from a node down to the       *)
(* sentinel passes the same number of black nodes.                        *)
RECURSIVE BlackHeight(_)
BlackHeight(n) ==
    IF n = SENTINAL THEN 1
    ELSE LET l == BlackHeight(Child(tree, n, "left"))
             r == BlackHeight(Child(tree, n, "right"))
         IN IF l = r /\ l > 0 THEN l + (IF tree.color[n] = "black" THEN 1 ELSE 0) ELSE 0

RedBlack ==
    /\ tree.color[tree.root] = "black"
    /\ \A n \in Nodes, d \in Dirs :
           tree.color[n] = "red" => tree.color[Child(tree, n, d)] = "black"
    /\ BlackHeight(tree.root) > 0

(* The in-order walk of mboxRBTreeForEach visits the keys in strictly    *)
(* increasing keycmp order: every insertion and rotation keeps the search *)
(* order that Get and Has rely on.                                        *)
SearchOrder ==
    LET order == InOrder(tree, tree.root) IN
    \A i \in 1..Len(order) - 1 : KeyCmp(Keyed(order[i]), Keyed(order[i + 1])) < 0

(* mboxRBTreeRelease frees every node the insertions allocated, however  *)
(* the rotations rearranged them: the walk from the root through         *)
(* rbNodeFree reaches all of them, and the size guard of mboxRBTreeClear  *)
(* skips only the empty tree, so no node (nor its key and value buffers)  *)
(* outlives the message.                                                   *)
NoNodeLeak == leaked = {}

(* The tree implements the header map: read through the refinement       *)
(* mapping below, every insertion keeps the first value of a key and      *)
(* every Get and Has answers as the map does.                              *)
AbsMap == {<<Keyed(n), tree.value[n]>> : n \in Nodes}

HM == INSTANCE HeaderMap WITH map <- AbsMap

ImplementsHeaderMap == HM!Spec
=============================================================================
