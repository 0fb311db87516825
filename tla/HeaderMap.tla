------------------------------ MODULE HeaderMap ------------------------------
(***************************************************************************)
(* What the header tree promises its callers: a map from keys to values   *)
(* in which keys are told apart only by the comparator, an insertion of a *)
(* key that is already there is ignored (the first value stays), and a    *)
(* lookup returns the value of the matching key, or NULL.                 *)
(***************************************************************************)
EXTENDS TLC

CONSTANTS Keys, Values, KeyCmp(_, _), NoValue

VARIABLES
    map,           \* the <<key, value>> pairs present
    got,           \* what the last Get returned
    has            \* what the last Has returned

vars == <<map, got, has>>

Matching(k) == {p \in map : KeyCmp(k, p[1]) = 0}

Init ==
    /\ map = {}
    /\ got = NoValue
    /\ has = FALSE

Insert(k, v) ==
    /\ UNCHANGED <<got, has>>
    /\ map' = IF Matching(k) = {} THEN map \cup {<<k, v>>} ELSE map

Get(k) ==
    /\ UNCHANGED has
    /\ got' = IF Matching(k) = {} THEN NoValue
              ELSE (CHOOSE p \in Matching(k) : TRUE)[2]
    /\ UNCHANGED map

Has(k) ==
    /\ UNCHANGED got
    /\ has' = (Matching(k) # {})
    /\ UNCHANGED map

(* The map is dropped with everything in it. *)
Release ==
    /\ UNCHANGED <<got, has>>
    /\ map' = {}

Next ==
    \/ \E k \in Keys :
        \/ \E v \in Values : Insert(k, v)
        \/ Get(k)
        \/ Has(k)
    \/ Release

Spec == Init /\ [][Next]_vars
=============================================================================
