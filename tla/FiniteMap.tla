------------------------------ MODULE FiniteMap ------------------------------
(* What stdlib/hashmap.gloin promises of HashMap: a finite map from keys to  *)
(* values. A growth that fails leaves it as it was.                          *)
CONSTANTS Keys, Values

VARIABLES
    contents,   \* the map
    answer      \* what the last call returned

vars == <<contents, answer>>

Init == contents = [k \in {} |-> CHOOSE v \in Values : TRUE] /\ answer = <<"none">>

Insert(k, v) ==
    /\ contents' = [j \in DOMAIN contents \cup {k} |-> IF j = k THEN v ELSE contents[j]]
    /\ answer' = <<"inserted", k \notin DOMAIN contents>>

Remove(k) ==
    /\ contents' = [j \in DOMAIN contents \ {k} |-> contents[j]]
    /\ answer' = <<"removed", k \in DOMAIN contents>>

Get(k) ==
    /\ answer' = IF k \in DOMAIN contents THEN <<"value", contents[k]>> ELSE <<"absent">>
    /\ UNCHANGED contents

Clear ==
    /\ contents' = [k \in {} |-> CHOOSE v \in Values : TRUE]
    /\ answer' = <<"cleared">>

\* insert and reserve may run out of memory or of numbers.
Fail == answer' = <<"error">> /\ UNCHANGED contents

Reserve == answer' = <<"reserved">> /\ UNCHANGED contents

Next ==
    \/ \E k \in Keys : Remove(k) \/ Get(k) \/ \E v \in Values : Insert(k, v)
    \/ Clear \/ Fail \/ Reserve

Spec == Init /\ [][Next]_vars

=============================================================================
