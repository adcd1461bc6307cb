----------------------------- MODULE MCSemaFlow -----------------------------
(* Instances: bodies with one binding, of each kind; longer ones with a      *)
(* mutable result and two constructs; short ones with two bindings; and      *)
(* bodies with deferred calls.                                               *)
EXTENDS SemaFlow, TLC
CONSTANTS x, y, a1, a2

Types == [result : BOOLEAN, mutable : BOOLEAN]
Every == {"block", "if", "while", "for", "switch"}
Changing == [result |-> TRUE, mutable |-> TRUE]

Alone == {[kind |-> x :> k, constructs |-> Every, tokens |-> 6] : k \in Types}
Reassigned == {[kind |-> x :> Changing, constructs |-> {"if", "while"}, tokens |-> 8]}
Pair == {[kind |-> (x :> Changing @@ y :> k), constructs |-> Every, tokens |-> 5] :
            k \in {Changing, [result |-> FALSE, mutable |-> FALSE]}}
Deferring == {[kind |-> x :> [result |-> FALSE, mutable |-> TRUE],
               constructs |-> {"if", "for", "switch", "defer"}, tokens |-> 6]}
Several == Alone \cup Reassigned \cup Pair \cup Deferring

=============================================================================
