----------------------------- MODULE OwnedChild -----------------------------
(***************************************************************************)
(* What the Child handle of stdlib/process.gloin promises its holder.      *)
(*                                                                         *)
(* A handle holds one process from start to close.  The status it tells is *)
(* how the process really ended, is told once and never changes, and the   *)
(* handle is not released before the process has ended, its end is known   *)
(* and the operating system keeps nothing of it any more.                  *)
(***************************************************************************)
CONSTANTS Children, NotYet

Ends == {"exited", "terminated", "killed"}

VARIABLES
    handle,     \* "none", "open" or "closed"
    occupied,   \* the operating system still keeps the process for us
    outcome,    \* how the process ended
    told        \* what the holder was told

vars == <<handle, occupied, outcome, told>>

Init ==
    /\ handle = [c \in Children |-> "none"]
    /\ occupied = [c \in Children |-> FALSE]
    /\ outcome = [c \in Children |-> NotYet]
    /\ told = [c \in Children |-> NotYet]

Acquire(c) ==
    /\ handle[c] = "none"
    /\ handle' = [handle EXCEPT ![c] = "open"]
    /\ occupied' = [occupied EXCEPT ![c] = TRUE]
    /\ UNCHANGED <<outcome, told>>

Finish(c) ==
    /\ handle[c] = "open" /\ occupied[c] /\ outcome[c] = NotYet
    /\ \E e \in Ends : outcome' = [outcome EXCEPT ![c] = e]
    /\ UNCHANGED <<handle, occupied, told>>

\* A single child is given back as soon as its status is known.
Learn(c) ==
    /\ handle[c] = "open" /\ occupied[c]
    /\ outcome[c] # NotYet /\ told[c] = NotYet
    /\ told' = [told EXCEPT ![c] = outcome[c]]
    /\ \E kept \in BOOLEAN : occupied' = [occupied EXCEPT ![c] = kept]
    /\ UNCHANGED <<handle, outcome>>

\* A group leader is kept until its group has been signalled.
GiveBack(c) ==
    /\ handle[c] = "open" /\ occupied[c] /\ told[c] # NotYet
    /\ occupied' = [occupied EXCEPT ![c] = FALSE]
    /\ UNCHANGED <<handle, outcome, told>>

Release(c) ==
    /\ handle[c] = "open" /\ ~occupied[c]
    /\ handle' = [handle EXCEPT ![c] = "closed"]
    /\ UNCHANGED <<occupied, outcome, told>>

Next == \E c \in Children :
    Acquire(c) \/ Finish(c) \/ Learn(c) \/ GiveBack(c) \/ Release(c)

Spec == Init /\ [][Next]_vars

=============================================================================
