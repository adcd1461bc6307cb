--------------------------- MODULE MCChildProcess ---------------------------
(***************************************************************************)
(* Instances of ChildProcess for TLC.  Model values stand for handles,     *)
(* process identifiers and descriptors.  The specification treats all      *)
(* handles alike, and so all identifiers and all descriptors: the safety   *)
(* runs use that symmetry.                                                 *)
(***************************************************************************)
EXTENDS ChildProcess, TLC

Symmetry == Permutations(Children) \cup Permutations(Pids) \cup Permutations(Fds)

=============================================================================
