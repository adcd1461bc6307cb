---------------------------- MODULE MCFsReplace ----------------------------
(* Two threads that replace the same file; they are interchangeable.        *)
EXTENDS FsReplace, TLC
Symmetry == Permutations(Callers)
=============================================================================
