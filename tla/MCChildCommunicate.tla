------------------------- MODULE MCChildCommunicate -------------------------
(* Pipes of one byte, less than the input, so that both sides block; a      *)
(* buffer that the child can fill exactly and exceed, and an empty one.     *)
EXTENDS ChildCommunicate
BufferSizes == [o \in {"output", "errors"} |-> IF o = "output" THEN 2 ELSE 0]
=============================================================================
