---------------------------- MODULE MCChildLaunch ----------------------------
(* The numbers 0 to 12 hold three standard streams, eight pipe ends, a file *)
(* of the host and the second number a move needs; smaller limits are       *)
(* initial states, so that every pipe and every move runs out of numbers.   *)
EXTENDS ChildLaunch
=============================================================================
