---------------------------- MODULE MCCallFrames ----------------------------
(* Three functions with 1, 2 and 3 registers and every call graph between   *)
(* them.  The slab holds 4 registers and the integer stack 5: both run full *)
(* before the depth limit does, and a small callee fits after a large one.  *)
EXTENDS CallFrames

MCRegs == [f \in Fns |-> f + 1]
=============================================================================
