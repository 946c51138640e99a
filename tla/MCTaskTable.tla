---------------------------- MODULE MCTaskTable ----------------------------
(* Main and two tasks: a task that spawns, or two siblings, with room for a *)
(* handle to be passed on as an argument and as a result.                   *)
EXTENDS TaskTableInv
=============================================================================
