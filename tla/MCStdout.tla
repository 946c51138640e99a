------------------------------ MODULE MCStdout ------------------------------
(* A buffer of three bytes, texts of up to four, seven bytes in all.       *)
EXTENDS Stdout
CONSTANTS main, task
MCTasks == {main, task}
=============================================================================
