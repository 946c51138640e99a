----------------------------- MODULE WhileLoop -----------------------------
(***************************************************************************)
(* What a while statement promises: the body runs as long as the           *)
(* comparison holds, a comparison or an instruction that meets the wrong   *)
(* kind of value ends the program, and only the body changes registers.    *)
(* One step may take several passes, every one of them after a comparison  *)
(* that held.                                                              *)
(***************************************************************************)
EXTENDS LoopCode

VARIABLES
  loop,   \* the loop that runs
  slots,  \* the registers
  end     \* "running", "left" or "failed"

vars == <<loop, slots, end>>

Init ==
  /\ loop \in Loops
  /\ slots \in Slots
  /\ end = "running"

Iterate ==
  /\ end = "running"
  /\ \E n \in 1 .. 4 :
       /\ \A k \in 0 .. n - 1 :
            LET f == Passes(loop, slots, k)
            IN  f # Failed /\ Comparable(loop, f) /\ Continues(loop, f)
       /\ slots' = Passes(loop, slots, n)
       /\ slots' # Failed
  /\ UNCHANGED <<loop, end>>

Leave ==
  /\ end = "running"
  /\ Comparable(loop, slots) /\ ~Continues(loop, slots)
  /\ end' = "left"
  /\ UNCHANGED <<loop, slots>>

Fail ==
  /\ end = "running"
  /\ \/ ~Comparable(loop, slots)
     \/ /\ Comparable(loop, slots) /\ Continues(loop, slots)
        /\ Pass(loop, slots) = Failed
  /\ end' = "failed"
  /\ UNCHANGED <<loop, slots>>

Next == Iterate \/ Leave \/ Fail

Spec == Init /\ [][Next]_vars
=============================================================================
