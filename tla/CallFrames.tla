----------------------------- MODULE CallFrames -----------------------------
(***************************************************************************)
(* The call machinery of one Vm, after Vm.init has decided which functions *)
(* are pure: register frames on the slab (call_stack), on the integer      *)
(* stack (int_stack) or, when the slab is full, on the heap; the call      *)
(* depth; and the unwinding of both by a return or an error.               *)
(*                                                                         *)
(* What the code of a function does between its calls is arbitrary.        *)
(***************************************************************************)
EXTENDS Purity, Sequences

CONSTANTS
  Regs,           \* n_regs of each function
  SlabSlots,      \* CALL_STACK_SLOTS
  IntSlots,       \* INT_STACK_SLOTS
  MaxCallDepth,   \* the option --max-call-depth
  TaskCallDepth   \* what spawnEntry() passes to Vm.init instead

ASSUME SizesAssumption ==
  /\ Regs \in [Fns -> Nat]
  /\ SlabSlots \in Nat /\ IntSlots \in Nat
  /\ MaxCallDepth \in Nat /\ TaskCallDepth \in Nat

VARIABLES
  frames,  \* the register frames, the running function's last
  top,     \* call_stack.top
  itop,    \* int_stack.top
  depth,   \* call_depth
  limit,   \* max_call_depth
  status   \* what the Vm is doing

vars == <<calls, clean, pure, next, changed, walking,
          frames, top, itop, depth, limit, status>>

Frame == [fn : Fns, home : {"slab", "heap", "int"}, base : Nat]

TypeOK ==
  /\ PurityTypeOK
  /\ frames \in Seq(Frame)
  /\ top \in 0 .. SlabSlots
  /\ itop \in 0 .. IntSlots
  /\ depth \in Nat
  /\ limit \in {MaxCallDepth, TaskCallDepth}
  /\ status \in {"idle", "running", "raising", "returned", "failed"}

Init ==
  /\ PurityInit
  /\ frames = <<>>
  /\ top = 0
  /\ itop = 0
  /\ depth = 0
  /\ limit \in {MaxCallDepth, TaskCallDepth}   \* the main Vm or a task's
  /\ status = "idle"

Running == frames[Len(frames)]
EndOf(fr) == fr.base + Regs[fr.fn]

VmInit ==
  /\ Propagate
  /\ UNCHANGED <<frames, top, itop, depth, limit, status>>

-----------------------------------------------------------------------------
(* callFuncByIdxInt: the integer stack has no fallback.                    *)
IntFits(f) == itop + Regs[f] <= IntSlots

EnterInt(f) ==
  /\ IntFits(f)
  /\ frames' = Append(frames, [fn |-> f, home |-> "int", base |-> itop])
  /\ itop' = itop + Regs[f]
  /\ UNCHANGED top

(* callFuncByIdx: a full slab is no error, the frame goes to the heap.     *)
SlabFits(f) == top + Regs[f] <= SlabSlots

EnterValue(f) ==
  \/ /\ SlabFits(f)
     /\ frames' = Append(frames, [fn |-> f, home |-> "slab", base |-> top])
     /\ top' = top + Regs[f]
     /\ UNCHANGED itop
  \/ /\ ~SlabFits(f)
     /\ frames' = Append(frames, [fn |-> f, home |-> "heap", base |-> 0])
     /\ UNCHANGED <<top, itop>>

\* The value engine looks at the mark of f; the integer engine does not.
Enter(f, fromInt) == IF fromInt \/ f \in pure THEN EnterInt(f) ELSE EnterValue(f)

\* Why entering f may fail: no room, or an argument that is no integer.
MayNotEnter(f, fromInt) ==
  \/ fromInt /\ ~IntFits(f)
  \/ ~fromInt /\ f \in pure
  \/ ~fromInt /\ f \notin pure /\ ~SlabFits(f)

-----------------------------------------------------------------------------
(* run() or spawnEntry() calls a function; this call is not counted.        *)
CallRoot ==
  /\ ~walking /\ status = "idle"
  /\ \E f \in Fns :
       \/ Enter(f, FALSE) /\ status' = "running"
       \/ MayNotEnter(f, FALSE) /\ status' = "failed"
          /\ UNCHANGED <<frames, top, itop>>
  /\ UNCHANGED <<calls, clean, pure, next, changed, walking, depth, limit>>

\* Mutant: the depth is compared with `>`.
CallTooDeep ==
  /\ status = "running" /\ depth <= limit
  /\ \E f \in calls[Running.fn] : Enter(f, Running.home = "int")
  /\ depth' = depth + 1
  /\ UNCHANGED <<calls, clean, pure, next, changed, walking, limit, status>>

Call ==
  /\ status = "running" /\ depth < limit
  /\ \E f \in calls[Running.fn] : Enter(f, Running.home = "int")
  /\ depth' = depth + 1
  /\ UNCHANGED <<calls, clean, pure, next, changed, walking, limit, status>>

\* Mutant: an error on the way in leaves the call counted.
CallFailsCounted ==
  /\ status = "running"
  /\ \E f \in calls[Running.fn] :
       depth >= limit \/ MayNotEnter(f, Running.home = "int")
  /\ status' = "raising"
  /\ depth' = depth + 1
  /\ UNCHANGED <<calls, clean, pure, next, changed, walking,
                 frames, top, itop, limit>>

\* CallDepthExceeded, or an error of the callee before its code runs.
CallFails ==
  /\ status = "running"
  /\ \E f \in calls[Running.fn] :
       depth >= limit \/ MayNotEnter(f, Running.home = "int")
  /\ status' = "raising"
  /\ UNCHANGED <<calls, clean, pure, next, changed, walking,
                 frames, top, itop, depth, limit>>

\* Any other error of the running code.
Raise ==
  /\ status = "running"
  /\ status' = "raising"
  /\ UNCHANGED <<calls, clean, pure, next, changed, walking,
                 frames, top, itop, depth, limit>>

\* Mutant: a frame on the heap is popped from the slab as well.
LeaveAlwaysPops(end) ==
  /\ frames' = SubSeq(frames, 1, Len(frames) - 1)
  /\ top' = IF Running.home # "int" /\ top >= Regs[Running.fn]
              THEN top - Regs[Running.fn] ELSE top
  /\ itop' = IF Running.home = "int" THEN itop - Regs[Running.fn] ELSE itop
  /\ IF Len(frames) = 1
       THEN status' = end /\ UNCHANGED depth
       ELSE depth' = depth - 1 /\ UNCHANGED status
  /\ UNCHANGED <<calls, clean, pure, next, changed, walking, limit>>

(* The defers of the running function, then those of its caller; the root  *)
(* has no caller that counted it.                                          *)
Leave(end) ==
  /\ frames' = SubSeq(frames, 1, Len(frames) - 1)
  /\ top' = IF Running.home = "slab" THEN top - Regs[Running.fn] ELSE top
  /\ itop' = IF Running.home = "int" THEN itop - Regs[Running.fn] ELSE itop
  /\ IF Len(frames) = 1
       THEN status' = end /\ UNCHANGED depth
       ELSE depth' = depth - 1 /\ UNCHANGED status
  /\ UNCHANGED <<calls, clean, pure, next, changed, walking, limit>>

Return == status = "running" /\ Leave("returned")

\* Mutant: frames are popped on the return path only.
UnwindKeepsFrames ==
  /\ status = "raising"
  /\ frames' = SubSeq(frames, 1, Len(frames) - 1)
  /\ IF Len(frames) = 1
       THEN status' = "failed" /\ UNCHANGED depth
       ELSE depth' = depth - 1 /\ UNCHANGED status
  /\ UNCHANGED <<calls, clean, pure, next, changed, walking, top, itop, limit>>

Unwind == status = "raising" /\ Leave("failed")

Terminated == status \in {"returned", "failed"} /\ UNCHANGED vars

Next ==
  \/ VmInit \/ CallRoot \/ Call \/ CallFails \/ Raise \/ Return \/ Unwind
  \/ Terminated

Spec == Init /\ [][Next]_vars

FairSpec == Spec /\ WF_vars(VmInit)

-----------------------------------------------------------------------------
(* call_depth counts the calls that have not ended, on every way out of    *)
(* callFuncByIdx, and execCompiled never lets it pass the limit.           *)
DepthCountsFrames ==
  /\ depth = IF frames = <<>> THEN 0 ELSE Len(frames) - 1
  /\ depth <= limit

(* The registers of two unfinished calls never overlap, also when a small  *)
(* callee fits on the slab after a large caller went to the heap.          *)
FramesApart ==
  \A k \in 1 .. Len(frames) : frames[k].home # "heap" =>
    /\ EndOf(frames[k]) <= IF frames[k].home = "slab" THEN top ELSE itop
    /\ \A j \in 1 .. k - 1 :
         frames[j].home = frames[k].home => EndOf(frames[j]) <= frames[k].base

\* t is where the next frame of that home goes after the first k frames of s.
TopAfter(s, k, home, t) ==
  \/ t = 0 /\ \A i \in 1 .. k : s[i].home # home
  \/ \E i \in 1 .. k :
       /\ s[i].home = home /\ t = EndOf(s[i])
       /\ \A m \in i + 1 .. k : s[m].home # home

(* What makes a pop exact: every frame starts where the frame before it in *)
(* the same home ends, and the tops are where the last ones end.           *)
ChainInv ==
  /\ TopAfter(frames, Len(frames), "slab", top)
  /\ TopAfter(frames, Len(frames), "int", itop)
  /\ \A k \in 1 .. Len(frames) : frames[k].home # "heap" =>
       TopAfter(frames, k - 1, frames[k].home, frames[k].base)

\* Whichever way the root call ended, both stacks are empty again.
StacksRestored ==
  status \in {"returned", "failed"} => frames = <<>> /\ top = 0 /\ itop = 0

(* The integer engine never meets an instruction it lacks (NotPureInt),    *)
(* although it calls functions without looking at their mark.              *)
IntEngineRunsPureCode ==
  \A k \in 1 .. Len(frames) : frames[k].home = "int" => frames[k].fn \in pure

(* The inductive invariant.                                                *)
CallInv ==
  /\ TypeOK
  /\ PurityInv
  /\ frames # <<>> <=> status \in {"running", "raising"}
  /\ status # "idle" => ~walking
  /\ DepthCountsFrames
  /\ FramesApart
  /\ ChainInv
  /\ IntEngineRunsPureCode
=============================================================================
