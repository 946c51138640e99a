----------------------------- MODULE SimdLoop ------------------------------
(***************************************************************************)
(* How the Rust virtual machine runs a while loop of plain arithmetic.     *)
(* The compiler replaces it by one SimdLoop instruction, which copies the  *)
(* registers to a frame of words, runs the body ahead on four copies, and  *)
(* then, while all four would still continue, moves them by four passes at *)
(* a time: it adds to every register what the first four passes added.     *)
(* The rest is run pass by pass and the frame becomes the registers.       *)
(*                                                                         *)
(* Adding the same amount again is what the body does only if every pass   *)
(* changes every register by the same amount; the compiler does not look.  *)
(* With Careful the loops are those where it is so.                        *)
(*                                                                         *)
(* The condition's own register is the compiler's scratch register, which  *)
(* nothing reads after the loop: it is left out.  No loop that is replaced *)
(* divides by -1: of WordMin that is a panic, ahead of the passes too.     *)
(***************************************************************************)
EXTENDS LoopCode

CONSTANTS
  Start,   \* what registers may hold at the beginning
  Careful  \* only loops that the fast forward is meant for

ASSUME SimdLoopAssumption == Start \subseteq Word \cup {Other} /\ Careful \in BOOLEAN

VARIABLES
  loop,   \* the while loop of the program
  unit,   \* "vector" (avx2 or neon) or "scalar", what the processor has
  slots,  \* the registers of exec_func
  entry,  \* the registers when the loop was reached
  phase,  \* where the machine is
  limit,  \* the limit, read once
  lanes,  \* f0 .. f3: the frames of exec_simd_loop
  delta   \* what four passes add to a frame

vars == <<loop, unit, slots, entry, phase, limit, lanes, delta>>

Lanes == 0 .. 3
Zero == [r \in Regs |-> 0]

-----------------------------------------------------------------------------
BodyOps(l) == {l.body[i] : i \in DOMAIN l.body}
Written(l) == {i.dst : i \in BodyOps(l)}
RegsOf(x) == IF x.lit THEN {} ELSE {x.n}
Mentioned(l) ==
  Written(l) \cup RegsOf(l.var) \cup RegsOf(l.limit)
    \cup UNION {RegsOf(i.a) \cup RegsOf(i.b) : i \in BodyOps(l)}

(* rewrite_simd_loops: arithmetic, moves and constants only, and a         *)
(* register on the left of the comparison.                                 *)
Rewritten(l) ==
  /\ \A i \in BodyOps(l) : i.op \in Arithmetic \cup {"move"}
  /\ ~l.var.lit

(* An instruction that changes its register by the same amount in every    *)
(* pass: the amount is a constant or a register the body does not write.   *)
Accumulates(l, i) ==
  /\ i.op \in {"add", "sub"}
  /\ i.a = Reg(i.dst)
  /\ RegsOf(i.b) \cap Written(l) = {}

(* The loops that SimdLoop is right for.                                   *)
MeantFor(l, s, u) ==
  \/ ~Rewritten(l)
  \/ Operand(s, l.limit) = Other
  \/ /\ \A r \in Mentioned(l) : s[r] # Other
     /\ RegsOf(l.limit) \cap Written(l) = {}
     /\ \A i \in BodyOps(l) :
          /\ i.op \notin {"lt", "gt"}
          /\ i.op = "div" => i.b.lit /\ i.b.n \notin {-1, 0}
          /\ u = "scalar" \/ Accumulates(l, i)

Init ==
  /\ loop \in Loops
  /\ unit \in {"vector", "scalar"}
  /\ slots \in [Regs -> Start]
  /\ Careful => MeantFor(loop, slots, unit)
  /\ entry = slots
  /\ phase = "start"
  /\ limit = 0
  /\ lanes = [k \in Lanes |-> Zero]
  /\ delta = Zero

-----------------------------------------------------------------------------
(* eval_simd_op for each instruction of the body: no tags, no errors.      *)
EvalSimdOp(f, i) ==
  LET a == Operand(f, i.a)
  IN  [f EXCEPT ![i.dst] =
         IF i.op = "move" THEN a ELSE Arith(i.op, a, Operand(f, i.b))]

Once(l, f) ==
  LET after[k \in 0 .. Len(l.body)] ==
        IF k = 0 THEN f ELSE EvalSimdOp(after[k - 1], l.body[k])
  IN  after[Len(l.body)]

(* The frame so many passes ahead of f.                                    *)
Ahead(l, f, n) ==
  LET after[k \in 0 .. n] == IF k = 0 THEN f ELSE Once(l, after[k - 1])
  IN  after[n]

(* The frame of exec_simd_loop: a slot that is no integer counts as 0.     *)
Ints(s) == [r \in Regs |-> IF s[r] = Other THEN 0 ELSE s[r]]

Difference(g, f) == [r \in Regs |-> Wrap(g[r] - f[r])]
Plus(f, d) == [r \in Regs |-> Wrap(f[r] + d[r])]

(* The check of all_active and of the scalar loop, on one frame.           *)
Active(f) == Compare(loop.cmp, f[loop.var.n], limit)
\* Mutant: the last lane is not looked at.
ThreeActive == \A k \in 0 .. 2 : Active(lanes[k])
AllActive == \A k \in Lanes : Active(lanes[k])

\* Mutant: what three passes add.
DeltaOfThree(f) ==
  /\ lanes' = [k \in Lanes |-> Ahead(loop, f, k)]
  /\ delta' = Difference(Ahead(loop, f, 3), f)

\* Mutant: f3 is only two passes ahead.
LastLaneShort(f) ==
  /\ lanes' = [k \in Lanes |-> Ahead(loop, f, IF k = 3 THEN 2 ELSE k)]
  /\ delta' = Difference(Ahead(loop, f, 4), f)

(* f1, f2, f3 are one, two and three passes ahead of f0, and delta is what *)
(* four passes add.                                                        *)
Speculate(f) ==
  /\ lanes' = [k \in Lanes |-> Ahead(loop, f, k)]
  /\ delta' = Difference(Ahead(loop, f, 4), f)

(* The SimdLoop instruction: read the limit once, copy the registers.      *)
EnterSimd ==
  /\ phase = "start" /\ Rewritten(loop)
  /\ Operand(slots, loop.limit) # Other
  /\ limit' = Operand(slots, loop.limit)
  /\ \/ unit = "vector" /\ phase' = "ahead" /\ Speculate(Ints(slots))
     \/ /\ unit = "scalar" /\ phase' = "scalar"
        /\ lanes' = [lanes EXCEPT ![0] = Ints(slots)]
        /\ UNCHANGED delta
  /\ UNCHANGED <<loop, unit, slots, entry>>

EnterPlain ==
  /\ phase = "start" /\ ~Rewritten(loop)
  /\ phase' = "plain"
  /\ UNCHANGED <<loop, unit, slots, entry, limit, lanes, delta>>

(* int_of! on the limit.                                                   *)
LimitFails ==
  /\ phase = "start" /\ Rewritten(loop)
  /\ Operand(slots, loop.limit) = Other
  /\ phase' = "failed"
  /\ UNCHANGED <<loop, unit, slots, entry, limit, lanes, delta>>

(* Four passes at once, in all lanes.                                      *)
FastForward ==
  /\ phase = "ahead" /\ AllActive
  /\ lanes' = [k \in Lanes |-> Plus(lanes[k], delta)]
  /\ UNCHANGED <<loop, unit, slots, entry, phase, limit, delta>>

StopAhead ==
  /\ phase = "ahead" /\ ~AllActive
  /\ phase' = "scalar"
  /\ UNCHANGED <<loop, unit, slots, entry, limit, lanes, delta>>

(* run_scalar_simd_loop, one pass.                                         *)
ScalarPass ==
  /\ phase = "scalar" /\ Active(lanes[0])
  /\ lanes' = [lanes EXCEPT ![0] = Ahead(loop, lanes[0], 1)]
  /\ UNCHANGED <<loop, unit, slots, entry, phase, limit, delta>>

(* The frame goes back: every slot becomes an integer.                     *)
ScalarLeave ==
  /\ phase = "scalar" /\ ~Active(lanes[0])
  /\ slots' = lanes[0]
  /\ phase' = "left"
  /\ UNCHANGED <<loop, unit, entry, limit, lanes, delta>>

-----------------------------------------------------------------------------
(* A loop that was not rewritten: comparison, BrIf, body, Jmp.             *)
PlainPass ==
  /\ phase = "plain"
  /\ Comparable(loop, slots) /\ Continues(loop, slots)
  /\ slots' = Pass(loop, slots)
  /\ slots' # Failed
  /\ UNCHANGED <<loop, unit, entry, phase, limit, lanes, delta>>

PlainLeave ==
  /\ phase = "plain"
  /\ Comparable(loop, slots) /\ ~Continues(loop, slots)
  /\ phase' = "left"
  /\ UNCHANGED <<loop, unit, slots, entry, limit, lanes, delta>>

PlainFail ==
  /\ phase = "plain"
  /\ \/ ~Comparable(loop, slots)
     \/ /\ Comparable(loop, slots) /\ Continues(loop, slots)
        /\ Pass(loop, slots) = Failed
  /\ phase' = "failed"
  /\ UNCHANGED <<loop, unit, slots, entry, limit, lanes, delta>>

Next ==
  \/ EnterSimd \/ EnterPlain \/ LimitFails
  \/ FastForward \/ StopAhead \/ ScalarPass \/ ScalarLeave
  \/ PlainPass \/ PlainLeave \/ PlainFail

Spec == Init /\ [][Next]_vars

-----------------------------------------------------------------------------
(* While the lanes run ahead, f1, f2 and f3 are where the loop would be    *)
(* one, two and three passes after f0 (the vectors of run_avx2_simd_loop   *)
(* and run_neon_simd_loop).                                                *)
LanesAhead ==
  phase = "ahead" => \A k \in Lanes : lanes[k] = Ahead(loop, lanes[0], k)

(* A fast forward takes f0 to where four passes of the body take it, and   *)
(* none of the four is one that the loop would not have begun.             *)
FourPasses ==
  [][FastForward =>
       /\ lanes'[0] = Ahead(loop, lanes[0], 4)
       /\ \A k \in Lanes : Active(Ahead(loop, lanes[0], k))]_vars

(* The registers as the program may look at them: those the loop found to  *)
(* hold integers, from f0 while exec_simd_loop works on its copy.          *)
Seen ==
  LET now == IF phase \in {"ahead", "scalar"} THEN lanes[0] ELSE slots
  IN  IF Rewritten(loop)
      THEN [r \in Regs |-> IF entry[r] = Other THEN Other ELSE now[r]]
      ELSE slots

Ended == IF phase \in {"left", "failed"} THEN phase ELSE "running"

W == INSTANCE WhileLoop WITH slots <- Seen, end <- Ended

(* A SimdLoop is the while statement it replaces: the same passes, the     *)
(* same exit, the same integers afterwards (rewrite_simd_loops and         *)
(* exec_simd_loop).                                                        *)
ImplementsWhile == W!Spec

=============================================================================
