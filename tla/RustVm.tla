------------------------------- MODULE RustVm -------------------------------
(***************************************************************************)
(* The Rust implementation from the text of a program to the end of its    *)
(* run (run_interpreter in main.rs; Vm::new, run and exec_func in vm.rs):  *)
(* tokens, syntax tree, bytecode, then one instruction per step.           *)
(*                                                                         *)
(* Values are integers, bools and strings.  The instructions on structs,   *)
(* arrays, references and files are compiled here and run in RustStore.    *)
(* Of a string only its text counts, not its place in the heap.            *)
(***************************************************************************)
EXTENDS RustLexer, RustParser, RustCompiler

CONSTANTS
  Sources,   \* the texts of programs, each with the program it means
  MaxSteps   \* bound: instructions executed

WordMin == -WordMax - 1

VARIABLES
  source,  \* the program, as its author wrote it, and its text
  vectors, \* whether the processor has them, found out when the program starts
  stage,   \* "text", "tokens", "tree", "compiling", "code", "running", "ok" or
           \* "panic"; "unread" and "error" are a message and exit(1), the first
           \* for a text that is no program
  unit,    \* what the stages hand on: tokens, syntax tree, main and parameters
  frames,  \* the calls in progress, each an exec_func with its registers
  out,     \* what puts printed
  result,  \* what main returned
  steps    \* number of instructions executed

vars == <<source, vectors, stage, unit, frames, out, result, steps>>

Void == [tag |-> "void", n |-> 0, s |-> ""]
IntSlot(n) == [tag |-> "int", n |-> n, s |-> ""]
BoolSlot(b) == [tag |-> "bool", n |-> IF b THEN 1 ELSE 0, s |-> ""]
StrSlot(s) == [tag |-> "str", n |-> 0, s |-> s]

Init ==
  /\ source \in Sources /\ vectors = FALSE
  /\ stage = "text" /\ unit = <<>> /\ frames = <<>>
  /\ out = <<>> /\ result = Void /\ steps = 0
  /\ CompilerInit

-----------------------------------------------------------------------------
(* Loading.                                                                *)
Becomes(s, u) == stage' = s /\ unit' = u /\ UNCHANGED <<source, vectors, frames, out, result, steps>>

Tokenize ==
  /\ stage = "text"
  /\ IF Lexes(source.text) THEN Becomes("tokens", tokenize(source.text))
     ELSE Becomes("unread", <<>>)

\* The next stage, if this one has gone well; bad: what an error leads to.
Unless(bad, s, u) == IF u.ok THEN Becomes(s, u) ELSE Becomes(bad, <<>>)

Parse == stage = "tokens" /\ Unless("unread", "tree", parse(unit))

\* Vm::new, function by function, and find_func of run.
Compile == stage = "tree" /\ Becomes("compiling", unit) /\ Compiling(unit)

CompileOn == stage = "compiling" /\ CompilerStep /\ UNCHANGED vars

Mains == LastNamed(tree.functions, "main")
ParamRegs(f) == [k \in DOMAIN f.params |-> f.params[k].n]

Executable ==
  [main |-> (CHOOSE i \in Mains : TRUE) - 1,
   params |-> [i \in DOMAIN compiled |-> ParamRegs(tree.functions[i])]]

EndCompile ==
  /\ stage = "compiling" /\ phase \in {"done", "failed"}
  /\ IF phase = "done" /\ Mains # {} THEN Becomes("code", Executable) ELSE Becomes("error", <<>>)
  /\ UNCHANGED compilerVars

\* exec_func: the registers, the arguments in those of the parameters.
\* loop is the SimdLoop that is running, if one is.
Frame(f, args, dst) ==
  LET params == unit.params[f + 1]
      Given(r) == {k \in DOMAIN args : params[k] = r}
  IN  [f |-> f, pc |-> 0, dst |-> dst, loop |-> <<>>,
       regs |-> [r \in 0 .. compiled[f + 1].n_regs - 1 |->
                   IF Given(r) = {} THEN Void ELSE args[Max(Given(r))]]]

Start ==
  /\ stage = "code"
  /\ stage' = "running"
  /\ vectors' \in BOOLEAN
  /\ frames' = <<Frame(unit.main, <<>>, -1)>>
  /\ UNCHANGED <<source, unit, out, result, steps>>

-----------------------------------------------------------------------------
(* Execution of the instruction that the last frame is at.                 *)
top == Last(frames)
cf == compiled[top.f + 1]
ins == cf.code[top.pc + 1]

OperandA == IF LitA(ins) THEN IntSlot(cf.int_pool[ins.a + 1]) ELSE top.regs[ins.a]
OperandB == IF LitB(ins) THEN IntSlot(cf.int_pool[ins.b + 1]) ELSE top.regs[ins.b]

IsInt(s) == s.tag = "int"

Wrap(n) == ((n - WordMin) % (2 * (WordMax + 1))) + WordMin
Magnitude(n) == IF n < 0 THEN -n ELSE n
Quotient(a, b) ==
  LET q == Magnitude(a) \div Magnitude(b) IN IF (a < 0) = (b < 0) THEN q ELSE -q

End(how) == stage' = how /\ UNCHANGED <<source, vectors, unit, frames, out, result>>

SetTop(frame) == frames' = [frames EXCEPT ![Len(frames)] = frame]
Continue(frame) ==
  SetTop([frame EXCEPT !.pc = @ + 1]) /\ UNCHANGED <<source, vectors, stage, unit, out, result>>
Put(s) == Continue([top EXCEPT !.regs[ins.dst] = s])
JumpTo(pc) == SetTop([top EXCEPT !.pc = pc]) /\ UNCHANGED <<source, vectors, stage, unit, out, result>>

SetLabel == ins.op = "SetLabel" /\ Continue(top)
Move == ins.op = "Move" /\ Put(top.regs[ins.a])
LoadInt == ins.op = "LoadInt" /\ Put(IntSlot(cf.int_pool[ins.a + 1]))
LoadStr == ins.op = "LoadStr" /\ Put(StrSlot(cf.str_pool[ins.a + 1]))

LoadNamed ==
  /\ ins.op = "LoadNamed"
  /\ LET name == cf.str_pool[ins.a + 1]
     IN  CASE name = "READ" -> Put(IntSlot(0))
           [] name = "WRITE" -> Put(IntSlot(1))
           [] OTHER -> End("error")

Arithmetic ==
  /\ ins.op \in {"add", "sub", "mul", "div", "lt", "gt"}
  /\ LET a == OperandA.n
         b == OperandB.n
     IN  IF ~IsInt(OperandA) \/ ~IsInt(OperandB) \/ (ins.op = "div" /\ b = 0) THEN End("error")
         ELSE CASE ins.op = "add" -> Put(IntSlot(Wrap(a + b)))
                [] ins.op = "sub" -> Put(IntSlot(Wrap(a - b)))
                [] ins.op = "mul" -> Put(IntSlot(Wrap(a * b)))
                [] ins.op = "div" /\ a = WordMin /\ b = -1 -> End("panic")
                [] ins.op = "div" /\ ~(a = WordMin /\ b = -1) -> Put(IntSlot(Quotient(a, b)))
                [] ins.op = "lt" -> Put(BoolSlot(a < b))
                [] ins.op = "gt" -> Put(BoolSlot(a > b))

\* The registers of these numbers, also where a number is one of the pool;
\* beyond the last register anything may be read.
Eq ==
  /\ ins.op = "eq"
  /\ LET a == top.regs[ins.a]
         b == top.regs[ins.b]
     IN  IF {ins.a, ins.b} \subseteq DOMAIN top.regs
         THEN IF a.tag = b.tag /\ a.tag # "void" THEN Put(BoolSlot(a = b)) ELSE End("error")
         ELSE End("error") \/ \E x \in BOOLEAN : Put(BoolSlot(x))

ArgsOf ==
  LET range == cf.arg_ranges[ins.b + 1]
  IN  [k \in 1 .. range.len |-> top.regs[cf.arg_regs[range.start + k]]]

\* CallUser and CallUserVoid; more arguments than parameters: a panic.
CallUser ==
  /\ ins.op \in {"CallUser", "CallUserVoid"}
  /\ IF Len(ArgsOf) > Len(unit.params[ins.a + 1]) THEN End("panic")
     ELSE /\ LET dst == IF ins.op = "CallUser" THEN ins.dst ELSE -1
             IN  frames' = Append(frames, Frame(ins.a, ArgsOf, dst))
          /\ UNCHANGED <<source, vectors, stage, unit, out, result>>

\* puts prints what has a text, flush changes nothing here; the others are
\* errors, as programs have no files here.
CallBuiltin ==
  /\ ins.op \in {"CallBuiltin", "CallBuiltinVoid"}
  /\ IF Builtins[ins.a + 1] \notin {"puts", "flush"} THEN End("error")
     ELSE /\ out' = IF Builtins[ins.a + 1] = "flush" THEN out
                    ELSE out \o SelectSeq(ArgsOf, LAMBDA s : s # Void)
          /\ SetTop([top EXCEPT !.pc = @ + 1,
                       !.regs = IF ins.op = "CallBuiltin" THEN [@ EXCEPT ![ins.dst] = Void] ELSE @])
          /\ UNCHANGED <<source, vectors, stage, unit, result>>

Jmp == ins.op = "Jmp" /\ JumpTo(ins.a)

BrIf ==
  /\ ins.op = "BrIf"
  /\ LET cond == top.regs[ins.dst]
     IN  IF cond.tag \notin {"bool", "int"} THEN End("error")
         ELSE JumpTo(IF cond.n # 0 THEN ins.a ELSE ins.b)

Ret ==
  /\ ins.op \in {"Ret", "RetVoid"}
  /\ LET value == IF ins.op = "Ret" THEN top.regs[ins.dst] ELSE Void
         below == Front(frames)
         caller == Last(below)
     IN  IF Len(frames) = 1
         THEN stage' = "ok" /\ result' = value /\ frames' = <<>> /\ UNCHANGED <<source, vectors, unit, out>>
         ELSE /\ frames' = [below EXCEPT ![Len(below)] =
                    [caller EXCEPT !.pc = @ + 1,
                       !.regs = IF top.dst # -1 THEN [@ EXCEPT ![top.dst] = value] ELSE @]]
              /\ UNCHANGED <<source, vectors, stage, unit, out, result>>

(* A SimdLoop, with vectors (avx2, neon) and without.  A panic has no      *)
(* frame.  All constants of a body are looked up among the registers too.  *)
NoFrame == <<>>

\* eval_simd_op: what it assigns to a register of the frame of integers.
EvalSimdOp(frame, op) ==
  LET a == IF LitA(op) THEN cf.int_pool[op.a + 1] ELSE frame[op.a]
      b == IF LitB(op) THEN cf.int_pool[op.b + 1] ELSE frame[op.b]
  IN  CASE frame = NoFrame -> NoFrame
        [] frame # NoFrame /\ ~LitA(op) /\ op.a \notin DOMAIN frame -> NoFrame
        [] frame # NoFrame /\ op.op = "div" /\ a = WordMin /\ b = -1 -> NoFrame
        [] OTHER ->
             [frame EXCEPT ![op.dst] =
                CASE op.op = "add" -> Wrap(a + b)
                  [] op.op = "sub" -> Wrap(a - b)
                  [] op.op = "mul" -> Wrap(a * b)
                  [] op.op = "div" -> IF b = 0 THEN 0 ELSE Quotient(a, b)
                  [] op.op = "lt" -> IF a < b THEN 1 ELSE 0
                  [] op.op = "gt" -> IF a > b THEN 1 ELSE 0
                  [] op.op = "Move" -> a
                  [] op.op = "LoadInt" -> cf.int_pool[op.a + 1]]

OnePass(frame) == FoldLeft(EvalSimdOp, frame, cf.simd_loops[ins.a + 1])

\* The loop that is running: its limit, its frames f0 .. f3, or f0 alone, and
\* delta, what four passes add.
running == top.loop[1]
SetLoop(l) ==
  SetTop([top EXCEPT !.loop = <<l>>]) /\ UNCHANGED <<source, vectors, stage, unit, out, result>>

Active(frame) == IF LitA(ins) THEN frame[ins.dst] < running.limit ELSE frame[ins.dst] > running.limit
Plus(frame, d) == [r \in DOMAIN frame |-> Wrap(frame[r] + d[r])]

\* What is not an integer counts as 0.  With vectors the body runs ahead
\* whether or not a pass is due.
EnterSimdLoop ==
  /\ ins.op = "SimdLoop" /\ top.loop = <<>>
  /\ LET f0 == [r \in DOMAIN top.regs |-> IF IsInt(top.regs[r]) THEN top.regs[r].n ELSE 0]
         f1 == OnePass(f0)
         f2 == OnePass(f1)
         f3 == OnePass(f2)
         f4 == OnePass(f3)
         delta == [r \in DOMAIN f0 |-> Wrap(f4[r] - f0[r])]
         Loop(lanes, d) == SetLoop([limit |-> OperandB.n, lanes |-> lanes, delta |-> d])
     IN  CASE ~IsInt(OperandB) -> End("error")
           [] IsInt(OperandB) /\ ~vectors -> Loop(<<f0>>, <<>>)
           [] IsInt(OperandB) /\ vectors /\ f4 = NoFrame -> End("panic")
           [] OTHER -> Loop(<<f0, f1, f2, f3>>, delta)

\* run_avx2_simd_loop and run_neon_simd_loop, four passes in all lanes.
FastForward ==
  /\ ins.op = "SimdLoop" /\ top.loop # <<>> /\ Len(running.lanes) = 4
  /\ IF \A f \in ToSet(running.lanes) : Active(f)
     THEN SetLoop([running EXCEPT !.lanes = [k \in 1 .. 4 |-> Plus(@[k], running.delta)]])
     ELSE SetLoop([running EXCEPT !.lanes = <<@[1]>>])

\* run_scalar_simd_loop, one pass; in the end every register is an integer.
ScalarPass ==
  /\ ins.op = "SimdLoop" /\ top.loop # <<>> /\ Len(running.lanes) = 1
  /\ LET frame == running.lanes[1]
         after == OnePass(frame)
     IN  CASE Active(frame) /\ after = NoFrame -> End("panic")
           [] Active(frame) /\ after # NoFrame -> SetLoop([running EXCEPT !.lanes = <<after>>])
           [] OTHER -> Continue([top EXCEPT !.loop = <<>>,
                                   !.regs = [r \in DOMAIN frame |-> IntSlot(frame[r])]])

Step ==
  /\ stage = "running" /\ steps < MaxSteps
  /\ steps' = steps + 1
  /\ \/ SetLabel \/ Move \/ LoadInt \/ LoadStr \/ LoadNamed \/ Arithmetic \/ Eq
     \/ CallUser \/ CallBuiltin \/ Jmp \/ BrIf \/ Ret
     \/ EnterSimdLoop \/ FastForward \/ ScalarPass

Next ==
  \/ Compile \/ CompileOn \/ EndCompile
  \/ (Tokenize \/ Parse \/ Start \/ Step) /\ UNCHANGED compilerVars
=============================================================================
