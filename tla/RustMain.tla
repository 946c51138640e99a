------------------------------ MODULE RustMain ------------------------------
(***************************************************************************)
(* The commands of the Rust implementation (main.rs): a program is read    *)
(* and run by the machine, or given to the emitter for QBE.  With the      *)
(* properties that hold the parser, the compiler, the machine and the      *)
(* emitter to what a program means.                                        *)
(***************************************************************************)
EXTENDS RustMeaning, Qbe

CONSTANTS
  MaxLoops,  \* bound: calls, jumps and passes that MaxSteps is enough for
  IntMax     \* the largest integer of QBE's type w

\* run_qbe
EmitQbe == stage = "tree" /\ Becomes("emitting", unit) /\ Emission(unit)

EmitOn == stage = "emitting" /\ QbeStep /\ UNCHANGED vars

EndEmit ==
  /\ stage = "emitting" /\ mode \in {"emitted", "refused"}
  /\ Becomes(IF mode = "emitted" THEN "ir" ELSE "refused", <<>>)
  /\ UNCHANGED qbeVars

MainInit == Init /\ QbeInit

MainNext ==
  \/ Next /\ UNCHANGED qbeVars
  \/ (EmitQbe \/ EmitOn \/ EndEmit) /\ UNCHANGED compilerVars

MainSpec == MainInit /\ [][MainNext]_<<vars, compilerVars, qbeVars>>

-----------------------------------------------------------------------------
(* Reading a program back from its text: the tree has the author's         *)
(* statements, with the registers numbered as the functions first mention  *)
(* them, whatever the blanks, line ends, comments and commas of the text.  *)
ReadsBack ==
  source.whole => stage # "unread" /\ (stage = "tree" => unit = Parsed(source.program))

(* A text that breaks off is not taken for a program, but where it breaks  *)
(* off between two declarations: then it is the program of those before.   *)
NoPartOfAProgram ==
  stage = "tree" /\ ~source.whole =>
    LET all == Parsed(source.program)
    IN  /\ IsPrefix(unit.structs, all.structs) /\ IsPrefix(unit.functions, all.functions)
        /\ Len(unit.functions) < Len(all.functions)

-----------------------------------------------------------------------------
(* A run ends as the program means: same output, same result, and an       *)
(* error exactly when the program has no meaning.                          *)
Ended == stage \in {"ok", "error", "panic"}
CutOff == stage = "running" /\ steps = MaxSteps

EndsLike(m) ==
  /\ out = m.out
  /\ m.flow = (IF stage = "ok" THEN "next" ELSE "fails")
  /\ stage = "ok" => result = m.val

RunsAsMeant(prog) ==
  /\ Ended => EndsLike(Meaning(prog, 4 * MaxSteps))
  /\ CutOff => Meaning(prog, MaxLoops).flow = "long"

(* So runs every program that keeps to the discipline of RustMeaning, with *)
(* vectors and without: a loop whose registers move by other than constant *)
(* amounts, such as that of sum_to, keeps to it only without.              *)
RunsAgree ==
  (Ended \/ CutOff) /\ source.whole /\ Disciplined(source.program, vectors) =>
    RunsAsMeant(source.program)

(* And every program at all, as the tests of vm.rs expect of theirs.       *)
EveryRunAgrees == source.whole => RunsAsMeant(source.program)

-----------------------------------------------------------------------------
(* What QBE makes of the instructions: a w is an integer of its own range. *)
(* how is "ok", or "trap" for a division by zero, or "over" when a result  *)
(* would not fit.                                                          *)
IrFunction(name) ==
  emitted[Max({i \in DOMAIN emitted : emitted[i].name = name})]

IrApply(op, a, b) ==
  CASE op = "add" -> a + b
    [] op = "sub" -> a - b
    [] op = "mul" -> a * b
    [] op = "div" -> Quotient(a, b)
    [] OTHER -> IF (op = "csltw" /\ a < b) \/ (op = "csgtw" /\ a > b) \/ (op = "ceqw" /\ a = b)
                THEN 1 ELSE 0

RECURSIVE IrRun(_, _, _, _)
IrRun(code, i, params, temps) ==
  LET inst == code[i]
      At(o) == CASE o.k = "temp" -> temps[o.n] [] o.k = "param" -> params[o.s] [] OTHER -> o.n
      xs == [k \in DOMAIN inst.args |-> At(inst.args[k])]
      callee == IrFunction(inst.args[1].s)
      Given(p) == xs[1 + Max({k \in DOMAIN callee.params : callee.params[k] = p})]
      called == IrRun(callee.code, 1, [p \in ToSet(callee.params) |-> Given(p)], <<>>)
      Then(n) == IF n \notin -IntMax - 1 .. IntMax THEN [how |-> "over", n |-> 0]
                 ELSE IrRun(code, i + 1, params, (inst.dst :> n) @@ temps)
  IN  CASE inst.op = "ret" -> [how |-> "ok", n |-> xs[1]]
        [] inst.op = "copy" -> Then(xs[1])
        [] inst.op = "call" -> IF called.how = "ok" THEN Then(called.n) ELSE called
        [] inst.op = "div" /\ xs[2] = 0 -> [how |-> "trap", n |-> 0]
        [] OTHER -> Then(IrApply(inst.op, xs[1], xs[2]))

\* Integer functions without branches and output, each ending in its ret.
IsCalculation(prog) == \A i \in DOMAIN prog.functions :
  LET f == prog.functions[i]
      Known(k) == {f.params[j].s : j \in DOMAIN f.params}
                    \cup {f.body[j].args[1].s : j \in {j \in 1 .. k - 1 : f.body[j].k = "assign"}}
      Read(s) == ToSet(Nodes(Last(s.args)))
  IN  /\ f.body # <<>> /\ Last(f.body).k = "ret"
      /\ \A k \in DOMAIN f.body :
           /\ f.body[k].k \in {"assign", "ret"}
           /\ \A e \in Read(f.body[k]) :
                /\ e.k \in Binary \cup {"Reg", "Int", "Named", "const", "call"}
                /\ e.k = "Reg" => e.s \in Known(k)
                /\ e.k = "call" => IsFunction(prog, e.s)
                                   /\ Len(e.args) = Len(FunctionNamed(prog, e.s).params)

(* Of such programs QBE gets code that calculates what they mean, as long  *)
(* as the numbers fit; nested calls and any use of registers included.     *)
QbeAgrees ==
  LET IrMain == IrRun(IrFunction("main").code, 1, <<>>, <<>>)
      SameAs(m, w) ==
        m.flow = "next" /\ w.how # "over" => w = [how |-> "ok", n |-> m.val.n]
  IN  stage = "ir" /\ source.whole /\ Complete(source.program) /\ IsCalculation(source.program) =>
        SameAs(Meaning(source.program, MaxLoops), IrMain)
=============================================================================
