------------------------------- MODULE Compile ------------------------------
(***************************************************************************)
(* How Compiler.compileExpr and compileStmt give registers to the parts of *)
(* an expression.  A result goes to the register `scratch`; its operands   *)
(* use scratch, scratch + 1, ...  Nothing asks whether those registers     *)
(* have a name in the program: an assignment passes its own register, set  *)
(* and store the one after theirs, call, ret and while the one after       *)
(* max_reg, the highest register written so far.                           *)
(*                                                                         *)
(* compileExpr is recursive: a frame of the stack is a call of it that has *)
(* not returned.  The function is straight-line code, so an instruction is *)
(* run when it is emitted, and what a statement gets is compared with the  *)
(* meaning of its expression.  What an instruction computes is left open.  *)
(* phi, which depends on labels, and free as an expression are left out.   *)
(***************************************************************************)
EXTENDS Integers, Sequences

CONSTANTS
  Exprs,            \* the expressions a program may contain
  Apply(_, _, _),   \* what an instruction computes: its kind, the register or
                    \* constant it names, the values of its operands
  Values,           \* what a parameter may hold
  MaxNamed,         \* bound: registers with a name
  MaxParams,        \* bound: parameters
  MaxStmts,         \* bound: statements
  MaxParts,         \* bound: parts of an expression that is not in the last one
  SSA               \* whether a register is assigned once only

(* An expression is a table of its parts, operands before what they are    *)
(* operands of, the whole last.  Kinds, by how operands are placed:        *)
(*   reg, int     a register, an integer                                   *)
(*   load, get    other literals, and what reads one register: field, sync *)
(*   of, index    one operand: alloc or cast, and get_index_ref            *)
(*   bin, eq      add ... ge, and eq                                       *)
(*   call, lit    call and spawn, and a struct literal                     *)
(* A statement is the last part of the table with its expression in it:    *)
(* assign, set (set and store), use (ret and while), do (call).            *)
Leaves == {"reg", "int", "load", "get"}
Unary == {"of", "index", "assign", "set", "use"}
Binary == {"bin", "eq"}
Ranged == {"call", "lit", "do"}
Statements == {"assign", "set", "use", "do"}

Part == [k : Leaves \cup Unary \cup Binary \cup Ranged, v : Nat, args : Seq(Nat)]
Table ==
  {e \in Seq(Part) : \A i \in DOMAIN e :
     /\ \A j \in DOMAIN e[i].args : e[i].args[j] \in 1 .. i - 1
     /\ e[i].k \in Leaves => Len(e[i].args) = 0
     /\ e[i].k \in Unary => Len(e[i].args) = 1
     /\ e[i].k \in Binary => Len(e[i].args) = 2}
Expr == {e \in Table : e # <<>> /\ \A i \in DOMAIN e : e[i].k \notin Statements}

ASSUME CompileAssumption ==
  /\ \A e \in Exprs : e \in Expr
  /\ MaxNamed \in Nat /\ MaxParams \in 0 .. MaxNamed /\ MaxStmts \in Nat
  /\ MaxParts \in Nat
  /\ SSA \in BOOLEAN

VARIABLES
  env,      \* the registers that have been written
  named,    \* number of registers that have a name, 0, 1, ...
  maxReg,   \* max_reg
  stmts,    \* number of statements so far
  expr,     \* the statement that is compiled, or was last
  stack,    \* the calls of compileExpr that have not returned, innermost last
  argRegs,  \* arg_regs, what this statement has put there
  scratch,  \* the register the statement was given
  before,   \* env when the statement began
  got       \* <<v>> when the statement has got the value v, or <<>>

vars == <<env, named, maxReg, stmts, expr, stack, argRegs, scratch, before, got>>

Init ==
  /\ named \in 0 .. MaxParams
  /\ env \in [0 .. named - 1 -> Values]
  /\ maxReg = 0
  /\ stmts = 0
  /\ expr = <<>>
  /\ stack = <<>>
  /\ argRegs = <<>>
  /\ scratch = 0
  /\ before = env
  /\ got = <<>>

-----------------------------------------------------------------------------
(* A register that was never written reads as 0.                           *)
Read(regs, r) == IF r \in DOMAIN regs THEN regs[r] ELSE 0

\* The register an instruction reads beside its operands, or its constant.
Base(p, regs) == IF p.k \in {"get", "index"} THEN Read(regs, p.v) ELSE p.v

(* What the parts of an expression mean.                                   *)
Eval(e, regs) ==
  LET value[i \in DOMAIN e] ==
        CASE e[i].k = "reg" -> Read(regs, e[i].v)
          [] e[i].k = "int" -> e[i].v
          [] e[i].k \in {"assign", "set", "use"} -> value[e[i].args[1]]
          [] OTHER -> Apply(e[i].k, Base(e[i], regs),
                            [j \in DOMAIN e[i].args |-> value[e[i].args[j]]])
  IN  value

Reads(e) == {e[i].v : i \in {j \in DOMAIN e : e[j].k \in {"reg", "get", "index"}}}

(* No call, spawn or struct literal is inside an argument or a field of    *)
(* another: those inside are a set of parts that has its operands too.     *)
Inside(e, s) ==
  \A i \in DOMAIN e :
    /\ i \in s => e[i].k \notin Ranged
    /\ i \in s \/ e[i].k \in Ranged => \A j \in DOMAIN e[i].args : e[i].args[j] \in s
Untangled(e) == \E s \in SUBSET (DOMAIN e) : Inside(e, s)

-----------------------------------------------------------------------------
(* The call of compileExpr that has not returned and called no other.      *)
Top == stack[Len(stack)]
Its(f) == expr[f.node]
NextPart(f) == expr[Its(f).args[Len(f.ops) + 1]]   \* its next operand
Done(f) == Len(f.ops) = Len(Its(f).args)

\* Mutant: the second operand always goes where the first one is.
SecondScratchSame(a, s) == s

\* Mutant: the second operand goes below the first one.
SecondScratchBelow(a, s) == IF a.reg /\ a.v = s THEN s - 1 ELSE s

\* Where compileBinOp and eq put their second operand.
SecondScratch(a, s) == IF a.reg /\ a.v = s THEN s + 1 ELSE s

(* The register that operand j of f is given.                              *)
Place(f, j) ==
  CASE Its(f).k \in {"call", "do"} -> f.dst + j - 1
    [] Its(f).k = "lit" -> f.dst + j
    [] Its(f).k = "index" -> f.dst + 1
    [] Its(f).k \in Binary /\ j = 2 -> SecondScratch(f.ops[1], f.dst)
    [] OTHER -> f.dst

FromReg(r) == [reg |-> TRUE, v |-> r]
FromPool(n) == [reg |-> FALSE, v |-> n]

\* Mutant: only named registers are counted.
HighestNamed(d) == IF d > maxReg /\ d < named THEN d ELSE maxReg

\* emit keeps max_reg at the highest register an instruction names as dst.
Highest(d) == IF d > maxReg THEN d ELSE maxReg

(* f has its next operand.  buildArgRange and a struct literal put it in   *)
(* the table that all of them share, a struct literal after the name of    *)
(* the field, whose index in the pool is left out.                         *)
Entry(f, r) == IF Its(f).k = "lit" THEN <<0, r>> ELSE <<r>>
Given(f, src) == [f EXCEPT !.ops = Append(@, src)]
Noted(f, r) == IF Its(f).k \in Ranged THEN argRegs \o Entry(f, r) ELSE argRegs

\* The j-th operand of the instruction of f.
Source(f, j) ==
  CASE Its(f).k = "lit" -> FromReg(argRegs[f.start + 2 * j])
    [] Its(f).k \in {"call", "do"} -> FromReg(argRegs[f.start + j])
    [] OTHER -> f.ops[j]

ValueOf(src) == IF src.reg THEN Read(env, src.v) ELSE src.v

\* What the instruction of f computes.
Result(f) ==
  CASE Its(f).k = "int" -> Its(f).v
    [] Its(f).k \in {"assign", "set", "use"} -> ValueOf(f.ops[1])
    [] OTHER -> Apply(Its(f).k, Base(Its(f), env),
                      [j \in DOMAIN Its(f).args |-> ValueOf(Source(f, j))])

Put(r, v) == [q \in DOMAIN env \cup {r} |-> IF q = r THEN v ELSE env[q]]

-----------------------------------------------------------------------------
(* An operand that needs no code: a register, or an integer that           *)
(* compileBinOp reads from the pool.                                       *)
Immediate(f) == NextPart(f).k = "reg" \/ (NextPart(f).k = "int" /\ Its(f).k = "bin")

Take ==
  /\ stack # <<>> /\ ~Done(Top) /\ Immediate(Top)
  /\ LET v == NextPart(Top).v
     IN  /\ stack' = [stack EXCEPT ![Len(stack)] =
                        Given(@, IF NextPart(Top).k = "reg" THEN FromReg(v) ELSE FromPool(v))]
         /\ argRegs' = Noted(Top, v)
  /\ UNCHANGED <<env, named, maxReg, stmts, expr, scratch, before, got>>

(* compileExpr calls itself for the next operand.                          *)
Enter ==
  /\ stack # <<>> /\ ~Done(Top) /\ ~Immediate(Top)
  /\ stack' = Append(stack, [node |-> Its(Top).args[Len(Top.ops) + 1],
                             dst |-> Place(Top, Len(Top.ops) + 1),
                             ops |-> <<>>,
                             start |-> Len(argRegs)])
  /\ UNCHANGED <<env, named, maxReg, stmts, expr, argRegs, scratch, before, got>>

(* It emits its instruction, which runs, and returns the register.         *)
Emit ==
  /\ Len(stack) > 1 /\ Done(Top)
  /\ LET caller == stack[Len(stack) - 1]
     IN  /\ env' = Put(Top.dst, Result(Top))
         /\ maxReg' = Highest(Top.dst)
         /\ stack' = Append(SubSeq(stack, 1, Len(stack) - 2), Given(caller, FromReg(Top.dst)))
         /\ argRegs' = Noted(caller, Top.dst)
  /\ UNCHANGED <<named, stmts, expr, scratch, before, got>>

(* The instruction of the statement.  An assignment moves a result that is *)
(* elsewhere; the dst of ret and of the branch of a while is what they     *)
(* read, that of set and store the register they go through.               *)
Finish ==
  /\ Len(stack) = 1 /\ Done(Top)
  /\ LET p == Its(Top)
         r == Top.ops[1].v
     IN  \/ /\ p.k = "assign"
            /\ IF r = p.v THEN UNCHANGED <<env, maxReg>>
               ELSE env' = Put(p.v, Result(Top)) /\ maxReg' = Highest(p.v)
            /\ named' = IF p.v < named THEN named ELSE p.v + 1
         \/ p.k = "set" /\ maxReg' = Highest(p.v) /\ UNCHANGED <<env, named>>
         \/ p.k = "use" /\ maxReg' = Highest(r) /\ UNCHANGED <<env, named>>
         \/ p.k = "do" /\ UNCHANGED <<env, named, maxReg>>
  /\ got' = <<Result(Top)>>
  /\ stack' = <<>>
  /\ UNCHANGED <<stmts, expr, argRegs, scratch, before>>

-----------------------------------------------------------------------------
\* Registers that have a name and a value.
Named == DOMAIN env \cap 0 .. named - 1

(* compileStmt for the statement e, with scratch register s.               *)
Begin(e, s) ==
  /\ stmts' = stmts + 1
  /\ expr' = e
  /\ stack' = <<[node |-> Len(e), dst |-> s, ops |-> <<>>, start |-> 0]>>
  /\ argRegs' = <<>>
  /\ scratch' = s
  /\ before' = env
  /\ got' = <<>>
  /\ UNCHANGED <<env, named, maxReg>>

Statement(k, v, e) == Append(e, [k |-> k, v |-> v, args |-> <<Len(e)>>])

\* %r = e: a new name takes the next number.
Assign(e) ==
  \E r \in Named \cup {named} :
    /\ r < MaxNamed
    /\ SSA => r = named
    /\ Begin(Statement("assign", r, e), r)

\* set %r.f = e and store %r, e: the next register, whatever it holds.
SetOrStore(e) == \E r \in Named : Begin(Statement("set", r, e), r + 1)

\* ret e and while (e).
Consume(e) == Begin(Statement("use", 0, e), maxReg + 1)

\* A call whose result nobody wants.
CallStmt(e) ==
  /\ e[Len(e)].k = "call"
  /\ Begin([e EXCEPT ![Len(e)].k = "do"], maxReg + 1)

Start ==
  /\ stack = <<>> /\ stmts < MaxStmts
  /\ \E e \in Exprs :
       /\ Reads(e) \subseteq Named
       /\ stmts < MaxStmts - 1 => Len(e) <= MaxParts
       /\ Assign(e) \/ SetOrStore(e) \/ Consume(e) \/ CallStmt(e)

Next == Start \/ Take \/ Enter \/ Emit \/ Finish

Spec == Init /\ [][Next]_vars

-----------------------------------------------------------------------------
(* The code of a statement leaves the registers below its scratch register *)
(* alone, however its expression is nested.                                *)
LowerKept == [][\A r \in DOMAIN env : r < scratch' => env'[r] = env[r]]_vars

(* An expression that reads no register from scratch up and has no call or *)
(* struct literal inside the arguments of another has the value it means:  *)
(* no operand overwrites another that is still needed.                     *)
ValueRight ==
  got # <<>> /\ Reads(expr) \subseteq 0 .. scratch - 1 /\ Untangled(expr) =>
    got = <<Eval(expr, before)[Len(expr)]>>

(* finish() makes the frame long enough for every register the code uses.  *)
RegistersExist == \A r \in DOMAIN env : r < named \/ r <= maxReg

(* "SSA-form intermediate language" (README.md:3): a register is given its *)
(* value by its one assignment, and no other statement changes it.         *)
NamedKept == [][\A r \in Named : env'[r] = env[r]]_vars
=============================================================================
