------------------------------ MODULE Engines -------------------------------
(***************************************************************************)
(* The two engines of the Zig virtual machine side by side on one pure     *)
(* function: execCompiled keeps tagged Values, execCompiledInt keeps bare  *)
(* words and a 64-bit mask, bool_regs, of the registers that hold a bool.  *)
(* Vm.init picks one of them by the marks of Purity; this module asks      *)
(* whether a program can tell which.                                       *)
(*                                                                         *)
(* The instructions of the function are arbitrary, as long as the value    *)
(* engine defines what they do: arithmetic and comparisons get integers.   *)
(* Labels and jumps are the same code in both engines and left out; a phi  *)
(* is the copy of the arm that its labels select.                          *)
(***************************************************************************)
EXTENDS Integers

CONSTANTS
  NumRegs,    \* registers of the function
  NumParams,  \* parameters, which are registers 0, 1, ...
  MaskBits,   \* bits of bool_regs
  WordMax,    \* the largest i64
  Liberties   \* what programs may do: "boolArgs", "unassigned"

Regs == 0 .. NumRegs - 1
Params == 0 .. NumParams - 1
WordMin == -WordMax - 1
Word == WordMin .. WordMax

ASSUME EnginesAssumption ==
  /\ NumRegs \in Nat /\ NumParams \in 0 .. NumRegs /\ MaskBits \in Nat
  /\ WordMax \in Nat \ {0}
  /\ Liberties \subseteq {"boolArgs", "unassigned"}

VARIABLES
  env,      \* execCompiled: the Value of each register
  raw,      \* execCompiledInt: the word of each register
  bools,    \* execCompiledInt: the registers whose bit of bool_regs is set
  valueEnd, \* how execCompiled ended, or Running
  intEnd    \* how execCompiledInt ended, or Running

vars == <<env, raw, bools, valueEnd, intEnd>>

AnInt(n) == [tag |-> "int", n |-> n]
ABool(b) == [tag |-> "bool", n |-> IF b THEN 1 ELSE 0]
AVoid == [tag |-> "void", n |-> 0]
Error == [tag |-> "error", n |-> 0]
Running == [tag |-> "running", n |-> 0]

Value == {AnInt(n) : n \in Word} \cup {ABool(TRUE), ABool(FALSE), AVoid}

-----------------------------------------------------------------------------
(* A call with arguments: callFuncByIdx clears the registers of the value  *)
(* engine; callFuncByIdxInt leaves whatever the integer stack holds, and a *)
(* bool argument becomes 0 or 1.                                           *)
Arguments ==
  {AnInt(n) : n \in Word} \cup
  IF "boolArgs" \in Liberties THEN {ABool(TRUE), ABool(FALSE)} ELSE {}

Init ==
  /\ env \in {e \in [Regs -> Arguments \cup {AVoid}] :
                \A r \in Regs : e[r] = AVoid <=> r \notin Params}
  /\ raw \in {w \in [Regs -> Word] : \A r \in Params : w[r] = env[r].n}
  /\ bools = {}
  /\ valueEnd = Running
  /\ intEnd = Running

\* `bit` is the bit of register d: on, off, or out of the mask.
SetBit(d, on) ==
  bools' = IF d >= MaskBits THEN bools
           ELSE IF on THEN bools \cup {d} ELSE bools \ {d}

MayRead(r) == env[r].tag # "void" \/ "unassigned" \in Liberties
IsInt(r) == env[r].tag = "int"

Going == valueEnd = Running /\ intEnd = Running /\ UNCHANGED <<valueEnd, intEnd>>

\* Mutant: load_int leaves the bit of its register alone.
LoadIntKeepsBit(d, n) ==
  /\ Going
  /\ env' = [env EXCEPT ![d] = AnInt(n)]
  /\ raw' = [raw EXCEPT ![d] = n]
  /\ UNCHANGED bools

LoadInt(d, n) ==
  /\ Going
  /\ env' = [env EXCEPT ![d] = AnInt(n)]
  /\ raw' = [raw EXCEPT ![d] = n]
  /\ SetBit(d, FALSE)

Move(d, a) ==
  /\ Going /\ MayRead(a)
  /\ env' = [env EXCEPT ![d] = env[a]]
  /\ raw' = [raw EXCEPT ![d] = raw[a]]
  /\ SetBit(d, a \in bools)

\* Both engines wrap around in add, sub and mul.
Wrap(n) == WordMin + ((n - WordMin) % (WordMax - WordMin + 1))

Magnitude(n) == IF n < 0 THEN -n ELSE n
DivTrunc(a, b) ==
  LET q == Magnitude(a) \div Magnitude(b) IN IF (a < 0) = (b < 0) THEN q ELSE -q

Arith(op, a, b) ==
  CASE op = "add" -> Wrap(a + b)
    [] op = "sub" -> Wrap(a - b)
    [] op = "mul" -> Wrap(a * b)
    [] op = "div" -> DivTrunc(a, b)

\* @divTrunc is undefined when the quotient is no i64.
Defined(op, a, b) == op = "div" => b # 0 /\ ~(a = WordMin /\ b = -1)

ArithOp(op, d, a, b) ==
  /\ Going /\ IsInt(a) /\ IsInt(b)
  /\ Defined(op, env[a].n, env[b].n)
  /\ env' = [env EXCEPT ![d] = AnInt(Arith(op, env[a].n, env[b].n))]
  /\ raw' = [raw EXCEPT ![d] = Arith(op, raw[a], raw[b])]
  /\ SetBit(d, FALSE)

Compare(op, a, b) ==
  CASE op = "lt" -> a < b
    [] op = "le" -> a <= b
    [] op = "eq" -> a = b

\* Mutant: a comparison leaves no trace in bool_regs.
CompareUnmarked(op, d, a, b) ==
  /\ Going /\ IsInt(a) /\ IsInt(b)
  /\ env' = [env EXCEPT ![d] = ABool(Compare(op, env[a].n, env[b].n))]
  /\ raw' = [raw EXCEPT ![d] = IF Compare(op, raw[a], raw[b]) THEN 1 ELSE 0]
  /\ SetBit(d, FALSE)

CompareOp(op, d, a, b) ==
  /\ Going /\ IsInt(a) /\ IsInt(b)
  /\ env' = [env EXCEPT ![d] = ABool(Compare(op, env[a].n, env[b].n))]
  /\ raw' = [raw EXCEPT ![d] = IF Compare(op, raw[a], raw[b]) THEN 1 ELSE 0]
  /\ SetBit(d, TRUE)

\* A phi sets the bit only when both registers have one; move clears it.
Phi(d, a) ==
  /\ Going /\ MayRead(a)
  /\ env' = [env EXCEPT ![d] = env[a]]
  /\ raw' = [raw EXCEPT ![d] = raw[a]]
  /\ IF a < MaskBits THEN SetBit(d, a \in bools) ELSE UNCHANGED bools

\* The callee is pure too: both engines get the same result from it.
CallUser(d, v) ==
  /\ Going
  /\ env' = [env EXCEPT ![d] = v]
  /\ raw' = [raw EXCEPT ![d] = v.n]
  /\ SetBit(d, v.tag = "bool")

\* A division by zero, a phi without an arm, the call depth.
Fail ==
  /\ valueEnd = Running /\ intEnd = Running
  /\ valueEnd' = Error
  /\ intEnd' = Error
  /\ UNCHANGED <<env, raw, bools>>

Result(r) == IF r \in bools THEN ABool(raw[r] # 0) ELSE AnInt(raw[r])

Return(r) ==
  /\ valueEnd = Running /\ intEnd = Running /\ MayRead(r)
  /\ valueEnd' = env[r]
  /\ intEnd' = Result(r)
  /\ UNCHANGED <<env, raw, bools>>

ReturnVoid ==
  /\ valueEnd = Running /\ intEnd = Running
  /\ valueEnd' = AVoid
  /\ intEnd' = AVoid
  /\ UNCHANGED <<env, raw, bools>>

Next ==
  \/ \E d \in Regs :
       \/ \E n \in Word : LoadInt(d, n)
       \/ \E v \in Value : CallUser(d, v)
       \/ \E a \in Regs :
            \/ Move(d, a)
            \/ Phi(d, a)
            \/ \E b \in Regs :
                 \/ \E op \in {"add", "sub", "mul", "div"} : ArithOp(op, d, a, b)
                 \/ \E op \in {"lt", "le", "eq"} : CompareOp(op, d, a, b)
       \/ Return(d)
  \/ Fail
  \/ ReturnVoid

Spec == Init /\ [][Next]_vars

-----------------------------------------------------------------------------
(* The registers of the two engines agree: a register that has a value has *)
(* the same number in both, and its bit tells a bool from an integer.      *)
RegistersAgree ==
  \A r \in Regs : env[r].tag # "void" => Result(r) = env[r]

(* "True when this function never allocates heap Values [...]. Lets        *)
(* callFuncByIdx skip the deinit loop entirely." (vm.zig:274): the mark    *)
(* picks a faster engine, and a program cannot tell from the result.       *)
ResultsAgree == valueEnd = intEnd
=============================================================================
