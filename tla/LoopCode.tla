----------------------------- MODULE LoopCode ------------------------------
(***************************************************************************)
(* What a while loop of the Rust virtual machine is once it is compiled: a *)
(* comparison, a BrIf, the instructions of the body, and a Jmp back.  A    *)
(* loop is a record of the comparison and the body, registers hold i64     *)
(* words or Other, which is any slot whose tag is not Int.                 *)
(***************************************************************************)
EXTENDS Integers, Sequences

CONSTANTS
  WordMax,  \* the largest i64
  Regs,     \* the registers of the function
  Loops,    \* the loops it may contain
  Other,    \* a slot that is not an integer
  Failed    \* in place of the registers: the program ended with an error

WordMin == -WordMax - 1
Word == WordMin .. WordMax
Frame == [Regs -> Word]
Slots == [Regs -> Word \cup {Other}]

Reg(r) == [lit |-> FALSE, n |-> r]
Lit(n) == [lit |-> TRUE, n |-> n]
Ins(op, dst, a, b) == [op |-> op, dst |-> dst, a |-> a, b |-> b]

Arithmetic == {"add", "sub", "mul", "div", "lt", "gt"}
Operands == [lit : {FALSE}, n : Regs] \cup [lit : {TRUE}, n : Word]
Instruction == [op : Arithmetic \cup {"move", "eq"}, dst : Regs, a : Operands, b : Operands]
Loop == [cmp : {"lt", "gt"}, var : Operands, limit : Operands, body : Seq(Instruction) \ {<<>>}]

ASSUME LoopCodeAssumption ==
  /\ WordMax \in Nat \ {0}
  /\ \A l \in Loops : l \in Loop
  /\ Other \notin Int
  /\ Failed \notin Slots

(* The operand of an instruction: a constant of the pool or a register.    *)
Operand(f, x) == IF x.lit THEN x.n ELSE f[x.n]

(* wrapping_add and its kin keep the low bits of a result.                 *)
Wrap(n) == ((n - WordMin) % (2 * (WordMax + 1))) + WordMin

Magnitude(n) == IF n < 0 THEN -n ELSE n
Quotient(a, b) ==
  LET q == Magnitude(a) \div Magnitude(b)
  IN  IF (a < 0) = (b < 0) THEN q ELSE -q

Compare(cmp, a, b) == IF cmp = "lt" THEN a < b ELSE a > b

(* The integer that an arithmetic instruction computes.                    *)
Arith(op, a, b) ==
  CASE op = "add" -> Wrap(a + b)
    [] op = "sub" -> Wrap(a - b)
    [] op = "mul" -> Wrap(a * b)
    [] op = "div" -> IF b = 0 THEN 0 ELSE Wrap(Quotient(a, b))
    [] OTHER -> IF Compare(op, a, b) THEN 1 ELSE 0

(* One instruction of the body in the interpreter.  Arithmetic needs       *)
(* integers and a divisor, a comparison leaves a bool.  An eq is of        *)
(* integers too: no loop here compares bools or strings.  Failed is the    *)
(* error that ends the program, or the panic of a quotient that is no word.*)
Interpret(f, i) ==
  LET a == Operand(f, i.a)
      b == Operand(f, i.b)
      Put(v) == [f EXCEPT ![i.dst] = v]
  IN  CASE f = Failed -> Failed
        [] f # Failed /\ i.op # "move" /\ Other \in {a, b} -> Failed
        [] f # Failed /\ i.op = "div" /\ (b = 0 \/ (a = WordMin /\ b = -1)) -> Failed
        [] f # Failed /\ i.op = "move" -> Put(a)
        [] f # Failed /\ i.op \in {"lt", "gt", "eq"} -> Put(Other)
        [] OTHER -> Put(Arith(i.op, a, b))

(* The body once, in the interpreter.                                      *)
Pass(l, f) ==
  LET after[k \in 0 .. Len(l.body)] ==
        IF k = 0 THEN f ELSE Interpret(after[k - 1], l.body[k])
  IN  after[Len(l.body)]

(* The body so many times, up to the four of a fast forward.               *)
Passes(l, f, n) ==
  LET after[k \in 0 .. n] == IF k = 0 THEN f ELSE Pass(l, after[k - 1])
  IN  after[n]

(* The comparison of the loop, of integers only.                           *)
Comparable(l, f) == Other \notin {Operand(f, l.var), Operand(f, l.limit)}
Continues(l, f) == Compare(l.cmp, Operand(f, l.var), Operand(f, l.limit))
=============================================================================
