-------------------------------- MODULE Qbe ---------------------------------
(***************************************************************************)
(* The emitter of QBE's intermediate language (rust_version/src/qbe.rs).   *)
(* An instruction is an operation, the temporary it defines (-1 for none)  *)
(* with its type, and its operands: temporaries by number, parameters by   *)
(* name, constants, labels, functions, or nothing at all, which is what a  *)
(* register holds that the text has not assigned so far.                   *)
(*                                                                         *)
(* emit_expr and emit_stmt call each other and themselves: open holds the  *)
(* calls that have not returned, the innermost last.                       *)
(***************************************************************************)
EXTENDS RustTree

VARIABLES
  input,    \* the program
  emitted,  \* its functions that are emitted, in order
  mode,     \* "idle"; "function" between functions, "body" in one; in the end
            \* "emitted", or "refused" for an Err
  emitter,  \* the Emitter, with the code and the environment of the function
  open,     \* its calls of emit_expr and emit_stmt
  value     \* <<v>> when one has just returned operand v, or <<>>

qbeVars == <<input, emitted, mode, emitter, open, value>>

IrOperand(k, s, n) == [k |-> k, s |-> s, n |-> n]
Temp(n) == IrOperand("temp", "", n)
Number(n) == IrOperand("const", "", n)
Label(kind, n) == IrOperand(kind, "", n)
Nothing == IrOperand("none", "", 0)

Ir(op, dst, ty, args) == [op |-> op, dst |-> dst, ty |-> ty, args |-> args]

\* tmp counts over all functions; the code, the operand that each register
\* is, and the number of loops start afresh for each.
NewEmitter == [strings |-> <<>>, tmp |-> 0, code |-> <<>>, env |-> <<>>, loops |-> 0]

qbe_ty(ty) == CASE ty = "void" -> "" [] ty \in {"int", "bool"} -> "w" [] OTHER -> "l"

Issue(q, op, args) == [q EXCEPT !.code = Append(@, Ir(op, -1, "", args))]

\* Mutant: the counter of temporaries does not move.
DefineStale(q, op, ty, args) ==
  [q EXCEPT !.code = Append(@, Ir(op, q.tmp, ty, args)), !.tmp = IF op = "copy" THEN @ + 1 ELSE @]

\* An instruction that defines a fresh temporary.
Define(q, op, ty, args) ==
  [q EXCEPT !.code = Append(@, Ir(op, q.tmp, ty, args)), !.tmp = @ + 1]

StoreAt(q, ptr, offset, v) ==
  Issue(Define(q, "add", "l", <<ptr, Number(offset)>>), "storel", <<v, Temp(q.tmp)>>)

-----------------------------------------------------------------------------
(* Structs: of several of one name the last one counts, of several fields  *)
(* of one name the first.                                                  *)
StructsNamed(name) ==
  {i \in DOMAIN input.structs :
     /\ input.structs[i].s = name
     /\ \A j \in i + 1 .. Len(input.structs) : input.structs[j].s # name}
Declared(name) == input.structs[CHOOSE i \in StructsNamed(name) : TRUE].args

FirstNamed(fields, name) ==
  {i \in DOMAIN fields : fields[i].s = name /\ \A j \in 1 .. i - 1 : fields[j].s # name}

\* find_field_offset: of the first struct that a hash map gives, which may be
\* any that has the field.
Offsets(field) ==
  {(i - 1) * 8 : i \in UNION {FirstNamed(Declared(d.s), field) : d \in ToSet(input.structs)}}

\* An Err, whether it is met before or after the nodes below.
Refused(e) ==
  \/ e.k \in {"alloc_array", "get_index_ref", "get_field_ref", "load",
              "label", "jmp", "br_if", "store"}
  \/ e.k = "Named" /\ e.s \notin {"READ", "WRITE"}
  \/ e.k = "StructLit" /\
       \/ StructsNamed(e.s) = {}
       \/ \E i \in DOMAIN Declared(e.s) : FirstNamed(e.args, Declared(e.s)[i].s) = {}
  \/ e.k = "set" /\ Offsets(e.s) = {}

(* The nodes it calls itself for: of a struct literal, the fields in the   *)
(* order of the struct.                                                    *)
NumCalls(e) == IF e.k = "StructLit" THEN Len(Declared(e.s)) ELSE NumKids(e)

Callee(e, j) ==
  IF e.k = "StructLit"
  THEN Kid(e, CHOOSE i \in FirstNamed(e.args, Declared(e.s)[j].s) : TRUE)
  ELSE Kid(e, j)

-----------------------------------------------------------------------------
(* A call: its node, whether it is a statement, the operands it has so far *)
(* and what it noted at first: of a struct literal the pointer, of a while *)
(* the number of the loop, of a set the offset.                            *)
Open(e, stmt, own) == [e |-> e, stmt |-> stmt, got |-> <<>>, own |-> own]

Notes(e, q) ==
  CASE e.k = "StructLit" -> {Temp(q.tmp)}
    [] e.k = "while" -> {Number(q.loops)}
    [] e.k = "set" -> {Number(o) : o \in Offsets(e.s)}
    [] OTHER -> {Nothing}

Begin(e, q) ==
  CASE e.k = "StructLit" -> Define(q, "alloc8", "l", <<Number(8 * Len(Declared(e.s)))>>)
    [] e.k = "while" ->
         Issue([q EXCEPT !.loops = @ + 1], "label", <<Label("loop", q.loops)>>)
    [] OTHER -> q

\* With one more operand, v.
Proceed(f, q, v) ==
  LET body == Label("lbody", f.own.n)
  IN  CASE f.e.k = "StructLit" -> StoreAt(q, f.own, 8 * Len(f.got), v)
        [] f.e.k = "while" /\ f.got = <<>> ->
             Issue(Issue(q, "jnz", <<v, body, Label("lend", f.own.n)>>), "label", <<body>>)
        [] OTHER -> q

Operation(k) ==
  CASE k = "lt" -> "csltw" [] k = "gt" -> "csgtw" [] k = "eq" -> "ceqw" [] OTHER -> k

\* Mutant: the operands are the wrong way round.
EmitBinaryBackwards(k, q, got) == Define(q, Operation(k), "w", <<got[2], got[1]>>)

EmitBinary(k, q, got) == Define(q, Operation(k), "w", got)

\* No operand is ever the label of a string itself: all arguments are "w".
emit_call(f, q) ==
  LET args == <<IrOperand("func", f.e.s, 0)>> \o f.got
      ty == IF f.e.s \in {"open", "read", "write"} THEN "l" ELSE "w"
  IN  IF f.stmt THEN Issue(q, "call", args) ELSE Define(q, "call", ty, args)

\* What a call emits when it has its operands.
Finished(f, q) ==
  LET e == f.e
      base == q.env[e.args[1].n + 1]
      kept == With(q.strings, e.s)
  IN  CASE e.k \in {"Reg", "const", "StructLit"} -> q
        [] e.k = "Int" -> Define(q, "copy", "w", <<Number(e.n)>>)
        [] e.k = "Named" -> Define(q, "copy", "w", <<Number(IF e.s = "READ" THEN 0 ELSE 1)>>)
        [] e.k = "Str" ->
             Define([q EXCEPT !.strings = kept], "copy", "l", <<Label("str", IndexOf(kept, e.s))>>)
        [] e.k = "Field" ->
             Define(Define(q, "add", "l", <<base, Number(0)>>), "loadl", "l", <<Temp(q.tmp)>>)
        [] e.k \in Binary -> EmitBinary(e.k, q, f.got)
        [] e.k = "alloc" -> Define(q, "alloc8", "l", f.got)
        [] e.k = "call" -> emit_call(f, q)
        [] e.k = "assign" -> [q EXCEPT !.env[e.args[1].n + 1] = f.got[1]]
        [] e.k = "set" -> StoreAt(q, base, f.own.n, f.got[1])
        [] e.k = "ret" -> Issue(q, "ret", f.got)
        [] e.k = "while" ->
             Issue(Issue(q, "jmp", <<Label("loop", f.own.n)>>), "label",
                   <<Label("lend", f.own.n)>>)

\* The operand that an expression is.
Holds(f, q) ==
  CASE f.stmt -> Nothing
    [] ~f.stmt /\ f.e.k = "Reg" -> q.env[f.e.n + 1]
    [] ~f.stmt /\ f.e.k = "const" -> f.got[1]
    [] ~f.stmt /\ f.e.k = "StructLit" -> f.own
    [] ~f.stmt /\ f.e.k = "Field" -> Temp(q.tmp + 1)
    [] OTHER -> Temp(q.tmp)

-----------------------------------------------------------------------------
Inner == open[Len(open)]
HasAll(f) == Len(f.got) = NumCalls(f.e)

CallEmit ==
  /\ mode = "body" /\ value = <<>> /\ ~HasAll(Inner)
  /\ LET e == Callee(Inner.e, Len(Inner.got) + 1)
     IN  IF Refused(e) THEN mode' = "refused" /\ UNCHANGED <<emitter, open>>
         ELSE /\ \E own \in Notes(e, emitter) : open' = Append(open, Open(e, NextIsStmt(Inner), own))
              /\ emitter' = Begin(e, emitter)
              /\ UNCHANGED mode
  /\ UNCHANGED <<input, emitted, value>>

ReturnEmit ==
  /\ mode = "body" /\ value = <<>> /\ HasAll(Inner) /\ Len(open) > 1
  /\ emitter' = Finished(Inner, emitter)
  /\ value' = <<Holds(Inner, emitter)>>
  /\ open' = Front(open)
  /\ UNCHANGED <<input, emitted, mode>>

TakeValue ==
  /\ mode = "body" /\ value # <<>>
  /\ emitter' = Proceed(Inner, emitter, value[1])
  /\ open' = [open EXCEPT ![Len(open)] = [Inner EXCEPT !.got = Append(@, value[1])]]
  /\ value' = <<>>
  /\ UNCHANGED <<input, emitted, mode>>

\* emit_function
Emitting == input.functions[Len(emitted) + 1]

LastParam(f, r) ==
  {k \in DOMAIN f.params : f.params[k].n = r /\ \A j \in k + 1 .. Len(f.params) : f.params[j].n # r}

Initial(f) == [i \in 1 .. f.n_regs |->
  LET k == LastParam(f, i - 1)
  IN  IF k = {} THEN Nothing ELSE IrOperand("param", f.params[CHOOSE j \in k : TRUE].s, 0)]

BeginIr ==
  /\ mode = "function"
  /\ IF Len(emitted) = Len(input.functions) THEN mode' = "emitted" /\ UNCHANGED <<emitter, open>>
     ELSE /\ mode' = "body"
          /\ emitter' = [emitter EXCEPT !.code = <<>>, !.env = Initial(Emitting), !.loops = 0]
          /\ open' = <<Open(Node("body", "", 0, Emitting.body), TRUE, Nothing)>>
  /\ UNCHANGED <<input, emitted, value>>

\* The trimmed text never ends with a newline, so a ret is always added.
EndIr ==
  /\ mode = "body" /\ value = <<>> /\ HasAll(Inner) /\ Len(open) = 1
  /\ LET f == Emitting
         all == Issue(emitter, "ret", IF f.ret_ty = "void" THEN <<>> ELSE <<Number(0)>>)
     IN  emitted' = Append(emitted,
           [name |-> f.name, ty |-> qbe_ty(f.ret_ty), code |-> all.code,
            params |-> [k \in DOMAIN f.params |-> f.params[k].s]])
  /\ mode' = "function" /\ open' = <<>>
  /\ UNCHANGED <<input, emitter, value>>

-----------------------------------------------------------------------------
QbeInit ==
  /\ input = [structs |-> <<>>, functions |-> <<>>] /\ emitted = <<>> /\ mode = "idle"
  /\ emitter = NewEmitter /\ open = <<>> /\ value = <<>>

Emission(p) ==
  /\ mode = "idle"
  /\ input' = p /\ mode' = "function"
  /\ UNCHANGED <<emitted, emitter, open, value>>

QbeStep == BeginIr \/ CallEmit \/ ReturnEmit \/ TakeValue \/ EndIr

QbeNext == QbeStep \/ \E p \in Programs : Emission(p)

QbeSpec == QbeInit /\ [][QbeNext]_qbeVars

-----------------------------------------------------------------------------
(* A temporary is defined once in the whole output, and what uses it stands *)
(* behind its definition, in the same function (the names of QBE are local).*)
QbeSingleAssignment ==
  \A f, g \in DOMAIN emitted :
    \A k \in DOMAIN emitted[f].code, j \in DOMAIN emitted[g].code :
      LET i == emitted[f].code[k]
      IN  /\ i.dst # -1 /\ i.dst = emitted[g].code[j].dst => f = g /\ k = j
          /\ \A o \in ToSet(i.args) : o.k = "temp" =>
               \E d \in 1 .. k - 1 : emitted[f].code[d].dst = o.n
=============================================================================
