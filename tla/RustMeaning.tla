---------------------------- MODULE RustMeaning -----------------------------
(***************************************************************************)
(* What a Bear program means, told by its syntax tree alone: registers are *)
(* names, statements are executed in order, operands are evaluated from    *)
(* left to right.  The reference that the machine of RustVm is held to.    *)
(***************************************************************************)
EXTENDS RustVm

Word == WordMin .. WordMax
WordOf(n) == CHOOSE w \in Word : (w - n) % (WordMax - WordMin + 1) = 0

\* flow: "next", "ret" with val, "jump" to label, "fails", or "long" when the
\* fuel for calls, jumps and passes of loops is used up.
Stop(st, flow) == [st EXCEPT !.flow = flow]
Value(st, v) == [st EXCEPT !.val = v]
Burn(st) == IF st.fuel = 0 THEN Stop(st, "long") ELSE [st EXCEPT !.fuel = @ - 1]

Apply(op, x, y, st) ==
  LET a == x.n
      b == y.n
  IN  CASE op = "eq" -> IF x.tag = y.tag /\ x # Void THEN Value(st, BoolSlot(x = y))
                        ELSE Stop(st, "fails")
        [] op # "eq" /\ (~IsInt(x) \/ ~IsInt(y)) -> Stop(st, "fails")
        [] op # "eq" /\ IsInt(x) /\ IsInt(y) ->
             CASE op = "add" -> Value(st, IntSlot(WordOf(a + b)))
               [] op = "sub" -> Value(st, IntSlot(WordOf(a - b)))
               [] op = "mul" -> Value(st, IntSlot(WordOf(a * b)))
               [] op = "div" -> IF b = 0 \/ (a = WordMin /\ b = -1) THEN Stop(st, "fails")
                                ELSE Value(st, IntSlot(Quotient(a, b)))
               [] op = "lt" -> Value(st, BoolSlot(a < b))
               [] op = "gt" -> Value(st, BoolSlot(a > b))

FunctionNamed(prog, name) ==
  prog.functions[Max({i \in DOMAIN prog.functions : prog.functions[i].name = name})]
IsFunction(prog, name) == \E i \in DOMAIN prog.functions : prog.functions[i].name = name

RECURSIVE Eval(_, _, _), EvalAll(_, _, _, _), Exec(_, _, _), Block(_, _, _, _), Body(_, _, _, _)

\* vals: the values of the arguments so far.
EvalAll(args, i, st, prog) ==
  IF i > Len(args) \/ st.flow # "next" THEN st
  ELSE LET v == Eval(args[i], st, prog)
       IN  EvalAll(args, i + 1, [v EXCEPT !.vals = Append(st.vals, v.val)], prog)

Invoke(name, st, prog) ==
  LET f == FunctionNamed(prog, name)
      given == {k \in DOMAIN st.vals : TRUE}
      env == [r \in {f.params[k].s : k \in given} |->
                st.vals[Max({k \in given : f.params[k].s = r})]]
      done == Body(f.body, 1, [Burn(st) EXCEPT !.env = env], prog)
  IN  CASE IsFunction(prog, name) ->
             IF Len(st.vals) > Len(f.params) THEN Stop(st, "fails")
             ELSE [done EXCEPT !.env = st.env, !.flow = IF @ = "ret" THEN "next" ELSE @]
        [] ~IsFunction(prog, name) /\ name = "puts" ->
             Value([st EXCEPT !.out = @ \o SelectSeq(st.vals, LAMBDA s : s # Void)], Void)
        [] ~IsFunction(prog, name) /\ name = "flush" -> Value(st, Void)
        [] OTHER -> Stop(st, "fails")

Eval(e, st, prog) ==
  LET a == Eval(e.args[1], st, prog)
      b == Eval(e.args[2], a, prog)
      all == EvalAll(e.args, 1, [st EXCEPT !.vals = <<>>], prog)
      called == Invoke(e.s, all, prog)
  IN  CASE st.flow # "next" -> st
        [] st.flow = "next" /\ e.k = "Int" -> Value(st, IntSlot(e.n))
        [] st.flow = "next" /\ e.k = "Str" -> Value(st, StrSlot(e.s))
        [] st.flow = "next" /\ e.k = "Named" ->
             IF e.s \in {"READ", "WRITE"} THEN Value(st, IntSlot(IF e.s = "READ" THEN 0 ELSE 1))
             ELSE Stop(st, "fails")
        [] st.flow = "next" /\ e.k = "Reg" ->
             Value(st, IF e.s \in DOMAIN st.env THEN st.env[e.s] ELSE Void)
        [] st.flow = "next" /\ e.k = "const" -> a
        [] st.flow = "next" /\ e.k \in Binary ->
             IF b.flow # "next" THEN b ELSE Apply(e.k, a.val, b.val, b)
        [] st.flow = "next" /\ e.k = "call" ->
             IF all.flow # "next" THEN all ELSE [called EXCEPT !.vals = st.vals]

Exec(s, st, prog) ==
  LET v == Eval(s.args[1], st, prog)
      w == Eval(s.args[2], st, prog)
      yes == v.val.n # 0
      condition == v.flow = "next" /\ v.val.tag \in {"bool", "int"}
      again == Block(s.args, 2, Burn(v), prog)
      jump(label) == [Burn(v) EXCEPT !.flow = IF @ = "next" THEN "jump" ELSE @, !.label = label]
  IN  CASE s.k = "assign" ->
             IF w.flow # "next" THEN w
             ELSE [w EXCEPT !.env = (s.args[1].s :> w.val) @@ st.env]
        [] s.k = "call" -> Eval(s, st, prog)
        [] s.k = "ret" -> IF v.flow = "next" THEN Stop(v, "ret") ELSE v
        [] s.k = "label" -> st
        [] s.k = "jmp" -> [Burn(st) EXCEPT !.flow = IF @ = "next" THEN "jump" ELSE @, !.label = s.s]
        [] s.k \in {"while", "br_if"} /\ ~condition ->
             IF v.flow = "next" THEN Stop(v, "fails") ELSE v
        [] s.k = "while" /\ condition ->
             IF ~yes THEN v ELSE IF again.flow = "next" THEN Exec(s, again, prog) ELSE again
        [] s.k = "br_if" /\ condition -> jump(s.args[IF yes THEN 2 ELSE 3].s)

Block(body, i, st, prog) ==
  IF i > Len(body) \/ st.flow # "next" THEN st
  ELSE Block(body, i + 1, Exec(body[i], st, prog), prog)

\* Labels are statements of the function itself, not of its loops.
Body(body, i, st, prog) ==
  LET done == Block(body, i, st, prog)
      targets == {k \in DOMAIN body : body[k].k = "label" /\ body[k].s = done.label}
  IN  CASE done.flow = "jump" -> Body(body, Max(targets), Stop(done, "next"), prog)
        [] done.flow = "next" -> Stop(Value(done, Void), "ret")
        [] OTHER -> done

-----------------------------------------------------------------------------
\* A node and all below it, in the order of the text.
RECURSIVE Nodes(_)
Nodes(e) == <<e>> \o FlattenSeq([i \in DOMAIN e.args |-> Nodes(e.args[i])])
AllNodes(f) == FlattenSeq([i \in DOMAIN f.body |-> Nodes(f.body[i])])
NodeSet(f) == ToSet(AllNodes(f))

\* A call of no function, a jump to no label: such programs are not started.
Complete(prog) ==
  /\ IsFunction(prog, "main")
  /\ \A i \in DOMAIN prog.functions : LET f == prog.functions[i] IN \A e \in NodeSet(f) :
       /\ e.k = "call" => IsFunction(prog, e.s) \/ Contains(Builtins, e.s)
       /\ LET labels == {d.s : d \in {d \in NodeSet(f) : d.k = "label"}}
          IN  /\ e.k = "jmp" => e.s \in labels
              /\ e.k = "br_if" => {e.args[2].s, e.args[3].s} \subseteq labels

Meaning(prog, fuel) ==
  LET st == [env |-> <<>>, out |-> <<>>, flow |-> "next", val |-> Void, vals |-> <<>>,
             label |-> "", fuel |-> fuel]
  IN  IF Complete(prog) THEN Invoke("main", st, prog) ELSE Stop(st, "fails")

-----------------------------------------------------------------------------
(* The program with numbers for the names of registers: they count from 0  *)
(* in the order in which the function's text mentions them first.          *)
NamesOf(f) ==
  LET mentions == f.params \o SelectSeq(AllNodes(f), LAMBDA e : e.k = "Reg")
      First(i) == \A j \in 1 .. i - 1 : mentions[j].s # mentions[i].s
      firsts == SetToSortSeq({i \in DOMAIN mentions : First(i)}, <)
  IN  [k \in DOMAIN firsts |-> mentions[firsts[k]].s]

RECURSIVE Numbered(_, _)
Numbered(e, names) ==
  IF e.k = "Reg" THEN Register(NumberOf(names, e.s))
  ELSE [e EXCEPT !.args = [i \in DOMAIN @ |-> Numbered(@[i], names)]]

NumberedFunction(f) ==
  LET names == NamesOf(f)
      Param(p) == Node("param", p.s, NumberOf(names, p.s), p.args)
  IN  Function(f.name, [k \in DOMAIN f.params |-> Param(f.params[k])], f.ret_ty,
               [k \in DOMAIN f.body |-> Numbered(f.body[k], names)], Len(names))

Parsed(prog) ==
  [ok |-> TRUE, structs |-> prog.structs,
   functions |-> [i \in DOMAIN prog.functions |-> NumberedFunction(prog.functions[i])]]

-----------------------------------------------------------------------------
(* Discipline of programs, without which scratch registers and argument    *)
(* ranges of the compiler get in each other's way.                         *)
IsAtom(e) == Bare(e).k \in {"Int", "Reg"}
IsFlat(e) ==
  \/ Bare(e).k \in {"Int", "Reg", "Str", "Named"}
  \/ e.k \in Binary /\ IsAtom(e.args[1]) /\ IsAtom(e.args[2])
  \/ e.k = "call" /\ \A i \in DOMAIN e.args : Bare(e.args[i]).k = "Reg"

RunsHere == {"assign", "call", "ret", "while", "label", "jmp", "br_if"} \cup Binary
              \cup {"Reg", "Int", "Str", "Named", "const"}

\* The registers other than parameters are all assigned first of all.
AssignsFirst(f) ==
  LET own == SubSeq(NamesOf(f), Len(f.params) + 1, Len(NamesOf(f)))
  IN  /\ own # <<>> \/ Len(f.params) <= 1
      /\ Len(own) <= Len(f.body)
      /\ \A i \in DOMAIN own : f.body[i].k = "assign" /\ f.body[i].args[1].s = own[i]

\* A loop that becomes a SimdLoop: everything is an integer, the limit and
\* the constants stay where they are, and with vectors every pass changes
\* every register by the same amount.
IsPlainLoop(s) ==
  /\ s.k = "while" /\ s.args[1].k \in {"lt", "gt"}
  /\ \A i \in 2 .. Len(s.args) : s.args[i].k = "assign"
  /\ \A e \in ToSet(Nodes(s)) : e.k \notin {"call", "Str", "Named", "eq"}

Accumulates(s, written) ==
  LET e == s.args[2]
  IN  /\ e.k \in {"add", "sub"} /\ Bare(e.args[1]) = s.args[1]
      /\ Bare(e.args[2]).s \notin written

KeepsToIntegers(f, s, v) ==
  LET written == {s.args[i].args[1].s : i \in 2 .. Len(s.args)}
  IN  /\ \A e \in NodeSet(f) : e.k \notin {"Str", "Named", "eq", "div"}
      /\ \A e \in NodeSet(f) : e.k = "assign" => e.args[2].k \notin {"call", "lt", "gt"}
      /\ \A i \in 2 .. Len(s.args) : Bare(s.args[i].args[2]).k # "Int"
      /\ Bare(s.args[1].args[2]).s \notin written
      /\ v => \A i \in 2 .. Len(s.args) : Accumulates(s.args[i], written)

\* v: for processors with vectors.
Disciplined(prog, v) == \A i \in DOMAIN prog.functions :
  LET f == prog.functions[i]
  IN  /\ AssignsFirst(f)
      /\ \A e \in NodeSet(f) :
           /\ e.k \in RunsHere
           /\ e.k = "assign" => IsFlat(e.args[2])
           /\ e.k = "while" => \A a \in ToSet(e.args) : a.k # "label"
           /\ e.k = "eq" => \A a \in ToSet(e.args) : Bare(a).k # "Int"
           /\ e.k = "call" => \A a \in ToSet(Tail(Nodes(e))) : a.k # "call"
           /\ IsPlainLoop(e) => KeepsToIntegers(f, e, v)
=============================================================================
