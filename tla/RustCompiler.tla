---------------------------- MODULE RustCompiler ----------------------------
(***************************************************************************)
(* From the syntax tree to the bytecode of the Rust virtual machine        *)
(* (Compiler in rust_version/src/vm.rs): registers of nested expressions,  *)
(* constant pools, argument ranges, patches of jumps, and the loops that   *)
(* become one SimdLoop instruction.                                        *)
(*                                                                         *)
(* compile_expr and compile_stmt call each other and themselves: calls     *)
(* holds those that have not returned, the innermost last.                 *)
(***************************************************************************)
EXTENDS RustTree

VARIABLES
  tree,      \* the program
  compiled,  \* its functions that are compiled, in order
  phase,     \* "idle"; "function", then "body", "patch" and "loops" of each function;
             \* in the end "done", or "failed" for an Err
  comp,      \* the Compiler of the function that is being compiled
  calls,     \* its calls of compile_expr and compile_stmt
  ret,       \* <<r>> when one has just returned register r, or <<>>
  scan       \* rewrite_simd_loops: the instruction it is at, counted from 1, and
             \* the last one of the loop that it rewrites, or 0

compilerVars == <<tree, compiled, phase, comp, calls, ret, scan>>

Builtins == <<"puts", "flush", "open", "read", "write", "close">>

\* flag 1: a is in the integer pool; flag 2: b is.
Instr(op, flag, dst, a, b) == [op |-> op, flag |-> flag, dst |-> dst, a |-> a, b |-> b]
LitA(ins) == ins.flag % 2 = 1
LitB(ins) == ins.flag \div 2 = 1

\* build_call_cache: a function may take the name of a builtin, and the last
\* of several functions of one name is the one that is called.
LastNamed(fs, name) ==
  {i \in DOMAIN fs : fs[i].name = name /\ \A j \in i + 1 .. Len(fs) : fs[j].name # name}

CallTarget(fs, name) ==
  IF LastNamed(fs, name) # {}
  THEN [user |-> TRUE, idx |-> (CHOOSE i \in LastNamed(fs, name) : TRUE) - 1]
  ELSE [user |-> FALSE, idx |-> IndexOf(Builtins, name)]

IsDefined(fs, name) == LastNamed(fs, name) # {} \/ Contains(Builtins, name)

NewCompiler ==
  [code |-> <<>>, int_pool |-> <<>>, str_pool |-> <<>>, name_pool |-> <<>>, arg_regs |-> <<>>,
   arg_ranges |-> <<>>, field_entries |-> <<>>, simd_loops |-> <<>>, patches |-> <<>>,
   labels |-> <<>>, max_reg |-> 0]

\* Mutant: the registers that calls write are not counted.
EmitUncounted(c, op, flag, dst, a, b) ==
  [c EXCEPT !.code = Append(@, Instr(op, flag, dst, a, b)),
            !.max_reg = IF dst > @ /\ op # "CallUser" THEN dst ELSE @]

Emit(c, op, flag, dst, a, b) ==
  [c EXCEPT !.code = Append(@, Instr(op, flag, dst, a, b)),
            !.max_reg = IF dst > @ THEN dst ELSE @]

Pool(c, n) == [c EXCEPT !.int_pool = With(@, n)]
Str(c, s) == [c EXCEPT !.str_pool = With(@, s)]
Name(c, s) == [c EXCEPT !.name_pool = With(@, s)]
NameIdx(c, s) == IndexOf(c.name_pool, s)

-----------------------------------------------------------------------------
(* A call: its node and the register it is given; whether it is a          *)
(* statement; what has been found of its operands; how long the table of   *)
(* arguments, of fields or the code was at first; of a while, its branch.  *)
Opened(e, dst, stmt, c) ==
  [e |-> e, dst |-> dst, stmt |-> stmt, got |-> <<>>, br |-> 0,
   from |-> CASE e.k = "call" -> Len(c.arg_regs)
              [] e.k = "StructLit" -> Len(c.field_entries)
              [] OTHER -> Len(c.code)]

Current == calls[Len(calls)]

IsDone(f) == Len(f.got) = NumKids(f.e)
NextKid(f) == Kid(f.e, Len(f.got) + 1)

\* Where an operand is: in a register or in the pool.
InReg(r) == [lit |-> 0, at |-> r]
InPool(i) == [lit |-> 1, at |-> i]

\* The register that a statement gives its expression.
Scratch(s, c) ==
  CASE s.k = "assign" -> s.args[1].n
    [] s.k \in {"set", "store"} -> s.args[1].n + 1
    [] OTHER -> c.max_reg + 1

\* Mutant: the second operand is always computed in the destination.
SecondSideSame(f) == f.dst

SecondSide(f) == IF f.got[1] = InReg(f.dst) THEN f.dst + 1 ELSE f.dst

\* The register for its next node.
Place(f, c) ==
  LET j == Len(f.got) + 1
  IN  CASE NextIsStmt(f) -> Scratch(NextKid(f), c)
        [] f.e.k \in Binary /\ j = 2 -> SecondSide(f)
        [] f.e.k = "get_index_ref" -> f.dst + 1
        [] f.e.k = "StructLit" -> f.dst + j
        [] f.e.k = "call" -> f.dst + j - 1
        [] OTHER -> f.dst

\* Expr::Const around an operand of a binary operation does not count.
Bare(e) == IF e.k = "const" THEN e.args[1] ELSE e
NeedsNoCode(f) == f.e.k \in Binary /\ Bare(NextKid(f)).k \in {"Int", "Reg"}

\* Names that get their number first: of a field, then of what is called.
NamesFirst(f, kid, c) ==
  LET d == IF f.e.k = "StructLit" THEN Name(c, f.e.args[Len(f.got) + 1].s) ELSE c
  IN  IF kid.k \in {"StructLit", "set"} THEN Name(d, kid.s) ELSE d

Give(x) == [calls EXCEPT ![Len(calls)] = [Current EXCEPT !.got = Append(@, x)]]

-----------------------------------------------------------------------------
(* compile_binop: an operand that is in a register or in the pool.         *)
Operand ==
  /\ phase = "body" /\ ret = <<>> /\ ~IsDone(Current) /\ NeedsNoCode(Current)
  /\ LET e == Bare(NextKid(Current))
         c == Pool(comp, e.n)
     IN  IF e.k = "Int" THEN comp' = c /\ calls' = Give(InPool(IndexOf(c.int_pool, e.n)))
         ELSE comp' = comp /\ calls' = Give(InReg(e.n))
  /\ UNCHANGED <<tree, compiled, phase, ret, scan>>

Enter ==
  /\ phase = "body" /\ ret = <<>> /\ ~IsDone(Current) /\ ~NeedsNoCode(Current)
  /\ LET kid == NextKid(Current)
     IN  /\ comp' = NamesFirst(Current, kid, comp)
         /\ calls' = Append(calls, Opened(kid, Place(Current, comp), NextIsStmt(Current), comp))
  /\ UNCHANGED <<tree, compiled, phase, ret, scan>>

(* The caller gets the register: build_arg_range, the fields of a struct   *)
(* literal and the branch of a while go on from there.                     *)
Noted(f, c, r) ==
  CASE f.e.k = "call" -> [c EXCEPT !.arg_regs = Append(@, r)]
    [] f.e.k = "StructLit" ->
         LET name == NameIdx(c, f.e.args[Len(f.got) + 1].s)
         IN  [c EXCEPT !.field_entries = Append(@, [name_idx |-> name, src_reg |-> r])]
    [] f.e.k = "while" /\ f.got = <<>> -> Emit(c, "BrIf", 0, r, 0, 0)
    [] OTHER -> c

Receive ==
  /\ phase = "body" /\ ret # <<>>
  /\ comp' = Noted(Current, comp, ret[1])
  /\ calls' = [calls EXCEPT ![Len(calls)] =
                 [Current EXCEPT !.got = Append(@, InReg(ret[1])),
                                 !.br = IF Current.got = <<>> THEN Len(comp.code) ELSE @]]
  /\ ret' = <<>>
  /\ UNCHANGED <<tree, compiled, phase, scan>>

-----------------------------------------------------------------------------
(* What a call does when it has its operands.                              *)
Ranged(f, c) ==
  [c EXCEPT !.arg_ranges = Append(@, [start |-> f.from, len |-> Len(f.got)])]

CallOp(user, stmt) ==
  IF user THEN IF stmt THEN "CallUserVoid" ELSE "CallUser"
  ELSE IF stmt THEN "CallBuiltinVoid" ELSE "CallBuiltin"

EmitCall(f, c) ==
  LET target == CallTarget(tree.functions, f.e.s)
  IN  Emit(Ranged(f, c), CallOp(target.user, f.stmt), 0, IF f.stmt THEN 0 ELSE f.dst,
           target.idx, Len(c.arg_ranges))

\* Instruction pc gets another target: field 0 is a, field 1 is b.
SetTarget(c, pc, field, to) ==
  [c EXCEPT !.code[pc + 1] = IF field = 0 THEN [@ EXCEPT !.a = to] ELSE [@ EXCEPT !.b = to]]

\* The jump at pc is to get the address of a label.
Patch(c, pc, field, label) ==
  [c EXCEPT !.patches = Append(@, [pc |-> pc, field |-> field, label |-> label])]

CloseLoop(f, c) ==
  LET d == Emit(c, "Jmp", 0, 0, f.from, 0)
  IN  SetTarget(SetTarget(d, f.br, 0, f.br + 1), f.br, 1, Len(d.code))

\* Of several labels of one name the last one counts.
SetLabelAt(c, name) ==
  [c EXCEPT !.labels =
     [l \in DOMAIN @ \cup {name} |-> IF l = name THEN Len(c.code) ELSE c.labels[l]]]

EmitExpr(f, c) ==
  LET e == f.e
      reg == e.args[1].n
      at == f.got[1].at
      pooled == Pool(c, e.n)
      text == Str(c, e.s)
      named == Name(c, e.s)
      name == NameIdx(named, e.s)
  IN  CASE e.k \in {"Reg", "const"} -> c
        [] e.k = "Int" -> Emit(pooled, "LoadInt", 0, f.dst, IndexOf(pooled.int_pool, e.n), 0)
        [] e.k = "Str" -> Emit(text, "LoadStr", 0, f.dst, IndexOf(text.str_pool, e.s), 0)
        [] e.k = "Named" -> Emit(text, "LoadNamed", 0, f.dst, IndexOf(text.str_pool, e.s), 0)
        [] e.k \in Binary -> Emit(c, e.k, f.got[1].lit + 2 * f.got[2].lit, f.dst, at, f.got[2].at)
        [] e.k = "Field" -> Emit(named, "GetField", 0, f.dst, reg, name)
        [] e.k = "alloc" -> Emit(c, "AllocBytes", 0, f.dst, at, 0)
        [] e.k = "alloc_array" -> Emit(named, "AllocArrayStruct", 0, f.dst, at, name)
        [] e.k = "get_index_ref" -> Emit(c, "GetIndexRef", 0, f.dst, reg, at)
        [] e.k = "get_field_ref" -> Emit(named, "GetFieldRef", 0, f.dst, reg, name)
        [] e.k = "load" -> Emit(c, "LoadRef", 0, f.dst, reg, 0)
        [] e.k = "StructLit" ->
             Emit(Ranged(f, c), "StructLit", 0, f.dst, NameIdx(c, e.s), Len(c.arg_ranges))
        [] e.k = "call" -> EmitCall(f, c)

EmitStmt(f, c) ==
  LET s == f.e
      reg == s.args[1].n
      r == f.got[1].at
      pc == Len(c.code)
  IN  CASE s.k = "assign" -> IF r # reg THEN Emit(c, "Move", 0, reg, r, 0) ELSE c
        [] s.k = "set" -> Emit(c, "SetField", 0, reg, NameIdx(c, s.s), r)
        [] s.k = "store" -> Emit(c, "StoreRef", 0, reg, r, 0)
        [] s.k = "call" -> EmitCall(f, c)
        [] s.k = "ret" -> Emit(c, "Ret", 0, r, 0, 0)
        [] s.k = "while" -> CloseLoop(f, c)
        [] s.k = "label" -> Emit(SetLabelAt(c, s.s), "SetLabel", 0, 0, 0, 0)
        [] s.k = "jmp" -> Patch(Emit(c, "Jmp", 0, 0, 0, 0), pc, 0, s.s)
        [] s.k = "br_if" ->
             Patch(Patch(Emit(c, "BrIf", 0, r, 0, 0), pc, 0, s.args[2].s), pc, 1, s.args[3].s)

\* The register that an expression is in, which need not be the one given.
Result(f) ==
  CASE f.stmt -> 0
    [] ~f.stmt /\ f.e.k = "Reg" -> f.e.n
    [] ~f.stmt /\ f.e.k = "const" -> f.got[1].at
    [] OTHER -> f.dst

Fails == phase' = "failed" /\ UNCHANGED <<tree, compiled, comp, calls, ret, scan>>

Leave ==
  /\ phase = "body" /\ ret = <<>> /\ IsDone(Current) /\ Len(calls) > 1
  /\ IF Current.e.k = "call" /\ ~IsDefined(tree.functions, Current.e.s) THEN Fails
     ELSE /\ comp' = IF Current.stmt THEN EmitStmt(Current, comp) ELSE EmitExpr(Current, comp)
          /\ calls' = Front(calls)
          /\ ret' = <<Result(Current)>>
          /\ UNCHANGED <<tree, compiled, phase, scan>>

-----------------------------------------------------------------------------
(* compile_function and finish.                                            *)
Fn == tree.functions[Len(compiled) + 1]

Compiling(p) ==
  /\ phase = "idle"
  /\ tree' = p /\ phase' = "function"
  /\ UNCHANGED <<compiled, comp, calls, ret, scan>>

BeginFunction ==
  /\ phase = "function"
  /\ IF Len(compiled) = Len(tree.functions) THEN phase' = "done" /\ UNCHANGED <<comp, calls>>
     ELSE /\ phase' = "body"
          /\ comp' = NewCompiler
          /\ calls' = <<Opened(Node("body", "", 0, Fn.body), 0, TRUE, NewCompiler)>>
  /\ UNCHANGED <<tree, compiled, ret, scan>>

EndBody ==
  /\ phase = "body" /\ ret = <<>> /\ IsDone(Current) /\ Len(calls) = 1
  /\ phase' = "patch" /\ calls' = <<>>
  /\ UNCHANGED <<tree, compiled, comp, ret, scan>>

\* apply_patches
ApplyPatch ==
  /\ phase = "patch" /\ comp.patches # <<>>
  /\ LET p == Head(comp.patches)
     IN  IF p.label \notin DOMAIN comp.labels THEN Fails
         ELSE /\ comp' = [SetTarget(comp, p.pc, p.field, comp.labels[p.label])
                            EXCEPT !.patches = Tail(@)]
              /\ UNCHANGED <<tree, compiled, phase, calls, ret, scan>>

EndReturn(c) ==
  IF c.code # <<>> /\ Last(c.code).op \in {"Ret", "RetVoid"} THEN c
  ELSE Emit(c, "RetVoid", 0, 0, 0, 0)

EndPatches ==
  /\ phase = "patch" /\ comp.patches = <<>>
  /\ phase' = "loops" /\ comp' = EndReturn(comp) /\ scan' = [at |-> 1, end |-> 0]
  /\ UNCHANGED <<tree, compiled, calls, ret>>

-----------------------------------------------------------------------------
(* rewrite_simd_loops: a comparison of a register, a BrIf on it, plain     *)
(* arithmetic, and the Jmp back to the comparison.                         *)
Plain == {"add", "sub", "mul", "div", "lt", "gt", "Move", "LoadInt", "SetLabel"}

\* The loop whose comparison is instruction i.
IsSimdLoop(code, i) ==
  /\ code[i].op \in {"lt", "gt"} /\ ~LitA(code[i])
  /\ LET br == code[i + 1]
     IN  /\ br.op = "BrIf" /\ br.dst = code[i].dst /\ br.a = i + 1 /\ br.b > br.a
         /\ code[br.b].op = "Jmp" /\ code[br.b].a = i - 1
         /\ \A k \in i + 2 .. br.b - 1 : code[k].op \in Plain
         /\ \E k \in i + 2 .. br.b - 1 : code[k].op # "SetLabel"

SimdStart(cmp, idx) ==
  Instr("SimdLoop", (IF cmp.op = "lt" THEN 1 ELSE 0) + (IF LitB(cmp) THEN 2 ELSE 0),
        cmp.a, idx, cmp.b)

Outside == phase = "loops" /\ scan.end = 0

SkipInstr ==
  /\ Outside /\ scan.at + 2 <= Len(comp.code) /\ ~IsSimdLoop(comp.code, scan.at)
  /\ scan' = [scan EXCEPT !.at = @ + 1]
  /\ UNCHANGED <<tree, compiled, phase, comp, calls, ret>>

BeginSimdLoop ==
  /\ Outside /\ scan.at + 2 <= Len(comp.code) /\ IsSimdLoop(comp.code, scan.at)
  /\ comp' = [comp EXCEPT !.code[scan.at] = SimdStart(@, Len(comp.simd_loops)),
                          !.simd_loops = Append(@, <<>>)]
  /\ scan' = [at |-> scan.at + 1, end |-> comp.code[scan.at + 1].b]
  /\ UNCHANGED <<tree, compiled, phase, calls, ret>>

\* An instruction of the loop moves to the SimdLoop, but for the BrIf, the Jmp
\* and the labels.
MoveInstr ==
  /\ phase = "loops" /\ scan.end # 0
  /\ LET moved == comp.code[scan.at]
         body == Len(comp.simd_loops)
     IN  comp' = [comp EXCEPT
           !.code[scan.at] = Instr("SetLabel", 0, 0, 0, 0),
           !.simd_loops[body] =
              IF moved.op \in Plain \ {"SetLabel"} THEN Append(@, moved) ELSE @]
  /\ scan' = [at |-> scan.at + 1, end |-> IF scan.at = scan.end THEN 0 ELSE scan.end]
  /\ UNCHANGED <<tree, compiled, phase, calls, ret>>

NumRegs(n, c) == IF n > c.max_reg + 1 THEN n ELSE c.max_reg + 1

Finish ==
  /\ Outside /\ scan.at + 2 > Len(comp.code)
  /\ compiled' = Append(compiled,
       [n_regs |-> NumRegs(Fn.n_regs, comp), code |-> comp.code, int_pool |-> comp.int_pool,
        str_pool |-> comp.str_pool, name_pool |-> comp.name_pool, arg_regs |-> comp.arg_regs,
        arg_ranges |-> comp.arg_ranges, field_entries |-> comp.field_entries,
        simd_loops |-> comp.simd_loops])
  /\ phase' = "function"
  /\ UNCHANGED <<tree, comp, calls, ret, scan>>

-----------------------------------------------------------------------------
CompilerInit ==
  /\ tree = [structs |-> <<>>, functions |-> <<>>] /\ compiled = <<>> /\ phase = "idle"
  /\ comp = NewCompiler /\ calls = <<>> /\ ret = <<>> /\ scan = [at |-> 1, end |-> 0]

CompilerStep ==
  \/ BeginFunction \/ Operand \/ Enter \/ Receive \/ Leave \/ EndBody
  \/ ApplyPatch \/ EndPatches \/ SkipInstr \/ BeginSimdLoop \/ MoveInstr \/ Finish

CompilerNext == CompilerStep \/ \E p \in Programs : Compiling(p)

CompilerSpec == CompilerInit /\ [][CompilerNext]_compilerVars

-----------------------------------------------------------------------------
(* What the machine needs of an instruction i: c has the tables of its     *)
(* function, n registers, and the program fs functions.  Two things are    *)
(* outside: an eq takes the number of a constant for the number of a       *)
(* register, and so does a constant in the body of a SimdLoop, which is a  *)
(* panic.                                                                  *)
Below(table) == 0 .. Len(table) - 1
FitsA(c, n, i) == i.a \in IF LitA(i) THEN Below(c.int_pool) ELSE 0 .. n - 1
FitsB(c, n, i) == i.b \in IF LitB(i) THEN Below(c.int_pool) ELSE 0 .. n - 1

RangeIn(c, k, table) ==
  k \in Below(c.arg_ranges) /\ c.arg_ranges[k + 1].start + c.arg_ranges[k + 1].len <= Len(table)

FitsFrame(c, n, fs, i) ==
  LET Fits(r) == r \in 0 .. n - 1
  IN  /\ Fits(i.dst)
      /\ i.op \in Binary /\ (i.op # "eq" \/ i.flag = 0) => FitsA(c, n, i) /\ FitsB(c, n, i)
      /\ i.op \in {"Move", "AllocBytes", "AllocArrayStruct", "LoadRef", "StoreRef", "GetField",
                   "GetFieldRef", "GetIndexRef"} => Fits(i.a)
      /\ i.op \in {"GetIndexRef", "SetField"} => Fits(i.b)
      /\ i.op \in {"GetField", "GetFieldRef", "AllocArrayStruct"} => i.b \in Below(c.name_pool)
      /\ i.op \in {"SetField", "StructLit"} => i.a \in Below(c.name_pool)
      /\ i.op = "LoadInt" => i.a \in Below(c.int_pool)
      /\ i.op \in {"LoadStr", "LoadNamed"} => i.a \in Below(c.str_pool)
      /\ i.op = "StructLit" => RangeIn(c, i.b, c.field_entries)
      /\ i.op \in {"CallUser", "CallUserVoid"} => i.a \in 0 .. fs - 1
      /\ i.op \in {"CallBuiltin", "CallBuiltinVoid"} => i.a \in Below(Builtins)
      /\ i.op \in {"CallUser", "CallUserVoid", "CallBuiltin", "CallBuiltinVoid"} =>
           RangeIn(c, i.b, c.arg_regs)
      /\ i.op = "SimdLoop" => FitsB(c, n, i) /\ i.a \in Below(c.simd_loops)

TablesFit(c, n) ==
  LET Fits(r) == r \in 0 .. n - 1
  IN  /\ \A k \in DOMAIN c.arg_regs : Fits(c.arg_regs[k])
      /\ \A k \in DOMAIN c.field_entries :
           /\ Fits(c.field_entries[k].src_reg)
           /\ c.field_entries[k].name_idx \in Below(c.name_pool)
      /\ \A l \in DOMAIN c.simd_loops : \A k \in DOMAIN c.simd_loops[l] :
           LET o == c.simd_loops[l][k]
           IN  /\ Fits(o.dst)
               /\ o.op # "LoadInt" => FitsA(c, n, o)
               /\ o.op \in Binary => FitsB(c, n, o)

JumpsInside(c, i) ==
  /\ i.op \in {"Jmp", "BrIf"} => i.a \in Below(c.code)
  /\ i.op = "BrIf" => i.b \in Below(c.code)

(* The machine reads registers, tables and code without bounds checks; what *)
(* the compiler makes never needs them.                                     *)
CodeInBounds == \A f \in DOMAIN compiled :
  LET c == compiled[f]
  IN  /\ TablesFit(c, c.n_regs)
      /\ \A k \in DOMAIN c.code :
           FitsFrame(c, c.n_regs, Len(tree.functions), c.code[k]) /\ JumpsInside(c, c.code[k])
=============================================================================
