------------------------- MODULE RustCodeProofs -------------------------
(***************************************************************************)
(* Proofs about both back ends of the Rust implementation, for programs of *)
(* any size and any nesting: the compiler makes code that stays within its *)
(* tables and registers, and the emitter for QBE makes code in single      *)
(* assignment form.                                                        *)
(*                                                                         *)
(* While a function is compiled its tables only grow (Grows), so that what *)
(* fits once fits for good; the code is changed in place by patches and    *)
(* by the rewriting of loops alone, which keep what jumps are for.  What   *)
(* is emitted for QBE only gets longer (Follows): what is defined once in  *)
(* a function stays defined.                                               *)
(***************************************************************************)
EXTENDS RustCompiler, Qbe, SequenceTheorems, WellFoundedInduction, TLAPS

-----------------------------------------------------------------------------
(* The inductive invariant.                                                *)
Ops ==
  Binary \cup
  {"Move", "LoadInt", "LoadStr", "LoadNamed", "GetField", "GetFieldRef", "GetIndexRef", "SetField",
   "AllocBytes", "AllocArrayStruct", "LoadRef", "StoreRef", "StructLit", "CallUser",
   "CallUserVoid", "CallBuiltin", "CallBuiltinVoid", "Jmp", "BrIf", "Ret", "RetVoid", "SetLabel",
   "SimdLoop"}

Instrs == [op : Ops, flag : 0 .. 3, dst : Nat, a : Nat, b : Nat]
LabelMaps == UNION {[D -> Nat] : D \in SUBSET STRING}

Compilers ==
  [code : Seq(Instrs), int_pool : Seq(Int), str_pool : Seq(STRING), name_pool : Seq(STRING),
   arg_regs : Seq(Nat), arg_ranges : Seq([start : Nat, len : Nat]),
   field_entries : Seq([name_idx : Nat, src_reg : Nat]), simd_loops : Seq(Seq(Instrs)),
   patches : Seq([pc : Nat, field : {0, 1}, label : STRING]), labels : LabelMaps, max_reg : Nat]

Operands == [lit : {0, 1}, at : Nat]
Bodies(fn) == Parts(fn) \cup {Node("body", "", 0, fn.body)}
Frames(fn) ==
  [e : Bodies(fn), dst : Nat, stmt : BOOLEAN, got : Seq(Operands), br : Nat, from : Nat]

\* The registers that c has, n of them having names.
Regs(n, c) == 0 .. NumRegs(n, c) - 1

CodeFits(c, n, fs) == \A k \in DOMAIN c.code :
  /\ FitsFrame(c, NumRegs(n, c), fs, c.code[k])
  /\ c.code[k].op = "Move" => c.code[k].flag = 0

\* Only a Jmp that ends the code leaves a branch to behind it.
JumpsOk(c) == \A k \in DOMAIN c.code :
  LET i == c.code[k]
      len == Len(c.code)
  IN  /\ i.op \in {"Jmp", "BrIf"} => i.a < len
      /\ i.op = "BrIf" => i.b < len \/ (i.b = len /\ c.code[len].op = "Jmp")

\* Patches are of jumps, and labels stand before an instruction.
PatchesOk(c) ==
  /\ \A k \in DOMAIN c.patches : LET pc == c.patches[k].pc IN
       pc < Len(c.code) /\ c.code[pc + 1].op \in {"Jmp", "BrIf"}
  /\ \A l \in DOMAIN c.labels : c.labels[l] < Len(c.code)

CompOk(c, n, fs) ==
  /\ c \in Compilers
  /\ TablesFit(c, NumRegs(n, c))
  /\ CodeFits(c, n, fs)
  /\ JumpsOk(c)
  /\ PatchesOk(c)

OperandOk(x, c, n) == x.at \in IF x.lit = 1 THEN Below(c.int_pool) ELSE Regs(n, c)

\* A call of compile_expr or compile_stmt: what it has of its operands fits,
\* what it has put in a table is there, and the branch of a while is one.
FrameOk(f, c, n) ==
  /\ f.e.k \in IF f.stmt THEN StmtKinds \cup {"body"} ELSE ExprKinds
  /\ Len(f.got) <= NumKids(f.e)
  /\ \A j \in DOMAIN f.got :
       OperandOk(f.got[j], c, n) /\ (f.e.k \notin Binary => f.got[j].lit = 0)
  /\ f.e.k = "call" => f.from + Len(f.got) <= Len(c.arg_regs)
  /\ f.e.k = "StructLit" => f.from + Len(f.got) <= Len(c.field_entries)
  /\ f.e.k \in {"StructLit", "set"} => Contains(c.name_pool, f.e.s)
  /\ f.e.k = "while" => f.from <= Len(c.code)
  /\ f.e.k = "while" /\ f.got # <<>> => f.br < Len(c.code) /\ c.code[f.br + 1].op = "BrIf"

\* f waits for a node below it.
Waits(f, c) ==
  /\ Len(f.got) < NumKids(f.e)
  /\ f.e.k = "StructLit" => Contains(c.name_pool, f.e.args[Len(f.got) + 1].s)

\* All calls but the last wait, and so does the last when one has returned.
CallsOk(cs, rt, c, fn) ==
  /\ cs \in Seq(Frames(fn)) /\ cs # <<>>
  /\ \A i \in 1 .. Len(cs) :
       /\ FrameOk(cs[i], c, fn.n_regs)
       /\ i < Len(cs) \/ rt # <<>> => Waits(cs[i], c)
       /\ cs[i].e.k = "body" => i = 1

RetOk(rt, c, n) == rt = <<>> \/ \E r \in Regs(n, c) : rt = <<r>>

\* When labels are resolved no branch leads behind the code any more.
ScanOk(sc, c) ==
  /\ c.patches = <<>>
  /\ sc \in [at : Nat \ {0}, end : Nat]
  /\ \A k \in DOMAIN c.code : c.code[k].op = "BrIf" => c.code[k].b < Len(c.code)
  /\ sc.end # 0 => sc.at <= sc.end /\ sc.end <= Len(c.code) /\ c.simd_loops # <<>>

CompiledFns ==
  [n_regs : Nat, code : Seq(Instrs), int_pool : Seq(Int), str_pool : Seq(STRING),
   name_pool : Seq(STRING), arg_regs : Seq(Nat), arg_ranges : Seq([start : Nat, len : Nat]),
   field_entries : Seq([name_idx : Nat, src_reg : Nat]), simd_loops : Seq(Seq(Instrs))]

CompilerInv ==
  /\ phase \in {"idle", "function", "body", "patch", "loops", "done", "failed"}
  /\ compiled \in Seq(CompiledFns)
  /\ phase = "idle" => compiled = <<>>
  /\ phase # "idle" => tree \in Programs /\ Len(compiled) <= Len(tree.functions)
  /\ phase \in {"body", "patch", "loops"} =>
       /\ Len(compiled) < Len(tree.functions)
       /\ CompOk(comp, Fn.n_regs, Len(tree.functions))
  /\ phase = "body" => CallsOk(calls, ret, comp, Fn) /\ RetOk(ret, comp, Fn.n_regs)
  /\ phase # "body" => ret = <<>>
  /\ phase = "loops" => ScanOk(scan, comp)
  /\ CodeInBounds

-----------------------------------------------------------------------------
(* d has all that c has: what fits c fits d.                               *)
Longer(s, t) == Len(s) <= Len(t) /\ \A k \in DOMAIN s : t[k] = s[k]

Grows(c, d) ==
  /\ c.max_reg <= d.max_reg
  /\ Len(c.code) <= Len(d.code) /\ \A k \in DOMAIN c.code : d.code[k].op = c.code[k].op
  /\ Len(c.int_pool) <= Len(d.int_pool) /\ Len(c.str_pool) <= Len(d.str_pool)
  /\ Longer(c.name_pool, d.name_pool) /\ Longer(c.arg_ranges, d.arg_ranges)
  /\ Len(c.arg_regs) <= Len(d.arg_regs) /\ Len(c.field_entries) <= Len(d.field_entries)
  /\ Len(c.simd_loops) <= Len(d.simd_loops)

LEMMA CompilerIs ==
  ASSUME NEW c \in Compilers
  PROVE  /\ c.code \in Seq(Instrs) /\ c.int_pool \in Seq(Int) /\ c.str_pool \in Seq(STRING)
         /\ c.name_pool \in Seq(STRING) /\ c.arg_regs \in Seq(Nat)
         /\ c.arg_ranges \in Seq([start : Nat, len : Nat])
         /\ c.field_entries \in Seq([name_idx : Nat, src_reg : Nat])
         /\ c.simd_loops \in Seq(Seq(Instrs))
         /\ c.patches \in Seq([pc : Nat, field : {0, 1}, label : STRING])
         /\ c.labels \in LabelMaps /\ c.max_reg \in Nat
BY DEF Compilers

LEMMA LengthsAre ==
  ASSUME NEW c \in Compilers
  PROVE  /\ Len(c.code) \in Nat /\ Len(c.int_pool) \in Nat /\ Len(c.str_pool) \in Nat
         /\ Len(c.name_pool) \in Nat /\ Len(c.arg_regs) \in Nat /\ Len(c.arg_ranges) \in Nat
         /\ Len(c.field_entries) \in Nat /\ Len(c.simd_loops) \in Nat /\ Len(c.patches) \in Nat
         /\ c.max_reg \in Nat
BY CompilerIs, LenProperties

LEMMA DomainsAre ==
  ASSUME NEW c \in Compilers
  PROVE  /\ DOMAIN c.code = 1 .. Len(c.code) /\ DOMAIN c.name_pool = 1 .. Len(c.name_pool)
         /\ DOMAIN c.arg_regs = 1 .. Len(c.arg_regs)
         /\ DOMAIN c.arg_ranges = 1 .. Len(c.arg_ranges)
         /\ DOMAIN c.field_entries = 1 .. Len(c.field_entries)
         /\ DOMAIN c.simd_loops = 1 .. Len(c.simd_loops)
         /\ DOMAIN c.patches = 1 .. Len(c.patches)
BY CompilerIs, LenProperties

LEMMA NumRegsIs ==
  ASSUME NEW n \in Nat, NEW c \in Compilers
  PROVE  NumRegs(n, c) \in Nat \ {0} /\ n <= NumRegs(n, c) /\ c.max_reg < NumRegs(n, c)
BY LengthsAre DEF NumRegs

LEMMA NumRegsGrows ==
  ASSUME NEW n \in Nat, NEW c \in Compilers, NEW d \in Compilers, c.max_reg <= d.max_reg
  PROVE  NumRegs(n, c) <= NumRegs(n, d)
BY LengthsAre DEF NumRegs

LEMMA LongerTwice ==
  ASSUME NEW S, NEW s \in Seq(S), NEW t \in Seq(S), NEW u \in Seq(S), Longer(s, t), Longer(t, u)
  PROVE  Longer(s, u)
BY LenProperties DEF Longer

LEMMA GrowsTwice ==
  ASSUME NEW c \in Compilers, NEW d \in Compilers, NEW e \in Compilers, Grows(c, d), Grows(d, e)
  PROVE  Grows(c, e)
<1>1. Longer(c.name_pool, e.name_pool)
  BY CompilerIs, LongerTwice DEF Grows
<1>2. Longer(c.arg_ranges, e.arg_ranges)
  <2>1. /\ c.arg_ranges \in Seq([start : Nat, len : Nat])
        /\ d.arg_ranges \in Seq([start : Nat, len : Nat])
        /\ e.arg_ranges \in Seq([start : Nat, len : Nat])
    BY CompilerIs
  <2>2. Longer(c.arg_ranges, d.arg_ranges) /\ Longer(d.arg_ranges, e.arg_ranges)
    BY DEF Grows
  <2> QED BY <2>1, <2>2, LongerTwice
<1>3. \A k \in DOMAIN c.code : e.code[k].op = c.code[k].op
  <2> SUFFICES ASSUME NEW k \in DOMAIN c.code PROVE e.code[k].op = c.code[k].op
    OBVIOUS
  <2>1. Len(c.code) \in Nat /\ Len(d.code) \in Nat /\ k \in 1 .. Len(c.code)
    BY DomainsAre, LengthsAre
  <2>2. k \in DOMAIN d.code
    BY <2>1, DomainsAre DEF Grows
  <2> QED BY <2>2 DEF Grows
<1>4. /\ c.max_reg <= e.max_reg /\ Len(c.code) <= Len(e.code)
      /\ Len(c.int_pool) <= Len(e.int_pool) /\ Len(c.str_pool) <= Len(e.str_pool)
      /\ Len(c.arg_regs) <= Len(e.arg_regs) /\ Len(c.field_entries) <= Len(e.field_entries)
      /\ Len(c.simd_loops) <= Len(e.simd_loops)
  <2>1. /\ c.max_reg \in Nat /\ d.max_reg \in Nat /\ e.max_reg \in Nat
    BY LengthsAre
  <2>2. c.max_reg <= e.max_reg
    BY <2>1 DEF Grows
  <2> DEFINE L(t, u, v) ==
        Len(t) \in Nat /\ Len(u) \in Nat /\ Len(v) \in Nat /\ Len(t) <= Len(u) /\ Len(u) <= Len(v)
  <2>3. \A t, u, v : L(t, u, v) => Len(t) <= Len(v)
    OBVIOUS
  <2>4. /\ L(c.code, d.code, e.code) /\ L(c.int_pool, d.int_pool, e.int_pool)
        /\ L(c.str_pool, d.str_pool, e.str_pool) /\ L(c.arg_regs, d.arg_regs, e.arg_regs)
        /\ L(c.field_entries, d.field_entries, e.field_entries)
        /\ L(c.simd_loops, d.simd_loops, e.simd_loops)
    BY LengthsAre DEF Grows
  <2> HIDE DEF L
  <2> QED BY <2>2, <2>3, <2>4
<1> QED BY <1>1, <1>2, <1>3, <1>4 DEF Grows

LEMMA GrowsSame ==
  ASSUME NEW c \in Compilers
  PROVE  Grows(c, c)
BY LengthsAre DEF Grows, Longer

LEMMA TablesGrow ==
  ASSUME NEW n \in Nat, NEW c \in Compilers, NEW d \in Compilers, Grows(c, d)
  PROVE  /\ \A r \in 0 .. NumRegs(n, c) - 1 : r \in 0 .. NumRegs(n, d) - 1
         /\ \A x \in Below(c.int_pool) : x \in Below(d.int_pool)
         /\ \A x \in Below(c.str_pool) : x \in Below(d.str_pool)
         /\ \A x \in Below(c.name_pool) : x \in Below(d.name_pool)
         /\ \A x \in Below(c.arg_ranges) : x \in Below(d.arg_ranges)
         /\ \A x \in Below(c.simd_loops) : x \in Below(d.simd_loops)
<1>1. /\ NumRegs(n, c) \in Nat /\ NumRegs(n, d) \in Nat /\ NumRegs(n, c) <= NumRegs(n, d)
  BY NumRegsIs, NumRegsGrows DEF Grows
<1>2. \A r \in 0 .. NumRegs(n, c) - 1 : r \in 0 .. NumRegs(n, d) - 1
  BY <1>1
<1> DEFINE L(t, u) == Len(t) \in Nat /\ Len(u) \in Nat /\ Len(t) <= Len(u)
<1>3. \A t, u : L(t, u) => \A x \in Below(t) : x \in Below(u)
  BY DEF Below
<1>4. /\ L(c.int_pool, d.int_pool) /\ L(c.str_pool, d.str_pool) /\ L(c.name_pool, d.name_pool)
      /\ L(c.arg_ranges, d.arg_ranges) /\ L(c.simd_loops, d.simd_loops)
  BY LengthsAre DEF Grows, Longer
<1> HIDE DEF L
<1> QED BY <1>2, <1>3, <1>4

LEMMA OperandsGrow ==
  ASSUME NEW n \in Nat, NEW c \in Compilers, NEW d \in Compilers, Grows(c, d), NEW i
  PROVE  /\ FitsA(c, NumRegs(n, c), i) => FitsA(d, NumRegs(n, d), i)
         /\ FitsB(c, NumRegs(n, c), i) => FitsB(d, NumRegs(n, d), i)
         /\ OperandOk(i, c, n) => OperandOk(i, d, n)
         /\ i \in Regs(n, c) => i \in Regs(n, d)
BY TablesGrow DEF FitsA, FitsB, OperandOk, Regs

LEMMA FitsGrows ==
  ASSUME NEW n \in Nat, NEW fs, NEW c \in Compilers, NEW d \in Compilers, Grows(c, d),
         NEW i, FitsFrame(c, NumRegs(n, c), fs, i)
  PROVE  FitsFrame(d, NumRegs(n, d), fs, i)
<1>1. /\ FitsA(c, NumRegs(n, c), i) => FitsA(d, NumRegs(n, d), i)
      /\ FitsB(c, NumRegs(n, c), i) => FitsB(d, NumRegs(n, d), i)
  BY OperandsGrow
<1>4. \A x : /\ RangeIn(c, x, c.arg_regs) => RangeIn(d, x, d.arg_regs)
             /\ RangeIn(c, x, c.field_entries) => RangeIn(d, x, d.field_entries)
  <2> SUFFICES ASSUME NEW x, x \in Below(c.arg_ranges)
               PROVE  /\ RangeIn(c, x, c.arg_regs) => RangeIn(d, x, d.arg_regs)
                      /\ RangeIn(c, x, c.field_entries) => RangeIn(d, x, d.field_entries)
    BY DEF RangeIn
  <2>1. x \in Below(d.arg_ranges) /\ x + 1 \in 1 .. Len(c.arg_ranges)
    BY TablesGrow, LengthsAre DEF Below
  <2>2. d.arg_ranges[x + 1] = c.arg_ranges[x + 1]
    BY <2>1, DomainsAre DEF Grows, Longer
  <2>3. c.arg_ranges[x + 1] \in [start : Nat, len : Nat]
    BY <2>1, CompilerIs, ElementOfSeq
  <2>4. /\ Len(c.arg_regs) \in Nat /\ Len(c.field_entries) \in Nat
        /\ Len(d.arg_regs) \in Nat /\ Len(d.field_entries) \in Nat
    BY LengthsAre
  <2>5. Len(c.arg_regs) <= Len(d.arg_regs) /\ Len(c.field_entries) <= Len(d.field_entries)
    BY DEF Grows
  <2>6. c.arg_ranges[x + 1].start + c.arg_ranges[x + 1].len \in Nat
    BY <2>3
  <2> DEFINE sum == c.arg_ranges[x + 1].start + c.arg_ranges[x + 1].len
  <2> HIDE DEF sum
  <2>7. /\ \A t : RangeIn(c, x, t) => sum <= Len(t)
        /\ \A t : sum <= Len(t) => RangeIn(d, x, t)
    BY <2>1, <2>2 DEF RangeIn, sum
  <2>8. \A a, b \in Nat : sum <= a /\ a <= b => sum <= b
    BY <2>6 DEF sum
  <2>9. /\ sum <= Len(c.arg_regs) => sum <= Len(d.arg_regs)
        /\ sum <= Len(c.field_entries) => sum <= Len(d.field_entries)
    BY <2>4, <2>5, <2>8
  <2> QED BY <2>7, <2>9
<1>5. /\ \A r \in 0 .. NumRegs(n, c) - 1 : r \in 0 .. NumRegs(n, d) - 1
      /\ \A x \in Below(c.int_pool) : x \in Below(d.int_pool)
      /\ \A x \in Below(c.str_pool) : x \in Below(d.str_pool)
      /\ \A x \in Below(c.name_pool) : x \in Below(d.name_pool)
      /\ \A x \in Below(c.simd_loops) : x \in Below(d.simd_loops)
  BY TablesGrow
<1> QED BY <1>1, <1>4, <1>5, SMTT(30) DEF FitsFrame

-----------------------------------------------------------------------------
(* What the pieces of the compiler do to it.                               *)
LEMMA TablesStay ==
  ASSUME NEW n \in Nat, NEW c \in Compilers, NEW d \in Compilers, Grows(c, d),
         d.arg_regs = c.arg_regs, d.field_entries = c.field_entries,
         d.simd_loops = c.simd_loops, TablesFit(c, NumRegs(n, c))
  PROVE  TablesFit(d, NumRegs(n, d))
<1>1. /\ \A r \in 0 .. NumRegs(n, c) - 1 : r \in 0 .. NumRegs(n, d) - 1
      /\ \A x \in Below(c.name_pool) : x \in Below(d.name_pool)
  BY TablesGrow
<1>2. \A i : /\ FitsA(c, NumRegs(n, c), i) => FitsA(d, NumRegs(n, d), i)
             /\ FitsB(c, NumRegs(n, c), i) => FitsB(d, NumRegs(n, d), i)
  BY OperandsGrow
<1> QED BY <1>1, <1>2 DEF TablesFit

LEMMA CodeStays ==
  ASSUME NEW n \in Nat, NEW fs, NEW c, NEW d \in Compilers, Grows(c, d), CompOk(c, n, fs),
         d.code = c.code, d.patches = c.patches, d.labels = c.labels,
         TablesFit(d, NumRegs(n, d))
  PROVE  CompOk(d, n, fs)
<1>1. c \in Compilers
  BY DEF CompOk
<1>2. CodeFits(d, n, fs)
  BY <1>1, FitsGrows DEF CompOk, CodeFits
<1> QED BY <1>2 DEF CompOk, JumpsOk, PatchesOk

LEMMA TablesAndCodeStay ==
  ASSUME NEW n \in Nat, NEW fs, NEW c, NEW d \in Compilers, Grows(c, d), CompOk(c, n, fs),
         d.code = c.code, d.patches = c.patches, d.labels = c.labels,
         d.arg_regs = c.arg_regs, d.field_entries = c.field_entries,
         d.simd_loops = c.simd_loops
  PROVE  CompOk(d, n, fs)
BY TablesStay, CodeStays DEF CompOk

LEMMA IndexIs ==
  ASSUME NEW S, NEW s \in Seq(S), NEW x, Contains(s, x)
  PROVE  IndexOf(s, x) \in Below(s)
<1>1. Len(s) \in Nat /\ DOMAIN s = 1 .. Len(s)
  BY LenProperties
<1> DEFINE k == CHOOSE i \in DOMAIN s : s[i] = x
<1>2. k \in 1 .. Len(s)
  BY <1>1 DEF Contains
<1>3. IndexOf(s, x) = k - 1
  BY DEF IndexOf
<1> HIDE DEF k
<1> QED BY <1>1, <1>2, <1>3 DEF Below

LEMMA WithIs ==
  ASSUME NEW S, NEW s \in Seq(S), NEW x \in S
  PROVE  /\ With(s, x) \in Seq(S) /\ Longer(s, With(s, x))
         /\ Contains(With(s, x), x) /\ IndexOf(With(s, x), x) \in Below(With(s, x))
<1>1. Len(s) \in Nat /\ DOMAIN s = 1 .. Len(s)
  BY LenProperties
<1>2. With(s, x) \in Seq(S) /\ Longer(s, With(s, x))
  BY <1>1, AppendProperties DEF With, Longer
<1>3. Contains(With(s, x), x)
  <2>1. CASE Contains(s, x)
    BY <2>1 DEF With
  <2>2. CASE ~Contains(s, x)
    BY <2>2, <1>1, AppendProperties DEF With, Contains
  <2> QED BY <2>1, <2>2
<1> QED BY <1>2, <1>3, IndexIs

LEMMA PoolIs ==
  ASSUME NEW n \in Nat, NEW fs, NEW c, CompOk(c, n, fs), NEW x \in Int
  PROVE  LET d == Pool(c, x)
         IN  /\ CompOk(d, n, fs) /\ Grows(c, d) /\ d.code = c.code
             /\ IndexOf(d.int_pool, x) \in Below(d.int_pool)
<1> DEFINE d == Pool(c, x)
<1>1. c \in Compilers
  BY DEF CompOk
<1>2. With(c.int_pool, x) \in Seq(Int) /\ Longer(c.int_pool, With(c.int_pool, x))
      /\ IndexOf(With(c.int_pool, x), x) \in Below(With(c.int_pool, x))
  BY <1>1, CompilerIs, WithIs
<1>3. d = [c EXCEPT !.int_pool = With(c.int_pool, x)]
  BY DEF Pool
<1> HIDE DEF d
<1>4. /\ d \in Compilers /\ d.int_pool = With(c.int_pool, x)
      /\ d.code = c.code /\ d.str_pool = c.str_pool /\ d.name_pool = c.name_pool
      /\ d.arg_regs = c.arg_regs /\ d.arg_ranges = c.arg_ranges
      /\ d.field_entries = c.field_entries /\ d.simd_loops = c.simd_loops
      /\ d.patches = c.patches /\ d.labels = c.labels /\ d.max_reg = c.max_reg
  BY <1>1, <1>2, <1>3 DEF Compilers
<1>5. Grows(c, d)
  BY <1>1, <1>2, <1>4, GrowsSame DEF Grows, Longer
<1>6. CompOk(d, n, fs)
  BY <1>4, <1>5, TablesAndCodeStay
<1> QED BY <1>2, <1>4, <1>5, <1>6 DEF d

LEMMA StrIs ==
  ASSUME NEW n \in Nat, NEW fs, NEW c, CompOk(c, n, fs), NEW x \in STRING
  PROVE  LET d == Str(c, x)
         IN  /\ CompOk(d, n, fs) /\ Grows(c, d) /\ d.code = c.code
             /\ IndexOf(d.str_pool, x) \in Below(d.str_pool)
<1> DEFINE d == Str(c, x)
<1>1. c \in Compilers
  BY DEF CompOk
<1>2. With(c.str_pool, x) \in Seq(STRING) /\ Longer(c.str_pool, With(c.str_pool, x))
      /\ IndexOf(With(c.str_pool, x), x) \in Below(With(c.str_pool, x))
  BY <1>1, CompilerIs, WithIs
<1>3. d = [c EXCEPT !.str_pool = With(c.str_pool, x)]
  BY DEF Str
<1> HIDE DEF d
<1>4. /\ d \in Compilers /\ d.str_pool = With(c.str_pool, x)
      /\ d.code = c.code /\ d.int_pool = c.int_pool /\ d.name_pool = c.name_pool
      /\ d.arg_regs = c.arg_regs /\ d.arg_ranges = c.arg_ranges
      /\ d.field_entries = c.field_entries /\ d.simd_loops = c.simd_loops
      /\ d.patches = c.patches /\ d.labels = c.labels /\ d.max_reg = c.max_reg
  BY <1>1, <1>2, <1>3 DEF Compilers
<1>5. Grows(c, d)
  BY <1>1, <1>2, <1>4, GrowsSame DEF Grows, Longer
<1>6. CompOk(d, n, fs)
  BY <1>4, <1>5, TablesAndCodeStay
<1> QED BY <1>2, <1>4, <1>5, <1>6 DEF d

LEMMA NameIs ==
  ASSUME NEW n \in Nat, NEW fs, NEW c, CompOk(c, n, fs), NEW x \in STRING
  PROVE  LET d == Name(c, x)
         IN  /\ CompOk(d, n, fs) /\ Grows(c, d) /\ d.code = c.code
             /\ d.arg_regs = c.arg_regs /\ d.field_entries = c.field_entries
             /\ Contains(d.name_pool, x) /\ NameIdx(d, x) \in Below(d.name_pool)
<1> DEFINE d == Name(c, x)
<1>1. c \in Compilers
  BY DEF CompOk
<1>2. With(c.name_pool, x) \in Seq(STRING) /\ Longer(c.name_pool, With(c.name_pool, x))
      /\ Contains(With(c.name_pool, x), x)
      /\ IndexOf(With(c.name_pool, x), x) \in Below(With(c.name_pool, x))
  BY <1>1, CompilerIs, WithIs
<1>3. d = [c EXCEPT !.name_pool = With(c.name_pool, x)]
  BY DEF Name
<1> HIDE DEF d
<1>4. /\ d \in Compilers /\ d.name_pool = With(c.name_pool, x)
      /\ d.code = c.code /\ d.int_pool = c.int_pool /\ d.str_pool = c.str_pool
      /\ d.arg_regs = c.arg_regs /\ d.arg_ranges = c.arg_ranges
      /\ d.field_entries = c.field_entries /\ d.simd_loops = c.simd_loops
      /\ d.patches = c.patches /\ d.labels = c.labels /\ d.max_reg = c.max_reg
  BY <1>1, <1>2, <1>3 DEF Compilers
<1>5. Grows(c, d)
  BY <1>1, <1>2, <1>4, GrowsSame DEF Grows, Longer
<1>6. CompOk(d, n, fs)
  BY <1>4, <1>5, TablesAndCodeStay
<1> QED BY <1>2, <1>4, <1>5, <1>6 DEF d, NameIdx

LEMMA InstrIs ==
  ASSUME NEW op \in Ops, NEW flag \in 0 .. 3, NEW dst \in Nat, NEW a \in Nat, NEW b \in Nat
  PROVE  LET i == Instr(op, flag, dst, a, b)
         IN  /\ i \in Instrs /\ i.op = op /\ i.flag = flag /\ i.dst = dst /\ i.a = a /\ i.b = b
BY DEF Instr, Instrs

(* An instruction at the end.                                              *)
Emits(c, d, i) ==
  d = [c EXCEPT !.code = Append(@, i), !.max_reg = IF i.dst > @ THEN i.dst ELSE @]

LEMMA EmitIs ==
  ASSUME NEW c \in Compilers, NEW d, NEW i \in Instrs, Emits(c, d, i)
  PROVE  /\ d \in Compilers /\ Grows(c, d) /\ i.dst <= d.max_reg
         /\ d.code = Append(c.code, i) /\ Len(d.code) = Len(c.code) + 1
         /\ d.code[Len(c.code) + 1] = i
         /\ \A k \in DOMAIN c.code : d.code[k] = c.code[k]
         /\ d.int_pool = c.int_pool /\ d.str_pool = c.str_pool
         /\ d.name_pool = c.name_pool
         /\ d.arg_regs = c.arg_regs /\ d.arg_ranges = c.arg_ranges
         /\ d.field_entries = c.field_entries /\ d.simd_loops = c.simd_loops
         /\ d.patches = c.patches /\ d.labels = c.labels
<1> DEFINE m == IF i.dst > c.max_reg THEN i.dst ELSE c.max_reg
<1>1. i.dst \in Nat
  BY DEF Instrs
<1>2. c.code \in Seq(Instrs) /\ c.max_reg \in Nat
  BY CompilerIs
<1>3. d = [c EXCEPT !.code = Append(c.code, i), !.max_reg = m]
  BY DEF Emits
<1>4. m \in Nat /\ i.dst <= m /\ c.max_reg <= m
  BY <1>1, <1>2
<1> HIDE DEF m
<1>5. Append(c.code, i) \in Seq(Instrs) /\ Len(Append(c.code, i)) = Len(c.code) + 1
      /\ Append(c.code, i)[Len(c.code) + 1] = i
      /\ \A k \in 1 .. Len(c.code) : Append(c.code, i)[k] = c.code[k]
  BY <1>2, AppendProperties
<1>6. /\ d \in Compilers /\ d.code = Append(c.code, i) /\ d.max_reg = m
      /\ d.int_pool = c.int_pool /\ d.str_pool = c.str_pool /\ d.name_pool = c.name_pool
      /\ d.arg_regs = c.arg_regs /\ d.arg_ranges = c.arg_ranges
      /\ d.field_entries = c.field_entries /\ d.simd_loops = c.simd_loops
      /\ d.patches = c.patches /\ d.labels = c.labels
  BY <1>3, <1>4, <1>5 DEF Compilers
<1>7. Len(c.code) \in Nat /\ DOMAIN c.code = 1 .. Len(c.code)
  BY LengthsAre, DomainsAre
<1>8. Grows(c, d)
  BY <1>4, <1>5, <1>6, <1>7, GrowsSame DEF Grows, Longer
<1> QED BY <1>4, <1>5, <1>6, <1>7, <1>8

LEMMA EmitOk ==
  ASSUME NEW n \in Nat, NEW fs, NEW c, CompOk(c, n, fs), NEW d, NEW i \in Instrs, Emits(c, d, i),
         FitsFrame(d, NumRegs(n, d), fs, i),
         i.op = "Move" => i.flag = 0,
         i.op \in {"Jmp", "BrIf"} => i.a <= Len(c.code),
         i.op = "BrIf" => i.b <= Len(c.code)
  PROVE  CompOk(d, n, fs) /\ Grows(c, d)
<1>1. c \in Compilers
  BY DEF CompOk
<1>2. /\ d \in Compilers /\ Grows(c, d) /\ Len(d.code) = Len(c.code) + 1
      /\ d.code[Len(c.code) + 1] = i
      /\ \A k \in DOMAIN c.code : d.code[k] = c.code[k]
      /\ d.arg_regs = c.arg_regs /\ d.field_entries = c.field_entries
      /\ d.simd_loops = c.simd_loops /\ d.patches = c.patches /\ d.labels = c.labels
  BY <1>1, EmitIs
<1>4. i.a \in Nat /\ i.b \in Nat
  BY DEF Instrs
<1>5. Len(c.code) \in Nat /\ DOMAIN c.code = 1 .. Len(c.code)
      /\ DOMAIN d.code = 1 .. Len(c.code) + 1
  BY <1>1, <1>2, LengthsAre, DomainsAre
<1>6. TablesFit(d, NumRegs(n, d))
  BY <1>1, <1>2, TablesStay DEF CompOk
<1>7. CodeFits(d, n, fs)
  <2> SUFFICES ASSUME NEW k \in DOMAIN d.code
               PROVE  /\ FitsFrame(d, NumRegs(n, d), fs, d.code[k])
                      /\ d.code[k].op = "Move" => d.code[k].flag = 0
    BY DEF CodeFits
  <2>1. CASE k \in DOMAIN c.code
    BY <2>1, <1>1, <1>2, FitsGrows DEF CompOk, CodeFits
  <2>2. CASE k = Len(c.code) + 1
    BY <2>2, <1>2
  <2> QED BY <2>1, <2>2, <1>5
<1>8. JumpsOk(d)
  <2> SUFFICES ASSUME NEW k \in DOMAIN d.code
               PROVE  /\ d.code[k].op \in {"Jmp", "BrIf"} => d.code[k].a < Len(d.code)
                      /\ d.code[k].op = "BrIf" => d.code[k].b < Len(d.code)
    BY DEF JumpsOk
  <2>1. CASE k \in DOMAIN c.code
    <3>1. c.code[k] \in Instrs
      BY <2>1, <1>1, <1>5, CompilerIs, ElementOfSeq
    <3>2. /\ c.code[k].op \in {"Jmp", "BrIf"} => c.code[k].a < Len(c.code)
          /\ c.code[k].op = "BrIf" => c.code[k].b <= Len(c.code)
      BY <2>1, <3>1, <1>5 DEF CompOk, JumpsOk, Instrs
    <3>3. c.code[k].a \in Nat /\ c.code[k].b \in Nat
      BY <3>1 DEF Instrs
    <3>4. d.code[k] = c.code[k] /\ Len(d.code) = Len(c.code) + 1 /\ Len(c.code) \in Nat
      BY <2>1, <1>2, <1>5
    <3> QED BY <3>2, <3>3, <3>4
  <2>2. CASE k = Len(c.code) + 1
    BY <2>2, <1>2, <1>4, <1>5
  <2> QED BY <2>1, <2>2, <1>5
<1>9. PatchesOk(d)
  <2>1. PatchesOk(c)
    BY DEF CompOk
  <2>2. ASSUME NEW k \in DOMAIN d.patches
        PROVE  d.patches[k].pc < Len(d.code)
               /\ d.code[d.patches[k].pc + 1].op \in {"Jmp", "BrIf"}
    <3>1. c.patches[k] \in [pc : Nat, field : {0, 1}, label : STRING]
      BY <1>1, <1>2, CompilerIs, DomainsAre, ElementOfSeq
    <3>2. /\ c.patches[k].pc < Len(c.code)
          /\ c.code[c.patches[k].pc + 1].op \in {"Jmp", "BrIf"}
      BY <2>1, <1>2 DEF PatchesOk
    <3>3. d.patches[k].pc = c.patches[k].pc /\ c.patches[k].pc \in Nat
      BY <3>1, <1>2
    <3>4. c.patches[k].pc + 1 \in DOMAIN c.code /\ c.patches[k].pc < Len(c.code) + 1
      BY <3>2, <3>3, <1>5
    <3>5. d.code[c.patches[k].pc + 1] = c.code[c.patches[k].pc + 1]
      BY <3>4, <1>2
    <3>6. d.patches[k].pc < Len(d.code)
      BY <3>3, <3>4, <1>2
    <3> QED BY <3>2, <3>3, <3>5, <3>6
  <2>3. ASSUME NEW l \in DOMAIN d.labels PROVE d.labels[l] < Len(d.code)
    <3>1. c.labels[l] \in Nat
      <4>1. PICK D \in SUBSET STRING : c.labels \in [D -> Nat]
        BY <1>1, CompilerIs DEF LabelMaps
      <4> QED BY <4>1, <1>2
    <3>2. c.labels[l] < Len(c.code)
      BY <2>1, <1>2 DEF PatchesOk
    <3> QED BY <3>1, <3>2, <1>2, <1>5
  <2> QED BY <2>2, <2>3 DEF PatchesOk
<1> QED BY <1>2, <1>6, <1>7, <1>8, <1>9 DEF CompOk

(* The tables of arguments.                                                *)
LEMMA ArgIs ==
  ASSUME NEW n \in Nat, NEW fs, NEW c, CompOk(c, n, fs), NEW r \in Regs(n, c),
         NEW d, d = [c EXCEPT !.arg_regs = Append(@, r)]
  PROVE  /\ CompOk(d, n, fs) /\ Grows(c, d) /\ d.code = c.code
         /\ Len(d.arg_regs) = Len(c.arg_regs) + 1 /\ d.field_entries = c.field_entries
         /\ d.name_pool = c.name_pool
<1>1. c \in Compilers /\ r \in Nat
  BY NumRegsIs DEF CompOk, Regs
<1>2. /\ Append(c.arg_regs, r) \in Seq(Nat)
      /\ Len(Append(c.arg_regs, r)) = Len(c.arg_regs) + 1
      /\ \A k \in 1 .. Len(c.arg_regs) : Append(c.arg_regs, r)[k] = c.arg_regs[k]
      /\ Append(c.arg_regs, r)[Len(c.arg_regs) + 1] = r
  BY <1>1, CompilerIs, AppendProperties
<1>3. /\ d \in Compilers /\ d.arg_regs = Append(c.arg_regs, r)
      /\ d.code = c.code /\ d.int_pool = c.int_pool /\ d.str_pool = c.str_pool
      /\ d.name_pool = c.name_pool /\ d.arg_ranges = c.arg_ranges
      /\ d.field_entries = c.field_entries /\ d.simd_loops = c.simd_loops
      /\ d.patches = c.patches /\ d.labels = c.labels /\ d.max_reg = c.max_reg
  BY <1>1, <1>2 DEF Compilers
<1>4. Len(c.arg_regs) \in Nat /\ DOMAIN d.arg_regs = 1 .. Len(c.arg_regs) + 1
      /\ DOMAIN c.arg_regs = 1 .. Len(c.arg_regs)
  BY <1>1, <1>2, <1>3, LengthsAre, DomainsAre
<1>5. Grows(c, d)
  BY <1>1, <1>2, <1>3, <1>4, GrowsSame DEF Grows
<1>6. NumRegs(n, d) = NumRegs(n, c) /\ Below(d.name_pool) = Below(c.name_pool)
  BY <1>3 DEF NumRegs, Below
<1>7. \A i : /\ FitsA(c, NumRegs(n, c), i) => FitsA(d, NumRegs(n, d), i)
             /\ FitsB(c, NumRegs(n, c), i) => FitsB(d, NumRegs(n, d), i)
  BY <1>1, <1>3, <1>5, OperandsGrow
<1>8. TablesFit(c, NumRegs(n, c))
  BY DEF CompOk
<1>9. \A k \in DOMAIN d.arg_regs : d.arg_regs[k] \in 0 .. NumRegs(n, d) - 1
  <2> SUFFICES ASSUME NEW k \in DOMAIN d.arg_regs
               PROVE  d.arg_regs[k] \in 0 .. NumRegs(n, d) - 1
    OBVIOUS
  <2>1. CASE k \in 1 .. Len(c.arg_regs)
    BY <2>1, <1>2, <1>3, <1>4, <1>6, <1>8 DEF TablesFit
  <2>2. CASE k = Len(c.arg_regs) + 1
    BY <2>2, <1>2, <1>3, <1>6 DEF Regs
  <2> QED BY <2>1, <2>2, <1>4
<1>10. TablesFit(d, NumRegs(n, d))
  BY <1>3, <1>6, <1>7, <1>8, <1>9 DEF TablesFit
<1>11. CompOk(d, n, fs)
  BY <1>3, <1>5, <1>10, CodeStays
<1> QED BY <1>2, <1>3, <1>5, <1>11

LEMMA FieldIs ==
  ASSUME NEW n \in Nat, NEW fs, NEW c, CompOk(c, n, fs), NEW r \in Regs(n, c),
         NEW x \in Below(c.name_pool), NEW d,
         d = [c EXCEPT !.field_entries = Append(@, [name_idx |-> x, src_reg |-> r])]
  PROVE  /\ CompOk(d, n, fs) /\ Grows(c, d) /\ d.code = c.code
         /\ Len(d.field_entries) = Len(c.field_entries) + 1 /\ d.arg_regs = c.arg_regs
         /\ d.name_pool = c.name_pool
<1> DEFINE y == [name_idx |-> x, src_reg |-> r]
<1>1. c \in Compilers /\ r \in Nat /\ x \in Nat
  BY NumRegsIs, LengthsAre DEF CompOk, Regs, Below
<1>2. /\ y \in [name_idx : Nat, src_reg : Nat] /\ y.name_idx = x /\ y.src_reg = r
  BY <1>1
<1>3. d = [c EXCEPT !.field_entries = Append(@, y)]
  OBVIOUS
<1> HIDE DEF y
<1>4. /\ Append(c.field_entries, y) \in Seq([name_idx : Nat, src_reg : Nat])
      /\ Len(Append(c.field_entries, y)) = Len(c.field_entries) + 1
      /\ \A k \in 1 .. Len(c.field_entries) : Append(c.field_entries, y)[k] = c.field_entries[k]
      /\ Append(c.field_entries, y)[Len(c.field_entries) + 1] = y
  BY <1>1, <1>2, CompilerIs, AppendProperties
<1>5. /\ d \in Compilers /\ d.field_entries = Append(c.field_entries, y)
      /\ d.code = c.code /\ d.int_pool = c.int_pool /\ d.str_pool = c.str_pool
      /\ d.name_pool = c.name_pool /\ d.arg_ranges = c.arg_ranges
      /\ d.arg_regs = c.arg_regs /\ d.simd_loops = c.simd_loops
      /\ d.patches = c.patches /\ d.labels = c.labels /\ d.max_reg = c.max_reg
  BY <1>1, <1>3, <1>4 DEF Compilers
<1>6. Len(c.field_entries) \in Nat /\ DOMAIN d.field_entries = 1 .. Len(c.field_entries) + 1
      /\ DOMAIN c.field_entries = 1 .. Len(c.field_entries)
  BY <1>1, <1>4, <1>5, LengthsAre, DomainsAre
<1>7. Grows(c, d)
  BY <1>1, <1>4, <1>5, <1>6, GrowsSame DEF Grows
<1>8. NumRegs(n, d) = NumRegs(n, c) /\ Below(d.name_pool) = Below(c.name_pool)
  BY <1>5 DEF NumRegs, Below
<1>9. \A i : /\ FitsA(c, NumRegs(n, c), i) => FitsA(d, NumRegs(n, d), i)
             /\ FitsB(c, NumRegs(n, c), i) => FitsB(d, NumRegs(n, d), i)
  BY <1>1, <1>5, <1>7, OperandsGrow
<1>10. TablesFit(c, NumRegs(n, c))
  BY DEF CompOk
<1>11. \A k \in DOMAIN d.field_entries :
         /\ d.field_entries[k].src_reg \in 0 .. NumRegs(n, d) - 1
         /\ d.field_entries[k].name_idx \in Below(d.name_pool)
  <2> SUFFICES ASSUME NEW k \in DOMAIN d.field_entries
               PROVE  /\ d.field_entries[k].src_reg \in 0 .. NumRegs(n, d) - 1
                      /\ d.field_entries[k].name_idx \in Below(d.name_pool)
    OBVIOUS
  <2>1. CASE k \in 1 .. Len(c.field_entries)
    BY <2>1, <1>4, <1>5, <1>6, <1>8, <1>10 DEF TablesFit
  <2>2. CASE k = Len(c.field_entries) + 1
    BY <2>2, <1>2, <1>4, <1>5, <1>8 DEF Regs
  <2> QED BY <2>1, <2>2, <1>6
<1>12. TablesFit(d, NumRegs(n, d))
  BY <1>5, <1>8, <1>9, <1>10, <1>11 DEF TablesFit
<1>13. CompOk(d, n, fs)
  BY <1>5, <1>7, <1>12, CodeStays
<1> QED BY <1>4, <1>5, <1>7, <1>13

LEMMA RangedIs ==
  ASSUME NEW n \in Nat, NEW fs, NEW c, CompOk(c, n, fs), NEW f, f.from \in Nat,
         Len(f.got) \in Nat
  PROVE  LET d == Ranged(f, c)
             k == Len(c.arg_ranges)
         IN  /\ CompOk(d, n, fs) /\ Grows(c, d) /\ d.code = c.code
             /\ k \in Below(d.arg_ranges)
             /\ d.arg_ranges[k + 1] = [start |-> f.from, len |-> Len(f.got)]
             /\ d.arg_regs = c.arg_regs /\ d.field_entries = c.field_entries
             /\ d.name_pool = c.name_pool
<1> DEFINE d == Ranged(f, c)
           y == [start |-> f.from, len |-> Len(f.got)]
<1>1. c \in Compilers
  BY DEF CompOk
<1>2. y \in [start : Nat, len : Nat]
  OBVIOUS
<1>3. d = [c EXCEPT !.arg_ranges = Append(@, y)]
  BY DEF Ranged
<1> HIDE DEF d, y
<1>4. /\ Append(c.arg_ranges, y) \in Seq([start : Nat, len : Nat])
      /\ Len(Append(c.arg_ranges, y)) = Len(c.arg_ranges) + 1
      /\ \A k \in 1 .. Len(c.arg_ranges) : Append(c.arg_ranges, y)[k] = c.arg_ranges[k]
      /\ Append(c.arg_ranges, y)[Len(c.arg_ranges) + 1] = y
  BY <1>1, <1>2, CompilerIs, AppendProperties
<1>5. /\ d \in Compilers /\ d.arg_ranges = Append(c.arg_ranges, y)
      /\ d.code = c.code /\ d.int_pool = c.int_pool /\ d.str_pool = c.str_pool
      /\ d.name_pool = c.name_pool /\ d.field_entries = c.field_entries
      /\ d.arg_regs = c.arg_regs /\ d.simd_loops = c.simd_loops
      /\ d.patches = c.patches /\ d.labels = c.labels /\ d.max_reg = c.max_reg
  BY <1>1, <1>3, <1>4 DEF Compilers
<1>6. Len(c.arg_ranges) \in Nat /\ DOMAIN c.arg_ranges = 1 .. Len(c.arg_ranges)
  BY <1>1, LengthsAre, DomainsAre
<1>7. Longer(c.arg_ranges, d.arg_ranges) /\ Len(c.arg_ranges) \in Below(d.arg_ranges)
  BY <1>4, <1>5, <1>6 DEF Longer, Below
<1>8. Grows(c, d)
  BY <1>1, <1>5, <1>7, GrowsSame DEF Grows
<1>9. CompOk(d, n, fs)
  BY <1>5, <1>8, TablesAndCodeStay
<1> QED BY <1>4, <1>5, <1>7, <1>8, <1>9 DEF d, y

(* Jumps and labels.                                                       *)
LEMMA PatchIs ==
  ASSUME NEW n \in Nat, NEW fs, NEW c, CompOk(c, n, fs), NEW pc \in Nat, NEW field \in {0, 1},
         NEW label \in STRING, pc < Len(c.code), c.code[pc + 1].op \in {"Jmp", "BrIf"}
  PROVE  LET d == Patch(c, pc, field, label)
         IN  CompOk(d, n, fs) /\ Grows(c, d) /\ d.code = c.code
<1> DEFINE d == Patch(c, pc, field, label)
           y == [pc |-> pc, field |-> field, label |-> label]
<1>1. c \in Compilers
  BY DEF CompOk
<1>2. y \in [pc : Nat, field : {0, 1}, label : STRING] /\ y.pc = pc
  OBVIOUS
<1>3. d = [c EXCEPT !.patches = Append(@, y)]
  BY DEF Patch
<1> HIDE DEF d, y
<1>4. /\ Append(c.patches, y) \in Seq([pc : Nat, field : {0, 1}, label : STRING])
      /\ Len(Append(c.patches, y)) = Len(c.patches) + 1
      /\ \A k \in 1 .. Len(c.patches) : Append(c.patches, y)[k] = c.patches[k]
      /\ Append(c.patches, y)[Len(c.patches) + 1] = y
  BY <1>1, <1>2, CompilerIs, AppendProperties
<1>5. /\ d \in Compilers /\ d.patches = Append(c.patches, y)
      /\ d.code = c.code /\ d.int_pool = c.int_pool /\ d.str_pool = c.str_pool
      /\ d.name_pool = c.name_pool /\ d.field_entries = c.field_entries
      /\ d.arg_regs = c.arg_regs /\ d.simd_loops = c.simd_loops
      /\ d.arg_ranges = c.arg_ranges /\ d.labels = c.labels /\ d.max_reg = c.max_reg
  BY <1>1, <1>3, <1>4 DEF Compilers
<1>6. Len(c.patches) \in Nat /\ DOMAIN c.patches = 1 .. Len(c.patches)
      /\ DOMAIN d.patches = 1 .. Len(c.patches) + 1
  BY <1>1, <1>4, <1>5, LengthsAre, DomainsAre
<1>7. Grows(c, d)
  BY <1>1, <1>5, GrowsSame DEF Grows
<1>8. TablesFit(d, NumRegs(n, d)) /\ CodeFits(d, n, fs) /\ JumpsOk(d)
  <2>1. TablesFit(d, NumRegs(n, d))
    BY <1>1, <1>5, <1>7, TablesStay DEF CompOk
  <2>2. CodeFits(d, n, fs)
    BY <1>1, <1>5, <1>7, FitsGrows DEF CompOk, CodeFits
  <2>3. JumpsOk(d)
    BY <1>5 DEF CompOk, JumpsOk
  <2> QED BY <2>1, <2>2, <2>3
<1>9. PatchesOk(d)
  <2> SUFFICES ASSUME NEW k \in DOMAIN d.patches
               PROVE  /\ d.patches[k].pc < Len(d.code)
                      /\ d.code[d.patches[k].pc + 1].op \in {"Jmp", "BrIf"}
    BY <1>5 DEF CompOk, PatchesOk
  <2>1. CASE k \in DOMAIN c.patches
    BY <2>1, <1>4, <1>5, <1>6 DEF CompOk, PatchesOk
  <2>2. CASE k = Len(c.patches) + 1
    BY <2>2, <1>2, <1>4, <1>5
  <2> QED BY <2>1, <2>2, <1>6
<1> QED BY <1>5, <1>7, <1>8, <1>9 DEF CompOk, d

(* A jump gets a target.                                                   *)
Retarget(i, field, to) == IF field = 0 THEN [i EXCEPT !.a = to] ELSE [i EXCEPT !.b = to]

LEMMA SetTargetIs ==
  ASSUME NEW n \in Nat, NEW fs, NEW c, CompOk(c, n, fs), NEW pc \in Nat, NEW field \in {0, 1},
         NEW to \in Nat, pc < Len(c.code), c.code[pc + 1].op \in {"Jmp", "BrIf"},
         to < Len(c.code) \/ (field = 1 /\ to = Len(c.code) /\ c.code[Len(c.code)].op = "Jmp")
  PROVE  LET d == SetTarget(c, pc, field, to)
         IN  /\ CompOk(d, n, fs) /\ Grows(c, d) /\ Len(d.code) = Len(c.code)
             /\ \A k \in DOMAIN c.code : d.code[k].op = c.code[k].op
             /\ d.patches = c.patches /\ d.labels = c.labels
<1> DEFINE d == SetTarget(c, pc, field, to)
           j == Retarget(c.code[pc + 1], field, to)
<1>1. c \in Compilers /\ c.code \in Seq(Instrs) /\ Len(c.code) \in Nat
      /\ DOMAIN c.code = 1 .. Len(c.code)
  BY CompilerIs, LengthsAre, DomainsAre DEF CompOk
<1>2. pc + 1 \in 1 .. Len(c.code)
  BY <1>1
<1>3. c.code[pc + 1] \in Instrs
  BY <1>1, <1>2, ElementOfSeq
<1>4. /\ j \in Instrs /\ j.op = c.code[pc + 1].op /\ j.flag = c.code[pc + 1].flag
      /\ j.dst = c.code[pc + 1].dst
      /\ j.a = (IF field = 0 THEN to ELSE c.code[pc + 1].a)
      /\ j.b = (IF field = 0 THEN c.code[pc + 1].b ELSE to)
  BY <1>3 DEF Retarget, Instrs
<1>5. d = [c EXCEPT !.code = [c.code EXCEPT ![pc + 1] = j]]
  BY DEF SetTarget, Retarget
<1> HIDE DEF d, j
<1>6. /\ [c.code EXCEPT ![pc + 1] = j] \in Seq(Instrs)
      /\ Len([c.code EXCEPT ![pc + 1] = j]) = Len(c.code)
      /\ \A k \in 1 .. Len(c.code) :
           [c.code EXCEPT ![pc + 1] = j][k] = IF k = pc + 1 THEN j ELSE c.code[k]
  BY <1>1, <1>2, <1>4, ExceptSeq
<1>7. /\ d \in Compilers /\ d.code = [c.code EXCEPT ![pc + 1] = j]
      /\ d.arg_ranges = c.arg_ranges /\ d.int_pool = c.int_pool /\ d.str_pool = c.str_pool
      /\ d.name_pool = c.name_pool /\ d.field_entries = c.field_entries
      /\ d.arg_regs = c.arg_regs /\ d.simd_loops = c.simd_loops
      /\ d.patches = c.patches /\ d.labels = c.labels /\ d.max_reg = c.max_reg
  BY <1>1, <1>5, <1>6 DEF Compilers
<1>8. /\ Len(d.code) = Len(c.code) /\ DOMAIN d.code = 1 .. Len(c.code)
      /\ \A k \in DOMAIN c.code : d.code[k] = IF k = pc + 1 THEN j ELSE c.code[k]
  BY <1>1, <1>6, <1>7, DomainsAre
<1>9. \A k \in DOMAIN c.code : d.code[k].op = c.code[k].op
  BY <1>4, <1>8
<1>10. Grows(c, d)
  BY <1>1, <1>7, <1>8, <1>9, GrowsSame DEF Grows
<1>11. TablesFit(d, NumRegs(n, d))
  BY <1>1, <1>7, <1>10, TablesStay DEF CompOk
<1>12. CodeFits(d, n, fs)
  <2> SUFFICES ASSUME NEW k \in DOMAIN c.code
               PROVE  /\ FitsFrame(d, NumRegs(n, d), fs, d.code[k])
                      /\ d.code[k].op = "Move" => d.code[k].flag = 0
    BY <1>1, <1>8 DEF CodeFits
  <2>1. /\ FitsFrame(d, NumRegs(n, d), fs, c.code[k])
        /\ c.code[k].op = "Move" => c.code[k].flag = 0
    BY <1>1, <1>7, <1>10, FitsGrows DEF CompOk, CodeFits
  <2>2. CASE k # pc + 1
    BY <2>1, <2>2, <1>8
  <2>3. CASE k = pc + 1
    <3>1. d.code[k] = j /\ j.op \in {"Jmp", "BrIf"} /\ j.dst = c.code[k].dst
      BY <2>3, <1>4, <1>8
    <3>2. FitsFrame(d, NumRegs(n, d), fs, j)
      BY <3>1, <2>1, <2>3, <1>4 DEF FitsFrame, Binary
    <3> QED BY <3>1, <3>2
  <2> QED BY <2>2, <2>3
<1>13. JumpsOk(d)
  <2> SUFFICES ASSUME NEW k \in DOMAIN c.code
               PROVE  /\ d.code[k].op \in {"Jmp", "BrIf"} => d.code[k].a < Len(c.code)
                      /\ d.code[k].op = "BrIf" =>
                           \/ d.code[k].b < Len(c.code)
                           \/ d.code[k].b = Len(c.code) /\ d.code[Len(c.code)].op = "Jmp"
    BY <1>1, <1>8 DEF JumpsOk
  <2>1. /\ c.code[k].op \in {"Jmp", "BrIf"} => c.code[k].a < Len(c.code)
        /\ c.code[k].op = "BrIf" =>
             \/ c.code[k].b < Len(c.code)
             \/ c.code[k].b = Len(c.code) /\ c.code[Len(c.code)].op = "Jmp"
    BY DEF CompOk, JumpsOk
  <2>2. d.code[Len(c.code)].op = c.code[Len(c.code)].op
    <3>1. Len(c.code) \in DOMAIN c.code
      BY <1>1, <1>2
    <3> QED BY <3>1, <1>9
  <2>3. CASE k # pc + 1
    BY <2>1, <2>2, <2>3, <1>8
  <2>4. CASE k = pc + 1
    BY <2>1, <2>2, <2>4, <1>4, <1>8
  <2> QED BY <2>3, <2>4
<1>14. PatchesOk(d)
  <2>1. PatchesOk(c)
    BY DEF CompOk
  <2>2. ASSUME NEW k \in DOMAIN d.patches
        PROVE  /\ d.patches[k].pc < Len(d.code)
               /\ d.code[d.patches[k].pc + 1].op \in {"Jmp", "BrIf"}
    <3>1. c.patches[k] \in [pc : Nat, field : {0, 1}, label : STRING]
      <4>1. c.patches \in Seq([pc : Nat, field : {0, 1}, label : STRING])
        BY <1>1, CompilerIs
      <4>2. k \in 1 .. Len(c.patches)
        BY <1>1, <1>7, DomainsAre
      <4> QED BY <4>1, <4>2, ElementOfSeq
    <3>2. /\ c.patches[k].pc < Len(c.code)
          /\ c.code[c.patches[k].pc + 1].op \in {"Jmp", "BrIf"}
      BY <2>1, <1>7 DEF PatchesOk
    <3>3. c.patches[k].pc + 1 \in DOMAIN c.code
      BY <3>1, <3>2, <1>1
    <3> QED BY <3>2, <3>3, <1>7, <1>8, <1>9
  <2> QED BY <2>1, <2>2, <1>7, <1>8 DEF PatchesOk
<1> QED BY <1>7, <1>8, <1>9, <1>10, <1>11, <1>12, <1>13, <1>14 DEF CompOk, d

(* A label, and the instruction that it stands before.                     *)
LEMMA LabelIs ==
  ASSUME NEW n \in Nat, NEW fs, NEW c, CompOk(c, n, fs), NEW name \in STRING
  PROVE  LET d == Emit(SetLabelAt(c, name), "SetLabel", 0, 0, 0, 0)
         IN  CompOk(d, n, fs) /\ Grows(c, d)
<1> DEFINE l == [x \in DOMAIN c.labels \cup {name} |->
                   IF x = name THEN Len(c.code) ELSE c.labels[x]]
           e == SetLabelAt(c, name)
           d == Emit(e, "SetLabel", 0, 0, 0, 0)
           i == Instr("SetLabel", 0, 0, 0, 0)
<1>1. c \in Compilers /\ Len(c.code) \in Nat /\ c.labels \in LabelMaps
  BY LengthsAre, CompilerIs DEF CompOk
<1>2. PICK D \in SUBSET STRING : c.labels \in [D -> Nat]
  BY <1>1 DEF LabelMaps
<1>3. l \in [D \cup {name} -> Nat] /\ DOMAIN l = D \cup {name}
  BY <1>1, <1>2
<1>4. l \in LabelMaps
  BY <1>3 DEF LabelMaps
<1>5. \A x \in DOMAIN l : l[x] <= Len(c.code) /\ l[x] \in Nat
  <2>1. \A x \in DOMAIN c.labels : c.labels[x] \in Nat /\ c.labels[x] < Len(c.code)
    BY <1>1, <1>2 DEF CompOk, PatchesOk
  <2> QED BY <2>1, <1>1
<1>6. e = [c EXCEPT !.labels = l]
  BY DEF SetLabelAt
<1>7. i \in Instrs /\ i.op = "SetLabel" /\ i.dst = 0
  <2>1. "SetLabel" \in Ops /\ 0 \in 0 .. 3
    BY DEF Ops
  <2> QED BY <2>1 DEF Instr, Instrs
<1>8. Emits(e, d, i)
  BY DEF Emit, Emits, Instr
<1> HIDE DEF l, e, d, i
<1>9. /\ e \in Compilers /\ e.labels = l
      /\ e.code = c.code /\ e.int_pool = c.int_pool /\ e.str_pool = c.str_pool
      /\ e.name_pool = c.name_pool /\ e.field_entries = c.field_entries
      /\ e.arg_regs = c.arg_regs /\ e.simd_loops = c.simd_loops
      /\ e.arg_ranges = c.arg_ranges /\ e.patches = c.patches /\ e.max_reg = c.max_reg
  BY <1>1, <1>4, <1>6 DEF Compilers
<1> DEFINE f == [e EXCEPT !.labels = c.labels]
           g == [d EXCEPT !.labels = c.labels]
<1>10. f = c
  BY <1>1, <1>6 DEF Compilers
<1>11. /\ d \in Compilers /\ d.labels = l /\ Grows(e, d) /\ Len(d.code) = Len(e.code) + 1
  BY <1>7, <1>8, <1>9, EmitIs
<1>12. Emits(c, g, i)
  BY <1>8, <1>9, <1>10 DEF Emits, Compilers
<1>13. FitsFrame(g, NumRegs(n, g), fs, i)
  <2>1. g \in Compilers
    BY <1>1, <1>7, <1>12, EmitIs
  <2> QED BY <2>1, <1>7, NumRegsIs DEF FitsFrame, Binary
<1>14. CompOk(g, n, fs) /\ Grows(c, g)
  BY <1>7, <1>12, <1>13, EmitOk
<1>15. /\ g.code = d.code /\ g.int_pool = d.int_pool /\ g.str_pool = d.str_pool
       /\ g.name_pool = d.name_pool /\ g.field_entries = d.field_entries
       /\ g.arg_regs = d.arg_regs /\ g.simd_loops = d.simd_loops
       /\ g.arg_ranges = d.arg_ranges /\ g.patches = d.patches /\ g.max_reg = d.max_reg
  BY <1>11 DEF Compilers
<1> HIDE DEF f, g
<1>16. g \in Compilers
  BY <1>14 DEF CompOk
<1>17. Grows(g, d) /\ Grows(c, d)
  <2>1. Grows(g, d)
    BY <1>15, <1>16, GrowsSame DEF Grows
  <2> QED BY <2>1, <1>1, <1>11, <1>14, <1>16, GrowsTwice
<1>18. TablesFit(d, NumRegs(n, d))
  BY <1>11, <1>14, <1>15, <1>16, <1>17, TablesStay DEF CompOk
<1>19. CodeFits(d, n, fs)
  BY <1>11, <1>14, <1>15, <1>16, <1>17, FitsGrows DEF CompOk, CodeFits
<1>20. JumpsOk(d)
  BY <1>14, <1>15 DEF CompOk, JumpsOk
<1>21. PatchesOk(d)
  <2>1. \A x \in DOMAIN d.labels : d.labels[x] < Len(d.code)
    BY <1>1, <1>5, <1>9, <1>11
  <2> QED BY <2>1, <1>14, <1>15 DEF CompOk, PatchesOk
<1> QED BY <1>11, <1>17, <1>18, <1>19, <1>20, <1>21 DEF CompOk, d, e

-----------------------------------------------------------------------------
(* The nodes of a function.                                                *)
WellFormed(fn) ==
  /\ fn.n_regs \in Nat
  /\ fn.body \in Seq({e \in Parts(fn) : e.k \in StmtKinds})
  /\ \A e \in Parts(fn) :
       /\ e \in [k : ExprKinds \cup StmtKinds \cup {"given"}, s : STRING, n : Int,
                 args : Seq(Parts(fn))]
       /\ AsParsed(e, fn.n_regs)

LEMMA PartIs ==
  ASSUME NEW fn, WellFormed(fn), NEW e \in Parts(fn)
  PROVE  /\ e.k \in ExprKinds \cup StmtKinds \cup {"given"} /\ e.s \in STRING /\ e.n \in Int
         /\ e.args \in Seq(Parts(fn)) /\ Len(e.args) \in Nat
         /\ \A j \in 1 .. Len(e.args) : e.args[j] \in Parts(fn)
<1>1. e \in [k : ExprKinds \cup StmtKinds \cup {"given"}, s : STRING, n : Int,
             args : Seq(Parts(fn))]
  BY DEF WellFormed
<1>2. e.args \in Seq(Parts(fn))
  BY <1>1
<1> QED BY <1>1, <1>2, LenProperties, ElementOfSeq

LEMMA NamedRegsAre ==
  ASSUME NEW fn, WellFormed(fn), NEW e \in Parts(fn)
  PROVE  /\ e.k = "Reg" => e.n \in 0 .. fn.n_regs - 1
         /\ e.k \in {"Field", "get_field_ref", "load", "get_index_ref", "assign", "set", "store"} =>
              e.args[1].n \in 0 .. fn.n_regs - 1
         /\ e.k = "br_if" => e.args[2].s \in STRING /\ e.args[3].s \in STRING
<1>1. AsParsed(e, fn.n_regs)
  BY DEF WellFormed
<1>2. CASE e.k = "Reg"
  BY <1>1, <1>2 DEF AsParsed, Binary
<1>3. CASE e.k \in {"Field", "get_field_ref", "load"}
  <2>1. Len(e.args) = 1 /\ e.args[1].k = "Reg"
    BY <1>1, <1>3 DEF AsParsed, Binary
  <2>2. e.args[1] \in Parts(fn)
    BY <2>1, PartIs
  <2>3. AsParsed(e.args[1], fn.n_regs)
    BY <2>2 DEF WellFormed
  <2>4. e.args[1].n \in 0 .. fn.n_regs - 1
    BY <2>1, <2>3 DEF AsParsed, Binary
  <2> QED BY <2>4, <1>3
<1>4. CASE e.k \in {"get_index_ref", "assign", "set", "store"}
  <2>1. Len(e.args) = 2 /\ e.args[1].k = "Reg"
    BY <1>1, <1>4 DEF AsParsed, Binary
  <2>2. e.args[1] \in Parts(fn)
    BY <2>1, PartIs
  <2>3. AsParsed(e.args[1], fn.n_regs)
    BY <2>2 DEF WellFormed
  <2>4. e.args[1].n \in 0 .. fn.n_regs - 1
    BY <2>1, <2>3 DEF AsParsed, Binary
  <2> QED BY <2>4, <1>4
<1>5. CASE e.k = "br_if"
  <2>1. Len(e.args) = 3
    BY <1>1, <1>5 DEF AsParsed, Binary
  <2>2. e.args[2] \in Parts(fn) /\ e.args[3] \in Parts(fn)
    BY <2>1, PartIs
  <2> QED BY <2>2, PartIs, <1>5
<1> QED BY <1>2, <1>3, <1>4, <1>5

LEMMA KidsAre ==
  ASSUME NEW fn, WellFormed(fn), NEW e \in Bodies(fn)
  PROVE  /\ NumKids(e) \in Nat
         /\ \A j \in 1 .. NumKids(e) :
              /\ Kid(e, j) \in Parts(fn)
              /\ Kid(e, j).k \in (IF e.k = "body" \/ (e.k = "while" /\ j > 1) THEN StmtKinds
                                  ELSE ExprKinds)
         /\ e.k = "StructLit" => \A j \in 1 .. NumKids(e) : e.args[j].s \in STRING
<1>1. CASE e = Node("body", "", 0, fn.body)
  <2>1. e.k = "body" /\ e.args = fn.body
    BY <1>1 DEF Node
  <2>2. NumKids(e) = Len(fn.body) /\ \A j : Kid(e, j) = fn.body[j]
    BY <2>1 DEF NumKids, Kid, Binary
  <2>3. fn.body \in Seq({x \in Parts(fn) : x.k \in StmtKinds})
    BY DEF WellFormed
  <2>4. Len(fn.body) \in Nat /\ \A j \in 1 .. Len(fn.body) :
          fn.body[j] \in {x \in Parts(fn) : x.k \in StmtKinds}
    BY <2>3, LenProperties, ElementOfSeq
  <2> QED BY <2>1, <2>2, <2>4
<1>2. CASE e \in Parts(fn)
  <2>1. /\ e.k \in ExprKinds \cup StmtKinds \cup {"given"} /\ Len(e.args) \in Nat
        /\ \A j \in 1 .. Len(e.args) : e.args[j] \in Parts(fn)
    BY <1>2, PartIs
  <2>2. AsParsed(e, fn.n_regs) /\ \A x \in Parts(fn) : AsParsed(x, fn.n_regs)
    BY <1>2 DEF WellFormed
  <2>3. CASE e.k \in {"Reg", "Int", "Str", "Named", "Field", "get_field_ref", "load", "label", "jmp"}
    BY <2>3 DEF NumKids, Binary
  <2>4. CASE e.k \in Binary
    <3>1. NumKids(e) = 2 /\ \A j : Kid(e, j) = e.args[j]
      BY <2>4 DEF NumKids, Kid, Binary
    <3>2. Len(e.args) = 2 /\ e.args[1].k \in ExprKinds /\ e.args[2].k \in ExprKinds
      BY <2>2, <2>4 DEF AsParsed, Binary
    <3>3. e.k # "body" /\ e.k # "while" /\ e.k # "StructLit"
      BY <2>4 DEF Binary
    <3> QED BY <3>1, <3>2, <3>3, <2>1
  <2>5. CASE e.k = "call"
    <3>1. NumKids(e) = Len(e.args) /\ \A j : Kid(e, j) = e.args[j]
      BY <2>5 DEF NumKids, Kid, Binary
    <3>2. \A j \in 1 .. Len(e.args) : e.args[j].k \in ExprKinds
      BY <2>2, <2>5 DEF AsParsed, Binary
    <3> QED BY <3>1, <3>2, <2>1, <2>5
  <2>6. CASE e.k = "StructLit"
    <3>1. NumKids(e) = Len(e.args) /\ \A j : Kid(e, j) = e.args[j].args[1]
      BY <2>6 DEF NumKids, Kid, Binary
    <3>2. \A j \in 1 .. Len(e.args) : e.args[j].k = "given"
      BY <2>2, <2>6 DEF AsParsed, Binary
    <3> SUFFICES ASSUME NEW j \in 1 .. Len(e.args)
                 PROVE  /\ e.args[j].args[1] \in Parts(fn)
                        /\ e.args[j].args[1].k \in ExprKinds /\ e.args[j].s \in STRING
      BY <3>1, <2>1, <2>6
    <3> DEFINE g == e.args[j]
    <3>3. g \in Parts(fn) /\ g.k = "given"
      BY <3>2, <2>1
    <3> HIDE DEF g
    <3>4. Len(g.args) = 1 /\ g.args[1].k \in ExprKinds
      BY <3>3, <2>2 DEF AsParsed, Binary
    <3>5. g.args[1] \in Parts(fn) /\ g.s \in STRING
      BY <3>3, <3>4, PartIs
    <3> QED BY <3>4, <3>5 DEF g
  <2>7. CASE e.k = "while"
    <3>1. NumKids(e) = Len(e.args) /\ \A j : Kid(e, j) = e.args[j]
      BY <2>7 DEF NumKids, Kid, Binary
    <3>2. e.args[1].k \in ExprKinds /\ \A j \in 2 .. Len(e.args) : e.args[j].k \in StmtKinds
      BY <2>2, <2>7 DEF AsParsed, Binary
    <3>3. \A j \in 1 .. Len(e.args) : (j > 1 => j \in 2 .. Len(e.args)) /\ (~(j > 1) => j = 1)
      BY <2>1
    <3> QED BY <3>1, <3>2, <3>3, <2>1, <2>7
  <2>8. CASE e.k \in {"get_index_ref", "assign", "set", "store"}
    <3>1. NumKids(e) = 1 /\ \A j : Kid(e, j) = e.args[2]
      BY <2>8 DEF NumKids, Kid, Binary
    <3>2. Len(e.args) = 2 /\ e.args[2].k \in ExprKinds
      BY <2>2, <2>8 DEF AsParsed, Binary
    <3> QED BY <3>1, <3>2, <2>1, <2>8
  <2>9. CASE e.k \in {"const", "alloc", "alloc_array", "ret", "given", "br_if"}
    <3>1. NumKids(e) = 1 /\ \A j : Kid(e, j) = e.args[j]
      BY <2>9 DEF NumKids, Kid, Binary
    <3>2. Len(e.args) \in {1, 3} /\ e.args[1].k \in ExprKinds
      BY <2>2, <2>9 DEF AsParsed, Binary
    <3> QED BY <3>1, <3>2, <2>1, <2>9
  <2> QED BY <2>1, <2>3, <2>4, <2>5, <2>6, <2>7, <2>8, <2>9 DEF ExprKinds, StmtKinds
<1> QED BY <1>1, <1>2 DEF Bodies

-----------------------------------------------------------------------------
(* The instructions that are emitted for a node.                           *)
Can(c, n, fs, op, flag, a, b) ==
  /\ op \in Ops /\ flag \in 0 .. 3 /\ a \in Nat /\ b \in Nat
  /\ FitsFrame(c, NumRegs(n, c), fs, Instr(op, flag, 0, a, b))
  /\ op = "Move" => flag = 0
  /\ op \in {"Jmp", "BrIf"} => a <= Len(c.code)
  /\ op = "BrIf" => b <= Len(c.code)

LEMMA EmitCan ==
  ASSUME NEW n \in Nat, NEW fs, NEW c, CompOk(c, n, fs), NEW op, NEW flag, NEW a, NEW b,
         Can(c, n, fs, op, flag, a, b), NEW dst \in Nat
  PROVE  LET d == Emit(c, op, flag, dst, a, b)
         IN  /\ CompOk(d, n, fs) /\ Grows(c, d) /\ dst \in Regs(n, d)
             /\ Len(d.code) = Len(c.code) + 1 /\ d.code[Len(c.code) + 1].op = op
             /\ d.patches = c.patches /\ d.labels = c.labels
<1> DEFINE d == Emit(c, op, flag, dst, a, b)
           i == Instr(op, flag, dst, a, b)
           j == Instr(op, flag, 0, a, b)
<1>1. /\ op \in Ops /\ flag \in 0 .. 3 /\ a \in Nat /\ b \in Nat
      /\ FitsFrame(c, NumRegs(n, c), fs, j)
      /\ op = "Move" => flag = 0
      /\ op \in {"Jmp", "BrIf"} => a <= Len(c.code)
      /\ op = "BrIf" => b <= Len(c.code)
  BY DEF Can
<1>2. i \in Instrs /\ i.op = op /\ i.flag = flag /\ i.dst = dst /\ i.a = a /\ i.b = b
  BY <1>1 DEF Instr, Instrs
<1>3. j.op = op /\ j.flag = flag /\ j.dst = 0 /\ j.a = a /\ j.b = b
  BY DEF Instr
<1>4. Emits(c, d, i)
  BY DEF Emits, Emit, Instr
<1> HIDE DEF d, i, j
<1>5. c \in Compilers
  BY DEF CompOk
<1>6. /\ d \in Compilers /\ Grows(c, d) /\ i.dst <= d.max_reg
      /\ Len(d.code) = Len(c.code) + 1 /\ d.code[Len(c.code) + 1] = i
      /\ d.patches = c.patches /\ d.labels = c.labels
  BY <1>2, <1>4, <1>5, EmitIs
<1>7. i.dst \in 0 .. NumRegs(n, d) - 1
  <2>1. NumRegs(n, d) \in Nat /\ d.max_reg < NumRegs(n, d) /\ d.max_reg \in Nat
    BY <1>6, NumRegsIs, LengthsAre
  <2> QED BY <2>1, <1>2, <1>6
<1>8. FitsFrame(d, NumRegs(n, d), fs, j)
  BY <1>1, <1>5, <1>6, FitsGrows
<1>9. FitsFrame(d, NumRegs(n, d), fs, i)
  <2>1. FitsA(d, NumRegs(n, d), i) = FitsA(d, NumRegs(n, d), j)
        /\ FitsB(d, NumRegs(n, d), i) = FitsB(d, NumRegs(n, d), j)
    BY <1>2, <1>3 DEF FitsA, FitsB, LitA, LitB
  <2> QED BY <2>1, <1>2, <1>3, <1>7, <1>8 DEF FitsFrame
<1>10. CompOk(d, n, fs)
  BY <1>1, <1>2, <1>4, <1>9, EmitOk
<1> QED BY <1>2, <1>6, <1>7, <1>10 DEF d, Regs

LEMMA EmitAfter ==
  ASSUME NEW n \in Nat, NEW fs, NEW c, CompOk(c, n, fs), NEW p, CompOk(p, n, fs), Grows(c, p),
         NEW op, NEW flag, NEW a, NEW b, Can(p, n, fs, op, flag, a, b), NEW dst \in Nat
  PROVE  LET d == Emit(p, op, flag, dst, a, b)
         IN  CompOk(d, n, fs) /\ Grows(c, d) /\ dst \in Regs(n, d)
<1> DEFINE d == Emit(p, op, flag, dst, a, b)
<1>1. CompOk(d, n, fs) /\ Grows(p, d) /\ dst \in Regs(n, d)
  BY EmitCan
<1> HIDE DEF d
<1>2. c \in Compilers /\ p \in Compilers /\ d \in Compilers
  BY <1>1 DEF CompOk
<1>3. Grows(c, d)
  BY <1>1, <1>2, GrowsTwice
<1> QED BY <1>1, <1>3 DEF d

LEMMA OnlyOperandIs ==
  ASSUME NEW fn, WellFormed(fn), NEW c, c \in Compilers, NEW f \in Frames(fn),
         FrameOk(f, c, fn.n_regs), IsDone(f), NumKids(f.e) = 1, f.e.k \notin Binary
  PROVE  f.got[1].at \in Regs(fn.n_regs, c) /\ f.got[1].at \in Nat
<1>1. Len(f.got) = 1 /\ f.got \in Seq(Operands)
  BY DEF IsDone, Frames
<1>2. 1 \in DOMAIN f.got /\ f.got[1] \in Operands
  BY <1>1, LenProperties, ElementOfSeq
<1>3. OperandOk(f.got[1], c, fn.n_regs) /\ f.got[1].lit = 0
  BY <1>2 DEF FrameOk
<1> QED BY <1>2, <1>3 DEF OperandOk, Operands

LEMMA EmitAtomOk ==
  ASSUME NEW fn, WellFormed(fn), NEW fs, NEW c, CompOk(c, fn.n_regs, fs), NEW f \in Frames(fn),
         f.e \in Parts(fn), f.e.k \in {"Reg", "Int", "Str", "Named"}
  PROVE  LET d == EmitExpr(f, c)
         IN  CompOk(d, fn.n_regs, fs) /\ Grows(c, d) /\ (f.e.k # "Reg" => f.dst \in Regs(fn.n_regs, d))
<1>1. c \in Compilers /\ fn.n_regs \in Nat /\ f.dst \in Nat
  BY DEF CompOk, WellFormed, Frames
<1>2. f.e.s \in STRING /\ f.e.n \in Int
  BY PartIs
<1>3. CASE f.e.k = "Reg"
  <2>1. EmitExpr(f, c) = c
    BY <1>3 DEF EmitExpr, Binary
  <2> QED BY <2>1, <1>1, <1>3, GrowsSame
<1>4. CASE f.e.k = "Int"
  <2> DEFINE p == Pool(c, f.e.n)
             x == IndexOf(p.int_pool, f.e.n)
  <2>1. EmitExpr(f, c) = Emit(p, "LoadInt", 0, f.dst, x, 0)
    BY <1>4 DEF EmitExpr, Binary
  <2>2. CompOk(p, fn.n_regs, fs) /\ Grows(c, p) /\ x \in Below(p.int_pool)
    BY <1>1, <1>2, PoolIs
  <2> HIDE DEF p, x
  <2>3. p \in Compilers /\ x \in Nat
    BY <2>2, LengthsAre DEF CompOk, Below
  <2>4. Can(p, fn.n_regs, fs, "LoadInt", 0, x, 0)
    BY <2>2, <2>3, <1>1, NumRegsIs DEF Can, Ops, FitsFrame, Instr, Binary
  <2> QED BY <2>1, <2>2, <2>4, <1>1, EmitAfter
<1>5. CASE f.e.k \in {"Str", "Named"}
  <2> DEFINE p == Str(c, f.e.s)
             x == IndexOf(p.str_pool, f.e.s)
             op == IF f.e.k = "Str" THEN "LoadStr" ELSE "LoadNamed"
  <2>1. EmitExpr(f, c) = Emit(p, op, 0, f.dst, x, 0)
    BY <1>5 DEF EmitExpr, Binary
  <2>2. CompOk(p, fn.n_regs, fs) /\ Grows(c, p) /\ x \in Below(p.str_pool)
    BY <1>1, <1>2, StrIs
  <2>3. op \in {"LoadStr", "LoadNamed"}
    OBVIOUS
  <2> HIDE DEF p, x, op
  <2>4. p \in Compilers /\ x \in Nat
    BY <2>2, LengthsAre DEF CompOk, Below
  <2>5. Can(p, fn.n_regs, fs, op, 0, x, 0)
    <3>1. CASE op = "LoadStr"
      BY <3>1, <2>2, <2>4, <1>1, NumRegsIs DEF Can, Ops, FitsFrame, Instr, Binary
    <3>2. CASE op = "LoadNamed"
      BY <3>2, <2>2, <2>4, <1>1, NumRegsIs DEF Can, Ops, FitsFrame, Instr, Binary
    <3> QED BY <3>1, <3>2, <2>3
  <2> QED BY <2>1, <2>2, <2>5, <1>1, EmitAfter
<1> QED BY <1>3, <1>4, <1>5

(* An operation on two operands.                                           *)
LEMMA EmitBinaryOk ==
  ASSUME NEW fn, WellFormed(fn), NEW fs, NEW c, CompOk(c, fn.n_regs, fs), NEW f \in Frames(fn),
         FrameOk(f, c, fn.n_regs), IsDone(f), f.e.k \in Binary
  PROVE  LET d == EmitExpr(f, c)
         IN  CompOk(d, fn.n_regs, fs) /\ Grows(c, d) /\ f.dst \in Regs(fn.n_regs, d)
<1> DEFINE x == f.got[1]
           y == f.got[2]
           flag == x.lit + 2 * y.lit
           i == Instr(f.e.k, flag, 0, x.at, y.at)
           n == fn.n_regs
<1>1. c \in Compilers /\ n \in Nat /\ f.dst \in Nat
  BY DEF CompOk, WellFormed, Frames
<1>2. EmitExpr(f, c) = Emit(c, f.e.k, flag, f.dst, x.at, y.at)
  BY DEF EmitExpr, Binary
<1>3. Len(f.got) = 2 /\ f.got \in Seq(Operands)
  BY DEF IsDone, Frames, NumKids, Binary
<1>4. x \in Operands /\ y \in Operands /\ 1 \in DOMAIN f.got /\ 2 \in DOMAIN f.got
  BY <1>3, LenProperties, ElementOfSeq
<1>5. OperandOk(x, c, n) /\ OperandOk(y, c, n)
  BY <1>4 DEF FrameOk
<1>6. x.lit \in {0, 1} /\ y.lit \in {0, 1} /\ x.at \in Nat /\ y.at \in Nat
  BY <1>4 DEF Operands
<1>7. flag \in 0 .. 3 /\ (flag % 2 = 1) = (x.lit = 1) /\ (flag \div 2 = 1) = (y.lit = 1)
  <2>1. CASE x.lit = 0 /\ y.lit = 0
    BY <2>1
  <2>2. CASE x.lit = 0 /\ y.lit = 1
    BY <2>2
  <2>3. CASE x.lit = 1 /\ y.lit = 0
    BY <2>3
  <2>4. CASE x.lit = 1 /\ y.lit = 1
    BY <2>4
  <2> QED BY <2>1, <2>2, <2>3, <2>4, <1>6
<1>8. i.op = f.e.k /\ i.flag = flag /\ i.dst = 0 /\ i.a = x.at /\ i.b = y.at
  BY DEF Instr
<1> HIDE DEF x, y, flag, i
<1>9. FitsA(c, NumRegs(n, c), i) /\ FitsB(c, NumRegs(n, c), i)
  BY <1>5, <1>7, <1>8 DEF FitsA, FitsB, LitA, LitB, OperandOk, Regs
<1>10. 0 \in 0 .. NumRegs(n, c) - 1
  BY <1>1, NumRegsIs
<1>11. FitsFrame(c, NumRegs(n, c), fs, i)
  BY <1>8, <1>9, <1>10 DEF FitsFrame, Binary
<1>12. f.e.k \in Ops /\ f.e.k \notin {"Move", "Jmp", "BrIf"}
  BY DEF Ops, Binary
<1>13. Can(c, n, fs, f.e.k, flag, x.at, y.at)
  BY <1>6, <1>7, <1>11, <1>12 DEF Can, i
<1> QED BY <1>1, <1>2, <1>13, EmitCan

(* A field, or what a reference refers to.                                 *)
LEMMA EmitFieldOk ==
  ASSUME NEW fn, WellFormed(fn), NEW fs, NEW c, CompOk(c, fn.n_regs, fs), NEW f \in Frames(fn),
         f.e \in Parts(fn), f.e.k \in {"Field", "get_field_ref", "load"}
  PROVE  LET d == EmitExpr(f, c)
         IN  CompOk(d, fn.n_regs, fs) /\ Grows(c, d) /\ f.dst \in Regs(fn.n_regs, d)
<1> DEFINE reg == f.e.args[1].n
           p == Name(c, f.e.s)
           x == NameIdx(p, f.e.s)
<1>1. c \in Compilers /\ fn.n_regs \in Nat /\ f.dst \in Nat
  BY DEF CompOk, WellFormed, Frames
<1>2. f.e.s \in STRING /\ reg \in 0 .. fn.n_regs - 1
  BY PartIs, NamedRegsAre
<1>3. CompOk(p, fn.n_regs, fs) /\ Grows(c, p) /\ x \in Below(p.name_pool)
  BY <1>1, <1>2, NameIs
<1>4. /\ f.e.k = "load" => EmitExpr(f, c) = Emit(c, "LoadRef", 0, f.dst, reg, 0)
      /\ f.e.k = "Field" => EmitExpr(f, c) = Emit(p, "GetField", 0, f.dst, reg, x)
      /\ f.e.k = "get_field_ref" => EmitExpr(f, c) = Emit(p, "GetFieldRef", 0, f.dst, reg, x)
  BY DEF EmitExpr, Binary
<1> HIDE DEF p, x, reg
<1>5. p \in Compilers /\ x \in Nat /\ reg \in Nat
  BY <1>1, <1>2, <1>3, LengthsAre DEF CompOk, Below
<1>6. /\ reg \in 0 .. NumRegs(fn.n_regs, c) - 1 /\ reg \in 0 .. NumRegs(fn.n_regs, p) - 1
      /\ 0 \in 0 .. NumRegs(fn.n_regs, c) - 1 /\ 0 \in 0 .. NumRegs(fn.n_regs, p) - 1
  <2>1. /\ NumRegs(fn.n_regs, c) \in Nat \ {0} /\ fn.n_regs <= NumRegs(fn.n_regs, c)
        /\ NumRegs(fn.n_regs, p) \in Nat \ {0} /\ fn.n_regs <= NumRegs(fn.n_regs, p)
    BY <1>1, <1>5, NumRegsIs
  <2> QED BY <2>1, <1>1, <1>2
<1>7. CASE f.e.k = "load"
  <2>1. Can(c, fn.n_regs, fs, "LoadRef", 0, reg, 0)
    BY <1>5, <1>6 DEF Can, Ops, FitsFrame, Instr, Binary
  <2> QED BY <2>1, <1>1, <1>4, <1>7, EmitCan
<1>8. CASE f.e.k = "Field"
  <2>1. Can(p, fn.n_regs, fs, "GetField", 0, reg, x)
    BY <1>3, <1>5, <1>6 DEF Can, Ops, FitsFrame, Instr, Binary
  <2> QED BY <2>1, <1>1, <1>3, <1>4, <1>8, EmitAfter
<1>9. CASE f.e.k = "get_field_ref"
  <2>1. Can(p, fn.n_regs, fs, "GetFieldRef", 0, reg, x)
    BY <1>3, <1>5, <1>6 DEF Can, Ops, FitsFrame, Instr, Binary
  <2> QED BY <2>1, <1>1, <1>3, <1>4, <1>9, EmitAfter
<1> QED BY <1>7, <1>8, <1>9

(* What has one operand.                                                   *)
LEMMA EmitUnaryOk ==
  ASSUME NEW fn, WellFormed(fn), NEW fs, NEW c, CompOk(c, fn.n_regs, fs), NEW f \in Frames(fn),
         FrameOk(f, c, fn.n_regs), IsDone(f), f.e \in Parts(fn),
         f.e.k \in {"const", "alloc", "alloc_array", "get_index_ref"}
  PROVE  LET d == EmitExpr(f, c)
         IN  /\ CompOk(d, fn.n_regs, fs) /\ Grows(c, d) /\ f.got[1].at \in Regs(fn.n_regs, d)
             /\ f.e.k # "const" => f.dst \in Regs(fn.n_regs, d)
<1> DEFINE reg == f.e.args[1].n
           at == f.got[1].at
           p == Name(c, f.e.s)
           x == NameIdx(p, f.e.s)
           n == fn.n_regs
<1>1. c \in Compilers /\ n \in Nat /\ f.dst \in Nat
  BY DEF CompOk, WellFormed, Frames
<1>2. f.e.s \in STRING /\ (f.e.k = "get_index_ref" => reg \in 0 .. n - 1)
  BY PartIs, NamedRegsAre
<1>3. CompOk(p, n, fs) /\ Grows(c, p) /\ x \in Below(p.name_pool)
  BY <1>1, <1>2, NameIs
<1>4. /\ f.e.k = "const" => EmitExpr(f, c) = c
      /\ f.e.k = "alloc" => EmitExpr(f, c) = Emit(c, "AllocBytes", 0, f.dst, at, 0)
      /\ f.e.k = "alloc_array" => EmitExpr(f, c) = Emit(p, "AllocArrayStruct", 0, f.dst, at, x)
      /\ f.e.k = "get_index_ref" => EmitExpr(f, c) = Emit(c, "GetIndexRef", 0, f.dst, reg, at)
  BY DEF EmitExpr, Binary
<1>5. NumKids(f.e) = 1 /\ f.e.k \notin Binary
  BY DEF NumKids, Binary
<1>6. at \in Regs(n, c) /\ at \in Nat
  BY <1>1, <1>5, OnlyOperandIs
<1> HIDE DEF p, x, reg, at
<1>7. p \in Compilers /\ x \in Nat
  BY <1>1, <1>3, LengthsAre DEF CompOk, Below
<1>8. /\ at \in 0 .. NumRegs(n, c) - 1 /\ at \in 0 .. NumRegs(n, p) - 1
      /\ 0 \in 0 .. NumRegs(n, c) - 1 /\ 0 \in 0 .. NumRegs(n, p) - 1
  <2>1. NumRegs(n, c) \in Nat \ {0} /\ NumRegs(n, p) \in Nat \ {0}
    BY <1>1, <1>7, NumRegsIs
  <2> QED BY <2>1, <1>1, <1>3, <1>6, <1>7, OperandsGrow DEF Regs
<1> DEFINE d == EmitExpr(f, c)
<1> HIDE DEF d
<1>9. CompOk(d, n, fs) /\ Grows(c, d) /\ (f.e.k # "const" => f.dst \in Regs(n, d))
  <2>1. CASE f.e.k = "const"
    BY <2>1, <1>1, <1>4, GrowsSame DEF d
  <2>2. CASE f.e.k = "alloc"
    <3>1. Can(c, n, fs, "AllocBytes", 0, at, 0)
      BY <1>6, <1>8 DEF Can, Ops, FitsFrame, Instr, Binary
    <3> QED BY <3>1, <2>2, <1>1, <1>4, EmitCan DEF d
  <2>3. CASE f.e.k = "alloc_array"
    <3>1. Can(p, n, fs, "AllocArrayStruct", 0, at, x)
      BY <1>3, <1>6, <1>7, <1>8 DEF Can, Ops, FitsFrame, Instr, Binary
    <3> QED BY <3>1, <2>3, <1>1, <1>3, <1>4, EmitAfter DEF d
  <2>4. CASE f.e.k = "get_index_ref"
    <3>1. reg \in Nat /\ reg \in 0 .. NumRegs(n, c) - 1
      <4>1. NumRegs(n, c) \in Nat /\ n <= NumRegs(n, c)
        BY <1>1, NumRegsIs
      <4> QED BY <4>1, <2>4, <1>1, <1>2
    <3>2. Can(c, n, fs, "GetIndexRef", 0, reg, at)
      BY <3>1, <1>6, <1>8 DEF Can, Ops, FitsFrame, Instr, Binary
    <3> QED BY <3>2, <2>4, <1>1, <1>4, EmitCan DEF d
  <2> QED BY <2>1, <2>2, <2>3, <2>4
<1>10. at \in Regs(n, d)
  BY <1>1, <1>6, <1>9, OperandsGrow DEF CompOk
<1> QED BY <1>9, <1>10 DEF d, at

(* What has a range of operands, which it has put in a table.              *)
LEMMA RangeIsIn ==
  ASSUME NEW n \in Nat, NEW fs, NEW c, CompOk(c, n, fs), NEW f, f.from \in Nat,
         Len(f.got) \in Nat
  PROVE  LET d == Ranged(f, c)
             k == Len(c.arg_ranges)
         IN  /\ k \in Nat
             /\ f.from + Len(f.got) <= Len(c.arg_regs) => RangeIn(d, k, d.arg_regs)
             /\ f.from + Len(f.got) <= Len(c.field_entries) => RangeIn(d, k, d.field_entries)
<1> DEFINE d == Ranged(f, c)
           k == Len(c.arg_ranges)
<1>1. /\ k \in Below(d.arg_ranges)
      /\ d.arg_ranges[k + 1] = [start |-> f.from, len |-> Len(f.got)]
      /\ d.arg_regs = c.arg_regs /\ d.field_entries = c.field_entries
  BY RangedIs
<1>2. k \in Nat
  BY LengthsAre DEF CompOk
<1> HIDE DEF d, k
<1>3. d.arg_ranges[k + 1].start = f.from /\ d.arg_ranges[k + 1].len = Len(f.got)
  BY <1>1
<1> QED BY <1>1, <1>2, <1>3 DEF RangeIn, d, k

LEMMA EmitStructLitOk ==
  ASSUME NEW fn, WellFormed(fn), NEW fs, NEW c, CompOk(c, fn.n_regs, fs), NEW f \in Frames(fn),
         FrameOk(f, c, fn.n_regs), f.e.k = "StructLit"
  PROVE  LET d == EmitExpr(f, c)
         IN  CompOk(d, fn.n_regs, fs) /\ Grows(c, d) /\ f.dst \in Regs(fn.n_regs, d)
<1> DEFINE p == Ranged(f, c)
           k == Len(c.arg_ranges)
           x == NameIdx(c, f.e.s)
           n == fn.n_regs
<1>1. c \in Compilers /\ n \in Nat /\ f.dst \in Nat /\ f.from \in Nat /\ Len(f.got) \in Nat
  BY LenProperties DEF CompOk, WellFormed, Frames
<1>2. EmitExpr(f, c) = Emit(p, "StructLit", 0, f.dst, x, k)
  BY DEF EmitExpr, Binary
<1>3. CompOk(p, n, fs) /\ Grows(c, p)
  BY <1>1, RangedIs
<1>9. p.name_pool = c.name_pool
  BY DEF Ranged
<1>4. f.from + Len(f.got) <= Len(c.field_entries) /\ Contains(c.name_pool, f.e.s)
  BY DEF FrameOk
<1>5. k \in Nat /\ RangeIn(p, k, p.field_entries)
  BY <1>1, <1>4, RangeIsIn
<1>6. x \in Below(p.name_pool)
  BY <1>1, <1>4, <1>9, CompilerIs, IndexIs DEF NameIdx
<1> HIDE DEF p, k, x
<1>7. p \in Compilers /\ x \in Nat /\ 0 \in 0 .. NumRegs(n, p) - 1
  <2>1. p \in Compilers
    BY <1>3 DEF CompOk
  <2>2. NumRegs(n, p) \in Nat \ {0}
    BY <2>1, <1>1, NumRegsIs
  <2>3. x \in Nat
    BY <2>1, <1>6, LengthsAre DEF Below
  <2> QED BY <2>1, <2>2, <2>3
<1>8. Can(p, n, fs, "StructLit", 0, x, k)
  BY <1>5, <1>6, <1>7 DEF Can, Ops, FitsFrame, Instr, Binary
<1> QED BY <1>1, <1>2, <1>3, <1>8, EmitAfter

(* A call, as an expression and as a statement.                            *)
LEMMA CallTargetIs ==
  ASSUME NEW fs, Len(fs) \in Nat, DOMAIN fs = 1 .. Len(fs), NEW name, IsDefined(fs, name)
  PROVE  LET t == CallTarget(fs, name)
         IN  /\ t.user \in BOOLEAN /\ t.idx \in Nat
             /\ t.user => t.idx \in 0 .. Len(fs) - 1
             /\ ~t.user => t.idx \in Below(Builtins)
<1>1. CASE LastNamed(fs, name) # {}
  <2> DEFINE i == CHOOSE i \in LastNamed(fs, name) : TRUE
  <2>1. i \in 1 .. Len(fs)
    BY <1>1 DEF LastNamed
  <2>2. CallTarget(fs, name) = [user |-> TRUE, idx |-> i - 1]
    BY <1>1 DEF CallTarget
  <2> HIDE DEF i
  <2> QED BY <2>1, <2>2
<1>2. CASE LastNamed(fs, name) = {}
  <2>1. Contains(Builtins, name)
    BY <1>2 DEF IsDefined
  <2> DEFINE S == {"puts", "flush", "open", "read", "write", "close"}
  <2>2. Builtins \in Seq(S) /\ Len(Builtins) = 6
    BY DEF Builtins
  <2>3. IndexOf(Builtins, name) \in Below(Builtins)
    BY <2>1, <2>2, IndexIs
  <2>4. CallTarget(fs, name) = [user |-> FALSE, idx |-> IndexOf(Builtins, name)]
    BY <1>2 DEF CallTarget
  <2>5. IndexOf(Builtins, name) \in Nat
    BY <2>2, <2>3 DEF Below
  <2> QED BY <2>3, <2>4, <2>5
<1> QED BY <1>1, <1>2

LEMMA EmitCallOk ==
  ASSUME NEW fn, WellFormed(fn), Len(tree.functions) \in Nat,
         DOMAIN tree.functions = 1 .. Len(tree.functions),
         NEW c, CompOk(c, fn.n_regs, Len(tree.functions)), NEW f \in Frames(fn),
         FrameOk(f, c, fn.n_regs), f.e.k = "call", IsDefined(tree.functions, f.e.s)
  PROVE  LET d == EmitCall(f, c)
         IN  /\ CompOk(d, fn.n_regs, Len(tree.functions)) /\ Grows(c, d)
             /\ ~f.stmt => f.dst \in Regs(fn.n_regs, d)
<1> DEFINE p == Ranged(f, c)
           k == Len(c.arg_ranges)
           t == CallTarget(tree.functions, f.e.s)
           op == CallOp(t.user, f.stmt)
           dst == IF f.stmt THEN 0 ELSE f.dst
           n == fn.n_regs
           fs == Len(tree.functions)
<1>1. c \in Compilers /\ n \in Nat /\ dst \in Nat /\ f.from \in Nat /\ Len(f.got) \in Nat
      /\ f.stmt \in BOOLEAN
  BY LenProperties DEF CompOk, WellFormed, Frames
<1>2. EmitCall(f, c) = Emit(p, op, 0, dst, t.idx, k)
  BY DEF EmitCall
<1>3. CompOk(p, n, fs) /\ Grows(c, p)
  BY <1>1, RangedIs
<1>4. k \in Nat /\ RangeIn(p, k, p.arg_regs)
  BY <1>1, RangeIsIn DEF FrameOk
<1>5. /\ t.user \in BOOLEAN /\ t.idx \in Nat
      /\ t.user => t.idx \in 0 .. fs - 1
      /\ ~t.user => t.idx \in Below(Builtins)
  BY CallTargetIs
<1>6. /\ op \in {"CallUser", "CallUserVoid", "CallBuiltin", "CallBuiltinVoid"}
      /\ op \in {"CallUser", "CallUserVoid"} => t.user
      /\ op \in {"CallBuiltin", "CallBuiltinVoid"} => ~t.user
  BY DEF CallOp
<1> HIDE DEF p, k, t, op
<1>7. p \in Compilers /\ 0 \in 0 .. NumRegs(n, p) - 1
  <2>1. p \in Compilers
    BY <1>3 DEF CompOk
  <2>2. NumRegs(n, p) \in Nat \ {0}
    BY <2>1, <1>1, NumRegsIs
  <2> QED BY <2>1, <2>2
<1>8. FitsFrame(p, NumRegs(n, p), fs, Instr(op, 0, 0, t.idx, k))
  BY <1>4, <1>5, <1>6, <1>7 DEF FitsFrame, Instr, Binary
<1>9. op \in Ops /\ op \notin {"Move", "Jmp", "BrIf"}
  BY <1>6 DEF Ops
<1>10. Can(p, n, fs, op, 0, t.idx, k)
  BY <1>4, <1>5, <1>8, <1>9 DEF Can
<1>11. CompOk(EmitCall(f, c), n, fs) /\ Grows(c, EmitCall(f, c)) /\ dst \in Regs(n, EmitCall(f, c))
  BY <1>1, <1>2, <1>3, <1>10, EmitAfter
<1> QED BY <1>11

(* The instructions of a statement.                                        *)
LEMMA EmitAssignOk ==
  ASSUME NEW fn, WellFormed(fn), NEW fs, NEW c, CompOk(c, fn.n_regs, fs), NEW f \in Frames(fn),
         FrameOk(f, c, fn.n_regs), IsDone(f), f.e \in Parts(fn),
         f.e.k \in {"assign", "set", "store", "ret"}
  PROVE  LET d == EmitStmt(f, c)
         IN  CompOk(d, fn.n_regs, fs) /\ Grows(c, d)
<1> DEFINE reg == f.e.args[1].n
           r == f.got[1].at
           x == NameIdx(c, f.e.s)
           n == fn.n_regs
           N == NumRegs(n, c)
<1>1. c \in Compilers /\ n \in Nat
  BY DEF CompOk, WellFormed
<1>2. f.e.k # "ret" => reg \in 0 .. n - 1
  BY NamedRegsAre
<1>3. f.e.k = "set" => x \in Below(c.name_pool)
  BY <1>1, CompilerIs, IndexIs DEF NameIdx, FrameOk
<1>4. NumKids(f.e) = 1 /\ f.e.k \notin Binary
  BY DEF NumKids, Binary
<1>5. r \in Regs(n, c) /\ r \in Nat
  BY <1>1, <1>4, OnlyOperandIs
<1>6. /\ f.e.k = "assign" => EmitStmt(f, c) = IF r # reg THEN Emit(c, "Move", 0, reg, r, 0) ELSE c
      /\ f.e.k = "set" => EmitStmt(f, c) = Emit(c, "SetField", 0, reg, x, r)
      /\ f.e.k = "store" => EmitStmt(f, c) = Emit(c, "StoreRef", 0, reg, r, 0)
      /\ f.e.k = "ret" => EmitStmt(f, c) = Emit(c, "Ret", 0, r, 0, 0)
  BY DEF EmitStmt
<1> HIDE DEF reg, r, x
<1>7. N \in Nat \ {0}
  BY <1>1, NumRegsIs
<1>8. 0 \in 0 .. N - 1 /\ r \in 0 .. N - 1
  BY <1>5, <1>7 DEF Regs
<1>9. f.e.k # "ret" => reg \in Nat
  BY <1>1, <1>2
<1>10. f.e.k = "set" => x \in Nat
  BY <1>1, <1>3, LengthsAre DEF Below
<1> HIDE DEF N
<1>11. CASE f.e.k = "assign"
  <2>1. Can(c, n, fs, "Move", 0, r, 0)
    BY <1>5, <1>8 DEF Can, Ops, FitsFrame, Instr, Binary, N
  <2>2. CASE r # reg
    BY <2>1, <2>2, <1>1, <1>6, <1>9, <1>11, EmitCan
  <2>3. CASE r = reg
    BY <2>3, <1>1, <1>6, <1>11, GrowsSame
  <2> QED BY <2>2, <2>3
<1>12. CASE f.e.k = "set"
  <2>1. Can(c, n, fs, "SetField", 0, x, r)
    BY <1>3, <1>5, <1>8, <1>10, <1>12 DEF Can, Ops, FitsFrame, Instr, Binary, N
  <2> QED BY <2>1, <1>1, <1>6, <1>9, <1>12, EmitCan
<1>13. CASE f.e.k = "store"
  <2>1. Can(c, n, fs, "StoreRef", 0, r, 0)
    BY <1>5, <1>8 DEF Can, Ops, FitsFrame, Instr, Binary, N
  <2> QED BY <2>1, <1>1, <1>6, <1>9, <1>13, EmitCan
<1>14. CASE f.e.k = "ret"
  <2>1. Can(c, n, fs, "Ret", 0, 0, 0)
    BY <1>8 DEF Can, Ops, FitsFrame, Instr, Binary, N
  <2> QED BY <2>1, <1>1, <1>5, <1>6, <1>14, EmitCan
<1> QED BY <1>11, <1>12, <1>13, <1>14

LEMMA EmitJumpOk ==
  ASSUME NEW fn, WellFormed(fn), NEW fs, NEW c, CompOk(c, fn.n_regs, fs), NEW f \in Frames(fn),
         FrameOk(f, c, fn.n_regs), IsDone(f), f.e \in Parts(fn),
         f.e.k \in {"label", "jmp", "br_if"}
  PROVE  LET d == EmitStmt(f, c)
         IN  CompOk(d, fn.n_regs, fs) /\ Grows(c, d)
<1> DEFINE r == f.got[1].at
           n == fn.n_regs
           pc == Len(c.code)
<1>1. c \in Compilers /\ n \in Nat /\ pc \in Nat
  BY LengthsAre DEF CompOk, WellFormed
<1>2. f.e.s \in STRING /\ (f.e.k = "br_if" => f.e.args[2].s \in STRING /\ f.e.args[3].s \in STRING)
  BY PartIs, NamedRegsAre
<1>3. 0 \in 0 .. NumRegs(n, c) - 1
  <2>1. NumRegs(n, c) \in Nat \ {0}
    BY <1>1, NumRegsIs
  <2> QED BY <2>1
<1>4. CASE f.e.k = "label"
  <2>1. EmitStmt(f, c) = Emit(SetLabelAt(c, f.e.s), "SetLabel", 0, 0, 0, 0)
    BY <1>4 DEF EmitStmt
  <2> QED BY <2>1, <1>1, <1>2, LabelIs
<1>5. CASE f.e.k = "jmp"
  <2> DEFINE e == Emit(c, "Jmp", 0, 0, 0, 0)
             d == Patch(e, pc, 0, f.e.s)
  <2>1. EmitStmt(f, c) = d
    BY <1>5 DEF EmitStmt
  <2>2. Can(c, n, fs, "Jmp", 0, 0, 0)
    BY <1>1, <1>3 DEF Can, Ops, FitsFrame, Instr, Binary
  <2>3. CompOk(e, n, fs) /\ Grows(c, e) /\ Len(e.code) = pc + 1 /\ e.code[pc + 1].op = "Jmp"
    BY <2>2, <1>1, EmitCan
  <2> HIDE DEF e
  <2>4. pc < Len(e.code) /\ e.code[pc + 1].op \in {"Jmp", "BrIf"} /\ 0 \in {0, 1}
    BY <2>3, <1>1
  <2> HIDE DEF pc
  <2>5. CompOk(d, n, fs) /\ Grows(e, d)
    BY <2>3, <2>4, <1>1, <1>2, PatchIs
  <2> HIDE DEF d
  <2>6. e \in Compilers /\ d \in Compilers
    BY <2>3, <2>5 DEF CompOk
  <2> QED BY <2>1, <2>3, <2>5, <2>6, <1>1, GrowsTwice
<1>6. CASE f.e.k = "br_if"
  <2> DEFINE e == Emit(c, "BrIf", 0, r, 0, 0)
             l == f.e.args[2].s
             g == Patch(e, pc, 0, l)
             d == Patch(g, pc, 1, f.e.args[3].s)
  <2>1. EmitStmt(f, c) = d
    BY <1>6 DEF EmitStmt
  <2>2. NumKids(f.e) = 1 /\ f.e.k \notin Binary
    BY <1>6 DEF NumKids, Binary
  <2>3. r \in Regs(n, c) /\ r \in Nat
    BY <2>2, <1>1, OnlyOperandIs
  <2>4. Can(c, n, fs, "BrIf", 0, 0, 0)
    BY <1>1, <1>3 DEF Can, Ops, FitsFrame, Instr, Binary
  <2>5. CompOk(e, n, fs) /\ Grows(c, e) /\ Len(e.code) = pc + 1 /\ e.code[pc + 1].op = "BrIf"
    BY <2>3, <2>4, <1>1, EmitCan
  <2> HIDE DEF e, r
  <2>6. pc < Len(e.code) /\ e.code[pc + 1].op \in {"Jmp", "BrIf"} /\ 0 \in {0, 1} /\ 1 \in {0, 1}
    BY <2>5, <1>1
  <2> HIDE DEF pc
  <2>7. CompOk(g, n, fs) /\ Grows(e, g) /\ g.code = e.code
    <3>1. l \in STRING
      BY <1>2, <1>6
    <3> HIDE DEF l
    <3>2. pc \in Nat
      BY <1>1 DEF pc
    <3>3. CompOk(e, n, fs)
      BY <2>5
    <3>4. 0 \in {0, 1} /\ pc < Len(e.code) /\ e.code[pc + 1].op \in {"Jmp", "BrIf"}
      BY <2>6
    <3>5. CompOk(g, n, fs) /\ Grows(e, g)
      BY <3>1, <3>2, <3>3, <3>4, <1>1, PatchIs
    <3>6. g.code = e.code
      BY DEF Patch
    <3> QED BY <3>5, <3>6
  <2> HIDE DEF g
  <2>8. CompOk(d, n, fs) /\ Grows(g, d)
    BY <2>6, <2>7, <1>1, <1>2, <1>6, PatchIs
  <2> HIDE DEF d
  <2>9. e \in Compilers /\ g \in Compilers /\ d \in Compilers
    BY <2>5, <2>7, <2>8 DEF CompOk
  <2>10. Grows(c, g)
    BY <2>5, <2>7, <2>9, <1>1, GrowsTwice
  <2>11. Grows(c, d)
    BY <2>8, <2>9, <2>10, <1>1, GrowsTwice
  <2> QED BY <2>1, <2>8, <2>11
<1> QED BY <1>4, <1>5, <1>6

(* The jump back of a while, and where its branch goes.                    *)
LEMMA EmitLoopOk ==
  ASSUME NEW fn, WellFormed(fn), NEW fs, NEW c, CompOk(c, fn.n_regs, fs), NEW f \in Frames(fn),
         FrameOk(f, c, fn.n_regs), IsDone(f), f.e \in Parts(fn), f.e.k = "while"
  PROVE  LET d == EmitStmt(f, c)
         IN  CompOk(d, fn.n_regs, fs) /\ Grows(c, d)
<1> DEFINE n == fn.n_regs
           pc == Len(c.code)
           e == Emit(c, "Jmp", 0, 0, f.from, 0)
           g == SetTarget(e, f.br, 0, f.br + 1)
           d == SetTarget(g, f.br, 1, Len(e.code))
<1>1. c \in Compilers /\ n \in Nat /\ pc \in Nat
  BY LengthsAre DEF CompOk, WellFormed
<1>2. EmitStmt(f, c) = d
  BY DEF EmitStmt, CloseLoop
<1>3. 0 \in 0 .. NumRegs(n, c) - 1
  <2>1. NumRegs(n, c) \in Nat \ {0}
    BY <1>1, NumRegsIs
  <2> QED BY <2>1
<1>4. f.got # <<>>
  <2>1. f.e.args # <<>> /\ f.e.args \in Seq(Parts(fn))
    <3>1. AsParsed(f.e, n)
      BY DEF WellFormed
    <3> QED BY <3>1, PartIs DEF AsParsed, Binary
  <2>2. Len(f.got) = Len(f.e.args) /\ f.got \in Seq(Operands)
    BY DEF IsDone, NumKids, Binary, Frames
  <2> QED BY <2>1, <2>2, EmptySeq
<1>5. /\ f.from <= pc /\ f.from \in Nat /\ f.br \in Nat /\ f.br < pc
      /\ c.code[f.br + 1].op = "BrIf"
  BY <1>4 DEF FrameOk, Frames
<1>6. Can(c, n, fs, "Jmp", 0, f.from, 0)
  BY <1>1, <1>3, <1>5 DEF Can, Ops, FitsFrame, Instr, Binary
<1>7. CompOk(e, n, fs) /\ Grows(c, e) /\ Len(e.code) = pc + 1 /\ e.code[pc + 1].op = "Jmp"
  BY <1>1, <1>6, EmitCan
<1> HIDE DEF e
<1>8. f.br + 1 < Len(e.code) /\ f.br < Len(e.code) /\ e.code[f.br + 1].op = "BrIf"
  <2>1. f.br + 1 \in DOMAIN c.code
    BY <1>1, <1>5, DomainsAre
  <2>2. e.code[f.br + 1].op = c.code[f.br + 1].op
    BY <2>1, <1>7 DEF Grows
  <2> HIDE DEF pc
  <2> QED BY <2>2, <1>1, <1>5, <1>7
<1>9. CompOk(g, n, fs) /\ Grows(e, g) /\ Len(g.code) = Len(e.code)
      /\ \A k \in DOMAIN e.code : g.code[k].op = e.code[k].op
  <2>1. e.code[f.br + 1].op \in {"Jmp", "BrIf"} /\ 0 \in {0, 1} /\ f.br + 1 \in Nat
    BY <1>5, <1>8
  <2>2. f.br \in Nat /\ f.br < Len(e.code) /\ f.br + 1 < Len(e.code)
    BY <1>5, <1>8
  <2>3. n \in Nat /\ CompOk(e, n, fs)
    BY <1>1, <1>7
  <2> QED BY <2>1, <2>2, <2>3, SetTargetIs
<1> HIDE DEF g
<1>10. e \in Compilers /\ g \in Compilers
  BY <1>7, <1>9 DEF CompOk
<1>11. f.br + 1 \in DOMAIN e.code /\ pc + 1 \in DOMAIN e.code
  BY <1>1, <1>5, <1>7, <1>10, DomainsAre
<1>12. /\ f.br < Len(g.code) /\ g.code[f.br + 1].op \in {"Jmp", "BrIf"} /\ 1 \in {0, 1}
       /\ Len(e.code) = Len(g.code) /\ g.code[Len(g.code)].op = "Jmp" /\ Len(e.code) \in Nat
  BY <1>1, <1>7, <1>8, <1>9, <1>11
<1>13. CompOk(d, n, fs) /\ Grows(g, d)
  BY <1>1, <1>5, <1>9, <1>12, SetTargetIs
<1> HIDE DEF d
<1>14. d \in Compilers
  BY <1>13 DEF CompOk
<1>15. Grows(c, g)
  BY <1>1, <1>7, <1>9, <1>10, GrowsTwice
<1>16. Grows(c, d)
  BY <1>1, <1>10, <1>13, <1>14, <1>15, GrowsTwice
<1> QED BY <1>2, <1>13, <1>16

LEMMA EmitNodeOk ==
  ASSUME NEW fn, WellFormed(fn), Len(tree.functions) \in Nat,
         DOMAIN tree.functions = 1 .. Len(tree.functions),
         NEW c, CompOk(c, fn.n_regs, Len(tree.functions)), NEW f \in Frames(fn),
         FrameOk(f, c, fn.n_regs), IsDone(f), f.e \in Parts(fn),
         f.e.k = "call" => IsDefined(tree.functions, f.e.s)
  PROVE  LET d == IF f.stmt THEN EmitStmt(f, c) ELSE EmitExpr(f, c)
         IN  /\ CompOk(d, fn.n_regs, Len(tree.functions)) /\ Grows(c, d)
             /\ Result(f) \in Regs(fn.n_regs, d)
<1> DEFINE d == IF f.stmt THEN EmitStmt(f, c) ELSE EmitExpr(f, c)
           n == fn.n_regs
           fs == Len(tree.functions)
<1>1. f.stmt \in BOOLEAN /\ f.e.k # "body" /\ n \in Nat /\ c \in Compilers
  BY PartIs DEF Frames, ExprKinds, StmtKinds, Binary, CompOk, WellFormed
<1>2. CASE f.stmt
  <2>1. f.e.k \in StmtKinds /\ d = EmitStmt(f, c) /\ Result(f) = 0
    BY <1>1, <1>2 DEF FrameOk, Result
  <2> HIDE DEF d
  <2>3. CompOk(d, n, fs) /\ Grows(c, d)
    <3>1. CASE f.e.k \in {"assign", "set", "store", "ret"}
      BY <2>1, <3>1, EmitAssignOk
    <3>2. CASE f.e.k \in {"label", "jmp", "br_if"}
      BY <2>1, <3>2, EmitJumpOk
    <3>3. CASE f.e.k = "while"
      BY <2>1, <3>3, EmitLoopOk
    <3>4. CASE f.e.k = "call"
      <4>1. EmitStmt(f, c) = EmitCall(f, c)
        BY <3>4 DEF EmitStmt
      <4> QED BY <4>1, <2>1, <3>4, EmitCallOk
    <3> QED BY <2>1, <3>1, <3>2, <3>3, <3>4 DEF StmtKinds
  <2>4. d \in Compilers
    BY <2>3 DEF CompOk
  <2>5. NumRegs(n, d) \in Nat \ {0}
    BY <2>4, <1>1, NumRegsIs
  <2> QED BY <2>1, <2>3, <2>5 DEF Regs, d
<1>3. CASE ~f.stmt
  <2>1. f.e.k \in ExprKinds /\ d = EmitExpr(f, c)
    BY <1>1, <1>3 DEF FrameOk
  <2>2. /\ f.e.k = "Reg" => Result(f) = f.e.n
        /\ f.e.k = "const" => Result(f) = f.got[1].at
        /\ f.e.k \notin {"Reg", "const"} => Result(f) = f.dst
    BY <1>3 DEF Result
  <2> HIDE DEF d
  <2>3. CASE f.e.k \in {"Reg", "Int", "Str", "Named"}
    <3>1. CompOk(d, n, fs) /\ Grows(c, d) /\ (f.e.k # "Reg" => f.dst \in Regs(n, d))
      BY <2>1, <2>3, EmitAtomOk
    <3>2. d \in Compilers
      BY <3>1 DEF CompOk
    <3>3. NumRegs(n, d) \in Nat /\ n <= NumRegs(n, d)
      BY <3>2, <1>1, NumRegsIs
    <3>4. f.e.k = "Reg" => f.e.n \in Regs(n, d)
      BY <3>3, <1>1, NamedRegsAre DEF Regs
    <3> QED BY <3>1, <3>4, <2>2, <2>3 DEF d
  <2>4. CASE f.e.k \in Binary
    <3>1. CompOk(d, n, fs) /\ Grows(c, d) /\ f.dst \in Regs(n, d)
      BY <2>1, <2>4, EmitBinaryOk
    <3>2. f.e.k \notin {"Reg", "const"}
      BY <2>4 DEF Binary
    <3> QED BY <3>1, <3>2, <2>2 DEF d
  <2>5. CASE f.e.k \in {"Field", "get_field_ref", "load"}
    <3>1. CompOk(d, n, fs) /\ Grows(c, d) /\ f.dst \in Regs(n, d)
      BY <2>1, <2>5, EmitFieldOk
    <3> QED BY <3>1, <2>2, <2>5 DEF d
  <2>6. CASE f.e.k \in {"const", "alloc", "alloc_array", "get_index_ref"}
    <3>1. /\ CompOk(d, n, fs) /\ Grows(c, d) /\ f.got[1].at \in Regs(n, d)
          /\ f.e.k # "const" => f.dst \in Regs(n, d)
      BY <2>1, <2>6, EmitUnaryOk
    <3> QED BY <3>1, <2>2, <2>6 DEF d
  <2>7. CASE f.e.k = "StructLit"
    <3>1. CompOk(d, n, fs) /\ Grows(c, d) /\ f.dst \in Regs(n, d)
      BY <2>1, <2>7, EmitStructLitOk
    <3> QED BY <3>1, <2>2, <2>7 DEF d
  <2>8. CASE f.e.k = "call"
    <3>1. EmitExpr(f, c) = EmitCall(f, c)
      BY <2>8 DEF EmitExpr, Binary
    <3>2. CompOk(d, n, fs) /\ Grows(c, d) /\ f.dst \in Regs(n, d)
      BY <3>1, <2>1, <2>8, <1>3, EmitCallOk
    <3> QED BY <3>2, <2>2, <2>8 DEF d
  <2> QED BY <2>1, <2>3, <2>4, <2>5, <2>6, <2>7, <2>8 DEF ExprKinds
<1> QED BY <1>1, <1>2, <1>3

-----------------------------------------------------------------------------
(* The calls that have not returned.                                       *)
LEMMA NamesGrow ==
  ASSUME NEW c \in Compilers, NEW d \in Compilers, Grows(c, d), NEW x,
         Contains(c.name_pool, x)
  PROVE  Contains(d.name_pool, x)
<1>1. PICK i \in 1 .. Len(c.name_pool) : c.name_pool[i] = x
  BY DEF Contains
<1>2. /\ Len(c.name_pool) \in Nat /\ Len(d.name_pool) \in Nat
      /\ DOMAIN c.name_pool = 1 .. Len(c.name_pool)
  BY LengthsAre, DomainsAre
<1>3. Len(c.name_pool) <= Len(d.name_pool) /\ d.name_pool[i] = x
  BY <1>1, <1>2 DEF Grows, Longer
<1>4. i \in 1 .. Len(d.name_pool)
  BY <1>2, <1>3
<1> QED BY <1>3, <1>4 DEF Contains

LEMMA FrameGrows ==
  ASSUME NEW fn, fn.n_regs \in Nat, NEW c \in Compilers, NEW d \in Compilers, Grows(c, d),
         NEW f \in Frames(fn), FrameOk(f, c, fn.n_regs)
  PROVE  FrameOk(f, d, fn.n_regs)
<1> DEFINE n == fn.n_regs
<1>1. \A j \in DOMAIN f.got : OperandOk(f.got[j], d, n)
  BY OperandsGrow DEF FrameOk
<1>2. f.from \in Nat /\ Len(f.got) \in Nat /\ f.br \in Nat
  BY LenProperties DEF Frames
<1>3. /\ f.e.k = "call" => f.from + Len(f.got) <= Len(d.arg_regs)
      /\ f.e.k = "StructLit" => f.from + Len(f.got) <= Len(d.field_entries)
      /\ f.e.k = "while" => f.from <= Len(d.code)
  <2>1. /\ Len(c.arg_regs) \in Nat /\ Len(c.field_entries) \in Nat /\ Len(c.code) \in Nat
        /\ Len(d.arg_regs) \in Nat /\ Len(d.field_entries) \in Nat /\ Len(d.code) \in Nat
    BY LengthsAre
  <2>2. /\ Len(c.arg_regs) <= Len(d.arg_regs) /\ Len(c.code) <= Len(d.code)
        /\ Len(c.field_entries) <= Len(d.field_entries)
    BY DEF Grows
  <2>3. /\ f.e.k = "call" => f.from + Len(f.got) <= Len(c.arg_regs)
        /\ f.e.k = "StructLit" => f.from + Len(f.got) <= Len(c.field_entries)
        /\ f.e.k = "while" => f.from <= Len(c.code)
    BY DEF FrameOk
  <2> DEFINE From == f.from
             Got == Len(f.got)
  <2>4. From \in Nat /\ Got \in Nat
    BY <1>2
  <2> HIDE DEF From, Got
  <2>5. \A a, b \in Nat : From + Got <= a /\ a <= b => From + Got <= b
    BY <2>4
  <2>6. \A a, b \in Nat : From <= a /\ a <= b => From <= b
    BY <2>4
  <2>7. f.e.k = "call" => f.from + Len(f.got) <= Len(d.arg_regs)
    BY <2>1, <2>2, <2>3, <2>5 DEF From, Got
  <2>8. f.e.k = "StructLit" => f.from + Len(f.got) <= Len(d.field_entries)
    BY <2>1, <2>2, <2>3, <2>5 DEF From, Got
  <2>9. f.e.k = "while" => f.from <= Len(d.code)
    BY <2>1, <2>2, <2>3, <2>6 DEF From
  <2> QED BY <2>7, <2>8, <2>9
<1>4. f.e.k \in {"StructLit", "set"} => Contains(d.name_pool, f.e.s)
  BY NamesGrow DEF FrameOk
<1>5. f.e.k = "while" /\ f.got # <<>> => f.br < Len(d.code) /\ d.code[f.br + 1].op = "BrIf"
  <2> SUFFICES ASSUME f.e.k = "while", f.got # <<>>
               PROVE  f.br < Len(d.code) /\ d.code[f.br + 1].op = "BrIf"
    OBVIOUS
  <2>1. f.br < Len(c.code) /\ c.code[f.br + 1].op = "BrIf"
    BY DEF FrameOk
  <2>2. Len(c.code) \in Nat /\ Len(d.code) \in Nat /\ Len(c.code) <= Len(d.code)
    BY LengthsAre DEF Grows
  <2>3. f.br + 1 \in DOMAIN c.code
    BY <2>1, <2>2, <1>2, DomainsAre
  <2>4. d.code[f.br + 1].op = c.code[f.br + 1].op
    BY <2>3 DEF Grows
  <2> QED BY <2>1, <2>2, <2>4, <1>2
<1> QED BY <1>1, <1>3, <1>4, <1>5 DEF FrameOk

LEMMA WaitsGrow ==
  ASSUME NEW c \in Compilers, NEW d \in Compilers, Grows(c, d), NEW f, Waits(f, c)
  PROVE  Waits(f, d)
BY NamesGrow DEF Waits

LEMMA CallsGrow ==
  ASSUME NEW fn, fn.n_regs \in Nat, NEW c \in Compilers, NEW d \in Compilers, Grows(c, d),
         NEW cs, NEW rt, CallsOk(cs, rt, c, fn)
  PROVE  CallsOk(cs, rt, d, fn)
<1>1. cs \in Seq(Frames(fn)) /\ cs # <<>>
  BY DEF CallsOk
<1>2. \A i \in 1 .. Len(cs) : cs[i] \in Frames(fn)
  BY <1>1, ElementOfSeq
<1>3. \A i \in 1 .. Len(cs) : FrameOk(cs[i], d, fn.n_regs)
  BY <1>2, FrameGrows DEF CallsOk
<1>4. \A i \in 1 .. Len(cs) : i < Len(cs) \/ rt # <<>> => Waits(cs[i], d)
  BY WaitsGrow DEF CallsOk
<1> QED BY <1>1, <1>3, <1>4 DEF CallsOk

LEMMA CurrentIs ==
  ASSUME NEW fn, NEW c, NEW cs, NEW rt, CallsOk(cs, rt, c, fn)
  PROVE  LET f == cs[Len(cs)]
         IN  /\ Len(cs) \in Nat \ {0} /\ f \in Frames(fn) /\ FrameOk(f, c, fn.n_regs)
             /\ f.e \in Bodies(fn) /\ (Len(cs) > 1 => f.e \in Parts(fn))
             /\ rt # <<>> => Waits(f, c)
<1> DEFINE f == cs[Len(cs)]
<1>1. cs \in Seq(Frames(fn)) /\ cs # <<>>
  BY DEF CallsOk
<1>2. Len(cs) \in Nat \ {0}
  BY <1>1, LenProperties, EmptySeq
<1>3. Len(cs) \in 1 .. Len(cs)
  BY <1>2
<1>4. f \in Frames(fn)
  BY <1>1, <1>3, ElementOfSeq
<1>5. FrameOk(f, c, fn.n_regs) /\ (rt # <<>> => Waits(f, c))
  BY <1>3 DEF CallsOk
<1>8. f.e.k = "body" => Len(cs) = 1
  BY <1>3 DEF CallsOk
<1> HIDE DEF f
<1>6. f.e \in Bodies(fn)
  BY <1>4 DEF Frames
<1>7. Len(cs) > 1 => f.e \in Parts(fn)
  <2>1. Node("body", "", 0, fn.body).k = "body"
    BY DEF Node
  <2>2. Len(cs) > 1 => f.e.k # "body"
    BY <1>2, <1>8
  <2> QED BY <2>1, <2>2, <1>6 DEF Bodies
<1> QED BY <1>2, <1>4, <1>5, <1>6, <1>7 DEF f

LEMMA LastChanges ==
  ASSUME NEW fn, fn.n_regs \in Nat, NEW c \in Compilers, NEW d \in Compilers, Grows(c, d),
         NEW cs, NEW rt, CallsOk(cs, rt, c, fn),
         NEW g \in Frames(fn), FrameOk(g, d, fn.n_regs), g.e = cs[Len(cs)].e
  PROVE  CallsOk([cs EXCEPT ![Len(cs)] = g], <<>>, d, fn)
<1> DEFINE ds == [cs EXCEPT ![Len(cs)] = g]
<1>1. CallsOk(cs, rt, d, fn)
  BY CallsGrow
<1>2. cs \in Seq(Frames(fn)) /\ Len(cs) \in Nat \ {0} /\ Len(cs) \in 1 .. Len(cs)
  BY CurrentIs DEF CallsOk
<1>3. /\ ds \in Seq(Frames(fn)) /\ Len(ds) = Len(cs)
      /\ \A i \in 1 .. Len(cs) : ds[i] = IF i = Len(cs) THEN g ELSE cs[i]
  BY <1>2, ExceptSeq
<1>4. ds # <<>>
  BY <1>2, <1>3, EmptySeq
<1> HIDE DEF ds
<1>5. ASSUME NEW i \in 1 .. Len(ds)
      PROVE  /\ FrameOk(ds[i], d, fn.n_regs)
             /\ i < Len(ds) => Waits(ds[i], d)
             /\ ds[i].e.k = "body" => i = 1
  <2>1. CASE i = Len(cs)
    BY <2>1, <1>1, <1>2, <1>3 DEF CallsOk
  <2>2. CASE i # Len(cs)
    <3>1. ds[i] = cs[i] /\ i \in 1 .. Len(cs)
      BY <2>2, <1>3
    <3> QED BY <3>1, <1>1, <1>3 DEF CallsOk
  <2> QED BY <2>1, <2>2
<1> QED BY <1>3, <1>4, <1>5 DEF CallsOk, ds

LEMMA PushOk ==
  ASSUME NEW fn, fn.n_regs \in Nat, NEW c \in Compilers, NEW d \in Compilers, Grows(c, d),
         NEW cs, CallsOk(cs, <<>>, c, fn), Waits(cs[Len(cs)], d),
         NEW g \in Frames(fn), FrameOk(g, d, fn.n_regs), g.e.k # "body"
  PROVE  CallsOk(Append(cs, g), <<>>, d, fn)
<1> DEFINE ds == Append(cs, g)
<1>1. CallsOk(cs, <<>>, d, fn)
  BY CallsGrow
<1>2. cs \in Seq(Frames(fn)) /\ Len(cs) \in Nat \ {0}
  BY CurrentIs DEF CallsOk
<1>3. /\ ds \in Seq(Frames(fn)) /\ Len(ds) = Len(cs) + 1
      /\ \A i \in 1 .. Len(cs) : ds[i] = cs[i]
      /\ ds[Len(cs) + 1] = g
  BY <1>2, AppendProperties
<1>4. ds # <<>>
  BY <1>2, <1>3, EmptySeq
<1> HIDE DEF ds
<1>5. ASSUME NEW i \in 1 .. Len(ds)
      PROVE  /\ FrameOk(ds[i], d, fn.n_regs)
             /\ i < Len(ds) => Waits(ds[i], d)
             /\ ds[i].e.k = "body" => i = 1
  <2>1. CASE i = Len(cs) + 1
    BY <2>1, <1>2, <1>3
  <2>2. CASE i # Len(cs) + 1
    <3>1. ds[i] = cs[i] /\ i \in 1 .. Len(cs)
      BY <2>2, <1>2, <1>3
    <3>2. Waits(cs[i], d)
      <4>1. CASE i = Len(cs)
        BY <4>1
      <4>2. CASE i # Len(cs)
        <5>1. i < Len(cs)
          BY <4>2, <3>1, <1>2
        <5> QED BY <5>1, <3>1, <1>1 DEF CallsOk
      <4> QED BY <4>1, <4>2
    <3> QED BY <3>1, <3>2, <1>1 DEF CallsOk
  <2> QED BY <2>1, <2>2
<1> QED BY <1>3, <1>4, <1>5 DEF CallsOk, ds

LEMMA PopOk ==
  ASSUME NEW fn, fn.n_regs \in Nat, NEW c \in Compilers, NEW d \in Compilers, Grows(c, d),
         NEW cs, CallsOk(cs, <<>>, c, fn), Len(cs) > 1, NEW rt
  PROVE  CallsOk(Front(cs), rt, d, fn)
<1> DEFINE ds == Front(cs)
<1>1. CallsOk(cs, <<>>, d, fn)
  BY CallsGrow
<1>2. cs \in Seq(Frames(fn)) /\ Len(cs) \in Nat \ {0}
  BY CurrentIs DEF CallsOk
<1>3. /\ ds \in Seq(Frames(fn)) /\ Len(ds) = Len(cs) - 1
      /\ \A i \in 1 .. Len(cs) - 1 : ds[i] = cs[i]
  BY <1>2, SubSeqProperties DEF Front
<1>4. ds # <<>>
  BY <1>2, <1>3, EmptySeq
<1> HIDE DEF ds
<1>5. ASSUME NEW i \in 1 .. Len(ds)
      PROVE  /\ FrameOk(ds[i], d, fn.n_regs) /\ Waits(ds[i], d)
             /\ ds[i].e.k = "body" => i = 1
  <2>1. ds[i] = cs[i] /\ i \in 1 .. Len(cs) /\ i < Len(cs)
    BY <1>2, <1>3
  <2> QED BY <2>1, <1>1 DEF CallsOk
<1> QED BY <1>3, <1>4, <1>5 DEF CallsOk, ds

(* A call gets one more operand.                                           *)
Gets(f, g, x, b) == g = [f EXCEPT !.got = Append(@, x), !.br = b]

LEMMA GetsOk ==
  ASSUME NEW fn, fn.n_regs \in Nat, NEW d \in Compilers, NEW f \in Frames(fn),
         FrameOk(f, d, fn.n_regs), Len(f.got) < NumKids(f.e), NumKids(f.e) \in Nat,
         NEW x \in Operands, OperandOk(x, d, fn.n_regs), f.e.k \notin Binary => x.lit = 0,
         f.e.k = "call" => f.from + Len(f.got) + 1 <= Len(d.arg_regs),
         f.e.k = "StructLit" => f.from + Len(f.got) + 1 <= Len(d.field_entries),
         NEW b \in Nat,
         f.e.k = "while" => b < Len(d.code) /\ d.code[b + 1].op = "BrIf",
         NEW g, Gets(f, g, x, b)
  PROVE  g \in Frames(fn) /\ FrameOk(g, d, fn.n_regs) /\ g.e = f.e
<1>1. f.got \in Seq(Operands) /\ Len(f.got) \in Nat /\ f.from \in Nat
  BY LenProperties DEF Frames
<1>2. /\ Append(f.got, x) \in Seq(Operands) /\ Len(Append(f.got, x)) = Len(f.got) + 1
      /\ \A j \in 1 .. Len(f.got) : Append(f.got, x)[j] = f.got[j]
      /\ Append(f.got, x)[Len(f.got) + 1] = x
  BY <1>1, AppendProperties
<1>3. /\ g \in Frames(fn) /\ g.got = Append(f.got, x) /\ g.br = b
      /\ g.e = f.e /\ g.stmt = f.stmt /\ g.from = f.from
  BY <1>2 DEF Gets, Frames
<1>4. DOMAIN g.got = 1 .. Len(f.got) + 1 /\ DOMAIN f.got = 1 .. Len(f.got)
  BY <1>1, <1>2, <1>3, LenProperties
<1>5. \A j \in DOMAIN g.got :
        OperandOk(g.got[j], d, fn.n_regs) /\ (g.e.k \notin Binary => g.got[j].lit = 0)
  <2> SUFFICES ASSUME NEW j \in DOMAIN g.got
               PROVE  OperandOk(g.got[j], d, fn.n_regs) /\ (f.e.k \notin Binary => g.got[j].lit = 0)
    BY <1>3
  <2>1. CASE j \in 1 .. Len(f.got)
    BY <2>1, <1>2, <1>3, <1>4 DEF FrameOk
  <2>2. CASE j = Len(f.got) + 1
    BY <2>2, <1>2, <1>3
  <2> QED BY <2>1, <2>2, <1>4
<1>6. Len(g.got) <= NumKids(g.e)
  BY <1>1, <1>2, <1>3
<1>7. Len(g.got) = Len(f.got) + 1
  BY <1>2, <1>3
<1>8. f.from + (Len(f.got) + 1) = f.from + Len(f.got) + 1
  BY <1>1
<1>9. /\ f.e.k \in IF f.stmt THEN StmtKinds \cup {"body"} ELSE ExprKinds
      /\ f.e.k \in {"StructLit", "set"} => Contains(d.name_pool, f.e.s)
      /\ f.e.k = "while" => f.from <= Len(d.code)
  BY DEF FrameOk
<1> QED BY <1>3, <1>5, <1>6, <1>7, <1>8, <1>9 DEF FrameOk

-----------------------------------------------------------------------------
(* Every step keeps the invariant.                                         *)
LEMMA TreeIs ==
  ASSUME NEW p \in Programs
  PROVE  /\ Len(p.functions) \in Nat /\ DOMAIN p.functions = 1 .. Len(p.functions)
         /\ \A i \in 1 .. Len(p.functions) : WellFormed(p.functions[i])
BY TreeAssumption DEF WellFormed, IsTable

LEMMA FnIs ==
  ASSUME CompilerInv, phase \in {"body", "patch", "loops"}
  PROVE  /\ WellFormed(Fn) /\ Fn.n_regs \in Nat
         /\ Len(tree.functions) \in Nat /\ DOMAIN tree.functions = 1 .. Len(tree.functions)
         /\ CompOk(comp, Fn.n_regs, Len(tree.functions)) /\ comp \in Compilers
<1>1. tree \in Programs /\ compiled \in Seq(CompiledFns) /\ Len(compiled) < Len(tree.functions)
      /\ CompOk(comp, Fn.n_regs, Len(tree.functions))
  BY DEF CompilerInv
<1>2. Len(tree.functions) \in Nat /\ DOMAIN tree.functions = 1 .. Len(tree.functions)
  BY <1>1, TreeIs
<1>3. Len(compiled) + 1 \in 1 .. Len(tree.functions)
  BY <1>1, <1>2, LenProperties
<1>4. WellFormed(Fn)
  BY <1>1, <1>3, TreeIs DEF Fn
<1> QED BY <1>1, <1>2, <1>4 DEF WellFormed, CompOk

LEMMA BodyIs ==
  ASSUME CompilerInv, phase = "body"
  PROVE  /\ CallsOk(calls, ret, comp, Fn) /\ RetOk(ret, comp, Fn.n_regs)
         /\ Len(calls) \in Nat \ {0} /\ Current \in Frames(Fn)
         /\ FrameOk(Current, comp, Fn.n_regs) /\ Current.e \in Bodies(Fn)
         /\ Len(calls) > 1 => Current.e \in Parts(Fn)
         /\ ret # <<>> => Waits(Current, comp)
         /\ NumKids(Current.e) \in Nat /\ Len(Current.got) \in Nat
         /\ ~IsDone(Current) => Len(Current.got) < NumKids(Current.e)
<1>1. CallsOk(calls, ret, comp, Fn) /\ RetOk(ret, comp, Fn.n_regs)
  BY DEF CompilerInv
<1>2. /\ Len(calls) \in Nat \ {0} /\ Current \in Frames(Fn)
      /\ FrameOk(Current, comp, Fn.n_regs) /\ Current.e \in Bodies(Fn)
      /\ Len(calls) > 1 => Current.e \in Parts(Fn)
      /\ ret # <<>> => Waits(Current, comp)
  BY <1>1, CurrentIs DEF Current
<1>3. WellFormed(Fn)
  BY FnIs
<1>4. NumKids(Current.e) \in Nat
  BY <1>2, <1>3, KidsAre
<1>5. Len(Current.got) \in Nat
  BY <1>2, LenProperties DEF Frames
<1>6. ~IsDone(Current) => Len(Current.got) < NumKids(Current.e)
  BY <1>2, <1>4, <1>5 DEF IsDone, FrameOk
<1> QED BY <1>1, <1>2, <1>4, <1>5, <1>6

\* A step within the body of a function.
LEMMA BodyStep ==
  ASSUME CompilerInv, phase = "body", UNCHANGED <<tree, compiled, phase>>,
         CompOk(comp', Fn.n_regs, Len(tree.functions)),
         CallsOk(calls', ret', comp', Fn), RetOk(ret', comp', Fn.n_regs)
  PROVE  CompilerInv'
<1>1. Fn' = Fn
  BY DEF Fn
<1>2. CodeInBounds'
  BY DEF CompilerInv, CodeInBounds
<1> QED BY <1>1, <1>2 DEF CompilerInv

LEMMA OperandKeeps ==
  ASSUME CompilerInv, Operand
  PROVE  CompilerInv'
<1> DEFINE f == Current
           kid == NextKid(f)
           e == Bare(kid)
           fn == Fn
           n == fn.n_regs
           c == Pool(comp, e.n)
           x == IF e.k = "Int" THEN InPool(IndexOf(c.int_pool, e.n)) ELSE InReg(e.n)
           g == [f EXCEPT !.got = Append(@, x), !.br = f.br]
<1>1. phase = "body" /\ ret = <<>> /\ ~IsDone(f) /\ NeedsNoCode(f)
      /\ UNCHANGED <<tree, compiled, phase, ret, scan>>
  BY DEF Operand
<1>2. /\ comp' = IF e.k = "Int" THEN c ELSE comp
      /\ calls' = Give(x)
  BY DEF Operand
<1>3. f.e.k \in Binary /\ e.k \in {"Int", "Reg"}
  BY <1>1 DEF NeedsNoCode
<1>4. /\ WellFormed(fn) /\ n \in Nat /\ comp \in Compilers
      /\ CompOk(comp, n, Len(tree.functions))
  BY <1>1, FnIs
<1>5. /\ CallsOk(calls, ret, comp, fn) /\ f \in Frames(fn) /\ FrameOk(f, comp, n)
      /\ f.e \in Bodies(fn) /\ NumKids(f.e) \in Nat /\ Len(f.got) < NumKids(f.e)
      /\ Len(f.got) \in Nat
  BY <1>1, BodyIs
<1> HIDE DEF fn
<1>6. kid \in Parts(fn)
  <2>1. Len(f.got) + 1 \in 1 .. NumKids(f.e)
    BY <1>5
  <2> QED BY <2>1, <1>4, <1>5, KidsAre DEF NextKid
<1>7. e \in Parts(fn)
  <2>1. CASE kid.k = "const"
    <3>1. AsParsed(kid, n)
      BY <1>4, <1>6 DEF WellFormed
    <3>2. Len(kid.args) = 1
      BY <2>1, <3>1 DEF AsParsed, Binary
    <3> QED BY <2>1, <3>2, <1>4, <1>6, PartIs DEF Bare
  <2>2. CASE kid.k # "const"
    BY <2>2, <1>6 DEF Bare
  <2> QED BY <2>1, <2>2
<1>8. e.n \in Int /\ (e.k = "Reg" => e.n \in 0 .. n - 1)
  BY <1>4, <1>7, PartIs, NamedRegsAre
<1> HIDE DEF kid, e
<1>9. /\ CompOk(comp', n, Len(tree.functions)) /\ Grows(comp, comp')
      /\ x \in Operands /\ OperandOk(x, comp', n)
  <2>1. CASE e.k = "Int"
    <3>1. CompOk(c, n, Len(tree.functions)) /\ Grows(comp, c)
          /\ IndexOf(c.int_pool, e.n) \in Below(c.int_pool)
      BY <1>4, <1>8, PoolIs
    <3> HIDE DEF c
    <3>2. c \in Compilers
      BY <3>1 DEF CompOk
    <3>3. IndexOf(c.int_pool, e.n) \in Nat
      BY <3>1, <3>2, LengthsAre DEF Below
    <3>4. x = [lit |-> 1, at |-> IndexOf(c.int_pool, e.n)]
      BY <2>1 DEF InPool
    <3> QED BY <2>1, <3>1, <3>3, <3>4, <1>2 DEF Operands, OperandOk
  <2>2. CASE e.k # "Int"
    <3>1. x = [lit |-> 0, at |-> e.n] /\ comp' = comp
      BY <2>2, <1>2 DEF InReg
    <3>2. NumRegs(n, comp) \in Nat /\ n <= NumRegs(n, comp)
      BY <1>4, NumRegsIs
    <3>3. e.n \in 0 .. n - 1 /\ e.n \in Nat
      BY <2>2, <1>3, <1>4, <1>8
    <3>4. e.n \in Regs(n, comp)
      BY <3>2, <3>3, <1>4 DEF Regs
    <3> QED BY <3>1, <3>3, <3>4, <1>4, GrowsSame DEF Operands, OperandOk
  <2> QED BY <2>1, <2>2
<1> HIDE DEF x
<1>10. comp' \in Compilers
  BY <1>9 DEF CompOk
<1>11. FrameOk(f, comp', n)
  BY <1>4, <1>5, <1>9, <1>10, FrameGrows
<1>12. f.br \in Nat
  BY <1>5 DEF Frames
<1>13. g \in Frames(fn) /\ FrameOk(g, comp', n) /\ g.e = f.e
  <2>1. Gets(f, g, x, f.br)
    BY DEF Gets
  <2>2. f.e.k \in Binary /\ f.e.k # "call" /\ f.e.k # "StructLit" /\ f.e.k # "while"
    BY <1>3 DEF Binary
  <2> HIDE DEF g, f
  <2> QED BY <2>1, <2>2, <1>4, <1>5, <1>9, <1>10, <1>11, <1>12, GetsOk
<1>14. calls' = [calls EXCEPT ![Len(calls)] = g]
  <2>1. calls' = [calls EXCEPT ![Len(calls)] = [f EXCEPT !.got = Append(@, x)]]
    BY <1>2 DEF Give, Current
  <2>2. g = [f EXCEPT !.got = Append(@, x)]
    BY <1>5 DEF Frames
  <2> QED BY <2>1, <2>2
<1> HIDE DEF g
<1>15. CallsOk(calls', <<>>, comp', fn)
  BY <1>4, <1>5, <1>9, <1>10, <1>13, <1>14, LastChanges DEF Current
<1>16. RetOk(ret', comp', n) /\ ret' = <<>>
  BY <1>1 DEF RetOk
<1> QED BY <1>1, <1>9, <1>15, <1>16, BodyStep DEF fn

LEMMA ScratchIs ==
  ASSUME NEW fn, WellFormed(fn), NEW c \in Compilers, NEW s \in Parts(fn)
  PROVE  Scratch(s, c) \in Nat
<1>1. c.max_reg \in Nat /\ fn.n_regs \in Nat
  BY CompilerIs DEF WellFormed
<1>2. s.k \in {"assign", "set", "store"} => s.args[1].n \in 0 .. fn.n_regs - 1
  BY NamedRegsAre
<1> QED BY <1>1, <1>2 DEF Scratch

LEMMA PlaceIs ==
  ASSUME NEW fn, WellFormed(fn), NEW c \in Compilers, NEW f \in Frames(fn),
         NextKid(f) \in Parts(fn)
  PROVE  Place(f, c) \in Nat
<1>1. f.dst \in Nat /\ Len(f.got) \in Nat
  BY LenProperties DEF Frames
<1>2. NextIsStmt(f) => Scratch(NextKid(f), c) \in Nat
  BY ScratchIs
<1>3. SecondSide(f) \in Nat
  BY <1>1 DEF SecondSide
<1> HIDE DEF SecondSide, NextIsStmt
<1> QED BY <1>1, <1>2, <1>3 DEF Place

LEMMA NamesFirstIs ==
  ASSUME NEW fn, WellFormed(fn), NEW fs, NEW c, CompOk(c, fn.n_regs, fs), NEW f \in Frames(fn),
         Len(f.got) < NumKids(f.e), NEW kid \in Parts(fn)
  PROVE  LET d == NamesFirst(f, kid, c)
         IN  /\ CompOk(d, fn.n_regs, fs) /\ Grows(c, d) /\ d.code = c.code
             /\ d.arg_regs = c.arg_regs /\ d.field_entries = c.field_entries
             /\ f.e.k = "StructLit" => Contains(d.name_pool, f.e.args[Len(f.got) + 1].s)
             /\ kid.k \in {"StructLit", "set"} => Contains(d.name_pool, kid.s)
<1> DEFINE n == fn.n_regs
           field == f.e.args[Len(f.got) + 1].s
           p == IF f.e.k = "StructLit" THEN Name(c, field) ELSE c
           d == IF kid.k \in {"StructLit", "set"} THEN Name(p, kid.s) ELSE p
<1>1. c \in Compilers /\ n \in Nat /\ kid.s \in STRING
  BY PartIs DEF CompOk, WellFormed
<1>2. f.e.k = "StructLit" => field \in STRING
  <2>1. f.e \in Bodies(fn) /\ Len(f.got) \in Nat
    BY LenProperties DEF Frames
  <2>2. NumKids(f.e) \in Nat
    BY <2>1, KidsAre
  <2>3. Len(f.got) + 1 \in 1 .. NumKids(f.e)
    BY <2>1, <2>2
  <2> QED BY <2>1, <2>3, KidsAre
<1>3. NamesFirst(f, kid, c) = d
  BY DEF NamesFirst
<1> HIDE DEF field
<1>4. /\ CompOk(p, n, fs) /\ Grows(c, p) /\ p.code = c.code
      /\ p.arg_regs = c.arg_regs /\ p.field_entries = c.field_entries
      /\ f.e.k = "StructLit" => Contains(p.name_pool, field)
  <2>1. CASE f.e.k = "StructLit"
    <3>1. field \in STRING
      BY <2>1, <1>2
    <3>2. /\ CompOk(Name(c, field), n, fs) /\ Grows(c, Name(c, field))
          /\ Name(c, field).code = c.code /\ Name(c, field).arg_regs = c.arg_regs
          /\ Name(c, field).field_entries = c.field_entries
          /\ Contains(Name(c, field).name_pool, field)
      BY <3>1, <1>1, NameIs
    <3> QED BY <2>1, <3>2
  <2>2. CASE f.e.k # "StructLit"
    BY <2>2, <1>1, GrowsSame
  <2> QED BY <2>1, <2>2
<1> HIDE DEF p
<1>5. p \in Compilers
  BY <1>4 DEF CompOk
<1>6. /\ CompOk(d, n, fs) /\ Grows(p, d) /\ d.code = p.code
      /\ d.arg_regs = p.arg_regs /\ d.field_entries = p.field_entries
      /\ kid.k \in {"StructLit", "set"} => Contains(d.name_pool, kid.s)
  <2>1. CASE kid.k \in {"StructLit", "set"}
    <3> DEFINE s == kid.s
    <3>1. s \in STRING
      BY <1>1
    <3> HIDE DEF s
    <3>2. /\ CompOk(Name(p, s), n, fs) /\ Grows(p, Name(p, s))
          /\ Name(p, s).code = p.code /\ Name(p, s).arg_regs = p.arg_regs
          /\ Name(p, s).field_entries = p.field_entries
          /\ Contains(Name(p, s).name_pool, s)
      BY <3>1, <1>1, <1>4, NameIs
    <3> QED BY <2>1, <3>2 DEF s
  <2>2. CASE kid.k \notin {"StructLit", "set"}
    BY <2>2, <1>4, <1>5, GrowsSame
  <2> QED BY <2>1, <2>2
<1> HIDE DEF d
<1>7. d \in Compilers
  BY <1>6 DEF CompOk
<1>8. Grows(c, d)
  BY <1>1, <1>4, <1>5, <1>6, <1>7, GrowsTwice
<1>9. f.e.k = "StructLit" => Contains(d.name_pool, field)
  BY <1>4, <1>5, <1>6, <1>7, NamesGrow
<1> QED BY <1>3, <1>4, <1>6, <1>8, <1>9 DEF field

LEMMA OpenedOk ==
  ASSUME NEW fn, WellFormed(fn), NEW c \in Compilers, NEW d \in Compilers, Grows(c, d),
         NEW e \in Bodies(fn), NEW dst \in Nat, NEW stmt \in BOOLEAN,
         e.k \in IF stmt THEN StmtKinds \cup {"body"} ELSE ExprKinds,
         e.k \in {"StructLit", "set"} => Contains(d.name_pool, e.s)
  PROVE  LET g == Opened(e, dst, stmt, c)
         IN  g \in Frames(fn) /\ FrameOk(g, d, fn.n_regs) /\ g.e = e
<1> DEFINE from == CASE e.k = "call" -> Len(c.arg_regs)
                     [] e.k = "StructLit" -> Len(c.field_entries)
                     [] OTHER -> Len(c.code)
           g == [e |-> e, dst |-> dst, stmt |-> stmt, got |-> <<>>, br |-> 0, from |-> from]
<1>1. Opened(e, dst, stmt, c) = g
  BY DEF Opened
<1>2. /\ Len(c.arg_regs) \in Nat /\ Len(c.field_entries) \in Nat /\ Len(c.code) \in Nat
      /\ Len(c.arg_regs) <= Len(d.arg_regs) /\ Len(c.field_entries) <= Len(d.field_entries)
      /\ Len(c.code) <= Len(d.code)
  BY LengthsAre DEF Grows
<1>3. /\ from \in Nat
      /\ e.k = "call" => from = Len(c.arg_regs)
      /\ e.k = "StructLit" => from = Len(c.field_entries)
      /\ e.k = "while" => from = Len(c.code)
  BY <1>2
<1> HIDE DEF from
<1>4. /\ g \in Frames(fn) /\ g.e = e /\ g.stmt = stmt /\ g.got = <<>> /\ g.from = from
      /\ Len(g.got) = 0 /\ DOMAIN g.got = {}
  BY <1>3 DEF Frames
<1>5. NumKids(e) \in Nat
  BY KidsAre
<1> HIDE DEF g
<1>6. /\ e.k = "call" => g.from + Len(g.got) <= Len(d.arg_regs)
      /\ e.k = "StructLit" => g.from + Len(g.got) <= Len(d.field_entries)
      /\ e.k = "while" => g.from <= Len(d.code)
  BY <1>2, <1>3, <1>4
<1>7. FrameOk(g, d, fn.n_regs)
  BY <1>4, <1>5, <1>6 DEF FrameOk
<1> QED BY <1>1, <1>4, <1>7

LEMMA EnterKeeps ==
  ASSUME CompilerInv, Enter
  PROVE  CompilerInv'
<1> DEFINE f == Current
           kid == NextKid(f)
           fn == Fn
           n == fn.n_regs
           d == NamesFirst(f, kid, comp)
           dst == Place(f, comp)
           stmt == NextIsStmt(f)
           g == Opened(kid, dst, stmt, comp)
<1>1. phase = "body" /\ ret = <<>> /\ ~IsDone(f)
      /\ UNCHANGED <<tree, compiled, phase, ret, scan>>
      /\ comp' = d /\ calls' = Append(calls, g)
  BY DEF Enter
<1>2. /\ WellFormed(fn) /\ n \in Nat /\ comp \in Compilers
      /\ CompOk(comp, n, Len(tree.functions))
  BY <1>1, FnIs
<1>3. /\ CallsOk(calls, ret, comp, fn) /\ f \in Frames(fn) /\ FrameOk(f, comp, n)
      /\ f.e \in Bodies(fn) /\ NumKids(f.e) \in Nat /\ Len(f.got) < NumKids(f.e)
      /\ Len(f.got) \in Nat
  BY <1>1, BodyIs
<1> HIDE DEF fn, f
<1>4. Len(f.got) + 1 \in 1 .. NumKids(f.e)
  BY <1>3
<1>5. /\ kid \in Parts(fn)
      /\ kid.k \in (IF f.e.k = "body" \/ (f.e.k = "while" /\ Len(f.got) + 1 > 1) THEN StmtKinds
                    ELSE ExprKinds)
  BY <1>2, <1>3, <1>4, KidsAre DEF NextKid
<1>6. stmt \in BOOLEAN
  BY DEF NextIsStmt
<1>7. kid.k \in IF stmt THEN StmtKinds ELSE ExprKinds
  <2>1. f.got \in Seq(Operands)
    BY <1>3 DEF Frames
  <2>2. (f.got # <<>>) = (Len(f.got) + 1 > 1)
    BY <2>1, <1>3, EmptySeq
  <2> QED BY <2>2, <1>5 DEF NextIsStmt
<1>8. dst \in Nat
  BY <1>2, <1>3, <1>5, PlaceIs
<1>9. /\ CompOk(d, n, Len(tree.functions)) /\ Grows(comp, d) /\ d.code = comp.code
      /\ f.e.k = "StructLit" => Contains(d.name_pool, f.e.args[Len(f.got) + 1].s)
      /\ kid.k \in {"StructLit", "set"} => Contains(d.name_pool, kid.s)
  <2> HIDE DEF kid
  <2>1. kid \in Parts(fn) /\ Len(f.got) < NumKids(f.e)
    BY <1>3, <1>5
  <2>2. /\ CompOk(d, n, Len(tree.functions)) /\ Grows(comp, d) /\ d.code = comp.code
        /\ d.arg_regs = comp.arg_regs /\ d.field_entries = comp.field_entries
        /\ f.e.k = "StructLit" => Contains(d.name_pool, f.e.args[Len(f.got) + 1].s)
        /\ kid.k \in {"StructLit", "set"} => Contains(d.name_pool, kid.s)
    BY <2>1, <1>2, <1>3, NamesFirstIs
  <2> QED BY <2>2
<1> HIDE DEF kid, d, dst, stmt
<1>10. d \in Compilers
  BY <1>9 DEF CompOk
<1>11. kid \in Bodies(fn) /\ kid.k # "body"
  BY <1>5, <1>7 DEF Bodies, ExprKinds, StmtKinds, Binary
<1>12. g \in Frames(fn) /\ FrameOk(g, d, n) /\ g.e = kid
  BY <1>2, <1>6, <1>7, <1>8, <1>9, <1>10, <1>11, OpenedOk
<1> HIDE DEF g
<1>13. Waits(f, d)
  BY <1>3, <1>9 DEF Waits
<1>14. CallsOk(calls', <<>>, comp', fn)
  BY <1>1, <1>2, <1>3, <1>9, <1>10, <1>11, <1>12, <1>13, PushOk DEF f, Current
<1>15. RetOk(ret', comp', n) /\ ret' = <<>>
  BY <1>1 DEF RetOk
<1> QED BY <1>1, <1>9, <1>14, <1>15, BodyStep DEF fn

(* What the caller does with the register that it gets.                    *)
LEMMA NotedIs ==
  ASSUME NEW fn, WellFormed(fn), NEW fs, NEW c, CompOk(c, fn.n_regs, fs), NEW f \in Frames(fn),
         FrameOk(f, c, fn.n_regs), Waits(f, c), NEW r \in Regs(fn.n_regs, c)
  PROVE  LET d == Noted(f, c, r)
         IN  /\ CompOk(d, fn.n_regs, fs) /\ Grows(c, d)
             /\ f.e.k = "call" => Len(d.arg_regs) = Len(c.arg_regs) + 1
             /\ f.e.k = "StructLit" => Len(d.field_entries) = Len(c.field_entries) + 1
             /\ f.e.k = "while" /\ f.got = <<>> =>
                  Len(d.code) = Len(c.code) + 1 /\ d.code[Len(c.code) + 1].op = "BrIf"
<1> DEFINE n == fn.n_regs
           d == Noted(f, c, r)
<1>1. c \in Compilers /\ n \in Nat /\ Len(c.code) \in Nat
  BY LengthsAre DEF CompOk, WellFormed
<1>2. NumRegs(n, c) \in Nat \ {0}
  BY <1>1, NumRegsIs
<1>3. r \in Nat /\ 0 \in 0 .. NumRegs(n, c) - 1
  BY <1>2 DEF Regs
<1>4. CASE f.e.k = "call"
  <2>1. d = [c EXCEPT !.arg_regs = Append(@, r)]
    BY <1>4 DEF Noted
  <2> HIDE DEF d
  <2>2. CompOk(d, n, fs) /\ Grows(c, d) /\ Len(d.arg_regs) = Len(c.arg_regs) + 1
    BY <2>1, <1>1, ArgIs
  <2> QED BY <2>2, <1>4 DEF d
<1>5. CASE f.e.k = "StructLit"
  <2> DEFINE x == NameIdx(c, f.e.args[Len(f.got) + 1].s)
  <2>1. d = [c EXCEPT !.field_entries = Append(@, [name_idx |-> x, src_reg |-> r])]
    BY <1>5 DEF Noted
  <2>2. x \in Below(c.name_pool)
    BY <1>1, <1>5, CompilerIs, IndexIs DEF Waits, NameIdx
  <2> HIDE DEF d, x
  <2>3. CompOk(d, n, fs) /\ Grows(c, d) /\ Len(d.field_entries) = Len(c.field_entries) + 1
    BY <2>1, <2>2, <1>1, FieldIs
  <2> QED BY <2>3, <1>5 DEF d
<1>6. CASE f.e.k = "while" /\ f.got = <<>>
  <2>1. d = Emit(c, "BrIf", 0, r, 0, 0)
    BY <1>6 DEF Noted
  <2>2. Can(c, n, fs, "BrIf", 0, 0, 0)
    BY <1>1, <1>3 DEF Can, Ops, FitsFrame, Instr, Binary
  <2> HIDE DEF d
  <2>3. /\ CompOk(d, n, fs) /\ Grows(c, d) /\ Len(d.code) = Len(c.code) + 1
        /\ d.code[Len(c.code) + 1].op = "BrIf"
    BY <2>1, <2>2, <1>1, <1>3, EmitCan
  <2> QED BY <2>3, <1>6 DEF d
<1>7. CASE f.e.k \notin {"call", "StructLit"} /\ ~(f.e.k = "while" /\ f.got = <<>>)
  <2>1. d = c
    BY <1>7 DEF Noted
  <2> QED BY <2>1, <1>1, <1>7, GrowsSame
<1> QED BY <1>4, <1>5, <1>6, <1>7

LEMMA ReceiveKeeps ==
  ASSUME CompilerInv, Receive
  PROVE  CompilerInv'
<1> DEFINE f == Current
           fn == Fn
           n == fn.n_regs
           r == ret[1]
           d == Noted(f, comp, r)
           x == InReg(r)
           b == IF f.got = <<>> THEN Len(comp.code) ELSE f.br
           g == [f EXCEPT !.got = Append(@, x), !.br = b]
<1>1. phase = "body" /\ ret # <<>> /\ ret' = <<>>
      /\ UNCHANGED <<tree, compiled, phase, scan>>
      /\ comp' = d
  BY DEF Receive
<1>2. /\ WellFormed(fn) /\ n \in Nat /\ comp \in Compilers
      /\ CompOk(comp, n, Len(tree.functions))
  BY <1>1, FnIs
<1>3. /\ CallsOk(calls, ret, comp, fn) /\ f \in Frames(fn) /\ FrameOk(f, comp, n)
      /\ f.e \in Bodies(fn) /\ NumKids(f.e) \in Nat /\ Len(f.got) \in Nat
      /\ Waits(f, comp) /\ RetOk(ret, comp, n)
  BY <1>1, BodyIs
<1>4. calls' = [calls EXCEPT ![Len(calls)] = g]
  <2>1. calls' = [calls EXCEPT ![Len(calls)] =
                    [f EXCEPT !.got = Append(@, x),
                              !.br = IF f.got = <<>> THEN Len(comp.code) ELSE @]]
    BY DEF Receive
  <2>2. g = [f EXCEPT !.got = Append(@, x),
                      !.br = IF f.got = <<>> THEN Len(comp.code) ELSE @]
    BY <1>3 DEF Frames
  <2> QED BY <2>1, <2>2
<1>5. r \in Regs(n, comp)
  BY <1>1, <1>3 DEF RetOk
<1> HIDE DEF fn, f, r
<1>6. /\ CompOk(d, n, Len(tree.functions)) /\ Grows(comp, d)
      /\ f.e.k = "call" => Len(d.arg_regs) = Len(comp.arg_regs) + 1
      /\ f.e.k = "StructLit" => Len(d.field_entries) = Len(comp.field_entries) + 1
      /\ f.e.k = "while" /\ f.got = <<>> =>
           Len(d.code) = Len(comp.code) + 1 /\ d.code[Len(comp.code) + 1].op = "BrIf"
  <2> DEFINE fs == Len(tree.functions)
  <2>1. /\ WellFormed(fn) /\ CompOk(comp, n, fs) /\ f \in Frames(fn)
        /\ FrameOk(f, comp, n) /\ Waits(f, comp)
    BY <1>2, <1>3
  <2> HIDE DEF fs
  <2>2. /\ CompOk(d, n, fs) /\ Grows(comp, d)
        /\ f.e.k = "call" => Len(d.arg_regs) = Len(comp.arg_regs) + 1
        /\ f.e.k = "StructLit" => Len(d.field_entries) = Len(comp.field_entries) + 1
        /\ f.e.k = "while" /\ f.got = <<>> =>
             Len(d.code) = Len(comp.code) + 1 /\ d.code[Len(comp.code) + 1].op = "BrIf"
    BY <2>1, <1>5, NotedIs, SMTT(40)
  <2> QED BY <2>2 DEF fs
<1> HIDE DEF d
<1>7. d \in Compilers
  BY <1>6 DEF CompOk
<1>8. FrameOk(f, d, n)
  BY <1>2, <1>3, <1>6, <1>7, FrameGrows
<1>9. NumRegs(n, comp) \in Nat /\ r \in Nat /\ r \in Regs(n, d)
  <2>1. NumRegs(n, comp) \in Nat
    BY <1>2, NumRegsIs
  <2> QED BY <2>1, <1>2, <1>5, <1>6, <1>7, OperandsGrow DEF Regs
<1>10. x \in Operands /\ OperandOk(x, d, n) /\ x.lit = 0
  BY <1>9 DEF InReg, Operands, OperandOk
<1>11. f.br \in Nat /\ f.from \in Nat /\ Len(comp.code) \in Nat /\ Len(f.got) < NumKids(f.e)
  BY <1>2, <1>3, LengthsAre DEF Frames, Waits
<1>12. b \in Nat
  BY <1>11
<1>13. f.e.k = "while" => b < Len(d.code) /\ d.code[b + 1].op = "BrIf"
  <2>1. CASE f.got = <<>>
    BY <2>1, <1>6, <1>11
  <2>2. CASE f.got # <<>>
    BY <2>2, <1>8 DEF FrameOk
  <2> QED BY <2>1, <2>2
<1>14. /\ f.e.k = "call" => f.from + Len(f.got) + 1 <= Len(d.arg_regs)
       /\ f.e.k = "StructLit" => f.from + Len(f.got) + 1 <= Len(d.field_entries)
  <2>1. /\ f.e.k = "call" => f.from + Len(f.got) <= Len(comp.arg_regs)
        /\ f.e.k = "StructLit" => f.from + Len(f.got) <= Len(comp.field_entries)
    BY <1>3 DEF FrameOk
  <2>2. Len(comp.arg_regs) \in Nat /\ Len(comp.field_entries) \in Nat
    BY <1>2, LengthsAre
  <2>3. CASE f.e.k = "call"
    BY <2>1, <2>2, <2>3, <1>3, <1>6, <1>11
  <2>4. CASE f.e.k = "StructLit"
    BY <2>1, <2>2, <2>4, <1>3, <1>6, <1>11
  <2> QED BY <2>3, <2>4
<1> HIDE DEF b, x
<1>15. g \in Frames(fn) /\ FrameOk(g, d, n) /\ g.e = f.e
  <2>1. Gets(f, g, x, b)
    BY DEF Gets
  <2> HIDE DEF g
  <2> QED BY <2>1, <1>2, <1>3, <1>7, <1>8, <1>10, <1>11, <1>12, <1>13, <1>14, GetsOk
<1> HIDE DEF g
<1>16. CallsOk(calls', <<>>, d, fn)
  BY <1>2, <1>3, <1>4, <1>6, <1>7, <1>15, LastChanges DEF f, Current
<1>17. RetOk(ret', d, n)
  BY <1>1 DEF RetOk
<1> QED BY <1>1, <1>6, <1>16, <1>17, BodyStep DEF fn

LEMMA LeaveKeeps ==
  ASSUME CompilerInv, Leave
  PROVE  CompilerInv'
<1> DEFINE f == Current
           fn == Fn
           n == fn.n_regs
           d == IF f.stmt THEN EmitStmt(f, comp) ELSE EmitExpr(f, comp)
<1>1. phase = "body" /\ ret = <<>> /\ IsDone(f) /\ Len(calls) > 1
  BY DEF Leave
<1>2. /\ WellFormed(fn) /\ n \in Nat /\ comp \in Compilers
      /\ CompOk(comp, n, Len(tree.functions))
      /\ Len(tree.functions) \in Nat /\ DOMAIN tree.functions = 1 .. Len(tree.functions)
  BY <1>1, FnIs
<1>3. /\ CallsOk(calls, ret, comp, fn) /\ f \in Frames(fn) /\ FrameOk(f, comp, n)
      /\ f.e \in Parts(fn)
  BY <1>1, BodyIs
<1>4. CASE f.e.k = "call" /\ ~IsDefined(tree.functions, f.e.s)
  <2>1. phase' = "failed" /\ UNCHANGED <<tree, compiled, ret>>
    BY <1>4 DEF Leave, Fails
  <2>2. CodeInBounds'
    BY <2>1 DEF CompilerInv, CodeInBounds
  <2> QED BY <2>1, <2>2, <1>1 DEF CompilerInv
<1>5. CASE ~(f.e.k = "call" /\ ~IsDefined(tree.functions, f.e.s))
  <2>1. comp' = d /\ calls' = Front(calls) /\ ret' = <<Result(f)>>
        /\ UNCHANGED <<tree, compiled, phase, scan>>
    BY <1>5 DEF Leave
  <2> HIDE DEF fn, f
  <2>2. f.e.k = "call" => IsDefined(tree.functions, f.e.s)
    BY <1>5
  <2>3. CompOk(d, n, Len(tree.functions)) /\ Grows(comp, d) /\ Result(f) \in Regs(n, d)
    BY <2>2, <1>1, <1>2, <1>3, EmitNodeOk
  <2> HIDE DEF d
  <2>4. d \in Compilers
    BY <2>3 DEF CompOk
  <2>5. CallsOk(calls', ret', d, fn)
    BY <2>1, <2>3, <2>4, <1>1, <1>2, <1>3, PopOk
  <2>6. RetOk(ret', d, n)
    BY <2>1, <2>3 DEF RetOk
  <2> QED BY <2>1, <2>3, <2>5, <2>6, <1>1, BodyStep DEF fn
<1> QED BY <1>4, <1>5

LEMMA EndBodyKeeps ==
  ASSUME CompilerInv, EndBody
  PROVE  CompilerInv'
<1>1. phase = "body" /\ phase' = "patch" /\ ret = <<>>
      /\ UNCHANGED <<tree, compiled, comp, ret>>
  BY DEF EndBody
<1>2. Fn' = Fn
  BY <1>1 DEF Fn
<1>3. CodeInBounds'
  BY <1>1 DEF CompilerInv, CodeInBounds
<1> QED BY <1>1, <1>2, <1>3 DEF CompilerInv

\* A patch that has been applied is done with.
LEMMA PatchDone ==
  ASSUME NEW n \in Nat, NEW fs, NEW c, CompOk(c, n, fs), c.patches # <<>>, NEW d,
         d = [c EXCEPT !.patches = Tail(@)]
  PROVE  CompOk(d, n, fs)
<1>1. c \in Compilers /\ c.patches \in Seq([pc : Nat, field : {0, 1}, label : STRING])
  BY CompilerIs DEF CompOk
<1>2. Tail(c.patches) \in Seq([pc : Nat, field : {0, 1}, label : STRING])
      /\ Len(Tail(c.patches)) = Len(c.patches) - 1
      /\ \A k \in 1 .. Len(c.patches) - 1 : Tail(c.patches)[k] = c.patches[k + 1]
  BY <1>1, HeadTailProperties
<1>3. /\ d \in Compilers /\ d.patches = Tail(c.patches)
      /\ d.code = c.code /\ d.int_pool = c.int_pool /\ d.str_pool = c.str_pool
      /\ d.name_pool = c.name_pool /\ d.field_entries = c.field_entries
      /\ d.arg_regs = c.arg_regs /\ d.simd_loops = c.simd_loops
      /\ d.arg_ranges = c.arg_ranges /\ d.labels = c.labels /\ d.max_reg = c.max_reg
  BY <1>1, <1>2 DEF Compilers
<1>4. Grows(c, d)
  BY <1>1, <1>3, GrowsSame DEF Grows
<1>5. TablesFit(d, NumRegs(n, d))
  BY <1>1, <1>3, <1>4, TablesStay DEF CompOk
<1>6. CodeFits(d, n, fs)
  BY <1>1, <1>3, <1>4, FitsGrows DEF CompOk, CodeFits
<1>7. JumpsOk(d)
  BY <1>3 DEF CompOk, JumpsOk
<1>8. PatchesOk(d)
  <2>1. \A k \in DOMAIN d.patches : k + 1 \in DOMAIN c.patches /\ d.patches[k] = c.patches[k + 1]
    <3>1. Len(c.patches) \in Nat /\ DOMAIN c.patches = 1 .. Len(c.patches)
          /\ DOMAIN d.patches = 1 .. Len(c.patches) - 1
      BY <1>1, <1>2, <1>3, LengthsAre, DomainsAre
    <3> QED BY <3>1, <1>2, <1>3
  <2> QED BY <2>1, <1>3 DEF CompOk, PatchesOk
<1> QED BY <1>3, <1>5, <1>6, <1>7, <1>8 DEF CompOk

LEMMA ApplyPatchKeeps ==
  ASSUME CompilerInv, ApplyPatch
  PROVE  CompilerInv'
<1> DEFINE p == Head(comp.patches)
           n == Fn.n_regs
           fs == Len(tree.functions)
           to == comp.labels[p.label]
           d == SetTarget(comp, p.pc, p.field, to)
<1>1. phase = "patch" /\ comp.patches # <<>> /\ ret = <<>>
  BY DEF ApplyPatch, CompilerInv
<1>2. n \in Nat /\ comp \in Compilers /\ CompOk(comp, n, fs)
  BY <1>1, FnIs
<1>3. CASE p.label \notin DOMAIN comp.labels
  <2>1. phase' = "failed" /\ UNCHANGED <<tree, compiled, ret>>
    BY <1>3 DEF ApplyPatch, Fails
  <2>2. CodeInBounds'
    BY <2>1 DEF CompilerInv, CodeInBounds
  <2> QED BY <2>1, <2>2, <1>1 DEF CompilerInv
<1>4. CASE p.label \in DOMAIN comp.labels
  <2>1. comp' = [d EXCEPT !.patches = Tail(@)] /\ UNCHANGED <<tree, compiled, phase, ret>>
    BY <1>4 DEF ApplyPatch
  <2>2. comp.patches \in Seq([pc : Nat, field : {0, 1}, label : STRING])
        /\ DOMAIN comp.patches = 1 .. Len(comp.patches) /\ Len(comp.patches) \in Nat
    BY <1>2, CompilerIs, DomainsAre, LengthsAre
  <2>3. 1 \in DOMAIN comp.patches /\ p = comp.patches[1]
    BY <2>2, <1>1, EmptySeq
  <2>4. p \in [pc : Nat, field : {0, 1}, label : STRING]
    <3>1. 1 \in 1 .. Len(comp.patches)
      BY <2>2, <2>3
    <3>2. comp.patches[1] \in [pc : Nat, field : {0, 1}, label : STRING]
      BY <3>1, <2>2, ElementOfSeq
    <3> QED BY <3>2, <2>3
  <2>5. p.pc \in Nat /\ p.field \in {0, 1}
    BY <2>4
  <2>6. p.pc < Len(comp.code) /\ comp.code[p.pc + 1].op \in {"Jmp", "BrIf"}
    BY <2>3, <1>2 DEF CompOk, PatchesOk
  <2>7. to \in Nat /\ to < Len(comp.code)
    <3>1. PICK D \in SUBSET STRING : comp.labels \in [D -> Nat]
      BY <1>2, CompilerIs DEF LabelMaps
    <3>2. to \in Nat
      BY <3>1, <1>4
    <3> QED BY <3>2, <1>2, <1>4 DEF CompOk, PatchesOk
  <2> HIDE DEF p, to
  <2>8. CompOk(d, n, fs) /\ d.patches = comp.patches
    <3> DEFINE pc == p.pc
               field == p.field
    <3>1. pc \in Nat /\ field \in {0, 1} /\ pc < Len(comp.code)
          /\ comp.code[pc + 1].op \in {"Jmp", "BrIf"}
      BY <2>5, <2>6
    <3> HIDE DEF pc, field
    <3>2. CompOk(SetTarget(comp, pc, field, to), n, fs)
          /\ SetTarget(comp, pc, field, to).patches = comp.patches
      BY <3>1, <2>7, <1>2, SetTargetIs
    <3> QED BY <3>2 DEF pc, field
  <2> HIDE DEF d
  <2>9. CompOk(comp', n, fs)
    BY <2>1, <2>8, <1>1, <1>2, PatchDone
  <2>10. Fn' = Fn
    BY <2>1 DEF Fn
  <2>11. CodeInBounds'
    BY <2>1 DEF CompilerInv, CodeInBounds
  <2> QED BY <2>1, <2>9, <2>10, <2>11, <1>1 DEF CompilerInv
<1> QED BY <1>3, <1>4

LEMMA EndPatchesKeeps ==
  ASSUME CompilerInv, EndPatches
  PROVE  CompilerInv'
<1> DEFINE n == Fn.n_regs
           fs == Len(tree.functions)
           c == comp
           d == EndReturn(comp)
           len == Len(d.code)
<1>1. /\ phase = "patch" /\ c.patches = <<>> /\ phase' = "loops" /\ comp' = d
      /\ scan' = [at |-> 1, end |-> 0] /\ UNCHANGED <<tree, compiled, ret>> /\ ret = <<>>
  BY DEF EndPatches, CompilerInv
<1>2. n \in Nat /\ c \in Compilers /\ CompOk(c, n, fs) /\ Len(c.code) \in Nat
  BY <1>1, FnIs, LengthsAre
<1>3. /\ CompOk(d, n, fs) /\ d.patches = <<>> /\ len \in Nat \ {0}
      /\ d.code[len].op \in {"Ret", "RetVoid"}
  <2>1. CASE c.code # <<>> /\ Last(c.code).op \in {"Ret", "RetVoid"}
    <3>1. d = c
      BY <2>1 DEF EndReturn
    <3>2. Len(c.code) \in Nat \ {0}
      BY <2>1, <1>2, CompilerIs, EmptySeq
    <3> QED BY <3>1, <3>2, <2>1, <1>1, <1>2 DEF Last
  <2>2. CASE ~(c.code # <<>> /\ Last(c.code).op \in {"Ret", "RetVoid"})
    <3>1. d = Emit(c, "RetVoid", 0, 0, 0, 0)
      BY <2>2 DEF EndReturn
    <3>2. NumRegs(n, c) \in Nat \ {0}
      BY <1>2, NumRegsIs
    <3>3. Can(c, n, fs, "RetVoid", 0, 0, 0)
      BY <3>2 DEF Can, Ops, FitsFrame, Instr, Binary
    <3> HIDE DEF d
    <3>4. /\ CompOk(d, n, fs) /\ Len(d.code) = Len(c.code) + 1
          /\ d.code[Len(c.code) + 1].op = "RetVoid" /\ d.patches = c.patches
      BY <3>1, <3>3, <1>2, EmitCan
    <3> QED BY <3>4, <1>1, <1>2
  <2> QED BY <2>1, <2>2
<1> HIDE DEF d
<1>4. \A k \in DOMAIN d.code : d.code[k].op = "BrIf" => d.code[k].b < len
  BY <1>3 DEF CompOk, JumpsOk
<1>5. ScanOk(scan', d)
  BY <1>1, <1>3, <1>4 DEF ScanOk
<1>6. Fn' = Fn
  BY <1>1 DEF Fn
<1>7. CodeInBounds'
  BY <1>1 DEF CompilerInv, CodeInBounds
<1> QED BY <1>1, <1>3, <1>5, <1>6, <1>7 DEF CompilerInv

LEMMA SkipInstrKeeps ==
  ASSUME CompilerInv, SkipInstr
  PROVE  CompilerInv'
<1>1. /\ phase = "loops" /\ scan.end = 0 /\ UNCHANGED <<tree, compiled, phase, comp, ret>>
      /\ scan' = [scan EXCEPT !.at = @ + 1]
  BY DEF SkipInstr, Outside
<1>2. ScanOk(scan, comp)
  BY <1>1 DEF CompilerInv
<1>3. scan' \in [at : Nat \ {0}, end : Nat] /\ scan'.end = 0
  BY <1>1, <1>2 DEF ScanOk
<1>4. ScanOk(scan', comp)
  BY <1>2, <1>3 DEF ScanOk
<1>5. Fn' = Fn
  BY <1>1 DEF Fn
<1>6. CodeInBounds'
  BY <1>1 DEF CompilerInv, CodeInBounds
<1> QED BY <1>1, <1>4, <1>5, <1>6 DEF CompilerInv

(* The loops: another instruction in the place of one.                     *)
LEMMA ReplacedIs ==
  ASSUME NEW n \in Nat, NEW fs, NEW c, CompOk(c, n, fs), c.patches = <<>>,
         \A k \in DOMAIN c.code : c.code[k].op = "BrIf" => c.code[k].b < Len(c.code),
         NEW at \in 1 .. Len(c.code), NEW i \in Instrs, FitsFrame(c, NumRegs(n, c), fs, i),
         i.op \notin {"Move", "Jmp", "BrIf"}, NEW d, d = [c EXCEPT !.code[at] = i]
  PROVE  /\ CompOk(d, n, fs) /\ d.patches = <<>> /\ Len(d.code) = Len(c.code)
         /\ \A k \in DOMAIN d.code : d.code[k].op = "BrIf" => d.code[k].b < Len(d.code)
         /\ d.simd_loops = c.simd_loops
<1>1. c \in Compilers /\ c.code \in Seq(Instrs) /\ Len(c.code) \in Nat
      /\ DOMAIN c.code = 1 .. Len(c.code)
  BY CompilerIs, LengthsAre, DomainsAre DEF CompOk
<1>2. d = [c EXCEPT !.code = [c.code EXCEPT ![at] = i]]
  OBVIOUS
<1>3. /\ [c.code EXCEPT ![at] = i] \in Seq(Instrs)
      /\ Len([c.code EXCEPT ![at] = i]) = Len(c.code)
      /\ \A k \in 1 .. Len(c.code) :
           [c.code EXCEPT ![at] = i][k] = IF k = at THEN i ELSE c.code[k]
  BY <1>1, ExceptSeq
<1>4. /\ d \in Compilers /\ d.code = [c.code EXCEPT ![at] = i]
      /\ d.arg_ranges = c.arg_ranges /\ d.int_pool = c.int_pool /\ d.str_pool = c.str_pool
      /\ d.name_pool = c.name_pool /\ d.field_entries = c.field_entries
      /\ d.arg_regs = c.arg_regs /\ d.simd_loops = c.simd_loops
      /\ d.patches = c.patches /\ d.labels = c.labels /\ d.max_reg = c.max_reg
  BY <1>1, <1>2, <1>3 DEF Compilers
<1>5. /\ Len(d.code) = Len(c.code) /\ DOMAIN d.code = 1 .. Len(c.code)
      /\ \A k \in DOMAIN d.code : d.code[k] = IF k = at THEN i ELSE c.code[k]
  BY <1>1, <1>3, <1>4, DomainsAre
<1>6. NumRegs(n, d) = NumRegs(n, c)
  BY <1>4 DEF NumRegs
<1>7. \A j : /\ FitsA(c, NumRegs(n, c), j) => FitsA(d, NumRegs(n, d), j)
             /\ FitsB(c, NumRegs(n, c), j) => FitsB(d, NumRegs(n, d), j)
  BY <1>4, <1>6 DEF FitsA, FitsB
<1>8. \A j : FitsFrame(c, NumRegs(n, c), fs, j) => FitsFrame(d, NumRegs(n, d), fs, j)
  <2> SUFFICES ASSUME NEW j, FitsFrame(c, NumRegs(n, c), fs, j)
               PROVE  FitsFrame(d, NumRegs(n, d), fs, j)
    OBVIOUS
  <2>1. /\ \A x : RangeIn(c, x, c.arg_regs) => RangeIn(d, x, d.arg_regs)
        /\ \A x : RangeIn(c, x, c.field_entries) => RangeIn(d, x, d.field_entries)
    BY <1>4 DEF RangeIn
  <2>2. /\ FitsA(c, NumRegs(n, c), j) => FitsA(d, NumRegs(n, d), j)
        /\ FitsB(c, NumRegs(n, c), j) => FitsB(d, NumRegs(n, d), j)
    BY <1>7
  <2>3. /\ \A r \in 0 .. NumRegs(n, c) - 1 : r \in 0 .. NumRegs(n, d) - 1
        /\ \A x \in Below(c.int_pool) : x \in Below(d.int_pool)
        /\ \A x \in Below(c.str_pool) : x \in Below(d.str_pool)
        /\ \A x \in Below(c.name_pool) : x \in Below(d.name_pool)
        /\ \A x \in Below(c.simd_loops) : x \in Below(d.simd_loops)
    BY <1>4, <1>6
  <2> QED BY <2>1, <2>2, <2>3, SMTT(30) DEF FitsFrame
<1>9. TablesFit(d, NumRegs(n, d))
  BY <1>4, <1>6, <1>7 DEF CompOk, TablesFit
<1>10. CodeFits(d, n, fs)
  BY <1>1, <1>5, <1>8 DEF CompOk, CodeFits
<1>11. \A k \in DOMAIN d.code : d.code[k].op = "BrIf" => d.code[k].b < Len(d.code)
  BY <1>1, <1>5
<1>12. JumpsOk(d)
  BY <1>1, <1>5, <1>11 DEF CompOk, JumpsOk
<1>13. PatchesOk(d)
  BY <1>4, <1>5 DEF CompOk, PatchesOk
<1> QED BY <1>4, <1>5, <1>9, <1>10, <1>11, <1>12, <1>13 DEF CompOk

\* The loops that have been found.
LoopsFit(loops, c, m) ==
  \A l \in DOMAIN loops : \A k \in DOMAIN loops[l] :
    LET o == loops[l][k]
    IN  /\ o.dst \in 0 .. m - 1
        /\ o.op # "LoadInt" => FitsA(c, m, o)
        /\ o.op \in Binary => FitsB(c, m, o)

LEMMA LoopsAre ==
  ASSUME NEW n \in Nat, NEW fs, NEW c, CompOk(c, n, fs), c.patches = <<>>,
         NEW loops \in Seq(Seq(Instrs)), Len(c.simd_loops) <= Len(loops),
         LoopsFit(loops, c, NumRegs(n, c)), NEW d, d = [c EXCEPT !.simd_loops = loops]
  PROVE  /\ CompOk(d, n, fs) /\ d.patches = <<>> /\ d.code = c.code /\ d.simd_loops = loops
         /\ d.max_reg = c.max_reg /\ d.int_pool = c.int_pool /\ Grows(c, d)
<1>1. c \in Compilers
  BY DEF CompOk
<1>2. /\ d \in Compilers /\ d.code = c.code /\ d.simd_loops = loops
      /\ d.arg_ranges = c.arg_ranges /\ d.int_pool = c.int_pool /\ d.str_pool = c.str_pool
      /\ d.name_pool = c.name_pool /\ d.field_entries = c.field_entries
      /\ d.arg_regs = c.arg_regs
      /\ d.patches = c.patches /\ d.labels = c.labels /\ d.max_reg = c.max_reg
  BY <1>1 DEF Compilers
<1>3. Grows(c, d)
  BY <1>1, <1>2, GrowsSame DEF Grows
<1>4. NumRegs(n, d) = NumRegs(n, c)
  BY <1>2 DEF NumRegs
<1>5. \A j : /\ FitsA(c, NumRegs(n, c), j) => FitsA(d, NumRegs(n, d), j)
             /\ FitsB(c, NumRegs(n, c), j) => FitsB(d, NumRegs(n, d), j)
  BY <1>2, <1>4 DEF FitsA, FitsB
<1>6. TablesFit(d, NumRegs(n, d))
  BY <1>2, <1>4, <1>5 DEF CompOk, TablesFit, LoopsFit
<1>7. CompOk(d, n, fs)
  BY <1>2, <1>3, <1>6, CodeStays
<1> QED BY <1>2, <1>3, <1>7

LEMMA LoopsIs ==
  ASSUME CompilerInv, phase = "loops"
  PROVE  /\ Fn.n_regs \in Nat /\ comp \in Compilers
         /\ CompOk(comp, Fn.n_regs, Len(tree.functions))
         /\ ScanOk(scan, comp) /\ comp.patches = <<>> /\ scan.at \in Nat \ {0} /\ scan.end \in Nat
         /\ Len(comp.code) \in Nat /\ comp.code \in Seq(Instrs)
         /\ DOMAIN comp.code = 1 .. Len(comp.code)
<1>1. Fn.n_regs \in Nat /\ comp \in Compilers /\ CompOk(comp, Fn.n_regs, Len(tree.functions))
  BY FnIs
<1>2. ScanOk(scan, comp)
  BY DEF CompilerInv
<1>3. comp.patches = <<>> /\ scan.at \in Nat \ {0} /\ scan.end \in Nat
  BY <1>2 DEF ScanOk
<1> QED BY <1>1, <1>2, <1>3, LengthsAre, DomainsAre, CompilerIs

\* A step within the loops of a function.
LEMMA LoopsStep ==
  ASSUME CompilerInv, phase = "loops", UNCHANGED <<tree, compiled, phase, ret>>,
         CompOk(comp', Fn.n_regs, Len(tree.functions)), ScanOk(scan', comp')
  PROVE  CompilerInv'
<1>1. Fn' = Fn
  BY DEF Fn
<1>2. CodeInBounds'
  BY DEF CompilerInv, CodeInBounds
<1> QED BY <1>1, <1>2 DEF CompilerInv

LEMMA BeginSimdLoopKeeps ==
  ASSUME CompilerInv, BeginSimdLoop
  PROVE  CompilerInv'
<1> DEFINE n == Fn.n_regs
           fs == Len(tree.functions)
           c == comp
           at == scan.at
           cmp == c.code[at]
           idx == Len(c.simd_loops)
           loops == Append(c.simd_loops, <<>>)
           e == [c EXCEPT !.simd_loops = loops]
           i == SimdStart(cmp, idx)
           d == [e EXCEPT !.code[at] = i]
           N == NumRegs(n, c)
<1>1. /\ phase = "loops" /\ scan.end = 0 /\ at + 2 <= Len(c.code) /\ IsSimdLoop(c.code, at)
      /\ UNCHANGED <<tree, compiled, phase, ret>>
      /\ scan' = [at |-> at + 1, end |-> c.code[at + 1].b]
  BY DEF BeginSimdLoop, Outside
<1>2. /\ n \in Nat /\ c \in Compilers /\ CompOk(c, n, fs) /\ ScanOk(scan, c) /\ c.patches = <<>>
      /\ at \in Nat \ {0} /\ Len(c.code) \in Nat /\ c.code \in Seq(Instrs)
      /\ DOMAIN c.code = 1 .. Len(c.code)
  BY <1>1, LoopsIs
<1>3. at \in 1 .. Len(c.code) /\ at + 1 \in 1 .. Len(c.code)
  BY <1>1, <1>2
<1>4. comp' = d
  <2>1. comp' = [c EXCEPT !.code[at] = SimdStart(@, idx), !.simd_loops = Append(@, <<>>)]
    BY DEF BeginSimdLoop
  <2> QED BY <2>1, <1>2 DEF Compilers
<1>5. c.simd_loops \in Seq(Seq(Instrs)) /\ idx \in Nat
      /\ DOMAIN c.simd_loops = 1 .. Len(c.simd_loops)
  BY <1>2, CompilerIs, LengthsAre, DomainsAre
<1>6. /\ loops \in Seq(Seq(Instrs)) /\ Len(loops) = idx + 1
      /\ \A l \in 1 .. idx : loops[l] = c.simd_loops[l]
      /\ loops[idx + 1] = <<>>
  BY <1>5, AppendProperties
<1>7. LoopsFit(loops, c, N)
  <2>1. DOMAIN loops = 1 .. idx + 1
    BY <1>5, <1>6, LenProperties
  <2> HIDE DEF loops
  <2> SUFFICES ASSUME NEW l \in DOMAIN loops, NEW k \in DOMAIN loops[l]
               PROVE  LET o == loops[l][k]
                      IN  /\ o.dst \in 0 .. N - 1
                          /\ o.op # "LoadInt" => FitsA(c, N, o)
                          /\ o.op \in Binary => FitsB(c, N, o)
    BY DEF LoopsFit
  <2>3. DOMAIN <<>> = {}
    OBVIOUS
  <2>4. l # idx + 1
    BY <2>3, <1>6
  <2>2. l \in 1 .. idx /\ loops[l] = c.simd_loops[l]
    <3>1. l \in 1 .. idx + 1 /\ idx \in Nat
      BY <2>1, <1>5
    <3> HIDE DEF idx
    <3>2. l \in 1 .. idx
      BY <3>1, <2>4
    <3> QED BY <3>2, <1>6 DEF idx
  <2> QED BY <2>2, <1>2, <1>5 DEF CompOk, TablesFit
<1> HIDE DEF N, idx
<1>8. /\ CompOk(e, n, fs) /\ e.patches = <<>> /\ e.code = c.code /\ e.simd_loops = loops
      /\ e.max_reg = c.max_reg /\ e.int_pool = c.int_pool
  <2> HIDE DEF loops, e
  <2>1. Len(c.simd_loops) <= Len(loops)
    BY <1>5, <1>6 DEF idx
  <2>2. e = [c EXCEPT !.simd_loops = loops]
    BY DEF e
  <2> QED BY <2>1, <2>2, <1>2, <1>6, <1>7, LoopsAre DEF N
<1>9. cmp \in Instrs /\ cmp.op \in {"lt", "gt"} /\ ~LitA(cmp) /\ FitsFrame(c, N, fs, cmp)
  <2>1. cmp \in Instrs
    BY <1>2, <1>3, ElementOfSeq
  <2>2. FitsFrame(c, N, fs, cmp)
    BY <1>2, <1>3 DEF CompOk, CodeFits, N
  <2> QED BY <2>1, <2>2, <1>1 DEF IsSimdLoop
<1> HIDE DEF cmp, loops, e
<1>10. cmp.a \in 0 .. N - 1 /\ FitsB(c, N, cmp)
  <2>1. FitsA(c, N, cmp) /\ FitsB(c, N, cmp)
    BY <1>9 DEF FitsFrame, Binary
  <2> QED BY <2>1, <1>9 DEF FitsA
<1>11. /\ i \in Instrs /\ i.op = "SimdLoop" /\ i.dst = cmp.a /\ i.a = idx /\ i.b = cmp.b
       /\ LitB(i) <=> LitB(cmp)
  <2> DEFINE flag == (IF cmp.op = "lt" THEN 1 ELSE 0) + (IF LitB(cmp) THEN 2 ELSE 0)
  <2>1. flag \in 0 .. 3 /\ (flag \div 2 = 1 <=> LitB(cmp))
    <3> DEFINE x == IF cmp.op = "lt" THEN 1 ELSE 0
               y == IF LitB(cmp) THEN 2 ELSE 0
    <3>1. x \in {0, 1} /\ y \in {0, 2} /\ (y = 2 <=> LitB(cmp)) /\ flag = x + y
      OBVIOUS
    <3> HIDE DEF x, y, flag
    <3>2. flag \in 0 .. 3 /\ (flag \div 2 = 1 <=> y = 2)
      <4>1. CASE y = 2
        BY <4>1, <3>1
      <4>2. CASE y = 0
        BY <4>2, <3>1
      <4> QED BY <4>1, <4>2, <3>1
    <3> QED BY <3>1, <3>2
  <2>2. i = Instr("SimdLoop", flag, cmp.a, idx, cmp.b)
    BY DEF SimdStart
  <2>3. "SimdLoop" \in Ops /\ cmp.a \in Nat /\ cmp.b \in Nat
    BY <1>9 DEF Ops, Instrs
  <2> HIDE DEF flag, i
  <2>4. i \in Instrs /\ i.op = "SimdLoop" /\ i.flag = flag /\ i.dst = cmp.a /\ i.a = idx
        /\ i.b = cmp.b
    BY <2>1, <2>2, <2>3, <1>5 DEF Instr, Instrs
  <2>5. LitB(i) <=> flag \div 2 = 1
    BY <2>4 DEF LitB
  <2> QED BY <2>1, <2>4, <2>5
<1> HIDE DEF i
<1>12. NumRegs(n, e) = N
  BY <1>8 DEF NumRegs, N
<1>13. FitsFrame(e, NumRegs(n, e), fs, i)
  <2>1. FitsB(e, N, i)
    BY <1>8, <1>10, <1>11 DEF FitsB
  <2>2. i.a \in Below(e.simd_loops)
    BY <1>5, <1>6, <1>8, <1>11 DEF Below
  <2> QED BY <2>1, <2>2, <1>10, <1>11, <1>12 DEF FitsFrame, Binary
<1>14. /\ CompOk(d, n, fs) /\ d.patches = <<>> /\ Len(d.code) = Len(e.code)
       /\ \A k \in DOMAIN d.code : d.code[k].op = "BrIf" => d.code[k].b < Len(d.code)
       /\ d.simd_loops = e.simd_loops
  <2>1. \A k \in DOMAIN e.code : e.code[k].op = "BrIf" => e.code[k].b < Len(e.code)
    BY <1>2, <1>8 DEF ScanOk
  <2>2. at \in 1 .. Len(e.code) /\ i.op \notin {"Move", "Jmp", "BrIf"}
    BY <1>3, <1>8, <1>11
  <2> HIDE DEF at
  <2> QED BY <2>1, <2>2, <1>2, <1>8, <1>11, <1>13, ReplacedIs
<1> HIDE DEF d
<1>15. ScanOk(scan', d)
  <2> DEFINE br == c.code[at + 1]
  <2>1. br.op = "BrIf" /\ br.a = at + 1 /\ br.b > br.a
    BY <1>1 DEF IsSimdLoop
  <2>2. br \in Instrs
    BY <1>2, <1>3, ElementOfSeq
  <2>3. br.b < Len(c.code)
    BY <2>1, <1>2, <1>3 DEF ScanOk
  <2>4. br.b \in Nat
    BY <2>2 DEF Instrs
  <2>5. scan' = [at |-> at + 1, end |-> br.b]
    BY <1>1
  <2> HIDE DEF br, at
  <2>6. at + 1 \in Nat \ {0} /\ at + 1 <= br.b /\ br.b <= Len(d.code)
    BY <2>1, <2>3, <2>4, <1>2, <1>8, <1>14
  <2>7. d.simd_loops # <<>>
    BY <1>5, <1>6, <1>8, <1>14, EmptySeq
  <2>8. scan' \in [at : Nat \ {0}, end : Nat] /\ scan'.at = at + 1 /\ scan'.end = br.b
    BY <2>4, <2>5, <2>6
  <2> QED BY <2>6, <2>7, <2>8, <1>14 DEF ScanOk
<1> QED BY <1>1, <1>4, <1>14, <1>15, LoopsStep

LEMMA MoveInstrKeeps ==
  ASSUME CompilerInv, MoveInstr
  PROVE  CompilerInv'
<1> DEFINE n == Fn.n_regs
           fs == Len(tree.functions)
           c == comp
           at == scan.at
           moved == c.code[at]
           body == Len(c.simd_loops)
           N == NumRegs(n, c)
           moves == moved.op \in Plain \ {"SetLabel"}
           longer == IF moves THEN Append(c.simd_loops[body], moved) ELSE c.simd_loops[body]
           loops == [c.simd_loops EXCEPT ![body] = longer]
           e == [c EXCEPT !.simd_loops = loops]
           i == Instr("SetLabel", 0, 0, 0, 0)
           d == [e EXCEPT !.code[at] = i]
<1>1. /\ phase = "loops" /\ scan.end # 0 /\ UNCHANGED <<tree, compiled, phase, ret>>
      /\ scan' = [at |-> at + 1, end |-> IF at = scan.end THEN 0 ELSE scan.end]
  BY DEF MoveInstr
<1>2. /\ n \in Nat /\ c \in Compilers /\ CompOk(c, n, fs) /\ ScanOk(scan, c) /\ c.patches = <<>>
      /\ at \in Nat \ {0} /\ scan.end \in Nat /\ Len(c.code) \in Nat /\ c.code \in Seq(Instrs)
      /\ DOMAIN c.code = 1 .. Len(c.code)
  BY <1>1, LoopsIs
<1>3. at <= scan.end /\ scan.end <= Len(c.code) /\ c.simd_loops # <<>>
  BY <1>1, <1>2 DEF ScanOk
<1>4. at \in 1 .. Len(c.code)
  BY <1>2, <1>3
<1>5. /\ c.simd_loops \in Seq(Seq(Instrs)) /\ body \in Nat
      /\ DOMAIN c.simd_loops = 1 .. body
  BY <1>2, CompilerIs, LengthsAre, DomainsAre
<1>6. body \in 1 .. body
  BY <1>3, <1>5, EmptySeq
<1>7. comp' = d
  <2>1. comp' = [c EXCEPT !.code[at] = i,
                          !.simd_loops[body] = IF moves THEN Append(@, moved) ELSE @]
    BY DEF MoveInstr
  <2>2. comp' = [c EXCEPT !.code[at] = i, !.simd_loops[body] = longer]
    BY <2>1, <1>2 DEF Compilers
  <2> HIDE DEF longer, i, body, at
  <2> QED BY <2>2, <1>2 DEF Compilers
<1>8. /\ moved \in Instrs /\ FitsFrame(c, N, fs, moved) /\ (moved.op = "Move" => moved.flag = 0)
  <2>1. moved \in Instrs
    BY <1>2, <1>4, ElementOfSeq
  <2> QED BY <2>1, <1>2, <1>4 DEF CompOk, CodeFits
<1>9. c.simd_loops[body] \in Seq(Instrs)
  BY <1>5, <1>6, ElementOfSeq
<1> HIDE DEF moved, N
<1>10. longer \in Seq(Instrs)
  BY <1>8, <1>9, AppendProperties
<1>11. /\ loops \in Seq(Seq(Instrs)) /\ Len(loops) = body /\ DOMAIN loops = 1 .. body
       /\ \A l \in 1 .. body : loops[l] = IF l = body THEN longer ELSE c.simd_loops[l]
  <2> HIDE DEF longer
  <2>1. /\ loops \in Seq(Seq(Instrs)) /\ Len(loops) = Len(c.simd_loops)
        /\ \A l \in 1 .. Len(c.simd_loops) :
             loops[l] = IF l = body THEN longer ELSE c.simd_loops[l]
    BY <1>5, <1>6, <1>10, ExceptSeq
  <2> QED BY <2>1, LenProperties
<1>12. moves => /\ moved.dst \in 0 .. N - 1
                /\ moved.op # "LoadInt" => FitsA(c, N, moved)
                /\ moved.op \in Binary => FitsB(c, N, moved)
  <2> SUFFICES ASSUME moves
               PROVE  /\ moved.dst \in 0 .. N - 1
                      /\ moved.op # "LoadInt" => FitsA(c, N, moved)
                      /\ moved.op \in Binary => FitsB(c, N, moved)
    OBVIOUS
  <2>1. moved.dst \in 0 .. N - 1
    BY <1>8 DEF FitsFrame
  <2>2. CASE moved.op \in {"add", "sub", "mul", "div", "lt", "gt"}
    <3>1. FitsA(c, N, moved) /\ FitsB(c, N, moved)
      BY <2>2, <1>8 DEF FitsFrame, Binary
    <3> QED BY <3>1, <2>1
  <2>3. CASE moved.op = "Move"
    <3>1. moved.a \in 0 .. N - 1
      BY <2>3, <1>8 DEF FitsFrame
    <3>2. ~LitA(moved)
      BY <2>3, <1>8 DEF LitA
    <3> QED BY <3>1, <3>2, <2>1, <2>3 DEF FitsA, Binary
  <2>4. CASE moved.op = "LoadInt"
    BY <2>1, <2>4 DEF Binary
  <2> QED BY <2>2, <2>3, <2>4 DEF Plain
<1>13. LoopsFit(loops, c, N)
  <2> HIDE DEF loops
  <2> SUFFICES ASSUME NEW l \in DOMAIN loops, NEW k \in DOMAIN loops[l]
               PROVE  LET o == loops[l][k]
                      IN  /\ o.dst \in 0 .. N - 1
                          /\ o.op # "LoadInt" => FitsA(c, N, o)
                          /\ o.op \in Binary => FitsB(c, N, o)
    BY DEF LoopsFit
  <2>1. l \in 1 .. body /\ l \in DOMAIN c.simd_loops
    BY <1>5, <1>11
  <2>2. TablesFit(c, N)
    BY <1>2 DEF CompOk, N
  <2>3. CASE loops[l] = c.simd_loops[l]
    BY <2>1, <2>2, <2>3 DEF TablesFit
  <2>4. CASE moves /\ l = body /\ k = Len(c.simd_loops[body]) + 1
    <3>1. loops[l] = Append(c.simd_loops[body], moved)
      BY <2>1, <2>4, <1>11
    <3>2. loops[l][k] = moved
      BY <3>1, <2>4, <1>8, <1>9, AppendProperties
    <3> QED BY <3>2, <2>4, <1>12
  <2>5. CASE moves /\ l = body /\ k # Len(c.simd_loops[body]) + 1
    <3> DEFINE s == c.simd_loops[body]
    <3>1. s \in Seq(Instrs) /\ Len(s) \in Nat /\ DOMAIN s = 1 .. Len(s)
      BY <1>9, LenProperties
    <3> HIDE DEF s
    <3>2. loops[l] = Append(s, moved)
      BY <2>1, <2>5, <1>11 DEF s
    <3>3. /\ Append(s, moved) \in Seq(Instrs) /\ Len(Append(s, moved)) = Len(s) + 1
          /\ \A j \in 1 .. Len(s) : Append(s, moved)[j] = s[j]
      BY <3>1, <1>8, AppendProperties
    <3>4. k \in 1 .. Len(s) + 1 /\ k # Len(s) + 1
      BY <3>2, <3>3, <2>5, LenProperties DEF s
    <3>5. k \in DOMAIN s /\ loops[l][k] = s[k]
      BY <3>1, <3>2, <3>3, <3>4
    <3>6. k \in DOMAIN c.simd_loops[l] /\ loops[l][k] = c.simd_loops[l][k]
      BY <3>5, <2>5 DEF s
    <3> QED BY <3>6, <2>1, <2>2 DEF TablesFit
  <2>6. (moves /\ l = body) \/ loops[l] = c.simd_loops[l]
    BY <2>1, <1>11
  <2> QED BY <2>3, <2>4, <2>5, <2>6
<1> HIDE DEF loops, longer, moves, e
<1>14. /\ CompOk(e, n, fs) /\ e.patches = <<>> /\ e.code = c.code /\ e.simd_loops = loops
  <2>1. Len(c.simd_loops) <= Len(loops)
    BY <1>5, <1>11
  <2>2. e = [c EXCEPT !.simd_loops = loops]
    BY DEF e
  <2> QED BY <2>1, <2>2, <1>2, <1>11, <1>13, LoopsAre DEF N
<1>15. i \in Instrs /\ i.op = "SetLabel" /\ i.dst = 0
  <2>1. "SetLabel" \in Ops
    BY DEF Ops
  <2> QED BY <2>1 DEF Instr, Instrs
<1> HIDE DEF i
<1>16. FitsFrame(e, NumRegs(n, e), fs, i)
  <2>1. e \in Compilers
    BY <1>14 DEF CompOk
  <2>2. NumRegs(n, e) \in Nat \ {0}
    BY <2>1, <1>2, NumRegsIs
  <2> QED BY <2>2, <1>15 DEF FitsFrame, Binary
<1>17. /\ CompOk(d, n, fs) /\ d.patches = <<>> /\ Len(d.code) = Len(e.code)
       /\ \A k \in DOMAIN d.code : d.code[k].op = "BrIf" => d.code[k].b < Len(d.code)
       /\ d.simd_loops = e.simd_loops
  <2>1. \A k \in DOMAIN e.code : e.code[k].op = "BrIf" => e.code[k].b < Len(e.code)
    BY <1>2, <1>14 DEF ScanOk
  <2>2. at \in 1 .. Len(e.code) /\ i.op \notin {"Move", "Jmp", "BrIf"}
    BY <1>4, <1>14, <1>15
  <2>3. n \in Nat /\ CompOk(e, n, fs) /\ e.patches = <<>>
    BY <1>2, <1>14
  <2>4. d = [e EXCEPT !.code[at] = i]
    OBVIOUS
  <2> HIDE DEF at, d
  <2> QED BY <2>1, <2>2, <2>3, <2>4, <1>15, <1>16, ReplacedIs
<1> HIDE DEF d
<1>18. ScanOk(scan', d)
  <2>1. scan' \in [at : Nat \ {0}, end : Nat] /\ (scan'.end # 0 => scan'.at <= scan'.end)
        /\ (scan'.end # 0 => scan'.end <= Len(c.code))
    <3>1. CASE at = scan.end
      BY <3>1, <1>1, <1>2
    <3>2. CASE at # scan.end
      <4>1. scan' = [at |-> at + 1, end |-> scan.end]
        BY <3>2, <1>1
      <4>2. at + 1 <= scan.end
        BY <3>2, <1>2, <1>3
      <4> QED BY <4>1, <4>2, <1>2, <1>3
    <3> QED BY <3>1, <3>2
  <2>2. d.simd_loops # <<>>
    BY <1>3, <1>5, <1>6, <1>11, <1>14, <1>17, EmptySeq
  <2> QED BY <2>1, <2>2, <1>14, <1>17 DEF ScanOk
<1> QED BY <1>1, <1>7, <1>17, <1>18, LoopsStep

LEMMA FinishKeeps ==
  ASSUME CompilerInv, Finish
  PROVE  CompilerInv'
<1> DEFINE c == comp
           N == NumRegs(Fn.n_regs, comp)
           fs == Len(tree.functions)
           r == [n_regs |-> N, code |-> c.code, int_pool |-> c.int_pool,
                 str_pool |-> c.str_pool, name_pool |-> c.name_pool, arg_regs |-> c.arg_regs,
                 arg_ranges |-> c.arg_ranges, field_entries |-> c.field_entries,
                 simd_loops |-> c.simd_loops]
<1>1. /\ phase = "loops" /\ phase' = "function" /\ compiled' = Append(compiled, r)
      /\ UNCHANGED <<tree, ret>>
  BY DEF Finish, Outside
<1>2. /\ Fn.n_regs \in Nat /\ c \in Compilers /\ CompOk(c, Fn.n_regs, fs) /\ ScanOk(scan, c)
      /\ Len(c.code) \in Nat /\ c.code \in Seq(Instrs) /\ DOMAIN c.code = 1 .. Len(c.code)
  BY <1>1, LoopsIs
<1>3. N \in Nat
  BY <1>2, NumRegsIs
<1> HIDE DEF N
<1>4. r \in CompiledFns
  BY <1>2, <1>3 DEF CompiledFns, Compilers
<1>5. /\ r.n_regs = N /\ r.code = c.code /\ r.int_pool = c.int_pool /\ r.str_pool = c.str_pool
      /\ r.name_pool = c.name_pool /\ r.arg_regs = c.arg_regs /\ r.arg_ranges = c.arg_ranges
      /\ r.field_entries = c.field_entries /\ r.simd_loops = c.simd_loops
  OBVIOUS
<1> HIDE DEF r
<1>6. TablesFit(r, N)
  <2>1. \A j : /\ FitsA(c, N, j) => FitsA(r, N, j)
               /\ FitsB(c, N, j) => FitsB(r, N, j)
    BY <1>5 DEF FitsA, FitsB
  <2>2. TablesFit(c, N)
    BY <1>2 DEF CompOk, N
  <2> QED BY <2>1, <2>2, <1>5 DEF TablesFit
<1>7. \A k \in DOMAIN r.code : FitsFrame(r, N, fs, r.code[k])
  <2> SUFFICES ASSUME NEW k \in DOMAIN c.code PROVE FitsFrame(r, N, fs, c.code[k])
    BY <1>5
  <2>1. FitsFrame(c, N, fs, c.code[k])
    BY <1>2 DEF CompOk, CodeFits, N
  <2>2. /\ FitsA(c, N, c.code[k]) => FitsA(r, N, c.code[k])
        /\ FitsB(c, N, c.code[k]) => FitsB(r, N, c.code[k])
    BY <1>5 DEF FitsA, FitsB
  <2>3. /\ \A x : RangeIn(c, x, c.arg_regs) => RangeIn(r, x, r.arg_regs)
        /\ \A x : RangeIn(c, x, c.field_entries) => RangeIn(r, x, r.field_entries)
    BY <1>5 DEF RangeIn
  <2>4. /\ \A x \in Below(c.int_pool) : x \in Below(r.int_pool)
        /\ \A x \in Below(c.str_pool) : x \in Below(r.str_pool)
        /\ \A x \in Below(c.name_pool) : x \in Below(r.name_pool)
        /\ \A x \in Below(c.simd_loops) : x \in Below(r.simd_loops)
    BY <1>5
  <2> QED BY <2>1, <2>2, <2>3, <2>4 DEF FitsFrame
<1>8. \A k \in DOMAIN r.code : JumpsInside(r, r.code[k])
  <2> SUFFICES ASSUME NEW k \in DOMAIN c.code PROVE JumpsInside(r, c.code[k])
    BY <1>5
  <2>1. c.code[k].a \in Nat /\ c.code[k].b \in Nat
    <3>1. c.code[k] \in Instrs
      BY <1>2, ElementOfSeq
    <3> QED BY <3>1 DEF Instrs
  <2>2. /\ c.code[k].op \in {"Jmp", "BrIf"} => c.code[k].a < Len(c.code)
        /\ c.code[k].op = "BrIf" => c.code[k].b < Len(c.code)
    BY <1>2 DEF CompOk, JumpsOk, ScanOk
  <2>3. Below(r.code) = 0 .. Len(c.code) - 1
    BY <1>5 DEF Below
  <2> QED BY <2>1, <2>2, <2>3, <1>2 DEF JumpsInside
<1>9. /\ compiled \in Seq(CompiledFns) /\ Len(compiled) < fs /\ tree \in Programs /\ CodeInBounds
  BY <1>1 DEF CompilerInv
<1>10. /\ compiled' \in Seq(CompiledFns) /\ Len(compiled') = Len(compiled) + 1
       /\ \A f \in 1 .. Len(compiled) : compiled'[f] = compiled[f]
       /\ compiled'[Len(compiled) + 1] = r
  BY <1>1, <1>4, <1>9, AppendProperties
<1>11. Len(compiled) \in Nat /\ fs \in Nat /\ DOMAIN compiled = 1 .. Len(compiled)
       /\ DOMAIN compiled' = 1 .. Len(compiled) + 1
  BY <1>9, <1>10, TreeIs, LenProperties
<1>12. CodeInBounds'
  <2>1. tree' = tree
    BY <1>1
  <2>2. ASSUME NEW f \in DOMAIN compiled'
        PROVE  /\ TablesFit(compiled'[f], compiled'[f].n_regs)
               /\ \A k \in DOMAIN compiled'[f].code :
                    /\ FitsFrame(compiled'[f], compiled'[f].n_regs, fs, compiled'[f].code[k])
                    /\ JumpsInside(compiled'[f], compiled'[f].code[k])
    <3>1. CASE f = Len(compiled) + 1
      BY <3>1, <1>5, <1>6, <1>7, <1>8, <1>10
    <3>2. CASE f \in 1 .. Len(compiled)
      <4>1. compiled'[f] = compiled[f] /\ f \in DOMAIN compiled
        BY <3>2, <1>10, <1>11
      <4> QED BY <4>1, <1>9 DEF CodeInBounds
    <3> QED BY <3>1, <3>2, <1>11
  <2> QED BY <2>1, <2>2 DEF CodeInBounds
<1>13. Len(compiled') <= Len(tree'.functions) /\ tree' \in Programs /\ ret' = <<>>
  BY <1>1, <1>9, <1>10, <1>11 DEF CompilerInv
<1> QED BY <1>1, <1>10, <1>12, <1>13 DEF CompilerInv

LEMMA CompilingKeeps ==
  ASSUME CompilerInv, NEW p \in Programs, Compiling(p)
  PROVE  CompilerInv'
<1>1. /\ phase = "idle" /\ phase' = "function" /\ tree' = p /\ compiled = <<>>
      /\ UNCHANGED <<compiled, ret>> /\ ret = <<>>
  BY DEF Compiling, CompilerInv
<1>2. Len(p.functions) \in Nat
  BY TreeIs
<1>3. CodeInBounds' /\ compiled' \in Seq(CompiledFns) /\ Len(compiled') = 0
  BY <1>1 DEF CodeInBounds
<1> QED BY <1>1, <1>2, <1>3 DEF CompilerInv

LEMMA NewCompilerIs ==
  ASSUME NEW n \in Nat, NEW fs
  PROVE  CompOk(NewCompiler, n, fs) /\ NewCompiler \in Compilers
<1>1. <<>> \in [{} -> Nat] /\ <<>> \in LabelMaps
  <2>1. <<>> \in [{} -> Nat] /\ {} \in SUBSET STRING
    OBVIOUS
  <2> QED BY <2>1 DEF LabelMaps
<1>2. NewCompiler \in Compilers
  BY <1>1 DEF NewCompiler, Compilers
<1>3. DOMAIN <<>> = {}
  OBVIOUS
<1>4. TablesFit(NewCompiler, NumRegs(n, NewCompiler))
  BY <1>3 DEF NewCompiler, TablesFit
<1>5. CodeFits(NewCompiler, n, fs) /\ JumpsOk(NewCompiler) /\ PatchesOk(NewCompiler)
  BY <1>3 DEF NewCompiler, CodeFits, JumpsOk, PatchesOk
<1> QED BY <1>2, <1>4, <1>5 DEF CompOk

LEMMA BeginFunctionKeeps ==
  ASSUME CompilerInv, BeginFunction
  PROVE  CompilerInv'
<1>1. phase = "function" /\ UNCHANGED <<tree, compiled, ret>> /\ ret = <<>>
  BY DEF BeginFunction, CompilerInv
<1>2. CodeInBounds'
  BY <1>1 DEF CompilerInv, CodeInBounds
<1>3. tree \in Programs /\ compiled \in Seq(CompiledFns) /\ Len(compiled) <= Len(tree.functions)
  BY <1>1 DEF CompilerInv
<1>4. CASE Len(compiled) = Len(tree.functions)
  <2>1. phase' = "done"
    BY <1>4 DEF BeginFunction
  <2> QED BY <2>1, <1>1, <1>2 DEF CompilerInv
<1>5. CASE Len(compiled) # Len(tree.functions)
  <2> DEFINE fn == Fn
             e == Node("body", "", 0, fn.body)
             g == Opened(e, 0, TRUE, NewCompiler)
  <2>1. phase' = "body" /\ comp' = NewCompiler /\ calls' = <<g>>
    BY <1>5 DEF BeginFunction
  <2>2. Len(compiled) < Len(tree.functions)
    BY <1>3, <1>5, TreeIs, LenProperties
  <2>3. Len(compiled) + 1 \in 1 .. Len(tree.functions)
    BY <2>2, <1>3, TreeIs, LenProperties
  <2>4. WellFormed(fn) /\ fn.n_regs \in Nat
    BY <2>3, <1>3, TreeIs DEF Fn, WellFormed
  <2> HIDE DEF fn
  <2>5. CompOk(NewCompiler, fn.n_regs, Len(tree.functions)) /\ NewCompiler \in Compilers
    BY <2>4, NewCompilerIs
  <2>6. e \in Bodies(fn) /\ e.k = "body"
    BY DEF Bodies, Node
  <2> HIDE DEF e
  <2>7. g \in Frames(fn) /\ FrameOk(g, NewCompiler, fn.n_regs)
    BY <2>4, <2>5, <2>6, OpenedOk, GrowsSame DEF StmtKinds
  <2> HIDE DEF g
  <2>8. CallsOk(calls', ret', comp', fn)
    <3>1. <<g>> \in Seq(Frames(fn)) /\ Len(<<g>>) = 1 /\ <<g>>[1] = g /\ <<g>> # <<>>
      BY <2>7
    <3> QED BY <3>1, <2>1, <2>7, <1>1 DEF CallsOk
  <2>9. RetOk(ret', comp', fn.n_regs)
    BY <1>1 DEF RetOk
  <2>10. Fn' = Fn
    BY <1>1 DEF Fn
  <2> QED BY <2>1, <2>2, <2>5, <2>8, <2>9, <2>10, <1>1, <1>2, <1>3 DEF CompilerInv, fn
<1> QED BY <1>4, <1>5

-----------------------------------------------------------------------------
LEMMA CompilerInitIs ==
  ASSUME CompilerInit
  PROVE  CompilerInv
BY DEF CompilerInit, CompilerInv, CodeInBounds

LEMMA CompilerStutters ==
  ASSUME CompilerInv, UNCHANGED compilerVars
  PROVE  CompilerInv'
<1>1. UNCHANGED <<tree, compiled, phase, comp, calls, ret, scan>>
  BY DEF compilerVars
<1>2. Fn' = Fn /\ CodeInBounds'
  BY <1>1 DEF Fn, CompilerInv, CodeInBounds
<1> QED BY <1>1, <1>2 DEF CompilerInv

LEMMA CompilerNextKeeps ==
  ASSUME CompilerInv, CompilerNext
  PROVE  CompilerInv'
<1>1. CASE BeginFunction
  BY <1>1, BeginFunctionKeeps
<1>2. CASE Operand
  BY <1>2, OperandKeeps
<1>3. CASE Enter
  BY <1>3, EnterKeeps
<1>4. CASE Receive
  BY <1>4, ReceiveKeeps
<1>5. CASE Leave
  BY <1>5, LeaveKeeps
<1>6. CASE EndBody
  BY <1>6, EndBodyKeeps
<1>7. CASE ApplyPatch
  BY <1>7, ApplyPatchKeeps
<1>8. CASE EndPatches
  BY <1>8, EndPatchesKeeps
<1>9. CASE SkipInstr
  BY <1>9, SkipInstrKeeps
<1>10. CASE BeginSimdLoop
  BY <1>10, BeginSimdLoopKeeps
<1>11. CASE MoveInstr
  BY <1>11, MoveInstrKeeps
<1>12. CASE Finish
  BY <1>12, FinishKeeps
<1>13. CASE \E p \in Programs : Compiling(p)
  BY <1>13, CompilingKeeps
<1> QED BY <1>1, <1>2, <1>3, <1>4, <1>5, <1>6, <1>7, <1>8, <1>9, <1>10, <1>11, <1>12, <1>13
  DEF CompilerNext, CompilerStep

(* The invariant of the compiler: whatever it has of a function fits, and  *)
(* so do the calls of compile_expr and compile_stmt that are still open.   *)
THEOREM CompilerInvariant == CompilerSpec => []CompilerInv
<1>1. CompilerInit => CompilerInv
  BY CompilerInitIs
<1>2. CompilerInv /\ [CompilerNext]_compilerVars => CompilerInv'
  BY CompilerNextKeeps, CompilerStutters
<1> QED BY <1>1, <1>2, PTL DEF CompilerSpec

(* The Rust machine never needs the bounds checks it leaves out: every     *)
(* register, constant, name, argument range, callee and jump of the code   *)
(* that Compiler::finish returns is inside its table, for every program.   *)
THEOREM CodeAlwaysInBounds == CompilerSpec => []CodeInBounds
<1>1. CompilerInv => CodeInBounds
  BY DEF CompilerInv
<1> QED BY <1>1, CompilerInvariant, PTL

-----------------------------------------------------------------------------
(* The emitter for QBE: every temporary that is anywhere in it, in the     *)
(* environment or with an open call, is defined in the code so far.        *)
Constants == {"const", "none", "param", "func", "str", "loop", "lbody", "lend"}
Vals == [k : Constants \cup {"temp"}, s : STRING \cup {""}, n : Int]
IrOps ==
  {"add", "sub", "mul", "div", "csltw", "csgtw", "ceqw", "copy", "loadl", "storel", "alloc8",
   "call", "ret", "jmp", "jnz", "label"}
IrTypes == {"", "w", "l"}
Irs == [op : IrOps, dst : Nat \cup {-1}, ty : IrTypes, args : Seq(Vals)]
Emitters == [strings : Seq(STRING), tmp : Nat, code : Seq(Irs), env : Seq(Vals), loops : Nat]
EmittedFns == [name : STRING, ty : IrTypes, code : Seq(Irs), params : Seq(STRING)]
IrFrames(fn) == [e : Bodies(fn), stmt : BOOLEAN, got : Seq(Vals), own : Vals]

\* If operand o is a temporary, an instruction before number k defines it.
DefinedBefore(code, k, o) == o.k = "temp" => \E d \in 1 .. k - 1 : code[d].dst = o.n
Defined(code, o) == DefinedBefore(code, Len(code) + 1, o)

Single(code) == \A k \in DOMAIN code :
  /\ \A j \in DOMAIN code : code[k].dst # -1 /\ code[k].dst = code[j].dst => k = j
  /\ \A a \in DOMAIN code[k].args : DefinedBefore(code, k, code[k].args[a])

Between(code, low, high) == \A k \in DOMAIN code :
  code[k].dst = -1 \/ (low <= code[k].dst /\ code[k].dst < high)

Disjoint(code, other) == \A k \in DOMAIN code, j \in DOMAIN other :
  code[k].dst # -1 => code[k].dst # other[j].dst

EmitterOk(q, low) ==
  /\ q \in Emitters /\ low <= q.tmp
  /\ Single(q.code) /\ Between(q.code, low, q.tmp)
  /\ \A r \in DOMAIN q.env : Defined(q.code, q.env[r])

EmittedOk(fs, high) ==
  /\ fs \in Seq(EmittedFns)
  /\ \A f \in DOMAIN fs : Single(fs[f].code) /\ Between(fs[f].code, 0, high)
  /\ \A f, g \in DOMAIN fs : f # g => Disjoint(fs[f].code, fs[g].code)

Usable(q, o) == o \in Vals /\ Defined(q.code, o)
AllUsable(q, os) == os \in Seq(Vals) /\ \A j \in DOMAIN os : Defined(q.code, os[j])

IrFrameOk(f, q) ==
  /\ f.e.k \in IF f.stmt THEN StmtKinds \cup {"body"} ELSE ExprKinds
  /\ ~Refused(f.e)
  /\ Len(f.got) <= NumCalls(f.e)
  /\ Usable(q, f.own) /\ AllUsable(q, f.got)

OpenOk(os, v, q, fn) ==
  /\ os \in Seq(IrFrames(fn)) /\ os # <<>>
  /\ \A i \in 1 .. Len(os) :
       /\ IrFrameOk(os[i], q)
       /\ i < Len(os) \/ v # <<>> => Len(os[i].got) < NumCalls(os[i].e)
       /\ os[i].e.k = "body" => i = 1

ValueOk(v, q) == v = <<>> \/ \E o : v = <<o>> /\ Usable(q, o)

QbeInv ==
  /\ mode \in {"idle", "function", "body", "emitted", "refused"}
  /\ mode = "idle" => emitted = <<>>
  /\ mode # "idle" => input \in Programs /\ Len(emitted) <= Len(input.functions)
  /\ emitter \in Emitters
  /\ EmittedOk(emitted, emitter.tmp)
  /\ mode # "body" => value = <<>>
  /\ mode = "body" =>
       /\ Len(emitted) < Len(input.functions)
       /\ \E low \in Nat : EmittedOk(emitted, low) /\ EmitterOk(emitter, low)
       /\ Len(emitter.env) = Emitting.n_regs
       /\ OpenOk(open, value, emitter, Emitting)
       /\ ValueOk(value, emitter)

-----------------------------------------------------------------------------
LEMMA EmitterIs ==
  ASSUME NEW q \in Emitters
  PROVE  /\ q.strings \in Seq(STRING) /\ q.tmp \in Nat /\ q.code \in Seq(Irs)
         /\ q.env \in Seq(Vals) /\ q.loops \in Nat /\ Len(q.code) \in Nat
         /\ DOMAIN q.code = 1 .. Len(q.code) /\ DOMAIN q.env = 1 .. Len(q.env)
         /\ Len(q.strings) \in Nat
BY LenProperties DEF Emitters

\* What is no temporary needs no definition.
LEMMA ConstantsAreUsable ==
  ASSUME NEW q
  PROVE  /\ \A k \in Constants, s \in STRING, n \in Int : Usable(q, IrOperand(k, s, n))
         /\ \A n \in Int : Usable(q, Number(n))
         /\ \A k \in Constants, n \in Int : Usable(q, Label(k, n))
         /\ Usable(q, Nothing)
<1>1. ASSUME NEW k \in Constants, NEW s \in STRING \cup {""}, NEW n \in Int
      PROVE  Usable(q, IrOperand(k, s, n))
  <2>1. IrOperand(k, s, n) \in Vals /\ IrOperand(k, s, n).k = k
    BY DEF IrOperand, Vals
  <2>2. k # "temp"
    BY DEF Constants
  <2> QED BY <2>1, <2>2 DEF Usable, Defined, DefinedBefore
<1>2. "const" \in Constants /\ "none" \in Constants /\ 0 \in Int
  BY DEF Constants
<1>3. \A n \in Int : Usable(q, Number(n))
  BY <1>1, <1>2 DEF Number
<1>4. \A k \in Constants, n \in Int : Usable(q, Label(k, n))
  BY <1>1 DEF Label
<1>5. Usable(q, Nothing)
  BY <1>1, <1>2 DEF Nothing
<1> QED BY <1>1, <1>3, <1>4, <1>5

LEMMA TempIs ==
  ASSUME NEW n \in Int
  PROVE  Temp(n) \in Vals
BY DEF Temp, IrOperand, Vals

LEMMA ListsAre ==
  ASSUME NEW q
  PROVE  /\ AllUsable(q, <<>>)
         /\ \A a : Usable(q, a) => AllUsable(q, <<a>>)
         /\ \A a, b : Usable(q, a) /\ Usable(q, b) => AllUsable(q, <<a, b>>)
         /\ \A a, b, c : Usable(q, a) /\ Usable(q, b) /\ Usable(q, c) => AllUsable(q, <<a, b, c>>)
<1>1. AllUsable(q, <<>>)
  BY DEF AllUsable
<1>2. \A a : Usable(q, a) => AllUsable(q, <<a>>)
  <2> SUFFICES ASSUME NEW a, Usable(q, a) PROVE AllUsable(q, <<a>>)
    OBVIOUS
  <2>1. <<a>> \in Seq(Vals) /\ DOMAIN <<a>> = {1} /\ <<a>>[1] = a
    BY DEF Usable
  <2> QED BY <2>1 DEF AllUsable, Usable
<1>3. \A a, b : Usable(q, a) /\ Usable(q, b) => AllUsable(q, <<a, b>>)
  <2> SUFFICES ASSUME NEW a, NEW b, Usable(q, a), Usable(q, b) PROVE AllUsable(q, <<a, b>>)
    OBVIOUS
  <2>1. <<a, b>> \in Seq(Vals) /\ DOMAIN <<a, b>> = {1, 2} /\ <<a, b>>[1] = a /\ <<a, b>>[2] = b
    BY DEF Usable
  <2> QED BY <2>1 DEF AllUsable, Usable
<1>4. \A a, b, c : Usable(q, a) /\ Usable(q, b) /\ Usable(q, c) => AllUsable(q, <<a, b, c>>)
  <2> SUFFICES ASSUME NEW a, NEW b, NEW c, Usable(q, a), Usable(q, b), Usable(q, c)
               PROVE  AllUsable(q, <<a, b, c>>)
    OBVIOUS
  <2>1. /\ <<a, b, c>> \in Seq(Vals) /\ DOMAIN <<a, b, c>> = {1, 2, 3}
        /\ <<a, b, c>>[1] = a /\ <<a, b, c>>[2] = b /\ <<a, b, c>>[3] = c
    BY DEF Usable
  <2> QED BY <2>1 DEF AllUsable, Usable
<1> QED BY <1>1, <1>2, <1>3, <1>4

\* r is q with more code, perhaps: what is defined stays so.
Follows(q, r, low) ==
  /\ EmitterOk(r, low) /\ q.tmp <= r.tmp /\ Len(r.env) = Len(q.env)
  /\ \A o : Defined(q.code, o) => Defined(r.code, o)

LEMMA FollowsSame ==
  ASSUME NEW low \in Nat, NEW q, EmitterOk(q, low)
  PROVE  Follows(q, q, low)
BY EmitterIs DEF Follows, EmitterOk

LEMMA FollowsTwice ==
  ASSUME NEW low \in Nat, NEW q \in Emitters, NEW r, NEW s,
         Follows(q, r, low), Follows(r, s, low)
  PROVE  Follows(q, s, low)
<1>1. r \in Emitters /\ s \in Emitters
  BY DEF Follows, EmitterOk
<1> QED BY <1>1, EmitterIs DEF Follows

LEMMA UsableStays ==
  ASSUME NEW low, NEW q, NEW r, Follows(q, r, low)
  PROVE  /\ \A o : Usable(q, o) => Usable(r, o)
         /\ \A os : AllUsable(q, os) => AllUsable(r, os)
BY DEF Follows, Usable, AllUsable

(* One instruction more, whose operands are defined: it defines nothing or *)
(* the next temporary.                                                     *)
LEMMA OneMore ==
  ASSUME NEW low \in Nat, NEW q, EmitterOk(q, low), NEW i \in Irs,
         \A a \in DOMAIN i.args : Defined(q.code, i.args[a]),
         NEW tmp \in Nat, (i.dst = -1 /\ tmp = q.tmp) \/ (i.dst = q.tmp /\ tmp = q.tmp + 1)
  PROVE  LET r == [q EXCEPT !.code = Append(@, i), !.tmp = tmp]
         IN  Follows(q, r, low) /\ Defined(r.code, Temp(i.dst))
<1> DEFINE r == [q EXCEPT !.code = Append(@, i), !.tmp = tmp]
           n == Len(q.code)
<1>1. /\ q \in Emitters /\ low <= q.tmp /\ Single(q.code) /\ Between(q.code, low, q.tmp)
      /\ \A x \in DOMAIN q.env : Defined(q.code, q.env[x])
  BY DEF EmitterOk
<1>2. /\ n \in Nat /\ DOMAIN q.code = 1 .. n /\ q.code \in Seq(Irs) /\ q.tmp \in Nat
      /\ q.env \in Seq(Vals)
  BY <1>1, EmitterIs
<1>3. /\ r.code = Append(q.code, i) /\ r.tmp = tmp /\ r.env = q.env /\ r.loops = q.loops
      /\ r \in Emitters
  <2>1. Append(q.code, i) \in Seq(Irs)
    BY <1>2, AppendProperties
  <2> QED BY <2>1, <1>1 DEF Emitters
<1>4. /\ Len(r.code) = n + 1 /\ DOMAIN r.code = 1 .. n + 1 /\ r.code[n + 1] = i
      /\ \A k \in 1 .. n : r.code[k] = q.code[k]
  BY <1>2, <1>3, AppendProperties, LenProperties
<1> HIDE DEF r, n
<1>5. ASSUME NEW o, NEW k \in 1 .. n + 1, DefinedBefore(q.code, k, o)
      PROVE  DefinedBefore(r.code, k, o)
  <2> SUFFICES ASSUME o.k = "temp" PROVE \E d \in 1 .. k - 1 : r.code[d].dst = o.n
    BY DEF DefinedBefore
  <2>1. PICK d \in 1 .. k - 1 : q.code[d].dst = o.n
    BY <1>5 DEF DefinedBefore
  <2>2. d \in 1 .. n
    BY <1>2
  <2> QED BY <2>1, <2>2, <1>4
<1>6. \A o : Defined(q.code, o) => DefinedBefore(r.code, n + 1, o)
  <2>1. n + 1 \in 1 .. n + 1
    BY <1>2
  <2> QED BY <2>1, <1>5 DEF Defined, n
<1>7. \A o : DefinedBefore(r.code, n + 1, o) => Defined(r.code, o)
  <2> SUFFICES ASSUME NEW o, DefinedBefore(r.code, n + 1, o)
               PROVE  Defined(r.code, o)
    OBVIOUS
  <2>1. CASE o.k = "temp"
    <3>1. \E d \in 1 .. (n + 1) - 1 : r.code[d].dst = o.n
      BY <2>1 DEF DefinedBefore
    <3>2. 1 .. (n + 1) - 1 \subseteq 1 .. (Len(r.code) + 1) - 1
      BY <1>2, <1>4
    <3> QED BY <3>1, <3>2 DEF Defined, DefinedBefore
  <2>2. CASE o.k # "temp"
    BY <2>2 DEF Defined, DefinedBefore
  <2> QED BY <2>1, <2>2
<1>8. Between(r.code, low, tmp)
  <2> SUFFICES ASSUME NEW k \in 1 .. n + 1
               PROVE  r.code[k].dst = -1 \/ (low <= r.code[k].dst /\ r.code[k].dst < tmp)
    BY <1>4 DEF Between
  <2>1. CASE k = n + 1
    BY <2>1, <1>1, <1>2, <1>4
  <2>2. CASE k \in 1 .. n
    <3>1. r.code[k] = q.code[k] /\ k \in DOMAIN q.code
      BY <2>2, <1>2, <1>4
    <3>2. q.code[k] \in Irs
      BY <2>2, <1>2, ElementOfSeq DEF n
    <3>3. q.code[k].dst = -1 \/ (low <= q.code[k].dst /\ q.code[k].dst < q.tmp)
      BY <3>1, <1>1 DEF Between
    <3>4. q.code[k].dst \in Nat \cup {-1}
      BY <3>2 DEF Irs
    <3> QED BY <3>1, <3>3, <3>4, <1>2
  <2> QED BY <2>1, <2>2, <1>2
<1>9. Single(r.code)
  <2> SUFFICES ASSUME NEW k \in 1 .. n + 1
               PROVE  /\ \A j \in 1 .. n + 1 :
                           r.code[k].dst # -1 /\ r.code[k].dst = r.code[j].dst => k = j
                      /\ \A a \in DOMAIN r.code[k].args :
                           DefinedBefore(r.code, k, r.code[k].args[a])
    BY <1>4 DEF Single
  <2>1. ASSUME NEW k1 \in 1 .. n, i.dst # -1 PROVE r.code[k1].dst # i.dst
    <3>1. r.code[k1] = q.code[k1] /\ k1 \in DOMAIN q.code /\ q.code[k1] \in Irs
      BY <1>2, <1>4, ElementOfSeq DEF n
    <3>2. q.code[k1].dst = -1 \/ q.code[k1].dst < q.tmp
      BY <3>1, <1>1 DEF Between
    <3>3. i.dst = q.tmp /\ i.dst \in Nat
      BY <2>1, <1>2
    <3> QED BY <3>1, <3>2, <3>3, <1>2
  <2>2. ASSUME NEW j \in 1 .. n + 1, r.code[k].dst # -1, r.code[k].dst = r.code[j].dst
        PROVE  k = j
    <3>1. CASE k \in 1 .. n /\ j \in 1 .. n
      <4>1. k \in DOMAIN q.code /\ j \in DOMAIN q.code /\ r.code[k] = q.code[k]
            /\ r.code[j] = q.code[j]
        BY <3>1, <1>2, <1>4
      <4> QED BY <4>1, <2>2, <1>1 DEF Single
    <3>2. CASE k = n + 1 /\ j \in 1 .. n
      BY <3>2, <2>1, <2>2, <1>4
    <3>3. CASE k \in 1 .. n /\ j = n + 1
      BY <3>3, <2>1, <2>2, <1>4
    <3> QED BY <3>1, <3>2, <3>3, <1>2
  <2>3. ASSUME NEW a \in DOMAIN r.code[k].args
        PROVE  DefinedBefore(r.code, k, r.code[k].args[a])
    <3>1. CASE k = n + 1
      BY <3>1, <1>4, <1>6
    <3>2. CASE k \in 1 .. n
      <4>1. k \in DOMAIN q.code /\ r.code[k] = q.code[k]
        BY <3>2, <1>2, <1>4
      <4>2. DefinedBefore(q.code, k, q.code[k].args[a])
        BY <4>1, <1>1 DEF Single
      <4> QED BY <4>1, <4>2, <1>5
    <3> QED BY <3>1, <3>2, <1>2
  <2> QED BY <2>2, <2>3
<1>10. Defined(r.code, Temp(i.dst))
  <2>1. n + 1 \in 1 .. Len(r.code) + 1 - 1 /\ r.code[n + 1].dst = Temp(i.dst).n
    BY <1>2, <1>4 DEF Temp, IrOperand
  <2> QED BY <2>1 DEF Defined, DefinedBefore
<1>11. \A x \in DOMAIN r.env : Defined(r.code, r.env[x])
  BY <1>1, <1>3, <1>6, <1>7
<1>12. low <= tmp /\ q.tmp <= tmp
  BY <1>1, <1>2
<1> QED BY <1>3, <1>6, <1>7, <1>8, <1>9, <1>10, <1>11, <1>12 DEF Follows, EmitterOk, r

LEMMA IssueIs ==
  ASSUME NEW low \in Nat, NEW q, EmitterOk(q, low),
         NEW op \in IrOps, NEW args, AllUsable(q, args)
  PROVE  Follows(q, Issue(q, op, args), low)
<1> DEFINE i == Ir(op, -1, "", args)
           r == [q EXCEPT !.code = Append(@, i), !.tmp = q.tmp]
<1>1. q \in Emitters /\ q.tmp \in Nat
  BY EmitterIs DEF EmitterOk
<1>2. i \in Irs /\ i.dst = -1 /\ i.args = args
  BY DEF Ir, Irs, IrTypes, AllUsable
<1>3. r = Issue(q, op, args)
  BY <1>1 DEF Issue, Emitters
<1> HIDE DEF i
<1>4. \A a \in DOMAIN i.args : Defined(q.code, i.args[a])
  BY <1>2 DEF AllUsable
<1>5. Follows(q, r, low)
  BY <1>1, <1>2, <1>4, OneMore
<1> QED BY <1>3, <1>5

LEMMA DefineIs ==
  ASSUME NEW low \in Nat, NEW q, EmitterOk(q, low),
         NEW op \in IrOps, NEW ty \in IrTypes, NEW args, AllUsable(q, args)
  PROVE  LET r == Define(q, op, ty, args)
         IN  /\ Follows(q, r, low) /\ Usable(r, Temp(q.tmp)) /\ r.tmp = q.tmp + 1
             /\ r.env = q.env
<1> DEFINE i == Ir(op, q.tmp, ty, args)
           r == [q EXCEPT !.code = Append(@, i), !.tmp = q.tmp + 1]
<1>1. q \in Emitters /\ q.tmp \in Nat /\ q.tmp + 1 \in Nat /\ q.tmp \in Int
  BY EmitterIs DEF EmitterOk
<1>2. i \in Irs /\ i.dst = q.tmp /\ i.args = args
  BY <1>1 DEF Ir, Irs, AllUsable
<1>3. r = Define(q, op, ty, args) /\ r.tmp = q.tmp + 1 /\ r.env = q.env
  BY <1>1 DEF Define, Emitters
<1> HIDE DEF i
<1>4. \A a \in DOMAIN i.args : Defined(q.code, i.args[a])
  BY <1>2 DEF AllUsable
<1>5. Follows(q, r, low) /\ Defined(r.code, Temp(i.dst))
  BY <1>1, <1>2, <1>4, OneMore
<1> HIDE DEF r
<1>6. Usable(r, Temp(q.tmp))
  BY <1>1, <1>2, <1>5, TempIs DEF Usable
<1> QED BY <1>3, <1>5, <1>6

LEMMA StoreAtIs ==
  ASSUME NEW low \in Nat, NEW q, EmitterOk(q, low), NEW ptr, Usable(q, ptr),
         NEW offset \in Int, NEW v, Usable(q, v)
  PROVE  Follows(q, StoreAt(q, ptr, offset, v), low)
<1> DEFINE r == Define(q, "add", "l", <<ptr, Number(offset)>>)
           s == Issue(r, "storel", <<v, Temp(q.tmp)>>)
<1>1. AllUsable(q, <<ptr, Number(offset)>>)
  BY ConstantsAreUsable, ListsAre
<1>2. "add" \in IrOps /\ "storel" \in IrOps /\ "l" \in IrTypes
  BY DEF IrOps, IrTypes
<1>3. Follows(q, r, low) /\ Usable(r, Temp(q.tmp))
  BY <1>1, <1>2, DefineIs
<1>4. StoreAt(q, ptr, offset, v) = s
  BY DEF StoreAt
<1> HIDE DEF r
<1>5. AllUsable(r, <<v, Temp(q.tmp)>>)
  BY <1>3, UsableStays, ListsAre
<1>6. EmitterOk(r, low) /\ q \in Emitters
  BY <1>3 DEF Follows, EmitterOk
<1>7. Follows(r, s, low)
  BY <1>2, <1>5, <1>6, IssueIs
<1> HIDE DEF s
<1> QED BY <1>3, <1>4, <1>6, <1>7, FollowsTwice

\* Strings and loops are counted apart.
LEMMA CountsAreFree ==
  ASSUME NEW low \in Nat, NEW q, EmitterOk(q, low)
  PROVE  /\ \A n \in Nat : Follows(q, [q EXCEPT !.loops = n], low)
         /\ \A s \in Seq(STRING) : Follows(q, [q EXCEPT !.strings = s], low)
<1>1. q \in Emitters /\ q.tmp \in Nat
  BY EmitterIs DEF EmitterOk
<1>2. ASSUME NEW r \in Emitters, r.code = q.code, r.env = q.env, r.tmp = q.tmp
      PROVE  Follows(q, r, low)
  BY <1>1, <1>2 DEF EmitterOk, Follows
<1>3. ASSUME NEW n \in Nat PROVE Follows(q, [q EXCEPT !.loops = n], low)
  <2> DEFINE r == [q EXCEPT !.loops = n]
  <2>1. r \in Emitters /\ r.code = q.code /\ r.env = q.env /\ r.tmp = q.tmp
    BY <1>1 DEF Emitters
  <2> HIDE DEF r
  <2>2. Follows(q, r, low)
    BY <2>1, <1>2
  <2> QED BY <2>2 DEF r
<1>4. ASSUME NEW s \in Seq(STRING) PROVE Follows(q, [q EXCEPT !.strings = s], low)
  <2> DEFINE r == [q EXCEPT !.strings = s]
  <2>1. r \in Emitters /\ r.code = q.code /\ r.env = q.env /\ r.tmp = q.tmp
    BY <1>1 DEF Emitters
  <2> HIDE DEF r
  <2>2. Follows(q, r, low)
    BY <2>1, <1>2
  <2> QED BY <2>2 DEF r
<1> QED BY <1>3, <1>4

LEMMA EnvIs ==
  ASSUME NEW low \in Nat, NEW q, EmitterOk(q, low), NEW x \in 0 .. Len(q.env) - 1
  PROVE  /\ x + 1 \in 1 .. Len(q.env) /\ Usable(q, q.env[x + 1])
         /\ \A o : Usable(q, o) => Follows(q, [q EXCEPT !.env[x + 1] = o], low)
<1>1. /\ q \in Emitters /\ q.tmp \in Nat /\ q.env \in Seq(Vals) /\ Len(q.env) \in Nat
      /\ DOMAIN q.env = 1 .. Len(q.env)
  BY EmitterIs, LenProperties DEF EmitterOk
<1>2. x + 1 \in 1 .. Len(q.env)
  BY <1>1
<1>3. Usable(q, q.env[x + 1])
  BY <1>1, <1>2, ElementOfSeq DEF EmitterOk, Usable
<1>4. ASSUME NEW o, Usable(q, o) PROVE Follows(q, [q EXCEPT !.env[x + 1] = o], low)
  <2> DEFINE y == x + 1
             env == [q.env EXCEPT ![y] = o]
             r == [q EXCEPT !.env = env]
  <2>1. r = [q EXCEPT !.env[x + 1] = o]
    BY <1>1 DEF Emitters
  <2> HIDE DEF y
  <2>2. y \in 1 .. Len(q.env) /\ o \in Vals
    BY <1>2, <1>4 DEF y, Usable
  <2>3. /\ env \in Seq(Vals) /\ Len(env) = Len(q.env)
        /\ \A j \in 1 .. Len(q.env) : env[j] = IF j = y THEN o ELSE q.env[j]
    BY <2>2, <1>1, ExceptSeq
  <2> HIDE DEF env
  <2>4. r \in Emitters /\ r.code = q.code /\ r.env = env /\ r.tmp = q.tmp
    BY <2>3, <1>1 DEF Emitters
  <2> HIDE DEF r
  <2>5. \A j \in DOMAIN r.env : Defined(r.code, r.env[j])
    <3>1. DOMAIN r.env = 1 .. Len(q.env)
      BY <2>3, <2>4, LenProperties
    <3> QED BY <3>1, <2>3, <2>4, <1>1, <1>4 DEF EmitterOk, Usable
  <2>6. Follows(q, r, low)
    BY <2>3, <2>4, <2>5, <1>1 DEF EmitterOk, Follows
  <2> QED BY <2>1, <2>6
<1> QED BY <1>2, <1>3, <1>4

-----------------------------------------------------------------------------
(* Structs and the nodes below a node.                                     *)
LEMMA DeclaredIs ==
  ASSUME input \in Programs, NEW name, StructsNamed(name) # {}
  PROVE  Len(Declared(name)) \in Nat /\ DOMAIN Declared(name) = 1 .. Len(Declared(name))
<1> DEFINE i == CHOOSE i \in StructsNamed(name) : TRUE
<1>1. i \in StructsNamed(name)
  OBVIOUS
<1>2. i \in DOMAIN input.structs
  BY <1>1 DEF StructsNamed
<1>3. Declared(name) = input.structs[i].args
  BY DEF Declared
<1> HIDE DEF i
<1> QED BY <1>2, <1>3, TreeAssumption DEF IsTable

LEMMA CallsAre ==
  ASSUME input \in Programs, NEW fn, WellFormed(fn), NEW e \in Bodies(fn), ~Refused(e)
  PROVE  /\ NumCalls(e) \in Nat
         /\ \A j \in 1 .. NumCalls(e) :
              /\ Callee(e, j) \in Parts(fn)
              /\ Callee(e, j).k \in (IF e.k = "body" \/ (e.k = "while" /\ j > 1) THEN StmtKinds
                                     ELSE ExprKinds)
<1>1. CASE e.k # "StructLit"
  <2>1. NumCalls(e) = NumKids(e) /\ \A j : Callee(e, j) = Kid(e, j)
    BY <1>1 DEF NumCalls, Callee
  <2> QED BY <2>1, KidsAre
<1>2. CASE e.k = "StructLit"
  <2>1. StructsNamed(e.s) # {} /\ \A i \in DOMAIN Declared(e.s) :
          FirstNamed(e.args, Declared(e.s)[i].s) # {}
    BY <1>2 DEF Refused
  <2>2. Len(Declared(e.s)) \in Nat /\ DOMAIN Declared(e.s) = 1 .. Len(Declared(e.s))
    BY <2>1, DeclaredIs
  <2>3. NumCalls(e) = Len(Declared(e.s))
    BY <1>2 DEF NumCalls
  <2>4. e \in Parts(fn)
    <3>1. Node("body", "", 0, fn.body).k = "body"
      BY DEF Node
    <3> QED BY <3>1, <1>2 DEF Bodies
  <2>5. NumKids(e) = Len(e.args) /\ DOMAIN e.args = 1 .. Len(e.args)
    BY <1>2, <2>4, PartIs, LenProperties DEF NumKids, Binary
  <2>6. ASSUME NEW j \in 1 .. NumCalls(e)
        PROVE  Callee(e, j) \in Parts(fn) /\ Callee(e, j).k \in ExprKinds
    <3> DEFINE i == CHOOSE i \in FirstNamed(e.args, Declared(e.s)[j].s) : TRUE
    <3>1. i \in FirstNamed(e.args, Declared(e.s)[j].s)
      BY <2>1, <2>2, <2>3
    <3>2. i \in 1 .. NumKids(e)
      BY <3>1, <2>5 DEF FirstNamed
    <3>3. Callee(e, j) = Kid(e, i)
      BY <1>2 DEF Callee
    <3> HIDE DEF i
    <3> QED BY <3>2, <3>3, <1>2, KidsAre
  <2> QED BY <2>2, <2>3, <2>6, <1>2
<1> QED BY <1>1, <1>2

\* Of the structs of one name there is a last one.
LEMMA LastStructIs ==
  ASSUME input \in Programs, NEW d \in ToSet(input.structs)
  PROVE  StructsNamed(d.s) # {}
<1> DEFINE ss == input.structs
           n == Len(ss)
           Behind == {n - i : i \in {j \in DOMAIN ss : ss[j].s = d.s}}
           R == OpToRel(<, Nat)
<1>1. n \in Nat /\ DOMAIN ss = 1 .. n
  BY TreeAssumption DEF IsTable
<1>2. Behind \subseteq Nat
  BY <1>1
<1>3. Behind # {}
  BY DEF ToSet
<1>4. R = {p \in Nat \X Nat : p[1] < p[2]}
  BY DEF OpToRel
<1>5. IsWellFoundedOn(R, Nat)
  BY NatLessThanWellFounded
<1> HIDE DEF R
<1>6. PICK m \in Behind : \A k \in Behind : ~(<<k, m>> \in R)
  BY <1>2, <1>3, <1>5, WFMin
<1>7. \A k \in Behind : ~(k < m)
  BY <1>2, <1>4, <1>6
<1>8. PICK i \in DOMAIN ss : ss[i].s = d.s /\ m = n - i
  BY <1>6
<1>9. \A j \in i + 1 .. n : ss[j].s # d.s
  <2> SUFFICES ASSUME NEW j \in i + 1 .. n, ss[j].s = d.s PROVE FALSE
    OBVIOUS
  <2>1. i \in 1 .. n /\ j \in 1 .. n /\ n - j < n - i
    BY <1>1, <1>8
  <2>2. n - j \in Behind
    BY <2>1, <1>1
  <2> QED BY <2>1, <2>2, <1>7, <1>8
<1> QED BY <1>8, <1>9 DEF StructsNamed

LEMMA OffsetsAre ==
  ASSUME input \in Programs, NEW field
  PROVE  Offsets(field) \subseteq Int
<1> SUFFICES ASSUME NEW o \in Offsets(field) PROVE o \in Int
  OBVIOUS
<1>1. PICK d \in ToSet(input.structs) : \E i \in FirstNamed(Declared(d.s), field) : o = (i - 1) * 8
  BY DEF Offsets
<1>2. PICK i \in FirstNamed(Declared(d.s), field) : o = (i - 1) * 8
  BY <1>1
<1>3. DOMAIN Declared(d.s) = 1 .. Len(Declared(d.s)) /\ Len(Declared(d.s)) \in Nat
  BY LastStructIs, DeclaredIs
<1>4. i \in 1 .. Len(Declared(d.s))
  BY <1>2, <1>3 DEF FirstNamed
<1> QED BY <1>2, <1>3, <1>4

-----------------------------------------------------------------------------
(* What a call emits when it begins, gets an operand and ends.             *)
LEMMA BeginIs ==
  ASSUME NEW low \in Nat, NEW q, EmitterOk(q, low), input \in Programs,
         NEW fn, WellFormed(fn), NEW e \in Parts(fn), ~Refused(e), NEW own \in Notes(e, q)
  PROVE  Follows(q, Begin(e, q), low) /\ Usable(Begin(e, q), own)
<1>1. q \in Emitters /\ q.loops \in Nat /\ q.loops \in Int /\ q.loops + 1 \in Nat
  BY EmitterIs DEF EmitterOk
<1>2. CASE e.k = "StructLit"
  <2> DEFINE args == <<Number(8 * Len(Declared(e.s)))>>
  <2>1. Begin(e, q) = Define(q, "alloc8", "l", args) /\ own = Temp(q.tmp)
    BY <1>2 DEF Begin, Notes
  <2>2. StructsNamed(e.s) # {}
    BY <1>2 DEF Refused
  <2>3. 8 * Len(Declared(e.s)) \in Int
    BY <2>2, DeclaredIs
  <2>4. AllUsable(q, args)
    BY <2>3, ConstantsAreUsable, ListsAre
  <2> HIDE DEF args
  <2>5. "alloc8" \in IrOps /\ "l" \in IrTypes
    BY DEF IrOps, IrTypes
  <2> QED BY <2>1, <2>4, <2>5, DefineIs
<1>3. CASE e.k = "while"
  <2> DEFINE r == [q EXCEPT !.loops = q.loops + 1]
             args == <<Label("loop", q.loops)>>
  <2>1. r = [q EXCEPT !.loops = @ + 1]
    BY <1>1 DEF Emitters
  <2>2. Begin(e, q) = Issue(r, "label", args) /\ own = Number(q.loops)
    BY <1>3, <2>1 DEF Begin, Notes
  <2>3. Follows(q, r, low)
    BY <1>1, CountsAreFree
  <2> HIDE DEF r
  <2>4. "label" \in IrOps /\ "loop" \in Constants
    BY DEF IrOps, Constants
  <2>5. AllUsable(r, args)
    BY <1>1, <2>4, ConstantsAreUsable, ListsAre
  <2> HIDE DEF args
  <2>6. Follows(r, Issue(r, "label", args), low)
    BY <2>3, <2>4, <2>5, IssueIs DEF Follows
  <2>7. Follows(q, Begin(e, q), low)
    BY <1>1, <2>2, <2>3, <2>6, FollowsTwice
  <2> QED BY <1>1, <2>2, <2>7, ConstantsAreUsable
<1>4. CASE e.k \notin {"StructLit", "while"}
  <2>1. Begin(e, q) = q
    BY <1>4 DEF Begin
  <2>2. Usable(q, own)
    <3>1. CASE e.k = "set"
      <4>1. own \in {Number(o) : o \in Offsets(e.s)}
        BY <3>1 DEF Notes
      <4> QED BY <4>1, OffsetsAre, ConstantsAreUsable
    <3>2. CASE e.k # "set"
      <4>1. own = Nothing
        BY <1>4, <3>2 DEF Notes
      <4> QED BY <4>1, ConstantsAreUsable
    <3> QED BY <3>1, <3>2
  <2> QED BY <2>1, <2>2, FollowsSame
<1> QED BY <1>2, <1>3, <1>4

LEMMA OwnIs ==
  ASSUME NEW q, NEW o, Usable(q, o)
  PROVE  o.n \in Int
BY DEF Usable, Vals

LEMMA ProceedIs ==
  ASSUME NEW low \in Nat, NEW q, EmitterOk(q, low), NEW f, IrFrameOk(f, q), NEW v, Usable(q, v)
  PROVE  Follows(q, Proceed(f, q, v), low)
<1>1. q \in Emitters /\ Usable(q, f.own) /\ f.own.n \in Int /\ Len(f.got) \in Nat
  BY OwnIs, LenProperties DEF EmitterOk, IrFrameOk, AllUsable
<1>2. CASE f.e.k = "StructLit"
  <2>1. Proceed(f, q, v) = StoreAt(q, f.own, 8 * Len(f.got), v)
    BY <1>2 DEF Proceed
  <2>2. 8 * Len(f.got) \in Int
    BY <1>1
  <2> QED BY <1>1, <2>1, <2>2, StoreAtIs
<1>3. CASE f.e.k = "while" /\ f.got = <<>>
  <2> DEFINE body == Label("lbody", f.own.n)
             args == <<v, body, Label("lend", f.own.n)>>
             r == Issue(q, "jnz", args)
  <2>1. Proceed(f, q, v) = Issue(r, "label", <<body>>)
    BY <1>3 DEF Proceed
  <2>2. "jnz" \in IrOps /\ "label" \in IrOps /\ "lbody" \in Constants /\ "lend" \in Constants
    BY DEF IrOps, Constants
  <2>3. AllUsable(q, args)
    BY <1>1, <2>2, ConstantsAreUsable, ListsAre
  <2> HIDE DEF args
  <2>4. Follows(q, r, low)
    BY <2>2, <2>3, IssueIs
  <2> HIDE DEF r
  <2>5. AllUsable(r, <<body>>)
    BY <1>1, <2>2, ConstantsAreUsable, ListsAre
  <2> HIDE DEF body
  <2>6. Follows(r, Issue(r, "label", <<body>>), low)
    BY <2>2, <2>4, <2>5, IssueIs DEF Follows
  <2> QED BY <1>1, <2>1, <2>4, <2>6, FollowsTwice
<1>4. CASE f.e.k # "StructLit" /\ ~(f.e.k = "while" /\ f.got = <<>>)
  <2>1. Proceed(f, q, v) = q
    BY <1>4 DEF Proceed
  <2> QED BY <2>1, FollowsSame
<1> QED BY <1>2, <1>3, <1>4

\* The kinds that are not refused.
Emittable == Binary \cup
  {"Reg", "const", "StructLit", "Int", "Named", "Str", "Field", "alloc", "call", "assign", "set",
   "ret", "while"}

LEMMA EmittableIs ==
  ASSUME NEW e, ~Refused(e), e.k \in ExprKinds \cup StmtKinds
  PROVE  e.k \in Emittable
BY DEF Refused, ExprKinds, StmtKinds, Emittable

\* A call that has all its operands leaves a usable operand behind.
Ends(f, q, low) == Follows(q, Finished(f, q), low) /\ Usable(Finished(f, q), Holds(f, q))

LEMMA OneDefined ==
  ASSUME NEW low \in Nat, NEW q, NEW r, Follows(q, r, low), r.tmp = q.tmp,
         NEW op \in IrOps, NEW ty \in IrTypes, NEW args, AllUsable(r, args)
  PROVE  LET s == Define(r, op, ty, args)
         IN  Follows(q, s, low) /\ Usable(s, Temp(q.tmp))
<1> DEFINE s == Define(r, op, ty, args)
<1>1. EmitterOk(r, low)
  BY DEF Follows
<1>2. Follows(r, s, low) /\ Usable(s, Temp(q.tmp))
  BY <1>1, DefineIs
<1> HIDE DEF s
<1>3. Follows(q, s, low)
  <2>1. Len(s.env) = Len(q.env) /\ q.tmp <= s.tmp /\ EmitterOk(s, low)
    BY <1>2 DEF Follows
  <2>2. \A o : Defined(q.code, o) => Defined(s.code, o)
    BY <1>2 DEF Follows
  <2> QED BY <2>1, <2>2 DEF Follows
<1> QED BY <1>2, <1>3 DEF s

LEMMA HoldsTemp ==
  ASSUME NEW f, NEW q, NEW r, f.stmt \in BOOLEAN,
         f.e.k \notin {"Reg", "const", "StructLit", "Field"}, Usable(r, Temp(q.tmp))
  PROVE  Usable(r, Holds(f, q))
<1>1. CASE f.stmt
  <2>1. Holds(f, q) = Nothing
    BY <1>1 DEF Holds
  <2> QED BY <2>1, ConstantsAreUsable
<1>2. CASE ~f.stmt
  <2>1. Holds(f, q) = Temp(q.tmp)
    BY <1>2 DEF Holds
  <2> QED BY <2>1
<1> QED BY <1>1, <1>2

LEMMA HoldsNothing ==
  ASSUME NEW f, NEW q, NEW r, f.stmt
  PROVE  Usable(r, Holds(f, q))
<1>1. Holds(f, q) = Nothing
  BY DEF Holds
<1> QED BY <1>1, ConstantsAreUsable

-----------------------------------------------------------------------------
LEMMA ConstantEnds ==
  ASSUME NEW low \in Nat, NEW q, EmitterOk(q, low), NEW fn, WellFormed(fn),
         NEW f, f.e \in Parts(fn), f.stmt \in BOOLEAN, f.e.k \in {"Int", "Named", "Str"}
  PROVE  Ends(f, q, low)
<1>1. q \in Emitters /\ q.strings \in Seq(STRING)
  BY EmitterIs DEF EmitterOk
<1>2. "copy" \in IrOps /\ "w" \in IrTypes /\ "l" \in IrTypes /\ "str" \in Constants
  BY DEF IrOps, IrTypes, Constants
<1>3. f.e.n \in Int /\ f.e.s \in STRING
  BY PartIs
<1>4. CASE f.e.k \in {"Int", "Named"}
  <2>1. PICK n \in Int : Finished(f, q) = Define(q, "copy", "w", <<Number(n)>>)
    <3>1. CASE f.e.k = "Int"
      <4>1. Finished(f, q) = Define(q, "copy", "w", <<Number(f.e.n)>>)
        BY <3>1 DEF Finished, Binary
      <4> QED BY <4>1, <1>3
    <3>2. CASE f.e.k = "Named"
      <4> DEFINE n == IF f.e.s = "READ" THEN 0 ELSE 1
      <4>1. Finished(f, q) = Define(q, "copy", "w", <<Number(n)>>)
        BY <3>2 DEF Finished, Binary
      <4>2. n \in Int
        OBVIOUS
      <4> QED BY <4>1, <4>2
    <3> QED BY <3>1, <3>2, <1>4
  <2>2. AllUsable(q, <<Number(n)>>)
    BY ConstantsAreUsable, ListsAre
  <2>3. Follows(q, Finished(f, q), low) /\ Usable(Finished(f, q), Temp(q.tmp))
    BY <2>1, <2>2, <1>2, DefineIs
  <2> QED BY <2>3, <1>4, HoldsTemp DEF Ends
<1>5. CASE f.e.k = "Str"
  <2> DEFINE kept == With(q.strings, f.e.s)
             r == [q EXCEPT !.strings = kept]
             n == IndexOf(kept, f.e.s)
             args == <<Label("str", n)>>
  <2>1. Finished(f, q) = Define(r, "copy", "l", args)
    BY <1>5 DEF Finished, Binary
  <2>2. kept \in Seq(STRING) /\ n \in Int
    BY <1>1, <1>3, WithIs DEF Below
  <2> HIDE DEF kept, n
  <2>3. Follows(q, r, low) /\ r.tmp = q.tmp
    BY <1>1, <2>2, CountsAreFree DEF Emitters
  <2> HIDE DEF r
  <2>4. AllUsable(r, args)
    BY <1>2, <2>2, ConstantsAreUsable, ListsAre
  <2> HIDE DEF args
  <2>5. Follows(q, Finished(f, q), low) /\ Usable(Finished(f, q), Temp(q.tmp))
    BY <2>1, <2>3, <2>4, <1>2, OneDefined
  <2> QED BY <2>5, <1>5, HoldsTemp DEF Ends
<1> QED BY <1>4, <1>5

LEMMA FieldEnds ==
  ASSUME NEW low \in Nat, NEW q, EmitterOk(q, low), NEW f, f.stmt = FALSE, f.e.k = "Field",
         f.e.args[1].n \in 0 .. Len(q.env) - 1
  PROVE  Ends(f, q, low)
<1> DEFINE base == q.env[f.e.args[1].n + 1]
           r == Define(q, "add", "l", <<base, Number(0)>>)
           s == Define(r, "loadl", "l", <<Temp(q.tmp)>>)
<1>1. Finished(f, q) = s /\ Holds(f, q) = Temp(q.tmp + 1)
  BY DEF Finished, Holds, Binary
<1>2. "add" \in IrOps /\ "loadl" \in IrOps /\ "l" \in IrTypes
  BY DEF IrOps, IrTypes
<1>3. Usable(q, base) /\ 0 \in Int
  BY EnvIs
<1> HIDE DEF base
<1>7. AllUsable(q, <<base, Number(0)>>)
  BY <1>3, ConstantsAreUsable, ListsAre
<1>4. Follows(q, r, low) /\ Usable(r, Temp(q.tmp)) /\ r.tmp = q.tmp + 1
  BY <1>2, <1>7, DefineIs
<1> HIDE DEF r
<1>5. AllUsable(r, <<Temp(q.tmp)>>) /\ EmitterOk(r, low) /\ q \in Emitters
  BY <1>4, ListsAre DEF Follows, EmitterOk
<1>6. Follows(r, s, low) /\ Usable(s, Temp(q.tmp + 1))
  BY <1>2, <1>4, <1>5, DefineIs
<1> HIDE DEF s
<1> QED BY <1>1, <1>4, <1>5, <1>6, FollowsTwice DEF Ends

LEMMA OperationIs == \A k \in Binary : Operation(k) \in IrOps
BY DEF Operation, IrOps, Binary

LEMMA CallArgsAre ==
  ASSUME NEW q, NEW os, AllUsable(q, os), NEW name \in STRING
  PROVE  AllUsable(q, <<IrOperand("func", name, 0)>> \o os)
<1> DEFINE o == IrOperand("func", name, 0)
           all == <<o>> \o os
<1>1. "func" \in Constants /\ 0 \in Int
  BY DEF Constants
<1>2. Usable(q, o)
  BY <1>1, ConstantsAreUsable
<1> HIDE DEF o
<1>3. <<o>> \in Seq(Vals) /\ Len(<<o>>) = 1 /\ <<o>>[1] = o
  BY <1>2 DEF Usable
<1>4. os \in Seq(Vals) /\ Len(os) \in Nat /\ DOMAIN os = 1 .. Len(os)
  BY LenProperties DEF AllUsable
<1>5. /\ all \in Seq(Vals) /\ Len(all) = 1 + Len(os)
      /\ \A i \in 1 .. 1 + Len(os) : all[i] = IF i <= 1 THEN <<o>>[i] ELSE os[i - 1]
  BY <1>3, <1>4, ConcatProperties
<1> HIDE DEF all
<1>6. ASSUME NEW i \in DOMAIN all PROVE Defined(q.code, all[i])
  <2>1. i \in 1 .. 1 + Len(os)
    BY <1>5, LenProperties
  <2>2. CASE i = 1
    BY <2>2, <2>1, <1>2, <1>3, <1>5 DEF Usable
  <2>3. CASE i # 1
    <3>1. i - 1 \in DOMAIN os /\ all[i] = os[i - 1]
      BY <2>1, <2>3, <1>4, <1>5
    <3> QED BY <3>1 DEF AllUsable
  <2> QED BY <2>2, <2>3
<1>7. AllUsable(q, all)
  BY <1>5, <1>6 DEF AllUsable
<1> QED BY <1>7 DEF all, o

LEMMA OperationEnds ==
  ASSUME NEW low \in Nat, NEW q, EmitterOk(q, low), NEW fn, WellFormed(fn),
         NEW f, f.e \in Parts(fn), f.stmt \in BOOLEAN, f.e.k \in Binary \cup {"alloc", "call"},
         AllUsable(q, f.got)
  PROVE  Ends(f, q, low)
<1>1. CASE f.e.k = "call" /\ f.stmt
  <2> DEFINE args == <<IrOperand("func", f.e.s, 0)>> \o f.got
  <2>1. Finished(f, q) = Issue(q, "call", args)
    BY <1>1 DEF Finished, emit_call, Binary
  <2>2. f.e.s \in STRING
    BY PartIs
  <2>3. AllUsable(q, args)
    BY <2>2, CallArgsAre
  <2> HIDE DEF args
  <2>4. "call" \in IrOps
    BY DEF IrOps
  <2> QED BY <2>1, <2>3, <2>4, <1>1, IssueIs, HoldsNothing DEF Ends
<1>2. CASE ~(f.e.k = "call" /\ f.stmt)
  <2>1. \E op \in IrOps, ty \in IrTypes : \E args :
          Finished(f, q) = Define(q, op, ty, args) /\ AllUsable(q, args)
    <3>1. "w" \in IrTypes /\ "l" \in IrTypes /\ "alloc8" \in IrOps /\ "call" \in IrOps
      BY DEF IrTypes, IrOps
    <3>2. CASE f.e.k \in Binary
      <4>1. Finished(f, q) = Define(q, Operation(f.e.k), "w", f.got)
        BY <3>2 DEF Finished, EmitBinary, Binary
      <4>2. Operation(f.e.k) \in IrOps
        BY <3>2, OperationIs
      <4> QED BY <4>1, <4>2, <3>1
    <3>3. CASE f.e.k = "alloc"
      <4>1. Finished(f, q) = Define(q, "alloc8", "l", f.got)
        BY <3>3 DEF Finished, Binary
      <4> QED BY <4>1, <3>1
    <3>4. CASE f.e.k = "call"
      <4> DEFINE args == <<IrOperand("func", f.e.s, 0)>> \o f.got
                 ty == IF f.e.s \in {"open", "read", "write"} THEN "l" ELSE "w"
      <4>1. Finished(f, q) = Define(q, "call", ty, args)
        BY <3>4, <1>2 DEF Finished, emit_call, Binary
      <4>2. f.e.s \in STRING
        BY PartIs
      <4>3. AllUsable(q, args)
        BY <4>2, CallArgsAre
      <4>4. ty \in IrTypes
        BY <3>1
      <4> HIDE DEF args, ty
      <4> QED BY <4>1, <4>3, <4>4, <3>1
    <3> QED BY <3>2, <3>3, <3>4
  <2>2. Follows(q, Finished(f, q), low) /\ Usable(Finished(f, q), Temp(q.tmp))
    BY <2>1, DefineIs
  <2>3. f.e.k \notin {"Reg", "const", "StructLit", "Field"}
    BY DEF Binary
  <2> QED BY <2>2, <2>3, HoldsTemp DEF Ends
<1> QED BY <1>1, <1>2

LEMMA OnlyOneIs ==
  ASSUME NEW q, NEW f, AllUsable(q, f.got), HasAll(f),
         f.e.k \in {"const", "alloc", "assign", "set", "ret"}
  PROVE  Usable(q, f.got[1])
<1>1. NumCalls(f.e) = 1
  BY DEF NumCalls, NumKids, Binary
<1>2. Len(f.got) = 1 /\ f.got \in Seq(Vals) /\ DOMAIN f.got = 1 .. Len(f.got) /\ 1 \in 1 .. Len(f.got)
  BY <1>1, LenProperties DEF HasAll, AllUsable
<1> QED BY <1>2, ElementOfSeq DEF AllUsable, Usable

LEMMA NothingEnds ==
  ASSUME NEW low \in Nat, NEW q, EmitterOk(q, low), NEW f, f.stmt \in BOOLEAN,
         f.e.k \in {"Reg", "const", "StructLit"}, Usable(q, f.own),
         f.e.k = "const" => Usable(q, f.got[1]),
         f.e.k = "Reg" => f.e.n \in 0 .. Len(q.env) - 1
  PROVE  Ends(f, q, low)
<1>1. Finished(f, q) = q
  BY DEF Finished, Binary
<1>2. Usable(q, Holds(f, q))
  <2>1. CASE f.stmt
    BY <2>1, HoldsNothing
  <2>2. CASE ~f.stmt /\ f.e.k = "Reg"
    <3>1. Holds(f, q) = q.env[f.e.n + 1]
      BY <2>2 DEF Holds
    <3> QED BY <3>1, <2>2, EnvIs
  <2>3. CASE ~f.stmt /\ f.e.k = "const"
    <3>1. Holds(f, q) = f.got[1]
      BY <2>3 DEF Holds
    <3> QED BY <3>1, <2>3
  <2>4. CASE ~f.stmt /\ f.e.k = "StructLit"
    <3>1. Holds(f, q) = f.own
      BY <2>4 DEF Holds
    <3> QED BY <3>1
  <2> QED BY <2>1, <2>2, <2>3, <2>4
<1> QED BY <1>1, <1>2, FollowsSame DEF Ends

LEMMA StatementEnds ==
  ASSUME NEW low \in Nat, NEW q, EmitterOk(q, low), NEW f, f.stmt,
         f.e.k \in {"assign", "set", "ret", "while"}, Usable(q, f.own), AllUsable(q, f.got),
         f.e.k \in {"assign", "set"} => f.e.args[1].n \in 0 .. Len(q.env) - 1 /\ Usable(q, f.got[1])
  PROVE  Ends(f, q, low)
<1>1. f.own.n \in Int
  BY OwnIs
<1>2. Follows(q, Finished(f, q), low)
  <2>1. CASE f.e.k = "assign"
    <3> DEFINE x == f.e.args[1].n
               o == f.got[1]
    <3>1. Finished(f, q) = [q EXCEPT !.env[x + 1] = o]
      BY <2>1 DEF Finished, Binary
    <3>2. x \in 0 .. Len(q.env) - 1 /\ Usable(q, o)
      BY <2>1
    <3> HIDE DEF x, o
    <3>3. Follows(q, [q EXCEPT !.env[x + 1] = o], low)
      BY <3>2, EnvIs
    <3> QED BY <3>1, <3>3
  <2>2. CASE f.e.k = "set"
    <3> DEFINE x == f.e.args[1].n
    <3>1. Finished(f, q) = StoreAt(q, q.env[x + 1], f.own.n, f.got[1])
      BY <2>2 DEF Finished, Binary
    <3>2. x \in 0 .. Len(q.env) - 1 /\ Usable(q, f.got[1])
      BY <2>2
    <3> HIDE DEF x
    <3>3. Usable(q, q.env[x + 1])
      BY <3>2, EnvIs
    <3> QED BY <3>1, <3>2, <3>3, <1>1, StoreAtIs
  <2>3. CASE f.e.k = "ret"
    <3>1. Finished(f, q) = Issue(q, "ret", f.got)
      BY <2>3 DEF Finished, Binary
    <3>2. "ret" \in IrOps
      BY DEF IrOps
    <3> QED BY <3>1, <3>2, IssueIs
  <2>4. CASE f.e.k = "while"
    <3> DEFINE back == <<Label("loop", f.own.n)>>
               end == <<Label("lend", f.own.n)>>
               r == Issue(q, "jmp", back)
               s == Issue(r, "label", end)
    <3>1. Finished(f, q) = s
      BY <2>4 DEF Finished, Binary
    <3>2. "jmp" \in IrOps /\ "label" \in IrOps /\ "loop" \in Constants /\ "lend" \in Constants
      BY DEF IrOps, Constants
    <3>3. AllUsable(q, back)
      BY <3>2, <1>1, ConstantsAreUsable, ListsAre
    <3> HIDE DEF back
    <3>4. Follows(q, r, low)
      BY <3>2, <3>3, IssueIs
    <3> HIDE DEF r
    <3>5. AllUsable(r, end) /\ EmitterOk(r, low) /\ q \in Emitters
      BY <3>2, <3>4, <1>1, ConstantsAreUsable, ListsAre DEF Follows, EmitterOk
    <3> HIDE DEF end
    <3>6. Follows(r, s, low)
      BY <3>2, <3>5, IssueIs
    <3> HIDE DEF s
    <3> QED BY <3>1, <3>4, <3>5, <3>6, FollowsTwice
  <2> QED BY <2>1, <2>2, <2>3, <2>4
<1> QED BY <1>2, HoldsNothing DEF Ends

LEMMA FinishedIs ==
  ASSUME NEW low \in Nat, NEW q, EmitterOk(q, low), NEW fn, WellFormed(fn),
         Len(q.env) = fn.n_regs, NEW f, f.e \in Parts(fn), f.stmt \in BOOLEAN, IrFrameOk(f, q),
         HasAll(f)
  PROVE  Ends(f, q, low)
<1>1. /\ f.e.k \in IF f.stmt THEN StmtKinds \cup {"body"} ELSE ExprKinds
      /\ ~Refused(f.e) /\ Usable(q, f.own) /\ AllUsable(q, f.got)
  BY DEF IrFrameOk
<1>2. f.e.k # "body"
  BY PartIs DEF ExprKinds, StmtKinds, Binary
<1>3. f.e.k \in Emittable
  BY <1>1, <1>2, EmittableIs
<1>4. CASE f.e.k \in {"Int", "Named", "Str"}
  BY <1>4, ConstantEnds
<1>5. CASE f.e.k \in Binary \cup {"alloc", "call"}
  BY <1>5, <1>1, OperationEnds
<1>6. CASE f.e.k \in {"Reg", "const", "StructLit"}
  <2>1. f.e.k = "const" => Usable(q, f.got[1])
    BY <1>1, OnlyOneIs
  <2>2. f.e.k = "Reg" => f.e.n \in 0 .. Len(q.env) - 1
    BY NamedRegsAre
  <2> QED BY <2>1, <2>2, <1>1, <1>6, NothingEnds
<1>7. CASE f.e.k \in {"assign", "set", "ret", "while"}
  <2>1. f.stmt
    BY <1>1, <1>7 DEF ExprKinds, Binary
  <2>2. f.e.k \in {"assign", "set"} =>
          f.e.args[1].n \in 0 .. Len(q.env) - 1 /\ Usable(q, f.got[1])
    BY <1>1, NamedRegsAre, OnlyOneIs
  <2> QED BY <2>1, <2>2, <1>1, <1>7, StatementEnds
<1>8. CASE f.e.k = "Field"
  <2>1. f.stmt = FALSE
    BY <1>1, <1>8 DEF StmtKinds
  <2>2. f.e.args[1].n \in 0 .. Len(q.env) - 1
    BY <1>8, NamedRegsAre
  <2> QED BY <2>1, <2>2, <1>8, FieldEnds
<1> QED BY <1>3, <1>4, <1>5, <1>6, <1>7, <1>8 DEF Emittable

LEMMA EmittedFnIs ==
  ASSUME NEW fs \in Seq(EmittedFns), NEW f \in DOMAIN fs
  PROVE  /\ fs[f].code \in Seq(Irs) /\ Len(fs[f].code) \in Nat
         /\ DOMAIN fs[f].code = 1 .. Len(fs[f].code)
         /\ \A k \in DOMAIN fs[f].code :
              fs[f].code[k].dst \in Nat \cup {-1} /\ fs[f].code[k].args \in Seq(Vals)
<1>1. f \in 1 .. Len(fs)
  BY LenProperties
<1>2. fs[f] \in EmittedFns
  BY <1>1, ElementOfSeq
<1>3. fs[f].code \in Seq(Irs)
  BY <1>2 DEF EmittedFns
<1>4. Len(fs[f].code) \in Nat /\ DOMAIN fs[f].code = 1 .. Len(fs[f].code)
  BY <1>3, LenProperties
<1>5. ASSUME NEW k \in DOMAIN fs[f].code
      PROVE  fs[f].code[k].dst \in Nat \cup {-1} /\ fs[f].code[k].args \in Seq(Vals)
  <2>1. fs[f].code[k] \in Irs
    BY <1>3, <1>4, ElementOfSeq
  <2> QED BY <2>1 DEF Irs
<1> QED BY <1>3, <1>4, <1>5

LEMMA EmittedGrows ==
  ASSUME NEW fs, NEW low \in Nat, NEW high \in Nat, low <= high, EmittedOk(fs, low)
  PROVE  EmittedOk(fs, high)
<1>1. fs \in Seq(EmittedFns)
  BY DEF EmittedOk
<1>2. ASSUME NEW f \in DOMAIN fs PROVE Between(fs[f].code, 0, high)
  <2>1. Between(fs[f].code, 0, low)
    BY DEF EmittedOk
  <2>2. ASSUME NEW k \in DOMAIN fs[f].code
        PROVE  fs[f].code[k].dst = -1 \/ (0 <= fs[f].code[k].dst /\ fs[f].code[k].dst < high)
    <3>1. fs[f].code[k].dst \in Nat \cup {-1}
      BY <1>1, EmittedFnIs
    <3>2. fs[f].code[k].dst = -1 \/ (0 <= fs[f].code[k].dst /\ fs[f].code[k].dst < low)
      BY <2>1 DEF Between
    <3> QED BY <3>1, <3>2
  <2> QED BY <2>2 DEF Between
<1> QED BY <1>1, <1>2 DEF EmittedOk

\* The functions so far use temporaries below low, code uses later ones.
LEMMA EmittedAppend ==
  ASSUME NEW fs, NEW low \in Nat, NEW high \in Nat, low <= high, EmittedOk(fs, low),
         NEW g \in EmittedFns, Single(g.code), Between(g.code, low, high)
  PROVE  EmittedOk(Append(fs, g), high)
<1> DEFINE gs == Append(fs, g)
           n == Len(fs)
<1>1. fs \in Seq(EmittedFns) /\ EmittedOk(fs, high)
  BY EmittedGrows DEF EmittedOk
<1>2. n \in Nat /\ DOMAIN fs = 1 .. n
  BY <1>1, LenProperties
<1>3. /\ gs \in Seq(EmittedFns) /\ Len(gs) = n + 1 /\ gs[n + 1] = g
      /\ \A f \in 1 .. n : gs[f] = fs[f]
  BY <1>1, AppendProperties
<1>4. DOMAIN gs = 1 .. n + 1
  BY <1>3, LenProperties
<1> HIDE DEF gs, n
<1>5. n + 1 \in DOMAIN gs
  BY <1>2, <1>4
<1>6. \A k \in DOMAIN g.code : g.code[k].dst \in Nat \cup {-1}
  BY <1>3, <1>5, EmittedFnIs
<1>7. ASSUME NEW f \in DOMAIN gs
      PROVE  Single(gs[f].code) /\ Between(gs[f].code, 0, high)
  <2>1. CASE f = n + 1
    <3>1. Between(g.code, 0, high)
      BY <1>6 DEF Between
    <3> QED BY <2>1, <3>1, <1>3
  <2>2. CASE f # n + 1
    <3>1. f \in DOMAIN fs /\ gs[f] = fs[f]
      BY <2>2, <1>2, <1>3, <1>4
    <3> QED BY <3>1, <1>1 DEF EmittedOk
  <2> QED BY <2>1, <2>2
<1>8. ASSUME NEW f \in DOMAIN fs
      PROVE  Disjoint(fs[f].code, g.code) /\ Disjoint(g.code, fs[f].code)
  <2> SUFFICES ASSUME NEW k \in DOMAIN fs[f].code, NEW j \in DOMAIN g.code
               PROVE  fs[f].code[k].dst = -1 \/ fs[f].code[k].dst # g.code[j].dst
    BY DEF Disjoint
  <2>1. fs[f].code[k].dst \in Nat \cup {-1}
    BY <1>1, EmittedFnIs
  <2>2. fs[f].code[k].dst = -1 \/ fs[f].code[k].dst < low
    BY DEF EmittedOk, Between
  <2>3. g.code[j].dst = -1 \/ low <= g.code[j].dst
    BY DEF Between
  <2> QED BY <2>1, <2>2, <2>3, <1>6
<1>9. ASSUME NEW f \in DOMAIN gs, NEW h \in DOMAIN gs, f # h
      PROVE  Disjoint(gs[f].code, gs[h].code)
  <2>1. CASE f = n + 1
    <3>1. h \in DOMAIN fs /\ gs[h] = fs[h]
      BY <2>1, <1>2, <1>3, <1>4, <1>9
    <3> QED BY <3>1, <2>1, <1>3, <1>8
  <2>2. CASE h = n + 1
    <3>1. f \in DOMAIN fs /\ gs[f] = fs[f]
      BY <2>2, <1>2, <1>3, <1>4, <1>9
    <3> QED BY <3>1, <2>2, <1>3, <1>8
  <2>3. CASE f # n + 1 /\ h # n + 1
    <3>1. f \in DOMAIN fs /\ gs[f] = fs[f] /\ h \in DOMAIN fs /\ gs[h] = fs[h]
      BY <2>3, <1>2, <1>3, <1>4
    <3> QED BY <3>1, <1>9 DEF EmittedOk
  <2> QED BY <2>1, <2>2, <2>3
<1>10. EmittedOk(gs, high)
  BY <1>3, <1>7, <1>9 DEF EmittedOk
<1> QED BY <1>10 DEF gs

-----------------------------------------------------------------------------
(* The open calls.                                                         *)
LEMMA IrFrameStays ==
  ASSUME NEW low, NEW q, NEW r, Follows(q, r, low), NEW f, IrFrameOk(f, q)
  PROVE  IrFrameOk(f, r)
BY UsableStays DEF IrFrameOk

LEMMA OpenStays ==
  ASSUME NEW low, NEW q, NEW r, Follows(q, r, low), NEW os, NEW v, NEW fn, OpenOk(os, v, q, fn)
  PROVE  OpenOk(os, v, r, fn)
<1>1. \A i \in 1 .. Len(os) : IrFrameOk(os[i], r)
  BY IrFrameStays DEF OpenOk
<1> QED BY <1>1 DEF OpenOk

LEMMA OpenCurrentIs ==
  ASSUME NEW fn, NEW q, NEW os, NEW v, OpenOk(os, v, q, fn)
  PROVE  LET f == os[Len(os)]
         IN  /\ os \in Seq(IrFrames(fn)) /\ Len(os) \in Nat \ {0} /\ Len(os) \in 1 .. Len(os)
             /\ f \in IrFrames(fn) /\ IrFrameOk(f, q)
             /\ f.e \in Bodies(fn) /\ f.stmt \in BOOLEAN /\ (Len(os) > 1 => f.e \in Parts(fn))
             /\ f.e.k = "body" => Len(os) = 1
             /\ v # <<>> => Len(f.got) < NumCalls(f.e)
<1> DEFINE f == os[Len(os)]
<1>1. os \in Seq(IrFrames(fn)) /\ os # <<>>
  BY DEF OpenOk
<1>2. Len(os) \in Nat \ {0}
  BY <1>1, LenProperties, EmptySeq
<1>3. Len(os) \in 1 .. Len(os)
  BY <1>2
<1>4. f \in IrFrames(fn)
  BY <1>1, <1>3, ElementOfSeq
<1>5. /\ IrFrameOk(f, q) /\ (v # <<>> => Len(f.got) < NumCalls(f.e))
      /\ f.e.k = "body" => Len(os) = 1
  BY <1>3 DEF OpenOk
<1> HIDE DEF f
<1>6. f.e \in Bodies(fn) /\ f.stmt \in BOOLEAN
  BY <1>4 DEF IrFrames
<1>7. Len(os) > 1 => f.e \in Parts(fn)
  <2>1. Node("body", "", 0, fn.body).k = "body"
    BY DEF Node
  <2>2. Len(os) > 1 => f.e.k # "body"
    BY <1>2, <1>5
  <2> QED BY <2>1, <2>2, <1>6 DEF Bodies
<1> QED BY <1>1, <1>2, <1>3, <1>4, <1>5, <1>6, <1>7 DEF f

LEMMA OpenPushOk ==
  ASSUME NEW fn, NEW q, NEW os, OpenOk(os, <<>>, q, fn),
         Len(os[Len(os)].got) < NumCalls(os[Len(os)].e),
         NEW g \in IrFrames(fn), IrFrameOk(g, q), g.e.k # "body"
  PROVE  OpenOk(Append(os, g), <<>>, q, fn)
<1> DEFINE ps == Append(os, g)
<1>1. os \in Seq(IrFrames(fn)) /\ Len(os) \in Nat \ {0}
  BY OpenCurrentIs
<1>2. /\ ps \in Seq(IrFrames(fn)) /\ Len(ps) = Len(os) + 1
      /\ \A i \in 1 .. Len(os) : ps[i] = os[i]
      /\ ps[Len(os) + 1] = g
  BY <1>1, AppendProperties
<1>3. ps # <<>>
  BY <1>1, <1>2, EmptySeq
<1> HIDE DEF ps
<1>4. ASSUME NEW i \in 1 .. Len(ps)
      PROVE  /\ IrFrameOk(ps[i], q)
             /\ i < Len(ps) => Len(ps[i].got) < NumCalls(ps[i].e)
             /\ ps[i].e.k = "body" => i = 1
  <2>1. CASE i = Len(os) + 1
    BY <2>1, <1>1, <1>2
  <2>2. CASE i # Len(os) + 1
    <3>1. ps[i] = os[i] /\ i \in 1 .. Len(os)
      BY <2>2, <1>1, <1>2
    <3>2. Len(os[i].got) < NumCalls(os[i].e)
      <4>1. CASE i = Len(os)
        BY <4>1
      <4>2. CASE i # Len(os)
        <5>1. i < Len(os)
          BY <4>2, <3>1, <1>1
        <5> QED BY <5>1, <3>1 DEF OpenOk
      <4> QED BY <4>1, <4>2
    <3> QED BY <3>1, <3>2 DEF OpenOk
  <2> QED BY <2>1, <2>2
<1>5. OpenOk(ps, <<>>, q, fn)
  BY <1>2, <1>3, <1>4 DEF OpenOk
<1> QED BY <1>5 DEF ps

LEMMA OpenPopOk ==
  ASSUME NEW fn, NEW q, NEW os, OpenOk(os, <<>>, q, fn), Len(os) > 1, NEW v
  PROVE  OpenOk(Front(os), v, q, fn)
<1> DEFINE ps == Front(os)
<1>1. os \in Seq(IrFrames(fn)) /\ Len(os) \in Nat \ {0}
  BY OpenCurrentIs
<1>2. \A i \in 1 .. Len(os) - 1 : os[i] \in IrFrames(fn)
  BY <1>1, ElementOfSeq
<1>3. /\ ps \in Seq(IrFrames(fn)) /\ Len(ps) = Len(os) - 1
      /\ \A i \in 1 .. Len(os) - 1 : ps[i] = os[i]
  BY <1>1, <1>2, SubSeqProperties DEF Front
<1>4. ps # <<>>
  BY <1>1, <1>3, EmptySeq
<1> HIDE DEF ps
<1>5. ASSUME NEW i \in 1 .. Len(ps)
      PROVE  /\ IrFrameOk(ps[i], q) /\ Len(ps[i].got) < NumCalls(ps[i].e)
             /\ ps[i].e.k = "body" => i = 1
  <2>1. ps[i] = os[i] /\ i \in 1 .. Len(os) /\ i < Len(os)
    BY <1>1, <1>3
  <2> QED BY <2>1 DEF OpenOk
<1>6. OpenOk(ps, v, q, fn)
  BY <1>3, <1>4, <1>5 DEF OpenOk
<1> QED BY <1>6 DEF ps

LEMMA OpenGetsOk ==
  ASSUME NEW fn, NEW q, NEW os, NEW v, OpenOk(os, v, q, fn),
         NumCalls(os[Len(os)].e) \in Nat, Len(os[Len(os)].got) < NumCalls(os[Len(os)].e),
         NEW o, Usable(q, o)
  PROVE  OpenOk([os EXCEPT ![Len(os)] = [os[Len(os)] EXCEPT !.got = Append(@, o)]], <<>>, q, fn)
<1> DEFINE f == os[Len(os)]
           g == [f EXCEPT !.got = Append(@, o)]
           ps == [os EXCEPT ![Len(os)] = g]
<1>1. /\ os \in Seq(IrFrames(fn)) /\ Len(os) \in Nat \ {0} /\ Len(os) \in 1 .. Len(os)
      /\ f \in IrFrames(fn) /\ IrFrameOk(f, q) /\ f.e \in Bodies(fn)
      /\ f.e.k = "body" => Len(os) = 1
  BY OpenCurrentIs
<1>2. NumCalls(f.e) \in Nat /\ Len(f.got) < NumCalls(f.e)
  OBVIOUS
<1> HIDE DEF f
<1>3. f.got \in Seq(Vals) /\ Len(f.got) \in Nat /\ o \in Vals
  BY <1>1, LenProperties DEF IrFrames, Usable
<1>4. /\ Append(f.got, o) \in Seq(Vals) /\ Len(Append(f.got, o)) = Len(f.got) + 1
      /\ \A j \in 1 .. Len(f.got) : Append(f.got, o)[j] = f.got[j]
      /\ Append(f.got, o)[Len(f.got) + 1] = o
  BY <1>3, AppendProperties
<1>5. /\ g \in IrFrames(fn) /\ g.got = Append(f.got, o) /\ g.e = f.e /\ g.stmt = f.stmt
      /\ g.own = f.own
  BY <1>1, <1>4 DEF IrFrames
<1> HIDE DEF g
<1>6. DOMAIN g.got = 1 .. Len(f.got) + 1 /\ DOMAIN f.got = 1 .. Len(f.got)
  BY <1>3, <1>4, <1>5, LenProperties
<1>7. AllUsable(q, g.got)
  <2>1. ASSUME NEW j \in DOMAIN g.got PROVE Defined(q.code, g.got[j])
    <3>1. CASE j = Len(f.got) + 1
      BY <3>1, <1>4, <1>5 DEF Usable
    <3>2. CASE j # Len(f.got) + 1
      <4>1. j \in DOMAIN f.got /\ g.got[j] = f.got[j]
        BY <3>2, <1>3, <1>4, <1>5, <1>6
      <4> QED BY <4>1, <1>1 DEF IrFrameOk, AllUsable
    <3> QED BY <3>1, <3>2
  <2> QED BY <2>1, <1>4, <1>5 DEF AllUsable
<1>8. Len(g.got) <= NumCalls(g.e)
  BY <1>2, <1>3, <1>4, <1>5
<1>9. IrFrameOk(g, q)
  BY <1>1, <1>5, <1>7, <1>8 DEF IrFrameOk
<1>10. /\ ps \in Seq(IrFrames(fn)) /\ Len(ps) = Len(os)
       /\ \A i \in 1 .. Len(os) : ps[i] = IF i = Len(os) THEN g ELSE os[i]
  BY <1>1, <1>5, ExceptSeq
<1>11. ps # <<>>
  BY <1>1, <1>10, EmptySeq
<1> HIDE DEF ps
<1>12. ASSUME NEW i \in 1 .. Len(ps)
       PROVE  /\ IrFrameOk(ps[i], q)
              /\ i < Len(ps) => Len(ps[i].got) < NumCalls(ps[i].e)
              /\ ps[i].e.k = "body" => i = 1
  <2>1. CASE i = Len(os)
    BY <2>1, <1>1, <1>5, <1>9, <1>10
  <2>2. CASE i # Len(os)
    <3>1. ps[i] = os[i] /\ i \in 1 .. Len(os) /\ i < Len(os)
      BY <2>2, <1>1, <1>10
    <3> QED BY <3>1, <1>10 DEF OpenOk
  <2> QED BY <2>1, <2>2
<1>13. OpenOk(ps, <<>>, q, fn)
  BY <1>10, <1>11, <1>12 DEF OpenOk
<1> QED BY <1>13 DEF ps, g, f

-----------------------------------------------------------------------------
(* Every step keeps the invariant.                                         *)
LEMMA InputIs ==
  ASSUME QbeInv, mode # "idle"
  PROVE  /\ input \in Programs /\ Len(input.functions) \in Nat /\ Len(emitted) \in Nat
         /\ emitted \in Seq(EmittedFns)
         /\ Len(emitted) < Len(input.functions) =>
              /\ Len(emitted) + 1 \in 1 .. Len(input.functions)
              /\ WellFormed(Emitting) /\ Emitting.n_regs \in Nat
<1>1. input \in Programs /\ emitted \in Seq(EmittedFns)
  BY DEF QbeInv, EmittedOk
<1>2. Len(input.functions) \in Nat /\ Len(emitted) \in Nat
  BY <1>1, TreeIs, LenProperties
<1>3. ASSUME Len(emitted) < Len(input.functions)
      PROVE  /\ Len(emitted) + 1 \in 1 .. Len(input.functions)
             /\ WellFormed(Emitting) /\ Emitting.n_regs \in Nat
  <2>1. Len(emitted) + 1 \in 1 .. Len(input.functions)
    BY <1>2, <1>3
  <2> QED BY <2>1, <1>1, TreeIs DEF Emitting, WellFormed
<1> QED BY <1>1, <1>2, <1>3

LEMMA IrBodyIs ==
  ASSUME QbeInv, mode = "body"
  PROVE  /\ WellFormed(Emitting) /\ Len(emitter.env) = Emitting.n_regs /\ input \in Programs
         /\ OpenOk(open, value, emitter, Emitting) /\ ValueOk(value, emitter)
         /\ Len(open) \in Nat \ {0} /\ Inner \in IrFrames(Emitting) /\ IrFrameOk(Inner, emitter)
         /\ Inner.e \in Bodies(Emitting) /\ Inner.stmt \in BOOLEAN
         /\ Len(open) > 1 => Inner.e \in Parts(Emitting)
         /\ NumCalls(Inner.e) \in Nat /\ Len(Inner.got) \in Nat
         /\ value # <<>> \/ ~HasAll(Inner) => Len(Inner.got) < NumCalls(Inner.e)
<1>1. /\ WellFormed(Emitting) /\ Len(emitter.env) = Emitting.n_regs /\ input \in Programs
      /\ OpenOk(open, value, emitter, Emitting) /\ ValueOk(value, emitter)
  BY InputIs DEF QbeInv
<1>2. /\ Len(open) \in Nat \ {0} /\ Inner \in IrFrames(Emitting) /\ IrFrameOk(Inner, emitter)
      /\ Inner.e \in Bodies(Emitting) /\ Inner.stmt \in BOOLEAN
      /\ Len(open) > 1 => Inner.e \in Parts(Emitting)
      /\ value # <<>> => Len(Inner.got) < NumCalls(Inner.e)
  BY <1>1, OpenCurrentIs DEF Inner
<1>3. ~Refused(Inner.e) /\ Len(Inner.got) <= NumCalls(Inner.e)
  BY <1>2 DEF IrFrameOk
<1>4. NumCalls(Inner.e) \in Nat
  BY <1>1, <1>2, <1>3, CallsAre
<1>5. Len(Inner.got) \in Nat
  BY <1>2, LenProperties DEF IrFrames
<1>6. ~HasAll(Inner) => Len(Inner.got) < NumCalls(Inner.e)
  BY <1>3, <1>4, <1>5 DEF HasAll
<1> QED BY <1>1, <1>2, <1>4, <1>5, <1>6

\* What the structs say of a node does not change.
LEMMA NodesStay ==
  ASSUME UNCHANGED input
  PROVE  \A e : (Refused(e)' <=> Refused(e)) /\ NumCalls(e)' = NumCalls(e)
<1>1. \A name : StructsNamed(name)' = StructsNamed(name)
  BY DEF StructsNamed
<1>2. \A name : Declared(name)' = Declared(name)
  BY <1>1 DEF Declared
<1>3. \A field : Offsets(field)' = Offsets(field)
  BY <1>2 DEF Offsets
<1>4. \A e : Refused(e)' <=> Refused(e)
  BY <1>1, <1>2, <1>3 DEF Refused
<1>5. \A e : NumCalls(e)' = NumCalls(e)
  BY <1>2 DEF NumCalls
<1> QED BY <1>4, <1>5

LEMMA OpenKept ==
  ASSUME UNCHANGED <<input, emitted>>, OpenOk(open', value', emitter', Emitting)
  PROVE  OpenOk(open, value, emitter, Emitting)'
<1>1. Emitting' = Emitting
  BY DEF Emitting
<1>2. \A e : (Refused(e)' <=> Refused(e)) /\ NumCalls(e)' = NumCalls(e)
  BY NodesStay
<1>3. open' \in Seq(IrFrames(Emitting)) /\ open' # <<>>
  BY DEF OpenOk
<1>4. ASSUME NEW i \in 1 .. Len(open')
      PROVE  /\ IrFrameOk(open[i], emitter)'
             /\ i < Len(open') \/ value' # <<>> => Len(open'[i].got) < NumCalls(open[i].e)'
             /\ open'[i].e.k = "body" => i = 1
  <2>1. /\ IrFrameOk(open'[i], emitter')
        /\ i < Len(open') \/ value' # <<>> => Len(open'[i].got) < NumCalls(open'[i].e)
        /\ open'[i].e.k = "body" => i = 1
    BY DEF OpenOk
  <2>2. IrFrameOk(open[i], emitter)'
    BY <2>1, <1>2 DEF IrFrameOk
  <2> QED BY <2>1, <2>2, <1>2
<1> QED BY <1>1, <1>3, <1>4 DEF OpenOk

\* A step within the body of a function.
LEMMA IrBodyStep ==
  ASSUME QbeInv, mode = "body", UNCHANGED <<input, emitted, mode>>,
         \A low \in Nat : EmitterOk(emitter, low) => Follows(emitter, emitter', low),
         OpenOk(open', value', emitter', Emitting), ValueOk(value', emitter')
  PROVE  QbeInv'
<1>1. PICK low \in Nat : EmittedOk(emitted, low) /\ EmitterOk(emitter, low)
  BY DEF QbeInv
<1>2. Follows(emitter, emitter', low)
  BY <1>1
<1>3. /\ EmitterOk(emitter', low) /\ Len(emitter'.env) = Len(emitter.env)
      /\ emitter' \in Emitters /\ low <= emitter'.tmp
  BY <1>2 DEF Follows, EmitterOk
<1>4. EmittedOk(emitted, emitter'.tmp)
  BY <1>1, <1>3, EmitterIs, EmittedGrows
<1>5. Emitting' = Emitting
  BY DEF Emitting
<1>6. /\ input \in Programs /\ Len(emitted) < Len(input.functions)
      /\ Len(emitted) <= Len(input.functions) /\ Len(emitter.env) = Emitting.n_regs
  BY DEF QbeInv
<1>7. OpenOk(open, value, emitter, Emitting)'
  BY OpenKept
<1> QED BY <1>1, <1>3, <1>4, <1>5, <1>6, <1>7 DEF QbeInv

LEMMA CallEmitKeeps ==
  ASSUME QbeInv, CallEmit
  PROVE  QbeInv'
<1> DEFINE e == Callee(Inner.e, Len(Inner.got) + 1)
           fn == Emitting
<1>1. /\ mode = "body" /\ value = <<>> /\ ~HasAll(Inner) /\ UNCHANGED <<input, emitted, value>>
  BY DEF CallEmit
<1>2. /\ WellFormed(fn) /\ Len(emitter.env) = fn.n_regs /\ input \in Programs
      /\ OpenOk(open, <<>>, emitter, fn) /\ Len(open) \in Nat \ {0}
      /\ Inner.e \in Bodies(fn) /\ IrFrameOk(Inner, emitter)
      /\ NumCalls(Inner.e) \in Nat /\ Len(Inner.got) \in Nat
      /\ Len(Inner.got) < NumCalls(Inner.e)
  BY <1>1, IrBodyIs
<1>3. CASE Refused(e)
  <2>1. mode' = "refused" /\ UNCHANGED <<emitter, open>>
    BY <1>3 DEF CallEmit
  <2> QED BY <2>1, <1>1 DEF QbeInv
<1>4. CASE ~Refused(e)
  <2>1. PICK own \in Notes(e, emitter) : open' = Append(open, Open(e, NextIsStmt(Inner), own))
    BY <1>4 DEF CallEmit
  <2>2. emitter' = Begin(e, emitter) /\ mode' = mode
    BY <1>4 DEF CallEmit
  <2>3. ~Refused(Inner.e) /\ Len(Inner.got) + 1 \in 1 .. NumCalls(Inner.e)
    BY <1>2 DEF IrFrameOk
  <2>4. /\ e \in Parts(fn)
        /\ e.k \in IF Inner.e.k = "body" \/ (Inner.e.k = "while" /\ Len(Inner.got) + 1 > 1)
                   THEN StmtKinds ELSE ExprKinds
    BY <1>2, <2>3, CallsAre
  <2>5. (Len(Inner.got) + 1 > 1) <=> (Inner.got # <<>>)
    <3>1. Inner.got \in Seq(Vals)
      BY <1>2 DEF IrFrameOk, AllUsable
    <3> QED BY <3>1, <1>2, EmptySeq
  <2>6. e.k \in IF NextIsStmt(Inner) THEN StmtKinds ELSE ExprKinds
    BY <2>4, <2>5 DEF NextIsStmt
  <2> HIDE DEF e, fn
  <2>7. ASSUME NEW low \in Nat, EmitterOk(emitter, low)
        PROVE  Follows(emitter, emitter', low) /\ Usable(emitter', own)
    BY <2>1, <2>2, <2>4, <2>7, <1>2, <1>4, BeginIs
  <2>8. PICK low \in Nat : EmitterOk(emitter, low)
    BY <1>1 DEF QbeInv
  <2> DEFINE g == Open(e, NextIsStmt(Inner), own)
  <2>9. /\ g.e = e /\ g.stmt = NextIsStmt(Inner) /\ g.got = <<>> /\ g.own = own
        /\ g = [e |-> e, stmt |-> NextIsStmt(Inner), got |-> <<>>, own |-> own]
    BY DEF Open
  <2>10. NextIsStmt(Inner) \in BOOLEAN
    BY DEF NextIsStmt
  <2>11. own \in Vals
    BY <2>7, <2>8 DEF Usable
  <2>12. g \in IrFrames(fn)
    <3>1. e \in Bodies(fn)
      BY <2>4 DEF Bodies
    <3>2. <<>> \in Seq(Vals)
      OBVIOUS
    <3> QED BY <3>1, <3>2, <2>9, <2>10, <2>11 DEF IrFrames
  <2>13. IrFrameOk(g, emitter')
    <3>1. NumCalls(e) \in Nat
      BY <1>2, <1>4, <2>4, CallsAre DEF Bodies
    <3>2. AllUsable(emitter', <<>>) /\ Usable(emitter', own)
      BY <2>7, <2>8, ListsAre
    <3>3. Len(<<>>) <= NumCalls(e)
      BY <3>1
    <3>4. g.e.k \in IF g.stmt THEN StmtKinds \cup {"body"} ELSE ExprKinds
      BY <2>6, <2>9
    <3> QED BY <3>2, <3>3, <3>4, <2>9, <1>4 DEF IrFrameOk
  <2>14. g.e.k # "body"
    BY <2>6, <2>9 DEF StmtKinds, ExprKinds, Binary
  <2> HIDE DEF g
  <2>15. OpenOk(open, <<>>, emitter', fn)
    BY <2>7, <2>8, <1>2, OpenStays
  <2>16. OpenOk(open', <<>>, emitter', fn)
    BY <2>1, <2>12, <2>13, <2>14, <2>15, <1>2, OpenPushOk DEF Inner, g
  <2>17. ValueOk(value', emitter')
    BY <1>1 DEF ValueOk
  <2> QED BY <2>2, <2>7, <2>16, <2>17, <1>1, IrBodyStep DEF fn
<1> QED BY <1>3, <1>4

LEMMA ReturnEmitKeeps ==
  ASSUME QbeInv, ReturnEmit
  PROVE  QbeInv'
<1>1. /\ mode = "body" /\ value = <<>> /\ HasAll(Inner) /\ Len(open) > 1
      /\ emitter' = Finished(Inner, emitter) /\ value' = <<Holds(Inner, emitter)>>
      /\ open' = Front(open) /\ UNCHANGED <<input, emitted, mode>>
  BY DEF ReturnEmit
<1>2. /\ WellFormed(Emitting) /\ Len(emitter.env) = Emitting.n_regs
      /\ OpenOk(open, <<>>, emitter, Emitting) /\ Inner.e \in Parts(Emitting)
      /\ Inner.stmt \in BOOLEAN /\ IrFrameOk(Inner, emitter)
  BY <1>1, IrBodyIs
<1>3. ASSUME NEW low \in Nat, EmitterOk(emitter, low)
      PROVE  Ends(Inner, emitter, low)
  BY <1>1, <1>2, <1>3, FinishedIs
<1>4. \A low \in Nat : EmitterOk(emitter, low) => Follows(emitter, emitter', low)
  BY <1>1, <1>3 DEF Ends
<1>5. PICK low \in Nat : EmitterOk(emitter, low)
  BY <1>1 DEF QbeInv
<1>6. ValueOk(value', emitter')
  BY <1>1, <1>3, <1>5 DEF Ends, ValueOk
<1>7. OpenOk(open', value', emitter', Emitting)
  BY <1>1, <1>2, <1>4, <1>5, OpenStays, OpenPopOk
<1> QED BY <1>1, <1>4, <1>6, <1>7, IrBodyStep

LEMMA TakeValueKeeps ==
  ASSUME QbeInv, TakeValue
  PROVE  QbeInv'
<1>1. /\ mode = "body" /\ value # <<>> /\ emitter' = Proceed(Inner, emitter, value[1])
      /\ open' = [open EXCEPT ![Len(open)] = [Inner EXCEPT !.got = Append(@, value[1])]]
      /\ value' = <<>> /\ UNCHANGED <<input, emitted, mode>>
  BY DEF TakeValue
<1>2. /\ OpenOk(open, value, emitter, Emitting) /\ ValueOk(value, emitter)
      /\ IrFrameOk(Inner, emitter) /\ NumCalls(Inner.e) \in Nat
      /\ Len(Inner.got) < NumCalls(Inner.e)
  BY <1>1, IrBodyIs
<1>3. Usable(emitter, value[1])
  BY <1>1, <1>2 DEF ValueOk
<1>4. ASSUME NEW low \in Nat, EmitterOk(emitter, low)
      PROVE  Follows(emitter, emitter', low)
  BY <1>1, <1>2, <1>3, <1>4, ProceedIs
<1>5. PICK low \in Nat : EmitterOk(emitter, low)
  BY <1>1 DEF QbeInv
<1>6. OpenOk(open, value, emitter', Emitting) /\ Usable(emitter', value[1])
  BY <1>2, <1>3, <1>4, <1>5, OpenStays, UsableStays
<1>7. OpenOk(open', <<>>, emitter', Emitting)
  BY <1>1, <1>2, <1>6, OpenGetsOk DEF Inner
<1>8. ValueOk(value', emitter')
  BY <1>1 DEF ValueOk
<1> QED BY <1>1, <1>4, <1>7, <1>8, IrBodyStep

LEMMA InitialIs ==
  ASSUME input \in Programs, Len(emitted) + 1 \in 1 .. Len(input.functions), NEW q
  PROVE  AllUsable(q, Initial(Emitting)) /\ Len(Initial(Emitting)) = Emitting.n_regs
<1> DEFINE f == Emitting
           n == f.n_regs
           env == Initial(f)
<1>1. n \in Nat /\ IsTable(f.params) /\ \A k \in DOMAIN f.params : f.params[k].s \in STRING
  BY TreeAssumption DEF Emitting
<1> HIDE DEF f
<1>2. DOMAIN env = 1 .. n
  BY DEF Initial
<1>3. ASSUME NEW i \in 1 .. n PROVE Usable(q, env[i])
  <2> DEFINE k == LastParam(f, i - 1)
             j == CHOOSE j \in k : TRUE
  <2>1. CASE k = {}
    <3>1. env[i] = Nothing
      BY <2>1 DEF Initial
    <3> QED BY <3>1, ConstantsAreUsable
  <2>2. CASE k # {}
    <3>1. env[i] = IrOperand("param", f.params[j].s, 0)
      BY <2>2 DEF Initial
    <3>2. j \in DOMAIN f.params
      BY <2>2 DEF LastParam
    <3>3. f.params[j].s \in STRING /\ "param" \in Constants /\ 0 \in Int
      BY <3>2, <1>1 DEF Constants
    <3> QED BY <3>1, <3>3, ConstantsAreUsable
  <2> QED BY <2>1, <2>2
<1>4. env = [i \in 1 .. n |-> env[i]]
  BY DEF Initial
<1> HIDE DEF env
<1>5. \A i \in 1 .. n : env[i] \in Vals /\ Defined(q.code, env[i])
  BY <1>3 DEF Usable
<1>6. env \in [1 .. n -> Vals]
  BY <1>4, <1>5
<1>7. env \in Seq(Vals) /\ Len(env) = n
  BY <1>1, <1>2, <1>6, SeqDef, LenProperties
<1>8. AllUsable(q, env)
  BY <1>2, <1>5, <1>7 DEF AllUsable
<1> QED BY <1>7, <1>8 DEF env, f

LEMMA BeginIrKeeps ==
  ASSUME QbeInv, BeginIr
  PROVE  QbeInv'
<1>1. mode = "function" /\ UNCHANGED <<input, emitted, value>> /\ value = <<>>
  BY DEF BeginIr, QbeInv
<1>2. /\ input \in Programs /\ Len(emitted) <= Len(input.functions)
      /\ emitter \in Emitters /\ EmittedOk(emitted, emitter.tmp) /\ emitter.tmp \in Nat
      /\ Len(emitted) \in Nat /\ Len(input.functions) \in Nat
  BY <1>1, InputIs, EmitterIs DEF QbeInv
<1>3. CASE Len(emitted) = Len(input.functions)
  <2>1. mode' = "emitted" /\ UNCHANGED <<emitter, open>>
    BY <1>3 DEF BeginIr
  <2> QED BY <2>1, <1>1, <1>2 DEF QbeInv
<1>4. CASE Len(emitted) # Len(input.functions)
  <2> DEFINE fn == Emitting
             env == Initial(fn)
             r == [emitter EXCEPT !.code = <<>>, !.env = env, !.loops = 0]
             e == Node("body", "", 0, fn.body)
             g == Open(e, TRUE, Nothing)
  <2>1. mode' = "body" /\ emitter' = r /\ open' = <<g>>
    BY <1>4 DEF BeginIr
  <2>2. Len(emitted) < Len(input.functions) /\ Len(emitted) + 1 \in 1 .. Len(input.functions)
    BY <1>2, <1>4
  <2>3. WellFormed(fn)
    BY <2>2, <1>1, InputIs
  <2>4. \A q : AllUsable(q, env) /\ Len(env) = fn.n_regs
    BY <2>2, <1>2, InitialIs
  <2> HIDE DEF env
  <2>5. env \in Seq(Vals)
    BY <2>4 DEF AllUsable
  <2>6. /\ r \in Emitters /\ r.code = <<>> /\ r.env = env /\ r.tmp = emitter.tmp
    <3> DEFINE p == [emitter EXCEPT !.code = <<>>]
               s == [p EXCEPT !.env = env]
    <3>1. <<>> \in Seq(Irs) /\ 0 \in Nat
      OBVIOUS
    <3>2. p \in Emitters /\ p.code = <<>> /\ p.tmp = emitter.tmp
      BY <3>1, <1>2 DEF Emitters
    <3> HIDE DEF p
    <3>3. s \in Emitters /\ s.code = <<>> /\ s.env = env /\ s.tmp = emitter.tmp
      BY <3>2, <2>5 DEF Emitters
    <3>4. r = [s EXCEPT !.loops = 0]
      BY DEF p
    <3> HIDE DEF s, r
    <3> QED BY <3>1, <3>3, <3>4 DEF Emitters
  <2> HIDE DEF r
  <2>7. EmitterOk(r, emitter.tmp)
    <3>1. Single(r.code) /\ Between(r.code, emitter.tmp, r.tmp)
      BY <2>6 DEF Single, Between
    <3>2. \A x \in DOMAIN r.env : Defined(r.code, r.env[x])
      BY <2>4, <2>6 DEF AllUsable
    <3> QED BY <3>1, <3>2, <2>6, <1>2 DEF EmitterOk
  <2>8. e \in Bodies(fn) /\ e.k = "body"
    BY DEF Bodies, Node
  <2> HIDE DEF e
  <2>9. ~Refused(e)
    BY <2>8 DEF Refused
  <2>10. /\ g.e = e /\ g.stmt = TRUE /\ g.got = <<>> /\ g.own = Nothing
         /\ g = [e |-> e, stmt |-> TRUE, got |-> <<>>, own |-> Nothing]
    BY DEF Open
  <2>11. g \in IrFrames(fn)
    <3>1. Nothing \in Vals /\ <<>> \in Seq(Vals)
      BY ConstantsAreUsable DEF Usable
    <3> QED BY <3>1, <2>8, <2>10 DEF IrFrames
  <2>12. IrFrameOk(g, r)
    <3>1. NumCalls(e) \in Nat
      BY <1>2, <2>3, <2>8, <2>9, CallsAre
    <3>2. Len(<<>>) <= NumCalls(e)
      BY <3>1
    <3>3. AllUsable(r, <<>>) /\ Usable(r, Nothing)
      BY ListsAre, ConstantsAreUsable
    <3> QED BY <3>2, <3>3, <2>8, <2>9, <2>10 DEF IrFrameOk
  <2> HIDE DEF g
  <2>13. OpenOk(<<g>>, <<>>, r, fn)
    <3>1. <<g>> \in Seq(IrFrames(fn)) /\ Len(<<g>>) = 1 /\ <<g>>[1] = g /\ <<g>> # <<>>
      BY <2>11
    <3> QED BY <3>1, <2>12 DEF OpenOk
  <2>14. ValueOk(<<>>, r)
    BY DEF ValueOk
  <2>15. Emitting' = fn
    BY <1>1 DEF Emitting
  <2>16. OpenOk(open, value, emitter, Emitting)'
    BY <2>1, <2>13, <1>1, OpenKept
  <2> HIDE DEF fn
  <2> QED BY <2>1, <2>2, <2>4, <2>6, <2>7, <2>14, <2>15, <2>16, <1>1, <1>2 DEF QbeInv
<1> QED BY <1>3, <1>4

LEMMA EndIrKeeps ==
  ASSUME QbeInv, EndIr
  PROVE  QbeInv'
<1> DEFINE f == Emitting
           args == IF f.ret_ty = "void" THEN <<>> ELSE <<Number(0)>>
           all == Issue(emitter, "ret", args)
           params == [k \in DOMAIN f.params |-> f.params[k].s]
           g == [name |-> f.name, ty |-> qbe_ty(f.ret_ty), code |-> all.code, params |-> params]
<1>1. /\ mode = "body" /\ value = <<>> /\ emitted' = Append(emitted, g)
      /\ mode' = "function" /\ open' = <<>> /\ UNCHANGED <<input, emitter, value>>
  BY DEF EndIr
<1>2. PICK low \in Nat : EmittedOk(emitted, low) /\ EmitterOk(emitter, low)
  BY <1>1 DEF QbeInv
<1>3. /\ input \in Programs /\ Len(emitted) < Len(input.functions) /\ Len(emitted) \in Nat
      /\ Len(input.functions) \in Nat /\ Len(emitted) + 1 \in 1 .. Len(input.functions)
      /\ emitted \in Seq(EmittedFns)
  BY <1>1, InputIs DEF QbeInv
<1>4. emitter \in Emitters /\ emitter.tmp \in Nat /\ low <= emitter.tmp
  BY <1>2, EmitterIs DEF EmitterOk
<1>5. /\ f.name \in STRING /\ IsTable(f.params)
      /\ \A k \in DOMAIN f.params : f.params[k].s \in STRING
  BY <1>3, TreeAssumption DEF Emitting
<1> HIDE DEF f
<1>6. params \in Seq(STRING)
  <2>1. Len(f.params) \in Nat /\ params \in [1 .. Len(f.params) -> STRING]
    BY <1>5 DEF IsTable
  <2> HIDE DEF params
  <2> QED BY <2>1, SeqDef
<1> HIDE DEF params
<1>7. AllUsable(emitter, args)
  <2>1. 0 \in Int
    OBVIOUS
  <2> QED BY <2>1, ConstantsAreUsable, ListsAre
<1> HIDE DEF args
<1>8. "ret" \in IrOps
  BY DEF IrOps
<1>9. Follows(emitter, all, low) /\ all.tmp = emitter.tmp
  BY <1>2, <1>4, <1>7, <1>8, IssueIs DEF Issue, Emitters
<1> HIDE DEF all
<1>10. Single(all.code) /\ Between(all.code, low, emitter.tmp) /\ all.code \in Seq(Irs)
  BY <1>9 DEF Follows, EmitterOk, Emitters
<1>11. qbe_ty(f.ret_ty) \in IrTypes
  BY DEF qbe_ty, IrTypes
<1>12. g \in EmittedFns /\ g.code = all.code
  BY <1>5, <1>6, <1>10, <1>11 DEF EmittedFns
<1> HIDE DEF g
<1>13. EmittedOk(emitted', emitter.tmp)
  BY <1>1, <1>2, <1>4, <1>10, <1>12, EmittedAppend
<1>14. Len(emitted') = Len(emitted) + 1
  BY <1>1, <1>3, <1>12, AppendProperties
<1>15. Len(emitted') <= Len(input'.functions)
  BY <1>1, <1>3, <1>14
<1> QED BY <1>1, <1>3, <1>4, <1>13, <1>15 DEF QbeInv

LEMMA EmissionKeeps ==
  ASSUME QbeInv, NEW p \in Programs, Emission(p)
  PROVE  QbeInv'
<1>1. /\ mode = "idle" /\ mode' = "function" /\ input' = p
      /\ UNCHANGED <<emitted, emitter, open, value>>
  BY DEF Emission
<1>2. emitted' = <<>> /\ Len(emitted') = 0
  BY <1>1 DEF QbeInv
<1>3. Len(emitted') <= Len(input'.functions)
  BY <1>1, <1>2, TreeIs
<1> QED BY <1>1, <1>3 DEF QbeInv

LEMMA QbeInitIs ==
  ASSUME QbeInit
  PROVE  QbeInv
<1>1. /\ emitted = <<>> /\ mode = "idle" /\ emitter = NewEmitter /\ value = <<>>
  BY DEF QbeInit
<1>2. NewEmitter \in Emitters /\ NewEmitter.tmp = 0
  BY DEF NewEmitter, Emitters
<1>3. EmittedOk(<<>>, 0)
  BY DEF EmittedOk
<1> QED BY <1>1, <1>2, <1>3 DEF QbeInv

LEMMA QbeStutters ==
  ASSUME QbeInv, UNCHANGED qbeVars
  PROVE  QbeInv'
<1>1. UNCHANGED <<input, emitted, mode, emitter, open, value>>
  BY DEF qbeVars
<1>2. Emitting' = Emitting
  BY <1>1 DEF Emitting
<1>3. mode = "body" => OpenOk(open, value, emitter, Emitting)'
  <2> SUFFICES ASSUME mode = "body" PROVE OpenOk(open, value, emitter, Emitting)'
    OBVIOUS
  <2>1. OpenOk(open', value', emitter', Emitting)
    BY <1>1 DEF QbeInv
  <2> QED BY <1>1, <2>1, OpenKept
<1> QED BY <1>1, <1>2, <1>3 DEF QbeInv

LEMMA QbeNextKeeps ==
  ASSUME QbeInv, QbeNext
  PROVE  QbeInv'
<1>1. CASE BeginIr
  BY <1>1, BeginIrKeeps
<1>2. CASE CallEmit
  BY <1>2, CallEmitKeeps
<1>3. CASE ReturnEmit
  BY <1>3, ReturnEmitKeeps
<1>4. CASE TakeValue
  BY <1>4, TakeValueKeeps
<1>5. CASE EndIr
  BY <1>5, EndIrKeeps
<1>6. CASE \E p \in Programs : Emission(p)
  BY <1>6, EmissionKeeps
<1> QED BY <1>1, <1>2, <1>3, <1>4, <1>5, <1>6 DEF QbeNext, QbeStep

LEMMA EmittedIsSingle ==
  ASSUME QbeInv
  PROVE  QbeSingleAssignment
<1>1. EmittedOk(emitted, emitter.tmp)
  BY DEF QbeInv
<1> SUFFICES ASSUME NEW f \in DOMAIN emitted, NEW g \in DOMAIN emitted,
                    NEW k \in DOMAIN emitted[f].code, NEW j \in DOMAIN emitted[g].code
             PROVE  LET i == emitted[f].code[k]
                    IN  /\ i.dst # -1 /\ i.dst = emitted[g].code[j].dst => f = g /\ k = j
                        /\ \A o \in ToSet(i.args) : o.k = "temp" =>
                             \E d \in 1 .. k - 1 : emitted[f].code[d].dst = o.n
  BY DEF QbeSingleAssignment
<1> DEFINE i == emitted[f].code[k]
<1>2. i.dst # -1 /\ i.dst = emitted[g].code[j].dst => f = g /\ k = j
  <2> SUFFICES ASSUME i.dst # -1, i.dst = emitted[g].code[j].dst PROVE f = g /\ k = j
    OBVIOUS
  <2>1. f = g
    BY <1>1 DEF EmittedOk, Disjoint
  <2>2. k = j
    BY <1>1, <2>1 DEF EmittedOk, Single
  <2> QED BY <2>1, <2>2
<1>3. ASSUME NEW o \in ToSet(i.args), o.k = "temp"
      PROVE  \E d \in 1 .. k - 1 : emitted[f].code[d].dst = o.n
  <2>1. PICK a \in DOMAIN i.args : i.args[a] = o
    BY DEF ToSet
  <2>2. DefinedBefore(emitted[f].code, k, o)
    BY <1>1, <2>1 DEF EmittedOk, Single
  <2> QED BY <2>2, <1>3 DEF DefinedBefore
<1> QED BY <1>2, <1>3

(* The invariant of the emitter for QBE: every temporary that is anywhere  *)
(* in it, in the environment or with a call of emit_expr or emit_stmt that *)
(* has not returned, is defined in the function's code so far, once.       *)
THEOREM QbeInvariant == QbeSpec => []QbeInv
<1>1. QbeInit => QbeInv
  BY QbeInitIs
<1>2. QbeInv /\ [QbeNext]_qbeVars => QbeInv'
  BY QbeNextKeeps, QbeStutters
<1> QED BY <1>1, <1>2, PTL DEF QbeSpec

(* What qbe.rs emits is in single assignment form, for every program: a    *)
(* temporary is defined once in the whole output, and each use stands      *)
(* behind the definition, in the same function.                            *)
THEOREM QbeSingleAssigned == QbeSpec => []QbeSingleAssignment
<1>1. QbeInv => QbeSingleAssignment
  BY EmittedIsSingle
<1> QED BY <1>1, QbeInvariant, PTL
=============================================================================
