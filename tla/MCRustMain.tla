----------------------------- MODULE MCRustMain -----------------------------
(***************************************************************************)
(* Programs, and texts of them.  The functions of a program have a few     *)
(* registers; its first statements give them values of several kinds, then *)
(* come one or two statements out of a set, then what shows the registers. *)
(***************************************************************************)
EXTENDS RustMain

R(s) == Leaf("Reg", s)
N(n) == Node("Int", "", n, <<>>)
S(s) == Leaf("Str", s)
Un(k, e) == Node(k, "", 0, <<e>>)
Bin(k, e, f) == Node(k, "", 0, <<e, f>>)
Of(k, s, args) == Node(k, s, 0, args)
Let(r, e) == Bin("assign", R(r), e)
Puts(args) == Of("call", "puts", args)
Main_(params, body) == Function("main", params, "int", body, 0)
Param(r) == Node("param", r, 0, <<Leaf("type", "int")>>)
Fun(name, ps, body) == Function(name, [k \in DOMAIN ps |-> Param(ps[k])], "int", body, 0)
Prog(fs) == [structs |-> <<>>, functions |-> fs]
Return(e) == Un("ret", e)
a == R("a")
b == R("b")
Point == Of("struct", "Point", <<Of("field", "x", <<Leaf("type", "int")>>),
                                 Of("field", "y", <<Leaf("type", "Point")>>)>>)

\* p - q, and a function that calls itself until p is 0.
Minus == Fun("minus", <<"p", "q">>, <<Let("r", Bin("sub", R("p"), R("q"))), Return(R("r"))>>)
Sum == Fun("sum", <<"p">>,
  <<Let("q", N(0)), Let("c", Bin("lt", R("p"), N(1))),
    Of("br_if", "", <<R("c"), Leaf("Named", "end"), Leaf("Named", "more")>>),
    Leaf("label", "more"), Let("q", Bin("sub", R("p"), N(1))),
    Let("q", Of("call", "sum", <<R("q")>>)),
    Return(Bin("add", R("q"), R("p"))), Leaf("label", "end"), Return(R("p"))>>)

-----------------------------------------------------------------------------
Atoms == {a, b, N(1), N(-3)}
Flat == {Bin(k, x, y) : k \in Binary, x \in {a, N(2)}, y \in Atoms}
          \cup {N(-WordMax), S("s"), R("b"), Un("const", a), Leaf("Named", "READ"),
                Leaf("Named", "LEFT"), Of("call", "minus", <<a, b>>)}
Deep == {Bin(k, Bin("sub", a, N(1)), Bin(l, b, Bin("mul", a, b))) : k, l \in {"sub", "lt", "eq"}}
          \cup {Bin("sub", Un("const", N(1)), Of("call", "minus", <<a, b>>)),
                Bin("sub", Of("call", "minus", <<N(1), a>>), Of("call", "minus", <<b, N(2)>>))}

Effects ==
  {Puts(<<a, Bin("add", a, Bin("mul", b, N(2))), S("t")>>), Of("call", "flush", <<>>),
   Of("call", "minus", <<N(1), N(2)>>), Of("call", "minus", <<a, b, a>>),
   Of("call", "nothing", <<>>), Of("call", "open", <<a>>), Of("jmp", "out", <<>>),
   Puts(<<Of("call", "minus", <<a, b>>), Of("call", "minus", <<b, a>>)>>),
   Of("while", "", <<Bin("lt", a, N(9)), Let("a", Bin("add", a, N(1))),
                     Let("b", Bin("add", b, a))>>),
   Of("while", "", <<Bin("lt", a, N(12)), Let("b", Bin("sub", b, N(3))),
                     Let("a", Bin("add", a, N(1)))>>),
   Of("while", "", <<Bin("gt", a, b), Let("a", Bin("sub", a, N(1))), Puts(<<a>>)>>),
   Of("while", "", <<Bin("lt", N(1), a),
                     Of("while", "", <<Bin("gt", b, N(0)), Let("b", Bin("sub", b, N(2)))>>),
                     Let("a", Bin("sub", a, N(1)))>>),
   Of("while", "", <<Bin("lt", a, N(3)), Let("b", N(5)), Let("a", Bin("add", a, N(1)))>>),
   Of("while", "", <<b, Return(a)>>),
   Of("br_if", "", <<Bin("gt", a, b), Leaf("Named", "out"), Leaf("Named", "in")>>)}

\* Of the smallest integer there is no literal.
Starts ==
  {<<N(1), N(4)>>, <<N(2), S("s")>>, <<Bin("add", N(WordMax), N(1)), N(-1)>>,
   <<Bin("lt", N(1), N(2)), N(0)>>}

\* A function, and main: first assignments, other statements, and the end.
Whole(f, start, middle, val) ==
  Prog(<<f, Main_(<<>>,
    <<Let("a", start[1]), Let("b", start[2])>> \o middle
      \o <<Leaf("label", "in"), Puts(<<b>>), Leaf("label", "out"), Puts(<<a>>), Return(val)>>)>>)

Short(middle) == Prog(<<Main_(<<>>, <<middle, Leaf("label", "in"), Leaf("label", "out")>>)>>)

OneStatement ==
  {Whole(Minus, s, <<m>>, a) : s \in Starts, m \in Effects \cup {Let("b", e) : e \in Flat}}
    \cup {Whole(Minus, s, <<>>, e) : s \in Starts, e \in Deep}
    \cup {Whole(Sum, s, <<Let("b", Of("call", "sum", <<a>>))>>, b) : s \in Starts}
TwoStatements == {Whole(Minus, <<N(1), N(4)>>, <<m, n>>, b) : m, n \in Effects}

\* A loop of labels and branches around a statement.
Loops ==
  {Whole(Minus, <<N(1), N(4)>>,
         <<Leaf("label", "top"), m, Let("a", Bin("add", a, N(1))), Let("b", Bin("sub", b, N(1))),
           Of("br_if", "", <<c, Leaf("Named", "top"), Leaf("Named", "in")>>)>>, b) :
     m \in Effects, c \in {Bin("lt", a, N(3)), Bin("gt", b, a), N(1)}}

\* Calculations, for QBE.
Calculations ==
  {Prog(<<Fun("minus", <<"p", "q">>, <<Return(Bin("sub", R("p"), R("q")))>>),
          Main_(<<>>, <<Let("a", N(1)), Let("b", e), Let("a", f), Return(g)>>)>>) :
     e \in {N(-2), Bin("add", a, N(2))},
     f \in {N(0), Bin("div", b, a), Of("call", "minus", <<a, b>>)},
     g \in Deep \cup {Bin(k, Bin("sub", a, b), Bin("mul", N(2), b)) : k \in Binary}
             \cup {Of("call", "minus", <<Of("call", "minus", <<b, a>>), b>>)}}

\* Forms that are compiled here and run elsewhere, and programs that are not
\* as they should be.
Others ==
  {[structs |-> <<Point>>, functions |-> <<Main_(<<>>,
     <<Let("n", N(2)), Let("v", Of("alloc_array", "Point", <<R("n")>>)),
       Let("r", Bin("get_index_ref", R("v"), Bin("add", R("n"), N(-1)))),
       Let("f", Of("get_field_ref", "y", <<R("r")>>)), Bin("store", R("f"), N(7)),
       Let("w", Un("load", R("f"))), Let("m", Un("alloc", N(8))),
       Let("o", Of("StructLit", "Point", <<Of("given", "x", <<N(1)>>),
                                           Of("given", "y", <<R("w")>>)>>)),
       Of("set", "x", <<R("o"), Of("Field", "y", <<R("o")>>)>>),
       Return(Of("Field", "x", <<R("o")>>))>>)>>],
   Prog(<<Minus>>), Prog(<<Main_(<<>>, <<Of("jmp", "nowhere", <<>>)>>)>>),
   Prog(<<Main_(<<>>, <<>>), Fun("puts", <<"p">>, <<Return(R("p"))>>),
          Main_(<<>>, <<Return(Puts(<<N(1)>>))>>)>>)}

-----------------------------------------------------------------------------
(* The text of a program.  gap stands between any two tokens, but for the  *)
(* colon after a name; comma says whether arguments have commas.           *)
RECURSIVE TokensOf(_, _), Listed(_, _)

Listed(es, comma) ==
  FlattenSeq([i \in DOMAIN es |->
    TokensOf(es[i], comma) \o IF comma /\ i < Len(es) THEN <<Sign(",")>> ELSE <<>>])

TokensOf(e, comma) ==
  LET T(i) == TokensOf(e.args[i], comma)
      all(es) == FlattenSeq([i \in DOMAIN es |-> TokensOf(es[i], comma)])
      name == <<Token("Ident", e.s, 0)>>
      key == <<Sign(e.k)>>
  IN  CASE e.k = "Reg" -> <<Token("Reg", e.s, 0)>>
        [] e.k = "Int" -> <<Token("Int", "", e.n)>>
        [] e.k = "Str" -> <<Token("Str", e.s, 0)>>
        [] e.k = "Named" -> name
        [] e.k = "type" -> IF e.s \in Types THEN <<Sign(e.s)>> ELSE name
        [] e.k \in {"const", "alloc", "load", "ret"} -> key \o T(1)
        [] e.k \in Binary \cup {"get_index_ref", "store"} -> key \o T(1) \o <<Sign(",")>> \o T(2)
        [] e.k = "get_field_ref" -> key \o T(1) \o <<Sign(",")>> \o name
        [] e.k = "alloc_array" -> key \o name \o <<Sign(",")>> \o T(1)
        [] e.k = "Field" -> T(1) \o <<Sign(".")>> \o name
        [] e.k = "call" -> key \o name \o
             IF e.args = <<>> /\ comma THEN <<>>
             ELSE <<Sign("(")>> \o Listed(e.args, comma) \o <<Sign(")")>>
        [] e.k \in {"StructLit", "struct"} ->
             (IF e.k = "struct" THEN key ELSE <<>>) \o name
               \o <<Sign("{")>> \o all(e.args) \o <<Sign("}")>>
        [] e.k \in {"given", "field"} -> name \o <<Sign(":")>> \o T(1)
        [] e.k = "param" -> <<Token("Reg", e.s, 0), Sign(":")>> \o T(1)
        [] e.k = "assign" -> T(1) \o <<Sign("=")>> \o T(2)
        [] e.k = "set" -> key \o T(1) \o <<Sign(".")>> \o name \o <<Sign("=")>> \o T(2)
        [] e.k = "while" -> key \o <<Sign("(")>> \o T(1) \o <<Sign(")"), Sign("{")>>
                              \o all(Tail(e.args)) \o <<Sign("}")>>
        [] e.k = "label" -> <<Token("Label", e.s, 0)>>
        [] e.k = "jmp" -> key \o name
        [] e.k = "br_if" -> key \o Listed(e.args, TRUE)

ProgramTokens(prog, comma) ==
  FlattenSeq([i \in DOMAIN prog.structs |-> TokensOf(prog.structs[i], comma)]) \o
  FlattenSeq([i \in DOMAIN prog.functions |->
    LET f == prog.functions[i]
    IN  <<Token("Func", f.name, 0)>>
          \o (IF f.params = <<>> /\ comma THEN <<>>
              ELSE <<Sign("(")>> \o Listed(f.params, comma) \o <<Sign(")")>>)
          \o <<Sign(":"), Sign(f.ret_ty), Sign("{")>>
          \o FlattenSeq([k \in DOMAIN f.body |-> TokensOf(f.body[k], comma)]) \o <<Sign("}")>>])

Spelled(t) ==
  CASE t.t = "Reg" -> <<Char("%"), Piece("word", t.s, 0)>>
    [] t.t = "Func" -> <<Char("@"), Piece("word", t.s, 0)>>
    [] t.t = "Int" -> IF t.n < 0 THEN <<Char("-"), Piece("digits", "", -t.n)>>
                      ELSE <<Piece("digits", "", t.n)>>
    [] t.t = "Str" -> <<Piece("quoted", t.s, 0)>>
    [] t.t = "Ident" -> <<Piece("word", t.s, 0)>>
    [] t.t = "Label" -> <<Piece("word", t.s, 0), Char(":"), Char("\n")>>
    [] t.t \in Keywords -> <<Piece("word", t.t, 0)>>
    [] OTHER -> <<Char(t.t)>>

Text(prog, layout) ==
  LET ts == ProgramTokens(prog, layout.comma)
      Gap(i) == CASE i = Len(ts) -> <<>>
                  [] i < Len(ts) /\ ts[i].t = "Ident" /\ ts[i + 1].t = ":" -> <<>>
                  [] i < Len(ts) /\ ts[i].t = ":" -> <<Char(" ")>>
                  [] OTHER -> layout.gap
  IN  FlattenSeq([i \in DOMAIN ts |-> Spelled(ts[i]) \o Gap(i)])

Layouts ==
  {[gap |-> <<Char(" ")>>, comma |-> TRUE], [gap |-> <<Char("\n"), Char("\t")>>, comma |-> FALSE],
   [gap |-> <<Char(" "), Char(";"), Piece("word", "end", 0), Char("}"), Char("\n")>>,
    comma |-> TRUE]}
OneLayout == {[gap |-> <<Char(" ")>>, comma |-> TRUE]}

Written(progs, layouts) ==
  {[text |-> Text(p, l), program |-> p, whole |-> TRUE] : p \in progs, l \in layouts}

\* A text that breaks off, also within a string.
Broken(t, n) ==
  [i \in 1 .. n |-> IF i = n /\ t[i].c = "quoted" THEN Piece("unclosed", "", 0) ELSE t[i]]
BrokenOff(progs) ==
  UNION {LET t == Text(p, l)
         IN  {[text |-> Broken(t, n), program |-> p, whole |-> FALSE] :
                n \in {n \in 1 .. Len(t) - 1 : n > 0}} : p \in progs, l \in OneLayout}

Small ==
  [structs |-> <<Point>>, functions |-> <<Main_(<<>>,
     <<Puts(<<S("s")>>), Of("while", "", <<a, Let("a", N(1))>>), Return(b)>>)>>]

MCSources ==
  Written(OneStatement \cup TwoStatements \cup Loops \cup Calculations, OneLayout)
    \cup Written(Others \cup {Small, Prog(<<Sum>>)} \cup {Short(m) : m \in Effects}, Layouts)
    \cup BrokenOff({Small, Prog(<<Minus>>)})

\* The test comparison_eq_ints of vm.rs.
EqTest ==
  Written({Prog(<<Main_(<<>>, <<Let("r", Bin("eq", N(4), N(4))), Return(R("r"))>>)>>)}, OneLayout)

\* The trees of the texts.
MCPrograms ==
  {t \in {parse(tokenize(s.text)) : s \in {s \in MCSources \cup EqTest : Lexes(s.text)}} : t.ok}
=============================================================================
