----------------------------- MODULE RustParser -----------------------------
(***************************************************************************)
(* parse (rust_version/src/parser.rs), recursive descent.  A parser is its *)
(* tokens, the position, the register names of the function so far, the    *)
(* nodes made and not yet part of another one, and whether all went well:  *)
(* after an error nothing moves any more, as with the ? of the code.       *)
(***************************************************************************)
EXTENDS RustAst

Parser(tokens) == [tokens |-> tokens, pos |-> 1, names |-> <<>>, made |-> <<>>, ok |-> TRUE]

Peek(p) == p.tokens[p.pos]
Sees(p, kinds) == Peek(p).t \in kinds
Advance(p) == IF p.pos < Len(p.tokens) THEN [p EXCEPT !.pos = @ + 1] ELSE p
Fail(p) == [p EXCEPT !.ok = FALSE]

\* expect, expect_ident, expect_reg, expect_func
Expect(p, kind) ==
  IF ~p.ok THEN p ELSE IF Sees(p, {kind}) THEN Advance(p) ELSE Fail(p)
Skip(p, kind) == IF p.ok /\ Sees(p, {kind}) THEN Advance(p) ELSE p

Push(p, node) == IF p.ok THEN [p EXCEPT !.made = Append(@, node)] ELSE p

\* One node over all that q has made since p.
Made(p, q) == SubSeq(q.made, Len(p.made) + 1, Len(q.made))
Build(p, q, k, s) ==
  IF q.ok THEN [q EXCEPT !.made = Append(p.made, Node(k, s, 0, Made(p, q)))] ELSE q

\* Mutant: the map of names only remembers the last one.
InternLast(names, name) ==
  IF names # <<>> /\ Last(names) = name THEN names ELSE Append(names, name)

\* RegMap.intern: a new name gets the next number.
Intern(names, name) == IF Contains(names, name) THEN names ELSE Append(names, name)
NumberOf(names, name) == SelectInSeq(names, LAMBDA x : x = name) - 1

Reg(p) ==
  LET q == Expect(p, "Reg")
      names == Intern(p.names, Peek(p).s)
  IN  IF ~q.ok THEN q
      ELSE Push([q EXCEPT !.names = names], Register(NumberOf(names, Peek(p).s)))

\* A name as a node of its own, for a type, a label or a struct.
Identifier(p, k) == LET q == Expect(p, "Ident") IN IF q.ok THEN Push(q, Leaf(k, Peek(p).s)) ELSE q

parse_ty(p) ==
  IF ~p.ok THEN p
  ELSE IF Sees(p, Types) THEN Push(Advance(p), Leaf("type", Peek(p).t)) ELSE Identifier(p, "type")

-----------------------------------------------------------------------------
(* The items of a list, up to its closing token; arguments and parameters  *)
(* may be followed by a comma, which is not required.                      *)
Closing(item) == IF item \in {"argument", "parameter"} THEN ")" ELSE "}"

RECURSIVE parse_expr(_), parse_stmt(_), Item(_, _), Items(_, _)

Comma(p, item) == IF Closing(item) = ")" THEN Skip(p, ",") ELSE p

\* Mutant: a list also ends where the text ends.
ItemsOrEnd(p, item) ==
  IF ~p.ok \/ Sees(p, {Closing(item), "Eof"}) THEN Skip(p, Closing(item))
  ELSE Items(Comma(Item(p, item), item), item)

Items(p, item) ==
  IF ~p.ok \/ Sees(p, {Closing(item)}) THEN Expect(p, Closing(item))
  ELSE Items(Comma(Item(p, item), item), item)

Item(p, item) ==
  LET s == Peek(p).s
  IN  CASE item = "argument" -> parse_expr(p)
        [] item = "statement" -> parse_stmt(p)
        [] item = "given" -> Build(p, parse_expr(Expect(Expect(p, "Ident"), ":")), "given", s)
        [] item = "field" -> Build(p, parse_ty(Expect(Expect(p, "Ident"), ":")), "field", s)
        [] item = "parameter" ->
             LET q == Reg(p)
                 r == parse_ty(Expect([q EXCEPT !.made = p.made], ":"))
             IN  IF r.ok THEN [r EXCEPT !.made = Append(p.made,
                                 Node("param", s, Last(q.made).n, Made(p, r)))]
                 ELSE r

\* call name, then parse_args
Call(p) ==
  LET q == Advance(p)
      r == Advance(q)
      args == IF Sees(r, {"("}) THEN Items(Advance(r), "argument") ELSE r
  IN  IF Sees(q, {"Ident", "Func"}) THEN Build(p, args, "call", Peek(q).s) ELSE Fail(r)

parse_expr(p) ==
  LET t == Peek(p).t
      next == Advance(p)
      then(q) == parse_expr(Expect(q, ","))
  IN  CASE ~p.ok -> p
        [] p.ok /\ t \in Binary -> Build(p, then(parse_expr(next)), t, "")
        [] p.ok /\ t \in {"const", "alloc"} -> Build(p, parse_expr(next), t, "")
        [] p.ok /\ t = "call" -> Call(p)
        [] p.ok /\ t = "alloc_array" ->
             Build(p, then(Expect(next, "Ident")), t, Peek(next).s)
        [] p.ok /\ t = "get_index_ref" -> Build(p, then(Reg(next)), t, "")
        [] p.ok /\ t = "get_field_ref" ->
             LET q == Expect(Reg(next), ",") IN Build(p, Expect(q, "Ident"), t, Peek(q).s)
        [] p.ok /\ t = "load" -> Build(p, Reg(next), t, "")
        [] p.ok /\ t = "Int" -> Push(next, Node("Int", "", Peek(p).n, <<>>))
        [] p.ok /\ t = "Str" -> Push(next, Leaf("Str", Peek(p).s))
        [] p.ok /\ t = "Reg" ->
             LET q == Reg(p)
                 dot == Advance(q)
             IN  IF Sees(q, {"."}) THEN Build(p, Expect(dot, "Ident"), "Field", Peek(dot).s)
                 ELSE q
        [] p.ok /\ t = "Ident" ->
             IF Sees(next, {"{"})
             THEN Build(p, Items(Advance(next), "given"), "StructLit", Peek(p).s)
             ELSE Push(next, Leaf("Named", Peek(p).s))
        [] OTHER -> Fail(p)

parse_stmt(p) ==
  LET t == Peek(p).t
      next == Advance(p)
  IN  CASE ~p.ok -> p
        [] p.ok /\ t = "Reg" -> Build(p, parse_expr(Expect(Reg(p), "=")), "assign", "")
        [] p.ok /\ t = "set" ->
             LET q == Expect(Reg(next), ".")
             IN  Build(p, parse_expr(Expect(Expect(q, "Ident"), "=")), t, Peek(q).s)
        [] p.ok /\ t = "call" -> Call(p)
        [] p.ok /\ t = "ret" -> Build(p, parse_expr(next), t, "")
        [] p.ok /\ t = "while" ->
             LET cond == Expect(parse_expr(Expect(next, "(")), ")")
             IN  Build(p, Items(Expect(cond, "{"), "statement"), t, "")
        [] p.ok /\ t = "Label" -> Push(next, Leaf("label", Peek(p).s))
        [] p.ok /\ t = "jmp" -> Build(p, Expect(next, "Ident"), t, Peek(next).s)
        [] p.ok /\ t = "br_if" ->
             LET yes == Identifier(Expect(parse_expr(next), ","), "Named")
             IN  Build(p, Identifier(Expect(yes, ","), "Named"), t, "")
        [] p.ok /\ t = "store" -> Build(p, parse_expr(Expect(Reg(next), ",")), t, "")
        [] OTHER -> Fail(p)

-----------------------------------------------------------------------------
parse_struct(p) ==
  LET q == Expect(p, "struct")
  IN  Build(p, Items(Expect(Expect(q, "Ident"), "{"), "field"), "struct", Peek(q).s)

parse_params(p) == IF Sees(p, {"("}) THEN Items(Advance(p), "parameter") ELSE p

parse_return(p) ==
  IF p.ok /\ Sees(p, {":"}) THEN parse_ty(Advance(p)) ELSE Push(p, Leaf("type", "void"))

\* q has made the parameters, the type and the statements.
BuildFunction(name, q) ==
  LET ty == SelectInSeq(q.made, LAMBDA d : d.k = "type")
  IN  IF ~q.ok THEN q
      ELSE [q EXCEPT !.made = <<Function(name, SubSeq(@, 1, ty - 1), @[ty].s,
                                         SubSeq(@, ty + 1, Len(@)), Len(q.names))>>]

\* The names of registers start afresh.
parse_function(p) ==
  LET head == parse_params(Expect([p EXCEPT !.names = <<>>], "Func"))
  IN  BuildFunction(Peek(p).s, Items(Expect(parse_return(head), "{"), "statement"))

\* One after another, the last one is in q.
RECURSIVE Declarations(_, _, _)
Declare(q, structs, functions) == Declarations([q EXCEPT !.made = <<>>], structs, functions)

Declarations(p, structs, functions) ==
  LET AddStruct(q) == Declare(q, structs \o q.made, functions)
      AddFunction(q) == Declare(q, structs, functions \o q.made)
  IN  CASE ~p.ok -> [ok |-> FALSE, structs |-> <<>>, functions |-> <<>>]
        [] p.ok /\ Sees(p, {"Eof"}) -> [ok |-> TRUE, structs |-> structs, functions |-> functions]
        [] p.ok /\ Sees(p, {"struct"}) -> AddStruct(parse_struct(p))
        [] p.ok /\ Sees(p, {"Func"}) -> AddFunction(parse_function(p))
        [] OTHER -> Declarations(Fail(p), <<>>, <<>>)

\* parse_program
parse(tokens) == Declarations(Parser(tokens), <<>>, <<>>)
=============================================================================
