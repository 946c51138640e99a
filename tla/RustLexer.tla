----------------------------- MODULE RustLexer ------------------------------
(***************************************************************************)
(* tokenize (rust_version/src/lexer.rs).  A text is a sequence of pieces:  *)
(* a word (letters, digits and _), digits, a quoted string with its        *)
(* closing quote or without, or a single character.                        *)
(***************************************************************************)
EXTENDS RustAst

CONSTANT WordMax  \* the largest i64

Piece(c, s, n) == [c |-> c, s |-> s, n |-> n]
Char(c) == Piece(c, "", 0)

Blank == {" ", "\t", "\r", "\n"}
LineEnd == {"\n", "\r", ";"}
Bad == Sign("error")

Is(text, i, kinds) == i \in DOMAIN text /\ text[i].c \in kinds

\* The first position from i on whose piece is not of these kinds.
Beyond(text, i, kinds) ==
  CHOOSE k \in i .. Len(text) + 1 :
    ~Is(text, k, kinds) /\ \A j \in i .. k - 1 : Is(text, j, kinds)

\* Blanks, and comments up to the newline.
Ignored(text) ==
  LET Comment(i) == {k \in i .. Len(text) : \A j \in i .. k : text[j].c # "\n"}
  IN  {i \in DOMAIN text : text[i].c \in Blank}
        \cup UNION {Comment(i) : i \in {i \in DOMAIN text : text[i].c = ";"}}

\* A word is a label when a colon is the last thing on its line.
IsLabel(text, i) ==
  /\ Is(text, i + 1, {":"})
  /\ LET k == Beyond(text, i + 2, {" "}) IN k > Len(text) \/ Is(text, k, LineEnd)

\* A word that is neither the name of a register or function nor a keyword.
IsIdent(text, i) ==
  Is(text, i, {"word"}) /\ ~Is(text, i - 1, {"%", "@"}) /\ text[i].s \notin Keywords

\* Piece i is the rest of the token that piece i - 1 begins.
Continues(text, i) ==
  \/ Is(text, i, {"word"}) /\ Is(text, i - 1, {"%", "@"})
  \/ Is(text, i, {"digits"}) /\ Is(text, i - 1, {"-"})
  \/ Is(text, i, {":"}) /\ IsIdent(text, i - 1) /\ IsLabel(text, i - 1)

TokenAt(text, i) ==
  LET u == text[i]
      next == text[i + 1]
      name == IF Continues(text, i + 1) THEN next.s ELSE ""  \* read_ident
  IN  CASE u.c \in Punctuation -> Sign(u.c)
        [] u.c = "quoted" -> Token("Str", u.s, 0)
        [] u.c = "%" -> Token("Reg", name, 0)
        [] u.c = "@" -> Token("Func", name, 0)
        [] u.c = "digits" /\ u.n <= WordMax -> Token("Int", "", u.n)
        [] u.c = "-" /\ Continues(text, i + 1) /\ next.n <= WordMax -> Token("Int", "", -next.n)
        [] u.c = "word" /\ u.s \in Keywords -> Sign(u.s)
        [] u.c = "word" /\ u.s \notin Keywords ->
             Token(IF IsLabel(text, i) THEN "Label" ELSE "Ident", u.s, 0)
        [] OTHER -> Bad  \* an unclosed string, too large a number, another character

tokenize(text) ==
  LET ignored == Ignored(text)
      begins == SelectSeq([i \in DOMAIN text |-> i],
                          LAMBDA i : i \notin ignored /\ ~Continues(text, i))
  IN  [k \in DOMAIN begins |-> TokenAt(text, begins[k])] \o <<Sign("Eof")>>

Lexes(text) == ~Contains(tokenize(text), Bad)
=============================================================================
