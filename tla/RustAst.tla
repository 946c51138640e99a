------------------------------ MODULE RustAst -------------------------------
(***************************************************************************)
(* Tokens and the syntax tree of the Rust implementation (lexer.rs,        *)
(* ast.rs).  All nodes have one shape: a kind, a string (a name, a label,  *)
(* the text of a literal), a number (an integer, the number of a register) *)
(* and the nodes below, in the order in which the program text has them.   *)
(* In a source program registers have names, in a parsed one numbers.      *)
(***************************************************************************)
EXTENDS Integers, SequencesExt

Token(t, s, n) == [t |-> t, s |-> s, n |-> n]
Sign(t) == Token(t, "", 0)  \* punctuation and keywords

Keywords ==
  {"const", "add", "sub", "mul", "div", "lt", "gt", "eq", "ret", "call", "while",
   "alloc", "alloc_array", "set", "struct", "store", "load", "get_index_ref",
   "get_field_ref", "jmp", "br_if", "int", "void", "string", "bool"}

Punctuation == {"{", "}", "(", ")", ":", ",", ".", "="}

Binary == {"add", "sub", "mul", "div", "lt", "gt", "eq"}
Types == {"int", "void", "string", "bool"}

Node(k, s, n, args) == [k |-> k, s |-> s, n |-> n, args |-> args]
Leaf(k, s) == Node(k, s, 0, <<>>)
Register(n) == Node("Reg", "", n, <<>>)

\* A function: its parameters are nodes "param" over a type.
Function(name, params, ty, body, n_regs) ==
  [name |-> name, params |-> params, ret_ty |-> ty, body |-> body, n_regs |-> n_regs]
=============================================================================
