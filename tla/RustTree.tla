------------------------------ MODULE RustTree ------------------------------
(***************************************************************************)
(* The trees that parser.rs makes, as the two back ends take them: what is *)
(* below a node and which nodes a back end calls itself for.               *)
(***************************************************************************)
EXTENDS RustAst

CONSTANTS
  Programs,  \* the trees of programs
  Parts(_)   \* all the nodes in a function's body

ExprKinds == Binary \cup
  {"Reg", "Int", "Str", "Named", "const", "Field", "alloc", "alloc_array", "get_index_ref",
   "get_field_ref", "load", "StructLit", "call"}
StmtKinds == {"assign", "set", "store", "call", "ret", "while", "label", "jmp", "br_if"}

(* What is below a node, and which registers it names, n being the number  *)
(* of registers of the function.                                           *)
AsParsed(e, n) ==
  LET Are(kinds, js) == \A j \in js : e.args[j].k \in kinds
  IN  CASE e.k = "Reg" -> e.n \in 0 .. n - 1
        [] e.k \in {"Field", "get_field_ref", "load"} -> Len(e.args) = 1 /\ Are({"Reg"}, {1})
        [] e.k \in {"const", "alloc", "alloc_array", "ret", "given"} ->
             Len(e.args) = 1 /\ Are(ExprKinds, {1})
        [] e.k \in Binary -> Len(e.args) = 2 /\ Are(ExprKinds, {1, 2})
        [] e.k \in {"get_index_ref", "assign", "set", "store"} ->
             Len(e.args) = 2 /\ Are({"Reg"}, {1}) /\ Are(ExprKinds, {2})
        [] e.k = "call" -> Are(ExprKinds, 1 .. Len(e.args))
        [] e.k = "StructLit" -> Are({"given"}, 1 .. Len(e.args))
        [] e.k = "while" ->
             e.args # <<>> /\ Are(ExprKinds, {1}) /\ Are(StmtKinds, 2 .. Len(e.args))
        [] e.k = "br_if" -> Len(e.args) = 3 /\ Are(ExprKinds, {1}) /\ Are({"Named"}, {2, 3})
        [] OTHER -> TRUE

IsTable(s) == Len(s) \in Nat /\ DOMAIN s = 1 .. Len(s)

ASSUME TreeAssumption ==
  \A p \in Programs :
    /\ IsTable(p.structs) /\ \A i \in DOMAIN p.structs : IsTable(p.structs[i].args)
    /\ IsTable(p.functions)
    /\ \A i \in 1 .. Len(p.functions) : LET f == p.functions[i] IN
         /\ f.n_regs \in Nat /\ f.name \in STRING /\ f.ret_ty \in STRING
         /\ IsTable(f.params) /\ \A k \in DOMAIN f.params : f.params[k].s \in STRING
         /\ f.body \in Seq({e \in Parts(f) : e.k \in StmtKinds})
         /\ \A e \in Parts(f) :
              /\ e \in [k : ExprKinds \cup StmtKinds \cup {"given"}, s : STRING, n : Int,
                        args : Seq(Parts(f))]
              /\ AsParsed(e, f.n_regs)

-----------------------------------------------------------------------------
(* The nodes below e that a back end calls itself for, in order.  The body *)
(* of a function is a node of its own, over its statements.                *)
NumKids(e) ==
  CASE e.k \in {"Reg", "Int", "Str", "Named", "Field", "get_field_ref", "load", "label", "jmp"} -> 0
    [] e.k \in Binary -> 2
    [] e.k \in {"call", "StructLit", "while", "body"} -> Len(e.args)
    [] OTHER -> 1

Kid(e, j) ==
  CASE e.k = "StructLit" -> e.args[j].args[1]
    [] e.k \in {"get_index_ref", "assign", "set", "store"} -> e.args[2]
    [] OTHER -> e.args[j]

\* f: a call for the node f.e, which has the results f.got of the first ones.
NextIsStmt(f) == f.e.k = "body" \/ (f.e.k = "while" /\ f.got # <<>>)

\* Tables in which nothing is twice: constants, strings and names.
IndexOf(seq, x) == (CHOOSE i \in DOMAIN seq : seq[i] = x) - 1
With(seq, x) == IF Contains(seq, x) THEN seq ELSE Append(seq, x)
=============================================================================
