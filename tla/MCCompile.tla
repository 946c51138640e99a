------------------------------ MODULE MCCompile -----------------------------
(* Expressions over two registers: every operator over atoms, and over     *)
(* atoms, some sums and a call.                                            *)
EXTENDS Compile, SequencesExt

One(k, v, a) == Append(a, [k |-> k, v |-> v, args |-> <<Len(a)>>])

Shift(e, d) ==
  [i \in DOMAIN e |-> [e[i] EXCEPT !.args = [j \in DOMAIN @ |-> @[j] + d]]]

Two(k, a, b) ==
  Append(a \o Shift(b, Len(a)), [k |-> k, v |-> 0, args |-> <<Len(a), Len(a) + Len(b)>>])

MCRegs == {0, 1}
Leaf(k, v) == <<[k |-> k, v |-> v, args |-> <<>>]>>
Atoms == {Leaf("reg", r) : r \in MCRegs} \cup {Leaf("int", 0), Leaf("load", 1)}

Over(es) ==
  {One("of", 0, a) : a \in es} \cup {One("index", r, a) : r \in MCRegs, a \in es} \cup
  {Two(k, a, b) : k \in {"bin", "eq", "call", "lit"}, a \in es, b \in es}

\* Sums and a call that need a scratch register, two, none, and three levels.
Load == Leaf("load", 1)
Inner ==
  Atoms \cup {Two("bin", Load, Load), Two("bin", Leaf("reg", 0), Leaf("int", 0)),
              Two("call", Leaf("int", 0), Leaf("reg", 1)),
              Two("bin", Two("bin", Load, Load), Two("eq", Load, Leaf("reg", 0)))}

MCExprs == Atoms \cup {Leaf("get", r) : r \in MCRegs} \cup Over(Inner)

MCApply(k, c, vs) == FoldLeft(LAMBDA acc, v : (2 * acc + v + 1) % 3, c, vs)
=============================================================================
