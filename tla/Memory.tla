------------------------------- MODULE Memory -------------------------------
(***************************************************************************)
(* What a Bear program may expect of its structs and arrays: every field   *)
(* of every struct and of every element of an array is a cell of its own,  *)
(* a reference names one element or one cell for ever, and what a load or  *)
(* a field access delivers is what was last stored there.  An instruction  *)
(* that has no such meaning is a fault, and ends the program.              *)
(***************************************************************************)
EXTENDS Integers, Sequences

CONSTANTS
  Structs,  \* the fields of each struct
  Regs,     \* the registers
  Ints      \* the integers

VARIABLES
  objects,  \* what was allocated: a struct, an array, or bytes
  cells,    \* the value of each cell <<object, element, field>>
  vals,     \* the value of each register
  end       \* "running", "fault", or "quit": the end for another reason

vars == <<objects, cells, vals, end>>

Void == <<"void">>
File == <<"file">>
Number(n) == <<"int", n>>
Object(i) == <<"object", i>>
Element(i, e) == <<"element", i, e>>
Cell(i, e, f) == <<"cell", i, e, f>>

Fields(s) == {Structs[s][p] : p \in DOMAIN Structs[s]}

Is(v, kind) == v[1] = kind
IsObject(v, kind) == Is(v, "object") /\ objects[v[2]].kind = kind

Init ==
  /\ objects = <<>>
  /\ cells = <<>>
  /\ vals = [r \in Regs |-> Void]
  /\ end = "running"

Give(d, v) == vals' = [vals EXCEPT ![d] = v] /\ UNCHANGED <<objects, cells, end>>
Put(c, v) == cells' = [cells EXCEPT ![c] = v] /\ UNCHANGED <<objects, vals, end>>
Fault == end' = "fault" /\ UNCHANGED <<objects, cells, vals>>
Quit == end' = "quit" /\ UNCHANGED <<objects, cells, vals>>

\* Values that are not made by an access to memory.
Plain(d) == \E v \in {File} \cup {Number(n) : n \in Ints} \cup {vals[r] : r \in Regs} : Give(d, v)

\* A new object of n elements of struct s; the cells of the first one that
\* have a value in given get it, all others are void.
New(d, kind, s, n, given) ==
  LET i == Len(objects) + 1
      mine == {<<i, e, f>> : e \in 0 .. n - 1, f \in Fields(s)}
  IN  /\ objects' = Append(objects, [kind |-> kind, struct |-> s, count |-> n])
      /\ cells' = [c \in DOMAIN cells \cup mine |->
                     IF c \notin mine THEN cells[c]
                     ELSE IF c[3] \in DOMAIN given THEN vals[given[c[3]]] ELSE Void]
      /\ vals' = [vals EXCEPT ![d] = Object(i)]
      /\ UNCHANGED end

NewBytes(d) == New(d, "bytes", 1, 0, <<>>)

NewArray(d, s, r) ==
  IF Is(vals[r], "int") THEN New(d, "array", s, vals[r][2], <<>>) ELSE Fault

NewStruct(d, s, given) ==
  IF DOMAIN given \subseteq Fields(s) THEN New(d, "struct", s, 1, given) ELSE Fault

Index(d, a, b) ==
  IF /\ IsObject(vals[a], "array")
     /\ Is(vals[b], "int")
     /\ vals[b][2] \in 0 .. objects[vals[a][2]].count - 1
  THEN Give(d, Element(vals[a][2], vals[b][2]))
  ELSE Fault

\* The cell that field f of the value of register a is, or "none".
CellOf(a, f) ==
  LET v == vals[a]
      c == <<v[2], IF Is(v, "element") THEN v[3] ELSE 0, f>>
  IN  IF (Is(v, "element") \/ IsObject(v, "struct")) /\ c \in DOMAIN cells THEN c ELSE <<>>

FieldRef(d, a, f) ==
  LET c == CellOf(a, f) IN IF c = <<>> THEN Fault ELSE Give(d, Cell(c[1], c[2], c[3]))

Load(d, a) ==
  IF Is(vals[a], "cell") THEN Give(d, cells[Tail(vals[a])]) ELSE Fault

Store(r, a) ==
  IF Is(vals[r], "cell") THEN Put(Tail(vals[r]), vals[a]) ELSE Fault

GetField(d, a, f) ==
  IF IsObject(vals[a], "struct") /\ CellOf(a, f) # <<>>
  THEN Give(d, cells[CellOf(a, f)])
  ELSE Fault

SetField(r, f, a) ==
  IF IsObject(vals[r], "struct") /\ CellOf(r, f) # <<>>
  THEN Put(CellOf(r, f), vals[a])
  ELSE Fault

AllFields == UNION {Fields(s) : s \in DOMAIN Structs}

Instruction(d) ==
  \/ Plain(d) \/ NewBytes(d)
  \/ \E s \in DOMAIN Structs, fs \in SUBSET AllFields :
       \E given \in [fs -> Regs] : NewStruct(d, s, given)
  \/ \E a \in Regs :
       \/ Load(d, a) \/ Store(d, a)
       \/ \E s \in DOMAIN Structs : NewArray(d, s, a)
       \/ \E b \in Regs : Index(d, a, b)
       \/ \E f \in AllFields : FieldRef(d, a, f) \/ GetField(d, a, f) \/ SetField(d, f, a)

Next == end = "running" /\ (Quit \/ \E d \in Regs : Instruction(d))

Spec == Init /\ [][Next]_vars
=============================================================================
