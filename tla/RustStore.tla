----------------------------- MODULE RustStore ------------------------------
(***************************************************************************)
(* The heap, the references and the file table of the Rust virtual machine *)
(* (exec_func and exec_builtin in rust_version/src/vm.rs), driven by a     *)
(* program that executes the instructions on them in any order.            *)
(*                                                                         *)
(* A slot is a tag and a number.  A reference packs a kind bit, a heap     *)
(* index, an element index and a field position into that number, each in  *)
(* a range of its own.  The heap only grows; the file table reuses slots.  *)
(***************************************************************************)
EXTENDS Integers, Sequences

CONSTANTS
  Structs,     \* the fields of each struct; struct_id counts from 0
  TargetRange, \* heap indexes a reference has room for: 2^31
  IndexRange,  \* element indexes: 2^16
  FieldRange,  \* field positions, and REF_NO_FIELD: 2^16
  Regs,        \* the registers
  Ints,        \* integers of the program, none of them negative
  Stored,      \* bound: slots that the program puts in fields
  MaxHeap,     \* bound: heap values
  MaxOpens,    \* bound: files opened
  Liberties    \* what programs may do: "longArrays", "anyArray", "staleClose"

NoField == FieldRange - 1

ASSUME StoreAssumption ==
  /\ Structs \in Seq(Seq(STRING)) /\ Structs # <<>>
  /\ \A s \in DOMAIN Structs :
       /\ Len(Structs[s]) < FieldRange
       /\ \A p, q \in DOMAIN Structs[s] : Structs[s][p] = Structs[s][q] => p = q
  /\ TargetRange \in Nat \ {0} /\ IndexRange \in Nat \ {0} /\ FieldRange \in Nat \ {0}
  /\ Ints \subseteq Nat /\ MaxHeap \in 0 .. TargetRange /\ MaxOpens \in Nat
  /\ Liberties \subseteq {"longArrays", "anyArray", "staleClose"}

VARIABLES
  heap,    \* heap: rows of slots, one for a struct, one per element of an array
  regs,    \* the slot of each register
  files,   \* files: the open number of the file in each slot, or Closed
  opens,   \* number of files opened
  dead,    \* the opens whose handle the program has closed
  status   \* "running", "quit", "fault" or "panic": an error of an instruction
           \* on memory or of another one, or a failed bounds check

vars == <<heap, regs, files, opens, dead, status>>

Closed == [open |-> 0, mode |-> "none"]
Void == [tag |-> "void", n |-> 0]
IntSlot(n) == [tag |-> "int", n |-> n]
HeapSlot(i) == [tag |-> "heap", n |-> i]
File(fd, k) == [tag |-> "file", n |-> fd, open |-> k]  \* `open` is history

-----------------------------------------------------------------------------
(* References.                                                             *)
Ref(kind, target, elem, field) ==
  [tag |-> "ref",
   n |-> ((kind * TargetRange + target) * IndexRange + elem) * FieldRange + field]

RefArray(target, elem, field) == Ref(0, target, elem, field)
RefStruct(target, field) == Ref(1, target, 0, field)

\* Mutant: the mask of the element index is one bit short.
UnpackNarrow(v) ==
  LET elems == v \div FieldRange
      targets == elems \div IndexRange
  IN  [isStruct |-> targets \div TargetRange = 1, target |-> targets % TargetRange,
       elem |-> elems % (IndexRange \div 2), field |-> v % FieldRange]

\* unpack_ref
Unpack(v) ==
  LET elems == v \div FieldRange
      targets == elems \div IndexRange
  IN  [isStruct |-> targets \div TargetRange = 1, target |-> targets % TargetRange,
       elem |-> elems % IndexRange, field |-> v % FieldRange]

\* The layout of a struct: its number of fields, and where a field is.
NumFields(id) == Len(Structs[id + 1])
HasField(id, f) == \E p \in DOMAIN Structs[id + 1] : Structs[id + 1][p] = f
Position(id, f) == (CHOOSE p \in DOMAIN Structs[id + 1] : Structs[id + 1][p] = f) - 1

At(i) == heap[i + 1]
IsHeap(s, kind) == s.tag = "heap" /\ At(s.n).kind = kind
IsInt(s) == s.tag = "int"

Init ==
  /\ heap = <<>>
  /\ regs = [r \in Regs |-> Void]
  /\ files = <<>> /\ opens = 0 /\ dead = {}
  /\ status = "running"

Ended(how) == status' = how /\ UNCHANGED <<heap, regs, files, opens, dead>>

Put(d, s) ==
  /\ regs' = [regs EXCEPT ![d] = s]
  /\ UNCHANGED <<heap, files, opens, dead, status>>

\* Mutant: the index is taken after the push.
AllocHeapPast(d, v) ==
  /\ Len(heap) < MaxHeap
  /\ heap' = Append(heap, v)
  /\ regs' = [regs EXCEPT ![d] = HeapSlot(Len(heap) + 1)]
  /\ UNCHANGED <<files, opens, dead, status>>

\* alloc_heap
AllocHeap(d, v) ==
  /\ Len(heap) < MaxHeap
  /\ heap' = Append(heap, v)
  /\ regs' = [regs EXCEPT ![d] = HeapSlot(Len(heap))]
  /\ UNCHANGED <<files, opens, dead, status>>

Write(i, row, field, s) ==
  /\ s \in Stored
  /\ heap' = [heap EXCEPT ![i + 1].rows[row + 1][field + 1] = s]
  /\ UNCHANGED <<regs, files, opens, dead, status>>

-----------------------------------------------------------------------------
(* Instructions that make values.                                          *)
LoadInt(d) == \E n \in Ints : Put(d, IntSlot(n))
Move(d, a) == Put(d, regs[a])

Bytes(kind) == [kind |-> kind, id |-> 0, rows |-> <<>>]
LoadStr(d) == AllocHeap(d, Bytes("str"))
AllocBytes(d, a) == IF IsInt(regs[a]) THEN AllocHeap(d, Bytes("ptr")) ELSE Ended("quit")

VoidRow(id) == [p \in 1 .. NumFields(id) |-> Void]

AllocArrayStruct(d, a, id) ==
  IF ~IsInt(regs[a]) THEN Ended("fault")
  ELSE /\ regs[a].n <= IndexRange \/ "longArrays" \in Liberties
       /\ AllocHeap(d, [kind |-> "array", id |-> id,
                        rows |-> [e \in 1 .. regs[a].n |-> VoidRow(id)]])

\* given is the register of each field that the literal names.
StructLit(d, id, given) ==
  IF \E f \in DOMAIN given : ~HasField(id, f) THEN Ended("fault")
  ELSE LET FieldAt(p) == Structs[id + 1][p]
           row == [p \in 1 .. NumFields(id) |->
                     IF FieldAt(p) \in DOMAIN given THEN regs[given[FieldAt(p)]] ELSE Void]
       IN  /\ \A f \in DOMAIN given : regs[given[f]] \in Stored
           /\ AllocHeap(d, [kind |-> "struct", id |-> id, rows |-> <<row>>])

-----------------------------------------------------------------------------
(* Instructions on references and fields.                                  *)
\* Mutant: the index may be one past the last element.
GetIndexRefPast(d, a, b) ==
  IF /\ IsHeap(regs[a], "array") /\ IsInt(regs[b])
     /\ regs[b].n <= Len(At(regs[a].n).rows)
  THEN Put(d, RefArray(regs[a].n, regs[b].n % IndexRange, NoField))
  ELSE Ended("fault")

GetIndexRef(d, a, b) ==
  IF /\ IsHeap(regs[a], "array") /\ IsInt(regs[b])
     /\ regs[b].n < Len(At(regs[a].n).rows)
  THEN Put(d, RefArray(regs[a].n, regs[b].n % IndexRange, NoField))
  ELSE Ended("fault")

\* The layout of an element is looked up by the heap index of its array.
\* Without liberties programs use arrays for which that makes no difference.
FieldOfElement(d, ref, f) ==
  LET t == ref.target
  IN  IF ref.isStruct \/ ref.field # NoField THEN Ended("fault")
      ELSE /\ \/ t < Len(Structs) /\ Structs[t + 1] = Structs[At(t).id + 1]
              \/ "anyArray" \in Liberties
           /\ IF t >= Len(Structs) THEN Ended("panic")
              ELSE IF ~HasField(t, f) THEN Ended("fault")
              ELSE Put(d, RefArray(t, ref.elem, Position(t, f)))

GetFieldRef(d, a, f) ==
  LET s == regs[a]
  IN  IF s.tag = "ref" THEN FieldOfElement(d, Unpack(s.n), f)
      ELSE IF IsHeap(s, "struct") /\ HasField(At(s.n).id, f)
           THEN Put(d, RefStruct(s.n, Position(At(s.n).id, f)))
      ELSE Ended("fault")

\* The row a reference is into, from 0.
RowOf(ref) == IF ref.isStruct THEN 0 ELSE ref.elem

\* What load and store ask of a reference before they follow it.
Follows(s) ==
  s.tag = "ref" /\
  LET ref == Unpack(s.n)
  IN  /\ ref.field # NoField
      /\ At(ref.target).kind = IF ref.isStruct THEN "struct" ELSE "array"

LoadRef(d, a) ==
  LET ref == Unpack(regs[a].n)
      rows == At(ref.target).rows
      row == rows[RowOf(ref) + 1]
  IN  IF ~Follows(regs[a]) THEN Ended("fault")
      ELSE IF RowOf(ref) >= Len(rows) THEN Ended("panic")
      ELSE Put(d, IF ref.field < Len(row) THEN row[ref.field + 1] ELSE Void)

StoreRef(r, a) ==
  LET ref == Unpack(regs[r].n)
      rows == At(ref.target).rows
  IN  IF /\ Follows(regs[r])
         /\ RowOf(ref) < Len(rows)
         /\ ref.field < Len(rows[RowOf(ref) + 1])
      THEN Write(ref.target, RowOf(ref), ref.field, regs[a])
      ELSE Ended("fault")

GetField(d, a, f) ==
  LET s == regs[a]
  IN  IF IsHeap(s, "struct") /\ HasField(At(s.n).id, f)
      THEN Put(d, At(s.n).rows[1][Position(At(s.n).id, f) + 1])
      ELSE Ended("fault")

SetField(r, f, a) ==
  LET s == regs[r]
  IN  IF IsHeap(s, "struct") /\ HasField(At(s.n).id, f)
      THEN Write(s.n, 0, Position(At(s.n).id, f), regs[a])
      ELSE Ended("fault")

-----------------------------------------------------------------------------
(* Built-in functions on files.                                            *)
\* Mutant: the slot is not asked whether it is free.
FreeSlotAny == 0

\* alloc_file takes the lowest slot that holds no file.
FreeSlot ==
  IF \E i \in DOMAIN files : files[i] = Closed
  THEN (CHOOSE i \in DOMAIN files :
          files[i] = Closed /\ \A j \in DOMAIN files : files[j] = Closed => i <= j) - 1
  ELSE Len(files)

Open(d, a, b) ==
  /\ IsHeap(regs[a], "str") /\ IsInt(regs[b])
  /\ opens < MaxOpens
  /\ LET handle == [open |-> opens + 1, mode |-> IF regs[b].n = 0 THEN "read" ELSE "write"]
     IN  files' = IF FreeSlot = Len(files) THEN Append(files, handle)
                  ELSE [files EXCEPT ![FreeSlot + 1] = handle]
  /\ opens' = opens + 1
  /\ regs' = [regs EXCEPT ![d] = File(FreeSlot, opens + 1)]
  /\ UNCHANGED <<heap, dead, status>>

\* The slot of a handle holds a file that was opened in that mode.
Opened(s, mode) ==
  s.tag = "file" /\ s.n + 1 \in DOMAIN files /\ files[s.n + 1].mode = mode

Read(d, a, b) == Opened(regs[a], "read") /\ IsInt(regs[b]) /\ AllocHeap(d, Bytes("str"))

WriteFile(d, a, b) ==
  /\ Opened(regs[a], "write")
  /\ IsHeap(regs[b], "str") \/ IsHeap(regs[b], "ptr")
  /\ \E n \in Ints : Put(d, IntSlot(n))

\* Closing a slot that is closed already is not an error.  Without liberties
\* no program closes a file twice.
Close(a) ==
  /\ regs[a].tag = "file"
  /\ regs[a].open \notin dead \/ "staleClose" \in Liberties
  /\ files' = IF regs[a].n + 1 \in DOMAIN files THEN [files EXCEPT ![regs[a].n + 1] = Closed]
              ELSE files
  /\ dead' = dead \cup {regs[a].open}
  /\ UNCHANGED <<heap, regs, opens, status>>

\* An argument of the wrong type, a handle that does not fit, or the system.
BuiltinFails == Ended("quit")

AllFields == UNION {{Structs[s][p] : p \in DOMAIN Structs[s]} : s \in DOMAIN Structs}
Ids == 0 .. Len(Structs) - 1

Builtin ==
  \/ BuiltinFails
  \/ \E a \in Regs : Close(a)
  \/ \E d, a, b \in Regs : Open(d, a, b) \/ Read(d, a, b) \/ WriteFile(d, a, b)

Instruction(d) ==
  \/ LoadInt(d) \/ LoadStr(d)
  \/ \E id \in Ids, fs \in SUBSET AllFields : \E given \in [fs -> Regs] : StructLit(d, id, given)
  \/ \E a \in Regs :
       \/ Move(d, a) \/ AllocBytes(d, a) \/ LoadRef(d, a) \/ StoreRef(d, a)
       \/ \E id \in Ids : AllocArrayStruct(d, a, id)
       \/ \E b \in Regs : GetIndexRef(d, a, b)
       \/ \E f \in AllFields : GetFieldRef(d, a, f) \/ GetField(d, a, f) \/ SetField(d, f, a)

Next == status = "running" /\ (Builtin \/ \E d \in Regs : Instruction(d))

Spec == Init /\ [][Next]_vars

-----------------------------------------------------------------------------
(* What the slots of the VM stand for in a Bear program.                   *)
ValueOf(s) ==
  LET ref == Unpack(s.n)
      fields == Structs[At(ref.target).id + 1]
  IN  CASE s.tag = "heap" -> <<"object", s.n + 1>>
        [] s.tag = "int" -> <<"int", s.n>>
        [] s.tag = "ref" /\ ref.field = NoField -> <<"element", ref.target + 1, ref.elem>>
        [] s.tag = "ref" /\ ref.field # NoField ->
             <<"cell", ref.target + 1, RowOf(ref), fields[ref.field + 1]>>
        [] OTHER -> <<s.tag>>

Objects ==
  [i \in DOMAIN heap |->
     [kind |-> IF heap[i].kind \in {"str", "ptr"} THEN "bytes" ELSE heap[i].kind,
      struct |-> heap[i].id + 1, count |-> Len(heap[i].rows)]]

CellsOf(i) ==
  {<<i, e, Structs[heap[i].id + 1][p]>> : e \in 0 .. Len(heap[i].rows) - 1,
                                          p \in 1 .. NumFields(heap[i].id)}

Cells ==
  [c \in UNION {CellsOf(i) : i \in DOMAIN heap} |->
     ValueOf(heap[c[1]].rows[c[2] + 1][Position(heap[c[1]].id, c[3]) + 1])]

M == INSTANCE Memory WITH
  objects <- Objects, cells <- Cells, vals <- [r \in Regs |-> ValueOf(regs[r])],
  end <- IF status = "panic" THEN "fault" ELSE status

(* Programs see a memory: every load and field access delivers what was    *)
(* last stored in that field of that element, through whatever reference,  *)
(* and only instructions that mean nothing fail.                           *)
ImplementsMemory == M!Spec

(* No failed bounds check: references and layouts always fit the heap.     *)
NoPanic == status # "panic"

\* The slots of a heap value, and all slots there are.
SlotsOf(v) == UNION {{v.rows[e][p] : p \in DOMAIN v.rows[e]} : e \in DOMAIN v.rows}
Held == {regs[r] : r \in Regs} \cup UNION {SlotsOf(heap[i]) : i \in DOMAIN heap}

(* A file handle that was not closed finds the file that its open opened,  *)
(* in whichever registers and fields the handle was copied to.             *)
HandleWorks(s) ==
  s.tag = "file" /\ s.open \notin dead =>
    s.n + 1 \in DOMAIN files /\ files[s.n + 1].open = s.open

OpenHandlesWork == \A s \in Held : HandleWorks(s)

-----------------------------------------------------------------------------
(* Why both hold.                                                          *)
Slot ==
  [tag : {"void", "int", "heap", "ref"}, n : Nat] \cup [tag : {"file"}, n : Nat, open : Nat]
HeapValue ==
  [kind : {"str", "ptr", "struct", "array"}, id : Ids, rows : Seq(Seq(Slot))]

Types ==
  /\ heap \in Seq(HeapValue) /\ Len(heap) <= MaxHeap
  /\ regs \in [Regs -> Slot]
  /\ files \in Seq([open : 0 .. opens, mode : {"none", "read", "write"}])
  /\ opens \in Nat
  /\ dead \subseteq Nat
  /\ status \in {"running", "quit", "fault", "panic"}

\* A struct is one row; every row has a slot for each field.
WellFormed(v) ==
  /\ v.kind = "struct" => Len(v.rows) = 1
  /\ Len(v.rows) <= IndexRange \/ "longArrays" \in Liberties
  /\ \A e \in DOMAIN v.rows : Len(v.rows[e]) = NumFields(v.id)

\* What a reference decodes to is a row, or a field of one, that exists.
RefFits(ref) ==
  /\ ref.target < Len(heap)
  /\ At(ref.target).kind = (IF ref.isStruct THEN "struct" ELSE "array")
  /\ RowOf(ref) < Len(At(ref.target).rows)
  /\ IF ref.field = NoField THEN ~ref.isStruct ELSE ref.field < NumFields(At(ref.target).id)

Fits(s) ==
  /\ s.tag = "heap" => s.n < Len(heap)
  /\ s.tag = "ref" => RefFits(Unpack(s.n))
  /\ s.tag = "file" => s.open \in 1 .. opens

(* Every slot, wherever the program has copied it and however long ago it  *)
(* was made, still fits the heap and the file table.                       *)
StoreInv ==
  /\ Types
  /\ \A i \in DOMAIN heap : WellFormed(heap[i])
  /\ \A s \in Held : Fits(s) /\ HandleWorks(s)
  /\ NoPanic
=============================================================================
