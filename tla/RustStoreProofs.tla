-------------------------- MODULE RustStoreProofs ---------------------------
(***************************************************************************)
(* StoreInv is inductive for heaps, arrays and file tables of any size and *)
(* references with ranges of any size, if programs take fields of elements *)
(* only where the layout is the array's, and close no handle twice.        *)
(***************************************************************************)
EXTENDS RustStore, SequenceTheorems, WellFoundedInduction, TLAPS

-----------------------------------------------------------------------------
(* Packing.                                                                *)
LEMMA Nonlinear ==
  ASSUME NEW n \in Nat \ {0}, NEW q \in Int, NEW c \in Int, q < c
  PROVE  q * n + n <= c * n
<1>1. PICK d \in Nat : c = q + 1 + d BY SMT
<1>2. c * n = q * n + n + d * n BY <1>1, SMT
<1>3. d * n >= 0 BY SMT
<1>. QED BY <1>2, <1>3, SMT

\* A number below n that was added to a multiple of n comes off again.
LEMMA DivMod ==
  ASSUME NEW n \in Nat \ {0}, NEW c \in Nat, NEW b \in 0 .. n - 1
  PROVE  (c * n + b) \div n = c /\ (c * n + b) % n = b
<1> DEFINE x == c * n + b
           q == x \div n
           r == x % n
<1>1. x \in Nat BY SMT
<1>2. q \in Int /\ r \in 0 .. n - 1 /\ x = q * n + r BY <1>1, SMT
<1>3. ~(q < c) BY <1>2, Nonlinear, SMT
<1>4. ~(c < q) BY <1>2, Nonlinear, SMT
<1>. QED BY <1>2, <1>3, <1>4, SMT

LEMMA ModSmall ==
  ASSUME NEW n \in Nat \ {0}, NEW x \in Nat
  PROVE  x % n \in 0 .. n - 1 /\ x % n <= x
<1> DEFINE q == x \div n
           r == x % n
<1>1. q \in Int /\ r \in 0 .. n - 1 /\ x = q * n + r BY SMT
<1>2. q \in Nat BY SMT
<1>. HIDE DEF q, r
<1>3. q * n \in Nat BY <1>2, SMT
<1>4. r <= x BY <1>1, <1>3, SMT
<1>. QED BY <1>1, <1>4 DEF r

LEMMA MulNat == ASSUME NEW c \in Nat, NEW n \in Nat PROVE c * n \in Nat
BY SMT

\* unpack_ref gives back what ref_array and ref_struct were given.
LEMMA Unpacked ==
  ASSUME NEW k \in {0, 1}, NEW t \in 0 .. TargetRange - 1, NEW e \in 0 .. IndexRange - 1,
         NEW f \in 0 .. FieldRange - 1
  PROVE  /\ Ref(k, t, e, f).n \in Nat
         /\ Unpack(Ref(k, t, e, f).n) = [isStruct |-> k = 1, target |-> t, elem |-> e, field |-> f]
<1> DEFINE kt == k * TargetRange + t
           kte == kt * IndexRange + e
           v == kte * FieldRange + f
<1>1. TargetRange \in Nat \ {0} /\ IndexRange \in Nat \ {0} /\ FieldRange \in Nat \ {0}
  BY StoreAssumption
<1>2. k \in Nat /\ t \in Nat /\ e \in Nat /\ f \in Nat
  BY <1>1, SMT
<1>3. kt \in Nat
  <2>1. k * TargetRange \in Nat BY <1>1, <1>2, MulNat
  <2>. QED BY <1>2, <2>1, SMT
<1>4. kte \in Nat
  <2>1. kt * IndexRange \in Nat BY <1>1, <1>3, MulNat
  <2>. HIDE DEF kt
  <2>. QED BY <1>2, <2>1, SMT
<1>5. v \in Nat
  <2>1. kte * FieldRange \in Nat BY <1>1, <1>4, MulNat
  <2>. HIDE DEF kte
  <2>. QED BY <1>2, <2>1, SMT
<1>6. kt \div TargetRange = k /\ kt % TargetRange = t
  BY <1>1, <1>2, DivMod
<1>7. kte \div IndexRange = kt /\ kte % IndexRange = e
  <2>. HIDE DEF kt
  <2>. QED BY <1>1, <1>3, DivMod
<1>8. v \div FieldRange = kte /\ v % FieldRange = f
  <2>. HIDE DEF kte
  <2>. QED BY <1>1, <1>4, DivMod
<1>9. Ref(k, t, e, f).n = v
  BY DEF Ref
<1>. HIDE DEF kt, kte, v
<1>. QED BY <1>5, <1>6, <1>7, <1>8, <1>9 DEF Unpack

-----------------------------------------------------------------------------
(* Slots and the heap.                                                     *)
Good(s) == s \in Slot /\ Fits(s) /\ HandleWorks(s)

LEMMA HeapTyped ==
  ASSUME Types
  PROVE  /\ Len(heap) \in Nat /\ DOMAIN heap = 1 .. Len(heap)
         /\ \A i \in DOMAIN heap : heap[i] \in HeapValue
<1>. QED BY LenProperties, ElementOfSeq DEF Types

LEMMA RowsTyped ==
  ASSUME NEW v \in HeapValue
  PROVE  /\ v = [kind |-> v.kind, id |-> v.id, rows |-> v.rows]
         /\ v.rows \in Seq(Seq(Slot)) /\ Len(v.rows) \in Nat
         /\ DOMAIN v.rows = 1 .. Len(v.rows)
         /\ \A e \in DOMAIN v.rows :
              /\ v.rows[e] \in Seq(Slot) /\ Len(v.rows[e]) \in Nat
              /\ DOMAIN v.rows[e] = 1 .. Len(v.rows[e])
              /\ \A p \in DOMAIN v.rows[e] : v.rows[e][p] \in Slot
<1>1. v = [kind |-> v.kind, id |-> v.id, rows |-> v.rows] /\ v.rows \in Seq(Seq(Slot))
  BY DEF HeapValue
<1>2. \A e \in DOMAIN v.rows : v.rows[e] \in Seq(Slot)
  BY <1>1, LenProperties, ElementOfSeq
<1>3. ASSUME NEW e \in DOMAIN v.rows, NEW p \in DOMAIN v.rows[e]
      PROVE  v.rows[e][p] \in Slot
  BY <1>2, <1>3, LenProperties, ElementOfSeq
<1>. QED BY <1>1, <1>2, <1>3, LenProperties

\* Of every kind of slot it holds what StoreInv says of the slots held.
LEMMA AllGood ==
  ASSUME StoreInv
  PROVE  \A s \in Held : Good(s)
<1>1. ASSUME NEW r \in Regs PROVE regs[r] \in Slot
  BY DEF StoreInv, Types
<1>2. ASSUME NEW i \in DOMAIN heap, NEW s \in SlotsOf(heap[i]) PROVE s \in Slot
  <2>1. heap[i] \in HeapValue
    BY HeapTyped DEF StoreInv
  <2>. QED BY <2>1, RowsTyped DEF SlotsOf
<1>3. \A s \in Held : s \in Slot
  BY <1>1, <1>2 DEF Held
<1>. QED BY <1>3 DEF StoreInv, Good

LEMMA RegGood ==
  ASSUME StoreInv, NEW r \in Regs
  PROVE  Good(regs[r])
<1>1. regs[r] \in Held BY DEF Held
<1>. QED BY <1>1, AllGood

\* Slots that hold no address fit always.
LEMMA PlainGood ==
  /\ Good(Void)
  /\ \A n \in Nat : Good(IntSlot(n))
<1>1. Good(Void)
  BY DEF Good, Void, Slot, Fits, HandleWorks
<1>2. ASSUME NEW n \in Nat PROVE Good(IntSlot(n))
  BY DEF Good, IntSlot, Slot, Fits, HandleWorks
<1>. QED BY <1>1, <1>2

\* What never changes in a heap: what there is, of which kind and size.
Grows ==
  /\ Len(heap) <= Len(heap')
  /\ \A i \in DOMAIN heap :
       /\ heap'[i].kind = heap[i].kind /\ heap'[i].id = heap[i].id
       /\ Len(heap'[i].rows) = Len(heap[i].rows)

LEMMA FitsStays ==
  ASSUME Types, Types', Grows, opens <= opens', NEW CONSTANT s \in Slot, Fits(s)
  PROVE  Fits(s)'
<1>1. /\ Len(heap) \in Nat /\ Len(heap') \in Nat /\ DOMAIN heap = 1 .. Len(heap)
      /\ opens \in Nat /\ opens' \in Nat
  BY HeapTyped, LenProperties DEF Types
<1>2. s.tag = "heap" => s.n < Len(heap')
  <2>1. s.tag = "heap" => s.n \in Nat BY DEF Slot
  <2>. QED BY <1>1, <2>1 DEF Fits, Grows
<1>3. s.tag = "file" => s.open \in 1 .. opens'
  BY <1>1 DEF Fits
<1>4. ASSUME s.tag = "ref" PROVE RefFits(Unpack(s.n))'
  <2> DEFINE ref == Unpack(s.n)
             t == ref.target
  <2>1. s.n \in Nat BY <1>4 DEF Slot
  <2>2. t \in Nat
    BY <2>1, StoreAssumption, SMT DEF Unpack
  <2>3. RefFits(ref) BY <1>4 DEF Fits
  <2>. HIDE DEF ref
  <2>4. t < Len(heap) /\ t + 1 \in DOMAIN heap
    BY <1>1, <2>2, <2>3 DEF RefFits
  <2>5. /\ t < Len(heap')
        /\ heap'[t + 1].kind = heap[t + 1].kind /\ heap'[t + 1].id = heap[t + 1].id
        /\ Len(heap'[t + 1].rows) = Len(heap[t + 1].rows)
    BY <1>1, <2>2, <2>4 DEF Grows
  <2>. QED BY <2>3, <2>5 DEF RefFits, At, RowOf, ref
<1>. QED BY <1>2, <1>3, <1>4 DEF Fits

-----------------------------------------------------------------------------
(* The ways in which steps change the state.                               *)
LEMMA Unchanged ==
  ASSUME StoreInv, UNCHANGED <<heap, regs, files, opens, dead>>, NoPanic', Types'
  PROVE  StoreInv'
<1>1. Held' = Held
  BY DEF Held
<1>2. \A i \in DOMAIN heap' : WellFormed(heap'[i])
  BY DEF StoreInv
<1>3. ASSUME NEW CONSTANT s \in Held PROVE Fits(s)' /\ HandleWorks(s)'
  BY <1>3 DEF StoreInv, Fits, RefFits, HandleWorks, At, RowOf
<1>. QED BY <1>1, <1>2, <1>3 DEF StoreInv

LEMMA EndedInv ==
  ASSUME StoreInv, NEW how \in {"quit", "fault"}, Ended(how)
  PROVE  StoreInv'
<1>1. Types' /\ NoPanic'
  BY DEF StoreInv, Types, NoPanic, Ended
<1>. QED BY <1>1, Unchanged DEF Ended

LEMMA PutInv ==
  ASSUME StoreInv, NEW d \in Regs, NEW s, Good(s), Put(d, s)
  PROVE  StoreInv'
<1>1. Types'
  BY DEF StoreInv, Types, Put, Good
<1>2. NoPanic' /\ \A i \in DOMAIN heap' : WellFormed(heap'[i])
  BY DEF StoreInv, NoPanic, Put
<1>3. \A x \in Held' : x = s \/ x \in Held
  BY DEF Held, Put, StoreInv, Types
<1>4. ASSUME NEW CONSTANT x, Good(x) PROVE Fits(x)' /\ HandleWorks(x)'
  BY <1>4 DEF Good, Put, Fits, RefFits, HandleWorks, At, RowOf
<1>5. ASSUME NEW x \in Held' PROVE Fits(x)' /\ HandleWorks(x)'
  <2>1. Good(x)
    BY <1>3, AllGood
  <2>. QED BY <2>1, <1>4
<1>. QED BY <1>1, <1>2, <1>5 DEF StoreInv

LEMMA AllocInv ==
  ASSUME StoreInv, NEW d \in Regs, NEW v \in HeapValue, WellFormed(v),
         \A s \in SlotsOf(v) : Good(s), AllocHeap(d, v)
  PROVE  StoreInv'
<1> DEFINE new == HeapSlot(Len(heap))
<1>1. /\ Len(heap) \in Nat /\ DOMAIN heap = 1 .. Len(heap)
      /\ heap' \in Seq(HeapValue) /\ Len(heap') = Len(heap) + 1
      /\ heap'[Len(heap) + 1] = v
      /\ \A i \in DOMAIN heap : heap'[i] = heap[i]
  BY HeapTyped, AppendProperties DEF StoreInv, Types, AllocHeap
<1>2. DOMAIN heap' = 1 .. Len(heap) + 1
  BY <1>1, LenProperties
<1>3. new \in Slot
  BY <1>1 DEF HeapSlot, Slot
<1>4. Types'
  <2>1. regs' \in [Regs -> Slot]
    BY <1>3 DEF AllocHeap, StoreInv, Types
  <2>2. Len(heap') <= MaxHeap
    BY <1>1, StoreAssumption DEF AllocHeap
  <2>. QED BY <1>1, <2>1, <2>2 DEF StoreInv, Types, AllocHeap
<1>5. NoPanic' /\ \A i \in DOMAIN heap' : WellFormed(heap'[i])
  BY <1>1, <1>2 DEF StoreInv, NoPanic, AllocHeap
<1>6. Grows /\ opens <= opens'
  BY <1>1 DEF Grows, AllocHeap, StoreInv, Types
<1>7. \A x \in Held' : x = new \/ x \in Held \/ x \in SlotsOf(v)
  <2>1. \A r \in Regs : regs'[r] = new \/ regs'[r] = regs[r]
    BY DEF AllocHeap, StoreInv, Types
  <2>2. \A i \in DOMAIN heap' : heap'[i] = v \/ (i \in DOMAIN heap /\ heap'[i] = heap[i])
    BY <1>1, <1>2
  <2>. HIDE DEF new
  <2>. QED BY <2>1, <2>2, ZenonT(40) DEF Held
<1>8. ASSUME NEW CONSTANT x, Good(x) PROVE Fits(x)' /\ HandleWorks(x)'
  <2>1. Fits(x)'
    BY <1>4, <1>6, <1>8, FitsStays DEF Good, StoreInv
  <2>2. HandleWorks(x)'
    BY <1>8 DEF Good, HandleWorks, AllocHeap
  <2>. QED BY <2>1, <2>2
<1>9. ASSUME NEW CONSTANT x, x = new PROVE Fits(x)' /\ HandleWorks(x)'
  BY <1>1, <1>9 DEF HeapSlot, Fits, HandleWorks
<1>10. ASSUME NEW x \in Held' PROVE Fits(x)' /\ HandleWorks(x)'
  <2>1. CASE x = new BY <1>9, <2>1
  <2>2. CASE Good(x) BY <1>8, <2>2
  <2>. QED BY <1>7, <2>1, <2>2, AllGood
<1>. QED BY <1>4, <1>5, <1>10 DEF StoreInv

\* What a store does to the value it is into.
LEMMA RowStored ==
  ASSUME NEW v \in HeapValue, WellFormed(v), NEW row \in 0 .. Len(v.rows) - 1,
         NEW field \in 0 .. NumFields(v.id) - 1, NEW s \in Slot, NEW w,
         w = [v EXCEPT !.rows[row + 1][field + 1] = s]
  PROVE  /\ w \in HeapValue /\ WellFormed(w)
         /\ w.kind = v.kind /\ w.id = v.id /\ Len(w.rows) = Len(v.rows)
         /\ \A x \in SlotsOf(w) : x = s \/ x \in SlotsOf(v)
<1> DEFINE old == v.rows[row + 1]
           new == [old EXCEPT ![field + 1] = s]
           rows == [v.rows EXCEPT ![row + 1] = new]
<1>1. /\ v = [kind |-> v.kind, id |-> v.id, rows |-> v.rows]
      /\ v.rows \in Seq(Seq(Slot)) /\ DOMAIN v.rows = 1 .. Len(v.rows)
      /\ row + 1 \in 1 .. Len(v.rows)
  BY RowsTyped
<1>2. /\ old \in Seq(Slot) /\ Len(old) = NumFields(v.id) /\ field + 1 \in 1 .. Len(old)
      /\ DOMAIN old = 1 .. Len(old)
  BY <1>1, RowsTyped DEF WellFormed
<1>3. /\ new \in Seq(Slot) /\ Len(new) = Len(old)
      /\ \A p \in 1 .. Len(old) : new[p] = IF p = field + 1 THEN s ELSE old[p]
  BY <1>2, ExceptSeq
<1>4. DOMAIN new = 1 .. Len(old)
  BY <1>3, LenProperties
<1>. HIDE DEF new, old
<1>5. /\ rows \in Seq(Seq(Slot)) /\ Len(rows) = Len(v.rows)
      /\ \A e \in 1 .. Len(v.rows) : rows[e] = IF e = row + 1 THEN new ELSE v.rows[e]
  BY <1>1, <1>3, ExceptSeq
<1>6. DOMAIN rows = 1 .. Len(v.rows)
  BY <1>5, LenProperties
<1>7. w = [kind |-> v.kind, id |-> v.id, rows |-> rows]
  BY <1>1 DEF new, old
<1>. HIDE DEF rows
<1>8. w.kind = v.kind /\ w.id = v.id /\ w.rows = rows /\ w \in HeapValue
  <2>1. w.kind = v.kind /\ w.id = v.id /\ w.rows = rows
    BY <1>7
  <2>2. v.kind \in {"str", "ptr", "struct", "array"} /\ v.id \in Ids
    BY DEF HeapValue
  <2>3. [kind |-> v.kind, id |-> v.id, rows |-> rows] \in HeapValue
    BY <1>5, <2>2 DEF HeapValue
  <2>. QED BY <1>7, <2>1, <2>3
<1>9. WellFormed(w)
  <2>1. v.kind = "struct" => Len(rows) = 1
    BY <1>5 DEF WellFormed
  <2>2. ASSUME NEW e \in DOMAIN rows PROVE Len(rows[e]) = NumFields(v.id)
    BY <1>1, <1>2, <1>3, <1>5, <1>6 DEF WellFormed
  <2>. QED BY <1>8, <2>1, <2>2 DEF WellFormed
<1>10. ASSUME NEW e \in DOMAIN rows, NEW p \in DOMAIN rows[e]
       PROVE  rows[e][p] = s \/ rows[e][p] \in SlotsOf(v)
  <2>1. CASE e = row + 1
    <3>1. rows[e][p] = IF p = field + 1 THEN s ELSE old[p]
      BY <1>3, <1>4, <1>5, <1>6, <2>1
    <3>2. p \in DOMAIN old /\ e \in DOMAIN v.rows /\ old = v.rows[e]
      BY <1>1, <1>2, <1>4, <1>5, <1>6, <2>1 DEF old
    <3>. QED BY <3>1, <3>2 DEF SlotsOf
  <2>2. CASE e # row + 1
    <3>1. rows[e] = v.rows[e] /\ e \in DOMAIN v.rows
      BY <1>1, <1>5, <1>6, <2>2
    <3>. QED BY <3>1 DEF SlotsOf
  <2>. QED BY <2>1, <2>2
<1>11. \A x \in SlotsOf(w) : x = s \/ x \in SlotsOf(v)
  <2>1. \A x \in SlotsOf(w) : \E e \in DOMAIN rows : \E p \in DOMAIN rows[e] : x = rows[e][p]
    BY <1>8 DEF SlotsOf
  <2>. QED BY <1>10, <2>1
<1>. QED BY <1>5, <1>8, <1>9, <1>11

LEMMA WriteInv ==
  ASSUME StoreInv, NEW i \in 0 .. Len(heap) - 1, NEW row \in 0 .. Len(At(i).rows) - 1,
         NEW field \in 0 .. NumFields(At(i).id) - 1, NEW s \in Held, Write(i, row, field, s)
  PROVE  StoreInv'
<1> DEFINE v == heap[i + 1]
           w == [v EXCEPT !.rows[row + 1][field + 1] = s]
<1>1. /\ Len(heap) \in Nat /\ DOMAIN heap = 1 .. Len(heap)
      /\ heap \in Seq(HeapValue) /\ i + 1 \in 1 .. Len(heap) /\ heap[i + 1] \in HeapValue
      /\ WellFormed(heap[i + 1])
  BY HeapTyped DEF StoreInv, Types
<1>2. s \in Slot
  BY AllGood DEF Good
<1>3. /\ w \in HeapValue /\ WellFormed(w)
      /\ w.kind = heap[i + 1].kind /\ w.id = heap[i + 1].id
      /\ Len(w.rows) = Len(heap[i + 1].rows)
      /\ \A x \in SlotsOf(w) : x = s \/ x \in SlotsOf(heap[i + 1])
  <2>1. /\ v \in HeapValue /\ WellFormed(v) /\ row \in 0 .. Len(v.rows) - 1
        /\ field \in 0 .. NumFields(v.id) - 1
    BY <1>1 DEF At
  <2>. HIDE DEF v
  <2>2. w = [v EXCEPT !.rows[row + 1][field + 1] = s]
    OBVIOUS
  <2>. HIDE DEF w
  <2>3. /\ w \in HeapValue /\ WellFormed(w)
        /\ w.kind = v.kind /\ w.id = v.id /\ Len(w.rows) = Len(v.rows)
        /\ \A x \in SlotsOf(w) : x = s \/ x \in SlotsOf(v)
    BY <1>2, <2>1, <2>2, RowStored, SMTT(30)
  <2>. QED BY <2>3 DEF v
<1>4. heap' = [heap EXCEPT ![i + 1] = w]
  BY DEF Write
<1>. HIDE DEF w
<1>5. /\ heap' \in Seq(HeapValue) /\ Len(heap') = Len(heap)
      /\ \A j \in 1 .. Len(heap) : heap'[j] = IF j = i + 1 THEN w ELSE heap[j]
  BY <1>1, <1>3, <1>4, ExceptSeq
<1>6. DOMAIN heap' = 1 .. Len(heap)
  BY <1>5, LenProperties
<1>7. Types'
  BY <1>5 DEF StoreInv, Types, Write
<1>8. NoPanic' /\ \A j \in DOMAIN heap' : WellFormed(heap'[j])
  BY <1>1, <1>3, <1>5, <1>6 DEF StoreInv, NoPanic, Write
<1>9. Grows /\ opens <= opens'
  BY <1>1, <1>3, <1>5, SMTT(30) DEF Grows, Write, StoreInv, Types
<1>10. \A x \in Held' : x = s \/ x \in Held
  <2>1. regs' = regs
    BY DEF Write
  <2>2. \A j \in DOMAIN heap' : \A x \in SlotsOf(heap'[j]) :
          x = s \/ \E k \in DOMAIN heap : x \in SlotsOf(heap[k])
    BY <1>1, <1>3, <1>5, <1>6
  <2>. QED BY <2>1, <2>2 DEF Held
<1>11. ASSUME NEW CONSTANT x, Good(x) PROVE Fits(x)' /\ HandleWorks(x)'
  <2>1. Fits(x)'
    BY <1>7, <1>9, <1>11, FitsStays DEF Good, StoreInv
  <2>2. HandleWorks(x)'
    BY <1>11 DEF Good, HandleWorks, Write
  <2>. QED BY <2>1, <2>2
<1>12. ASSUME NEW x \in Held' PROVE Fits(x)' /\ HandleWorks(x)'
  BY <1>10, <1>11, AllGood
<1>. QED BY <1>7, <1>8, <1>12 DEF StoreInv

-----------------------------------------------------------------------------
(* What the operands of an instruction are into.                           *)
LEMMA PositionIn ==
  ASSUME NEW id \in Ids
  PROVE  /\ NumFields(id) \in Nat /\ NumFields(id) < NoField + 1
         /\ \A f : HasField(id, f) => Position(id, f) \in 0 .. NumFields(id) - 1
<1>1. id + 1 \in DOMAIN Structs /\ Structs[id + 1] \in Seq(STRING)
  BY StoreAssumption, LenProperties, ElementOfSeq DEF Ids
<1>2. /\ Len(Structs[id + 1]) \in Nat /\ DOMAIN Structs[id + 1] = 1 .. Len(Structs[id + 1])
      /\ Len(Structs[id + 1]) < FieldRange /\ FieldRange \in Nat
  BY <1>1, StoreAssumption, LenProperties
<1>3. ASSUME NEW f, HasField(id, f) PROVE Position(id, f) \in 0 .. NumFields(id) - 1
  <2> DEFINE p == CHOOSE q \in DOMAIN Structs[id + 1] : Structs[id + 1][q] = f
  <2>1. p \in DOMAIN Structs[id + 1]
    BY <1>3 DEF HasField
  <2>2. Position(id, f) = p - 1
    BY DEF Position
  <2>. HIDE DEF p
  <2>. QED BY <1>2, <2>1, <2>2 DEF NumFields
<1>. QED BY <1>2, <1>3 DEF NumFields, NoField

LEMMA ValueIn ==
  ASSUME StoreInv, NEW t \in Nat, t < Len(heap)
  PROVE  /\ t \in 0 .. Len(heap) - 1 /\ t + 1 \in DOMAIN heap /\ At(t) = heap[t + 1]
         /\ At(t) \in HeapValue /\ WellFormed(At(t)) /\ At(t).id \in Ids
         /\ Len(heap) <= TargetRange
<1>1. t + 1 \in DOMAIN heap /\ t \in 0 .. Len(heap) - 1
  BY HeapTyped DEF StoreInv
<1>2. At(t) \in HeapValue /\ WellFormed(At(t))
  BY <1>1, HeapTyped DEF StoreInv, At
<1>3. At(t).id \in Ids
  BY <1>2 DEF HeapValue
<1>4. Len(heap) <= TargetRange
  BY HeapTyped, StoreAssumption DEF StoreInv, Types
<1>. QED BY <1>1, <1>2, <1>3, <1>4 DEF At

LEMMA HeapSlotIn ==
  ASSUME StoreInv, NEW r \in Regs, regs[r].tag = "heap"
  PROVE  regs[r].n \in Nat /\ regs[r].n < Len(heap)
<1>1. Good(regs[r])
  BY RegGood
<1>. QED BY <1>1 DEF Good, Slot, Fits

LEMMA UnpackTyped ==
  ASSUME NEW v \in Nat
  PROVE  /\ Unpack(v).target \in Nat /\ Unpack(v).elem \in 0 .. IndexRange - 1
         /\ Unpack(v).field \in 0 .. FieldRange - 1 /\ Unpack(v).isStruct \in BOOLEAN
<1> DEFINE elems == v \div FieldRange
           targets == elems \div IndexRange
<1>1. TargetRange \in Nat \ {0} /\ IndexRange \in Nat \ {0} /\ FieldRange \in Nat \ {0}
  BY StoreAssumption
<1>2. elems \in Nat /\ v % FieldRange \in 0 .. FieldRange - 1
  BY <1>1, SMT
<1>. HIDE DEF elems
<1>3. targets \in Nat /\ elems % IndexRange \in 0 .. IndexRange - 1
  BY <1>1, <1>2, SMT
<1>. HIDE DEF targets
<1>4. targets % TargetRange \in Nat
  BY <1>1, <1>3, SMT
<1>. QED BY <1>2, <1>3, <1>4 DEF Unpack, elems, targets

LEMMA RefIn ==
  ASSUME StoreInv, NEW r \in Regs, regs[r].tag = "ref", NEW ref, ref = Unpack(regs[r].n)
  PROVE  /\ RefFits(ref)
         /\ ref.target \in Nat /\ ref.target < Len(heap) /\ ref.isStruct \in BOOLEAN
         /\ ref.elem \in 0 .. IndexRange - 1 /\ ref.field \in 0 .. FieldRange - 1
         /\ RowOf(ref) \in 0 .. Len(At(ref.target).rows) - 1
<1>1. Good(regs[r])
  BY RegGood
<1>2. regs[r].n \in Nat /\ RefFits(ref)
  BY <1>1 DEF Good, Slot, Fits
<1>3. /\ ref.target \in Nat /\ ref.elem \in 0 .. IndexRange - 1
      /\ ref.field \in 0 .. FieldRange - 1 /\ ref.isStruct \in BOOLEAN
  BY <1>2, UnpackTyped
<1>5. ref.target < Len(heap)
  BY <1>2 DEF RefFits
<1>6. RowOf(ref) \in Nat
  BY <1>3, StoreAssumption DEF RowOf
<1>7. At(ref.target).rows \in Seq(Seq(Slot))
  BY <1>3, <1>5, ValueIn, RowsTyped
<1>8. RowOf(ref) \in 0 .. Len(At(ref.target).rows) - 1
  BY <1>2, <1>6, <1>7, LenProperties DEF RefFits
<1>. QED BY <1>2, <1>3, <1>5, <1>8

LEMMA RefGood ==
  ASSUME StoreInv, NEW k \in {0, 1}, NEW t \in Nat, NEW e \in 0 .. IndexRange - 1,
         NEW f \in 0 .. FieldRange - 1, t < Len(heap),
         At(t).kind = (IF k = 1 THEN "struct" ELSE "array"),
         (IF k = 1 THEN 0 ELSE e) < Len(At(t).rows),
         f = NoField => k = 0, f # NoField => f < NumFields(At(t).id)
  PROVE  Good(Ref(k, t, e, f))
<1> DEFINE s == Ref(k, t, e, f)
<1>1. t \in 0 .. TargetRange - 1
  <2>1. t \in 0 .. Len(heap) - 1 /\ Len(heap) <= TargetRange /\ Len(heap) \in Nat
    BY ValueIn, HeapTyped DEF StoreInv
  <2>. QED BY <2>1, StoreAssumption
<1>2. /\ s.n \in Nat
      /\ Unpack(s.n) = [isStruct |-> k = 1, target |-> t, elem |-> e, field |-> f]
  BY <1>1, Unpacked
<1>3. s = [tag |-> "ref", n |-> s.n] /\ s.tag = "ref"
  BY DEF Ref
<1>. HIDE DEF s
<1>4. s \in Slot
  BY <1>2, <1>3 DEF Slot
<1>5. RefFits(Unpack(s.n))
  <2> DEFINE ref == [isStruct |-> k = 1, target |-> t, elem |-> e, field |-> f]
  <2>1. ref.isStruct = (k = 1) /\ ref.target = t /\ ref.elem = e /\ ref.field = f
    OBVIOUS
  <2>. HIDE DEF ref
  <2>2. /\ RowOf(ref) = (IF k = 1 THEN 0 ELSE e)
        /\ At(t).kind = (IF ref.isStruct THEN "struct" ELSE "array")
    BY <2>1 DEF RowOf
  <2>3. f = NoField => ~ref.isStruct
    <3>1. f = NoField => ~(k = 1)
      OBVIOUS
    <3>. QED BY <2>1, <3>1
  <2>4. RefFits(ref)
    BY <2>1, <2>2, <2>3 DEF RefFits
  <2>. QED BY <1>2, <2>4 DEF ref
<1>. QED BY <1>3, <1>4, <1>5 DEF Good, Fits, HandleWorks, s

\* A row and a field of a heap value hold a slot.
LEMMA CellHeld ==
  ASSUME StoreInv, NEW t \in Nat, t < Len(heap), NEW e \in 0 .. Len(At(t).rows) - 1,
         NEW p \in 0 .. Len(At(t).rows[e + 1]) - 1
  PROVE  At(t).rows[e + 1][p + 1] \in Held
<1>1. t + 1 \in DOMAIN heap /\ At(t) = heap[t + 1] /\ At(t) \in HeapValue
  BY ValueIn
<1>2. e + 1 \in DOMAIN At(t).rows
  BY <1>1, RowsTyped
<1>3. p + 1 \in DOMAIN At(t).rows[e + 1]
  BY <1>1, <1>2, RowsTyped
<1>4. At(t).rows[e + 1][p + 1] \in SlotsOf(At(t))
  BY <1>2, <1>3 DEF SlotsOf
<1>. QED BY <1>1, <1>4 DEF Held

-----------------------------------------------------------------------------
(* The instructions that make values.                                      *)
LEMMA BytesInv ==
  ASSUME StoreInv, NEW d \in Regs, NEW kind \in {"str", "ptr"}, AllocHeap(d, Bytes(kind))
  PROVE  StoreInv'
<1>1. 0 \in Ids
  BY StoreAssumption, EmptySeq, LenProperties DEF Ids
<1>2. <<>> \in Seq(Seq(Slot)) /\ DOMAIN <<>> = {}
  OBVIOUS
<1>3. Bytes(kind) \in HeapValue /\ Bytes(kind).rows = <<>> /\ Bytes(kind).kind = kind
  BY <1>1, <1>2 DEF Bytes, HeapValue
<1>4. WellFormed(Bytes(kind)) /\ SlotsOf(Bytes(kind)) = {}
  <2>1. Len(Bytes(kind).rows) <= IndexRange
    BY <1>3, StoreAssumption
  <2>. QED BY <1>2, <1>3, <2>1 DEF WellFormed, SlotsOf
<1>. QED BY <1>3, <1>4, AllocInv

LEMMA VoidRowIn ==
  ASSUME NEW id \in Ids
  PROVE  /\ VoidRow(id) \in Seq(Slot) /\ Len(VoidRow(id)) = NumFields(id)
         /\ \A p \in DOMAIN VoidRow(id) : VoidRow(id)[p] = Void
<1>1. NumFields(id) \in Nat
  BY PositionIn
<1>2. Void \in Slot
  BY PlainGood DEF Good
<1>. QED BY <1>1, <1>2 DEF VoidRow

LEMMA AllocArrayStructInv ==
  ASSUME StoreInv, NEW d \in Regs, NEW a \in Regs, NEW id \in Ids, AllocArrayStruct(d, a, id)
  PROVE  StoreInv'
<1> DEFINE n == regs[a].n
           rows == [e \in 1 .. n |-> VoidRow(id)]
           v == [kind |-> "array", id |-> id, rows |-> rows]
<1>1. CASE ~IsInt(regs[a])
  BY <1>1, EndedInv DEF AllocArrayStruct
<1>2. CASE IsInt(regs[a])
  <2>1. AllocHeap(d, v)
    BY <1>2 DEF AllocArrayStruct
  <2>2. n \in Nat
    <3>1. regs[a] \in Slot BY RegGood DEF Good
    <3>. QED BY <1>2, <3>1 DEF IsInt, Slot
  <2>3. rows \in Seq(Seq(Slot)) /\ DOMAIN rows = 1 .. n /\ \A e \in 1 .. n : rows[e] = VoidRow(id)
    BY <2>2, VoidRowIn, SMTT(30)
  <2>. HIDE DEF rows
  <2>4. v \in HeapValue /\ v.kind = "array" /\ v.id = id /\ v.rows = rows
    BY <2>3 DEF HeapValue
  <2>. HIDE DEF v
  <2>5. WellFormed(v)
    <3>1. n <= IndexRange \/ "longArrays" \in Liberties
      BY <1>2 DEF AllocArrayStruct
    <3>2. Len(v.rows) = n
      BY <2>2, <2>3, <2>4, LenProperties
    <3>3. \A e \in DOMAIN v.rows : Len(v.rows[e]) = NumFields(v.id)
      BY <2>3, <2>4, VoidRowIn
    <3>. QED BY <2>4, <3>1, <3>2, <3>3 DEF WellFormed
  <2>6. \A s \in SlotsOf(v) : s = Void
    BY <2>3, <2>4, VoidRowIn DEF SlotsOf
  <2>. QED BY <2>1, <2>4, <2>5, <2>6, AllocInv, PlainGood
<1>. QED BY <1>1, <1>2

LEMMA StructLitInv ==
  ASSUME StoreInv, NEW d \in Regs, NEW id \in Ids, NEW fs \in SUBSET AllFields,
         NEW given \in [fs -> Regs], StructLit(d, id, given)
  PROVE  StoreInv'
<1> DEFINE FieldAt(p) == Structs[id + 1][p]
           row == [p \in 1 .. NumFields(id) |->
                     IF FieldAt(p) \in DOMAIN given THEN regs[given[FieldAt(p)]] ELSE Void]
           v == [kind |-> "struct", id |-> id, rows |-> <<row>>]
<1>1. CASE \E f \in DOMAIN given : ~HasField(id, f)
  BY <1>1, EndedInv DEF StructLit
<1>2. CASE ~\E f \in DOMAIN given : ~HasField(id, f)
  <2>1. AllocHeap(d, v)
    BY <1>2 DEF StructLit
  <2>2. \A p \in 1 .. NumFields(id) : Good(row[p]) /\ row[p] \in Slot
    BY RegGood, PlainGood DEF Good
  <2>3. NumFields(id) \in Nat
    BY PositionIn
  <2>4. row \in Seq(Slot) /\ Len(row) = NumFields(id) /\ DOMAIN row = 1 .. NumFields(id)
    BY <2>2, <2>3
  <2>. HIDE DEF row
  <2>5. /\ <<row>> \in Seq(Seq(Slot)) /\ Len(<<row>>) = 1 /\ DOMAIN <<row>> = {1}
        /\ <<row>>[1] = row
    BY <2>4
  <2>6. v \in HeapValue /\ v.kind = "struct" /\ v.id = id /\ v.rows = <<row>>
    BY <2>5 DEF HeapValue
  <2>. HIDE DEF v
  <2>7. WellFormed(v)
    <3>1. Len(v.rows) <= IndexRange
      BY <2>5, <2>6, StoreAssumption
    <3>. QED BY <2>4, <2>5, <2>6, <3>1 DEF WellFormed
  <2>8. \A s \in SlotsOf(v) : Good(s)
    BY <2>2, <2>4, <2>5, <2>6 DEF SlotsOf
  <2>. QED BY <2>1, <2>6, <2>7, <2>8, AllocInv
<1>. QED BY <1>1, <1>2

LEMMA ValuesInv ==
  ASSUME StoreInv, NEW d \in Regs, NEW a \in Regs,
         LoadInt(d) \/ LoadStr(d) \/ Move(d, a) \/ AllocBytes(d, a)
  PROVE  StoreInv'
<1>1. CASE LoadInt(d)
  BY <1>1, PlainGood, PutInv, StoreAssumption DEF LoadInt
<1>2. CASE LoadStr(d)
  BY <1>2, BytesInv DEF LoadStr
<1>3. CASE Move(d, a)
  BY <1>3, RegGood, PutInv DEF Move
<1>4. CASE AllocBytes(d, a)
  <2>1. CASE IsInt(regs[a]) BY <1>4, <2>1, BytesInv DEF AllocBytes
  <2>2. CASE ~IsInt(regs[a]) BY <1>4, <2>2, EndedInv DEF AllocBytes
  <2>. QED BY <2>1, <2>2
<1>. QED BY <1>1, <1>2, <1>3, <1>4

-----------------------------------------------------------------------------
(* The instructions on references and fields.                              *)
LEMMA GetIndexRefInv ==
  ASSUME StoreInv, NEW d \in Regs, NEW a \in Regs, NEW b \in Regs, GetIndexRef(d, a, b)
  PROVE  StoreInv'
<1> DEFINE t == regs[a].n
           e == regs[b].n % IndexRange
<1>1. CASE Ended("fault")
  BY <1>1, EndedInv
<1>2. CASE /\ IsHeap(regs[a], "array") /\ IsInt(regs[b])
           /\ regs[b].n < Len(At(regs[a].n).rows)
           /\ Put(d, RefArray(regs[a].n, regs[b].n % IndexRange, NoField))
  <2>1. t \in Nat /\ t < Len(heap)
    BY <1>2, HeapSlotIn DEF IsHeap
  <2>2. regs[b].n \in Nat
    <3>1. regs[b] \in Slot BY RegGood DEF Good
    <3>. QED BY <1>2, <3>1 DEF IsInt, Slot
  <2>3. e \in 0 .. IndexRange - 1 /\ e <= regs[b].n
    BY <2>2, StoreAssumption, ModSmall
  <2>4. Len(At(t).rows) \in Nat
    BY <2>1, ValueIn, RowsTyped
  <2>5. e < Len(At(t).rows)
    <3>. HIDE DEF e
    <3>. QED BY <1>2, <2>2, <2>3, <2>4
  <2>6. NoField \in 0 .. FieldRange - 1
    BY StoreAssumption DEF NoField
  <2>7. At(t).kind = "array" /\ Put(d, RefArray(t, e, NoField))
    BY <1>2 DEF IsHeap
  <2>. HIDE DEF t, e
  <2>8. Good(Ref(0, t, e, NoField))
    BY <2>1, <2>3, <2>5, <2>6, <2>7, RefGood
  <2>. QED BY <2>7, <2>8, PutInv DEF RefArray
<1>. QED BY <1>1, <1>2 DEF GetIndexRef

LEMMA FieldOfElementInv ==
  ASSUME StoreInv, "anyArray" \notin Liberties, NEW d \in Regs, NEW a \in Regs, NEW f,
         regs[a].tag = "ref", FieldOfElement(d, Unpack(regs[a].n), f)
  PROVE  StoreInv'
<1>1. PICK ref : ref = Unpack(regs[a].n)
  OBVIOUS
<1> DEFINE t == ref.target
<1>2. FieldOfElement(d, ref, f)
  BY <1>1
<1>3. /\ RefFits(ref) /\ t \in Nat /\ t < Len(heap) /\ ref.elem \in 0 .. IndexRange - 1
      /\ ref.isStruct \in BOOLEAN
  BY <1>1, RefIn
<1>4. CASE Ended("fault")
  BY <1>4, EndedInv
<1>5. CASE ~Ended("fault")
  <2>1. ~ref.isStruct /\ t < Len(Structs) /\ Structs[t + 1] = Structs[At(t).id + 1]
    BY <1>2, <1>5 DEF FieldOfElement
  <2>2. Len(Structs) \in Nat
    BY StoreAssumption, LenProperties
  <2>3. ~(t >= Len(Structs)) /\ t \in Ids
    BY <1>3, <2>1, <2>2 DEF Ids
  <2>4. HasField(t, f) /\ Put(d, RefArray(t, ref.elem, Position(t, f)))
    BY <1>2, <1>5, <2>1, <2>3 DEF FieldOfElement
  <2>5. NumFields(t) = NumFields(At(t).id)
    BY <2>1 DEF NumFields
  <2>6. Position(t, f) \in 0 .. FieldRange - 1 /\ Position(t, f) < NumFields(At(t).id)
    <3>1. /\ Position(t, f) \in 0 .. NumFields(t) - 1 /\ NumFields(t) \in Nat
          /\ NumFields(t) < NoField + 1
      BY <2>3, <2>4, PositionIn
    <3>. QED BY <2>5, <3>1, StoreAssumption DEF NoField
  <2>7. At(t).kind = "array" /\ ref.elem < Len(At(t).rows)
    BY <1>3, <2>1 DEF RefFits, RowOf
  <2>. HIDE DEF t
  <2>8. Good(Ref(0, t, ref.elem, Position(t, f)))
    BY <1>3, <2>6, <2>7, RefGood
  <2>. QED BY <2>4, <2>8, PutInv DEF RefArray
<1>. QED BY <1>4, <1>5

\* A field of the struct in a register is a cell of its only row.
LEMMA FieldIn ==
  ASSUME StoreInv, NEW a \in Regs, NEW f,
         IsHeap(regs[a], "struct"), HasField(At(regs[a].n).id, f)
  PROVE  /\ regs[a].n \in Nat /\ regs[a].n < Len(heap) /\ At(regs[a].n).kind = "struct"
         /\ Len(At(regs[a].n).rows) = 1
         /\ Position(At(regs[a].n).id, f) \in 0 .. NumFields(At(regs[a].n).id) - 1
         /\ Position(At(regs[a].n).id, f) \in 0 .. FieldRange - 1
         /\ Len(At(regs[a].n).rows[1]) = NumFields(At(regs[a].n).id)
<1> DEFINE v == At(regs[a].n)
<1>1. regs[a].n \in Nat /\ regs[a].n < Len(heap) /\ v.kind = "struct"
  BY HeapSlotIn DEF IsHeap
<1>2. v \in HeapValue /\ WellFormed(v) /\ v.id \in Ids
  BY <1>1, ValueIn
<1>. HIDE DEF v
<1>3. Len(v.rows) = 1 /\ DOMAIN v.rows = 1 .. 1
  BY <1>1, <1>2, RowsTyped DEF WellFormed
<1>4. Len(v.rows[1]) = NumFields(v.id)
  BY <1>2, <1>3 DEF WellFormed
<1>5. /\ Position(v.id, f) \in 0 .. NumFields(v.id) - 1 /\ NumFields(v.id) \in Nat
      /\ NumFields(v.id) < NoField + 1
  BY <1>2, PositionIn DEF v
<1>6. Position(v.id, f) \in 0 .. FieldRange - 1
  BY <1>5, StoreAssumption DEF NoField
<1>. QED BY <1>1, <1>3, <1>4, <1>5, <1>6 DEF v

LEMMA GetFieldRefInv ==
  ASSUME StoreInv, "anyArray" \notin Liberties, NEW d \in Regs, NEW a \in Regs, NEW f,
         GetFieldRef(d, a, f)
  PROVE  StoreInv'
<1> DEFINE t == regs[a].n
           p == Position(At(t).id, f)
<1>1. CASE regs[a].tag = "ref"
  BY <1>1, FieldOfElementInv DEF GetFieldRef
<1>2. CASE Ended("fault")
  BY <1>2, EndedInv
<1>3. CASE IsHeap(regs[a], "struct") /\ HasField(At(t).id, f) /\ Put(d, RefStruct(t, p))
  <2>1. /\ t \in Nat /\ t < Len(heap) /\ At(t).kind = "struct" /\ Len(At(t).rows) = 1
        /\ p \in 0 .. NumFields(At(t).id) - 1 /\ p \in 0 .. FieldRange - 1
    BY <1>3, FieldIn
  <2>2. /\ At(t).id \in Ids /\ NumFields(At(t).id) \in Nat
        /\ NumFields(At(t).id) < NoField + 1 /\ NoField \in Int
    BY <2>1, ValueIn, PositionIn, StoreAssumption DEF NoField
  <2>3. 0 \in 0 .. IndexRange - 1
    BY StoreAssumption
  <2>. HIDE DEF t, p
  <2>4. p < NumFields(At(t).id) /\ p # NoField
    BY <2>1, <2>2
  <2>5. Good(Ref(1, t, 0, p))
    <3>1. /\ t \in Nat /\ t < Len(heap) /\ At(t).kind = "struct" /\ 0 < Len(At(t).rows)
          /\ p \in 0 .. FieldRange - 1 /\ p # NoField /\ p < NumFields(At(t).id)
      BY <2>1, <2>4
    <3>. QED BY <2>3, <3>1, RefGood
  <2>. QED BY <1>3, <2>5, PutInv DEF RefStruct
<1>. QED BY <1>1, <1>2, <1>3 DEF GetFieldRef

LEMMA LoadRefInv ==
  ASSUME StoreInv, NEW d \in Regs, NEW a \in Regs, LoadRef(d, a)
  PROVE  StoreInv'
<1>1. PICK ref : ref = Unpack(regs[a].n)
  OBVIOUS
<1> DEFINE rows == At(ref.target).rows
           row == rows[RowOf(ref) + 1]
<1>2. CASE ~Follows(regs[a])
  BY <1>2, EndedInv DEF LoadRef
<1>3. CASE Follows(regs[a])
  <2>1. /\ ref.target \in Nat /\ ref.target < Len(heap)
        /\ ref.field \in 0 .. FieldRange - 1 /\ RowOf(ref) \in 0 .. Len(rows) - 1
    BY <1>1, <1>3, RefIn DEF Follows
  <2>2. /\ Len(rows) \in Nat /\ RowOf(ref) + 1 \in DOMAIN rows /\ Len(row) \in Nat
    BY <2>1, ValueIn, RowsTyped
  <2>3. ~(RowOf(ref) >= Len(rows))
    BY <2>1, <2>2
  <2>4. Put(d, IF ref.field < Len(row) THEN row[ref.field + 1] ELSE Void)
    BY <1>1, <1>3, <2>3 DEF LoadRef
  <2>5. CASE ref.field < Len(row)
    <3>1. ref.field \in 0 .. Len(row) - 1
      BY <2>1, <2>2, <2>5
    <3>2. row[ref.field + 1] \in Held
      BY <2>1, <3>1, CellHeld
    <3>. QED BY <2>4, <2>5, <3>2, AllGood, PutInv
  <2>6. CASE ~(ref.field < Len(row))
    BY <2>4, <2>6, PlainGood, PutInv
  <2>. QED BY <2>5, <2>6
<1>. QED BY <1>2, <1>3

LEMMA StoreRefInv ==
  ASSUME StoreInv, NEW r \in Regs, NEW a \in Regs, StoreRef(r, a)
  PROVE  StoreInv'
<1>1. PICK ref : ref = Unpack(regs[r].n)
  OBVIOUS
<1> DEFINE v == At(ref.target)
<1>2. CASE Ended("fault")
  BY <1>2, EndedInv
<1>3. CASE /\ Follows(regs[r]) /\ ref.field < Len(v.rows[RowOf(ref) + 1])
           /\ Write(ref.target, RowOf(ref), ref.field, regs[a])
  <2>1. /\ ref.target \in Nat /\ ref.target < Len(heap)
        /\ ref.field \in 0 .. FieldRange - 1 /\ RowOf(ref) \in 0 .. Len(v.rows) - 1
    BY <1>1, <1>3, RefIn DEF Follows
  <2>2. ref.target \in 0 .. Len(heap) - 1 /\ v \in HeapValue /\ WellFormed(v)
    BY <2>1, ValueIn
  <2>3. RowOf(ref) + 1 \in DOMAIN v.rows
    BY <2>1, <2>2, RowsTyped
  <2>4. Len(v.rows[RowOf(ref) + 1]) = NumFields(v.id) /\ NumFields(v.id) \in Nat
    BY <2>2, <2>3, RowsTyped DEF WellFormed
  <2>5. ref.field \in 0 .. NumFields(v.id) - 1
    BY <1>3, <2>1, <2>4
  <2>6. regs[a] \in Held
    BY DEF Held
  <2>. QED BY <1>3, <2>1, <2>2, <2>5, <2>6, WriteInv
<1>. QED BY <1>1, <1>2, <1>3 DEF StoreRef

LEMMA FieldsInv ==
  ASSUME StoreInv, NEW d \in Regs, NEW a \in Regs, NEW f, GetField(d, a, f) \/ SetField(d, f, a)
  PROVE  StoreInv'
<1>1. CASE Ended("fault")
  BY <1>1, EndedInv
<1>2. CASE /\ IsHeap(regs[a], "struct") /\ HasField(At(regs[a].n).id, f)
           /\ Put(d, At(regs[a].n).rows[1][Position(At(regs[a].n).id, f) + 1])
  <2> DEFINE t == regs[a].n
             p == Position(At(t).id, f)
  <2>1. /\ t \in Nat /\ t < Len(heap) /\ 0 \in 0 .. Len(At(t).rows) - 1
        /\ p \in 0 .. Len(At(t).rows[0 + 1]) - 1
    BY <1>2, FieldIn
  <2>2. At(t).rows[0 + 1][p + 1] \in Held
    <3>. HIDE DEF t, p
    <3>. QED BY <2>1, CellHeld
  <2>. QED BY <1>2, <2>2, AllGood, PutInv
<1>3. CASE /\ IsHeap(regs[d], "struct") /\ HasField(At(regs[d].n).id, f)
           /\ Write(regs[d].n, 0, Position(At(regs[d].n).id, f), regs[a])
  <2>1. /\ regs[d].n \in Nat /\ regs[d].n < Len(heap)
        /\ 0 \in 0 .. Len(At(regs[d].n).rows) - 1
        /\ Position(At(regs[d].n).id, f) \in 0 .. NumFields(At(regs[d].n).id) - 1
    BY <1>3, FieldIn
  <2>2. regs[d].n \in 0 .. Len(heap) - 1 /\ regs[a] \in Held
    BY <2>1, ValueIn DEF Held
  <2>. QED BY <1>3, <2>1, <2>2, WriteInv
<1>. QED BY <1>1, <1>2, <1>3 DEF GetField, SetField

-----------------------------------------------------------------------------
(* Files.                                                                  *)
LEMMA LeastOf ==
  ASSUME NEW S \in SUBSET Nat, S # {}
  PROVE  \E i \in S : \A j \in S : i <= j
<1> DEFINE R == OpToRel(<, Nat)
<1>1. R = {ss \in Nat \X Nat : ss[1] < ss[2]}
  BY DEF OpToRel
<1>2. IsWellFoundedOn(R, Nat)
  BY NatLessThanWellFounded
<1>. HIDE DEF R
<1>3. PICK i \in S : \A j \in S : ~(<<j, i>> \in R)
  BY <1>2, WFMin
<1>4. ASSUME NEW j \in S PROVE i <= j
  <2>1. ~(j < i)
    BY <1>1, <1>3
  <2>. QED BY <2>1
<1>. QED BY <1>3, <1>4

\* The table of files as a sequence, and the slot that open takes.
LEMMA FreeSlotIn ==
  ASSUME Types
  PROVE  /\ Len(files) \in Nat /\ DOMAIN files = 1 .. Len(files)
         /\ FreeSlot \in 0 .. Len(files)
         /\ FreeSlot < Len(files) => files[FreeSlot + 1] = Closed
<1>1. Len(files) \in Nat /\ DOMAIN files = 1 .. Len(files)
  BY LenProperties DEF Types
<1> DEFINE Least(i) == files[i] = Closed /\ \A j \in DOMAIN files : files[j] = Closed => i <= j
           Free == {j \in DOMAIN files : files[j] = Closed}
<1>2. CASE Free # {}
  <2>1. \E i \in Free : \A j \in Free : i <= j
    <3>1. Free \subseteq Nat
      BY <1>1
    <3>. HIDE DEF Free
    <3>. QED BY <1>2, <3>1, LeastOf
  <2>2. PICK i \in DOMAIN files : Least(i)
    BY <2>1
  <2> DEFINE c == CHOOSE k \in DOMAIN files : Least(k)
  <2>3. c \in DOMAIN files /\ Least(c)
    BY <2>2
  <2>4. FreeSlot = c - 1
    BY <1>2 DEF FreeSlot
  <2>. HIDE DEF c
  <2>. QED BY <1>1, <2>3, <2>4
<1>3. CASE Free = {}
  BY <1>1, <1>3 DEF FreeSlot
<1>. QED BY <1>1, <1>2, <1>3

LEMMA OpenInv ==
  ASSUME StoreInv, NEW d \in Regs, NEW a \in Regs, NEW b \in Regs, Open(d, a, b)
  PROVE  StoreInv'
<1> DEFINE handle == [open |-> opens + 1, mode |-> IF regs[b].n = 0 THEN "read" ELSE "write"]
           new == File(FreeSlot, opens + 1)
<1>1. /\ Len(files) \in Nat /\ DOMAIN files = 1 .. Len(files) /\ FreeSlot \in 0 .. Len(files)
      /\ FreeSlot < Len(files) => files[FreeSlot + 1] = Closed
      /\ opens \in Nat /\ opens' = opens + 1
  BY FreeSlotIn DEF StoreInv, Types, Open
<1>2. files' = IF FreeSlot = Len(files) THEN Append(files, handle)
               ELSE [files EXCEPT ![FreeSlot + 1] = handle]
  BY DEF Open
<1> DEFINE Handles == [open : 0 .. opens + 1, mode : {"none", "read", "write"}]
<1>3. handle \in Handles /\ handle.open = opens + 1
  BY <1>1
<1>4. files \in Seq(Handles)
  <2> DEFINE Old == [open : 0 .. opens, mode : {"none", "read", "write"}]
  <2>1. files \in Seq(Old)
    BY DEF StoreInv, Types
  <2>2. 0 .. opens \subseteq 0 .. opens + 1
    BY <1>1
  <2>3. Old \subseteq Handles
    BY <2>2
  <2>. HIDE DEF Handles, Old
  <2>. QED BY <2>1, <2>3
<1>. HIDE DEF handle, Handles
<1>5. /\ files' \in Seq(Handles) /\ FreeSlot + 1 \in DOMAIN files'
      /\ files'[FreeSlot + 1] = handle
      /\ \A i \in DOMAIN files : i # FreeSlot + 1 => i \in DOMAIN files' /\ files'[i] = files[i]
  <2>1. CASE FreeSlot = Len(files)
    BY <1>1, <1>2, <1>3, <1>4, <2>1, AppendProperties
  <2>2. CASE FreeSlot # Len(files)
    <3>1. FreeSlot + 1 \in 1 .. Len(files)
      <4>1. FreeSlot \in 0 .. Len(files) /\ Len(files) \in Nat
        BY <1>1
      <4>. QED BY <2>2, <4>1
    <3>2. files' = [files EXCEPT ![FreeSlot + 1] = handle]
      BY <1>2, <2>2
    <3>. HIDE DEF FreeSlot
    <3>3. files' \in Seq(Handles) /\ Len(files') = Len(files)
      BY <1>3, <1>4, <3>1, <3>2, ExceptSeq
    <3>4. DOMAIN files' = DOMAIN files
      BY <1>1, <3>3, LenProperties
    <3>. QED BY <1>1, <3>1, <3>2, <3>3, <3>4
  <2>. QED BY <2>1, <2>2
<1>6. new \in Slot /\ new.tag = "file" /\ new.n = FreeSlot /\ new.open = opens + 1
  BY <1>1 DEF File, Slot
<1>7. regs' = [regs EXCEPT ![d] = new]
  BY DEF Open
<1>. HIDE DEF new
<1>8. Types'
  <2>1. regs' \in [Regs -> Slot]
    BY <1>6, <1>7 DEF StoreInv, Types
  <2>2. files' \in Seq([open : 0 .. opens', mode : {"none", "read", "write"}])
    BY <1>1, <1>5 DEF Handles
  <2>3. opens' \in Nat
    BY <1>1
  <2>. QED BY <2>1, <2>2, <2>3 DEF StoreInv, Types, Open
<1>9. NoPanic' /\ (\A i \in DOMAIN heap' : WellFormed(heap'[i])) /\ Grows
  BY DEF StoreInv, NoPanic, Open, Grows, Types
<1>10. \A x \in Held' : x = new \/ x \in Held
  <2>1. \A r \in Regs : regs'[r] = new \/ regs'[r] = regs[r]
    BY <1>7 DEF StoreInv, Types
  <2>2. heap' = heap
    BY DEF Open
  <2>. QED BY <2>1, <2>2, Zenon DEF Held
<1>11. ASSUME NEW CONSTANT x, Good(x) PROVE Fits(x)' /\ HandleWorks(x)'
  <2>1. Fits(x)'
    BY <1>1, <1>8, <1>9, <1>11, FitsStays DEF Good, StoreInv
  <2>2. HandleWorks(x)'
    <3>1. SUFFICES ASSUME x.tag = "file", x.open \notin dead
                   PROVE  x.n + 1 \in DOMAIN files' /\ files'[x.n + 1].open = x.open
      BY DEF HandleWorks, Open
    <3>2. /\ x.n + 1 \in DOMAIN files /\ files[x.n + 1].open = x.open /\ x.open \in 1 .. opens
      BY <1>11, <3>1 DEF Good, HandleWorks, Fits
    <3>3. x.n + 1 # FreeSlot + 1
      <4>1. Closed.open = 0
        BY DEF Closed
      <4>. QED BY <1>1, <3>2, <4>1
    <3>. QED BY <1>5, <3>2, <3>3
  <2>. QED BY <2>1, <2>2
<1>12. ASSUME NEW CONSTANT x, x = new PROVE Fits(x)' /\ HandleWorks(x)'
  <2>1. opens + 1 \in 1 .. opens'
    BY <1>1
  <2>. QED BY <1>3, <1>5, <1>6, <1>12, <2>1 DEF Fits, HandleWorks
<1>13. ASSUME NEW x \in Held' PROVE Fits(x)' /\ HandleWorks(x)'
  <2>1. CASE x = new BY <1>12, <2>1
  <2>2. CASE Good(x) BY <1>11, <2>2
  <2>. QED BY <1>10, <2>1, <2>2, AllGood
<1>. QED BY <1>8, <1>9, <1>13 DEF StoreInv

LEMMA CloseInv ==
  ASSUME StoreInv, "staleClose" \notin Liberties, NEW a \in Regs, Close(a)
  PROVE  StoreInv'
<1> DEFINE h == regs[a]
           Handles == [open : 0 .. opens, mode : {"none", "read", "write"}]
<1>1. /\ Good(h) /\ h.tag = "file" /\ h.open \notin dead /\ dead' = dead \cup {h.open}
      /\ UNCHANGED <<heap, regs, opens, status>>
  BY RegGood DEF Close
<1>2. h.n + 1 \in DOMAIN files /\ files[h.n + 1].open = h.open /\ h.open \in Nat
  BY <1>1 DEF Good, HandleWorks, Slot
<1>3. files' = [files EXCEPT ![h.n + 1] = Closed]
  BY <1>2 DEF Close
<1>4. files \in Seq(Handles) /\ opens \in Nat /\ DOMAIN files = 1 .. Len(files)
  BY LenProperties DEF StoreInv, Types
<1>5. Closed \in Handles
  BY <1>4 DEF Closed
<1>. HIDE DEF Handles
<1>6. files' \in Seq(Handles) /\ Len(files') = Len(files)
  BY <1>2, <1>3, <1>4, <1>5, ExceptSeq
<1>7. DOMAIN files' = DOMAIN files
  BY <1>3
<1>8. Types'
  BY <1>1, <1>2, <1>6 DEF StoreInv, Types, Handles
<1>9. Held' = Held /\ NoPanic' /\ \A i \in DOMAIN heap' : WellFormed(heap'[i])
  BY <1>1 DEF StoreInv, NoPanic, Held
<1>10. ASSUME NEW CONSTANT x, Good(x) PROVE Fits(x)' /\ HandleWorks(x)'
  <2>1. Fits(x)'
    BY <1>1, <1>10 DEF Good, Fits, RefFits, At, RowOf
  <2>2. HandleWorks(x)'
    <3>1. SUFFICES ASSUME x.tag = "file", x.open \notin dead'
                   PROVE  x.n + 1 \in DOMAIN files' /\ files'[x.n + 1].open = x.open
      BY DEF HandleWorks
    <3>2. x.n + 1 \in DOMAIN files /\ files[x.n + 1].open = x.open /\ x.open # h.open
      BY <1>1, <1>10, <3>1 DEF Good, HandleWorks
    <3>3. x.n + 1 # h.n + 1
      BY <1>2, <3>2
    <3>. QED BY <1>3, <1>7, <3>2, <3>3
  <2>. QED BY <2>1, <2>2
<1>. QED BY <1>8, <1>9, <1>10, AllGood DEF StoreInv

LEMMA BuiltinInv ==
  ASSUME StoreInv, "staleClose" \notin Liberties, Builtin
  PROVE  StoreInv'
<1>1. CASE BuiltinFails
  BY <1>1, EndedInv DEF BuiltinFails
<1>2. ASSUME NEW a \in Regs, Close(a) PROVE StoreInv'
  BY <1>2, CloseInv
<1>3. ASSUME NEW d \in Regs, NEW a \in Regs, NEW b \in Regs, Open(d, a, b) PROVE StoreInv'
  BY <1>3, OpenInv
<1>4. ASSUME NEW d \in Regs, NEW a \in Regs, NEW b \in Regs, Read(d, a, b) PROVE StoreInv'
  BY <1>4, BytesInv DEF Read
<1>5. ASSUME NEW d \in Regs, NEW a \in Regs, NEW b \in Regs, WriteFile(d, a, b) PROVE StoreInv'
  BY <1>5, PlainGood, PutInv, StoreAssumption DEF WriteFile
<1>. QED BY <1>1, <1>2, <1>3, <1>4, <1>5 DEF Builtin

-----------------------------------------------------------------------------
(* The theorems.                                                           *)
LEMMA InitInv == Init => StoreInv
<1>. SUFFICES ASSUME Init PROVE StoreInv
  OBVIOUS
<1>1. heap = <<>> /\ Len(heap) = 0 /\ DOMAIN heap = {}
  BY DEF Init
<1>2. Types
  <2>1. heap \in Seq(HeapValue) /\ Len(heap) <= MaxHeap
    BY <1>1, StoreAssumption, EmptySeq
  <2>2. regs \in [Regs -> Slot]
    BY PlainGood DEF Init, Good
  <2>3. files \in Seq([open : 0 .. opens, mode : {"none", "read", "write"}])
    BY DEF Init
  <2>. QED BY <2>1, <2>2, <2>3 DEF Init, Types
<1>3. \A s \in Held : s = Void
  BY <1>1 DEF Held, Init
<1>4. NoPanic
  BY DEF Init, NoPanic
<1>. QED BY <1>1, <1>2, <1>3, <1>4, PlainGood DEF StoreInv, Good

LEMMA StepInv ==
  ASSUME "anyArray" \notin Liberties, "staleClose" \notin Liberties,
         StoreInv, [Next]_vars
  PROVE  StoreInv'
<1>1. CASE UNCHANGED vars
  BY <1>1, Unchanged DEF vars, StoreInv, Types, NoPanic
<1>2. CASE Builtin
  BY <1>2, BuiltinInv
<1>3. ASSUME NEW d \in Regs, Instruction(d) PROVE StoreInv'
  <2>1. CASE LoadInt(d) \/ LoadStr(d)
    BY <2>1, ValuesInv
  <2>2. ASSUME NEW id \in Ids, NEW fs \in SUBSET AllFields, NEW given \in [fs -> Regs],
               StructLit(d, id, given)
        PROVE  StoreInv'
    BY <2>2, StructLitInv
  <2>3. ASSUME NEW a \in Regs,
               Move(d, a) \/ AllocBytes(d, a) \/ LoadRef(d, a) \/ StoreRef(d, a)
        PROVE  StoreInv'
    BY <2>3, ValuesInv, LoadRefInv, StoreRefInv
  <2>4. ASSUME NEW a \in Regs, NEW id \in Ids, AllocArrayStruct(d, a, id) PROVE StoreInv'
    BY <2>4, AllocArrayStructInv
  <2>5. ASSUME NEW a \in Regs, NEW b \in Regs, GetIndexRef(d, a, b) PROVE StoreInv'
    BY <2>5, GetIndexRefInv
  <2>6. ASSUME NEW a \in Regs, NEW f \in AllFields,
               GetFieldRef(d, a, f) \/ GetField(d, a, f) \/ SetField(d, f, a)
        PROVE  StoreInv'
    BY <2>6, GetFieldRefInv, FieldsInv
  <2>. QED BY <1>3, <2>1, <2>2, <2>3, <2>4, <2>5, <2>6 DEF Instruction
<1>. QED BY <1>1, <1>2, <1>3 DEF Next

(* However often slots are copied between registers and fields, whatever   *)
(* is allocated, opened and closed in between, each fits the heap and the  *)
(* file table (exec_func and exec_builtin).                                *)
THEOREM StoreInvariance ==
  ASSUME "anyArray" \notin Liberties, "staleClose" \notin Liberties
  PROVE  Spec => []StoreInv
<1>1. ASSUME StoreInv, [Next]_vars PROVE StoreInv'
  BY <1>1, StepInv
<1>. QED BY <1>1, InitInv, PTL DEF Spec

(* No instruction on memory indexes the heap, an array, a row or the table *)
(* of struct layouts out of bounds: exec_func does not panic there.        *)
THEOREM NeverPanics ==
  ASSUME "anyArray" \notin Liberties, "staleClose" \notin Liberties
  PROVE  Spec => []NoPanic
<1>1. StoreInv => NoPanic
  BY DEF StoreInv
<1>. QED BY <1>1, StoreInvariance, PTL

(* alloc_file never gives a slot to a second file while a handle to the    *)
(* first is open: every handle finds its own file until it is closed.      *)
THEOREM HandlesWork ==
  ASSUME "anyArray" \notin Liberties, "staleClose" \notin Liberties
  PROVE  Spec => []OpenHandlesWork
<1>1. StoreInv => OpenHandlesWork
  BY DEF StoreInv, OpenHandlesWork
<1>. QED BY <1>1, StoreInvariance, PTL

-----------------------------------------------------------------------------
(* RustStore implements Memory: every step on packed slots is the step of  *)
(* the same instruction on cells, or changes nothing there.                *)
(*                                                                         *)
(* What the slots stand for is stated once more as a function of the heap, *)
(* so that the heaps before and after a step can be compared.              *)
Value(h, s) ==
  LET ref == Unpack(s.n)
      fields == Structs[h[ref.target + 1].id + 1]
  IN  CASE s.tag = "heap" -> <<"object", s.n + 1>>
        [] s.tag = "int" -> <<"int", s.n>>
        [] s.tag = "ref" /\ ref.field = NoField -> <<"element", ref.target + 1, ref.elem>>
        [] s.tag = "ref" /\ ref.field # NoField ->
             <<"cell", ref.target + 1, RowOf(ref), fields[ref.field + 1]>>
        [] OTHER -> <<s.tag>>

Values(h, rs) == [r \in Regs |-> Value(h, rs[r])]

Described(v) ==
  [kind |-> IF v.kind \in {"str", "ptr"} THEN "bytes" ELSE v.kind,
   struct |-> v.id + 1, count |-> Len(v.rows)]

AllDescribed(h) == [i \in DOMAIN h |-> Described(h[i])]

\* The cells of the heap value v when its index is i.
CellsOfValue(i, v) ==
  {<<i, e, Structs[v.id + 1][p]>> : e \in 0 .. Len(v.rows) - 1, p \in 1 .. NumFields(v.id)}

AllCells(h) == UNION {CellsOfValue(i, h[i]) : i \in DOMAIN h}

SlotAt(h, c) == h[c[1]].rows[c[2] + 1][Position(h[c[1]].id, c[3]) + 1]

Contents(h) == [c \in AllCells(h) |-> Value(h, SlotAt(h, c))]

-----------------------------------------------------------------------------
(* The two statements of the mapping are the same.                         *)
LEMMA Mapping ==
  /\ Objects = AllDescribed(heap)
  /\ Cells = Contents(heap)
  /\ [r \in Regs |-> ValueOf(regs[r])] = Values(heap, regs)
<1>1. \A s : ValueOf(s) = Value(heap, s)
  BY DEF ValueOf, Value, At
<1>2. Objects = AllDescribed(heap)
  BY DEF Objects, AllDescribed, Described
<1>3. \A i : CellsOf(i) = CellsOfValue(i, heap[i])
  BY DEF CellsOf, CellsOfValue
<1>4. Cells = Contents(heap)
  BY <1>1, <1>3 DEF Cells, Contents, AllCells, SlotAt
<1>. QED BY <1>1, <1>2, <1>4 DEF Values

LEMMA MappingAfter ==
  /\ Objects' = AllDescribed(heap')
  /\ Cells' = Contents(heap')
  /\ [r \in Regs |-> ValueOf(regs[r])]' = Values(heap', regs')
<1>1. ASSUME NEW CONSTANT s PROVE ValueOf(s)' = Value(heap', s)
  BY DEF ValueOf, Value, At
<1>2. Objects' = AllDescribed(heap')
  BY DEF Objects, AllDescribed, Described
<1>3. Cells' = Contents(heap')
  BY DEF Cells, Contents, AllCells, SlotAt, CellsOf, CellsOfValue, ValueOf, Value, At
<1>4. [r \in Regs |-> ValueOf(regs[r])]' = Values(heap', regs')
  BY DEF Values, ValueOf, Value, At
<1>. QED BY <1>2, <1>3, <1>4

\* The ways in which Memory changes its state, in terms of heap and registers.
LEMMA GiveIs ==
  ASSUME NEW d, NEW v,
         Values(heap', regs') = [Values(heap, regs) EXCEPT ![d] = v],
         AllDescribed(heap') = AllDescribed(heap), Contents(heap') = Contents(heap),
         status' = status
  PROVE  M!Give(d, v)
BY Mapping, MappingAfter DEF M!Give

LEMMA PutIs ==
  ASSUME NEW c, NEW v,
         Values(heap', regs') = Values(heap, regs),
         AllDescribed(heap') = AllDescribed(heap),
         Contents(heap') = [Contents(heap) EXCEPT ![c] = v],
         status' = status
  PROVE  M!Put(c, v)
BY Mapping, MappingAfter DEF M!Put

LEMMA EndIs ==
  ASSUME heap' = heap, regs' = regs
  PROVE  /\ status' = "fault" => M!Fault
         /\ status' = "quit" => M!Quit
         /\ status' = status => UNCHANGED M!vars
BY Mapping, MappingAfter DEF M!Fault, M!Quit, M!vars

-----------------------------------------------------------------------------
(* Values and cells.                                                       *)
LEMMA ValueIs ==
  ASSUME NEW h, NEW s
  PROVE  /\ s.tag = "heap" => Value(h, s) = <<"object", s.n + 1>>
         /\ s.tag = "int" => Value(h, s) = <<"int", s.n>>
         /\ s.tag = "ref" =>
              LET ref == Unpack(s.n)
              IN  IF ref.field = NoField
                  THEN Value(h, s) = <<"element", ref.target + 1, ref.elem>>
                  ELSE Value(h, s) = <<"cell", ref.target + 1, RowOf(ref),
                                       Structs[h[ref.target + 1].id + 1][ref.field + 1]>>
         /\ s.tag \in {"void", "file"} => Value(h, s) = <<s.tag>>
BY DEF Value

LEMMA ValueStays ==
  ASSUME StoreInv, NEW s, Good(s), NEW h, \A i \in DOMAIN heap : h[i].id = heap[i].id
  PROVE  Value(h, s) = Value(heap, s)
<1>1. CASE s.tag = "ref"
  <2> DEFINE ref == Unpack(s.n)
  <2>1. s.n \in Nat /\ RefFits(ref)
    BY <1>1 DEF Good, Slot, Fits
  <2>2. ref.target \in Nat
    BY <2>1, UnpackTyped
  <2>. HIDE DEF ref
  <2>3. ref.target < Len(heap)
    BY <2>1 DEF RefFits
  <2>4. h[ref.target + 1].id = heap[ref.target + 1].id
    BY <2>2, <2>3, ValueIn
  <2>. QED BY <1>1, <2>4, ValueIs DEF ref
<1>2. CASE s.tag # "ref"
  BY <1>2 DEF Value
<1>. QED BY <1>1, <1>2

\* What is in a register, seen through its value.
LEMMA ValueTells ==
  ASSUME StoreInv, NEW a \in Regs, NEW v, v = Value(heap, regs[a])
  PROVE  /\ v[1] = "object" <=> regs[a].tag = "heap"
         /\ v[1] = "int" <=> IsInt(regs[a])
         /\ v[1] = "element" <=> regs[a].tag = "ref" /\ Unpack(regs[a].n).field = NoField
         /\ v[1] = "cell" <=> regs[a].tag = "ref" /\ Unpack(regs[a].n).field # NoField
<1>1. regs[a].tag \in {"void", "int", "heap", "ref", "file"}
  <2>1. regs[a] \in Slot
    BY RegGood DEF Good
  <2>. QED BY <2>1 DEF Slot
<1>2. CASE regs[a].tag = "heap"
  BY <1>2, ValueIs DEF IsInt
<1>3. CASE regs[a].tag = "int"
  BY <1>3, ValueIs DEF IsInt
<1>4. CASE regs[a].tag = "ref"
  <2> DEFINE ref == Unpack(regs[a].n)
  <2>1. CASE ref.field = NoField
    <3>1. v = <<"element", ref.target + 1, ref.elem>>
      BY <1>4, <2>1, ValueIs
    <3>. QED BY <1>4, <2>1, <3>1 DEF IsInt
  <2>2. CASE ref.field # NoField
    <3>1. v[1] = "cell"
      BY <1>4, <2>2, ValueIs
    <3>. QED BY <1>4, <2>2, <3>1 DEF IsInt
  <2>. QED BY <2>1, <2>2
<1>5. CASE regs[a].tag \in {"void", "file"}
  BY <1>5, ValueIs DEF IsInt
<1>. QED BY <1>1, <1>2, <1>3, <1>4, <1>5

\* Fields are where their layout has them.
LEMMA FieldAt ==
  ASSUME NEW id \in Ids
  PROVE  /\ \A p \in 1 .. NumFields(id) :
              /\ HasField(id, Structs[id + 1][p])
              /\ Position(id, Structs[id + 1][p]) = p - 1
         /\ \A f : HasField(id, f) => Structs[id + 1][Position(id, f) + 1] = f
<1>1. id + 1 \in DOMAIN Structs /\ Structs[id + 1] \in Seq(STRING)
  BY StoreAssumption, LenProperties, ElementOfSeq DEF Ids
<1>2. /\ DOMAIN Structs[id + 1] = 1 .. NumFields(id) /\ NumFields(id) \in Nat
      /\ \A p, q \in DOMAIN Structs[id + 1] : Structs[id + 1][p] = Structs[id + 1][q] => p = q
  BY <1>1, StoreAssumption, LenProperties DEF NumFields
<1>3. ASSUME NEW f, HasField(id, f)
      PROVE  \E p \in 1 .. NumFields(id) : Structs[id + 1][p] = f /\ Position(id, f) = p - 1
  <2> DEFINE p == CHOOSE q \in DOMAIN Structs[id + 1] : Structs[id + 1][q] = f
  <2>1. p \in DOMAIN Structs[id + 1] /\ Structs[id + 1][p] = f
    BY <1>3 DEF HasField
  <2>2. Position(id, f) = p - 1
    BY DEF Position
  <2>. HIDE DEF p
  <2>. QED BY <1>2, <2>1, <2>2
<1>4. ASSUME NEW p \in 1 .. NumFields(id)
      PROVE  HasField(id, Structs[id + 1][p]) /\ Position(id, Structs[id + 1][p]) = p - 1
  <2>1. HasField(id, Structs[id + 1][p])
    BY <1>2 DEF HasField
  <2>2. PICK q \in 1 .. NumFields(id) :
          Structs[id + 1][q] = Structs[id + 1][p] /\ Position(id, Structs[id + 1][p]) = q - 1
    BY <1>3, <2>1
  <2>3. q = p
    BY <1>2, <2>2
  <2>. QED BY <2>1, <2>2, <2>3
<1>5. ASSUME NEW f, HasField(id, f) PROVE Structs[id + 1][Position(id, f) + 1] = f
  <2>1. PICK p \in 1 .. NumFields(id) : Structs[id + 1][p] = f /\ Position(id, f) = p - 1
    BY <1>3, <1>5
  <2>2. Position(id, f) + 1 = p
    BY <2>1
  <2>. QED BY <2>1, <2>2
<1>. QED BY <1>4, <1>5

\* The cells of an object: one for each field of each row.
LEMMA CellOfValue ==
  ASSUME NEW i, NEW v \in HeapValue, NEW c
  PROVE  c \in CellsOfValue(i, v) <=>
           \E e \in 0 .. Len(v.rows) - 1 : \E f : c = <<i, e, f>> /\ HasField(v.id, f)
<1>1. v.id \in Ids
  BY DEF HeapValue
<1>2. ASSUME NEW e \in 0 .. Len(v.rows) - 1, NEW f, c = <<i, e, f>>, HasField(v.id, f)
      PROVE  c \in CellsOfValue(i, v)
  <2>1. /\ Position(v.id, f) \in 0 .. NumFields(v.id) - 1 /\ NumFields(v.id) \in Nat
        /\ Structs[v.id + 1][Position(v.id, f) + 1] = f
    BY <1>1, <1>2, PositionIn, FieldAt
  <2>2. Position(v.id, f) + 1 \in 1 .. NumFields(v.id)
    BY <2>1
  <2>. QED BY <1>2, <2>1, <2>2 DEF CellsOfValue
<1>3. ASSUME c \in CellsOfValue(i, v)
      PROVE  \E e \in 0 .. Len(v.rows) - 1 : \E f : c = <<i, e, f>> /\ HasField(v.id, f)
  <2>1. PICK e \in 0 .. Len(v.rows) - 1, p \in 1 .. NumFields(v.id) :
          c = <<i, e, Structs[v.id + 1][p]>>
    BY <1>3 DEF CellsOfValue
  <2>. QED BY <1>1, <2>1, FieldAt
<1>. QED BY <1>2, <1>3

LEMMA CellExists ==
  ASSUME StoreInv, NEW t \in Nat, t < Len(heap), NEW e, NEW f
  PROVE  <<t + 1, e, f>> \in AllCells(heap) <=>
           e \in 0 .. Len(At(t).rows) - 1 /\ HasField(At(t).id, f)
<1>1. t + 1 \in DOMAIN heap /\ At(t) = heap[t + 1] /\ At(t) \in HeapValue
  BY ValueIn
<1>2. \A i \in DOMAIN heap : heap[i] \in HeapValue
  BY HeapTyped DEF StoreInv
<1>3. ASSUME NEW i \in DOMAIN heap, <<t + 1, e, f>> \in CellsOfValue(i, heap[i])
      PROVE  i = t + 1
  BY <1>2, <1>3, CellOfValue
<1>4. <<t + 1, e, f>> \in AllCells(heap) <=> <<t + 1, e, f>> \in CellsOfValue(t + 1, At(t))
  BY <1>1, <1>3 DEF AllCells
<1>5. <<t + 1, e, f>> \in CellsOfValue(t + 1, At(t)) <=>
        e \in 0 .. Len(At(t).rows) - 1 /\ HasField(At(t).id, f)
  BY <1>1, CellOfValue
<1>. QED BY <1>4, <1>5

LEMMA CellIs ==
  ASSUME StoreInv, NEW t \in Nat, t < Len(heap), NEW e \in 0 .. Len(At(t).rows) - 1,
         NEW f, HasField(At(t).id, f)
  PROVE  Contents(heap)[<<t + 1, e, f>>] =
           Value(heap, At(t).rows[e + 1][Position(At(t).id, f) + 1])
<1> DEFINE c == <<t + 1, e, f>>
<1>1. c \in AllCells(heap)
  BY CellExists
<1>2. SlotAt(heap, c) = At(t).rows[e + 1][Position(At(t).id, f) + 1]
  BY DEF SlotAt, At
<1>. HIDE DEF c
<1>3. Contents(heap)[c] = Value(heap, SlotAt(heap, c))
  BY <1>1 DEF Contents
<1>. QED BY <1>2, <1>3 DEF c

-----------------------------------------------------------------------------
(* The ways in which steps change the state.                               *)
LEMMA PutRefines ==
  ASSUME StoreInv, NEW d \in Regs, NEW s, Put(d, s)
  PROVE  M!Give(d, Value(heap, s))
<1>1. heap' = heap /\ status' = status /\ regs' = [regs EXCEPT ![d] = s]
  BY DEF Put
<1>2. Values(heap', regs') = [Values(heap, regs) EXCEPT ![d] = Value(heap, s)]
  <2>1. \A r \in Regs : regs'[r] = IF r = d THEN s ELSE regs[r]
    BY <1>1 DEF StoreInv, Types
  <2>2. \A r \in Regs : Value(heap', regs'[r]) =
                          IF r = d THEN Value(heap, s) ELSE Value(heap, regs[r])
    BY <1>1, <2>1
  <2>. QED BY <2>2 DEF Values
<1>. QED BY <1>1, <1>2, GiveIs

LEMMA RegisterValues ==
  ASSUME NEW r \in Regs
  PROVE  ValueOf(regs[r]) = Value(heap, regs[r]) /\ Values(heap, regs)[r] = Value(heap, regs[r])
BY DEF ValueOf, Value, At, Values

\* Cells of the heap are slots the program holds.
LEMMA CellHolds ==
  ASSUME StoreInv, NEW c \in AllCells(heap)
  PROVE  /\ \E t \in Nat : \E e \in 0 .. Len(At(t).rows) - 1 : \E f :
              /\ t < Len(heap) /\ c = <<t + 1, e, f>> /\ HasField(At(t).id, f)
         /\ SlotAt(heap, c) \in Held
<1>1. PICK i \in DOMAIN heap : c \in CellsOfValue(i, heap[i])
  BY DEF AllCells
<1>2. PICK t \in Nat : i = t + 1 /\ t < Len(heap)
  <2>1. i - 1 \in Nat /\ i = (i - 1) + 1 /\ i - 1 < Len(heap)
    BY HeapTyped DEF StoreInv
  <2>. QED BY <2>1
<1>3. /\ At(t) = heap[i] /\ At(t) \in HeapValue /\ WellFormed(At(t)) /\ At(t).id \in Ids
  BY <1>2, ValueIn
<1>4. PICK e, f :
        e \in 0 .. Len(At(t).rows) - 1 /\ c = <<t + 1, e, f>> /\ HasField(At(t).id, f)
  BY <1>1, <1>2, <1>3, CellOfValue
<1>5. SlotAt(heap, c) = At(t).rows[e + 1][Position(At(t).id, f) + 1]
  BY <1>2, <1>3, <1>4 DEF SlotAt
<1>6. /\ e + 1 \in DOMAIN At(t).rows
      /\ Len(At(t).rows[e + 1]) = NumFields(At(t).id)
  BY <1>3, <1>4, RowsTyped DEF WellFormed
<1>7. Position(At(t).id, f) \in 0 .. Len(At(t).rows[e + 1]) - 1
  BY <1>3, <1>4, <1>6, PositionIn
<1>8. SlotAt(heap, c) \in Held
  BY <1>2, <1>4, <1>5, <1>7, CellHeld
<1>. QED BY <1>2, <1>4, <1>8

LEMMA SeqOf ==
  ASSUME NEW S, NEW n \in Nat, NEW s \in [1 .. n -> S]
  PROVE  s \in Seq(S) /\ Len(s) = n
<1>1. s \in Seq(S)
  BY SMT
<1>2. Len(s) \in Nat /\ 1 .. Len(s) = 1 .. n
  BY <1>1, LenProperties
<1>. QED BY <1>2, SMT

LEMMA AppendDescribed ==
  ASSUME NEW h \in Seq(HeapValue), NEW g \in Seq(HeapValue), NEW v, Len(g) = Len(h) + 1,
         g[Len(h) + 1] = v, \A j \in DOMAIN h : g[j] = h[j]
  PROVE  AllDescribed(g) = Append(AllDescribed(h), Described(v)) /\ Len(AllDescribed(h)) = Len(h)
<1> DEFINE S == {Described(x) : x \in HeapValue}
<1>1. Len(h) \in Nat /\ DOMAIN h = 1 .. Len(h) /\ DOMAIN g = 1 .. Len(h) + 1
  BY LenProperties
<1>2. (\A j \in DOMAIN h : Described(h[j]) \in S) /\ (\A j \in DOMAIN g : Described(g[j]) \in S)
  BY <1>1, ElementOfSeq
<1>3. v \in HeapValue /\ Described(v) \in S
  <2>1. g[Len(h) + 1] \in HeapValue
    BY <1>1, ElementOfSeq
  <2>. QED BY <2>1
<1>. HIDE DEF S
<1>4. AllDescribed(h) \in [1 .. Len(h) -> S] /\ AllDescribed(g) \in [1 .. Len(h) + 1 -> S]
  BY <1>1, <1>2 DEF AllDescribed
<1>5. /\ AllDescribed(h) \in Seq(S) /\ Len(AllDescribed(h)) = Len(h)
      /\ AllDescribed(g) \in Seq(S) /\ Len(AllDescribed(g)) = Len(h) + 1
  BY <1>1, <1>4, SeqOf, SMTT(30)
<1>6. /\ \A j \in 1 .. Len(h) : AllDescribed(h)[j] = Described(h[j])
      /\ \A j \in 1 .. Len(h) + 1 : AllDescribed(g)[j] = Described(g[j])
  BY <1>1 DEF AllDescribed
<1> DEFINE A == Append(AllDescribed(h), Described(v))
<1>7. /\ A \in Seq(S) /\ Len(A) = Len(h) + 1
      /\ \A j \in 1 .. Len(h) : A[j] = AllDescribed(h)[j]
      /\ A[Len(h) + 1] = Described(v)
  BY <1>3, <1>5, AppendProperties
<1>. HIDE DEF A
<1>8. ASSUME NEW j \in 1 .. Len(h) + 1 PROVE AllDescribed(g)[j] = A[j]
  <2>1. CASE j = Len(h) + 1
    BY <1>6, <1>7, <2>1
  <2>2. CASE j # Len(h) + 1
    <3>1. j \in 1 .. Len(h)
      BY <1>1, <2>2
    <3>. QED BY <1>1, <1>6, <1>7, <3>1
  <2>. QED BY <2>1, <2>2
<1>9. AllDescribed(g) = A
  BY <1>5, <1>7, <1>8, SeqEqual
<1>. QED BY <1>5, <1>9 DEF A

\* A new value: the rows are filled from registers, as given says.
LEMMA AllocRefines ==
  ASSUME StoreInv, NEW d \in Regs, NEW v \in HeapValue, WellFormed(v), AllocHeap(d, v),
         NEW given, \A f \in DOMAIN given : given[f] \in Regs,
         \A e \in 1 .. Len(v.rows), p \in 1 .. NumFields(v.id) :
           v.rows[e][p] = IF Structs[v.id + 1][p] \in DOMAIN given
                          THEN regs[given[Structs[v.id + 1][p]]] ELSE Void
  PROVE  M!New(d, Described(v).kind, v.id + 1, Len(v.rows), given)
<1> DEFINE i == Len(heap) + 1
           mine == CellsOfValue(i, v)
           start(c) == IF c[3] \in DOMAIN given THEN Values(heap, regs)[given[c[3]]] ELSE <<"void">>
<1>1. /\ Len(heap) \in Nat /\ DOMAIN heap = 1 .. Len(heap) /\ heap \in Seq(HeapValue)
      /\ heap' \in Seq(HeapValue) /\ Len(heap') = Len(heap) + 1 /\ heap'[i] = v
      /\ \A j \in DOMAIN heap : heap'[j] = heap[j]
  BY HeapTyped, AppendProperties DEF StoreInv, Types, AllocHeap
<1>2. DOMAIN heap' = 1 .. i /\ i \notin DOMAIN heap
  BY <1>1, LenProperties
<1>3. ASSUME NEW s, Good(s) PROVE Value(heap', s) = Value(heap, s)
  BY <1>1, <1>3, ValueStays
<1>4. /\ AllDescribed(heap') = Append(AllDescribed(heap), Described(v))
      /\ Len(AllDescribed(heap)) = Len(heap)
  BY <1>1, AppendDescribed
<1>5. AllCells(heap') = AllCells(heap) \cup mine
  <2>. HIDE DEF mine
  <2>1. \A j \in DOMAIN heap' : j \in DOMAIN heap \/ j = i
    BY <1>1, <1>2
  <2>2. \A j \in DOMAIN heap : j \in DOMAIN heap' /\ heap'[j] = heap[j]
    BY <1>1, <1>2
  <2>3. i \in DOMAIN heap' /\ heap'[i] = v
    BY <1>1, <1>2
  <2>. HIDE DEF i
  <2>. QED BY <2>1, <2>2, <2>3 DEF AllCells, mine
<1>6. ASSUME NEW c \in AllCells(heap)
      PROVE  c \notin mine /\ Value(heap', SlotAt(heap', c)) = Contents(heap)[c]
  <2>1. PICK t \in Nat : \E e, f : t < Len(heap) /\ c = <<t + 1, e, f>>
    BY <1>6, CellHolds
  <2>2. c[1] = t + 1 /\ t + 1 \in DOMAIN heap
    BY <1>1, <2>1
  <2>3. c \notin mine
    <3>1. \A x \in mine : x[1] = i
      BY DEF CellsOfValue
    <3>. QED BY <1>2, <2>2, <3>1
  <2>4. SlotAt(heap', c) = SlotAt(heap, c)
    BY <1>1, <2>2 DEF SlotAt
  <2>5. Good(SlotAt(heap, c))
    BY <1>6, CellHolds, AllGood
  <2>. QED BY <1>3, <1>6, <2>3, <2>4, <2>5 DEF Contents
<1>7. ASSUME NEW c \in mine
      PROVE  Value(heap', SlotAt(heap', c)) = start(c)
  <2>1. PICK e \in 0 .. Len(v.rows) - 1, p \in 1 .. NumFields(v.id) :
          c = <<i, e, Structs[v.id + 1][p]>>
    BY DEF CellsOfValue
  <2>2. c[1] = i /\ c[2] = e /\ c[3] = Structs[v.id + 1][p]
    BY <2>1
  <2>3. Position(v.id, c[3]) + 1 = p
    <3>1. v.id \in Ids
      BY DEF HeapValue
    <3>2. Position(v.id, c[3]) = p - 1
      BY <2>2, <3>1, FieldAt
    <3>. QED BY <3>2
  <2>4. e + 1 \in 1 .. Len(v.rows)
    BY RowsTyped
  <2>5. SlotAt(heap', c) = v.rows[e + 1][p]
    BY <1>1, <2>2, <2>3 DEF SlotAt
  <2>6. CASE c[3] \in DOMAIN given
    <3>1. given[c[3]] \in Regs /\ SlotAt(heap', c) = regs[given[c[3]]]
      BY <2>2, <2>4, <2>5, <2>6
    <3>2. Value(heap', SlotAt(heap', c)) = Value(heap, regs[given[c[3]]])
      BY <1>3, <3>1, RegGood
    <3>. QED BY <2>6, <3>1, <3>2, RegisterValues
  <2>7. CASE c[3] \notin DOMAIN given
    <3>1. SlotAt(heap', c) = Void
      BY <2>2, <2>4, <2>5, <2>7
    <3>2. Value(heap', Void) = <<"void">>
      BY ValueIs DEF Void
    <3>. QED BY <2>7, <3>1, <3>2
  <2>. QED BY <2>6, <2>7
<1>8. Contents(heap') =
        [c \in AllCells(heap) \cup mine |-> IF c \notin mine THEN Contents(heap)[c] ELSE start(c)]
  <2>. HIDE DEF mine, start
  <2>. QED BY <1>5, <1>6, <1>7 DEF Contents
<1>9. Values(heap', regs') = [Values(heap, regs) EXCEPT ![d] = <<"object", i>>]
  <2>1. \A r \in Regs : regs'[r] = IF r = d THEN HeapSlot(Len(heap)) ELSE regs[r]
    BY DEF AllocHeap, StoreInv, Types
  <2>2. Value(heap', HeapSlot(Len(heap))) = <<"object", i>>
    BY ValueIs DEF HeapSlot
  <2>3. \A r \in Regs : Value(heap', regs[r]) = Value(heap, regs[r])
    BY <1>3, RegGood
  <2>4. \A r \in Regs : Value(heap', regs'[r]) =
                          IF r = d THEN <<"object", i>> ELSE Value(heap, regs[r])
    BY <2>1, <2>2, <2>3
  <2>. QED BY <2>4 DEF Values
<1>10. DOMAIN Contents(heap) = AllCells(heap) /\ status' = status
  BY DEF Contents, AllocHeap
<1>11. mine = {<<i, e, f>> : e \in 0 .. Len(v.rows) - 1, f \in M!Fields(v.id + 1)}
  <2>1. DOMAIN Structs[v.id + 1] = 1 .. NumFields(v.id)
    <3>1. v.id + 1 \in DOMAIN Structs /\ Structs[v.id + 1] \in Seq(STRING)
      BY StoreAssumption, LenProperties, ElementOfSeq DEF Ids, HeapValue
    <3>. QED BY <3>1, LenProperties DEF NumFields
  <2>. QED BY <2>1 DEF CellsOfValue, M!Fields
<1>12. Described(v) = [kind |-> Described(v).kind, struct |-> v.id + 1, count |-> Len(v.rows)]
  BY DEF Described
<1>13. Objects' = Append(Objects, [kind |-> Described(v).kind, struct |-> v.id + 1,
                                   count |-> Len(v.rows)])
  BY <1>4, <1>12, Mapping, MappingAfter
<1>14. Len(Objects) + 1 = i
  BY <1>4, Mapping
<1>15. Cells' = [c \in DOMAIN Cells \cup mine |->
                   IF c \notin mine THEN Cells[c]
                   ELSE IF c[3] \in DOMAIN given
                        THEN [r \in Regs |-> ValueOf(regs[r])][given[c[3]]] ELSE M!Void]
  <2>. HIDE DEF mine
  <2>. QED BY <1>8, <1>10, Mapping, MappingAfter DEF M!Void
<1>16. [r \in Regs |-> ValueOf(regs[r])]' =
         [[r \in Regs |-> ValueOf(regs[r])] EXCEPT ![d] = M!Object(i)]
  BY <1>9, Mapping, MappingAfter DEF M!Object
<1>17. UNCHANGED (IF status = "panic" THEN "fault" ELSE status)
  BY <1>10
<1> DEFINE new == {<<Len(Objects) + 1, e, f>> :
                      e \in 0 .. Len(v.rows) - 1, f \in M!Fields(v.id + 1)}
<1>18. new = mine
  <2>. HIDE DEF mine, i
  <2>. QED BY <1>11, <1>14
<1>. HIDE DEF mine, new
<1>19. Cells' = [c \in DOMAIN Cells \cup new |->
                   IF c \notin new THEN Cells[c]
                   ELSE IF c[3] \in DOMAIN given
                        THEN [r \in Regs |-> ValueOf(regs[r])][given[c[3]]] ELSE M!Void]
  BY <1>15, <1>18
<1>20. [r \in Regs |-> ValueOf(regs[r])]' =
         [[r \in Regs |-> ValueOf(regs[r])] EXCEPT ![d] = M!Object(Len(Objects) + 1)]
  BY <1>14, <1>16
<1>. QED BY <1>13, <1>17, <1>19, <1>20 DEF M!New, new

Written(v, row, field, s) == [v EXCEPT !.rows[row + 1][field + 1] = s]

LEMMA RowWritten ==
  ASSUME NEW v \in HeapValue, WellFormed(v), NEW row \in 0 .. Len(v.rows) - 1,
         NEW field \in 0 .. NumFields(v.id) - 1, NEW s \in Slot,
         NEW e \in 1 .. Len(v.rows), NEW p \in 1 .. NumFields(v.id)
  PROVE  Written(v, row, field, s).rows[e][p] =
           IF e = row + 1 /\ p = field + 1 THEN s ELSE v.rows[e][p]
<1> DEFINE w == Written(v, row, field, s)
<1>1. /\ v = [kind |-> v.kind, id |-> v.id, rows |-> v.rows]
      /\ v.rows \in Seq(Seq(Slot)) /\ row + 1 \in 1 .. Len(v.rows)
      /\ v.rows[row + 1] \in Seq(Slot) /\ Len(v.rows[row + 1]) = NumFields(v.id)
  <2>1. /\ v = [kind |-> v.kind, id |-> v.id, rows |-> v.rows]
        /\ v.rows \in Seq(Seq(Slot)) /\ Len(v.rows) \in Nat /\ DOMAIN v.rows = 1 .. Len(v.rows)
    BY RowsTyped
  <2>2. row + 1 \in 1 .. Len(v.rows)
    BY <2>1
  <2>3. v.rows[row + 1] \in Seq(Slot)
    BY <2>1, <2>2, RowsTyped
  <2>4. Len(v.rows[row + 1]) = NumFields(v.id)
    BY <2>1, <2>2 DEF WellFormed
  <2>. QED BY <2>1, <2>2, <2>3, <2>4
<1> DEFINE old == v.rows[row + 1]
           new == [old EXCEPT ![field + 1] = s]
<1>2. w.rows = [v.rows EXCEPT ![row + 1] = new]
  BY <1>1 DEF Written
<1>3. old \in Seq(Slot) /\ Len(old) = NumFields(v.id) /\ NumFields(v.id) \in Nat
  BY <1>1, LenProperties
<1>4. field + 1 \in 1 .. Len(old)
  BY <1>3
<1>5. /\ new \in Seq(Slot)
      /\ new[p] = IF p = field + 1 THEN s ELSE old[p]
  <2>. HIDE DEF old
  <2>. QED BY <1>3, <1>4, ExceptSeq
<1>. HIDE DEF new
<1>. HIDE DEF w
<1>6. w.rows[e] = IF e = row + 1 THEN new ELSE v.rows[e]
  <2>1. [v.rows EXCEPT ![row + 1] = new][e] = IF e = row + 1 THEN new ELSE v.rows[e]
    BY <1>1, <1>5, ExceptSeq, SMTT(30)
  <2>. QED BY <1>2, <2>1
<1>7. CASE e = row + 1
  BY <1>5, <1>6, <1>7 DEF w
<1>8. CASE e # row + 1
  BY <1>6, <1>8 DEF w
<1>. QED BY <1>7, <1>8

LEMMA SameCells ==
  ASSUME NEW i, NEW v, NEW w, w.id = v.id, Len(w.rows) = Len(v.rows)
  PROVE  CellsOfValue(i, w) = CellsOfValue(i, v)
BY DEF CellsOfValue

LEMMA WriteRefines ==
  ASSUME StoreInv, NEW i \in 0 .. Len(heap) - 1, NEW row \in 0 .. Len(At(i).rows) - 1,
         NEW field \in 0 .. NumFields(At(i).id) - 1, NEW s \in Held, Write(i, row, field, s)
  PROVE  M!Put(<<i + 1, row, Structs[At(i).id + 1][field + 1]>>, Value(heap, s))
<1> DEFINE v == At(i)
           w == Written(v, row, field, s)
           cell == <<i + 1, row, Structs[v.id + 1][field + 1]>>
<1>1. /\ Len(heap) \in Nat /\ DOMAIN heap = 1 .. Len(heap)
      /\ heap \in Seq(HeapValue) /\ i \in Nat /\ i < Len(heap) /\ i + 1 \in 1 .. Len(heap)
  BY HeapTyped DEF StoreInv, Types
<1>2. v \in HeapValue /\ WellFormed(v) /\ v.id \in Ids /\ v = heap[i + 1]
  BY <1>1, ValueIn
<1>3. Good(s) /\ s \in Slot
  BY AllGood DEF Good
<1>4. heap' = [heap EXCEPT ![i + 1] = w] /\ regs' = regs /\ status' = status
  BY <1>2 DEF Write, Written
<1>5. /\ w \in HeapValue /\ w.kind = v.kind /\ w.id = v.id /\ Len(w.rows) = Len(v.rows)
      /\ \A e \in 1 .. Len(v.rows), p \in 1 .. NumFields(v.id) :
           w.rows[e][p] = IF e = row + 1 /\ p = field + 1 THEN s ELSE v.rows[e][p]
  <2>1. /\ w = [v EXCEPT !.rows[row + 1][field + 1] = s]
        /\ row \in 0 .. Len(v.rows) - 1 /\ field \in 0 .. NumFields(v.id) - 1
    BY DEF Written
  <2>. HIDE DEF v, w
  <2>2. w \in HeapValue /\ w.kind = v.kind /\ w.id = v.id /\ Len(w.rows) = Len(v.rows)
    BY <1>2, <1>3, <2>1, RowStored, SMTT(30)
  <2>3. ASSUME NEW e \in 1 .. Len(v.rows), NEW p \in 1 .. NumFields(v.id)
        PROVE  w.rows[e][p] = IF e = row + 1 /\ p = field + 1 THEN s ELSE v.rows[e][p]
    <3>1. /\ v \in HeapValue /\ WellFormed(v) /\ row \in 0 .. Len(v.rows) - 1
          /\ field \in 0 .. NumFields(v.id) - 1 /\ s \in Slot
      BY <1>2, <1>3, <2>1
    <3>2. Written(v, row, field, s).rows[e][p] =
            IF e = row + 1 /\ p = field + 1 THEN s ELSE v.rows[e][p]
      BY <3>1, RowWritten
    <3>. QED BY <3>2 DEF w
  <2>. QED BY <2>2, <2>3
<1>. HIDE DEF w
<1>6. /\ heap' \in Seq(HeapValue) /\ Len(heap') = Len(heap)
      /\ \A j \in 1 .. Len(heap) : heap'[j] = IF j = i + 1 THEN w ELSE heap[j]
  BY <1>1, <1>4, <1>5, ExceptSeq
<1>7. DOMAIN heap' = 1 .. Len(heap)
  BY <1>6, LenProperties
<1>8. \A j \in DOMAIN heap : /\ heap'[j].id = heap[j].id /\ heap'[j].kind = heap[j].kind
                             /\ Len(heap'[j].rows) = Len(heap[j].rows)
  BY <1>1, <1>2, <1>5, <1>6
<1>9. ASSUME NEW x, Good(x) PROVE Value(heap', x) = Value(heap, x)
  BY <1>8, <1>9, ValueStays
<1>10. AllDescribed(heap') = AllDescribed(heap)
  BY <1>1, <1>7, <1>8 DEF AllDescribed, Described
<1>11. AllCells(heap') = AllCells(heap)
  <2>1. \A j \in DOMAIN heap : CellsOfValue(j, heap'[j]) = CellsOfValue(j, heap[j])
    BY <1>8, SameCells
  <2>. QED BY <1>1, <1>7, <2>1 DEF AllCells
<1>12. cell \in AllCells(heap)
  <2>1. field + 1 \in 1 .. NumFields(v.id)
    BY <1>2, PositionIn
  <2>2. HasField(v.id, Structs[v.id + 1][field + 1])
    BY <1>2, <2>1, FieldAt
  <2>. QED BY <1>1, <2>2, CellExists
<1>13. ASSUME NEW c \in AllCells(heap)
       PROVE  SlotAt(heap', c) = IF c = cell THEN s ELSE SlotAt(heap, c)
  <2>1. PICK t \in Nat : \E e \in 0 .. Len(At(t).rows) - 1 : \E f :
          t < Len(heap) /\ c = <<t + 1, e, f>> /\ HasField(At(t).id, f)
    BY <1>13, CellHolds
  <2>2. PICK e, f :
          /\ e \in 0 .. Len(At(t).rows) - 1 /\ t < Len(heap)
          /\ c = <<t + 1, e, f>> /\ HasField(At(t).id, f)
    BY <2>1
  <2>3. At(t) = heap[t + 1] /\ At(t) \in HeapValue /\ At(t).id \in Ids /\ t + 1 \in 1 .. Len(heap)
    BY <1>1, <2>2, ValueIn
  <2> DEFINE p == Position(At(t).id, f) + 1
  <2>4. /\ p \in 1 .. NumFields(At(t).id) /\ Structs[At(t).id + 1][p] = f
        /\ p - 1 = Position(At(t).id, f)
    <3>1. /\ Position(At(t).id, f) \in 0 .. NumFields(At(t).id) - 1
          /\ NumFields(At(t).id) \in Nat
          /\ Structs[At(t).id + 1][Position(At(t).id, f) + 1] = f
      BY <2>2, <2>3, PositionIn, FieldAt
    <3> DEFINE q == Position(At(t).id, f)
               n == NumFields(At(t).id)
    <3>2. /\ q \in 0 .. n - 1 /\ n \in Nat /\ Structs[At(t).id + 1][q + 1] = f
      BY <3>1
    <3>. HIDE DEF q, n
    <3>3. q + 1 \in 1 .. n /\ q + 1 - 1 = q
      BY <3>2
    <3>. QED BY <3>2, <3>3 DEF q, n
  <2>5. SlotAt(heap, c) = At(t).rows[e + 1][p] /\ SlotAt(heap', c) = heap'[t + 1].rows[e + 1][p]
    <3>1. c[1] = t + 1 /\ c[2] = e /\ c[3] = f
      BY <2>2
    <3>2. heap'[t + 1].id = At(t).id
      BY <1>1, <1>8, <2>3
    <3>. QED BY <2>3, <3>1, <3>2 DEF SlotAt
  <2>6. e + 1 \in 1 .. Len(At(t).rows) /\ e \in Int
    <3>1. e \in 0 .. Len(At(t).rows) - 1
      BY <2>2
    <3>2. Len(At(t).rows) \in Nat
      BY <2>3, RowsTyped
    <3>. QED BY <3>1, <3>2
  <2>. HIDE DEF p
  <2>7. CASE t # i
    BY <1>1, <1>6, <2>2, <2>3, <2>5, <2>7, SMTT(30)
  <2>8. CASE t = i
    <3>1. heap'[t + 1] = w /\ At(t) = v
      BY <1>1, <1>6, <2>8
    <3>2. SlotAt(heap', c) = IF e = row /\ p = field + 1 THEN s ELSE SlotAt(heap, c)
      <4>1. e + 1 = row + 1 <=> e = row
        BY <2>6
      <4>. QED BY <1>5, <2>4, <2>5, <2>6, <3>1, <4>1
    <3>3. p = field + 1 <=> f = Structs[v.id + 1][field + 1]
      <4>1. field + 1 \in 1 .. NumFields(v.id)
        BY <1>2, PositionIn
      <4>2. Position(v.id, Structs[v.id + 1][field + 1]) = field
        <5>1. Position(v.id, Structs[v.id + 1][field + 1]) = field + 1 - 1
          BY <1>2, <4>1, FieldAt
        <5>. QED BY <5>1
      <4>. QED BY <2>4, <3>1, <4>1, <4>2
    <3>4. c = cell <=> e = row /\ f = Structs[v.id + 1][field + 1]
      BY <2>2, <2>8
    <3>. QED BY <3>2, <3>3, <3>4
  <2>. QED BY <2>7, <2>8
<1>. HIDE DEF cell
<1>14. Contents(heap') = [Contents(heap) EXCEPT ![cell] = Value(heap, s)]
  <2>1. \A c \in AllCells(heap) : Value(heap', SlotAt(heap', c)) =
          IF c = cell THEN Value(heap, s) ELSE Value(heap, SlotAt(heap, c))
    BY <1>3, <1>9, <1>13, CellHolds, AllGood
  <2>. QED BY <1>11, <2>1 DEF Contents
<1>15. Values(heap', regs') = Values(heap, regs)
  BY <1>4, <1>9, RegGood DEF Values
<1>. QED BY <1>4, <1>10, <1>14, <1>15, PutIs DEF cell

-----------------------------------------------------------------------------
(* What Memory sees in a register.                                         *)
LEMMA ObjectTells ==
  ASSUME StoreInv, NEW a \in Regs
  PROVE  /\ \A kind \in {"struct", "array"} :
              M!IsObject(ValueOf(regs[a]), kind) <=> IsHeap(regs[a], kind)
         /\ regs[a].tag = "heap" =>
              /\ ValueOf(regs[a]) = <<"object", regs[a].n + 1>>
              /\ Objects[regs[a].n + 1] = Described(At(regs[a].n))
<1> DEFINE v == ValueOf(regs[a])
<1>1. v = Value(heap, regs[a]) /\ (v[1] = "object" <=> regs[a].tag = "heap")
  BY RegisterValues, ValueTells
<1>. HIDE DEF v
<1>2. ASSUME regs[a].tag = "heap"
      PROVE  /\ v = <<"object", regs[a].n + 1>>
             /\ Objects[regs[a].n + 1] = Described(At(regs[a].n))
  <2>1. regs[a].n + 1 \in DOMAIN heap /\ At(regs[a].n) = heap[regs[a].n + 1]
    BY <1>2, HeapSlotIn, ValueIn
  <2>. QED BY <1>1, <1>2, <2>1, ValueIs, Mapping DEF AllDescribed
<1>3. ASSUME NEW kind \in {"struct", "array"}, regs[a].tag = "heap"
      PROVE  M!IsObject(v, kind) <=> IsHeap(regs[a], kind)
  <2>1. v[2] = regs[a].n + 1 /\ Objects[v[2]].kind = Described(At(regs[a].n)).kind
    BY <1>2, <1>3
  <2>2. Described(At(regs[a].n)).kind = kind <=> At(regs[a].n).kind = kind
    BY DEF Described
  <2>. QED BY <1>1, <1>3, <2>1, <2>2 DEF M!IsObject, M!Is, IsHeap
<1>4. ASSUME NEW kind \in {"struct", "array"}, regs[a].tag # "heap"
      PROVE  ~M!IsObject(v, kind) /\ ~IsHeap(regs[a], kind)
  BY <1>1, <1>4 DEF M!IsObject, M!Is, IsHeap
<1>. QED BY <1>2, <1>3, <1>4 DEF v

\* The cell of a field of what is in a register.
LEMMA CellOfIs ==
  ASSUME StoreInv, NEW a \in Regs, NEW f
  PROVE  /\ IsHeap(regs[a], "struct") /\ HasField(At(regs[a].n).id, f) =>
              M!CellOf(a, f) = <<regs[a].n + 1, 0, f>>
         /\ regs[a].tag = "ref" =>
              LET ref == Unpack(regs[a].n)
              IN  ref.field = NoField /\ HasField(At(ref.target).id, f) =>
                    M!CellOf(a, f) = <<ref.target + 1, ref.elem, f>>
         /\ ~(IsHeap(regs[a], "struct") /\ HasField(At(regs[a].n).id, f))
            /\ ~(regs[a].tag = "ref" /\ Unpack(regs[a].n).field = NoField
                 /\ HasField(At(Unpack(regs[a].n).target).id, f)) =>
              M!CellOf(a, f) = <<>>
<1> DEFINE v == ValueOf(regs[a])
           c == <<v[2], IF v[1] = "element" THEN v[3] ELSE 0, f>>
<1>1. M!CellOf(a, f) = IF (v[1] = "element" \/ M!IsObject(v, "struct")) /\ c \in AllCells(heap)
                       THEN c ELSE <<>>
  <2>1. [r \in Regs |-> ValueOf(regs[r])][a] = v /\ DOMAIN Cells = AllCells(heap)
    BY Mapping DEF Contents
  <2>. QED BY <2>1 DEF M!CellOf, M!Is
<1>2. /\ v = Value(heap, regs[a])
      /\ v[1] = "element" <=> regs[a].tag = "ref" /\ Unpack(regs[a].n).field = NoField
      /\ M!IsObject(v, "struct") <=> IsHeap(regs[a], "struct")
  BY RegisterValues, ValueTells, ObjectTells
<1>3. CASE IsHeap(regs[a], "struct")
  <2>1. regs[a].tag = "heap" /\ regs[a].n \in Nat /\ regs[a].n < Len(heap)
    BY <1>3, HeapSlotIn DEF IsHeap
  <2>2. v = <<"object", regs[a].n + 1>>
    BY <2>1, ObjectTells
  <2>3. c = <<regs[a].n + 1, 0, f>>
    BY <2>2
  <2>4. 0 \in 0 .. Len(At(regs[a].n).rows) - 1
    <3>1. At(regs[a].n) \in HeapValue /\ WellFormed(At(regs[a].n)) /\ At(regs[a].n).kind = "struct"
      BY <1>3, <2>1, ValueIn DEF IsHeap
    <3>. QED BY <3>1 DEF WellFormed
  <2>. HIDE DEF c, v
  <2>5. c \in AllCells(heap) <=> HasField(At(regs[a].n).id, f)
    BY <2>1, <2>3, <2>4, CellExists
  <2>. QED BY <1>1, <1>2, <1>3, <2>1, <2>3, <2>5
<1>4. CASE regs[a].tag = "ref" /\ Unpack(regs[a].n).field = NoField
  <2>1. PICK ref : ref = Unpack(regs[a].n)
    OBVIOUS
  <2>2. v = <<"element", ref.target + 1, ref.elem>>
    BY <1>2, <1>4, <2>1, ValueIs
  <2>3. c = <<ref.target + 1, ref.elem, f>> /\ v[1] = "element"
    BY <2>2
  <2>4. /\ ref.target \in Nat /\ ref.target < Len(heap)
        /\ ref.elem \in 0 .. Len(At(ref.target).rows) - 1
    BY <1>4, <2>1, RefIn DEF RefFits, RowOf
  <2>. HIDE DEF c, v
  <2>5. c \in AllCells(heap) <=> HasField(At(ref.target).id, f)
    BY <2>3, <2>4, CellExists
  <2>. QED BY <1>1, <1>2, <1>4, <2>1, <2>3, <2>5 DEF IsHeap
<1>5. CASE /\ ~IsHeap(regs[a], "struct")
           /\ ~(regs[a].tag = "ref" /\ Unpack(regs[a].n).field = NoField)
  <2>. HIDE DEF c, v
  <2>. QED BY <1>1, <1>2, <1>5
<1>. QED BY <1>3, <1>4, <1>5

-----------------------------------------------------------------------------
(* The instructions.                                                       *)
LEMMA PlainRefines ==
  ASSUME StoreInv, NEW d \in Regs, NEW a \in Regs,
         \/ Put(d, regs[a])
         \/ \E n \in Ints : Put(d, IntSlot(n))
  PROVE  M!Plain(d)
<1>1. CASE Put(d, regs[a])
  <2>1. M!Give(d, [r \in Regs |-> ValueOf(regs[r])][a])
    BY <1>1, PutRefines, RegisterValues
  <2>. QED BY <2>1 DEF M!Plain
<1>2. ASSUME NEW n \in Ints, Put(d, IntSlot(n)) PROVE M!Plain(d)
  <2>1. M!Give(d, Value(heap, IntSlot(n)))
    BY <1>2, PutRefines
  <2>2. Value(heap, IntSlot(n)) = M!Number(n)
    BY ValueIs DEF IntSlot, M!Number
  <2>. QED BY <2>1, <2>2 DEF M!Plain
<1>. QED BY <1>1, <1>2

LEMMA BytesRefine ==
  ASSUME StoreInv, NEW d \in Regs, NEW kind \in {"str", "ptr"}, AllocHeap(d, Bytes(kind))
  PROVE  M!NewBytes(d)
<1> DEFINE v == Bytes(kind)
<1>1. v.rows = <<>> /\ v.kind = kind /\ v.id = 0 /\ v = [kind |-> kind, id |-> 0, rows |-> <<>>]
  BY DEF Bytes
<1>. HIDE DEF v
<1>2. v \in HeapValue
  <2>1. 0 \in Ids
    BY StoreAssumption, EmptySeq, LenProperties DEF Ids
  <2>. QED BY <1>1, <2>1 DEF HeapValue
<1>3. WellFormed(v) /\ Len(v.rows) = 0 /\ Described(v).kind = "bytes" /\ v.id + 1 = 1
  <2>1. Len(v.rows) = 0 /\ DOMAIN v.rows = {}
    BY <1>1
  <2>2. Len(v.rows) <= IndexRange
    BY <2>1, StoreAssumption
  <2>. QED BY <1>1, <2>1, <2>2 DEF WellFormed, Described
<1>4. AllocHeap(d, v)
  BY DEF v
<1>5. DOMAIN <<>> = {}
  OBVIOUS
<1>6. M!New(d, Described(v).kind, v.id + 1, Len(v.rows), <<>>)
  <2>1. \A e \in 1 .. Len(v.rows), p \in 1 .. NumFields(v.id) :
           v.rows[e][p] = IF Structs[v.id + 1][p] \in DOMAIN <<>>
                          THEN regs[<<>>[Structs[v.id + 1][p]]] ELSE Void
    BY <1>3
  <2>. QED BY <1>2, <1>3, <1>4, <1>5, <2>1, AllocRefines
<1>. QED BY <1>3, <1>6 DEF M!NewBytes

LEMMA AllocArrayStructRefines ==
  ASSUME StoreInv, NEW d \in Regs, NEW a \in Regs, NEW id \in Ids, AllocArrayStruct(d, a, id)
  PROVE  M!NewArray(d, id + 1, a)
<1> DEFINE n == regs[a].n
           rows == [e \in 1 .. n |-> VoidRow(id)]
           v == [kind |-> "array", id |-> id, rows |-> rows]
           val == [r \in Regs |-> ValueOf(regs[r])][a]
<1>1. val = Value(heap, regs[a]) /\ (val[1] = "int" <=> IsInt(regs[a]))
  BY RegisterValues, ValueTells
<1>2. CASE ~IsInt(regs[a])
  <2>1. Ended("fault")
    BY <1>2 DEF AllocArrayStruct
  <2>2. M!Fault
    BY <2>1, EndIs DEF Ended
  <2>. QED BY <1>1, <1>2, <2>2 DEF M!NewArray, M!Is
<1>3. CASE IsInt(regs[a])
  <2>1. AllocHeap(d, v) /\ (n <= IndexRange \/ "longArrays" \in Liberties)
    BY <1>3 DEF AllocArrayStruct
  <2>2. n \in Nat /\ regs[a].tag = "int"
    <3>1. regs[a] \in Slot BY RegGood DEF Good
    <3>. QED BY <1>3, <3>1 DEF IsInt, Slot
  <2>3. val[2] = n
    BY <1>1, <2>2, ValueIs
  <2>4. /\ rows \in Seq(Seq(Slot)) /\ DOMAIN rows = 1 .. n /\ Len(rows) = n
        /\ \A e \in 1 .. n : rows[e] = VoidRow(id)
    <3>1. rows \in [1 .. n -> Seq(Slot)]
      BY VoidRowIn
    <3>2. \A e \in 1 .. n : rows[e] = VoidRow(id)
      OBVIOUS
    <3>. HIDE DEF rows
    <3>. QED BY <2>2, <3>1, <3>2, SeqOf
  <2>. HIDE DEF rows
  <2>5. v \in HeapValue /\ v.kind = "array" /\ v.id = id /\ v.rows = rows
    BY <2>4 DEF HeapValue
  <2>. HIDE DEF v, n
  <2>6. WellFormed(v) /\ Described(v).kind = "array" /\ Len(v.rows) = n
    <3>1. \A e \in DOMAIN v.rows : Len(v.rows[e]) = NumFields(v.id)
      BY <2>4, <2>5, VoidRowIn
    <3>. QED BY <2>1, <2>4, <2>5, <3>1 DEF WellFormed, Described
  <2>7. \A e \in 1 .. Len(v.rows), p \in 1 .. NumFields(v.id) :
          v.rows[e][p] = IF Structs[v.id + 1][p] \in DOMAIN <<>>
                         THEN regs[<<>>[Structs[v.id + 1][p]]] ELSE Void
    <3>1. \A p \in 1 .. NumFields(id) : VoidRow(id)[p] = Void
      BY DEF VoidRow
    <3>2. DOMAIN <<>> = {}
      OBVIOUS
    <3>. QED BY <2>4, <2>5, <2>6, <3>1, <3>2
  <2>8. M!New(d, Described(v).kind, v.id + 1, Len(v.rows), <<>>)
    <3>1. DOMAIN <<>> = {}
      OBVIOUS
    <3>. QED BY <2>1, <2>5, <2>6, <2>7, <3>1, AllocRefines
  <2>9. M!New(d, "array", id + 1, val[2], <<>>)
    BY <2>3, <2>5, <2>6, <2>8
  <2>. QED BY <1>1, <1>3, <2>9 DEF M!NewArray, M!Is
<1>. QED BY <1>2, <1>3

LEMMA StructLitRefines ==
  ASSUME StoreInv, NEW d \in Regs, NEW id \in Ids, NEW fs \in SUBSET AllFields,
         NEW given \in [fs -> Regs], StructLit(d, id, given)
  PROVE  M!NewStruct(d, id + 1, given)
<1> DEFINE FieldOf(p) == Structs[id + 1][p]
           row == [p \in 1 .. NumFields(id) |->
                     IF FieldOf(p) \in DOMAIN given THEN regs[given[FieldOf(p)]] ELSE Void]
           v == [kind |-> "struct", id |-> id, rows |-> <<row>>]
<1>1. \A f : HasField(id, f) <=> f \in M!Fields(id + 1)
  BY DEF HasField, M!Fields
<1>2. CASE \E f \in DOMAIN given : ~HasField(id, f)
  <2>1. Ended("fault")
    BY <1>2 DEF StructLit
  <2>2. M!Fault
    BY <2>1, EndIs DEF Ended
  <2>. QED BY <1>1, <1>2, <2>2 DEF M!NewStruct
<1>3. CASE ~\E f \in DOMAIN given : ~HasField(id, f)
  <2>1. AllocHeap(d, v)
    BY <1>3 DEF StructLit
  <2>2. NumFields(id) \in Nat
    BY PositionIn
  <2>3. \A p \in 1 .. NumFields(id) : row[p] \in Slot
    BY RegGood, PlainGood DEF Good
  <2>4. row \in Seq(Slot) /\ Len(row) = NumFields(id)
    <3>1. row \in [1 .. NumFields(id) -> Slot]
      BY <2>3
    <3>. HIDE DEF row
    <3>. QED BY <2>2, <3>1, SeqOf
  <2>5. \A p \in 1 .. NumFields(id) :
          row[p] = IF FieldOf(p) \in DOMAIN given THEN regs[given[FieldOf(p)]] ELSE Void
    OBVIOUS
  <2>. HIDE DEF row
  <2>6. /\ <<row>> \in Seq(Seq(Slot)) /\ Len(<<row>>) = 1 /\ DOMAIN <<row>> = {1}
        /\ <<row>>[1] = row
    BY <2>4
  <2>7. v \in HeapValue /\ v.kind = "struct" /\ v.id = id /\ v.rows = <<row>>
    BY <2>6 DEF HeapValue
  <2>. HIDE DEF v
  <2>8. WellFormed(v) /\ Described(v).kind = "struct" /\ Len(v.rows) = 1
    <3>1. Len(v.rows) <= IndexRange
      BY <2>6, <2>7, StoreAssumption
    <3>. QED BY <2>4, <2>6, <2>7, <3>1 DEF WellFormed, Described
  <2>9. \A e \in 1 .. Len(v.rows), p \in 1 .. NumFields(v.id) :
          v.rows[e][p] = IF Structs[v.id + 1][p] \in DOMAIN given
                         THEN regs[given[Structs[v.id + 1][p]]] ELSE Void
    BY <2>5, <2>6, <2>7, <2>8
  <2>10. M!New(d, Described(v).kind, v.id + 1, Len(v.rows), given)
    BY <2>1, <2>7, <2>8, <2>9, AllocRefines
  <2>11. M!New(d, "struct", id + 1, 1, given)
    BY <2>7, <2>8, <2>10
  <2>. QED BY <1>1, <1>3, <2>11 DEF M!NewStruct
<1>. QED BY <1>2, <1>3

LEMMA ModSelf ==
  ASSUME NEW n \in Nat \ {0}, NEW x \in 0 .. n - 1
  PROVE  x % n = x
BY SMT

LEMMA GetIndexRefRefines ==
  ASSUME StoreInv, "longArrays" \notin Liberties,
         NEW d \in Regs, NEW a \in Regs, NEW b \in Regs, GetIndexRef(d, a, b)
  PROVE  M!Index(d, a, b)
<1> DEFINE va == [r \in Regs |-> ValueOf(regs[r])][a]
           vb == [r \in Regs |-> ValueOf(regs[r])][b]
           t == regs[a].n
           n == regs[b].n
           fits == IsHeap(regs[a], "array") /\ IsInt(regs[b]) /\ n < Len(At(t).rows)
           means == /\ M!IsObject(va, "array") /\ M!Is(vb, "int")
                    /\ vb[2] \in 0 .. Objects[va[2]].count - 1
<1>1. va = ValueOf(regs[a]) /\ vb = Value(heap, regs[b]) /\ (M!Is(vb, "int") <=> IsInt(regs[b]))
  BY RegisterValues, ValueTells DEF M!Is
<1>2. M!IsObject(va, "array") <=> IsHeap(regs[a], "array")
  BY <1>1, ObjectTells
<1>3. ASSUME IsHeap(regs[a], "array"), IsInt(regs[b])
      PROVE  /\ va = <<"object", t + 1>> /\ vb[2] = n /\ n \in Nat /\ t \in Nat /\ t < Len(heap)
             /\ Objects[va[2]].count = Len(At(t).rows) /\ Len(At(t).rows) \in Nat
             /\ Len(At(t).rows) <= IndexRange
  <2>1. regs[a].tag = "heap" /\ t \in Nat /\ t < Len(heap)
    BY <1>3, HeapSlotIn DEF IsHeap
  <2>2. va = <<"object", t + 1>> /\ Objects[t + 1] = Described(At(t))
    BY <1>1, <2>1, ObjectTells
  <2>3. Objects[va[2]].count = Len(At(t).rows)
    BY <2>2 DEF Described
  <2>4. vb[2] = n
    BY <1>1, <1>3, ValueIs DEF IsInt
  <2>5. n \in Nat
    <3>1. regs[b] \in Slot BY RegGood DEF Good
    <3>. QED BY <1>3, <3>1 DEF IsInt, Slot
  <2>6. At(t) \in HeapValue /\ WellFormed(At(t))
    BY <2>1, ValueIn
  <2>7. Len(At(t).rows) \in Nat /\ Len(At(t).rows) <= IndexRange
    BY <2>6, RowsTyped DEF WellFormed
  <2>. QED BY <2>1, <2>2, <2>3, <2>4, <2>5, <2>7
<1>. HIDE DEF va, vb
<1>4. fits <=> means
  <2>1. CASE IsHeap(regs[a], "array") /\ IsInt(regs[b])
    <3>1. n < Len(At(t).rows) <=> vb[2] \in 0 .. Objects[va[2]].count - 1
      BY <1>3, <2>1
    <3>. QED BY <1>1, <1>2, <2>1, <3>1
  <2>2. CASE ~(IsHeap(regs[a], "array") /\ IsInt(regs[b]))
    BY <1>1, <1>2, <2>2
  <2>. QED BY <2>1, <2>2
<1>5. CASE ~fits
  <2>1. Ended("fault")
    BY <1>5 DEF GetIndexRef
  <2>2. M!Fault
    BY <2>1, EndIs DEF Ended
  <2>. QED BY <1>4, <1>5, <2>2 DEF M!Index, va, vb
<1>6. CASE fits
  <2>1. Put(d, RefArray(t, n % IndexRange, NoField))
    BY <1>6 DEF GetIndexRef
  <2>2. n % IndexRange = n /\ n \in 0 .. IndexRange - 1
    <3>1. n \in Nat /\ n < IndexRange /\ IndexRange \in Nat \ {0}
      BY <1>3, <1>6, StoreAssumption
    <3>2. n \in 0 .. IndexRange - 1
      BY <3>1
    <3>. HIDE DEF n
    <3>. QED BY <3>1, <3>2, ModSelf
  <2>3. t \in 0 .. TargetRange - 1 /\ NoField \in 0 .. FieldRange - 1
    <3>1. t \in 0 .. Len(heap) - 1 /\ Len(heap) <= TargetRange /\ Len(heap) \in Nat
      BY <1>3, <1>6, ValueIn, HeapTyped DEF StoreInv
    <3>. QED BY <3>1, StoreAssumption DEF NoField
  <2> DEFINE s == RefArray(t, n, NoField)
  <2>4. /\ s.tag = "ref"
        /\ Unpack(s.n).target = t /\ Unpack(s.n).elem = n /\ Unpack(s.n).field = NoField
    <3>1. Unpack(Ref(0, t, n, NoField).n) =
            [isStruct |-> 0 = 1, target |-> t, elem |-> n, field |-> NoField]
      <4>. HIDE DEF t, n
      <4>. QED BY <2>2, <2>3, Unpacked
    <3>2. s = Ref(0, t, n, NoField) /\ s.tag = "ref"
      BY DEF RefArray, Ref
    <3>. HIDE DEF s
    <3>. QED BY <3>1, <3>2
  <2>. HIDE DEF s
  <2>5. Value(heap, s) = <<"element", t + 1, n>>
    BY <2>4, ValueIs
  <2>6. Put(d, s)
    BY <2>1, <2>2 DEF s
  <2>7. M!Give(d, <<"element", t + 1, n>>)
    BY <2>5, <2>6, PutRefines
  <2>8. M!Give(d, M!Element(va[2], vb[2]))
    BY <1>3, <1>6, <2>7 DEF M!Element
  <2>. QED BY <1>4, <1>6, <2>8 DEF M!Index, va, vb
<1>. QED BY <1>5, <1>6

LEMMA GetFieldRefRefines ==
  ASSUME StoreInv, "anyArray" \notin Liberties,
         NEW d \in Regs, NEW a \in Regs, NEW f, GetFieldRef(d, a, f)
  PROVE  M!FieldRef(d, a, f)
<1>1. ASSUME M!CellOf(a, f) = <<>>, Ended("fault") PROVE M!FieldRef(d, a, f)
  BY <1>1, EndIs DEF Ended, M!FieldRef
\* A reference to field f of row e of the heap value t.
<1>2. ASSUME NEW k \in {0, 1}, NEW t \in Nat, t < Len(heap), NEW e \in 0 .. IndexRange - 1,
             HasField(At(t).id, f), (k = 1) => e = 0,
             Put(d, Ref(k, t, e, Position(At(t).id, f))), M!CellOf(a, f) = <<t + 1, e, f>>
      PROVE  M!FieldRef(d, a, f)
  <2> DEFINE p == Position(At(t).id, f)
             s == Ref(k, t, e, p)
  <2>1. /\ p \in 0 .. FieldRange - 1 /\ p # NoField /\ At(t).id \in Ids
        /\ Structs[At(t).id + 1][p + 1] = f
    <3>1. At(t).id \in Ids
      BY <1>2, ValueIn
    <3>2. /\ p \in 0 .. NumFields(At(t).id) - 1 /\ NumFields(At(t).id) \in Nat
          /\ NumFields(At(t).id) < NoField + 1
          /\ Structs[At(t).id + 1][p + 1] = f
      BY <1>2, <3>1, PositionIn, FieldAt
    <3>. HIDE DEF p
    <3>. QED BY <3>1, <3>2, StoreAssumption DEF NoField
  <2>2. t \in 0 .. TargetRange - 1
    <3>1. t \in 0 .. Len(heap) - 1 /\ Len(heap) <= TargetRange /\ Len(heap) \in Nat
      BY <1>2, ValueIn, HeapTyped DEF StoreInv
    <3>. QED BY <3>1, StoreAssumption
  <2>. HIDE DEF p
  <2>3. PICK ref : ref = Unpack(s.n)
    OBVIOUS
  <2>4. ref = [isStruct |-> k = 1, target |-> t, elem |-> e, field |-> p]
    BY <2>1, <2>2, <2>3, Unpacked
  <2>5. s.tag = "ref"
    BY DEF Ref
  <2>6. ref.target = t /\ ref.field = p /\ RowOf(ref) = e
    BY <1>2, <2>4 DEF RowOf
  <2>. HIDE DEF s
  <2>7. Value(heap, s) = <<"cell", t + 1, e, f>>
    <3>1. Value(heap, s) = <<"cell", t + 1, e, Structs[heap[t + 1].id + 1][p + 1]>>
      BY <2>1, <2>3, <2>5, <2>6, ValueIs
    <3>. QED BY <2>1, <3>1 DEF At
  <2>8. M!Give(d, <<"cell", t + 1, e, f>>)
    BY <1>2, <2>7, PutRefines DEF p, s
  <2>. QED BY <1>2, <2>8 DEF M!FieldRef, M!Cell
<1>3. CASE IsHeap(regs[a], "struct")
  <2>1. regs[a].tag # "ref" /\ regs[a].tag = "heap"
    BY <1>3 DEF IsHeap
  <2>2. CASE ~HasField(At(regs[a].n).id, f)
    <3>1. Ended("fault")
      BY <2>1, <2>2 DEF GetFieldRef
    <3>. QED BY <1>1, <2>1, <2>2, <3>1, CellOfIs
  <2>3. CASE HasField(At(regs[a].n).id, f)
    <3>1. Put(d, Ref(1, regs[a].n, 0, Position(At(regs[a].n).id, f)))
      BY <1>3, <2>1, <2>3 DEF GetFieldRef, RefStruct
    <3>2. regs[a].n \in Nat /\ regs[a].n < Len(heap)
      BY <2>1, HeapSlotIn
    <3>3. 0 \in 0 .. IndexRange - 1
      BY StoreAssumption
    <3>4. M!CellOf(a, f) = <<regs[a].n + 1, 0, f>>
      BY <1>3, <2>3, CellOfIs
    <3>. QED BY <1>2, <2>3, <3>1, <3>2, <3>3, <3>4
  <2>. QED BY <2>2, <2>3
<1>4. CASE regs[a].tag = "ref"
  <2>1. PICK ref : ref = Unpack(regs[a].n)
    OBVIOUS
  <2>2. /\ RefFits(ref) /\ ref.target \in Nat /\ ref.target < Len(heap)
        /\ ref.elem \in 0 .. IndexRange - 1
    BY <1>4, <2>1, RefIn
  <2>3. FieldOfElement(d, ref, f)
    BY <1>4, <2>1 DEF GetFieldRef
  <2>4. ~IsHeap(regs[a], "struct")
    BY <1>4 DEF IsHeap
  <2>5. CASE ref.isStruct \/ ref.field # NoField
    <3>1. ref.field # NoField
      BY <2>2, <2>5 DEF RefFits
    <3>2. Ended("fault")
      BY <2>3, <2>5 DEF FieldOfElement
    <3>. QED BY <1>1, <2>1, <2>4, <3>1, <3>2, CellOfIs
  <2>6. CASE ~ref.isStruct /\ ref.field = NoField
    <3>1. /\ ref.target < Len(Structs) /\ Structs[ref.target + 1] = Structs[At(ref.target).id + 1]
          /\ Len(Structs) \in Nat
      BY <2>3, <2>6, StoreAssumption, LenProperties DEF FieldOfElement
    <3>2. /\ HasField(ref.target, f) <=> HasField(At(ref.target).id, f)
          /\ Position(ref.target, f) = Position(At(ref.target).id, f)
      BY <3>1 DEF HasField, Position
    <3>3. ~(ref.target >= Len(Structs))
      BY <2>2, <3>1
    <3>4. CASE ~HasField(ref.target, f)
      <4>1. Ended("fault")
        BY <2>3, <2>6, <3>3, <3>4 DEF FieldOfElement
      <4>. QED BY <1>1, <2>1, <2>4, <3>2, <3>4, <4>1, CellOfIs
    <3>5. CASE HasField(ref.target, f)
      <4>1. Put(d, Ref(0, ref.target, ref.elem, Position(At(ref.target).id, f)))
        BY <2>3, <2>6, <3>2, <3>3, <3>5 DEF FieldOfElement, RefArray
      <4>2. M!CellOf(a, f) = <<ref.target + 1, ref.elem, f>>
        BY <1>4, <2>1, <2>6, <3>2, <3>5, CellOfIs
      <4>. QED BY <1>2, <2>2, <3>2, <3>5, <4>1, <4>2
    <3>. QED BY <3>4, <3>5
  <2>. QED BY <2>5, <2>6
<1>5. CASE ~IsHeap(regs[a], "struct") /\ regs[a].tag # "ref"
  <2>1. Ended("fault")
    BY <1>5 DEF GetFieldRef
  <2>. QED BY <1>1, <1>5, <2>1, CellOfIs
<1>. QED BY <1>3, <1>4, <1>5

LEMMA TailOfFour ==
  ASSUME NEW w, NEW x, NEW y, NEW z
  PROVE  Tail(<<w, x, y, z>>) = <<x, y, z>>
<1> DEFINE S == {w, x, y, z}
           four == <<w, x, y, z>>
           three == <<x, y, z>>
<1>1. /\ four \in Seq(S) /\ Len(four) = 4 /\ four # <<>>
      /\ four[2] = x /\ four[3] = y /\ four[4] = z
  OBVIOUS
<1>2. three \in Seq(S) /\ Len(three) = 3 /\ three[1] = x /\ three[2] = y /\ three[3] = z
  OBVIOUS
<1>. HIDE DEF S, four, three
<1>3. /\ Tail(four) \in Seq(S) /\ Len(Tail(four)) = 3
      /\ \A i \in 1 .. 3 : Tail(four)[i] = four[i + 1]
  <2>1. /\ Tail(four) \in Seq(S) /\ Len(Tail(four)) = Len(four) - 1
        /\ \A i \in 1 .. Len(Tail(four)) : Tail(four)[i] = four[i + 1]
    BY <1>1, HeadTailProperties
  <2>2. Len(Tail(four)) = 3
    BY <1>1, <2>1
  <2>. QED BY <2>1, <2>2
<1>4. \A i \in 1 .. 3 : Tail(four)[i] = three[i]
  <2>1. \A i \in 1 .. 3 : i = 1 \/ i = 2 \/ i = 3
    OBVIOUS
  <2>2. Tail(four)[1] = x /\ Tail(four)[2] = y /\ Tail(four)[3] = z
    <3>1. /\ Tail(four)[1] = four[1 + 1] /\ Tail(four)[2] = four[2 + 1]
          /\ Tail(four)[3] = four[3 + 1]
      BY <1>3
    <3>2. 1 + 1 = 2 /\ 2 + 1 = 3 /\ 3 + 1 = 4
      OBVIOUS
    <3>. QED BY <1>1, <3>1, <3>2
  <2>. QED BY <1>2, <2>1, <2>2
<1>5. Tail(four) = three
  BY <1>2, <1>3, <1>4, SeqEqual
<1>. QED BY <1>5 DEF four, three

\* The cell that a reference to a field is to.
LEMMA CellRef ==
  ASSUME StoreInv, NEW a \in Regs, regs[a].tag = "ref", NEW ref, ref = Unpack(regs[a].n),
         ref.field # NoField, NEW f, f = Structs[At(ref.target).id + 1][ref.field + 1]
  PROVE  /\ ref.target \in Nat /\ ref.target < Len(heap)
         /\ RowOf(ref) \in 0 .. Len(At(ref.target).rows) - 1
         /\ ref.field \in 0 .. NumFields(At(ref.target).id) - 1
         /\ Len(At(ref.target).rows[RowOf(ref) + 1]) = NumFields(At(ref.target).id)
         /\ NumFields(At(ref.target).id) \in Nat /\ Len(At(ref.target).rows) \in Nat
         /\ ValueOf(regs[a]) = <<"cell", ref.target + 1, RowOf(ref), f>>
         /\ Tail(ValueOf(regs[a])) = <<ref.target + 1, RowOf(ref), f>>
         /\ HasField(At(ref.target).id, f) /\ Position(At(ref.target).id, f) = ref.field
         /\ Follows(regs[a])
<1> DEFINE v == At(ref.target)
<1>1. /\ RefFits(ref) /\ ref.target \in Nat /\ ref.target < Len(heap)
      /\ ref.field \in 0 .. FieldRange - 1 /\ RowOf(ref) \in 0 .. Len(v.rows) - 1
  BY RefIn
<1>2. v \in HeapValue /\ WellFormed(v) /\ v.id \in Ids /\ v = heap[ref.target + 1]
  BY <1>1, ValueIn
<1>3. NumFields(v.id) \in Nat /\ ref.field \in 0 .. NumFields(v.id) - 1
  BY <1>1, <1>2, PositionIn, SMTT(30) DEF RefFits
<1>4. Len(v.rows) \in Nat /\ Len(v.rows[RowOf(ref) + 1]) = NumFields(v.id)
  <2>. HIDE DEF v
  <2>1. Len(v.rows) \in Nat /\ DOMAIN v.rows = 1 .. Len(v.rows)
    BY <1>2, RowsTyped
  <2>2. RowOf(ref) + 1 \in DOMAIN v.rows
    BY <1>1, <2>1
  <2>. QED BY <1>2, <2>1, <2>2 DEF WellFormed
<1>5. HasField(v.id, f) /\ Position(v.id, f) = ref.field
  <2>1. ref.field + 1 \in 1 .. NumFields(v.id) /\ ref.field + 1 - 1 = ref.field
    BY <1>3
  <2>2. f = Structs[v.id + 1][ref.field + 1]
    OBVIOUS
  <2>. HIDE DEF v
  <2>3. \A p \in 1 .. NumFields(v.id) :
          HasField(v.id, Structs[v.id + 1][p]) /\ Position(v.id, Structs[v.id + 1][p]) = p - 1
    BY <1>2, FieldAt
  <2>4. PICK p \in 1 .. NumFields(v.id) : p = ref.field + 1
    BY <2>1
  <2>5. HasField(v.id, Structs[v.id + 1][p]) /\ Position(v.id, Structs[v.id + 1][p]) = p - 1
    BY <2>3
  <2>6. p - 1 = ref.field
    <3>1. ref.field \in Int
      BY <1>3
    <3>. QED BY <2>4, <3>1
  <2>7. f = Structs[v.id + 1][p]
    BY <2>2, <2>4, Zenon
  <2>. QED BY <2>5, <2>6, <2>7
<1>6. ValueOf(regs[a]) = <<"cell", ref.target + 1, RowOf(ref), f>>
  <2>1. ValueOf(regs[a]) = Value(heap, regs[a])
    BY RegisterValues
  <2>2. Value(heap, regs[a]) = <<"cell", ref.target + 1, RowOf(ref),
                                Structs[heap[ref.target + 1].id + 1][ref.field + 1]>>
    BY ValueIs
  <2>. QED BY <1>2, <2>1, <2>2, Zenon
<1>7. Tail(ValueOf(regs[a])) = <<ref.target + 1, RowOf(ref), f>>
  <2> DEFINE x == ref.target + 1
             y == RowOf(ref)
  <2>1. ValueOf(regs[a]) = <<"cell", x, y, f>>
    BY <1>6
  <2>. HIDE DEF x, y
  <2>2. Tail(<<"cell", x, y, f>>) = <<x, y, f>>
    BY TailOfFour
  <2>3. Tail(ValueOf(regs[a])) = <<x, y, f>>
    BY <2>1, <2>2
  <2>. QED BY <2>3 DEF x, y
<1>8. Follows(regs[a])
  BY <1>1 DEF Follows, RefFits
<1>. QED BY <1>1, <1>3, <1>4, <1>5, <1>6, <1>7, <1>8

\* What is no reference to a field is followed by neither.
LEMMA NoCellRef ==
  ASSUME StoreInv, NEW a \in Regs, ~(regs[a].tag = "ref" /\ Unpack(regs[a].n).field # NoField)
  PROVE  ~Follows(regs[a]) /\ ~M!Is([r \in Regs |-> ValueOf(regs[r])][a], "cell")
BY RegisterValues, ValueTells DEF Follows, M!Is

LEMMA LoadRefRefines ==
  ASSUME StoreInv, NEW d \in Regs, NEW a \in Regs, LoadRef(d, a)
  PROVE  M!Load(d, a)
<1>1. CASE ~(regs[a].tag = "ref" /\ Unpack(regs[a].n).field # NoField)
  <2>1. ~Follows(regs[a]) /\ ~M!Is([r \in Regs |-> ValueOf(regs[r])][a], "cell")
    BY <1>1, NoCellRef
  <2>2. Ended("fault")
    BY <2>1 DEF LoadRef
  <2>. QED BY <2>1, <2>2, EndIs DEF Ended, M!Load
<1>2. CASE regs[a].tag = "ref" /\ Unpack(regs[a].n).field # NoField
  <2>1. PICK ref : ref = Unpack(regs[a].n)
    OBVIOUS
  <2>2. PICK f : f = Structs[At(ref.target).id + 1][ref.field + 1]
    OBVIOUS
  <2> DEFINE t == ref.target
             e == RowOf(ref)
             row == At(t).rows[e + 1]
  <2>3. /\ t \in Nat /\ t < Len(heap) /\ e \in 0 .. Len(At(t).rows) - 1
        /\ Len(At(t).rows) \in Nat /\ ref.field \in 0 .. NumFields(At(t).id) - 1
        /\ NumFields(At(t).id) \in Nat /\ Len(row) = NumFields(At(t).id)
        /\ ValueOf(regs[a]) = <<"cell", t + 1, e, f>>
        /\ Tail(ValueOf(regs[a])) = <<t + 1, e, f>>
        /\ HasField(At(t).id, f) /\ Position(At(t).id, f) = ref.field
        /\ Follows(regs[a])
    BY <1>2, <2>1, <2>2, CellRef
  <2>4. ~(RowOf(ref) >= Len(At(t).rows)) /\ ref.field < Len(row)
    BY <2>3, SMTT(30)
  <2>5. Put(d, row[ref.field + 1])
    BY <2>1, <2>3, <2>4 DEF LoadRef
  <2>6. Cells[<<t + 1, e, f>>] = Value(heap, row[ref.field + 1])
    <3>. HIDE DEF e
    <3>1. Contents(heap)[<<t + 1, e, f>>] =
            Value(heap, At(t).rows[e + 1][Position(At(t).id, f) + 1])
      BY <2>3, CellIs
    <3>. QED BY <2>3, <3>1, Mapping
  <2>7. M!Give(d, Cells[Tail(ValueOf(regs[a]))])
    BY <2>3, <2>5, <2>6, PutRefines
  <2>8. [r \in Regs |-> ValueOf(regs[r])][a] = ValueOf(regs[a])
    OBVIOUS
  <2>9. ValueOf(regs[a])[1] = "cell"
    BY <2>3
  <2>. QED BY <2>7, <2>8, <2>9 DEF M!Load, M!Is
<1>. QED BY <1>1, <1>2

LEMMA StoreRefRefines ==
  ASSUME StoreInv, NEW r \in Regs, NEW a \in Regs, StoreRef(r, a)
  PROVE  M!Store(r, a)
<1>1. CASE ~(regs[r].tag = "ref" /\ Unpack(regs[r].n).field # NoField)
  <2>1. ~Follows(regs[r]) /\ ~M!Is([q \in Regs |-> ValueOf(regs[q])][r], "cell")
    BY <1>1, NoCellRef
  <2>2. Ended("fault")
    BY <2>1 DEF StoreRef
  <2>. QED BY <2>1, <2>2, EndIs DEF Ended, M!Store
<1>2. CASE regs[r].tag = "ref" /\ Unpack(regs[r].n).field # NoField
  <2>1. PICK ref : ref = Unpack(regs[r].n)
    OBVIOUS
  <2>2. PICK f : f = Structs[At(ref.target).id + 1][ref.field + 1]
    OBVIOUS
  <2> DEFINE t == ref.target
             e == RowOf(ref)
  <2>3. /\ t \in Nat /\ t < Len(heap) /\ e \in 0 .. Len(At(t).rows) - 1
        /\ Len(At(t).rows) \in Nat /\ ref.field \in 0 .. NumFields(At(t).id) - 1
        /\ NumFields(At(t).id) \in Nat /\ Len(At(t).rows[e + 1]) = NumFields(At(t).id)
        /\ ValueOf(regs[r]) = <<"cell", t + 1, e, f>>
        /\ Tail(ValueOf(regs[r])) = <<t + 1, e, f>>
        /\ Follows(regs[r])
    BY <1>2, <2>1, <2>2, CellRef
  <2>4. RowOf(ref) < Len(At(t).rows) /\ ref.field < Len(At(t).rows[e + 1])
    BY <2>3, SMTT(30)
  <2>5. Write(t, e, ref.field, regs[a])
    BY <2>1, <2>3, <2>4 DEF StoreRef
  <2>6. t \in 0 .. Len(heap) - 1 /\ regs[a] \in Held
    BY <2>3, ValueIn DEF Held
  <2>7. M!Put(<<t + 1, e, f>>, Value(heap, regs[a]))
    <3>. HIDE DEF e
    <3>1. M!Put(<<t + 1, e, Structs[At(t).id + 1][ref.field + 1]>>, Value(heap, regs[a]))
      BY <2>3, <2>5, <2>6, WriteRefines
    <3>. QED BY <2>2, <3>1
  <2>8. /\ [q \in Regs |-> ValueOf(regs[q])][r] = ValueOf(regs[r])
        /\ [q \in Regs |-> ValueOf(regs[q])][a] = Value(heap, regs[a])
    BY RegisterValues
  <2>9. ValueOf(regs[r])[1] = "cell"
    BY <2>3
  <2>. QED BY <2>3, <2>7, <2>8, <2>9 DEF M!Store, M!Is
<1>. QED BY <1>1, <1>2

LEMMA FieldsRefine ==
  ASSUME StoreInv, NEW d \in Regs, NEW a \in Regs, NEW f
  PROVE  /\ GetField(d, a, f) => M!GetField(d, a, f)
         /\ SetField(d, f, a) => M!SetField(d, f, a)
<1> DEFINE Found(r) == IsHeap(regs[r], "struct") /\ HasField(At(regs[r].n).id, f)
           vals == [r \in Regs |-> ValueOf(regs[r])]
<1>1. ASSUME NEW r \in Regs, Found(r)
      PROVE  /\ regs[r].n \in Nat /\ regs[r].n < Len(heap) /\ 0 \in 0 .. Len(At(regs[r].n).rows) - 1
             /\ Position(At(regs[r].n).id, f) \in 0 .. NumFields(At(regs[r].n).id) - 1
             /\ At(regs[r].n).id \in Ids
             /\ M!CellOf(r, f) = <<regs[r].n + 1, 0, f>> /\ M!CellOf(r, f) # <<>>
             /\ M!IsObject(vals[r], "struct")
  <2>1. regs[r].n \in Nat /\ regs[r].n < Len(heap) /\ 0 \in 0 .. Len(At(regs[r].n).rows) - 1
        /\ Position(At(regs[r].n).id, f) \in 0 .. NumFields(At(regs[r].n).id) - 1
    BY <1>1, FieldIn
  <2>2. M!CellOf(r, f) = <<regs[r].n + 1, 0, f>> /\ M!CellOf(r, f) # <<>>
    <3>1. M!CellOf(r, f) = <<regs[r].n + 1, 0, f>>
      BY <1>1, CellOfIs
    <3>. QED BY <3>1
  <2>. QED BY <1>1, <2>1, <2>2, ValueIn, ObjectTells
<1>2. ASSUME NEW r \in Regs, ~Found(r)
      PROVE  ~(M!IsObject(vals[r], "struct") /\ M!CellOf(r, f) # <<>>)
  <2>1. CASE IsHeap(regs[r], "struct")
    <3>1. regs[r].tag # "ref"
      BY <2>1 DEF IsHeap
    <3>. QED BY <1>2, <3>1, CellOfIs
  <2>2. CASE ~IsHeap(regs[r], "struct")
    BY <2>2, ObjectTells
  <2>. QED BY <2>1, <2>2
<1>3. ASSUME Ended("fault") PROVE M!Fault
  BY <1>3, EndIs DEF Ended
<1>4. ASSUME GetField(d, a, f) PROVE M!GetField(d, a, f)
  <2>1. CASE Found(a)
    <3> DEFINE t == regs[a].n
               p == Position(At(t).id, f)
    <3>1. Put(d, At(t).rows[1][p + 1])
      BY <1>4, <2>1 DEF GetField
    <3>2. Cells[M!CellOf(a, f)] = Value(heap, At(t).rows[1][p + 1])
      <4>1. Contents(heap)[<<t + 1, 0, f>>] = Value(heap, At(t).rows[0 + 1][p + 1])
        BY <1>1, <2>1, CellIs
      <4>2. 0 + 1 = 1
        OBVIOUS
      <4>. HIDE DEF t, p
      <4>3. M!CellOf(a, f) = <<t + 1, 0, f>>
        BY <1>1, <2>1 DEF t
      <4>. QED BY <4>1, <4>2, <4>3, Mapping
    <3>. HIDE DEF t, p
    <3>3. M!Give(d, Cells[M!CellOf(a, f)])
      BY <3>1, <3>2, PutRefines
    <3>. QED BY <1>1, <2>1, <3>3 DEF M!GetField
  <2>2. CASE ~Found(a)
    <3>1. Ended("fault")
      BY <1>4, <2>2 DEF GetField
    <3>. QED BY <1>2, <1>3, <2>2, <3>1 DEF M!GetField
  <2>. QED BY <2>1, <2>2
<1>5. ASSUME SetField(d, f, a) PROVE M!SetField(d, f, a)
  <2>1. CASE Found(d)
    <3> DEFINE t == regs[d].n
               p == Position(At(t).id, f)
    <3>1. Write(t, 0, p, regs[a])
      BY <1>5, <2>1 DEF SetField
    <3>2. t \in 0 .. Len(heap) - 1 /\ regs[a] \in Held
      BY <1>1, <2>1, ValueIn DEF Held
    <3>3. Structs[At(t).id + 1][p + 1] = f
      BY <1>1, <2>1, FieldAt
    <3>4. M!Put(<<t + 1, 0, Structs[At(t).id + 1][p + 1]>>, Value(heap, regs[a]))
      BY <1>1, <2>1, <3>1, <3>2, WriteRefines
    <3>5. M!CellOf(d, f) = <<t + 1, 0, f>>
      BY <1>1, <2>1
    <3>6. M!Put(M!CellOf(d, f), vals[a])
      <4>1. vals[a] = Value(heap, regs[a])
        BY RegisterValues
      <4>. HIDE DEF t, p, vals
      <4>. QED BY <3>3, <3>4, <3>5, <4>1
    <3>. QED BY <1>1, <2>1, <3>6 DEF M!SetField
  <2>2. CASE ~Found(d)
    <3>1. Ended("fault")
      BY <1>5, <2>2 DEF SetField
    <3>. QED BY <1>2, <1>3, <2>2, <3>1 DEF M!SetField
  <2>. QED BY <2>1, <2>2
<1>. QED BY <1>4, <1>5

LEMMA BuiltinRefines ==
  ASSUME StoreInv, Builtin
  PROVE  M!Quit \/ UNCHANGED M!vars \/ \E d \in Regs : M!Plain(d) \/ M!NewBytes(d)
<1>1. CASE BuiltinFails
  BY <1>1, EndIs DEF BuiltinFails, Ended
<1>2. ASSUME NEW a \in Regs, Close(a) PROVE UNCHANGED M!vars
  BY <1>2, EndIs DEF Close
<1>3. ASSUME NEW d \in Regs, NEW a \in Regs, NEW b \in Regs, Open(d, a, b) PROVE M!Plain(d)
  <2> DEFINE s == File(FreeSlot, opens + 1)
  <2>1. heap' = heap /\ status' = status /\ regs' = [regs EXCEPT ![d] = s]
    BY <1>3 DEF Open
  <2>2. Value(heap, s) = M!File
    BY ValueIs DEF File, M!File
  <2>. HIDE DEF s
  <2>3. Values(heap', regs') = [Values(heap, regs) EXCEPT ![d] = Value(heap, s)]
    <3>1. \A r \in Regs : regs'[r] = IF r = d THEN s ELSE regs[r]
      BY <2>1 DEF StoreInv, Types
    <3>2. \A r \in Regs : Value(heap', regs'[r]) =
                            IF r = d THEN Value(heap, s) ELSE Value(heap, regs[r])
      BY <2>1, <3>1
    <3>. QED BY <3>2 DEF Values
  <2>4. M!Give(d, M!File)
    BY <2>1, <2>2, <2>3, GiveIs
  <2>. QED BY <2>4 DEF M!Plain
<1>4. ASSUME NEW d \in Regs, NEW a \in Regs, NEW b \in Regs, Read(d, a, b) PROVE M!NewBytes(d)
  BY <1>4, BytesRefine DEF Read
<1>5. ASSUME NEW d \in Regs, NEW a \in Regs, NEW b \in Regs, WriteFile(d, a, b)
      PROVE  M!Plain(d)
  BY <1>5, PlainRefines DEF WriteFile
<1>. QED BY <1>1, <1>2, <1>3, <1>4, <1>5 DEF Builtin

LEMMA InstructionRefines ==
  ASSUME Liberties = {}, StoreInv, NEW d \in Regs, Instruction(d)
  PROVE  M!Quit \/ \E r \in Regs : M!Instruction(r)
<1> DEFINE Done == M!Quit \/ \E r \in Regs : M!Instruction(r)
<1>1. /\ \A f : f \in AllFields <=> f \in M!AllFields
      /\ \A id \in Ids : id + 1 \in DOMAIN Structs
  <2>1. DOMAIN Structs = 1 .. Len(Structs) /\ Len(Structs) \in Nat
    BY StoreAssumption, LenProperties
  <2>. QED BY <2>1 DEF AllFields, M!AllFields, M!Fields, Ids
<1>2. CASE LoadInt(d) \/ LoadStr(d)
  <2>1. CASE LoadInt(d)
    <3>1. M!Plain(d)
      BY <2>1, PlainRefines DEF LoadInt
    <3>. QED BY <3>1 DEF M!Instruction
  <2>2. CASE LoadStr(d)
    <3>1. M!NewBytes(d)
      BY <2>2, BytesRefine DEF LoadStr
    <3>. QED BY <3>1 DEF M!Instruction
  <2>. QED BY <1>2, <2>1, <2>2
<1>3. ASSUME NEW id \in Ids, NEW fs \in SUBSET AllFields, NEW given \in [fs -> Regs],
             StructLit(d, id, given)
      PROVE  Done
  <2>1. M!NewStruct(d, id + 1, given)
    BY <1>3, StructLitRefines
  <2>2. id + 1 \in DOMAIN Structs /\ fs \in SUBSET M!AllFields
    BY <1>1
  <2>. QED BY <2>1, <2>2 DEF M!Instruction
<1>4. ASSUME NEW a \in Regs, Move(d, a) \/ AllocBytes(d, a) PROVE Done
  <2>1. CASE Move(d, a)
    <3>1. M!Plain(d)
      BY <2>1, PlainRefines DEF Move
    <3>. QED BY <3>1 DEF M!Instruction
  <2>2. CASE AllocBytes(d, a) /\ IsInt(regs[a])
    <3>1. M!NewBytes(d)
      BY <2>2, BytesRefine DEF AllocBytes
    <3>. QED BY <3>1 DEF M!Instruction
  <2>3. CASE AllocBytes(d, a) /\ ~IsInt(regs[a])
    BY <2>3, EndIs DEF AllocBytes, Ended
  <2>. QED BY <1>4, <2>1, <2>2, <2>3
<1>5. ASSUME NEW a \in Regs, LoadRef(d, a) \/ StoreRef(d, a) PROVE Done
  <2>1. M!Load(d, a) \/ M!Store(d, a)
    BY <1>5, LoadRefRefines, StoreRefRefines
  <2>. QED BY <2>1 DEF M!Instruction
<1>6. ASSUME NEW a \in Regs, NEW id \in Ids, AllocArrayStruct(d, a, id) PROVE Done
  <2>1. M!NewArray(d, id + 1, a) /\ id + 1 \in DOMAIN Structs
    BY <1>1, <1>6, AllocArrayStructRefines
  <2>. QED BY <2>1 DEF M!Instruction
<1>7. ASSUME NEW a \in Regs, NEW b \in Regs, GetIndexRef(d, a, b) PROVE Done
  <2>1. M!Index(d, a, b)
    BY <1>7, GetIndexRefRefines
  <2>. QED BY <2>1 DEF M!Instruction
<1>8. ASSUME NEW a \in Regs, NEW f \in AllFields,
             GetFieldRef(d, a, f) \/ GetField(d, a, f) \/ SetField(d, f, a)
      PROVE  Done
  <2>1. M!FieldRef(d, a, f) \/ M!GetField(d, a, f) \/ M!SetField(d, f, a)
    BY <1>8, GetFieldRefRefines, FieldsRefine
  <2>2. f \in M!AllFields
    BY <1>1
  <2>. QED BY <2>1, <2>2 DEF M!Instruction
<1>. QED BY <1>2, <1>3, <1>4, <1>5, <1>6, <1>7, <1>8 DEF Instruction

LEMMA StepRefines ==
  ASSUME Liberties = {}, StoreInv, [Next]_vars
  PROVE  [M!Next]_(M!vars)
<1>1. CASE UNCHANGED vars
  BY <1>1, EndIs DEF vars
<1>2. CASE Next
  <2>1. (IF status = "panic" THEN "fault" ELSE status) = "running"
    BY <1>2 DEF Next
  <2>2. CASE Builtin
    <3>1. M!Quit \/ UNCHANGED M!vars \/ \E d \in Regs : M!Plain(d) \/ M!NewBytes(d)
      BY <2>2, BuiltinRefines
    <3>. QED BY <2>1, <3>1 DEF M!Next, M!Instruction
  <2>3. ASSUME NEW d \in Regs, Instruction(d) PROVE M!Next
    <3>1. M!Quit \/ \E r \in Regs : M!Instruction(r)
      BY <2>3, InstructionRefines
    <3>. QED BY <2>1, <3>1 DEF M!Next
  <2>. QED BY <1>2, <2>2, <2>3 DEF Next
<1>. QED BY <1>1, <1>2

LEMMA InitRefines == Init => M!Init
<1>. SUFFICES ASSUME Init PROVE M!Init
  OBVIOUS
<1>1. heap = <<>> /\ DOMAIN heap = {} /\ status = "running" /\ \A r \in Regs : regs[r] = Void
  BY DEF Init
<1>2. Objects = <<>>
  BY <1>1 DEF Objects
<1>3. Cells = <<>>
  BY <1>1 DEF Cells
<1>4. [r \in Regs |-> ValueOf(regs[r])] = [r \in Regs |-> M!Void]
  <2>1. Value(heap, Void) = M!Void
    BY ValueIs DEF Void, M!Void
  <2>. QED BY <1>1, <2>1, RegisterValues
<1>. QED BY <1>1, <1>2, <1>3, <1>4 DEF M!Init

(* The machine with packed slots, one growing heap and layouts looked up   *)
(* by number is a memory of independent cells: every load and field access *)
(* delivers what was last stored there, and an instruction fails only when *)
(* it means nothing (exec_func, for programs without the liberties).       *)
THEOREM StoreIsMemory ==
  ASSUME Liberties = {}
  PROVE  Spec => ImplementsMemory
<1>1. "anyArray" \notin Liberties /\ "staleClose" \notin Liberties
  OBVIOUS
<1>2. Spec => []StoreInv
  BY <1>1, StoreInvariance
<1>3. ASSUME StoreInv, [Next]_vars PROVE [M!Next]_(M!vars)
  BY <1>3, StepRefines
<1>. QED BY <1>2, <1>3, InitRefines, PTL DEF Spec, ImplementsMemory, M!Spec
=============================================================================
