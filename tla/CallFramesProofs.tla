-------------------------- MODULE CallFramesProofs --------------------------
(* Proofs, for programs of any size, that the functions that keep their     *)
(* mark are the largest closed set of clean functions, and, for any program,*)
(* any sizes of the stacks and any depth limits, that CallInv is an         *)
(* inductive invariant of CallFrames.                                       *)
EXTENDS CallFrames, SequenceTheorems, TLAPS

USE NumFnsAssumption DEF Fns

\* The walks start with all the marks of finish().
LEMMA PurityInitInv == PurityInit => PurityInv
<1> SUFFICES ASSUME PurityInit PROVE PurityInv
  OBVIOUS
<1>1. PurityTypeOK
  <2>1. changed \in BOOLEAN /\ walking \in BOOLEAN
    BY DEF PurityInit
  <2>2. next \in 0 .. NumFns
    BY DEF PurityInit
  <2> QED BY <2>1, <2>2 DEF PurityInit, PurityTypeOK
<1>2. WalkInv
  BY DEF PurityInit, WalkInv
<1>3. PureIsLargest
  BY DEF PurityInit, PureIsLargest
<1> QED BY <1>1, <1>2, <1>3 DEF PurityInv

\* A visit takes a mark only from a function outside every closed set.
LEMMA VisitInv == PurityInv /\ Visit => PurityInv'
<1> SUFFICES ASSUME PurityInv, Visit PROVE PurityInv'
  OBVIOUS
<1> USE DEF PurityInv
<1>1. PurityTypeOK'
  <2>1. changed' \in BOOLEAN /\ walking' \in BOOLEAN
    BY DEF Visit, PurityTypeOK
  <2>2. next' \in 0 .. NumFns
    BY DEF Visit, PurityTypeOK
  <2>3. pure' \in SUBSET Fns
    BY DEF Visit, PurityTypeOK
  <2> QED BY <2>1, <2>2, <2>3 DEF Visit, PurityTypeOK
<1>2. WalkInv'
  <2>1. CASE next \in pure /\ ~(calls[next] \subseteq pure)
    BY <2>1 DEF Visit, WalkInv, PurityTypeOK
  <2>2. CASE ~(next \in pure /\ ~(calls[next] \subseteq pure))
    <3>1. pure' = pure /\ changed' = changed /\ walking /\ walking' = walking
      BY <2>2 DEF Visit
    <3>2. ~changed => \A f \in pure : f < next' => calls[f] \subseteq pure
      BY <2>2 DEF Visit, WalkInv, PurityTypeOK
    <3> QED BY <3>1, <3>2 DEF Visit, WalkInv
  <2> QED BY <2>1, <2>2
<1>3. PureIsLargest'
  <2> SUFFICES ASSUME NEW S \in SUBSET clean, Closed(S) PROVE S \subseteq pure'
    BY DEF PureIsLargest, Closed, Visit
  <2>1. S \subseteq pure
    BY DEF PureIsLargest
  <2>2. next \in S => calls[next] \subseteq pure
    BY <2>1 DEF Closed
  <2> QED BY <2>1, <2>2 DEF Visit
<1> QED BY <1>1, <1>2, <1>3

\* The invariant is inductive.
LEMMA PurityInvStep == PurityInv /\ [Propagate]_purityVars => PurityInv'
<1> SUFFICES ASSUME PurityInv, [Propagate]_purityVars PROVE PurityInv'
  OBVIOUS
<1>1. CASE Visit
  BY <1>1, VisitInv
<1>2. CASE AnotherWalk
  <2>1. PurityTypeOK'
    <3>1. changed' \in BOOLEAN
      BY <1>2 DEF AnotherWalk
    <3>2. next' \in 0 .. NumFns
      BY <1>2 DEF AnotherWalk
    <3> QED BY <3>1, <3>2, <1>2 DEF AnotherWalk, PurityInv, PurityTypeOK
  <2>2. WalkInv'
    BY <1>2 DEF AnotherWalk, PurityInv, PurityTypeOK, WalkInv
  <2>3. PureIsLargest'
    BY <1>2 DEF AnotherWalk, PurityInv, PureIsLargest, Closed
  <2> QED BY <2>1, <2>2, <2>3 DEF PurityInv
<1>3. CASE WalksEnd
  BY <1>3 DEF WalksEnd, PurityInv, PurityTypeOK, WalkInv, PureIsLargest, Closed
<1>4. CASE UNCHANGED purityVars
  BY <1>4 DEF purityVars, PurityInv, PurityTypeOK, WalkInv, PureIsLargest, Closed
<1> QED BY <1>1, <1>2, <1>3, <1>4 DEF Propagate

\* A walk that ends without a change has seen every function.
LEMMA InvCloses == PurityInv => PureIsClosed
BY DEF PurityInv, PurityTypeOK, WalkInv, PureIsClosed, Closed

\* When propagatePurity() has returned, marked functions call marked ones.
THEOREM MarksAreClosed == PuritySpec => []PureIsClosed
<1>1. PuritySpec => []PurityInv
  BY PurityInitInv, PurityInvStep, PTL DEF PuritySpec
<1> QED BY <1>1, InvCloses, PTL

\* No closed set of clean functions ever loses a mark.
THEOREM MarksAreLargest == PuritySpec => []PureIsLargest
<1>1. PuritySpec => []PurityInv
  BY PurityInitInv, PurityInvStep, PTL DEF PuritySpec
<1>2. PurityInv => PureIsLargest
  BY DEF PurityInv
<1> QED BY <1>1, <1>2, PTL

HIDE NumFnsAssumption DEF Fns

-----------------------------------------------------------------------------
\* Appending to a sequence leaves its elements where they are.
LEMMA AppendFacts ==
  ASSUME NEW S, NEW s \in Seq(S), NEW e \in S
  PROVE  /\ Append(s, e) \in Seq(S)
         /\ Append(s, e) # <<>>
         /\ Len(Append(s, e)) = Len(s) + 1
         /\ \A i \in 1 .. Len(s) : Append(s, e)[i] = s[i]
         /\ Append(s, e)[Len(s) + 1] = e
OBVIOUS

\* Dropping the last element leaves the others where they are.
LEMMA FrontFacts ==
  ASSUME NEW S, NEW s \in Seq(S), s # <<>>
  PROVE  /\ SubSeq(s, 1, Len(s) - 1) \in Seq(S)
         /\ Len(s) \in Nat \ {0}
         /\ Len(SubSeq(s, 1, Len(s) - 1)) = Len(s) - 1
         /\ \A i \in 1 .. Len(s) - 1 : SubSeq(s, 1, Len(s) - 1)[i] = s[i]
         /\ SubSeq(s, 1, Len(s) - 1) = <<>> <=> Len(s) = 1
<1> DEFINE n == Len(s) - 1
           u == SubSeq(s, 1, n)
<1>1. Len(s) \in Nat \ {0} /\ n \in Nat /\ \A i \in 1 .. n : s[i] \in S
  BY EmptySeq, LenProperties
<1>2. u \in Seq(S) /\ Len(u) = n
  <2>1. 1 \in Int /\ n \in Int
    BY <1>1
  <2>2. u \in Seq(S)
    BY <1>1, <2>1, SubSeqProperties
  <2>3. Len(u) = IF 1 <= n THEN n - 1 + 1 ELSE 0
    BY <1>1, <2>1, SubSeqProperties
  <2> HIDE DEF u, n
  <2>4. (IF 1 <= n THEN n - 1 + 1 ELSE 0) = n
    BY <1>1
  <2> QED BY <2>2, <2>3, <2>4
<1>3. \A i \in 1 .. n : u[i] = s[i]
  BY <1>1, SubSeqProperties
<1>4. u = <<>> <=> Len(u) = 0
  BY <1>2, EmptySeq
<1> QED BY <1>1, <1>2, <1>3, <1>4

\* TopAfter looks at the first k frames only.
LEMMA TopAfterAgrees ==
  ASSUME NEW s, NEW u, NEW k \in Nat, \A i \in 1 .. k : u[i] = s[i],
         NEW home, NEW t, TopAfter(s, k, home, t)
  PROVE  TopAfter(u, k, home, t)
<1>1. CASE t = 0 /\ \A i \in 1 .. k : s[i].home # home
  BY <1>1 DEF TopAfter
<1>2. ASSUME NEW i \in 1 .. k, s[i].home = home, t = EndOf(s[i]),
             \A m \in i + 1 .. k : s[m].home # home
      PROVE  TopAfter(u, k, home, t)
  <2>1. \A m \in i + 1 .. k : m \in 1 .. k
    OBVIOUS
  <2> QED BY <1>2, <2>1 DEF TopAfter
<1> QED BY <1>1, <1>2 DEF TopAfter

\* One more frame: its home goes on after it, the other homes do not move.
LEMMA TopAfterNext ==
  ASSUME NEW s, NEW k \in Nat, NEW home
  PROVE  /\ s[k + 1].home = home => TopAfter(s, k + 1, home, EndOf(s[k + 1]))
         /\ \A t : s[k + 1].home # home =>
              (TopAfter(s, k, home, t) <=> TopAfter(s, k + 1, home, t))
<1>1. s[k + 1].home = home => TopAfter(s, k + 1, home, EndOf(s[k + 1]))
  <2>1. k + 1 \in 1 .. k + 1 /\ \A m \in k + 2 .. k + 1 : FALSE
    OBVIOUS
  <2> QED BY <2>1 DEF TopAfter
<1>2. ASSUME NEW t, s[k + 1].home # home
      PROVE  TopAfter(s, k, home, t) <=> TopAfter(s, k + 1, home, t)
  BY <1>2 DEF TopAfter
<1> QED BY <1>1, <1>2

\* The end of the last frame of a home is where the home goes on.
LEMMA TopAfterLast ==
  ASSUME NEW s, NEW k \in Nat, NEW home, NEW t,
         s[k + 1].home = home, TopAfter(s, k + 1, home, t)
  PROVE  t = EndOf(s[k + 1])
BY DEF TopAfter

-----------------------------------------------------------------------------
\* The facts of CallInv about the frames alone.
FramesInv ==
  /\ frames \in Seq(Frame) /\ top \in 0 .. SlabSlots /\ itop \in 0 .. IntSlots
  /\ FramesApart
  /\ ChainInv
  /\ IntEngineRunsPureCode

USE SizesAssumption

\* The sizes of frames are numbers.
LEMMA EndOfFrame ==
  ASSUME NEW fr \in Frame
  PROVE  EndOf(fr) \in Nat /\ EndOf(fr) = fr.base + Regs[fr.fn] /\ EndOf(fr) >= fr.base
BY DEF Frame, EndOf

\* A frame that starts where its home goes on keeps the frames in order.
LEMMA PushFrame ==
  ASSUME FramesInv, NEW fr \in Frame, frames' = Append(frames, fr), pure' = pure,
         fr.home = "slab" => fr.base = top,
         fr.home = "int" => fr.base = itop /\ fr.fn \in pure,
         top' = IF fr.home = "slab" THEN EndOf(fr) ELSE top,
         itop' = IF fr.home = "int" THEN EndOf(fr) ELSE itop,
         top' <= SlabSlots, itop' <= IntSlots
  PROVE  FramesInv'
<1> DEFINE n == Len(frames)
<1> USE DEF FramesInv
<1>1. /\ n \in Nat /\ frames' \in Seq(Frame) /\ Len(frames') = n + 1
      /\ \A i \in 1 .. n : frames'[i] = frames[i] /\ frames[i] \in Frame
      /\ frames'[n + 1] = fr
  BY AppendFacts
<1>2. /\ top \in Nat /\ itop \in Nat /\ top' \in Nat /\ itop' \in Nat
      /\ top <= top' /\ itop <= itop'
      /\ EndOf(fr) \in Nat /\ fr.base <= EndOf(fr) /\ fr.base \in Nat
  BY EndOfFrame DEF Frame
<1>3. top' \in 0 .. SlabSlots /\ itop' \in 0 .. IntSlots
  BY <1>2
<1>4. FramesApart'
  <2> SUFFICES ASSUME NEW k \in 1 .. n + 1, frames'[k].home # "heap"
               PROVE  /\ EndOf(frames'[k]) <= IF frames'[k].home = "slab" THEN top' ELSE itop'
                      /\ \A j \in 1 .. k - 1 : frames'[j].home = frames'[k].home
                           => EndOf(frames'[j]) <= frames'[k].base
    BY <1>1 DEF FramesApart, EndOf
  <2>1. CASE k \in 1 .. n
    <3>1. frames'[k] = frames[k] /\ \A j \in 1 .. k - 1 : frames'[j] = frames[j]
      BY <1>1, <2>1
    <3>2. EndOf(frames[k]) \in Nat
      BY <1>1, <2>1, EndOfFrame
    <3> QED BY <1>2, <2>1, <3>1, <3>2 DEF FramesApart
  <2>2. CASE k = n + 1
    <3>1. frames'[k] = fr /\ \A j \in 1 .. k - 1 : j \in 1 .. n /\ frames'[j] = frames[j]
      BY <1>1, <2>2
    <3>2. fr.home \in {"slab", "int"}
      BY <3>1 DEF Frame
    <3>3. CASE fr.home = "slab"
      <4>1. \A j \in 1 .. n : frames[j].home = "slab" => EndOf(frames[j]) <= top
        BY DEF FramesApart
      <4>2. fr.base = top /\ EndOf(fr) = top'
        BY <3>3
      <4>3. EndOf(fr) <= top'
        BY <1>2, <4>2
      <4>4. ASSUME NEW j \in 1 .. k - 1, frames'[j].home = "slab" PROVE EndOf(frames'[j]) <= fr.base
        BY <3>1, <4>1, <4>2, <4>4
      <4> QED BY <3>1, <3>3, <4>3, <4>4
    <3>4. CASE fr.home = "int"
      <4>1. \A j \in 1 .. n : frames[j].home = "int" => EndOf(frames[j]) <= itop
        BY DEF FramesApart
      <4>2. fr.base = itop /\ EndOf(fr) = itop'
        BY <3>4
      <4>3. EndOf(fr) <= itop'
        BY <1>2, <4>2
      <4>4. ASSUME NEW j \in 1 .. k - 1, frames'[j].home = "int" PROVE EndOf(frames'[j]) <= fr.base
        BY <3>1, <4>1, <4>2, <4>4
      <4> QED BY <3>1, <3>4, <4>3, <4>4
    <3> QED BY <3>2, <3>3, <3>4
  <2>3. k \in 1 .. n \/ k = n + 1
    BY <1>1
  <2> QED BY <2>1, <2>2, <2>3
<1>5. ChainInv'
  <2>1. ASSUME NEW home, NEW t, TopAfter(frames, n, home, t)
        PROVE  TopAfter(frames', n, home, t)
    BY <1>1, <2>1, TopAfterAgrees
  <2>2. TopAfter(frames', n + 1, "slab", top')
    <3>1. CASE fr.home = "slab"
      BY <1>1, <3>1, TopAfterNext
    <3>2. CASE fr.home # "slab"
      BY <1>1, <2>1, <3>2, TopAfterNext DEF ChainInv
    <3> QED BY <3>1, <3>2
  <2>3. TopAfter(frames', n + 1, "int", itop')
    <3>1. CASE fr.home = "int"
      BY <1>1, <3>1, TopAfterNext
    <3>2. CASE fr.home # "int"
      BY <1>1, <2>1, <3>2, TopAfterNext DEF ChainInv
    <3> QED BY <3>1, <3>2
  <2>4. ASSUME NEW k \in 1 .. n + 1, frames'[k].home # "heap"
        PROVE  TopAfter(frames', k - 1, frames'[k].home, frames'[k].base)
    <3>1. CASE k \in 1 .. n
      <4>1. frames'[k] = frames[k] /\ k - 1 \in Nat
            /\ \A i \in 1 .. k - 1 : frames'[i] = frames[i]
        BY <1>1, <3>1
      <4>2. TopAfter(frames, k - 1, frames[k].home, frames[k].base)
        BY <2>4, <3>1, <4>1 DEF ChainInv
      <4> QED BY <4>1, <4>2, TopAfterAgrees
    <3>2. CASE k = n + 1
      <4>1. fr.home \in {"slab", "int"}
        BY <1>1, <2>4, <3>2 DEF Frame
      <4> QED BY <1>1, <2>1, <3>2, <4>1 DEF ChainInv
    <3> QED BY <1>1, <3>1, <3>2
  <2> QED BY <1>1, <2>2, <2>3, <2>4 DEF ChainInv
<1>6. IntEngineRunsPureCode'
  BY <1>1 DEF IntEngineRunsPureCode
<1> QED BY <1>1, <1>3, <1>4, <1>5, <1>6

\* Popping the last frame gives its home back exactly the room it took.
LEMMA PopFrame ==
  ASSUME FramesInv, frames # <<>>, pure' = pure,
         frames' = SubSeq(frames, 1, Len(frames) - 1),
         top' = IF Running.home = "slab" THEN top - Regs[Running.fn] ELSE top,
         itop' = IF Running.home = "int" THEN itop - Regs[Running.fn] ELSE itop
  PROVE  FramesInv'
<1> DEFINE n == Len(frames) - 1
           fr == frames[n + 1]
<1> USE DEF FramesInv
<1>1. /\ n \in Nat /\ frames' \in Seq(Frame) /\ Len(frames') = n /\ Len(frames) = n + 1
      /\ \A i \in 1 .. n : frames'[i] = frames[i]
      /\ \A i \in 1 .. n + 1 : frames[i] \in Frame
      /\ Running = fr /\ fr \in Frame
  BY FrontFacts DEF Running
<1>2. \A i \in 1 .. n + 1 : EndOf(frames[i]) \in Nat /\ frames[i].base \in Nat
  BY <1>1, EndOfFrame DEF Frame
<1>3. fr.base \in Nat /\ fr.home \in {"slab", "heap", "int"}
      /\ EndOf(fr) = fr.base + Regs[fr.fn] /\ Regs[fr.fn] \in Nat
  BY <1>1, EndOfFrame DEF Frame
<1>4. fr.home = "slab" => top' = fr.base
  <2>1. TopAfter(frames, n + 1, "slab", top)
    BY <1>1 DEF ChainInv
  <2>2. fr.home = "slab" => top = EndOf(fr)
    BY <1>1, <2>1, TopAfterLast
  <2> QED BY <1>1, <1>3, <2>2
<1>5. fr.home = "int" => itop' = fr.base
  <2>1. TopAfter(frames, n + 1, "int", itop)
    BY <1>1 DEF ChainInv
  <2>2. fr.home = "int" => itop = EndOf(fr)
    BY <1>1, <2>1, TopAfterLast
  <2> QED BY <1>1, <1>3, <2>2
<1>6. top' \in 0 .. SlabSlots /\ itop' \in 0 .. IntSlots
  BY <1>1, <1>3, <1>4, <1>5
<1>7. FramesApart'
  <2> SUFFICES ASSUME NEW k \in 1 .. n, frames[k].home # "heap"
               PROVE  /\ EndOf(frames[k]) <= IF frames[k].home = "slab" THEN top' ELSE itop'
                      /\ \A j \in 1 .. k - 1 : frames[j].home = frames[k].home
                           => EndOf(frames[j]) <= frames[k].base
    BY <1>1 DEF FramesApart, EndOf
  <2>1. k \in 1 .. n + 1 /\ n + 1 \in 1 .. n + 1 /\ k \in 1 .. (n + 1) - 1
    BY <1>1
  <2>2. frames[k].home \in {"slab", "int"}
    BY <1>1, <2>1 DEF Frame
  <2>3. frames[k].home = fr.home => EndOf(frames[k]) <= fr.base
    BY <1>1, <2>1 DEF FramesApart
  <2> QED BY <1>1, <1>4, <1>5, <2>1, <2>2, <2>3 DEF FramesApart
<1>8. ChainInv'
  <2>1. ASSUME NEW k \in 0 .. n, NEW home, NEW t, TopAfter(frames, k, home, t)
        PROVE  TopAfter(frames', k, home, t)
    <3>1. k \in Nat /\ \A i \in 1 .. k : frames'[i] = frames[i]
      BY <1>1
    <3> QED BY <2>1, <3>1, TopAfterAgrees
  <2>2. TopAfter(frames, n, "slab", top')
    <3>1. CASE fr.home = "slab"
      BY <1>1, <1>4, <3>1 DEF ChainInv
    <3>2. CASE fr.home # "slab"
      BY <1>1, <3>2, TopAfterNext DEF ChainInv
    <3> QED BY <3>1, <3>2
  <2>3. TopAfter(frames, n, "int", itop')
    <3>1. CASE fr.home = "int"
      BY <1>1, <1>5, <3>1 DEF ChainInv
    <3>2. CASE fr.home # "int"
      BY <1>1, <3>2, TopAfterNext DEF ChainInv
    <3> QED BY <3>1, <3>2
  <2>4. ASSUME NEW k \in 1 .. n, frames'[k].home # "heap"
        PROVE  TopAfter(frames', k - 1, frames'[k].home, frames'[k].base)
    <3>1. k \in 1 .. Len(frames) /\ k - 1 \in 0 .. n /\ frames'[k] = frames[k]
      BY <1>1
    <3>2. TopAfter(frames, k - 1, frames[k].home, frames[k].base)
      BY <2>4, <3>1 DEF ChainInv
    <3> QED BY <2>1, <3>1, <3>2
  <2>5. n \in 0 .. n
    BY <1>1
  <2> QED BY <1>1, <2>1, <2>2, <2>3, <2>4, <2>5 DEF ChainInv
<1>9. IntEngineRunsPureCode'
  BY <1>1 DEF IntEngineRunsPureCode
<1> QED BY <1>1, <1>6, <1>7, <1>8, <1>9

-----------------------------------------------------------------------------
\* Entering a function, from wherever, adds one frame for it.
LEMMA EnterFrame ==
  ASSUME FramesInv, NEW f \in Fns, NEW fromInt \in BOOLEAN,
         fromInt => f \in pure, Enter(f, fromInt), pure' = pure
  PROVE  FramesInv' /\ frames' # <<>> /\ Len(frames') = Len(frames) + 1
<1> DEFINE Fr(home, base) == [fn |-> f, home |-> home, base |-> base]
<1>1. Regs[f] \in Nat /\ top \in Nat /\ itop \in Nat
  BY DEF FramesInv
<1>2. CASE EnterInt(f) /\ f \in pure
  <2> DEFINE fr == Fr("int", itop)
  <2>1. fr \in Frame /\ EndOf(fr) = itop + Regs[f] /\ fr.home = "int"
        /\ fr.base = itop /\ fr.fn = f
    BY <1>1 DEF Frame, EndOf
  <2>2. frames' = Append(frames, fr) /\ itop' = EndOf(fr) /\ top' = top
        /\ itop' <= IntSlots /\ top' <= SlabSlots
    BY <1>1, <1>2, <2>1 DEF EnterInt, IntFits, FramesInv
  <2> HIDE DEF fr
  <2>3. FramesInv'
    BY <1>2, <2>1, <2>2, PushFrame
  <2> QED BY <2>1, <2>2, <2>3, AppendFacts DEF FramesInv
<1>3. CASE EnterValue(f)
  <2>1. CASE SlabFits(f)
    <3> DEFINE fr == Fr("slab", top)
    <3>1. fr \in Frame /\ EndOf(fr) = top + Regs[f] /\ fr.home = "slab"
          /\ fr.base = top /\ fr.fn = f
      BY <1>1 DEF Frame, EndOf
    <3>2. frames' = Append(frames, fr) /\ top' = EndOf(fr) /\ itop' = itop
          /\ itop' <= IntSlots /\ top' <= SlabSlots
      BY <1>1, <1>3, <2>1, <3>1 DEF EnterValue, SlabFits, FramesInv
    <3> HIDE DEF fr
    <3>3. FramesInv'
      BY <3>1, <3>2, PushFrame
    <3> QED BY <3>1, <3>2, <3>3, AppendFacts DEF FramesInv
  <2>2. CASE ~SlabFits(f)
    <3> DEFINE fr == Fr("heap", 0)
    <3>1. fr \in Frame /\ fr.home = "heap"
      BY DEF Frame
    <3>2. frames' = Append(frames, fr) /\ top' = top /\ itop' = itop
          /\ itop' <= IntSlots /\ top' <= SlabSlots
      BY <1>3, <2>2 DEF EnterValue, FramesInv
    <3> HIDE DEF fr
    <3>3. FramesInv'
      BY <3>1, <3>2, PushFrame
    <3> QED BY <3>1, <3>2, <3>3, AppendFacts DEF FramesInv
  <2> QED BY <2>1, <2>2
<1> QED BY <1>2, <1>3 DEF Enter

\* The invariant holds before Vm.init.
LEMMA CallInitInv == Init => CallInv
<1> SUFFICES ASSUME Init PROVE CallInv
  OBVIOUS
<1>1. PurityInv
  BY PurityInitInv DEF Init
<1>2. frames = <<>> /\ frames \in Seq(Frame) /\ Len(frames) = 0
  BY EmptySeq DEF Init
<1>3. TypeOK
  BY <1>1, <1>2 DEF Init, TypeOK, PurityInv
<1>4. DepthCountsFrames
  BY <1>2, <1>3 DEF Init, DepthCountsFrames, TypeOK
<1>5. FramesApart /\ IntEngineRunsPureCode
  BY <1>2 DEF FramesApart, IntEngineRunsPureCode
<1>6. ChainInv
  BY <1>2 DEF Init, ChainInv, TopAfter
<1> QED BY <1>1, <1>2, <1>3, <1>4, <1>5, <1>6 DEF CallInv, Init

\* Vm.init runs while there are no frames.
LEMMA VmInitStep == CallInv /\ VmInit => CallInv'
<1> SUFFICES ASSUME CallInv, VmInit PROVE CallInv'
  OBVIOUS
<1>1. PurityInv'
  BY PurityInvStep DEF CallInv, VmInit
<1>2. walking /\ status = "idle" /\ frames = <<>>
  BY DEF CallInv, TypeOK, VmInit, Propagate, Visit, AnotherWalk, WalksEnd
<1>3. TypeOK'
  BY <1>1 DEF CallInv, TypeOK, VmInit, PurityInv
<1>4. DepthCountsFrames' /\ FramesApart' /\ ChainInv'
  BY DEF CallInv, VmInit, DepthCountsFrames, FramesApart, ChainInv, TopAfter, EndOf
<1>5. IntEngineRunsPureCode'
  BY <1>2, EmptySeq DEF VmInit, IntEngineRunsPureCode
<1> QED BY <1>1, <1>2, <1>3, <1>4, <1>5 DEF CallInv, VmInit

\* What a Call, a return or an error does to the frames.
LEMMA CallSteps ==
  ASSUME CallInv, CallRoot \/ Call \/ CallFails \/ Raise \/ Return \/ Unwind
  PROVE  CallInv'
<1>1. FramesInv /\ TypeOK /\ PurityInv /\ ~walking /\ DepthCountsFrames
      /\ depth \in Nat /\ limit \in Nat
  BY SizesAssumption DEF CallInv, FramesInv, TypeOK, CallRoot, Call, CallFails, Raise, Return, Unwind
<1>2. UNCHANGED <<calls, clean, pure, next, changed, walking, limit>>
  BY DEF CallRoot, Call, CallFails, Raise, Return, Unwind, Leave
<1>3. PurityInv' /\ PurityTypeOK'
  BY <1>1, <1>2 DEF PurityInv, PurityTypeOK, WalkInv, PureIsLargest, Closed
<1> DEFINE Goal ==
      /\ FramesInv' /\ DepthCountsFrames' /\ depth' \in Nat
      /\ status' \in {"idle", "running", "raising", "returned", "failed"}
      /\ frames' # <<>> <=> status' \in {"running", "raising"}
<1>4. SUFFICES Goal
  BY <1>1, <1>2, <1>3 DEF CallInv, FramesInv, TypeOK
<1>5. frames # <<>> => Running \in Frame /\ Len(frames) \in Nat \ {0}
  BY <1>1, EmptySeq DEF Running, FramesInv
<1>6. CASE UNCHANGED <<frames, top, itop, depth>>
           /\ status' \in {"raising", "failed"}
           /\ (status' = "raising" => status = "running")
           /\ (status' = "failed" => status = "idle")
  <2>1. FramesInv'
    BY <1>1, <1>2, <1>6 DEF FramesInv, FramesApart, ChainInv, TopAfter, EndOf, IntEngineRunsPureCode
  <2> QED BY <1>1, <1>2, <1>6, <2>1 DEF CallInv, DepthCountsFrames
<1>7. CASE CallRoot
  <2>1. status = "idle" /\ frames = <<>> /\ depth = 0 /\ depth' = depth
    BY <1>7 DEF CallRoot, CallInv, DepthCountsFrames
  <2>2. CASE UNCHANGED <<frames, top, itop>> /\ status' = "failed"
    BY <1>6, <2>1, <2>2
  <2>3. ASSUME NEW f \in Fns, Enter(f, FALSE), status' = "running"
        PROVE  Goal
    <3>1. FramesInv' /\ frames' # <<>> /\ Len(frames') = Len(frames) + 1
      BY <1>1, <1>2, <2>3, EnterFrame
    <3> QED BY <1>1, <1>2, <2>1, <2>3, <3>1, EmptySeq DEF DepthCountsFrames
  <2> QED BY <1>7, <2>2, <2>3 DEF CallRoot
<1>8. CASE Call
  <2>1. status = "running" /\ frames # <<>> /\ depth < limit /\ depth' = depth + 1
        /\ status' = status /\ depth = Len(frames) - 1
    BY <1>8 DEF Call, CallInv, DepthCountsFrames
  <2>2. PICK f \in calls[Running.fn] : Enter(f, Running.home = "int")
    BY <1>8 DEF Call
  <2>3. f \in Fns /\ (Running.home = "int" => f \in pure)
    <3>1. Running.fn \in Fns /\ calls \in [Fns -> SUBSET Fns]
      BY <1>1, <1>5, <2>1 DEF Frame, PurityInv, PurityTypeOK
    <3>2. Running.home = "int" => Running.fn \in pure
      BY <1>1, <1>5, <2>1 DEF FramesInv, IntEngineRunsPureCode, Running
    <3>3. Closed(pure)
      BY <1>1, InvCloses DEF PureIsClosed
    <3> QED BY <2>2, <3>1, <3>2, <3>3 DEF Closed
  <2>4. FramesInv' /\ frames' # <<>> /\ Len(frames') = Len(frames) + 1
    BY <1>1, <1>2, <2>2, <2>3, EnterFrame
  <2> QED BY <1>1, <1>2, <1>5, <2>1, <2>4 DEF DepthCountsFrames
<1>9. CASE CallFails \/ Raise
  BY <1>6, <1>9 DEF CallFails, Raise
<1>10. ASSUME NEW end \in {"returned", "failed"}, Leave(end),
              status \in {"running", "raising"}
       PROVE  Goal
  <2>1. frames # <<>> /\ depth = Len(frames) - 1
    BY <1>10 DEF CallInv, DepthCountsFrames
  <2>2. FramesInv'
    BY <1>1, <1>2, <1>10, <2>1, PopFrame DEF Leave
  <2>3. Len(frames) \in Nat \ {0} /\ Len(frames') = Len(frames) - 1
        /\ (frames' = <<>> <=> Len(frames) = 1)
    BY <1>1, <1>10, <2>1, FrontFacts DEF Leave, FramesInv
  <2>4. CASE Len(frames) = 1
    BY <1>1, <1>2, <1>10, <2>1, <2>2, <2>3, <2>4 DEF Leave, DepthCountsFrames
  <2>5. CASE Len(frames) # 1
    BY <1>1, <1>2, <1>10, <2>1, <2>2, <2>3, <2>5 DEF Leave, DepthCountsFrames
  <2> QED BY <2>4, <2>5
<1> QED BY <1>7, <1>8, <1>9, <1>10 DEF Return, Unwind

\* CallInv is inductive.
LEMMA CallInvStep == CallInv /\ [Next]_vars => CallInv'
<1> SUFFICES ASSUME CallInv, [Next]_vars PROVE CallInv'
  OBVIOUS
<1>1. CASE VmInit
  BY <1>1, VmInitStep
<1>2. CASE CallRoot \/ Call \/ CallFails \/ Raise \/ Return \/ Unwind
  BY <1>2, CallSteps
<1>3. CASE UNCHANGED vars
  BY <1>3 DEF vars, CallInv, TypeOK, PurityTypeOK, PurityInv, WalkInv, PureIsLargest, Closed,
              DepthCountsFrames, FramesApart, ChainInv, TopAfter, EndOf, IntEngineRunsPureCode
<1> QED BY <1>1, <1>2, <1>3 DEF Next, Terminated

\* The invariant of the call machinery, for every program and every size.
THEOREM CallInvariance == Spec => []CallInv
BY CallInitInv, CallInvStep, PTL DEF Spec

\* call_depth is right on every way out of a call, and within its limit.
THEOREM DepthIsRight == Spec => []DepthCountsFrames
<1>1. CallInv => DepthCountsFrames
  BY DEF CallInv
<1> QED BY <1>1, CallInvariance, PTL

\* The registers of unfinished calls never overlap.
THEOREM FramesNeverOverlap == Spec => []FramesApart
<1>1. CallInv => FramesApart
  BY DEF CallInv
<1> QED BY <1>1, CallInvariance, PTL

\* The stacks are empty when the root call has ended.
THEOREM StacksEndEmpty == Spec => []StacksRestored
<1>1. CallInv => StacksRestored
  <2> SUFFICES ASSUME CallInv, status \in {"returned", "failed"}
               PROVE  frames = <<>> /\ top = 0 /\ itop = 0
    BY DEF StacksRestored
  <2>1. frames = <<>> /\ Len(frames) = 0
    BY EmptySeq DEF CallInv
  <2> QED BY <2>1 DEF CallInv, ChainInv, TopAfter
<1> QED BY <1>1, CallInvariance, PTL

\* The integer engine runs nothing but marked functions.
THEOREM IntEngineStaysPure == Spec => []IntEngineRunsPureCode
<1>1. CallInv => IntEngineRunsPureCode
  BY DEF CallInv
<1> QED BY <1>1, CallInvariance, PTL
=============================================================================
