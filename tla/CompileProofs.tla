---------------------------- MODULE CompileProofs ---------------------------
(***************************************************************************)
(* Proof that compileExpr uses its scratch registers rightly, for          *)
(* expressions of any size and depth, any number of registers and          *)
(* statements, and whatever the instructions compute.                      *)
(***************************************************************************)
EXTENDS Compile, SequenceTheorems, WellFoundedInduction, TLAPS

-----------------------------------------------------------------------------
(* Types, and what the stack of calls looks like.  A frame works on a part *)
(* of the statement for the operand that its caller wants next, in the     *)
(* place the caller gives to that operand.                                 *)
Source1 == [reg : BOOLEAN, v : Nat]
Frame == [node : Nat, dst : Nat, ops : Seq(Source1), start : Nat]

TypeInv ==
  /\ DOMAIN env \subseteq Nat
  /\ named \in Nat /\ maxReg \in Nat /\ scratch \in Nat
  /\ expr \in Table
  /\ stack \in Seq(Frame)
  /\ argRegs \in Seq(Nat)

FrameOK(f) ==
  /\ f.node \in 1 .. Len(expr)
  /\ Len(f.ops) <= Len(Its(f).args)

StackInv ==
  /\ stack # <<>> => got = <<>>
  /\ \A k \in 1 .. Len(stack) : FrameOK(stack[k])
  /\ stack # <<>> =>
       /\ stack[1].node = Len(expr) /\ stack[1].dst = scratch
       /\ Its(stack[1]).k \in Statements
       /\ Its(stack[1]).k = "assign" => Its(stack[1]).v = scratch
  /\ \A k \in 2 .. Len(stack) :
       /\ ~Done(stack[k - 1])
       /\ stack[k].node = Its(stack[k - 1]).args[Len(stack[k - 1].ops) + 1]
       /\ stack[k].dst = Place(stack[k - 1], Len(stack[k - 1].ops) + 1)
  /\ \A j, k \in 1 .. Len(stack) : j <= k => stack[j].dst <= stack[k].dst

-----------------------------------------------------------------------------
LEMMA TableIs ==
  ASSUME NEW e \in Table, NEW i \in 1 .. Len(e)
  PROVE  /\ e[i] \in Part /\ i \in DOMAIN e /\ DOMAIN e = 1 .. Len(e)
         /\ e[i].v \in Nat /\ e[i].args \in Seq(Nat)
         /\ Len(e[i].args) \in Nat
         /\ \A j \in 1 .. Len(e[i].args) : e[i].args[j] \in 1 .. i - 1
         /\ e[i].k \in Leaves => Len(e[i].args) = 0
         /\ e[i].k \in Unary => Len(e[i].args) = 1
         /\ e[i].k \in Binary => Len(e[i].args) = 2
<1>1. e \in Seq(Part) /\ DOMAIN e = 1 .. Len(e)
  BY LenProperties DEF Table
<1>2. e[i] \in Part
  BY <1>1, ElementOfSeq
<1>3. e[i].v \in Nat /\ e[i].args \in Seq(Nat)
  BY <1>2 DEF Part
<1>4. DOMAIN e[i].args = 1 .. Len(e[i].args) /\ Len(e[i].args) \in Nat
  BY <1>3, LenProperties
<1> QED BY <1>1, <1>2, <1>3, <1>4 DEF Table

LEMMA FrameIs ==
  ASSUME TypeInv, StackInv, NEW k \in 1 .. Len(stack)
  PROVE  /\ stack[k] \in Frame
         /\ stack[k].node \in 1 .. Len(expr) /\ stack[k].node \in Nat
         /\ stack[k].dst \in Nat /\ stack[k].dst >= scratch
         /\ stack[k].ops \in Seq(Source1) /\ Len(stack[k].ops) \in Nat
         /\ stack[k].start \in Nat
         /\ Its(stack[k]).args \in Seq(Nat)
         /\ Len(Its(stack[k]).args) \in Nat
         /\ Len(stack[k].ops) <= Len(Its(stack[k]).args)
         /\ Its(stack[k]).v \in Nat
         /\ \A j \in 1 .. Len(Its(stack[k]).args) : Its(stack[k]).args[j] \in 1 .. stack[k].node - 1
<1>1. stack \in Seq(Frame)
  BY DEF TypeInv
<1>2. stack[k] \in Frame
  BY <1>1, ElementOfSeq
<1>3. FrameOK(stack[k])
  BY DEF StackInv
<1>4. Len(stack) \in Nat /\ 1 \in 1 .. Len(stack) /\ stack # <<>>
  BY <1>1, LenProperties, EmptySeq
<1>5. stack[1].dst = scratch /\ stack[1].dst <= stack[k].dst
  BY <1>4 DEF StackInv
<1>6. stack[k].ops \in Seq(Source1)
  BY <1>2 DEF Frame
<1>7. Len(stack[k].ops) \in Nat
  BY <1>6, LenProperties
<1>8. stack[k].node \in 1 .. Len(expr) /\ expr \in Table
  BY <1>3 DEF FrameOK, TypeInv
<1>9. /\ expr[stack[k].node].args \in Seq(Nat) /\ expr[stack[k].node].v \in Nat
      /\ Len(expr[stack[k].node].args) \in Nat
      /\ \A j \in 1 .. Len(expr[stack[k].node].args) :
           expr[stack[k].node].args[j] \in 1 .. stack[k].node - 1
  BY <1>8, TableIs
<1> QED BY <1>2, <1>3, <1>5, <1>6, <1>7, <1>8, <1>9 DEF Frame, FrameOK, Its

(* What an operand is given depends on the operands before it.             *)
LEMMA PlaceIs ==
  ASSUME NEW f, f.dst \in Nat, NEW j \in Nat \ {0}
  PROVE  Place(f, j) \in Nat /\ Place(f, j) >= f.dst
BY DEF Place, SecondScratch

LEMMA GivenIs ==
  ASSUME NEW f \in Frame, NEW s \in Source1
  PROVE  /\ Given(f, s) \in Frame
         /\ Given(f, s).node = f.node /\ Given(f, s).dst = f.dst /\ Given(f, s).start = f.start
         /\ Len(Given(f, s).ops) = Len(f.ops) + 1
         /\ \A j \in 1 .. Len(f.ops) : Given(f, s).ops[j] = f.ops[j]
         /\ Given(f, s).ops[Len(f.ops) + 1] = s
<1>1. f.ops \in Seq(Source1)
  BY DEF Frame
<1> QED BY <1>1 DEF Given, Frame

LEMMA PlaceGiven ==
  ASSUME NEW f \in Frame, NEW s \in Source1, NEW j \in 1 .. Len(f.ops) + 1
  PROVE  Place(Given(f, s), j) = Place(f, j) /\ Its(Given(f, s)) = Its(f)
<1>1. f.ops \in Seq(Source1) /\ Len(f.ops) \in Nat
  BY LenProperties DEF Frame
<1>2. Its(Given(f, s)) = Its(f) /\ Given(f, s).dst = f.dst
  BY GivenIs DEF Its
<1>3. j = 2 => Given(f, s).ops[1] = f.ops[1]
  BY <1>1, GivenIs
<1> QED BY <1>2, <1>3 DEF Place

-----------------------------------------------------------------------------
(* Frame p has its next operand and is the innermost: a register or an     *)
(* integer is taken, or the frame above it has returned.                   *)
Receives(p, src) ==
  /\ p \in 1 .. Len(stack) /\ ~Done(stack[p]) /\ src \in Source1
  /\ stack' \in Seq(Frame) /\ Len(stack') = p
  /\ \A k \in 1 .. p - 1 : stack'[k] = stack[k]
  /\ stack'[p] = Given(stack[p], src)
  /\ argRegs' = Noted(stack[p], src.v)
  /\ UNCHANGED <<expr, scratch, before, got, named, stmts>>

LEMMA NextIs ==
  ASSUME TypeInv, StackInv, NEW k \in 1 .. Len(stack), ~Done(stack[k])
  PROVE  LET j == Len(stack[k].ops) + 1
         IN  /\ j \in 1 .. Len(Its(stack[k]).args)
             /\ Its(stack[k]).args[j] \in 1 .. Len(expr)
             /\ NextPart(stack[k]) \in Part /\ NextPart(stack[k]).v \in Nat
<1>1. /\ Len(stack[k].ops) \in Nat /\ Len(Its(stack[k]).args) \in Nat
      /\ Len(stack[k].ops) <= Len(Its(stack[k]).args)
      /\ stack[k].node \in 1 .. Len(expr)
      /\ \A j \in 1 .. Len(Its(stack[k]).args) : Its(stack[k]).args[j] \in 1 .. stack[k].node - 1
  BY FrameIs
<1>2. Len(stack[k].ops) + 1 \in 1 .. Len(Its(stack[k]).args)
  BY <1>1 DEF Done
<1>3. Len(expr) \in Nat /\ expr \in Table
  BY LenProperties DEF TypeInv, Table
<1>4. Its(stack[k]).args[Len(stack[k].ops) + 1] \in 1 .. Len(expr)
  <2>1. \A i \in 1 .. stack[k].node - 1 : i \in 1 .. Len(expr)
    BY <1>1, <1>3
  <2>2. Its(stack[k]).args[Len(stack[k].ops) + 1] \in 1 .. stack[k].node - 1
    BY <1>1, <1>2
  <2> QED BY <2>1, <2>2
<1> QED BY <1>2, <1>3, <1>4, TableIs DEF NextPart

LEMMA TakeReceives ==
  ASSUME TypeInv, StackInv, Take
  PROVE  LET q == NextPart(Top)
             src == IF q.k = "reg" THEN FromReg(q.v) ELSE FromPool(q.v)
         IN  /\ Receives(Len(stack), src) /\ UNCHANGED <<env, maxReg>>
             /\ q.k = "reg" \/ (q.k = "int" /\ Its(Top).k = "bin")
<1> DEFINE m == Len(stack)
           q == NextPart(Top)
           src == IF q.k = "reg" THEN FromReg(q.v) ELSE FromPool(q.v)
<1>1. stack \in Seq(Frame) /\ stack # <<>> /\ ~Done(Top) /\ Immediate(Top)
  BY DEF Take, TypeInv
<1>2. m \in 1 .. Len(stack) /\ m \in Nat /\ Top = stack[m]
  BY <1>1, LenProperties, EmptySeq DEF Top
<1>3. q.v \in Nat
  BY <1>1, <1>2, NextIs
<1>4. src \in Source1 /\ src.v = q.v
  BY <1>3 DEF FromReg, FromPool, Source1
<1>5. stack' = [stack EXCEPT ![m] = Given(stack[m], src)]
      /\ argRegs' = Noted(Top, q.v) /\ UNCHANGED <<env, named, maxReg, stmts, expr, scratch, before, got>>
  BY <1>2 DEF Take
<1>6. Given(stack[m], src) \in Frame
  BY <1>1, <1>2, <1>4, FrameIs, GivenIs
<1> HIDE DEF src, q
<1>7. stack' \in Seq(Frame) /\ Len(stack') = m /\ stack'[m] = Given(stack[m], src)
      /\ \A k \in 1 .. m - 1 : stack'[k] = stack[k]
  BY <1>1, <1>2, <1>5, <1>6
<1>8. Receives(m, src)
  BY <1>1, <1>2, <1>4, <1>5, <1>7 DEF Receives
<1>9. q.k = "reg" \/ (q.k = "int" /\ Its(Top).k = "bin")
  BY <1>1 DEF Immediate, q
<1> QED BY <1>5, <1>8, <1>9 DEF src, q

LEMMA EmitReceives ==
  ASSUME TypeInv, StackInv, Emit
  PROVE  /\ Receives(Len(stack) - 1, FromReg(Top.dst))
         /\ env' = Put(Top.dst, Result(Top)) /\ maxReg' = Highest(Top.dst)
         /\ Len(stack) \in 2 .. Len(stack) /\ Top = stack[Len(stack)] /\ Done(Top)
         /\ Top.dst \in Nat /\ Top.dst >= scratch
<1> DEFINE m == Len(stack)
           p == m - 1
           src == FromReg(Top.dst)
<1>1. stack \in Seq(Frame) /\ m > 1 /\ m \in Nat /\ Top = stack[m] /\ Done(Top)
  BY LenProperties DEF Emit, TypeInv, Top
<1>2. m \in 2 .. Len(stack) /\ m \in 1 .. Len(stack) /\ p \in 1 .. Len(stack)
  BY <1>1
<1>3. ~Done(stack[p])
  BY <1>2 DEF StackInv
<1>4. Top.dst \in Nat /\ Top.dst >= scratch
  BY <1>1, <1>2, FrameIs
<1>5. src \in Source1 /\ src.v = Top.dst
  BY <1>4 DEF FromReg, Source1
<1>6. /\ stack' = Append(SubSeq(stack, 1, m - 2), Given(stack[p], src))
      /\ argRegs' = Noted(stack[p], Top.dst)
      /\ env' = Put(Top.dst, Result(Top)) /\ maxReg' = Highest(Top.dst)
      /\ UNCHANGED <<named, stmts, expr, scratch, before, got>>
  BY DEF Emit
<1>7. Given(stack[p], src) \in Frame
  BY <1>2, <1>5, FrameIs, GivenIs
<1> HIDE DEF src
<1>8. /\ SubSeq(stack, 1, m - 2) \in Seq(Frame) /\ Len(SubSeq(stack, 1, m - 2)) = m - 2
      /\ \A k \in 1 .. m - 2 : SubSeq(stack, 1, m - 2)[k] = stack[k]
  <2>1. m - 2 \in 1 - 1 .. Len(stack) /\ 1 \in 1 .. Len(stack) + 1
    BY <1>1
  <2>2. m - 2 - 1 + 1 = m - 2 /\ (\A k \in 1 .. m - 2 : k + 1 - 1 = k)
    BY <1>1
  <2> HIDE DEF m
  <2> QED BY <1>1, <2>1, <2>2, SubSeqProperties
<1>9. stack' \in Seq(Frame) /\ Len(stack') = p /\ stack'[p] = Given(stack[p], src)
      /\ \A k \in 1 .. p - 1 : stack'[k] = stack[k]
  BY <1>1, <1>6, <1>7, <1>8
<1>10. Receives(p, src)
  BY <1>2, <1>3, <1>5, <1>6, <1>9 DEF Receives
<1> QED BY <1>1, <1>2, <1>4, <1>6, <1>10 DEF src

LEMMA NotedIs ==
  ASSUME argRegs \in Seq(Nat), NEW f, NEW r \in Nat
  PROVE  /\ Noted(f, r) \in Seq(Nat)
         /\ Its(f).k \notin Ranged => Noted(f, r) = argRegs
         /\ \A j \in 1 .. Len(argRegs) : Noted(f, r)[j] = argRegs[j]
         /\ Its(f).k \in {"call", "do"} =>
              Len(Noted(f, r)) = Len(argRegs) + 1 /\ Noted(f, r)[Len(argRegs) + 1] = r
         /\ Its(f).k = "lit" =>
              Len(Noted(f, r)) = Len(argRegs) + 2 /\ Noted(f, r)[Len(argRegs) + 2] = r
<1>1. Entry(f, r) \in Seq(Nat)
  BY DEF Entry
<1>2. CASE Its(f).k = "lit"
  <2>1. Noted(f, r) = argRegs \o <<0, r>>
    BY <1>2 DEF Noted, Entry, Ranged
  <2> QED BY <1>2, <2>1 DEF Ranged
<1>3. CASE Its(f).k # "lit"
  <2>1. Its(f).k \in Ranged => Noted(f, r) = argRegs \o <<r>>
    BY <1>3 DEF Noted, Entry
  <2>2. Its(f).k \notin Ranged => Noted(f, r) = argRegs
    BY DEF Noted
  <2>3. /\ argRegs \o <<r>> \in Seq(Nat) /\ Len(argRegs \o <<r>>) = Len(argRegs) + 1
        /\ \A j \in 1 .. Len(argRegs) : (argRegs \o <<r>>)[j] = argRegs[j]
        /\ (argRegs \o <<r>>)[Len(argRegs) + 1] = r
    OBVIOUS
  <2> HIDE DEF Noted
  <2> QED BY <1>3, <2>1, <2>2, <2>3 DEF Ranged
<1> QED BY <1>2, <1>3

LEMMA ReceivesStack ==
  ASSUME TypeInv, StackInv, NEW p, NEW src, Receives(p, src)
  PROVE  StackInv' /\ stack' \in Seq(Frame) /\ argRegs' \in Seq(Nat)
<1>1. /\ p \in 1 .. Len(stack) /\ ~Done(stack[p]) /\ src \in Source1
      /\ stack' \in Seq(Frame) /\ Len(stack') = p
      /\ \A k \in 1 .. p - 1 : stack'[k] = stack[k]
      /\ stack'[p] = Given(stack[p], src) /\ argRegs' = Noted(stack[p], src.v)
      /\ expr' = expr /\ scratch' = scratch /\ got' = got
  BY DEF Receives
<1>2. stack[p] \in Frame /\ Len(stack) \in Nat /\ stack # <<>>
  BY <1>1, FrameIs, LenProperties, EmptySeq DEF TypeInv
<1>3. src.v \in Nat
  BY <1>1 DEF Source1
<1>4. argRegs' \in Seq(Nat)
  BY <1>1, <1>3, NotedIs DEF TypeInv
<1>5. ASSUME NEW k \in 1 .. p
      PROVE  /\ stack'[k].node = stack[k].node /\ stack'[k].dst = stack[k].dst
  <2>1. CASE k = p
    <3>1. stack'[k] = Given(stack[p], src)
      BY <1>1, <2>1
    <3>2. Given(stack[p], src).node = stack[p].node /\ Given(stack[p], src).dst = stack[p].dst
      BY <1>1, <1>2, GivenIs
    <3> QED BY <2>1, <3>1, <3>2
  <2>2. CASE k # p
    <3>1. k \in 1 .. p - 1
      BY <1>1, <1>2, <2>2
    <3> QED BY <1>1, <3>1
  <2> QED BY <2>1, <2>2
<1>6. \A k \in 1 .. p : (Its(stack[k]))' = Its(stack[k])
  BY <1>1, <1>5 DEF Its
<1>7. ASSUME NEW k \in 1 .. p PROVE FrameOK(stack[k])'
  <2>1. /\ Len(stack[k].ops) \in Nat /\ Len(Its(stack[k]).args) \in Nat
        /\ Len(stack[k].ops) <= Len(Its(stack[k]).args) /\ stack[k].node \in 1 .. Len(expr)
    <3>1. k \in 1 .. Len(stack)
      BY <1>1, <1>2
    <3> QED BY <3>1, FrameIs
  <2>2. Len(stack'[k].ops) <= Len(Its(stack[k]).args)
    <3>1. CASE k = p
      <4>1. Len(stack[p].ops) < Len(Its(stack[p]).args)
        BY <1>1, <2>1, <3>1 DEF Done
      <4> QED BY <1>1, <1>2, <2>1, <3>1, <4>1, GivenIs
    <3>2. CASE k # p
      BY <1>1, <2>1, <3>2
    <3> QED BY <3>1, <3>2
  <2> QED BY <1>1, <1>5, <1>6, <2>1, <2>2 DEF FrameOK
<1>8. ASSUME NEW k \in 2 .. p
      PROVE  /\ ~Done(stack[k - 1])'
             /\ stack'[k].node = Its(stack[k - 1])'.args[Len(stack'[k - 1].ops) + 1]
             /\ stack'[k].dst = Place(stack[k - 1], Len(stack[k - 1].ops) + 1)'
  <2>1. k \in 2 .. Len(stack) /\ k - 1 \in 1 .. p - 1 /\ k - 1 \in 1 .. p /\ k \in 1 .. p
    BY <1>1
  <2>2. /\ ~Done(stack[k - 1])
        /\ stack[k].node = Its(stack[k - 1]).args[Len(stack[k - 1].ops) + 1]
        /\ stack[k].dst = Place(stack[k - 1], Len(stack[k - 1].ops) + 1)
    BY <2>1 DEF StackInv
  <2>3. stack'[k - 1] = stack[k - 1]
    BY <1>1, <2>1
  <2>4. Done(stack[k - 1])' <=> Done(stack[k - 1])
    BY <1>6, <2>1, <2>3 DEF Done
  <2>5. Place(stack[k - 1], Len(stack[k - 1].ops) + 1)'
          = Place(stack[k - 1], Len(stack[k - 1].ops) + 1)
    BY <1>6, <2>1, <2>3 DEF Place
  <2> QED BY <1>5, <1>6, <2>1, <2>2, <2>3, <2>4, <2>5
<1>9. \A j, k \in 1 .. p : j <= k => stack'[j].dst <= stack'[k].dst
  <2>1. \A j \in 1 .. p : j \in 1 .. Len(stack)
    BY <1>1
  <2> QED BY <1>5, <2>1 DEF StackInv
<1>10. /\ stack'[1].node = Len(expr) /\ stack'[1].dst = scratch
       /\ (Its(stack[1]))' = Its(stack[1]) /\ got = <<>>
       /\ Its(stack[1]).k \in Statements
       /\ Its(stack[1]).k = "assign" => Its(stack[1]).v = scratch
  BY <1>1, <1>2, <1>5, <1>6 DEF StackInv
<1>11. StackInv'
  <2>1. Len(stack') = p
    BY <1>1
  <2>2. \A k \in 1 .. Len(stack') : FrameOK(stack[k])'
    BY <1>7, <2>1
  <2>3. \A k \in 2 .. Len(stack') :
          /\ ~Done(stack[k - 1])'
          /\ stack'[k].node = Its(stack[k - 1])'.args[Len(stack'[k - 1].ops) + 1]
          /\ stack'[k].dst = Place(stack[k - 1], Len(stack[k - 1].ops) + 1)'
    BY <1>8, <2>1
  <2>4. \A j, k \in 1 .. Len(stack') : j <= k => stack'[j].dst <= stack'[k].dst
    BY <1>9, <2>1
  <2> QED BY <1>1, <1>10, <2>2, <2>3, <2>4 DEF StackInv
<1> QED BY <1>1, <1>4, <1>11

LEMMA EnterPushes ==
  ASSUME TypeInv, StackInv, Enter
  PROVE  /\ stack' \in Seq(Frame) /\ Len(stack') = Len(stack) + 1
         /\ Len(stack) \in 1 .. Len(stack) /\ Top = stack[Len(stack)] /\ ~Done(Top)
         /\ \A k \in 1 .. Len(stack) : stack'[k] = stack[k]
         /\ stack'[Len(stack) + 1] =
              [node |-> Its(Top).args[Len(Top.ops) + 1], dst |-> Place(Top, Len(Top.ops) + 1),
               ops |-> <<>>, start |-> Len(argRegs)]
         /\ UNCHANGED <<env, named, maxReg, stmts, expr, argRegs, scratch, before, got>>
<1> DEFINE m == Len(stack)
           f == [node |-> Its(Top).args[Len(Top.ops) + 1], dst |-> Place(Top, Len(Top.ops) + 1),
                 ops |-> <<>>, start |-> Len(argRegs)]
<1>1. stack \in Seq(Frame) /\ stack # <<>> /\ ~Done(Top) /\ m \in Nat
  BY LenProperties DEF Enter, TypeInv
<1>2. m \in 1 .. Len(stack) /\ Top = stack[m]
  BY <1>1, EmptySeq DEF Top
<1>3. /\ Top.dst \in Nat /\ Len(Top.ops) \in Nat
      /\ Its(Top).args[Len(Top.ops) + 1] \in 1 .. Len(expr)
  BY <1>1, <1>2, FrameIs, NextIs
<1>4. Place(Top, Len(Top.ops) + 1) \in Nat
  BY <1>3, PlaceIs
<1>5. Len(argRegs) \in Nat
  BY LenProperties DEF TypeInv
<1>6. f \in Frame
  <2>1. f.node \in Nat
    BY <1>3
  <2>2. <<>> \in Seq(Source1)
    OBVIOUS
  <2> QED BY <1>4, <1>5, <2>1, <2>2 DEF Frame
<1>7. stack' = Append(stack, f)
      /\ UNCHANGED <<env, named, maxReg, stmts, expr, argRegs, scratch, before, got>>
  BY DEF Enter
<1> HIDE DEF f
<1>8. stack' \in Seq(Frame) /\ Len(stack') = m + 1 /\ stack'[m + 1] = f
      /\ \A k \in 1 .. m : stack'[k] = stack[k]
  BY <1>1, <1>6, <1>7
<1> QED BY <1>1, <1>2, <1>7, <1>8 DEF f

LEMMA EnterStack == ASSUME TypeInv, StackInv, Enter PROVE StackInv'
<1> DEFINE m == Len(stack)
           j == Len(Top.ops) + 1
<1>1. /\ stack' \in Seq(Frame) /\ Len(stack') = m + 1 /\ m \in 1 .. Len(stack)
      /\ Top = stack[m] /\ ~Done(Top) /\ \A k \in 1 .. m : stack'[k] = stack[k]
      /\ stack'[m + 1].node = Its(Top).args[j] /\ stack'[m + 1].dst = Place(Top, j)
      /\ stack'[m + 1].ops = <<>>
      /\ expr' = expr /\ scratch' = scratch /\ got' = got
  BY EnterPushes
<1>2. m \in Nat /\ stack # <<>>
  BY <1>1, LenProperties, EmptySeq DEF TypeInv
<1>3. Top.dst \in Nat /\ Len(Top.ops) \in Nat /\ Its(Top).args[j] \in 1 .. Len(expr)
  BY <1>1, FrameIs, NextIs
<1>4. Place(Top, j) \in Nat /\ Place(Top, j) >= Top.dst
  BY <1>3, PlaceIs
<1>5. \A k \in 1 .. m : (Its(stack[k]))' = Its(stack[k]) /\ (Done(stack[k]))' = Done(stack[k])
  BY <1>1 DEF Its, Done
<1>6. ASSUME NEW k \in 1 .. m + 1 PROVE FrameOK(stack[k])'
  <2>1. CASE k \in 1 .. m
    BY <1>1, <1>5, <2>1 DEF StackInv, FrameOK
  <2>2. CASE k = m + 1
    <3>1. expr[stack'[k].node].args \in Seq(Nat)
      BY <1>1, <1>3, <2>2, TableIs DEF TypeInv
    <3>2. Len(expr[stack'[k].node].args) \in Nat /\ Len(stack'[k].ops) = 0
      BY <1>1, <2>2, <3>1, LenProperties
    <3> QED BY <1>1, <1>3, <2>2, <3>2 DEF FrameOK, Its
  <2> QED BY <1>2, <2>1, <2>2
<1>7. \A k \in 1 .. m : (Place(stack[k], Len(stack[k].ops) + 1))' = Place(stack[k], Len(stack[k].ops) + 1)
  BY <1>1, <1>5 DEF Place
<1>8. ASSUME NEW k \in 2 .. m + 1
      PROVE  /\ ~Done(stack[k - 1])'
             /\ stack'[k].node = Its(stack[k - 1])'.args[Len(stack'[k - 1].ops) + 1]
             /\ stack'[k].dst = Place(stack[k - 1], Len(stack[k - 1].ops) + 1)'
  <2>0. k - 1 \in 1 .. m /\ stack'[k - 1] = stack[k - 1]
    BY <1>1, <1>2
  <2>1. CASE k \in 2 .. m
    <3>1. k \in 1 .. m /\ stack'[k] = stack[k]
      BY <1>1, <2>1
    <3> QED BY <1>5, <1>7, <2>0, <2>1, <3>1 DEF StackInv
  <2>2. CASE k = m + 1
    <3>1. k - 1 = m
      BY <1>2, <2>2
    <3> QED BY <1>1, <1>5, <1>7, <2>0, <2>2, <3>1
  <2> QED BY <1>2, <2>1, <2>2
<1>9. ASSUME NEW i \in 1 .. m + 1, NEW k \in 1 .. m + 1, i <= k
      PROVE  stack'[i].dst <= stack'[k].dst
  <2>1. \A n \in 1 .. m : stack[n].dst <= Top.dst /\ stack[n].dst \in Nat
    BY <1>1, <1>2, FrameIs DEF StackInv
  <2>2. CASE k \in 1 .. m
    BY <1>1, <1>9, <2>2 DEF StackInv
  <2>3. CASE k = m + 1
    <3>1. stack'[k].dst = Place(Top, j)
      BY <1>1, <2>3
    <3>2. CASE i \in 1 .. m
      BY <1>1, <1>3, <1>4, <2>1, <3>1, <3>2
    <3>3. CASE i = m + 1
      BY <1>4, <2>3, <3>1, <3>3
    <3> QED BY <1>2, <3>2, <3>3
  <2> QED BY <1>2, <2>2, <2>3
<1>10. /\ stack'[1].node = Len(expr) /\ stack'[1].dst = scratch /\ got = <<>>
       /\ (Its(stack[1]))' = Its(stack[1]) /\ Its(stack[1]).k \in Statements
       /\ Its(stack[1]).k = "assign" => Its(stack[1]).v = scratch
  <2>1. 1 \in 1 .. m
    BY <1>1, <1>2
  <2> QED BY <1>1, <1>2, <1>5, <2>1 DEF StackInv
<1> QED BY <1>1, <1>6, <1>8, <1>9, <1>10 DEF StackInv

-----------------------------------------------------------------------------
(* The tables of statements.                                               *)
LEMMA StatementTable ==
  ASSUME NEW e \in Expr, NEW k \in {"assign", "set", "use"}, NEW v \in Nat
  PROVE  LET s == Statement(k, v, e)
         IN  s \in Table /\ Len(s) \in Nat \ {0} /\ s[Len(s)].k = k /\ s[Len(s)].v = v
<1> DEFINE s == Statement(k, v, e)
           n == Len(e)
           p == [k |-> k, v |-> v, args |-> <<n>>]
<1>1. e \in Table /\ e \in Seq(Part) /\ e # <<>> /\ n \in Nat
  BY LenProperties DEF Expr, Table
<1>2. n >= 1
  BY <1>1, EmptySeq
<1>3. p \in Part
  <2>1. <<n>> \in Seq(Nat)
    BY <1>1
  <2> QED BY <2>1 DEF Part, Unary
<1>4. s = Append(e, p)
  BY DEF Statement
<1>5. p.k = k /\ p.v = v /\ p.args = <<n>> /\ Len(p.args) = 1 /\ DOMAIN p.args = {1} /\ p.args[1] = n
  OBVIOUS
<1> HIDE DEF s, p
<1>6. /\ s \in Seq(Part) /\ Len(s) = n + 1 /\ s[n + 1] = p /\ DOMAIN s = 1 .. n + 1
      /\ \A i \in 1 .. n : s[i] = e[i]
  BY <1>1, <1>3, <1>4
<1>7. ASSUME NEW i \in DOMAIN s
      PROVE  /\ \A j \in DOMAIN s[i].args : s[i].args[j] \in 1 .. i - 1
             /\ s[i].k \in Leaves => Len(s[i].args) = 0
             /\ s[i].k \in Unary => Len(s[i].args) = 1
             /\ s[i].k \in Binary => Len(s[i].args) = 2
  <2>1. CASE i \in 1 .. n
    <3>1. i \in DOMAIN e /\ s[i] = e[i]
      BY <1>1, <1>6, <2>1, LenProperties
    <3> QED BY <1>1, <3>1 DEF Table
  <2>2. CASE i = n + 1
    <3>1. s[i] = p
      BY <1>6, <2>2
    <3>2. \A j \in DOMAIN p.args : p.args[j] \in 1 .. i - 1
      BY <1>1, <1>2, <1>5, <2>2
    <3>3. p.k \notin Leaves /\ p.k \notin Binary
      BY <1>5 DEF Leaves, Binary
    <3> QED BY <1>5, <3>1, <3>2, <3>3
  <2> QED BY <1>1, <1>6, <2>1, <2>2
<1>8. s \in Table
  BY <1>6, <1>7 DEF Table
<1> QED BY <1>1, <1>5, <1>6, <1>8 DEF s

LEMMA CallTable ==
  ASSUME NEW e \in Expr, e[Len(e)].k = "call"
  PROVE  LET s == [e EXCEPT ![Len(e)].k = "do"]
         IN  s \in Table /\ Len(s) \in Nat \ {0} /\ s[Len(s)].k = "do"
<1> DEFINE s == [e EXCEPT ![Len(e)].k = "do"]
           n == Len(e)
           p == [e[n] EXCEPT !.k = "do"]
<1>1. e \in Table /\ e \in Seq(Part) /\ e # <<>> /\ n \in Nat
  BY LenProperties DEF Expr, Table
<1>2. n >= 1
  BY <1>1, EmptySeq
<1>3. e[n] \in Part
  BY <1>1, <1>2, ElementOfSeq
<1>4. p \in Part /\ p.k = "do" /\ p.args = e[n].args
  BY <1>3 DEF Part, Ranged
<1>5. s = [e EXCEPT ![n] = p]
  OBVIOUS
<1> HIDE DEF s, p
<1>6. /\ s \in Seq(Part) /\ Len(s) = n /\ s[n] = p /\ DOMAIN s = 1 .. n
      /\ \A i \in 1 .. n : i # n => s[i] = e[i]
  BY <1>1, <1>2, <1>4, <1>5
<1>7. ASSUME NEW i \in DOMAIN s
      PROVE  /\ \A j \in DOMAIN s[i].args : s[i].args[j] \in 1 .. i - 1
             /\ s[i].k \in Leaves => Len(s[i].args) = 0
             /\ s[i].k \in Unary => Len(s[i].args) = 1
             /\ s[i].k \in Binary => Len(s[i].args) = 2
  <2>1. i \in DOMAIN e
    BY <1>1, <1>6, LenProperties
  <2>2. CASE i = n
    BY <1>1, <1>4, <1>6, <2>1, <2>2 DEF Table, Leaves, Unary, Binary
  <2>3. CASE i # n
    BY <1>1, <1>6, <2>1, <2>3 DEF Table
  <2> QED BY <2>2, <2>3
<1>8. s \in Table
  BY <1>6, <1>7 DEF Table
<1> QED BY <1>1, <1>2, <1>4, <1>6, <1>8 DEF s

LEMMA StartBegins ==
  ASSUME TypeInv, Start
  PROVE  \E e, s : /\ Begin(e, s) /\ e \in Table /\ Len(e) \in Nat \ {0} /\ s \in Nat
                   /\ e[Len(e)].k \in Statements
                   /\ e[Len(e)].k = "assign" => e[Len(e)].v = s
<1>1. PICK e \in Exprs : Assign(e) \/ SetOrStore(e) \/ Consume(e) \/ CallStmt(e)
  BY DEF Start
<1>2. e \in Expr
  BY CompileAssumption
<1>3. CASE Assign(e)
  <2>1. PICK r \in Named \cup {named} : Begin(Statement("assign", r, e), r)
    BY <1>3 DEF Assign
  <2>2. r \in Nat
    BY <2>1 DEF Named, TypeInv
  <2> QED BY <1>2, <2>1, <2>2, StatementTable DEF Statements
<1>4. CASE SetOrStore(e)
  <2>1. PICK r \in Named : Begin(Statement("set", r, e), r + 1)
    BY <1>4 DEF SetOrStore
  <2>2. r \in Nat /\ r + 1 \in Nat
    BY <2>1 DEF Named, TypeInv
  <2> QED BY <1>2, <2>1, <2>2, StatementTable DEF Statements
<1>5. CASE Consume(e)
  <2>1. Begin(Statement("use", 0, e), maxReg + 1) /\ maxReg + 1 \in Nat
    BY <1>5 DEF Consume, TypeInv
  <2> QED BY <1>2, <2>1, StatementTable DEF Statements
<1>6. CASE CallStmt(e)
  <2>1. /\ Begin([e EXCEPT ![Len(e)].k = "do"], maxReg + 1) /\ maxReg + 1 \in Nat
        /\ e[Len(e)].k = "call"
    BY <1>6 DEF CallStmt, TypeInv
  <2> QED BY <1>2, <2>1, CallTable DEF Statements
<1> QED BY <1>1, <1>3, <1>4, <1>5, <1>6

LEMMA StartStack == ASSUME TypeInv, Start PROVE StackInv' /\ TypeInv'
<1>1. PICK e, s : /\ Begin(e, s) /\ e \in Table /\ Len(e) \in Nat \ {0} /\ s \in Nat
                  /\ e[Len(e)].k \in Statements
                  /\ e[Len(e)].k = "assign" => e[Len(e)].v = s
  BY StartBegins
<1> DEFINE f == [node |-> Len(e), dst |-> s, ops |-> <<>>, start |-> 0]
<1>2. /\ expr' = e /\ stack' = <<f>> /\ argRegs' = <<>> /\ scratch' = s /\ got' = <<>>
      /\ UNCHANGED <<env, named, maxReg>>
  BY <1>1 DEF Begin
<1>3. f \in Frame
  <2>1. <<>> \in Seq(Source1)
    OBVIOUS
  <2> QED BY <1>1, <2>1 DEF Frame
<1>4. stack' \in Seq(Frame) /\ Len(stack') = 1 /\ stack'[1] = f /\ argRegs' \in Seq(Nat)
  <2> HIDE DEF f
  <2> QED BY <1>2, <1>3
<1>5. TypeInv'
  BY <1>1, <1>2, <1>4 DEF TypeInv
<1>6. Len(e[Len(e)].args) \in Nat
  BY <1>1, TableIs
<1>7. FrameOK(stack[1])'
  BY <1>1, <1>2, <1>4, <1>6 DEF FrameOK, Its
<1>8. (Its(stack[1]))' = e[Len(e)]
  BY <1>2, <1>4 DEF Its
<1>9. stack'[1].node = Len(e) /\ stack'[1].dst = s /\ s <= s
  BY <1>1, <1>4
<1>10. \A k \in 1 .. Len(stack') : k = 1
  BY <1>4
<1>11. \A k \in 2 .. Len(stack') : FALSE
  BY <1>4
<1> HIDE DEF f
<1>12. StackInv'
  BY <1>1, <1>2, <1>7, <1>8, <1>9, <1>10, <1>11 DEF StackInv
<1> QED BY <1>5, <1>12

LEMMA FinishEnds ==
  ASSUME TypeInv, StackInv, Finish
  PROVE  /\ stack = <<Top>> /\ Len(stack) = 1 /\ Top = stack[1] /\ Done(Top)
         /\ Top.node = Len(expr) /\ Its(Top).k \in Statements
         /\ got' = <<Result(Top)>> /\ stack' = <<>>
         /\ UNCHANGED <<stmts, expr, argRegs, scratch, before>>
         /\ named' \in Nat /\ named' >= named
         /\ maxReg' \in Nat /\ maxReg' >= maxReg
         /\ env' = env \/ (env' = Put(scratch, Result(Top)) /\ maxReg' >= scratch)
<1>1. stack \in Seq(Frame) /\ Len(stack) = 1 /\ Done(Top) /\ Top = stack[1]
  BY DEF Finish, TypeInv, Top
<1>2. stack = <<Top>> /\ stack # <<>> /\ 1 \in 1 .. Len(stack)
  BY <1>1
<1>3. /\ Top.node = Len(expr) /\ Its(Top).k \in Statements /\ Its(Top).v \in Nat
      /\ Its(Top).k = "assign" => Its(Top).v = scratch
      /\ Top.ops \in Seq(Source1) /\ Len(Top.ops) = Len(Its(Top).args)
  BY <1>1, <1>2, FrameIs DEF StackInv, Done
<1>4. got' = <<Result(Top)>> /\ stack' = <<>> /\ UNCHANGED <<stmts, expr, argRegs, scratch, before>>
  BY DEF Finish
<1>5. Its(Top).k = "use" => Top.ops[1].v \in Nat
  <2> SUFFICES ASSUME Its(Top).k = "use" PROVE Top.ops[1].v \in Nat
    OBVIOUS
  <2>1. Len(expr[Top.node].args) = 1
    BY <1>1, <1>2, FrameIs, TableIs DEF TypeInv, Unary, Its
  <2>2. Len(Top.ops) = 1
    BY <1>3, <2>1 DEF Its
  <2>3. Top.ops[1] \in Source1
    BY <1>3, <2>2, ElementOfSeq
  <2> QED BY <2>3 DEF Source1
<1>6. /\ named' \in Nat /\ named' >= named /\ maxReg' \in Nat /\ maxReg' >= maxReg
      /\ env' = env \/ (env' = Put(scratch, Result(Top)) /\ maxReg' >= scratch)
  <2>1. CASE Its(Top).k = "assign"
    <3>1. named' = IF Its(Top).v < named THEN named ELSE Its(Top).v + 1
      BY <2>1 DEF Finish
    <3>2. \/ env' = env /\ maxReg' = maxReg
          \/ env' = Put(Its(Top).v, Result(Top)) /\ maxReg' = Highest(Its(Top).v)
      BY <2>1 DEF Finish
    <3>3. Highest(Its(Top).v) \in Nat /\ Highest(Its(Top).v) >= maxReg
          /\ Highest(Its(Top).v) >= Its(Top).v
      BY <1>3 DEF Highest, TypeInv
    <3> QED BY <1>3, <2>1, <3>1, <3>2, <3>3 DEF TypeInv
  <2>2. CASE Its(Top).k = "set"
    BY <1>3, <2>2 DEF Finish, Highest, TypeInv
  <2>3. CASE Its(Top).k = "use"
    BY <1>5, <2>3 DEF Finish, Highest, TypeInv
  <2>4. CASE Its(Top).k = "do"
    BY <2>4 DEF Finish, TypeInv
  <2> QED BY <1>3, <2>1, <2>2, <2>3, <2>4 DEF Statements
<1> QED BY <1>1, <1>2, <1>3, <1>4, <1>6

LEMMA PutIs ==
  ASSUME NEW r \in Nat, NEW v
  PROVE  /\ DOMAIN Put(r, v) = DOMAIN env \cup {r}
         /\ \A q \in DOMAIN env : q # r => Put(r, v)[q] = env[q]
         /\ Put(r, v)[r] = v
         /\ \A q \in Nat : Read(Put(r, v), q) = IF q = r THEN v ELSE Read(env, q)
BY DEF Put, Read

LEMMA PutDomain ==
  ASSUME NEW r \in Nat, NEW v, TypeInv
  PROVE  DOMAIN Put(r, v) \subseteq Nat
<1>1. DOMAIN env \subseteq Nat
  BY DEF TypeInv
<1>2. DOMAIN Put(r, v) = DOMAIN env \cup {r}
  BY PutIs
<1> QED BY <1>1, <1>2

LEMMA PutAbove ==
  ASSUME NEW r \in Nat, NEW v, TypeInv
  PROVE  \A q \in DOMAIN env : q < r => Put(r, v)[q] = env[q]
<1> SUFFICES ASSUME NEW q \in DOMAIN env, q < r PROVE Put(r, v)[q] = env[q]
  OBVIOUS
<1>1. q # r
  BY DEF TypeInv
<1>2. \A i \in DOMAIN env : i # r => Put(r, v)[i] = env[i]
  BY PutIs
<1> QED BY <1>1, <1>2

LEMMA TypeKept ==
  ASSUME TypeInv, StackInv, [Next]_vars
  PROVE  TypeInv' /\ StackInv'
<1>1. CASE Start
  BY <1>1, StartStack
<1>2. CASE Take
  <2>1. PICK src : Receives(Len(stack), src) /\ UNCHANGED <<env, maxReg>>
    BY <1>2, TakeReceives
  <2>2. StackInv' /\ stack' \in Seq(Frame) /\ argRegs' \in Seq(Nat)
    BY <2>1, ReceivesStack
  <2>3. TypeInv'
    BY <2>1, <2>2 DEF TypeInv, Receives
  <2> QED BY <2>2, <2>3
<1>3. CASE Enter
  BY <1>3, EnterStack, EnterPushes DEF TypeInv
<1>4. CASE Emit
  <2>1. /\ Receives(Len(stack) - 1, FromReg(Top.dst)) /\ env' = Put(Top.dst, Result(Top))
        /\ maxReg' = Highest(Top.dst) /\ Top.dst \in Nat
    BY <1>4, EmitReceives
  <2>2. StackInv' /\ stack' \in Seq(Frame) /\ argRegs' \in Seq(Nat)
    BY <2>1, ReceivesStack
  <2>3. DOMAIN env' \subseteq Nat
    BY <2>1, PutDomain DEF TypeInv
  <2>4. maxReg' \in Nat
    BY <2>1 DEF Highest, TypeInv
  <2>5. TypeInv'
    BY <2>1, <2>2, <2>3, <2>4 DEF TypeInv, Receives
  <2> QED BY <2>2, <2>5
<1>5. CASE Finish
  <2>1. /\ stack' = <<>> /\ UNCHANGED <<stmts, expr, argRegs, scratch, before>>
        /\ named' \in Nat /\ maxReg' \in Nat
        /\ env' = env \/ env' = Put(scratch, Result(Top))
    BY <1>5, FinishEnds
  <2>2. DOMAIN env' \subseteq Nat
    BY <2>1, PutDomain DEF TypeInv
  <2>3. <<>> \in Seq(Frame) /\ Len(<<>>) = 0
    OBVIOUS
  <2>4. TypeInv'
    BY <2>1, <2>2, <2>3 DEF TypeInv
  <2>5. StackInv'
    BY <2>1, <2>3 DEF StackInv
  <2> QED BY <2>4, <2>5
<1>6. CASE UNCHANGED vars
  <2>1. UNCHANGED <<env, named, maxReg, expr, stack, argRegs, scratch, got>>
    BY <1>6 DEF vars
  <2>2. TypeInv'
    BY <2>1 DEF TypeInv
  <2>3. \A k : FrameOK(stack[k])' = FrameOK(stack[k]) /\ Done(stack[k])' = Done(stack[k])
    BY <2>1 DEF FrameOK, Done, Its
  <2>4. \A k, j : Place(stack[k], j)' = Place(stack[k], j) /\ Its(stack[k])' = Its(stack[k])
    BY <2>1 DEF Place, Its
  <2>5. StackInv'
    BY <2>1, <2>3, <2>4 DEF StackInv
  <2> QED BY <2>2, <2>5
<1> QED BY <1>1, <1>2, <1>3, <1>4, <1>5, <1>6 DEF Next

LEMMA TypeInit == Init => TypeInv /\ StackInv
<1> SUFFICES ASSUME Init PROVE TypeInv /\ StackInv
  OBVIOUS
<1>1. named \in Nat /\ DOMAIN env \subseteq Nat
  BY CompileAssumption DEF Init
<1>2. /\ expr = <<>> /\ stack = <<>> /\ argRegs = <<>> /\ maxReg = 0 /\ scratch = 0
  BY DEF Init
<1>3. <<>> \in Table
  BY DEF Table
<1>4. <<>> \in Seq(Frame) /\ <<>> \in Seq(Nat) /\ Len(<<>>) = 0
  OBVIOUS
<1> QED BY <1>1, <1>2, <1>3, <1>4 DEF TypeInv, StackInv

LEMMA AlwaysTyped == Spec => [](TypeInv /\ StackInv)
<1>1. TypeInv /\ StackInv /\ [Next]_vars => (TypeInv /\ StackInv)'
  BY TypeKept
<1> QED BY <1>1, TypeInit, PTL DEF Spec

(* LowerKept: the code of a statement writes no register below the one it  *)
(* was given (compileExpr, compileBinOp, buildArgRange).                   *)
THEOREM LowerAlwaysKept == Spec => LowerKept
<1> DEFINE Kept == \A r \in DOMAIN env : r < scratch' => env'[r] = env[r]
<1>1. ASSUME TypeInv, StackInv, [Next]_vars PROVE [Kept]_vars
  <2> SUFFICES ASSUME Next PROVE Kept
    BY <1>1
  <2>1. CASE Start \/ Take \/ Enter
    BY <2>1 DEF Start, Assign, SetOrStore, Consume, CallStmt, Begin, Take, Enter
  <2>2. CASE Emit
    <3>1. env' = Put(Top.dst, Result(Top)) /\ Top.dst \in Nat /\ Top.dst >= scratch
          /\ scratch' = scratch
      BY <1>1, <2>2, EmitReceives DEF Receives
    <3>2. \A r \in DOMAIN env : r < Top.dst => env'[r] = env[r]
      BY <1>1, <3>1, PutAbove
    <3>3. scratch \in Nat /\ \A r \in DOMAIN env : r \in Nat
      BY <1>1 DEF TypeInv
    <3> QED BY <3>1, <3>2, <3>3
  <2>3. CASE Finish
    <3>1. /\ env' = env \/ env' = Put(scratch, Result(Top))
          /\ scratch' = scratch /\ scratch \in Nat
      BY <1>1, <2>3, FinishEnds DEF TypeInv
    <3>2. env' = Put(scratch, Result(Top)) =>
            \A r \in DOMAIN env : r < scratch => env'[r] = env[r]
      BY <1>1, <3>1, PutAbove
    <3> QED BY <3>1, <3>2
  <2> QED BY <2>1, <2>2, <2>3 DEF Next
<1> HIDE DEF Kept
<1>2. Spec => [][Kept]_vars
  BY <1>1, AlwaysTyped, PTL DEF Spec
<1> QED BY <1>2 DEF LowerKept, Kept

(* RegistersExist: emit counts every register that is written, so finish() *)
(* makes the frame long enough.                                            *)
THEOREM RegistersAlwaysExist == Spec => []RegistersExist
<1>1. Init => RegistersExist
  BY CompileAssumption DEF Init, RegistersExist
<1>2. ASSUME TypeInv, StackInv, RegistersExist, [Next]_vars PROVE RegistersExist'
  <2>1. CASE Start \/ Take \/ Enter
    BY <1>2, <2>1 DEF Start, Assign, SetOrStore, Consume, CallStmt, Begin, Take, Enter,
                      RegistersExist
  <2>2. CASE Emit
    <3>1. /\ env' = Put(Top.dst, Result(Top)) /\ Top.dst \in Nat /\ maxReg' = Highest(Top.dst)
          /\ named' = named
      BY <1>2, <2>2, EmitReceives DEF Receives
    <3>2. Highest(Top.dst) >= Top.dst /\ Highest(Top.dst) >= maxReg /\ Highest(Top.dst) \in Nat
          /\ maxReg \in Nat /\ named \in Nat
      BY <1>2, <3>1 DEF Highest, TypeInv
    <3>3. DOMAIN env' = DOMAIN env \cup {Top.dst}
      BY <3>1, PutIs
    <3>4. \A r \in DOMAIN env : r \in Nat
      BY <1>2 DEF TypeInv
    <3>5. \A r \in DOMAIN env' : r < named \/ r <= maxReg'
      BY <1>2, <3>1, <3>2, <3>3, <3>4 DEF RegistersExist
    <3> QED BY <3>1, <3>5 DEF RegistersExist
  <2>3. CASE Finish
    <3>1. /\ named' \in Nat /\ named' >= named /\ maxReg' \in Nat /\ maxReg' >= maxReg
          /\ env' = env \/ (env' = Put(scratch, Result(Top)) /\ maxReg' >= scratch)
          /\ scratch \in Nat /\ maxReg \in Nat /\ named \in Nat
      BY <1>2, <2>3, FinishEnds DEF TypeInv
    <3>2. env' = Put(scratch, Result(Top)) => DOMAIN env' = DOMAIN env \cup {scratch}
      BY <3>1, PutIs
    <3>3. \A r \in DOMAIN env : r \in Nat
      BY <1>2 DEF TypeInv
    <3>4. \A r \in DOMAIN env' : r < named' \/ r <= maxReg'
      BY <1>2, <3>1, <3>2, <3>3 DEF RegistersExist
    <3> QED BY <3>4 DEF RegistersExist
  <2>4. CASE UNCHANGED vars
    BY <1>2, <2>4 DEF vars, RegistersExist
  <2> QED BY <1>2, <2>1, <2>2, <2>3, <2>4 DEF Next
<1> QED BY <1>1, <1>2, AlwaysTyped, PTL DEF Spec

-----------------------------------------------------------------------------
(* Induction over an interval, stated with the set of the good numbers.    *)
LEMMA IntervalInduction ==
  ASSUME NEW n \in Nat, NEW Good, 0 \in Good,
         \A k \in 1 .. n : k - 1 \in Good => k \in Good
  PROVE  0 .. n \subseteq Good
<1> DEFINE Bad == {k \in 0 .. n : k \notin Good}
<1> SUFFICES ASSUME Bad # {} PROVE FALSE
  OBVIOUS
<1>1. Bad \subseteq Nat
  OBVIOUS
<1>2. PICK m \in Bad : \A k \in Bad : ~(<<k, m>> \in OpToRel(<, Nat))
  BY <1>1, WFMin, NatLessThanWellFounded
<1>3. m \in 1 .. n
  OBVIOUS
<1>4. m - 1 \notin Bad
  <2>1. m - 1 \in Nat /\ m \in Nat /\ m - 1 < m
    BY <1>3
  <2>2. <<m - 1, m>> \in OpToRel(<, Nat)
    BY <2>1 DEF OpToRel
  <2> QED BY <1>2, <2>2
<1>5. m - 1 \in Good
  BY <1>3, <1>4
<1> QED BY <1>3, <1>5

(* What the parts of an expression mean, without a recursive definition:   *)
(* the meaning of part i from those of the parts before it.                *)
Meaning(e, regs, value, i) ==
  CASE e[i].k = "reg" -> Read(regs, e[i].v)
    [] e[i].k = "int" -> e[i].v
    [] e[i].k \in {"assign", "set", "use"} -> value[e[i].args[1]]
    [] OTHER -> Apply(e[i].k, Base(e[i], regs),
                      [j \in DOMAIN e[i].args |-> value[e[i].args[j]]])

LEMMA MeaningOfParts ==
  ASSUME NEW e \in Table, NEW regs, NEW i \in 1 .. Len(e), NEW g, NEW h,
         \A q \in 1 .. i - 1 : g[q] = h[q]
  PROVE  Meaning(e, regs, g, i) = Meaning(e, regs, h, i)
<1>1. e[i].args \in Seq(Nat) /\ \A j \in 1 .. Len(e[i].args) : e[i].args[j] \in 1 .. i - 1
  BY TableIs
<1>2. DOMAIN e[i].args = 1 .. Len(e[i].args)
  BY <1>1, LenProperties
<1>3. e[i].k \in {"assign", "set", "use"} => g[e[i].args[1]] = h[e[i].args[1]]
  <2> SUFFICES ASSUME e[i].k \in {"assign", "set", "use"} PROVE g[e[i].args[1]] = h[e[i].args[1]]
    OBVIOUS
  <2>1. Len(e[i].args) = 1
    BY TableIs DEF Unary
  <2>2. e[i].args[1] \in 1 .. i - 1
    BY <1>1, <2>1
  <2> QED BY <2>2
<1>4. [j \in DOMAIN e[i].args |-> g[e[i].args[j]]] = [j \in DOMAIN e[i].args |-> h[e[i].args[j]]]
  BY <1>1, <1>2
<1> QED BY <1>3, <1>4 DEF Meaning

(* value has the meanings of the first n parts.                            *)
Means(value, e, regs, n) == \A i \in 1 .. n : value[i] = Meaning(e, regs, value, i)

LEMMA PartsHaveMeaning ==
  ASSUME NEW e \in Table, NEW regs
  PROVE  \E h : Means(h, e, regs, Len(e))
<1> DEFINE Good == {n \in 0 .. Len(e) : \E h : Means(h, e, regs, n)}
<1>0. Len(e) \in Nat
  BY LenProperties DEF Table
<1>1. 0 \in Good
  <2>1. Means(<<>>, e, regs, 0)
    BY DEF Means
  <2> QED BY <1>0, <2>1
<1>2. ASSUME NEW n \in 1 .. Len(e), n - 1 \in Good PROVE n \in Good
  <2>1. PICK g : Means(g, e, regs, n - 1)
    BY <1>2
  <2> DEFINE last == Meaning(e, regs, g, n)
             h == [i \in 1 .. n |-> IF i = n THEN last ELSE g[i]]
  <2>2. h[n] = last /\ \A i \in 1 .. n - 1 : h[i] = g[i]
    <3> HIDE DEF last
    <3> QED BY <1>0
  <2> HIDE DEF h
  <2>3. ASSUME NEW i \in 1 .. n PROVE h[i] = Meaning(e, regs, h, i)
    <3>1. i \in 1 .. Len(e) /\ \A q \in 1 .. i - 1 : q \in 1 .. n - 1
      BY <1>0
    <3>2. \A q \in 1 .. i - 1 : h[q] = g[q]
      BY <2>2, <3>1
    <3>3. Meaning(e, regs, h, i) = Meaning(e, regs, g, i)
      BY <3>1, <3>2, MeaningOfParts
    <3>4. CASE i = n
      BY <2>2, <3>3, <3>4
    <3>5. CASE i # n
      <4>1. i \in 1 .. n - 1
        BY <1>0, <3>5
      <4> QED BY <2>1, <2>2, <3>3, <4>1 DEF Means
    <3> QED BY <3>4, <3>5
  <2>4. Means(h, e, regs, n)
    BY <2>3 DEF Means
  <2> QED BY <1>0, <2>4
<1>3. 0 .. Len(e) \subseteq Good
  <2> HIDE DEF Good
  <2> QED BY <1>0, <1>1, <1>2, IntervalInduction
<1> QED BY <1>0, <1>3

LEMMA EvalIs ==
  ASSUME NEW e \in Table, NEW regs, NEW i \in 1 .. Len(e)
  PROVE  Eval(e, regs)[i] = Meaning(e, regs, Eval(e, regs), i)
<1> DEFINE Makes(h) ==
             h = [q \in DOMAIN e |->
                    CASE e[q].k = "reg" -> Read(regs, e[q].v)
                      [] e[q].k = "int" -> e[q].v
                      [] e[q].k \in {"assign", "set", "use"} -> h[e[q].args[1]]
                      [] OTHER -> Apply(e[q].k, Base(e[q], regs),
                                        [j \in DOMAIN e[q].args |-> h[e[q].args[j]]])]
           value == CHOOSE h : Makes(h)
<1>1. DOMAIN e = 1 .. Len(e) /\ Len(e) \in Nat
  BY LenProperties DEF Table
<1>2. PICK g : Means(g, e, regs, Len(e))
  BY PartsHaveMeaning
<1> DEFINE m == [q \in 1 .. Len(e) |-> g[q]]
<1>3. ASSUME NEW q \in 1 .. Len(e) PROVE m[q] = Meaning(e, regs, m, q)
  <2>1. \A p \in 1 .. q - 1 : m[p] = g[p]
    BY <1>1
  <2>2. m[q] = g[q]
    OBVIOUS
  <2> HIDE DEF m
  <2>3. Meaning(e, regs, m, q) = Meaning(e, regs, g, q)
    BY <2>1, MeaningOfParts
  <2> QED BY <1>2, <2>2, <2>3 DEF Means
<1>4. m = [q \in DOMAIN e |-> Meaning(e, regs, m, q)]
  <2>1. m = [q \in 1 .. Len(e) |-> m[q]]
    OBVIOUS
  <2> HIDE DEF m
  <2> QED BY <1>1, <1>3, <2>1
<1> HIDE DEF m
<1>5. Makes(m)
  BY <1>4 DEF Meaning
<1>6. Makes(value)
  <2> HIDE DEF Makes
  <2> QED BY <1>5
<1>7. Eval(e, regs) = value
  BY DEF Eval
<1> HIDE DEF value
<1>8. value = [q \in DOMAIN e |-> Meaning(e, regs, value, q)]
  BY <1>6 DEF Meaning
<1> HIDE DEF Makes
<1>9. value[i] = Meaning(e, regs, value, i)
  BY <1>1, <1>8
<1> QED BY <1>7, <1>9

-----------------------------------------------------------------------------
(* What makes values right.  The statement's registers from before are as  *)
(* they were (KeptInv); an operand has its value and is in a register      *)
(* below the statement's or in its own place (OperandsInv), and, of a call *)
(* or a struct literal, in its own range of arg_regs (RangesInv), since    *)
(* the parts that are being compiled inside it have no range (AboveInv).   *)
Good == Reads(expr) \subseteq 0 .. scratch - 1 /\ Untangled(expr)

Meant(i) == Eval(expr, before)[i]

ValueIn(regs, src) == IF src.reg THEN Read(regs, src.v) ELSE src.v

KeptInv == stack # <<>> => \A r \in 0 .. scratch - 1 : Read(env, r) = Read(before, r)

AboveInv ==
  \A s \in SUBSET (DOMAIN expr) : Inside(expr, s) =>
    \A k \in 1 .. Len(stack) : \A j \in 1 .. k - 1 :
      Its(stack[j]).k \in Ranged => stack[k].node \in s

OperandIs(f, j) ==
  /\ ValueIn(env, f.ops[j]) = Meant(Its(f).args[j])
  /\ f.ops[j].reg => f.ops[j].v < scratch \/ f.ops[j].v = Place(f, j)
  /\ ~f.ops[j].reg => Its(f).k = "bin"

OperandsInv ==
  \A k \in 1 .. Len(stack) :
    Its(stack[k]).k # "reg" /\ \A j \in 1 .. Len(stack[k].ops) : OperandIs(stack[k], j)

Width(f) == IF Its(f).k = "lit" THEN 2 ELSE 1

RangeIs(f) ==
  /\ Len(argRegs) = f.start + Width(f) * Len(f.ops)
  /\ \A j \in 1 .. Len(f.ops) : argRegs[f.start + Width(f) * j] = f.ops[j].v

RangesInv == \A k \in 1 .. Len(stack) : Its(stack[k]).k \in Ranged => RangeIs(stack[k])

ValueInv ==
  /\ KeptInv
  /\ AboveInv
  /\ Good => OperandsInv /\ RangesInv
  /\ ValueRight

-----------------------------------------------------------------------------
(* A place is above the places of the operands before it.                  *)
LEMMA PlaceIncreases ==
  ASSUME TypeInv, StackInv, NEW k \in 1 .. Len(stack), ~Done(stack[k]),
         NEW j \in 1 .. Len(stack[k].ops),
         stack[k].ops[j].reg, stack[k].ops[j].v = Place(stack[k], j)
  PROVE  Place(stack[k], j) < Place(stack[k], Len(stack[k].ops) + 1)
<1> DEFINE f == stack[k]
           n == Len(f.ops) + 1
           p == Its(f)
<1>1. /\ f.dst \in Nat /\ Len(f.ops) \in Nat /\ j \in Nat /\ f.node \in 1 .. Len(expr)
      /\ f.ops[j].reg /\ f.ops[j].v = Place(f, j)
  BY FrameIs
<1>2. /\ p.k \in Leaves \cup Unary \cup Binary \cup Ranged
      /\ p.k \in Leaves => Len(p.args) = 0
      /\ p.k \in Unary => Len(p.args) = 1
      /\ p.k \in Binary => Len(p.args) = 2
  BY <1>1, TableIs DEF TypeInv, Its, Part
<1>3. n \in 1 .. Len(p.args) /\ j >= 1 /\ j < n /\ n \in Nat
  BY <1>1, NextIs
<1> HIDE DEF f, p, n
<1>4. p.k \in {"call", "do"} => Place(f, j) < Place(f, n)
  <2>1. p.k \in {"call", "do"} => Place(f, j) = f.dst + j - 1 /\ Place(f, n) = f.dst + n - 1
    BY DEF Place, p, Binary
  <2> QED BY <1>1, <1>3, <2>1
<1>5. p.k = "lit" => Place(f, j) < Place(f, n)
  <2>1. p.k = "lit" => Place(f, j) = f.dst + j /\ Place(f, n) = f.dst + n
    BY DEF Place, p, Binary
  <2> QED BY <1>1, <1>3, <2>1
<1>6. ASSUME p.k \in Binary PROVE Place(f, j) < Place(f, n)
  <2>1. n = 2 /\ j = 1 /\ p.k \in {"bin", "eq"}
    <3>1. Len(p.args) = 2
      BY <1>2, <1>6
    <3> QED BY <1>1, <1>3, <1>6, <3>1 DEF Binary
  <2>2. Place(f, j) = f.dst
    BY <2>1 DEF Place, p
  <2>3. Place(f, n) = SecondScratch(f.ops[1], f.dst)
    BY <2>1 DEF Place, p, Binary
  <2>4. SecondScratch(f.ops[1], f.dst) = f.dst + 1
    BY <1>1, <2>1, <2>2 DEF SecondScratch
  <2> QED BY <1>1, <2>2, <2>3, <2>4
<1>7. p.k \notin Leaves /\ p.k \notin Unary
  <2>1. Len(p.args) \in Nat /\ 1 <= j /\ j < n /\ n <= Len(p.args)
    BY <1>3, FrameIs DEF p, f
  <2>2. Len(p.args) # 0 /\ Len(p.args) # 1
    <3> DEFINE l == Len(p.args)
    <3>1. l \in Nat /\ n \in Nat /\ j \in Nat /\ 1 <= j /\ j < n /\ n <= l
      BY <1>1, <1>3, <2>1
    <3> HIDE DEF l
    <3>2. l # 0 /\ l # 1
      BY <3>1
    <3> QED BY <3>2 DEF l
  <2> QED BY <1>2, <2>2
<1>8. Place(f, j) < Place(f, n)
  BY <1>2, <1>4, <1>5, <1>6, <1>7 DEF Ranged
<1> QED BY <1>8 DEF f, n

(* What the innermost call of compileExpr writes holds no operand of the   *)
(* calls below it.                                                         *)
LEMMA OperandSafe ==
  ASSUME TypeInv, StackInv, OperandsInv, NEW k \in 1 .. Len(stack) - 1,
         NEW j \in 1 .. Len(stack[k].ops), stack[k].ops[j].reg
  PROVE  stack[k].ops[j].v \in Nat /\ stack[k].ops[j].v < stack[Len(stack)].dst
<1> DEFINE f == stack[k]
           m == Len(stack)
<1>1. m \in Nat /\ m \in 1 .. Len(stack) /\ k \in 1 .. Len(stack) /\ k + 1 \in 2 .. Len(stack)
      /\ k + 1 \in 1 .. Len(stack) /\ k + 1 - 1 = k /\ k + 1 <= m
  BY LenProperties DEF TypeInv
<1>2. f.ops \in Seq(Source1) /\ stack[m].dst \in Nat /\ stack[m].dst >= scratch
      /\ stack[k + 1].dst \in Nat /\ f.dst \in Nat
  BY <1>1, FrameIs
<1>3. f.ops[j].v \in Nat
  <2>1. f.ops[j] \in Source1
    BY <1>2, ElementOfSeq
  <2> QED BY <2>1 DEF Source1
<1>4. ~Done(stack[k]) /\ stack[k + 1].dst = Place(stack[k], Len(stack[k].ops) + 1)
  BY <1>1 DEF StackInv
<1>5. stack[k + 1].dst <= stack[m].dst
  BY <1>1 DEF StackInv
<1>6. f.ops[j].v < scratch \/ f.ops[j].v = Place(f, j)
  BY <1>1 DEF OperandsInv, OperandIs
<1>7. CASE f.ops[j].v < scratch
  <2>1. scratch \in Nat
    BY DEF TypeInv
  <2> QED BY <1>2, <1>3, <1>7, <2>1
<1>8. CASE f.ops[j].v = Place(f, j)
  <2>1. Place(f, j) < Place(f, Len(f.ops) + 1)
    BY <1>1, <1>4, <1>8, PlaceIncreases
  <2> QED BY <1>2, <1>3, <1>4, <1>5, <1>8, <2>1
<1> QED BY <1>6, <1>7, <1>8

LEMMA OneRange ==
  ASSUME TypeInv, StackInv, AboveInv, Untangled(expr),
         NEW k \in 1 .. Len(stack), NEW j \in 1 .. k - 1, Its(stack[j]).k \in Ranged
  PROVE  Its(stack[k]).k \notin Ranged
<1>1. PICK s \in SUBSET (DOMAIN expr) : Inside(expr, s)
  BY DEF Untangled
<1>2. stack[k].node \in s
  BY <1>1 DEF AboveInv
<1> QED BY <1>1, <1>2 DEF Inside, Its

(* Each operand of an instruction is where the instruction reads it.       *)
LEMMA SourceIs ==
  ASSUME TypeInv, StackInv, OperandsInv, RangesInv, NEW k \in 1 .. Len(stack),
         NEW j \in 1 .. Len(stack[k].ops)
  PROVE  ValueOf(Source(stack[k], j)) = Meant(Its(stack[k]).args[j])
<1> DEFINE f == stack[k]
<1>1. OperandIs(f, j) /\ (Its(f).k \in Ranged => RangeIs(f))
  BY DEF OperandsInv, RangesInv
<1>2. f.start \in Nat /\ j \in Nat
  BY FrameIs
<1>3. ValueOf(f.ops[j]) = Meant(Its(f).args[j])
  BY <1>1 DEF OperandIs, ValueIn, ValueOf
<1>4. Its(f).k \in Ranged => f.ops[j].reg
  BY <1>1 DEF OperandIs, Ranged
<1> HIDE DEF f
<1>5. CASE Its(f).k \in Ranged
  <2>1. Source(f, j) = FromReg(f.ops[j].v)
    <3>1. argRegs[f.start + Width(f) * j] = f.ops[j].v
      BY <1>1, <1>5 DEF RangeIs, f
    <3>2. CASE Its(f).k = "lit"
      BY <3>1, <3>2 DEF Source, Width
    <3>3. CASE Its(f).k \in {"call", "do"}
      <4>1. Width(f) * j = j
        BY <1>2, <3>3 DEF Width
      <4> QED BY <3>1, <3>3, <4>1 DEF Source
    <3> QED BY <1>5, <3>2, <3>3 DEF Ranged
  <2> QED BY <1>3, <1>4, <1>5, <2>1 DEF ValueOf, FromReg, f
<1>6. CASE Its(f).k \notin Ranged
  BY <1>3, <1>6 DEF Source, Ranged, f
<1> QED BY <1>5, <1>6 DEF f

LEMMA ResultIs ==
  ASSUME TypeInv, StackInv, KeptInv, Good, OperandsInv, RangesInv,
         NEW k \in 1 .. Len(stack), Done(stack[k])
  PROVE  Result(stack[k]) = Meant(stack[k].node)
<1> DEFINE f == stack[k]
           p == Its(f)
<1>1. /\ f.node \in 1 .. Len(expr) /\ p.args \in Seq(Nat) /\ Len(f.ops) = Len(p.args)
      /\ f.ops \in Seq(Source1) /\ stack # <<>>
  BY FrameIs, EmptySeq DEF Done
<1>2. p \in Part /\ DOMAIN expr = 1 .. Len(expr) /\ p.v \in Nat
      /\ (p.k \in Unary => Len(p.args) = 1)
  BY <1>1, TableIs DEF TypeInv, Its
<1>3. Meant(f.node) = Meaning(expr, before, Eval(expr, before), f.node)
  BY <1>1, EvalIs DEF TypeInv, Meant
<1>4. p.k # "reg"
  BY DEF OperandsInv
<1>5. Base(p, env) = Base(p, before)
  <2> SUFFICES ASSUME p.k \in {"get", "index"} PROVE Read(env, p.v) = Read(before, p.v)
    BY DEF Base
  <2>1. p.v \in Reads(expr)
    BY <1>1, <1>2 DEF Reads, Its
  <2> QED BY <1>1, <2>1 DEF Good, KeptInv
<1>6. \A j \in 1 .. Len(f.ops) : ValueOf(Source(f, j)) = Meant(p.args[j])
  BY SourceIs
<1>7. DOMAIN p.args = 1 .. Len(f.ops)
  BY <1>1, LenProperties
<1>8. [j \in DOMAIN p.args |-> ValueOf(Source(f, j))]
        = [j \in DOMAIN p.args |-> Eval(expr, before)[p.args[j]]]
  BY <1>6, <1>7 DEF Meant
<1>9. p.k \in {"assign", "set", "use"} => ValueOf(f.ops[1]) = Eval(expr, before)[p.args[1]]
  <2> SUFFICES ASSUME p.k \in {"assign", "set", "use"}
               PROVE  ValueOf(f.ops[1]) = Eval(expr, before)[p.args[1]]
    OBVIOUS
  <2>0. Len(p.args) = 1
    BY <1>2 DEF Unary
  <2>1. 1 \in 1 .. Len(f.ops)
    BY <1>1, <2>0
  <2>2. Source(f, 1) = f.ops[1]
    BY DEF Source
  <2> QED BY <1>6, <2>1, <2>2 DEF Meant
<1>10. p = expr[f.node]
  BY DEF Its
<1>11. Result(f) = Meaning(expr, before, Eval(expr, before), f.node)
  <2> HIDE DEF f, p
  <2> QED BY <1>4, <1>5, <1>8, <1>9, <1>10 DEF Result, Meaning, p
<1> QED BY <1>3, <1>11

-----------------------------------------------------------------------------
LEMMA NextInside ==
  ASSUME TypeInv, StackInv, NEW s, Inside(expr, s), NEW k \in 1 .. Len(stack), ~Done(stack[k]),
         stack[k].node \in s \/ Its(stack[k]).k \in Ranged
  PROVE  Its(stack[k]).args[Len(stack[k].ops) + 1] \in s
<1> DEFINE i == stack[k].node
           n == Len(stack[k].ops) + 1
<1>1. i \in 1 .. Len(expr) /\ n \in 1 .. Len(Its(stack[k]).args) /\ Its(stack[k]).args \in Seq(Nat)
  BY FrameIs, NextIs
<1>2. i \in DOMAIN expr
  BY <1>1, TableIs DEF TypeInv
<1>3. n \in DOMAIN expr[i].args
  BY <1>1, LenProperties DEF Its
<1> QED BY <1>2, <1>3 DEF Inside, Its

LEMMA ReceivesAbove ==
  ASSUME TypeInv, StackInv, AboveInv, NEW p, NEW src, Receives(p, src)
  PROVE  AboveInv'
<1>1. /\ p \in 1 .. Len(stack) /\ src \in Source1 /\ Len(stack') = p /\ expr' = expr
      /\ \A k \in 1 .. p - 1 : stack'[k] = stack[k]
  BY DEF Receives
<1>2. stack[p] \in Frame /\ Len(stack) \in Nat
  BY <1>1, FrameIs, LenProperties DEF TypeInv
<1>3. \A k \in 1 .. p : stack'[k].node = stack[k].node /\ (Its(stack[k]))' = Its(stack[k])
  <2>1. Given(stack[p], src).node = stack[p].node
    BY <1>1, <1>2, GivenIs
  <2>2. stack'[p] = Given(stack[p], src)
    BY DEF Receives
  <2> QED BY <1>1, <1>2, <2>1, <2>2 DEF Its
<1>4. \A k \in 1 .. p : k \in 1 .. Len(stack) /\ \A j \in 1 .. k - 1 : j \in 1 .. p
  BY <1>1, <1>2
<1> QED BY <1>1, <1>3, <1>4 DEF AboveInv

LEMMA EnterAbove == ASSUME TypeInv, StackInv, AboveInv, Enter PROVE AboveInv'
<1> DEFINE m == Len(stack)
<1>1. /\ Len(stack') = m + 1 /\ m \in 1 .. Len(stack) /\ Top = stack[m] /\ ~Done(Top)
      /\ \A k \in 1 .. m : stack'[k] = stack[k]
      /\ stack'[m + 1].node = Its(Top).args[Len(Top.ops) + 1] /\ expr' = expr
  BY EnterPushes
<1>2. \A k \in 1 .. m : (Its(stack[k]))' = Its(stack[k])
  BY <1>1 DEF Its
<1> SUFFICES ASSUME NEW s \in SUBSET (DOMAIN expr), Inside(expr, s),
                    NEW k \in 1 .. m + 1, NEW j \in 1 .. k - 1, Its(stack[j])'.k \in Ranged
             PROVE  stack'[k].node \in s
  BY <1>1 DEF AboveInv
<1>3. j \in 1 .. m /\ Its(stack[j]).k \in Ranged
  BY <1>1, <1>2
<1>4. CASE k \in 1 .. m
  BY <1>1, <1>3, <1>4 DEF AboveInv
<1>5. CASE k = m + 1
  <2>1. stack[m].node \in s \/ Its(stack[m]).k \in Ranged
    <3>1. CASE j = m
      BY <1>3, <3>1
    <3>2. CASE j # m
      <4>1. j \in 1 .. m - 1
        BY <1>1, <1>3, <3>2
      <4> QED BY <1>1, <1>3, <4>1 DEF AboveInv
    <3> QED BY <3>1, <3>2
  <2> QED BY <1>1, <1>5, <2>1, NextInside
<1> QED BY <1>1, <1>4, <1>5

LEMMA ReceivesRanges ==
  ASSUME TypeInv, StackInv, AboveInv, Good, RangesInv, NEW p, NEW src, Receives(p, src)
  PROVE  RangesInv'
<1>1. /\ p \in 1 .. Len(stack) /\ src \in Source1 /\ Len(stack') = p /\ expr' = expr
      /\ stack'[p] = Given(stack[p], src) /\ argRegs' = Noted(stack[p], src.v)
      /\ ~Done(stack[p])
  BY DEF Receives
<1>2. \A k \in 1 .. p - 1 : stack'[k] = stack[k]
  BY DEF Receives
<1>3. /\ stack[p] \in Frame /\ Len(stack[p].ops) \in Nat /\ stack[p].start \in Nat
      /\ Len(stack) \in Nat /\ argRegs \in Seq(Nat) /\ src.v \in Nat
  BY <1>1, FrameIs, LenProperties DEF TypeInv, Source1
<1>4. Its(stack[p])' = Its(stack[p])
  BY <1>1, <1>3, GivenIs DEF Its
<1>5. ASSUME NEW k \in 1 .. p, Its(stack[k])'.k \in Ranged PROVE RangeIs(stack[k])'
  <2>1. CASE k # p
    <3>1. k \in 1 .. p - 1 /\ stack'[k] = stack[k] /\ k \in 1 .. Len(stack)
      BY <1>1, <1>2, <1>3, <2>1
    <3>2. Its(stack[k])' = Its(stack[k])
      BY <1>1, <3>1 DEF Its
    <3>3. Its(stack[p]).k \notin Ranged
      BY <1>1, <1>5, <3>1, <3>2, OneRange DEF Good
    <3>4. argRegs' = argRegs
      BY <1>1, <1>3, <3>3, NotedIs
    <3>5. RangeIs(stack[k])
      BY <1>5, <3>1, <3>2 DEF RangesInv
    <3> QED BY <3>1, <3>2, <3>4, <3>5 DEF RangeIs, Width
  <2>2. CASE k = p
    <3> DEFINE f == stack[p]
               g == Given(f, src)
               w == Width(f)
               n == Len(f.ops)
    <3>1. Its(f).k \in Ranged /\ RangeIs(f)
      BY <1>1, <1>4, <1>5, <2>2 DEF RangesInv
    <3>2. /\ g.start = f.start /\ Len(g.ops) = n + 1 /\ g.ops[n + 1] = src
          /\ \A j \in 1 .. n : g.ops[j] = f.ops[j]
      BY <1>1, <1>3, GivenIs
    <3>3. w \in {1, 2} /\ Width(f)' = w
      BY <1>4, <2>2 DEF Width
    <3>4. Len(argRegs) = f.start + w * n /\ \A j \in 1 .. n : argRegs[f.start + w * j] = f.ops[j].v
      BY <3>1 DEF RangeIs
    <3>5. /\ Len(argRegs') = Len(argRegs) + w /\ argRegs'[Len(argRegs) + w] = src.v
          /\ \A j \in 1 .. Len(argRegs) : argRegs'[j] = argRegs[j]
      <4>1. Its(f).k = "lit" \/ Its(f).k \in {"call", "do"}
        BY <3>1 DEF Ranged
      <4>2. argRegs' = Noted(f, src.v) /\ src.v \in Nat /\ argRegs \in Seq(Nat)
        BY <1>1, <1>3
      <4>3. CASE Its(f).k = "lit"
        <5>1. w = 2
          BY <4>3 DEF Width
        <5> HIDE DEF w, f
        <5> QED BY <4>2, <4>3, <5>1, NotedIs
      <4>4. CASE Its(f).k \in {"call", "do"}
        <5>1. w = 1
          BY <4>4 DEF Width
        <5> HIDE DEF w, f
        <5> QED BY <4>2, <4>4, <5>1, NotedIs
      <4> QED BY <4>1, <4>3, <4>4
    <3> HIDE DEF w, n, g
    <3>6. n \in Nat /\ f.start \in Nat
      BY <1>3 DEF n
    <3>7. f.start + w * n + w = f.start + w * (n + 1)
      BY <3>3, <3>6
    <3>8. \A j \in 1 .. n : f.start + w * j \in 1 .. f.start + w * n
      BY <3>3, <3>6
    <3>9. ASSUME NEW j \in 1 .. n + 1 PROVE argRegs'[f.start + w * j] = g.ops[j].v
      <4>1. CASE j = n + 1
        BY <3>2, <3>4, <3>5, <3>7, <4>1
      <4>2. CASE j # n + 1
        <5>1. j \in 1 .. n
          BY <3>6, <4>2
        <5> QED BY <3>2, <3>4, <3>5, <3>8, <5>1
      <4> QED BY <4>1, <4>2
    <3>10. Len(argRegs') = f.start + w * (n + 1)
      BY <3>4, <3>5, <3>7
    <3>11. stack'[k] = g
      BY <1>1, <2>2 DEF g
    <3> QED BY <2>2, <3>2, <3>3, <3>9, <3>10, <3>11 DEF RangeIs
  <2> QED BY <2>1, <2>2
<1> QED BY <1>1, <1>5 DEF RangesInv

LEMMA EnterRanges ==
  ASSUME TypeInv, StackInv, RangesInv, Enter
  PROVE  RangesInv'
<1> DEFINE m == Len(stack)
<1>1. /\ Len(stack') = m + 1 /\ m \in 1 .. Len(stack)
      /\ \A k \in 1 .. m : stack'[k] = stack[k]
      /\ stack'[m + 1].ops = <<>> /\ stack'[m + 1].start = Len(argRegs)
      /\ expr' = expr /\ argRegs' = argRegs
  BY EnterPushes
<1>2. ASSUME NEW k \in 1 .. m + 1, Its(stack[k])'.k \in Ranged PROVE RangeIs(stack[k])'
  <2>1. CASE k \in 1 .. m
    <3>1. Its(stack[k])' = Its(stack[k])
      BY <1>1, <2>1 DEF Its
    <3>2. RangeIs(stack[k])
      BY <1>1, <1>2, <2>1, <3>1 DEF RangesInv
    <3> QED BY <1>1, <2>1, <3>1, <3>2 DEF RangeIs, Width
  <2>2. CASE k = m + 1
    <3>1. Len(stack'[k].ops) = 0 /\ Len(argRegs) \in Nat
      BY <1>1, <2>2, LenProperties DEF TypeInv
    <3>2. Width(stack[k])' \in {1, 2}
      BY DEF Width
    <3>3. Len(argRegs') = stack'[k].start + Width(stack[k])' * 0
      BY <1>1, <2>2, <3>1, <3>2
    <3> QED BY <3>1, <3>3 DEF RangeIs
  <2> QED BY <1>1, <2>1, <2>2
<1> QED BY <1>1, <1>2 DEF RangesInv

(* The operands of frame p and below are still right, and the new one is.  *)
StillRight(p) ==
  \A k \in 1 .. p : \A j \in 1 .. Len(stack[k].ops) :
    ValueIn(env', stack[k].ops[j]) = ValueIn(env, stack[k].ops[j])

NewRight(f, src) ==
  /\ ValueIn(env', src) = Meant(Its(f).args[Len(f.ops) + 1])
  /\ src.reg => src.v < scratch \/ src.v = Place(f, Len(f.ops) + 1)
  /\ ~src.reg => Its(f).k = "bin"

LEMMA ReceivesOperands ==
  ASSUME TypeInv, StackInv, OperandsInv, NEW p, NEW src, Receives(p, src),
         StillRight(p), NewRight(stack[p], src)
  PROVE  OperandsInv'
<1>1. /\ p \in 1 .. Len(stack) /\ src \in Source1 /\ Len(stack') = p
      /\ stack'[p] = Given(stack[p], src)
      /\ expr' = expr /\ scratch' = scratch /\ before' = before
  BY DEF Receives
<1>2. \A k \in 1 .. p - 1 : stack'[k] = stack[k]
  BY DEF Receives
<1>3. stack[p] \in Frame /\ Len(stack) \in Nat /\ Len(stack[p].ops) \in Nat
  BY <1>1, FrameIs, LenProperties DEF TypeInv
<1>4. \A i : Meant(i)' = Meant(i)
  BY <1>1 DEF Meant
<1>5. ASSUME NEW k \in 1 .. p
      PROVE  Its(stack[k])'.k # "reg" /\ \A j \in 1 .. Len(stack'[k].ops) : OperandIs(stack[k], j)'
  <2>1. k \in 1 .. Len(stack) /\ Its(stack[k]).k # "reg"
        /\ \A j \in 1 .. Len(stack[k].ops) : OperandIs(stack[k], j)
    BY <1>1, <1>3 DEF OperandsInv
  <2>2. CASE k # p
    <3>1. k \in 1 .. p - 1 /\ stack'[k] = stack[k]
      BY <1>1, <1>2, <1>3, <2>2
    <3>2. Its(stack[k])' = Its(stack[k])
      BY <1>1, <3>1 DEF Its
    <3>3. \A j : Place(stack[k], j)' = Place(stack[k], j)
      BY <3>1, <3>2 DEF Place
    <3>4. \A j \in 1 .. Len(stack[k].ops) :
            ValueIn(env', stack[k].ops[j]) = ValueIn(env, stack[k].ops[j])
      BY DEF StillRight
    <3> QED BY <1>1, <1>4, <2>1, <3>1, <3>2, <3>3, <3>4 DEF OperandIs
  <2>3. CASE k = p
    <3> DEFINE f == stack[p]
               g == Given(f, src)
               n == Len(f.ops)
    <3>1. stack'[k] = g /\ g.node = f.node /\ Len(g.ops) = n + 1 /\ g.ops[n + 1] = src
          /\ \A j \in 1 .. n : g.ops[j] = f.ops[j]
      BY <1>1, <1>3, <2>3, GivenIs
    <3>2. Its(stack[k])' = Its(f)
      BY <1>1, <3>1 DEF Its
    <3>3. \A j \in 1 .. n + 1 : Place(stack[k], j)' = Place(f, j)
      <4>1. \A j \in 1 .. n + 1 : Place(g, j) = Place(f, j)
        BY <1>1, <1>3, PlaceGiven
      <4>2. Its(g) = Its(f)
        BY <3>1 DEF Its
      <4>3. \A j : Place(stack[k], j)' = Place(g, j)
        BY <3>1, <3>2, <4>2 DEF Place
      <4> QED BY <4>1, <4>3
    <3>4. \A j \in 1 .. n : ValueIn(env', f.ops[j]) = ValueIn(env, f.ops[j])
      BY <1>1 DEF StillRight
    <3>5. \A j \in 1 .. n : OperandIs(f, j)
      BY <2>1, <2>3
    <3>6. /\ ValueIn(env', src) = Meant(Its(f).args[n + 1])
          /\ src.reg => src.v < scratch \/ src.v = Place(f, n + 1)
          /\ ~src.reg => Its(f).k = "bin"
      BY DEF NewRight
    <3> HIDE DEF g, f, n
    <3>7. n \in Nat
      BY <1>3 DEF n, f
    <3>8. ASSUME NEW j \in 1 .. n + 1 PROVE OperandIs(stack[k], j)'
      <4>1. CASE j = n + 1
        BY <1>1, <1>4, <3>1, <3>2, <3>3, <3>6, <4>1 DEF OperandIs
      <4>2. CASE j # n + 1
        <5>1. j \in 1 .. n
          BY <3>7, <4>2
        <5> QED BY <1>1, <1>4, <3>1, <3>2, <3>3, <3>4, <3>5, <5>1 DEF OperandIs
      <4> QED BY <4>1, <4>2
    <3>9. Its(stack[k])'.k # "reg"
      BY <2>1, <2>3, <3>2 DEF f
    <3> QED BY <3>1, <3>8, <3>9
  <2> QED BY <2>2, <2>3
<1> QED BY <1>1, <1>5 DEF OperandsInv

LEMMA EnterOperands ==
  ASSUME TypeInv, StackInv, OperandsInv, Enter
  PROVE  OperandsInv'
<1> DEFINE m == Len(stack)
<1>1. /\ Len(stack') = m + 1 /\ m \in 1 .. Len(stack) /\ Top = stack[m]
      /\ \A k \in 1 .. m : stack'[k] = stack[k]
      /\ stack'[m + 1].ops = <<>>
      /\ stack'[m + 1].node = Its(Top).args[Len(Top.ops) + 1]
      /\ UNCHANGED <<env, expr, scratch, before>>
  BY EnterPushes
<1>2. \A i : Meant(i)' = Meant(i)
  BY <1>1 DEF Meant
<1>3. ASSUME NEW k \in 1 .. m + 1
      PROVE  Its(stack[k])'.k # "reg" /\ \A j \in 1 .. Len(stack'[k].ops) : OperandIs(stack[k], j)'
  <2>1. CASE k \in 1 .. m
    <3>1. stack'[k] = stack[k] /\ Its(stack[k])' = Its(stack[k])
      BY <1>1, <2>1 DEF Its
    <3>2. \A j : Place(stack[k], j)' = Place(stack[k], j)
      BY <3>1 DEF Place
    <3>3. Its(stack[k]).k # "reg" /\ \A j \in 1 .. Len(stack[k].ops) : OperandIs(stack[k], j)
      BY <2>1 DEF OperandsInv
    <3> QED BY <1>1, <1>2, <3>1, <3>2, <3>3 DEF OperandIs
  <2>2. CASE k = m + 1
    <3>1. ~Immediate(Top)
      BY DEF Enter
    <3>2. Its(stack[k])' = NextPart(Top)
      BY <1>1, <2>2 DEF Its, NextPart
    <3>3. Len(stack'[k].ops) = 0
      BY <1>1, <2>2
    <3> QED BY <3>1, <3>2, <3>3 DEF Immediate
  <2> QED BY <1>1, <2>1, <2>2
<1> QED BY <1>1, <1>3 DEF OperandsInv

LEMMA StartValues == ASSUME TypeInv, Start PROVE ValueInv'
<1>1. PICK e, s : Begin(e, s) /\ e[Len(e)].k \in Statements
  BY StartBegins
<1> DEFINE f == [node |-> Len(e), dst |-> s, ops |-> <<>>, start |-> 0]
<1>2. /\ expr' = e /\ stack' = <<f>> /\ argRegs' = <<>> /\ got' = <<>>
      /\ env' = env /\ before' = env
  BY <1>1 DEF Begin
<1>3. /\ Len(stack') = 1 /\ Its(stack[1])' = e[Len(e)]
      /\ stack'[1].ops = <<>> /\ stack'[1].start = 0
  BY <1>2 DEF Its
<1> HIDE DEF f
<1>4. KeptInv'
  BY <1>2 DEF KeptInv
<1>5. AboveInv'
  BY <1>3 DEF AboveInv
<1>6. OperandsInv'
  BY <1>1, <1>3 DEF OperandsInv, Statements
<1>7. RangesInv'
  <2>1. Width(stack[1])' \in {1, 2} /\ Len(argRegs') = 0 /\ Len(stack'[1].ops) = 0
    BY <1>2, <1>3 DEF Width
  <2>2. Len(argRegs') = stack'[1].start + Width(stack[1])' * 0
    BY <1>3, <2>1
  <2>3. RangeIs(stack[1])'
    BY <2>1, <2>2 DEF RangeIs
  <2>4. \A k \in 1 .. Len(stack') : k = 1
    BY <1>3
  <2> QED BY <2>3, <2>4 DEF RangesInv
<1>8. ValueRight'
  BY <1>2 DEF ValueRight
<1> QED BY <1>4, <1>5, <1>6, <1>7, <1>8 DEF ValueInv

LEMMA TakeValues == ASSUME TypeInv, StackInv, ValueInv, Take PROVE ValueInv'
<1> DEFINE q == NextPart(Top)
           src == IF q.k = "reg" THEN FromReg(q.v) ELSE FromPool(q.v)
           p == Len(stack)
<1>1. /\ Receives(p, src) /\ UNCHANGED <<env, maxReg>>
      /\ q.k = "reg" \/ (q.k = "int" /\ Its(Top).k = "bin")
  BY TakeReceives
<1>2. /\ p \in 1 .. Len(stack) /\ ~Done(stack[p])
      /\ UNCHANGED <<expr, scratch, before, got>>
  BY <1>1 DEF Receives
<1>3. Top = stack[p] /\ stack # <<>>
  BY DEF Top, Take
<1>4. KeptInv'
  BY <1>1, <1>2, <1>3 DEF KeptInv, ValueInv
<1>5. AboveInv'
  BY <1>1, ReceivesAbove DEF ValueInv
<1>6. ValueRight' /\ (Good' <=> Good)
  BY <1>2 DEF ValueRight, ValueInv, Good
<1>7. ASSUME Good PROVE OperandsInv' /\ RangesInv'
  <2>1. OperandsInv /\ RangesInv /\ AboveInv
    BY <1>7 DEF ValueInv
  <2>2. RangesInv'
    BY <1>1, <1>7, <2>1, ReceivesRanges
  <2>3. StillRight(p)
    BY <1>1 DEF StillRight
  <2>4. NewRight(stack[p], src)
    <3> DEFINE i == Its(Top).args[Len(Top.ops) + 1]
    <3>1. i \in 1 .. Len(expr) /\ q = expr[i] /\ q.v \in Nat
      BY <1>2, <1>3, NextIs DEF NextPart
    <3>2. Meant(i) = Meaning(expr, before, Eval(expr, before), i)
      BY <3>1, EvalIs DEF Meant, TypeInv
    <3>3. q.k = "reg" => Meant(i) = Read(before, q.v)
      BY <3>1, <3>2 DEF Meaning
    <3>4. q.k = "int" => Meant(i) = q.v
      BY <3>1, <3>2 DEF Meaning
    <3>5. q.k = "reg" => q.v \in 0 .. scratch - 1
      <4>1. i \in DOMAIN expr
        BY <3>1, TableIs DEF TypeInv
      <4> QED BY <1>7, <3>1, <4>1 DEF Good, Reads
    <3>6. \A r \in 0 .. scratch - 1 : Read(env, r) = Read(before, r)
      BY <1>3 DEF ValueInv, KeptInv
    <3>7. scratch \in Nat
      BY DEF TypeInv
    <3> HIDE DEF q, i
    <3>8. CASE q.k = "reg"
      <4>1. src.reg /\ src.v = q.v
        BY <3>8 DEF FromReg
      <4>2. Read(env', q.v) = Meant(i) /\ q.v < scratch
        BY <1>1, <3>3, <3>5, <3>6, <3>7, <3>8
      <4> HIDE DEF src
      <4> QED BY <1>3, <4>1, <4>2 DEF NewRight, ValueIn, i
    <3>9. CASE q.k # "reg"
      <4>1. ~src.reg /\ src.v = q.v /\ Its(Top).k = "bin" /\ Meant(i) = q.v
        BY <1>1, <3>4, <3>9 DEF FromPool
      <4> HIDE DEF src
      <4> QED BY <1>3, <4>1 DEF NewRight, ValueIn, i
    <3> QED BY <3>8, <3>9
  <2> HIDE DEF src
  <2>5. OperandsInv'
    BY <1>1, <2>1, <2>3, <2>4, ReceivesOperands
  <2> QED BY <2>2, <2>5
<1> QED BY <1>4, <1>5, <1>6, <1>7 DEF ValueInv

LEMMA EnterValues == ASSUME TypeInv, StackInv, ValueInv, Enter PROVE ValueInv'
<1>1. UNCHANGED <<env, expr, scratch, before, got>> /\ stack # <<>>
  BY DEF Enter
<1>2. KeptInv' /\ ValueRight' /\ (Good' <=> Good)
  BY <1>1 DEF KeptInv, ValueRight, Good, ValueInv
<1>3. AboveInv'
  BY EnterAbove DEF ValueInv
<1>4. Good => OperandsInv' /\ RangesInv'
  BY EnterOperands, EnterRanges DEF ValueInv
<1> QED BY <1>2, <1>3, <1>4 DEF ValueInv

LEMMA EmitValues == ASSUME TypeInv, StackInv, ValueInv, Emit PROVE ValueInv'
<1> DEFINE m == Len(stack)
           p == m - 1
           r == Top.dst
           src == FromReg(r)
<1>1. /\ Receives(p, src) /\ env' = Put(r, Result(Top))
      /\ m \in 2 .. Len(stack) /\ Top = stack[m] /\ Done(Top) /\ r \in Nat /\ r >= scratch
  BY EmitReceives
<1>2. /\ p \in 1 .. Len(stack) /\ ~Done(stack[p])
      /\ UNCHANGED <<expr, scratch, before, got>>
  BY <1>1 DEF Receives
<1>3. scratch \in Nat /\ Len(stack) \in Nat /\ stack # <<>> /\ m \in 1 .. Len(stack) /\ m - 1 = p
  BY <1>1, LenProperties, EmptySeq DEF TypeInv
<1>4. \A i \in Nat : Read(env', i) = IF i = r THEN Result(Top) ELSE Read(env, i)
  <2> DEFINE v == Result(Top)
  <2>1. env' = Put(r, v) /\ r \in Nat
    BY <1>1
  <2> HIDE DEF r, v
  <2>2. \A i \in Nat : Read(Put(r, v), i) = IF i = r THEN v ELSE Read(env, i)
    BY <2>1, PutIs
  <2> QED BY <2>1, <2>2 DEF v
<1>5. KeptInv'
  <2>1. \A i \in 0 .. scratch - 1 : i \in Nat /\ i # r
    BY <1>1, <1>3
  <2>2. \A i \in 0 .. scratch - 1 : Read(env, i) = Read(before, i)
    BY <1>3 DEF ValueInv, KeptInv
  <2>3. \A i \in 0 .. scratch - 1 : Read(env', i) = Read(before, i)
    BY <1>4, <2>1, <2>2
  <2> QED BY <1>2, <2>3 DEF KeptInv
<1>6. AboveInv'
  BY <1>1, ReceivesAbove DEF ValueInv
<1>7. ValueRight' /\ (Good' <=> Good)
  BY <1>2 DEF ValueRight, ValueInv, Good
<1>8. ASSUME Good PROVE OperandsInv' /\ RangesInv'
  <2>1. OperandsInv /\ RangesInv /\ AboveInv /\ KeptInv
    BY <1>8 DEF ValueInv
  <2>2. RangesInv'
    BY <1>1, <1>8, <2>1, ReceivesRanges
  <2>3. StillRight(p)
    <3> SUFFICES ASSUME NEW k \in 1 .. p, NEW j \in 1 .. Len(stack[k].ops)
                 PROVE  ValueIn(env', stack[k].ops[j]) = ValueIn(env, stack[k].ops[j])
      BY DEF StillRight
    <3>1. stack[k].ops[j].reg => stack[k].ops[j].v \in Nat /\ stack[k].ops[j].v < r
      BY <1>1, <2>1, OperandSafe
    <3>2. stack[k].ops[j].reg => stack[k].ops[j].v # r
      BY <1>1, <3>1
    <3> QED BY <1>4, <3>1, <3>2 DEF ValueIn
  <2>4. NewRight(stack[p], src)
    <3>1. m \in 2 .. Len(stack)
      BY <1>1
    <3>2. /\ stack[m].node = Its(stack[p]).args[Len(stack[p].ops) + 1]
          /\ stack[m].dst = Place(stack[p], Len(stack[p].ops) + 1)
      BY <1>3, <3>1 DEF StackInv
    <3>3. Result(Top) = Meant(stack[m].node)
      BY <1>1, <1>3, <1>8, <2>1, ResultIs
    <3>4. Read(env', r) = Result(Top)
      BY <1>1, <1>4
    <3>5. src.reg /\ src.v = r
      BY DEF FromReg
    <3> HIDE DEF src
    <3> QED BY <1>1, <3>2, <3>3, <3>4, <3>5 DEF NewRight, ValueIn
  <2> HIDE DEF src
  <2>5. OperandsInv'
    BY <1>1, <2>1, <2>3, <2>4, ReceivesOperands
  <2> QED BY <2>2, <2>5
<1> QED BY <1>5, <1>6, <1>7, <1>8 DEF ValueInv

LEMMA FinishValues == ASSUME TypeInv, StackInv, ValueInv, Finish PROVE ValueInv'
<1>1. /\ Len(stack) = 1 /\ Top = stack[1] /\ Done(Top) /\ Top.node = Len(expr)
      /\ got' = <<Result(Top)>> /\ stack' = <<>> /\ UNCHANGED <<expr, scratch, before>>
  BY FinishEnds
<1>2. Good => Result(Top) = Meant(Len(expr))
  BY <1>1, ResultIs DEF ValueInv
<1>3. ValueRight'
  BY <1>1, <1>2 DEF ValueRight, Good, Meant
<1>4. \A k \in 1 .. Len(stack') : FALSE
  BY <1>1
<1> QED BY <1>1, <1>3, <1>4 DEF ValueInv, KeptInv, AboveInv, OperandsInv, RangesInv

LEMMA ValueKept == ASSUME TypeInv, StackInv, ValueInv, [Next]_vars PROVE ValueInv'
<1>1. CASE UNCHANGED vars
  <2>1. UNCHANGED <<env, expr, stack, argRegs, scratch, before, got>>
    BY <1>1 DEF vars
  <2>2. KeptInv' /\ AboveInv' /\ ValueRight' /\ (Good' <=> Good)
    BY <2>1 DEF ValueInv, KeptInv, AboveInv, ValueRight, Good, Its
  <2>3. OperandsInv => OperandsInv'
    <3>1. ASSUME NEW f, NEW j PROVE OperandIs(f, j)' <=> OperandIs(f, j)
      BY <2>1 DEF OperandIs, Meant, Its, Place
    <3> QED BY <2>1, <3>1 DEF OperandsInv, Its
  <2>4. RangesInv => RangesInv'
    BY <2>1 DEF RangesInv, RangeIs, Width, Its
  <2> QED BY <2>2, <2>3, <2>4 DEF ValueInv
<1> QED BY <1>1, StartValues, TakeValues, EnterValues, EmitValues, FinishValues DEF Next

(* ValueRight: the statement gets the value its expression means when the  *)
(* expression reads no register from its scratch register up and has no    *)
(* call, spawn or struct literal among the arguments of another.           *)
THEOREM ValueAlwaysRight == Spec => []ValueRight
<1>1. Init => ValueInv
  <2> SUFFICES ASSUME Init PROVE ValueInv
    OBVIOUS
  <2>1. stack = <<>> /\ got = <<>> /\ \A k \in 1 .. Len(stack) : FALSE
    BY DEF Init
  <2> QED BY <2>1 DEF ValueInv, KeptInv, AboveInv, OperandsInv, RangesInv, ValueRight
<1>2. TypeInv /\ StackInv /\ ValueInv /\ [Next]_vars => ValueInv'
  BY ValueKept
<1>3. ValueInv => ValueRight
  BY DEF ValueInv
<1> QED BY <1>1, <1>2, <1>3, AlwaysTyped, PTL DEF Spec

=============================================================================
