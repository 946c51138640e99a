--------------------------- MODULE SimdLoopProofs ---------------------------
(***************************************************************************)
(* Proof that a SimdLoop is the while statement it replaces, for words of  *)
(* any size, any number of registers and bodies of any length.             *)
(***************************************************************************)
EXTENDS SimdLoop, SequenceTheorems, WellFoundedInduction, TLAPS

-----------------------------------------------------------------------------
(* Induction over an interval, stated with the set of the good numbers.    *)
LEMMA IntervalInduction ==
  ASSUME NEW n \in Nat, NEW Good, 0 \in Good,
         \A k \in 1 .. n : k - 1 \in Good => k \in Good
  PROVE  0 .. n \subseteq Good
<1> DEFINE Bad == {k \in 0 .. n : k \notin Good}
<1> SUFFICES ASSUME Bad # {} PROVE FALSE
  OBVIOUS
<1>1. Bad \subseteq Nat
  OBVIOUS
<1>2. PICK m \in Bad : \A k \in Bad : ~(<<k, m>> \in OpToRel(<, Nat))
  BY <1>1, WFMin, NatLessThanWellFounded
<1>3. m \in 1 .. n
  OBVIOUS
<1>4. m - 1 \notin Bad
  <2>1. m - 1 \in Nat /\ m \in Nat /\ m - 1 < m
    BY <1>3
  <2>2. <<m - 1, m>> \in OpToRel(<, Nat)
    BY <2>1 DEF OpToRel
  <2> QED BY <1>2, <2>2
<1>5. m - 1 \in Good
  BY <1>3, <1>4
<1> QED BY <1>3, <1>5

(* g carries the value x of S through n steps of F.                        *)
Carries(g, n, S, x, F) ==
  /\ g \in [0 .. n -> S]
  /\ g[0] = x
  /\ \A k \in 1 .. n : g[k] = F[k][g[k - 1]]

LEMMA Iterates ==
  ASSUME NEW n \in Nat, NEW S, NEW x \in S, NEW F \in [1 .. n -> [S -> S]]
  PROVE  \E g : Carries(g, n, S, x, F)
<1> DEFINE Good == {m \in 0 .. n : \E g : Carries(g, m, S, x, F)}
<1>1. 0 \in Good
  <2> DEFINE g == [k \in 0 .. 0 |-> x]
  <2>1. g \in [0 .. 0 -> S] /\ g[0] = x /\ 0 \in 0 .. n
    OBVIOUS
  <2>2. \A k \in 1 .. 0 : FALSE
    OBVIOUS
  <2>3. Carries(g, 0, S, x, F)
    BY <2>1, <2>2 DEF Carries
  <2> QED BY <2>1, <2>3
<1>2. ASSUME NEW m \in 1 .. n, m - 1 \in Good PROVE m \in Good
  <2>1. PICK g : Carries(g, m - 1, S, x, F)
    BY <1>2
  <2>2. /\ g \in [0 .. m - 1 -> S] /\ g[0] = x
        /\ \A k \in 1 .. m - 1 : g[k] = F[k][g[k - 1]]
    BY <2>1 DEF Carries
  <2> DEFINE last == F[m][g[m - 1]]
             h == [k \in 0 .. m |-> IF k = m THEN last ELSE g[k]]
  <2>3. last \in S
    <3>1. m - 1 \in 0 .. m - 1
      OBVIOUS
    <3>2. g[m - 1] \in S
      BY <2>2, <3>1
    <3> QED BY <3>2
  <2>4. h \in [0 .. m -> S] /\ h[m] = last /\ \A k \in 0 .. m - 1 : h[k] = g[k]
    <3> HIDE DEF last
    <3> QED BY <2>2, <2>3
  <2> HIDE DEF h
  <2>5. ASSUME NEW k \in 1 .. m PROVE h[k] = F[k][h[k - 1]]
    <3>1. k - 1 \in 0 .. m - 1
      OBVIOUS
    <3>2. h[k - 1] = g[k - 1]
      BY <2>4, <3>1
    <3>3. CASE k = m
      BY <2>4, <3>2, <3>3
    <3>4. CASE k # m
      <4>1. k \in 1 .. m - 1 /\ k \in 0 .. m - 1
        BY <3>4
      <4> QED BY <2>2, <2>4, <3>2, <4>1
    <3> QED BY <3>3, <3>4
  <2>6. h[0] = x
    BY <2>2, <2>4
  <2>7. Carries(h, m, S, x, F)
    BY <2>4, <2>5, <2>6 DEF Carries
  <2> QED BY <2>7
<1>3. 0 .. n \subseteq Good
  <2> HIDE DEF Good
  <2> QED BY <1>1, <1>2, IntervalInduction
<1> QED BY <1>3

-----------------------------------------------------------------------------
(* Arithmetic on words.  Results that differ by a multiple of the modulus *)
(* are wrapped to the same word.                                           *)
Modulus == 2 * (WordMax + 1)

LEMMA Multiples ==
  ASSUME NEW m \in Nat, NEW q \in Int, q # 0
  PROVE  q * m >= m \/ q * m <= -m
<1>1. CASE q >= 1
  <2>1. PICK p \in Nat : q = p + 1
    <3>1. q - 1 \in Nat /\ q = (q - 1) + 1
      BY <1>1
    <3> QED BY <3>1
  <2>2. p * m \in Nat /\ (p + 1) * m = p * m + m
    OBVIOUS
  <2> QED BY <2>1, <2>2
<1>2. CASE q <= -1
  <2>1. PICK p \in Nat : q = -p - 1
    <3>1. -q - 1 \in Nat /\ q = -(-q - 1) - 1
      BY <1>2
    <3> QED BY <3>1
  <2>2. p * m \in Nat /\ (-p - 1) * m = -(p * m) - m
    OBVIOUS
  <2> QED BY <2>1, <2>2
<1> QED BY <1>1, <1>2

LEMMA WrapIs ==
  ASSUME NEW n \in Int
  PROVE  Wrap(n) \in Word /\ \E q \in Int : Wrap(n) = n + q * Modulus
<1>1. WordMax \in Nat /\ Modulus \in Nat /\ Modulus > 0 /\ WordMin = -WordMax - 1
  BY LoopCodeAssumption DEF Modulus, WordMin
<1> DEFINE a == n - WordMin
<1>2. a \in Int
  BY <1>1
<1> HIDE DEF a
<1> DEFINE q == a \div Modulus
           r == a % Modulus
<1>3. q \in Int /\ r \in 0 .. Modulus - 1 /\ a = q * Modulus + r
  <2> HIDE DEF Modulus
  <2> QED BY <1>1, <1>2
<1>4. Wrap(n) = r + WordMin
  BY DEF Wrap, Modulus, a
<1> HIDE DEF q, r
<1>5. Wrap(n) \in Word
  BY <1>1, <1>3, <1>4 DEF Word, Modulus
<1>6. Wrap(n) = n + (-q) * Modulus
  <2> HIDE DEF Modulus
  <2>1. q * Modulus \in Int /\ (-q) * Modulus = -(q * Modulus)
    BY <1>1, <1>3
  <2> QED BY <1>1, <1>3, <1>4, <2>1 DEF a
<1>7. -q \in Int
  BY <1>3
<1> QED BY <1>5, <1>6, <1>7

LEMMA WrapUnique ==
  ASSUME NEW n \in Int, NEW w \in Word, NEW q \in Int, w = n + q * Modulus
  PROVE  Wrap(n) = w
<1>1. WordMax \in Nat /\ Modulus \in Nat /\ Modulus > 0 /\ WordMin = -WordMax - 1
      /\ Modulus = WordMax + WordMax + 2 /\ w \in Int
  BY LoopCodeAssumption DEF Modulus, WordMin, Word
<1>2. PICK p \in Int : Wrap(n) = n + p * Modulus
  BY WrapIs
<1>3. Wrap(n) \in Word /\ Wrap(n) \in Int
  BY <1>1, WrapIs DEF Word
<1> HIDE DEF Modulus
<1>4. q - p \in Int /\ (q - p) * Modulus = q * Modulus - p * Modulus
  BY <1>1
<1>5. q * Modulus \in Int /\ p * Modulus \in Int
  BY <1>1
<1>6. w - Wrap(n) = (q - p) * Modulus
  BY <1>1, <1>2, <1>3, <1>4, <1>5
<1>7. CASE q - p # 0
  <2>1. (q - p) * Modulus >= Modulus \/ (q - p) * Modulus <= -Modulus
    BY <1>1, <1>4, <1>7, Multiples
  <2> QED BY <1>1, <1>3, <1>6, <2>1 DEF Word
<1>8. CASE q - p = 0
  BY <1>1, <1>3, <1>6, <1>8
<1> QED BY <1>7, <1>8

LEMMA WrapWord == ASSUME NEW w \in Word PROVE Wrap(w) = w
<1>1. w \in Int /\ 0 \in Int /\ Modulus \in Int
  BY LoopCodeAssumption DEF Word, WordMin, Modulus
<1>2. w = w + 0 * Modulus
  BY <1>1
<1> QED BY <1>1, <1>2, WrapUnique

LEMMA WrapPlus ==
  ASSUME NEW a \in Int, NEW b \in Int
  PROVE  /\ Wrap(Wrap(a) + b) = Wrap(a + b)
         /\ Wrap(a + Wrap(b)) = Wrap(a + b)
         /\ Wrap(a - Wrap(b)) = Wrap(a - b)
<1>1. WordMax \in Nat /\ Modulus \in Nat /\ Word \subseteq Int
  BY LoopCodeAssumption DEF Modulus, WordMin, Word
<1> HIDE DEF Modulus
<1>2. ASSUME NEW m \in Int, NEW n \in Int, NEW q \in Int, m = n + q * Modulus
      PROVE  Wrap(m) = Wrap(n)
  <2>1. PICK p \in Int : Wrap(m) = m + p * Modulus
    BY WrapIs
  <2>2. q * Modulus \in Int /\ p * Modulus \in Int /\ (q + p) * Modulus = q * Modulus + p * Modulus
    BY <1>1
  <2>3. Wrap(m) = n + (q + p) * Modulus /\ q + p \in Int
    BY <1>2, <2>1, <2>2
  <2> QED BY <2>3, WrapIs, WrapUnique
<1>3. PICK p \in Int : Wrap(a) = a + p * Modulus
  BY WrapIs
<1>4. PICK q \in Int : Wrap(b) = b + q * Modulus
  BY WrapIs
<1>5. p * Modulus \in Int /\ q * Modulus \in Int /\ (-q) * Modulus = -(q * Modulus) /\ -q \in Int
  BY <1>1
<1>6. Wrap(Wrap(a) + b) = Wrap(a + b)
  <2>1. Wrap(a) + b = (a + b) + p * Modulus /\ Wrap(a) + b \in Int /\ a + b \in Int
    BY <1>3, <1>5
  <2> QED BY <1>2, <2>1
<1>7. Wrap(a + Wrap(b)) = Wrap(a + b)
  <2>1. a + Wrap(b) = (a + b) + q * Modulus /\ a + Wrap(b) \in Int /\ a + b \in Int
    BY <1>4, <1>5
  <2> QED BY <1>2, <2>1
<1>8. Wrap(a - Wrap(b)) = Wrap(a - b)
  <2>1. a - Wrap(b) = (a - b) + (-q) * Modulus /\ a - Wrap(b) \in Int /\ a - b \in Int
    BY <1>4, <1>5
  <2> QED BY <1>2, <1>5, <2>1
<1> QED BY <1>6, <1>7, <1>8
-----------------------------------------------------------------------------
(* What one instruction does to a frame.                                   *)
LEMMA WordIs ==
  /\ WordMax \in Nat /\ WordMax >= 1 /\ WordMin = -WordMax - 1
  /\ Word \subseteq Int /\ 0 \in Word /\ 1 \in Word /\ Other \notin Word
BY LoopCodeAssumption DEF Word, WordMin

LEMMA ArithWord ==
  ASSUME NEW op \in Arithmetic, NEW a \in Word, NEW b \in Word
  PROVE  Arith(op, a, b) \in Word
<1>1. a \in Int /\ b \in Int
  BY WordIs
<1>2. CASE op = "div" /\ b # 0
  <2>1. Magnitude(a) \in Nat /\ Magnitude(b) \in Nat \ {0}
    BY <1>1, <1>2 DEF Magnitude
  <2>2. Magnitude(a) \div Magnitude(b) \in Int
    BY <2>1
  <2>3. Quotient(a, b) \in Int
    BY <2>2 DEF Quotient
  <2> QED BY <1>2, <2>3, WrapIs DEF Arith
<1>3. CASE op = "div" /\ b = 0
  BY <1>3, WordIs DEF Arith
<1>4. CASE op = "add"
  BY <1>1, <1>4, WrapIs DEF Arith
<1>5. CASE op = "sub"
  BY <1>1, <1>5, WrapIs DEF Arith
<1>6. CASE op = "mul"
  <2>1. a * b \in Int
    BY <1>1
  <2> QED BY <1>6, <2>1, WrapIs DEF Arith
<1>7. CASE op \in {"lt", "gt"}
  BY <1>7, WordIs DEF Arith
<1> QED BY <1>2, <1>3, <1>4, <1>5, <1>6, <1>7 DEF Arithmetic

LEMMA OperandWord ==
  ASSUME NEW f \in Frame, NEW x \in Operands
  PROVE  Operand(f, x) \in Word /\ (~x.lit => x.n \in Regs) /\ (x.lit => x.n \in Word)
BY DEF Frame, Operands, Operand

LEMMA BodyIs ==
  ASSUME NEW l \in Loop, NEW k \in 1 .. Len(l.body)
  PROVE  /\ l.body[k] \in Instruction /\ l.body[k] \in BodyOps(l)
         /\ l.body[k].dst \in Regs /\ l.body[k].dst \in Written(l)
         /\ l.body[k].a \in Operands /\ l.body[k].b \in Operands
<1>1. l.body \in Seq(Instruction)
  BY DEF Loop
<1>2. DOMAIN l.body = 1 .. Len(l.body)
  BY <1>1, LenProperties
<1>3. l.body[k] \in Instruction
  BY <1>1, ElementOfSeq
<1>4. l.body[k] \in BodyOps(l)
  BY <1>2 DEF BodyOps
<1> QED BY <1>3, <1>4 DEF Written, Instruction

LEMMA BodyLen == ASSUME NEW l \in Loop PROVE Len(l.body) \in Nat
<1>1. l.body \in Seq(Instruction)
  BY DEF Loop
<1> QED BY <1>1, LenProperties

LEMMA EvalIs ==
  ASSUME NEW f \in Frame, NEW i \in Instruction, i.op # "eq"
  PROVE  /\ EvalSimdOp(f, i) \in Frame
         /\ EvalSimdOp(f, i)[i.dst] =
              IF i.op = "move" THEN Operand(f, i.a)
              ELSE Arith(i.op, Operand(f, i.a), Operand(f, i.b))
         /\ \A r \in Regs : r # i.dst => EvalSimdOp(f, i)[r] = f[r]
<1> DEFINE v == IF i.op = "move" THEN Operand(f, i.a)
                ELSE Arith(i.op, Operand(f, i.a), Operand(f, i.b))
<1>1. i.dst \in Regs /\ i.a \in Operands /\ i.b \in Operands
      /\ i.op \in Arithmetic \cup {"move"}
  BY DEF Instruction
<1>2. v \in Word
  BY <1>1, OperandWord, ArithWord
<1>3. EvalSimdOp(f, i) = [f EXCEPT ![i.dst] = v]
  BY DEF EvalSimdOp
<1> HIDE DEF v
<1>4. /\ EvalSimdOp(f, i) \in Frame /\ EvalSimdOp(f, i)[i.dst] = v
      /\ \A r \in Regs : r # i.dst => EvalSimdOp(f, i)[r] = f[r]
  BY <1>1, <1>2, <1>3 DEF Frame
<1> QED BY <1>4 DEF v

(* A loop that was rewritten.                                              *)
Simd(l) == l \in Loop /\ Rewritten(l)

LEMMA SimdOps ==
  ASSUME NEW l, Simd(l), NEW i \in BodyOps(l)
  PROVE  i \in Instruction /\ i.op # "eq" /\ i.dst \in Written(l) /\ i.dst \in Regs
<1>1. l.body \in Seq(Instruction)
  BY DEF Simd, Loop
<1>2. i \in Instruction
  BY <1>1, ElementOfSeq, LenProperties DEF BodyOps
<1>3. i.op \in Arithmetic \cup {"move"}
  BY DEF Simd, Rewritten
<1> QED BY <1>2, <1>3 DEF Arithmetic, Instruction, Written

-----------------------------------------------------------------------------
(* Passes, one instruction after the other, and one after the other.       *)
PassRun(g, l, f) ==
  /\ g \in [0 .. Len(l.body) -> Frame]
  /\ g[0] = f
  /\ \A k \in 1 .. Len(l.body) : g[k] = EvalSimdOp(g[k - 1], l.body[k])
  /\ Once(l, f) = g[Len(l.body)]

LEMMA PassRuns ==
  ASSUME NEW l, Simd(l), NEW f \in Frame
  PROVE  \E g : PassRun(g, l, f)
<1> DEFINE n == Len(l.body)
<1>a. \A h \in Frame, k \in 1 .. n : EvalSimdOp(h, l.body[k]) \in Frame
  BY BodyIs, SimdOps, EvalIs DEF Simd
<1>b. n \in Nat
  BY BodyLen DEF Simd
<1> DEFINE F == [k \in 1 .. n |-> [h \in Frame |-> EvalSimdOp(h, l.body[k])]]
           Makes(h) == h = [k \in 0 .. n |-> IF k = 0 THEN f ELSE EvalSimdOp(h[k - 1], l.body[k])]
           after == CHOOSE h : Makes(h)
<1>1. F \in [1 .. n -> [Frame -> Frame]]
  BY <1>a
<1>2. PICK g : Carries(g, n, Frame, f, F)
  <2> HIDE DEF F, n
  <2> QED BY <1>1, <1>b, Iterates
<1>3. /\ g \in [0 .. n -> Frame] /\ g[0] = f
      /\ \A k \in 1 .. n : g[k] = F[k][g[k - 1]]
  BY <1>2 DEF Carries
<1>4. \A k \in 1 .. n : g[k] = EvalSimdOp(g[k - 1], l.body[k])
  <2> SUFFICES ASSUME NEW k \in 1 .. n PROVE g[k] = EvalSimdOp(g[k - 1], l.body[k])
    OBVIOUS
  <2>1. g[k - 1] \in Frame
    BY <1>3
  <2> QED BY <1>3, <2>1
<1>5. Makes(g)
  BY <1>3, <1>4
<1>6. Makes(after)
  <2> HIDE DEF Makes
  <2> QED BY <1>5
<1>7. Once(l, f) = after[n]
  BY DEF Once
<1> HIDE DEF after
<1>8. after = [k \in 0 .. n |-> IF k = 0 THEN f ELSE EvalSimdOp(after[k - 1], l.body[k])]
  BY <1>6
<1> HIDE DEF Makes
<1> DEFINE Good == {k \in 0 .. n : after[k] = g[k]}
<1>9. 0 \in Good
  BY <1>b, <1>3, <1>8
<1>10. ASSUME NEW k \in 1 .. n, k - 1 \in Good PROVE k \in Good
  <2>1. k \in 0 .. n /\ k # 0
    OBVIOUS
  <2>2. after[k] = EvalSimdOp(after[k - 1], l.body[k])
    BY <1>8, <2>1
  <2> QED BY <1>4, <1>10, <2>1, <2>2
<1>11. 0 .. n \subseteq Good
  <2> HIDE DEF Good, n
  <2> QED BY <1>b, <1>9, <1>10, IntervalInduction
<1>12. Once(l, f) = g[n]
  BY <1>b, <1>7, <1>11
<1> QED BY <1>3, <1>4, <1>12 DEF PassRun

LEMMA OnceFrame ==
  ASSUME NEW l, Simd(l), NEW f \in Frame
  PROVE  Once(l, f) \in Frame
<1>1. Len(l.body) \in 0 .. Len(l.body)
  BY BodyLen DEF Simd
<1> QED BY <1>1, PassRuns DEF PassRun

AheadRun(g, l, f, n) ==
  /\ g \in [0 .. n -> Frame]
  /\ g[0] = f
  /\ \A k \in 1 .. n : g[k] = Once(l, g[k - 1])
  /\ \A m \in 0 .. n : Ahead(l, f, m) = g[m]

LEMMA AheadRuns ==
  ASSUME NEW l, Simd(l), NEW f \in Frame, NEW n \in Nat
  PROVE  \E g : AheadRun(g, l, f, n)
<1> DEFINE F == [k \in 1 .. n |-> [h \in Frame |-> Once(l, h)]]
<1>1. F \in [1 .. n -> [Frame -> Frame]]
  BY OnceFrame
<1>2. PICK g : Carries(g, n, Frame, f, F)
  <2> HIDE DEF F
  <2> QED BY <1>1, Iterates
<1>3. /\ g \in [0 .. n -> Frame] /\ g[0] = f
      /\ \A k \in 1 .. n : g[k] = F[k][g[k - 1]]
  BY <1>2 DEF Carries
<1>4. \A k \in 1 .. n : g[k] = Once(l, g[k - 1])
  <2> SUFFICES ASSUME NEW k \in 1 .. n PROVE g[k] = Once(l, g[k - 1])
    OBVIOUS
  <2>1. g[k - 1] \in Frame
    BY <1>3
  <2> QED BY <1>3, <2>1
<1> HIDE DEF F
<1>5. ASSUME NEW m \in 0 .. n PROVE Ahead(l, f, m) = g[m]
  <2> DEFINE Makes(h) == h = [k \in 0 .. m |-> IF k = 0 THEN f ELSE Once(l, h[k - 1])]
             after == CHOOSE h : Makes(h)
             g0 == [k \in 0 .. m |-> g[k]]
  <2>1. Makes(g0)
    <3>1. \A k \in 1 .. m : k \in 1 .. n /\ k - 1 \in 0 .. m
      OBVIOUS
    <3>2. \A k \in 1 .. m : g0[k] = Once(l, g0[k - 1])
      BY <1>4, <3>1
    <3>3. \A k \in 0 .. m : g0[k] = IF k = 0 THEN f ELSE Once(l, g0[k - 1])
      BY <1>3, <3>2
    <3>4. g0 = [k \in 0 .. m |-> g0[k]]
      OBVIOUS
    <3> HIDE DEF g0
    <3> QED BY <3>3, <3>4
  <2>2. Makes(after)
    <3> HIDE DEF Makes
    <3> QED BY <2>1
  <2>3. Ahead(l, f, m) = after[m]
    BY DEF Ahead
  <2> HIDE DEF after
  <2>4. after = [k \in 0 .. m |-> IF k = 0 THEN f ELSE Once(l, after[k - 1])]
    BY <2>2
  <2> HIDE DEF Makes
  <2> DEFINE Good == {k \in 0 .. m : after[k] = g[k]}
  <2>5. 0 \in Good
    BY <1>3, <2>4
  <2>6. ASSUME NEW k \in 1 .. m, k - 1 \in Good PROVE k \in Good
    <3>1. k \in 0 .. m /\ k # 0 /\ k \in 1 .. n
      OBVIOUS
    <3>2. after[k] = Once(l, after[k - 1])
      BY <2>4, <3>1
    <3> QED BY <1>4, <2>6, <3>1, <3>2
  <2>7. 0 .. m \subseteq Good
    <3> HIDE DEF Good
    <3> QED BY <2>5, <2>6, IntervalInduction
  <2> QED BY <2>3, <2>7
<1> QED BY <1>3, <1>4, <1>5 DEF AheadRun

(* So many passes and one more.                                            *)
LEMMA AheadStep ==
  ASSUME NEW l, Simd(l), NEW f \in Frame
  PROVE  /\ Ahead(l, f, 0) = f
         /\ \A n \in Nat : Ahead(l, f, n) \in Frame
         /\ \A n \in Nat : Ahead(l, f, n + 1) = Once(l, Ahead(l, f, n))
<1>1. ASSUME NEW n \in Nat
      PROVE  /\ Ahead(l, f, 0) = f /\ Ahead(l, f, n) \in Frame
             /\ Ahead(l, f, n + 1) = Once(l, Ahead(l, f, n))
  <2>1. PICK g : AheadRun(g, l, f, n + 1)
    BY AheadRuns
  <2>2. 0 \in 0 .. n + 1 /\ n \in 0 .. n + 1 /\ n + 1 \in 1 .. n + 1 /\ (n + 1) - 1 = n
    OBVIOUS
  <2> QED BY <2>1, <2>2 DEF AheadRun
<1> QED BY <1>1

-----------------------------------------------------------------------------
(* Registers that the body does not write keep their value.                *)
LEMMA OnceKeeps ==
  ASSUME NEW l, Simd(l), NEW f \in Frame, NEW r \in Regs, r \notin Written(l)
  PROVE  Once(l, f)[r] = f[r]
<1>1. PICK g : PassRun(g, l, f)
  BY PassRuns
<1> DEFINE n == Len(l.body)
           Good == {k \in 0 .. n : g[k][r] = f[r]}
<1>2. n \in Nat
  BY BodyLen DEF Simd
<1>3. 0 \in Good
  BY <1>1, <1>2 DEF PassRun
<1>4. ASSUME NEW k \in 1 .. n, k - 1 \in Good PROVE k \in Good
  <2>1. g[k - 1] \in Frame /\ g[k] = EvalSimdOp(g[k - 1], l.body[k])
    BY <1>1, <1>2 DEF PassRun
  <2>2. /\ l.body[k] \in Instruction /\ l.body[k].op # "eq"
        /\ l.body[k].dst # r
    BY BodyIs, SimdOps DEF Simd
  <2>3. g[k][r] = g[k - 1][r]
    BY <2>1, <2>2, EvalIs
  <2>4. k \in 0 .. n
    BY <1>2
  <2> QED BY <1>4, <2>3, <2>4
<1>5. 0 .. n \subseteq Good
  <2> HIDE DEF Good, n
  <2> QED BY <1>2, <1>3, <1>4, IntervalInduction
<1>6. n \in Good
  BY <1>2, <1>5
<1> QED BY <1>1, <1>6 DEF PassRun

LEMMA AheadKeeps ==
  ASSUME NEW l, Simd(l), NEW f \in Frame, NEW r \in Regs, r \notin Written(l), NEW n \in Nat
  PROVE  Ahead(l, f, n)[r] = f[r]
<1>1. PICK g : AheadRun(g, l, f, n)
  BY AheadRuns
<1> DEFINE Good == {k \in 0 .. n : g[k][r] = f[r]}
<1>2. 0 \in Good
  BY <1>1 DEF AheadRun
<1>3. ASSUME NEW k \in 1 .. n, k - 1 \in Good PROVE k \in Good
  <2>1. g[k - 1] \in Frame /\ g[k] = Once(l, g[k - 1])
    BY <1>1 DEF AheadRun
  <2>2. g[k][r] = g[k - 1][r]
    BY <2>1, OnceKeeps
  <2> QED BY <1>3, <2>2
<1>4. 0 .. n \subseteq Good
  <2> HIDE DEF Good
  <2> QED BY <1>2, <1>3, IntervalInduction
<1>5. n \in Good
  BY <1>4
<1> QED BY <1>1, <1>5 DEF AheadRun

-----------------------------------------------------------------------------
(* Adding frames.                                                          *)
LEMMA PlusIs ==
  ASSUME NEW f \in Frame, NEW d \in Frame
  PROVE  Plus(f, d) \in Frame /\ \A r \in Regs : Plus(f, d)[r] = Wrap(f[r] + d[r])
<1>1. \A r \in Regs : Wrap(f[r] + d[r]) \in Word
  <2> SUFFICES ASSUME NEW r \in Regs PROVE Wrap(f[r] + d[r]) \in Word
    OBVIOUS
  <2>1. f[r] \in Int /\ d[r] \in Int
    BY WordIs DEF Frame
  <2> QED BY <2>1, WrapIs
<1> QED BY <1>1 DEF Plus, Frame

LEMMA DifferenceIs ==
  ASSUME NEW g \in Frame, NEW f \in Frame
  PROVE  /\ Difference(g, f) \in Frame
         /\ \A r \in Regs : Difference(g, f)[r] = Wrap(g[r] - f[r])
<1>1. \A r \in Regs : Wrap(g[r] - f[r]) \in Word
  <2> SUFFICES ASSUME NEW r \in Regs PROVE Wrap(g[r] - f[r]) \in Word
    OBVIOUS
  <2>1. f[r] \in Int /\ g[r] \in Int
    BY WordIs DEF Frame
  <2> QED BY <2>1, WrapIs
<1> QED BY <1>1 DEF Difference, Frame

LEMMA SameFrame ==
  ASSUME NEW f \in Frame, NEW g \in Frame, \A r \in Regs : f[r] = g[r]
  PROVE  f = g
BY DEF Frame

(* What was taken away is added again.                                     *)
LEMMA PlusDifference ==
  ASSUME NEW f \in Frame, NEW g \in Frame
  PROVE  Plus(f, Difference(g, f)) = g
<1>1. Difference(g, f) \in Frame /\ Plus(f, Difference(g, f)) \in Frame
  BY DifferenceIs, PlusIs
<1>2. ASSUME NEW r \in Regs PROVE Plus(f, Difference(g, f))[r] = g[r]
  <2>1. f[r] \in Int /\ g[r] \in Int /\ g[r] \in Word
    BY WordIs DEF Frame
  <2>2. Plus(f, Difference(g, f))[r] = Wrap(f[r] + Wrap(g[r] - f[r]))
    BY <1>1, PlusIs, DifferenceIs
  <2>3. g[r] - f[r] \in Int /\ f[r] + (g[r] - f[r]) = g[r]
    BY <2>1
  <2>4. Wrap(f[r] + Wrap(g[r] - f[r])) = Wrap(f[r] + (g[r] - f[r]))
    BY <2>1, <2>3, WrapPlus
  <2> QED BY <2>1, <2>2, <2>3, <2>4, WrapWord
<1> QED BY <1>1, <1>2, SameFrame

(* The difference of two frames stays when both are moved alike.           *)
LEMMA DifferencePlus ==
  ASSUME NEW f \in Frame, NEW g \in Frame, NEW d \in Frame
  PROVE  Difference(Plus(g, d), Plus(f, d)) = Difference(g, f)
<1>1. /\ Plus(g, d) \in Frame /\ Plus(f, d) \in Frame
      /\ Difference(Plus(g, d), Plus(f, d)) \in Frame /\ Difference(g, f) \in Frame
  BY PlusIs, DifferenceIs
<1>2. ASSUME NEW r \in Regs
      PROVE  Difference(Plus(g, d), Plus(f, d))[r] = Difference(g, f)[r]
  <2>1. f[r] \in Int /\ g[r] \in Int /\ d[r] \in Int
    BY WordIs DEF Frame
  <2> DEFINE a == g[r] + d[r]
             b == f[r] + d[r]
  <2>2. a \in Int /\ b \in Int /\ -b \in Int /\ a - b = g[r] - f[r] /\ a + (-b) = a - b
    BY <2>1
  <2>3. Wrap(a) \in Int /\ Wrap(b) \in Int /\ Wrap(a) + (-b) = Wrap(a) - b
    BY <2>2, WrapIs, WordIs
  <2>4. Difference(Plus(g, d), Plus(f, d))[r] = Wrap(Wrap(a) - Wrap(b))
    BY <1>1, PlusIs, DifferenceIs
  <2> HIDE DEF a, b
  <2>5. Wrap(Wrap(a) - Wrap(b)) = Wrap(Wrap(a) - b)
    BY <2>2, <2>3, WrapPlus
  <2>6. Wrap(Wrap(a) + (-b)) = Wrap(a + (-b))
    BY <2>2, WrapPlus
  <2> QED BY <2>2, <2>3, <2>4, <2>5, <2>6, DifferenceIs
<1> QED BY <1>1, <1>2, SameFrame

-----------------------------------------------------------------------------
(* A body that changes every register by an amount it does not touch does  *)
(* the same from a frame that was moved.                                   *)
Steady(l) == Simd(l) /\ \A i \in BodyOps(l) : Accumulates(l, i)

\* An amount for the registers that l writes.
Amount(l, d) == d \in Frame /\ \A r \in Regs \ Written(l) : d[r] = 0

LEMMA ShiftOp ==
  ASSUME NEW l, Steady(l), NEW i \in BodyOps(l), NEW f \in Frame, NEW d, Amount(l, d)
  PROVE  EvalSimdOp(Plus(f, d), i) = Plus(EvalSimdOp(f, i), d)
<1> DEFINE h == Plus(f, d)
<1>1. i \in Instruction /\ i.op # "eq" /\ i.dst \in Regs /\ d \in Frame
  BY SimdOps DEF Steady, Amount
<1>2. i.op \in {"add", "sub"} /\ i.a = Reg(i.dst) /\ RegsOf(i.b) \cap Written(l) = {}
  BY DEF Steady, Accumulates
<1>3. i.b \in Operands
  BY <1>1 DEF Instruction
<1>4. h \in Frame /\ EvalSimdOp(h, i) \in Frame /\ EvalSimdOp(f, i) \in Frame
      /\ Plus(EvalSimdOp(f, i), d) \in Frame
  BY <1>1, PlusIs, EvalIs
<1> DEFINE c == Operand(f, i.b)
<1>5. Operand(h, i.b) = c /\ c \in Int
  <2>1. CASE i.b.lit
    BY <1>3, <2>1, OperandWord, WordIs DEF Operand
  <2>2. CASE ~i.b.lit
    <3>1. i.b.n \in Regs \ Written(l)
      BY <1>2, <1>3, <2>2, OperandWord DEF RegsOf
    <3>2. h[i.b.n] = Wrap(f[i.b.n] + 0) /\ f[i.b.n] \in Word
      BY <1>1, <3>1, PlusIs DEF Amount, Frame
    <3> DEFINE w == f[i.b.n]
    <3>3. w \in Int /\ w \in Word /\ h[i.b.n] = Wrap(w + 0)
      BY <3>2, WordIs
    <3> HIDE DEF w
    <3>4. w + 0 = w
      BY <3>3
    <3>5. h[i.b.n] = w
      BY <3>3, <3>4, WrapWord
    <3> QED BY <2>2, <3>3, <3>5 DEF Operand, w
  <2> QED BY <2>1, <2>2
<1>6. /\ Operand(f, i.a) = f[i.dst] /\ Operand(h, i.a) = h[i.dst]
      /\ f[i.dst] \in Int /\ d[i.dst] \in Int /\ h[i.dst] = Wrap(f[i.dst] + d[i.dst])
  <2>1. Operand(f, i.a) = f[i.dst] /\ Operand(h, i.a) = h[i.dst]
    BY <1>2 DEF Operand, Reg
  <2>2. f[i.dst] \in Word /\ d[i.dst] \in Word
    BY <1>1 DEF Frame
  <2>3. h[i.dst] = Wrap(f[i.dst] + d[i.dst])
    BY <1>1, PlusIs
  <2> QED BY <2>1, <2>2, <2>3, WordIs
<1> HIDE DEF c
<1>7. EvalSimdOp(h, i)[i.dst] = Wrap(EvalSimdOp(f, i)[i.dst] + d[i.dst])
  <2> DEFINE x == f[i.dst]
             y == d[i.dst]
  <2>1. x \in Int /\ y \in Int /\ h[i.dst] = Wrap(x + y)
    BY <1>6
  <2>2. CASE i.op = "add"
    <3>1. EvalSimdOp(h, i)[i.dst] = Wrap(Wrap(x + y) + c)
      BY <1>1, <1>4, <1>5, <1>6, <2>2, EvalIs DEF Arith
    <3>2. EvalSimdOp(f, i)[i.dst] = Wrap(x + c)
      BY <1>1, <1>6, <2>2, EvalIs DEF Arith, c
    <3> HIDE DEF x, y
    <3>3. (x + y) + c = (x + c) + y /\ x + y \in Int /\ x + c \in Int
      BY <1>5, <2>1
    <3>4. Wrap(Wrap(x + y) + c) = Wrap((x + y) + c)
      BY <1>5, <3>3, WrapPlus
    <3>5. Wrap(Wrap(x + c) + y) = Wrap((x + c) + y)
      BY <2>1, <3>3, WrapPlus
    <3> QED BY <3>1, <3>2, <3>3, <3>4, <3>5 DEF y
  <2>3. CASE i.op = "sub"
    <3>1. EvalSimdOp(h, i)[i.dst] = Wrap(Wrap(x + y) - c)
      BY <1>1, <1>4, <1>5, <1>6, <2>3, EvalIs DEF Arith
    <3>2. EvalSimdOp(f, i)[i.dst] = Wrap(x - c)
      BY <1>1, <1>6, <2>3, EvalIs DEF Arith, c
    <3> HIDE DEF x, y
    <3>3. /\ x + y \in Int /\ x - c \in Int /\ -c \in Int
          /\ (x + y) + (-c) = (x - c) + y
      BY <1>5, <2>1
    <3>4. Wrap(Wrap(x + y) + (-c)) = Wrap((x + y) + (-c))
      BY <3>3, WrapPlus
    <3>5. Wrap(Wrap(x - c) + y) = Wrap((x - c) + y)
      BY <2>1, <3>3, WrapPlus
    <3>6. Wrap(x + y) + (-c) = Wrap(x + y) - c
      BY <1>5, <3>3, WrapIs, WordIs
    <3> QED BY <3>1, <3>2, <3>3, <3>4, <3>5, <3>6 DEF y
  <2> QED BY <1>2, <2>2, <2>3
<1>8. ASSUME NEW r \in Regs PROVE EvalSimdOp(h, i)[r] = Plus(EvalSimdOp(f, i), d)[r]
  <2>1. Plus(EvalSimdOp(f, i), d)[r] = Wrap(EvalSimdOp(f, i)[r] + d[r])
    BY <1>1, <1>4, PlusIs
  <2>2. CASE r = i.dst
    BY <1>7, <2>1, <2>2
  <2>3. CASE r # i.dst
    <3>1. EvalSimdOp(h, i)[r] = h[r] /\ EvalSimdOp(f, i)[r] = f[r]
      BY <1>1, <1>4, <2>3, EvalIs
    <3> QED BY <1>1, <2>1, <3>1, PlusIs
  <2> QED BY <2>2, <2>3
<1> HIDE DEF h
<1>9. EvalSimdOp(h, i) = Plus(EvalSimdOp(f, i), d)
  BY <1>4, <1>8, SameFrame
<1> QED BY <1>9 DEF h

LEMMA ShiftOnce ==
  ASSUME NEW l, Steady(l), NEW f \in Frame, NEW d, Amount(l, d)
  PROVE  Once(l, Plus(f, d)) = Plus(Once(l, f), d)
<1>1. Simd(l) /\ d \in Frame /\ Plus(f, d) \in Frame
  BY PlusIs DEF Steady, Amount
<1>2. PICK g : PassRun(g, l, f)
  BY <1>1, PassRuns
<1>3. PICK h : PassRun(h, l, Plus(f, d))
  BY <1>1, PassRuns
<1> DEFINE n == Len(l.body)
           Good == {k \in 0 .. n : h[k] = Plus(g[k], d)}
<1>4. n \in Nat
  BY <1>1, BodyLen DEF Simd
<1>5. 0 \in Good
  BY <1>2, <1>3, <1>4 DEF PassRun
<1>6. ASSUME NEW k \in 1 .. n, k - 1 \in Good PROVE k \in Good
  <2>1. /\ g[k - 1] \in Frame /\ g[k] = EvalSimdOp(g[k - 1], l.body[k])
        /\ h[k] = EvalSimdOp(h[k - 1], l.body[k])
    BY <1>2, <1>3, <1>4 DEF PassRun
  <2>2. l.body[k] \in BodyOps(l)
    BY <1>1, BodyIs DEF Simd
  <2>3. h[k] = Plus(g[k], d)
    BY <1>6, <2>1, <2>2, ShiftOp
  <2>4. k \in 0 .. n
    BY <1>4
  <2> QED BY <2>3, <2>4
<1>7. 0 .. n \subseteq Good
  <2> HIDE DEF Good, n
  <2> QED BY <1>4, <1>5, <1>6, IntervalInduction
<1>8. n \in Good
  BY <1>4, <1>7
<1> QED BY <1>2, <1>3, <1>8 DEF PassRun

LEMMA ShiftAhead ==
  ASSUME NEW l, Steady(l), NEW f \in Frame, NEW d, Amount(l, d), NEW n \in Nat
  PROVE  Ahead(l, Plus(f, d), n) = Plus(Ahead(l, f, n), d)
<1>1. Simd(l) /\ d \in Frame /\ Plus(f, d) \in Frame
  BY PlusIs DEF Steady, Amount
<1>2. PICK g : AheadRun(g, l, f, n)
  BY <1>1, AheadRuns
<1>3. PICK h : AheadRun(h, l, Plus(f, d), n)
  BY <1>1, AheadRuns
<1> DEFINE Good == {k \in 0 .. n : h[k] = Plus(g[k], d)}
<1>4. 0 \in Good
  BY <1>2, <1>3 DEF AheadRun
<1>5. ASSUME NEW k \in 1 .. n, k - 1 \in Good PROVE k \in Good
  <2>1. g[k - 1] \in Frame /\ g[k] = Once(l, g[k - 1]) /\ h[k] = Once(l, h[k - 1])
    BY <1>2, <1>3 DEF AheadRun
  <2>2. h[k] = Plus(g[k], d)
    BY <1>5, <2>1, ShiftOnce
  <2>3. k \in 0 .. n
    OBVIOUS
  <2> QED BY <2>2, <2>3
<1>6. 0 .. n \subseteq Good
  <2> HIDE DEF Good
  <2> QED BY <1>4, <1>5, IntervalInduction
<1>7. n \in Good
  BY <1>6
<1> QED BY <1>2, <1>3, <1>7 DEF AheadRun

(* What some passes add is an amount, and adding it again is doing them    *)
(* again.                                                                  *)
LEMMA Again ==
  ASSUME NEW l, Steady(l), NEW f \in Frame, NEW n \in Nat
  PROVE  LET d == Difference(Ahead(l, f, n), f)
         IN  Amount(l, d) /\ Plus(f, d) = Ahead(l, f, n)
<1> DEFINE g == Ahead(l, f, n)
           d == Difference(g, f)
<1>1. Simd(l) /\ g \in Frame
  BY AheadStep DEF Steady
<1>2. d \in Frame /\ Plus(f, d) = g
  BY <1>1, DifferenceIs, PlusDifference
<1>3. ASSUME NEW r \in Regs, r \notin Written(l) PROVE d[r] = 0
  <2>1. g[r] = f[r]
    BY <1>1, <1>3, AheadKeeps
  <2>2. f[r] \in Int
    BY WordIs DEF Frame
  <2>3. g[r] - f[r] = 0
    BY <2>1, <2>2
  <2>4. d[r] = Wrap(g[r] - f[r])
    BY <1>1, DifferenceIs
  <2>5. Wrap(0) = 0
    BY WordIs, WrapWord
  <2> HIDE DEF g, d
  <2> QED BY <2>3, <2>4, <2>5
<1>4. Amount(l, d)
  BY <1>2, <1>3 DEF Amount
<1> QED BY <1>2, <1>4

-----------------------------------------------------------------------------
(* The inductive invariant.  Fits: what MeantFor leaves of a loop that was *)
(* rewritten and whose limit is an integer.  f is entry with some passes   *)
(* done: it differs from entry in what the loop writes only.               *)
Fits(l, e) ==
  /\ Simd(l) /\ e \in Slots
  /\ \A r \in Mentioned(l) : e[r] # Other
  /\ RegsOf(l.limit) \cap Written(l) = {}
  /\ \A i \in BodyOps(l) :
       /\ i.op \notin {"lt", "gt"}
       /\ i.op = "div" => i.b.lit /\ i.b.n \notin {-1, 0}

Follows(l, e, f) ==
  f \in Frame /\ \A r \in Regs \ Written(l) : e[r] # Other => f[r] = e[r]

StartInv ==
  phase = "start" =>
    slots = entry /\ entry \in Slots /\ MeantFor(loop, entry, unit)
PlainInv == phase = "plain" => ~Rewritten(loop) /\ slots # Failed
CopyInv ==
  phase \in {"ahead", "scalar"} =>
    /\ Fits(loop, entry)
    /\ limit = Operand(entry, loop.limit)
    /\ Follows(loop, entry, lanes[0])
AheadInv ==
  phase = "ahead" =>
    /\ Steady(loop)
    /\ \A k \in Lanes : lanes[k] = Ahead(loop, lanes[0], k)
    /\ delta = Difference(Ahead(loop, lanes[0], 4), lanes[0])

SimdInv ==
  /\ loop \in Loops /\ loop \in Loop
  /\ unit \in {"vector", "scalar"}
  /\ phase \in {"start", "plain", "ahead", "scalar", "left", "failed"}
  /\ DOMAIN lanes = Lanes
  /\ StartInv /\ PlainInv /\ CopyInv /\ AheadInv

-----------------------------------------------------------------------------
(* The registers as the program may look at them while f is the frame.     *)
View(e, f) == [r \in Regs |-> IF e[r] = Other THEN Other ELSE f[r]]

LEMMA ViewIs ==
  ASSUME NEW e \in Slots, NEW f \in Frame
  PROVE  View(e, f) \in Slots /\ View(e, f) # Failed
<1>1. View(e, f) \in Slots
  BY DEF View, Slots, Frame
<1> QED BY <1>1, LoopCodeAssumption

LEMMA ViewOperand ==
  ASSUME NEW l, NEW e, Fits(l, e), NEW f \in Frame, NEW x \in Operands,
         RegsOf(x) \subseteq Mentioned(l)
  PROVE  Operand(View(e, f), x) = Operand(f, x) /\ Operand(f, x) \in Word
<1>1. Operand(f, x) \in Word /\ (~x.lit => x.n \in Regs)
  BY OperandWord
<1>2. CASE x.lit
  BY <1>1, <1>2 DEF Operand
<1>3. CASE ~x.lit
  <2>1. x.n \in Mentioned(l)
    BY <1>3 DEF RegsOf
  <2>2. e[x.n] # Other
    BY <2>1 DEF Fits
  <2> QED BY <1>1, <1>3, <2>2 DEF Operand, View
<1> QED BY <1>2, <1>3

(* An instruction of such a loop does in the interpreter what it does to   *)
(* the frame.                                                              *)
LEMMA ViewOp ==
  ASSUME NEW l, NEW e, Fits(l, e), NEW f \in Frame, NEW i \in BodyOps(l)
  PROVE  Interpret(View(e, f), i) = View(e, EvalSimdOp(f, i))
<1> DEFINE s == View(e, f)
           a == Operand(f, i.a)
           b == Operand(f, i.b)
           v == IF i.op = "move" THEN a ELSE Arith(i.op, a, b)
<1>1. i \in Instruction /\ i.op # "eq" /\ i.dst \in Written(l) /\ i.dst \in Regs
  BY SimdOps DEF Fits
<1>2. i.a \in Operands /\ i.b \in Operands /\ i.op \in Arithmetic \cup {"move", "eq"}
  BY <1>1 DEF Instruction
<1>3. /\ RegsOf(i.a) \subseteq Mentioned(l) /\ RegsOf(i.b) \subseteq Mentioned(l)
      /\ i.dst \in Mentioned(l)
  BY <1>1 DEF Mentioned
<1>4. Operand(s, i.a) = a /\ Operand(s, i.b) = b /\ a \in Word /\ b \in Word
  BY <1>2, <1>3, ViewOperand
<1>5. s \in Slots /\ s # Failed /\ e \in Slots
  BY ViewIs DEF Fits
<1>6. i.op \notin {"lt", "gt"} /\ (i.op = "div" => b \notin {-1, 0}) /\ e[i.dst] # Other
  BY <1>3 DEF Fits, Operand
<1>7. Interpret(s, i) = [s EXCEPT ![i.dst] = v]
  <2>1. Other \notin {a, b}
    BY <1>4, WordIs
  <2> HIDE DEF s, a, b
  <2> QED BY <1>1, <1>4, <1>5, <1>6, <2>1 DEF Interpret
<1>8. EvalSimdOp(f, i) = [f EXCEPT ![i.dst] = v]
  BY DEF EvalSimdOp
<1> HIDE DEF v
<1>9. [s EXCEPT ![i.dst] = v] = View(e, [f EXCEPT ![i.dst] = v])
  BY <1>1, <1>6 DEF View, Frame
<1> QED BY <1>7, <1>8, <1>9

LEMMA ViewPass ==
  ASSUME NEW l, NEW e, Fits(l, e), NEW f \in Frame
  PROVE  Pass(l, View(e, f)) = View(e, Once(l, f))
<1>1. Simd(l)
  BY DEF Fits
<1>2. PICK g : PassRun(g, l, f)
  BY <1>1, PassRuns
<1> DEFINE n == Len(l.body)
           s == View(e, f)
           Makes(h) == h = [k \in 0 .. n |-> IF k = 0 THEN s ELSE Interpret(h[k - 1], l.body[k])]
           after == CHOOSE h : Makes(h)
           seen == [k \in 0 .. n |-> View(e, g[k])]
<1>3. n \in Nat
  BY <1>1, BodyLen DEF Simd
<1>4. ASSUME NEW k \in 1 .. n
      PROVE  View(e, g[k]) = Interpret(View(e, g[k - 1]), l.body[k])
  <2>1. g[k - 1] \in Frame /\ g[k] = EvalSimdOp(g[k - 1], l.body[k])
    BY <1>2, <1>3 DEF PassRun
  <2>2. l.body[k] \in BodyOps(l)
    BY <1>1, BodyIs DEF Simd
  <2> QED BY <2>1, <2>2, ViewOp
<1>5. g[0] = f
  BY <1>2 DEF PassRun
<1>6. Makes(seen)
  <2>1. \A k \in 1 .. n : k \in 0 .. n /\ k - 1 \in 0 .. n
    BY <1>3
  <2>2. \A k \in 1 .. n : seen[k] = Interpret(seen[k - 1], l.body[k])
    BY <1>4, <2>1
  <2>3. \A k \in 0 .. n : seen[k] = IF k = 0 THEN s ELSE Interpret(seen[k - 1], l.body[k])
    <3>1. seen[0] = s
      BY <1>3, <1>5
    <3>2. \A k \in 0 .. n : k = 0 \/ k \in 1 .. n
      BY <1>3
    <3> HIDE DEF seen, s, n
    <3> QED BY <2>2, <3>1, <3>2
  <2>4. seen = [k \in 0 .. n |-> seen[k]]
    OBVIOUS
  <2> HIDE DEF seen, s, n
  <2> QED BY <2>3, <2>4
<1>7. Makes(after)
  <2> HIDE DEF Makes
  <2> QED BY <1>6
<1>8. Pass(l, s) = after[n]
  BY DEF Pass
<1> HIDE DEF after, s
<1>9. after = [k \in 0 .. n |-> IF k = 0 THEN s ELSE Interpret(after[k - 1], l.body[k])]
  BY <1>7
<1> HIDE DEF Makes
<1> DEFINE Good == {k \in 0 .. n : after[k] = View(e, g[k])}
<1>10. 0 \in Good
  BY <1>3, <1>5, <1>9 DEF s
<1>11. ASSUME NEW k \in 1 .. n, k - 1 \in Good PROVE k \in Good
  <2>1. k \in 0 .. n /\ k # 0
    OBVIOUS
  <2>2. after[k] = Interpret(after[k - 1], l.body[k])
    BY <1>9, <2>1
  <2> QED BY <1>4, <1>11, <2>1, <2>2
<1>12. 0 .. n \subseteq Good
  <2> HIDE DEF Good, n
  <2> QED BY <1>3, <1>10, <1>11, IntervalInduction
<1>13. n \in Good
  BY <1>3, <1>12
<1>14. Once(l, f) = g[n]
  BY <1>2 DEF PassRun
<1> QED BY <1>8, <1>13, <1>14 DEF s

LEMMA ViewPasses ==
  ASSUME NEW l, NEW e, Fits(l, e), NEW f \in Frame, NEW n \in Nat
  PROVE  Passes(l, View(e, f), n) = View(e, Ahead(l, f, n))
<1>1. Simd(l)
  BY DEF Fits
<1>2. PICK g : AheadRun(g, l, f, n)
  BY <1>1, AheadRuns
<1> DEFINE s == View(e, f)
           Makes(h) == h = [k \in 0 .. n |-> IF k = 0 THEN s ELSE Pass(l, h[k - 1])]
           after == CHOOSE h : Makes(h)
           seen == [k \in 0 .. n |-> View(e, g[k])]
<1>4. ASSUME NEW k \in 1 .. n PROVE View(e, g[k]) = Pass(l, View(e, g[k - 1]))
  <2>1. g[k - 1] \in Frame /\ g[k] = Once(l, g[k - 1])
    BY <1>2 DEF AheadRun
  <2> QED BY <2>1, ViewPass
<1>5. g[0] = f
  BY <1>2 DEF AheadRun
<1>6. Makes(seen)
  <2>1. \A k \in 1 .. n : k \in 0 .. n /\ k - 1 \in 0 .. n
    OBVIOUS
  <2>2. \A k \in 1 .. n : seen[k] = Pass(l, seen[k - 1])
    BY <1>4, <2>1
  <2>3. \A k \in 0 .. n : seen[k] = IF k = 0 THEN s ELSE Pass(l, seen[k - 1])
    <3>1. seen[0] = s
      BY <1>5
    <3>2. \A k \in 0 .. n : k = 0 \/ k \in 1 .. n
      OBVIOUS
    <3> HIDE DEF seen, s
    <3> QED BY <2>2, <3>1, <3>2
  <2>4. seen = [k \in 0 .. n |-> seen[k]]
    OBVIOUS
  <2> HIDE DEF seen, s
  <2> QED BY <2>3, <2>4
<1>7. Makes(after)
  <2> HIDE DEF Makes
  <2> QED BY <1>6
<1>8. Passes(l, s, n) = after[n]
  BY DEF Passes
<1> HIDE DEF after, s
<1>9. after = [k \in 0 .. n |-> IF k = 0 THEN s ELSE Pass(l, after[k - 1])]
  BY <1>7
<1> HIDE DEF Makes
<1> DEFINE Good == {k \in 0 .. n : after[k] = View(e, g[k])}
<1>10. 0 \in Good
  BY <1>5, <1>9 DEF s
<1>11. ASSUME NEW k \in 1 .. n, k - 1 \in Good PROVE k \in Good
  <2>1. k \in 0 .. n /\ k # 0
    OBVIOUS
  <2>2. after[k] = Pass(l, after[k - 1])
    BY <1>9, <2>1
  <2> QED BY <1>4, <1>11, <2>1, <2>2
<1>12. 0 .. n \subseteq Good
  <2> HIDE DEF Good
  <2> QED BY <1>10, <1>11, IntervalInduction
<1>13. n \in Good /\ n \in 0 .. n
  BY <1>12
<1>14. Ahead(l, f, n) = g[n]
  BY <1>2, <1>13 DEF AheadRun
<1> QED BY <1>8, <1>13, <1>14 DEF s

(* The comparison finds the same in the registers and in the frame.        *)
LEMMA ViewCompare ==
  ASSUME NEW l, NEW e, Fits(l, e), NEW f, Follows(l, e, f)
  PROVE  /\ Comparable(l, View(e, f))
         /\ Continues(l, View(e, f)) <=> Compare(l.cmp, f[l.var.n], Operand(e, l.limit))
<1>1. l \in Loop /\ ~l.var.lit /\ f \in Frame /\ e \in Slots
  BY DEF Fits, Simd, Rewritten, Follows
<1>2. l.var \in Operands /\ l.limit \in Operands
  BY <1>1 DEF Loop
<1>3. RegsOf(l.var) \subseteq Mentioned(l) /\ RegsOf(l.limit) \subseteq Mentioned(l)
  BY DEF Mentioned
<1>4. /\ Operand(View(e, f), l.var) = Operand(f, l.var) /\ Operand(f, l.var) \in Word
      /\ Operand(View(e, f), l.limit) = Operand(f, l.limit) /\ Operand(f, l.limit) \in Word
  BY <1>1, <1>2, <1>3, ViewOperand
<1>5. Operand(f, l.limit) = Operand(e, l.limit)
  <2>1. CASE l.limit.lit
    BY <2>1 DEF Operand
  <2>2. CASE ~l.limit.lit
    <3>1. l.limit.n \in Regs
      BY <1>1, <1>2, <2>2, OperandWord
    <3>2. l.limit.n \notin Written(l) /\ e[l.limit.n] # Other
      BY <1>3, <2>2 DEF RegsOf, Fits
    <3> QED BY <2>2, <3>1, <3>2 DEF Operand, Follows
  <2> QED BY <2>1, <2>2
<1>6. Operand(f, l.var) = f[l.var.n]
  BY <1>1 DEF Operand
<1> QED BY <1>4, <1>5, <1>6, WordIs DEF Comparable, Continues

-----------------------------------------------------------------------------
LEMMA InitInv == ASSUME Careful = TRUE, Init PROVE SimdInv
<1>1. loop \in Loops /\ loop \in Loop /\ unit \in {"vector", "scalar"}
      /\ DOMAIN lanes = Lanes
  BY LoopCodeAssumption DEF Init
<1>2. entry \in Slots /\ slots = entry
  BY SimdLoopAssumption DEF Init, Slots
<1>3. MeantFor(loop, entry, unit)
  BY DEF Init
<1>4. phase = "start"
  BY DEF Init
<1> QED BY <1>1, <1>2, <1>3, <1>4 DEF SimdInv, StartInv, PlainInv, CopyInv, AheadInv

(* The copy of the registers, and the passes ahead of it.                  *)
LEMMA EnterKeeps == ASSUME SimdInv, EnterSimd PROVE SimdInv'
<1> DEFINE f == Ints(slots)
<1>1. /\ phase = "start" /\ Rewritten(loop) /\ loop \in Loop /\ slots = entry /\ entry \in Slots
      /\ Operand(entry, loop.limit) # Other /\ MeantFor(loop, entry, unit)
      /\ limit' = Operand(entry, loop.limit)
      /\ loop' = loop /\ entry' = entry /\ unit' = unit
  BY DEF SimdInv, StartInv, EnterSimd
<1>2. Fits(loop, entry)
  <2>1. /\ \A r \in Mentioned(loop) : entry[r] # Other
        /\ RegsOf(loop.limit) \cap Written(loop) = {}
        /\ \A i \in BodyOps(loop) :
             /\ i.op \notin {"lt", "gt"}
             /\ i.op = "div" => i.b.lit /\ i.b.n \notin {-1, 0}
    BY <1>1 DEF MeantFor
  <2> QED BY <1>1, <2>1 DEF Fits, Simd
<1>3. f \in Frame /\ \A r \in Regs : entry[r] # Other => f[r] = entry[r]
  BY <1>1, WordIs DEF Ints, Frame, Slots
<1>4. Follows(loop, entry, f)
  BY <1>3 DEF Follows
<1>5. CASE unit = "scalar"
  <2>1. phase' = "scalar" /\ lanes' = [lanes EXCEPT ![0] = f]
    BY <1>5 DEF EnterSimd
  <2>2. lanes'[0] = f /\ DOMAIN lanes' = Lanes
    BY <2>1 DEF SimdInv, Lanes
  <2> HIDE DEF f
  <2> QED BY <1>1, <1>2, <1>4, <1>5, <2>1, <2>2
          DEF SimdInv, StartInv, PlainInv, CopyInv, AheadInv
<1>6. CASE unit = "vector"
  <2>1. phase' = "ahead" /\ Speculate(f)
    BY <1>6 DEF EnterSimd
  <2>2. Steady(loop)
    BY <1>1, <1>2, <1>6 DEF MeantFor, Steady, Fits
  <2> HIDE DEF f
  <2>3. Ahead(loop, f, 0) = f
    BY <1>2, <1>3, AheadStep DEF Fits
  <2>4. /\ DOMAIN lanes' = Lanes /\ lanes'[0] = f
        /\ \A k \in Lanes : lanes'[k] = Ahead(loop, f, k)
        /\ delta' = Difference(Ahead(loop, f, 4), f)
    BY <2>1, <2>3 DEF Speculate, Lanes
  <2>5. CopyInv' /\ AheadInv'
    BY <1>1, <1>2, <1>4, <2>1, <2>2, <2>4 DEF CopyInv, AheadInv
  <2>6. StartInv' /\ PlainInv'
    BY <2>1 DEF StartInv, PlainInv
  <2> QED BY <1>1, <2>1, <2>4, <2>5, <2>6 DEF SimdInv
<1> QED BY <1>5, <1>6 DEF SimdInv

(* Four passes at once, when every pass adds the same.                     *)
LEMMA ForwardIs ==
  ASSUME SimdInv, FastForward
  PROVE  /\ Steady(loop) /\ Fits(loop, entry) /\ lanes[0] \in Frame
         /\ \A k \in Lanes : lanes[k] = Ahead(loop, lanes[0], k)
         /\ lanes'[0] = Ahead(loop, lanes[0], 4)
         /\ \A k \in Lanes : lanes'[k] = Ahead(loop, lanes'[0], k)
         /\ delta = Difference(Ahead(loop, lanes'[0], 4), lanes'[0])
<1> DEFINE f == lanes[0]
           g == Ahead(loop, f, 4)
<1>1. /\ phase = "ahead" /\ Steady(loop) /\ Fits(loop, entry) /\ f \in Frame
      /\ \A k \in Lanes : lanes[k] = Ahead(loop, f, k)
      /\ delta = Difference(g, f)
  BY DEF SimdInv, CopyInv, AheadInv, Follows, FastForward
<1>2. lanes' = [k \in Lanes |-> Plus(lanes[k], delta)] /\ 0 \in Lanes
  BY DEF FastForward, Lanes
<1>3. Amount(loop, delta) /\ Plus(f, delta) = g
  BY <1>1, Again
<1>4. Simd(loop) /\ g \in Frame /\ delta \in Frame
  BY <1>1, <1>3, AheadStep DEF Steady, Amount
<1>5. lanes'[0] = g
  BY <1>2, <1>3
<1>6. ASSUME NEW k \in Lanes PROVE lanes'[k] = Ahead(loop, lanes'[0], k)
  <2>1. k \in Nat
    BY DEF Lanes
  <2>2. Ahead(loop, Plus(f, delta), k) = Plus(Ahead(loop, f, k), delta)
    BY <1>1, <1>3, <2>1, ShiftAhead
  <2> HIDE DEF f, g
  <2> QED BY <1>1, <1>2, <1>3, <1>5, <2>2
<1>7. Ahead(loop, g, 4) = Plus(g, delta)
  <2>1. Ahead(loop, Plus(f, delta), 4) = Plus(g, delta)
    BY <1>1, <1>3, ShiftAhead
  <2> HIDE DEF g, f
  <2> QED BY <1>3, <2>1
<1>8. Difference(Plus(g, delta), g) = delta
  <2>1. Difference(Plus(g, delta), Plus(f, delta)) = Difference(g, f)
    BY <1>1, <1>4, DifferencePlus
  <2> HIDE DEF g, f
  <2> QED BY <1>1, <1>3, <2>1
<1> HIDE DEF g
<1>9. delta = Difference(Ahead(loop, lanes'[0], 4), lanes'[0])
  BY <1>5, <1>7, <1>8
<1> QED BY <1>1, <1>5, <1>6, <1>9 DEF g

(* A frame that follows the registers still does after more passes.        *)
LEMMA AheadFollows ==
  ASSUME NEW l, NEW e, Fits(l, e), NEW f, Follows(l, e, f), NEW n \in Nat
  PROVE  Follows(l, e, Ahead(l, f, n))
<1>1. Simd(l) /\ f \in Frame
  BY DEF Fits, Follows
<1>2. Ahead(l, f, n) \in Frame
  BY <1>1, AheadStep
<1>3. \A r \in Regs \ Written(l) : Ahead(l, f, n)[r] = f[r]
  BY <1>1, AheadKeeps
<1> QED BY <1>2, <1>3 DEF Follows

LEMMA ForwardKeeps == ASSUME SimdInv, FastForward PROVE SimdInv'
<1>1. /\ loop' = loop /\ unit' = unit /\ entry' = entry /\ phase = "ahead" /\ phase' = "ahead"
      /\ limit' = limit /\ delta' = delta /\ DOMAIN lanes' = Lanes
  BY DEF FastForward
<1>2. Follows(loop, entry, lanes'[0])
  <2>1. Follows(loop, entry, lanes[0]) /\ Fits(loop, entry)
    BY <1>1 DEF SimdInv, CopyInv
  <2>2. Follows(loop, entry, Ahead(loop, lanes[0], 4))
    BY <2>1, AheadFollows
  <2> QED BY <2>2, ForwardIs
<1>3. CopyInv'
  BY <1>1, <1>2 DEF SimdInv, CopyInv
<1>4. AheadInv'
  <2>1. \A k \in Lanes : lanes'[k] = Ahead(loop, lanes'[0], k)
    BY ForwardIs
  <2>2. delta = Difference(Ahead(loop, lanes'[0], 4), lanes'[0]) /\ Steady(loop)
    BY ForwardIs
  <2> QED BY <1>1, <2>1, <2>2 DEF AheadInv
<1>5. StartInv' /\ PlainInv'
  BY <1>1 DEF StartInv, PlainInv
<1> QED BY <1>1, <1>3, <1>4, <1>5 DEF SimdInv

LEMMA ScalarKeeps == ASSUME SimdInv, ScalarPass PROVE SimdInv'
<1>1. /\ loop' = loop /\ unit' = unit /\ entry' = entry /\ phase = "scalar" /\ phase' = "scalar"
      /\ limit' = limit /\ DOMAIN lanes' = Lanes /\ lanes'[0] = Ahead(loop, lanes[0], 1)
  BY DEF SimdInv, ScalarPass, Lanes
<1>2. Follows(loop, entry, lanes'[0])
  <2>1. Follows(loop, entry, lanes[0]) /\ Fits(loop, entry)
    BY <1>1 DEF SimdInv, CopyInv
  <2> QED BY <1>1, <2>1, AheadFollows
<1>3. CopyInv'
  BY <1>1, <1>2 DEF SimdInv, CopyInv
<1> QED BY <1>1, <1>3 DEF SimdInv, StartInv, PlainInv, AheadInv

LEMMA NextInv == ASSUME SimdInv, [Next]_vars PROVE SimdInv'
<1>1. CASE EnterSimd
  BY <1>1, EnterKeeps
<1>2. CASE EnterPlain
  <2>1. /\ loop' = loop /\ unit' = unit /\ slots' = slots /\ lanes' = lanes
        /\ phase' = "plain" /\ ~Rewritten(loop) /\ slots \in Slots
    BY <1>2 DEF EnterPlain, SimdInv, StartInv
  <2>2. slots # Failed
    BY <2>1, LoopCodeAssumption
  <2> QED BY <2>1, <2>2 DEF SimdInv, StartInv, PlainInv, CopyInv, AheadInv
<1>3. CASE LimitFails \/ PlainLeave \/ PlainFail \/ ScalarLeave
  BY <1>3 DEF LimitFails, PlainLeave, PlainFail, ScalarLeave,
              SimdInv, StartInv, PlainInv, CopyInv, AheadInv
<1>4. CASE FastForward
  BY <1>4, ForwardKeeps
<1>5. CASE StopAhead
  BY <1>5 DEF StopAhead, SimdInv, StartInv, PlainInv, CopyInv, AheadInv
<1>6. CASE ScalarPass
  BY <1>6, ScalarKeeps
<1>7. CASE PlainPass
  BY <1>7 DEF PlainPass, SimdInv, StartInv, PlainInv, CopyInv, AheadInv
<1>8. CASE UNCHANGED vars
  BY <1>8 DEF vars, SimdInv, StartInv, PlainInv, CopyInv, AheadInv
<1> QED BY <1>1, <1>2, <1>3, <1>4, <1>5, <1>6, <1>7, <1>8 DEF Next

LEMMA AlwaysInv == ASSUME Careful = TRUE PROVE Spec => []SimdInv
BY InitInv, NextInv, PTL DEF Spec

(* LanesAhead: while the vector unit is used, its four copies are no, one, *)
(* two and three passes of the body ahead (run_avx2_simd_loop and          *)
(* run_neon_simd_loop), however often they were moved by delta.            *)
THEOREM LanesStayAhead == ASSUME Careful = TRUE PROVE Spec => []LanesAhead
<1>1. SimdInv => LanesAhead
  BY DEF SimdInv, AheadInv, LanesAhead
<1> QED BY <1>1, AlwaysInv, PTL

(* FourPasses: a fast forward is four passes of the body, none of which    *)
(* the comparison would have refused (all_active and add_delta).           *)
THEOREM ForwardIsFourPasses == ASSUME Careful = TRUE PROVE Spec => FourPasses
<1> DEFINE Four == FastForward =>
             /\ lanes'[0] = Ahead(loop, lanes[0], 4)
             /\ \A k \in Lanes : Active(Ahead(loop, lanes[0], k))
<1>1. ASSUME SimdInv, [Next]_vars PROVE [Four]_vars
  <2> SUFFICES ASSUME FastForward PROVE Four
    OBVIOUS
  <2>1. lanes'[0] = Ahead(loop, lanes[0], 4)
    BY <1>1, ForwardIs
  <2>2. ASSUME NEW k \in Lanes PROVE Active(Ahead(loop, lanes[0], k))
    <3>1. lanes[k] = Ahead(loop, lanes[0], k)
      BY <1>1, ForwardIs
    <3>2. Active(lanes[k])
      BY DEF FastForward, AllActive
    <3> QED BY <3>1, <3>2
  <2> QED BY <2>1, <2>2
<1> HIDE DEF Four
<1>2. Spec => [][Four]_vars
  BY <1>1, AlwaysInv, PTL DEF Spec
<1> QED BY <1>2 DEF FourPasses, Four

-----------------------------------------------------------------------------
(* The while statement has the operators of its loop code.                 *)
LEMMA SameSlots == W!Slots = Slots
BY DEF W!Slots, Slots, W!Word, Word, W!WordMin, WordMin

LEMMA SamePass ==
  /\ \A l, f : W!Pass(l, f) = Pass(l, f)
  /\ \A l, f, n : W!Passes(l, f, n) = Passes(l, f, n)
BY DEF W!Pass, Pass, W!Passes, Passes, W!Interpret, Interpret, W!Operand, Operand,
       W!Arith, Arith, W!Wrap, Wrap, W!Quotient, Quotient, W!Compare, Compare,
       W!Magnitude, Magnitude, W!WordMin, WordMin

LEMMA SameCompare ==
  /\ \A l, f : W!Comparable(l, f) <=> Comparable(l, f)
  /\ \A l, f : W!Continues(l, f) <=> Continues(l, f)
BY DEF W!Comparable, Comparable, W!Continues, Continues, W!Operand, Operand,
       W!Compare, Compare

LEMMA PassesOne ==
  ASSUME NEW l, NEW f
  PROVE  Passes(l, f, 0) = f /\ Passes(l, f, 1) = Pass(l, f)
<1>1. Passes(l, f, 0) = f
  <2> DEFINE Makes(h) == h = [k \in 0 .. 0 |-> IF k = 0 THEN f ELSE Pass(l, h[k - 1])]
             after == CHOOSE h : Makes(h)
  <2>1. Makes([k \in 0 .. 0 |-> f])
    OBVIOUS
  <2>2. Makes(after)
    <3> HIDE DEF Makes
    <3> QED BY <2>1
  <2>3. Passes(l, f, 0) = after[0]
    BY DEF Passes
  <2> HIDE DEF after
  <2> QED BY <2>2, <2>3
<1>2. Passes(l, f, 1) = Pass(l, f)
  <2> DEFINE Makes(h) == h = [k \in 0 .. 1 |-> IF k = 0 THEN f ELSE Pass(l, h[k - 1])]
             after == CHOOSE h : Makes(h)
             two == [k \in 0 .. 1 |-> IF k = 0 THEN f ELSE Pass(l, f)]
  <2>1. Makes(two)
    <3>1. two[0] = f /\ two[1] = Pass(l, f)
      OBVIOUS
    <3>2. \A k \in 0 .. 1 : two[k] = IF k = 0 THEN f ELSE Pass(l, two[k - 1])
      <4> SUFFICES ASSUME NEW k \in 0 .. 1
                   PROVE  two[k] = IF k = 0 THEN f ELSE Pass(l, two[k - 1])
        OBVIOUS
      <4>1. k = 0 \/ (k = 1 /\ k - 1 = 0)
        OBVIOUS
      <4> HIDE DEF two
      <4> QED BY <3>1, <4>1
    <3>3. two = [k \in 0 .. 1 |-> two[k]]
      OBVIOUS
    <3> HIDE DEF two
    <3> QED BY <3>2, <3>3
  <2>2. Makes(after)
    <3> HIDE DEF Makes
    <3> QED BY <2>1
  <2>3. Passes(l, f, 1) = after[1]
    BY DEF Passes
  <2> HIDE DEF after
  <2>4. after[0] = f /\ after[1] = Pass(l, after[0])
    BY <2>2
  <2> QED BY <2>3, <2>4
<1> QED BY <1>1, <1>2

(* What Seen is in each phase.                                             *)
LEMMA SeenIs ==
  ASSUME SimdInv
  PROVE  /\ phase = "start" => Seen = entry
         /\ phase \in {"ahead", "scalar"} => Seen = View(entry, lanes[0])
         /\ ~Rewritten(loop) => Seen = slots
<1>1. CASE ~Rewritten(loop)
  BY <1>1 DEF Seen, SimdInv, StartInv, CopyInv, Fits, Simd
<1>2. CASE Rewritten(loop)
  <2>1. ASSUME phase = "start" PROVE Seen = entry
    <3>1. slots = entry /\ entry \in Slots
      BY <2>1 DEF SimdInv, StartInv
    <3>2. Seen = [r \in Regs |-> IF entry[r] = Other THEN Other ELSE entry[r]]
      BY <1>2, <2>1, <3>1 DEF Seen
    <3> QED BY <3>1, <3>2 DEF Slots
  <2>2. ASSUME phase \in {"ahead", "scalar"} PROVE Seen = View(entry, lanes[0])
    BY <1>2, <2>2 DEF Seen, View
  <2> QED BY <1>2, <2>1, <2>2
<1> QED BY <1>1, <1>2

(* The steps, under the mapping: each one is a step of the while statement *)
(* or changes nothing that it shows.                                       *)
LEMMA InitMaps == ASSUME SimdInv, Init PROVE W!Init
<1>1. phase = "start" /\ entry \in Slots /\ loop \in Loops
  BY DEF Init, SimdInv, StartInv
<1>2. Seen = entry
  BY <1>1, SeenIs
<1> QED BY <1>1, <1>2, SameSlots DEF W!Init, Ended

LEMMA EnterMaps ==
  ASSUME SimdInv, SimdInv', EnterSimd \/ EnterPlain \/ StopAhead
  PROVE  UNCHANGED W!vars
<1>1. loop' = loop /\ entry' = entry /\ slots' = slots /\ Ended' = Ended
  BY DEF EnterSimd, EnterPlain, StopAhead, Ended
<1>2. CASE EnterSimd
  <2> DEFINE f == Ints(entry)
  <2>1. phase = "start" /\ slots = entry /\ entry \in Slots /\ phase' \in {"ahead", "scalar"}
    BY <1>2 DEF EnterSimd, SimdInv, StartInv
  <2>2. Seen = entry /\ Seen' = View(entry, lanes'[0])
    <3>1. Rewritten(loop)
      BY <1>2 DEF EnterSimd
    <3> QED BY <1>1, <2>1, <3>1, SeenIs DEF Seen, View
  <2>3. \A r \in Regs : entry[r] # Other => lanes'[0][r] = f[r]
    <3>1. CASE unit = "scalar"
      BY <1>2, <2>1, <3>1 DEF EnterSimd, SimdInv, Lanes
    <3>2. CASE unit = "vector"
      <4>1. lanes' = [k \in Lanes |-> Ahead(loop, f, k)] /\ 0 \in Lanes
        BY <1>2, <2>1, <3>2 DEF EnterSimd, Speculate, Lanes
      <4>2. f \in Frame
        BY <2>1, WordIs DEF Ints, Frame, Slots
      <4>3. Simd(loop)
        BY <1>2 DEF EnterSimd, Simd, SimdInv
      <4>4. Ahead(loop, f, 0) = f
        BY <4>2, <4>3, AheadStep
      <4> HIDE DEF f
      <4> QED BY <4>1, <4>4
    <3> QED BY <3>1, <3>2 DEF SimdInv
  <2>4. View(entry, lanes'[0]) = entry
    BY <2>1, <2>3 DEF View, Ints, Slots
  <2> QED BY <1>1, <2>2, <2>4 DEF W!vars
<1>3. CASE EnterPlain
  <2>1. ~Rewritten(loop) /\ ~Rewritten(loop')
    BY <1>1, <1>3 DEF EnterPlain
  <2>2. Seen = slots /\ Seen' = slots'
    BY <2>1 DEF Seen
  <2> QED BY <1>1, <2>2 DEF W!vars
<1>4. CASE StopAhead
  <2>1. phase = "ahead" /\ phase' = "scalar" /\ lanes' = lanes
    BY <1>4 DEF StopAhead
  <2>2. Seen' = Seen
    BY <1>1, <2>1 DEF Seen
  <2> QED BY <1>1, <2>2 DEF W!vars
<1> QED BY <1>2, <1>3, <1>4

(* n passes of the frame, each after a comparison that held.               *)
LEMMA PassesMap ==
  ASSUME SimdInv, SimdInv', phase \in {"ahead", "scalar"}, UNCHANGED <<loop, entry, phase>>,
         NEW n \in 1 .. 4,
         \A k \in 0 .. n - 1 : Active(Ahead(loop, lanes[0], k)),
         lanes'[0] = Ahead(loop, lanes[0], n)
  PROVE  W!Iterate
<1> DEFINE f == lanes[0]
<1>1. /\ Fits(loop, entry) /\ Follows(loop, entry, f) /\ f \in Frame /\ entry \in Slots
      /\ limit = Operand(entry, loop.limit)
  BY DEF SimdInv, CopyInv, Follows, Fits
<1>2. Seen = View(entry, f) /\ Ended = "running" /\ Ended' = Ended
  BY SeenIs DEF Ended
<1>3. Seen' = View(entry, lanes'[0])
  <2>1. Rewritten(loop) /\ phase' \in {"ahead", "scalar"} /\ loop' = loop /\ entry' = entry
    BY <1>1 DEF Fits, Simd
  <2> QED BY <2>1 DEF Seen, View
<1> HIDE DEF f
<1>4. ASSUME NEW k \in 0 .. n - 1
      PROVE  LET s == Passes(loop, Seen, k)
             IN  s # Failed /\ Comparable(loop, s) /\ Continues(loop, s)
  <2> DEFINE g == Ahead(loop, f, k)
  <2>1. k \in Nat
    OBVIOUS
  <2>2. Passes(loop, Seen, k) = View(entry, g) /\ Follows(loop, entry, g)
    BY <1>1, <1>2, <2>1, ViewPasses, AheadFollows
  <2>3. Active(g)
    BY DEF f
  <2> HIDE DEF g
  <2>4. View(entry, g) # Failed
    BY <1>1, <2>2, ViewIs DEF Follows
  <2>5. Compare(loop.cmp, g[loop.var.n], Operand(entry, loop.limit))
    BY <1>1, <2>3 DEF Active
  <2> QED BY <1>1, <2>2, <2>4, <2>5, ViewCompare
<1>5. Seen' = Passes(loop, Seen, n) /\ Seen' # Failed
  <2>1. Passes(loop, Seen, n) = View(entry, Ahead(loop, f, n))
    BY <1>1, <1>2, ViewPasses
  <2>2. Follows(loop, entry, Ahead(loop, f, n))
    BY <1>1, AheadFollows
  <2>3. View(entry, Ahead(loop, f, n)) # Failed
    BY <1>1, <2>2, ViewIs DEF Follows
  <2> QED BY <1>3, <2>1, <2>3 DEF f
<1> QED BY <1>2, <1>4, <1>5, SamePass, SameCompare DEF W!Iterate

LEMMA ForwardMaps == ASSUME SimdInv, SimdInv', FastForward PROVE W!Iterate
<1>1. phase = "ahead" /\ UNCHANGED <<loop, entry, phase>>
  BY DEF FastForward
<1>2. ASSUME NEW k \in 0 .. 4 - 1 PROVE Active(Ahead(loop, lanes[0], k))
  <2>1. k \in Lanes
    BY DEF Lanes
  <2>2. lanes[k] = Ahead(loop, lanes[0], k)
    BY <2>1, ForwardIs
  <2> QED BY <2>1, <2>2 DEF FastForward, AllActive
<1>3. lanes'[0] = Ahead(loop, lanes[0], 4)
  BY ForwardIs
<1>4. 4 \in 1 .. 4
  OBVIOUS
<1> QED BY <1>1, <1>2, <1>3, <1>4, PassesMap

LEMMA ScalarMaps == ASSUME SimdInv, SimdInv', ScalarPass PROVE W!Iterate
<1>1. phase = "scalar" /\ UNCHANGED <<loop, entry, phase>> /\ Active(lanes[0])
      /\ lanes'[0] = Ahead(loop, lanes[0], 1)
  BY DEF ScalarPass, SimdInv, Lanes
<1>2. Ahead(loop, lanes[0], 0) = lanes[0]
  BY <1>1, AheadStep DEF SimdInv, CopyInv, Fits, Follows
<1>3. \A k \in 0 .. 1 - 1 : Active(Ahead(loop, lanes[0], k))
  BY <1>1, <1>2
<1>4. 1 \in 1 .. 4
  OBVIOUS
<1> QED BY <1>1, <1>3, <1>4, PassesMap

LEMMA ScalarLeaveMaps == ASSUME SimdInv, SimdInv', ScalarLeave PROVE W!Leave
<1>1. /\ phase = "scalar" /\ phase' = "left" /\ loop' = loop /\ entry' = entry
      /\ slots' = lanes[0] /\ ~Active(lanes[0])
  BY DEF ScalarLeave
<1>2. /\ Fits(loop, entry) /\ Follows(loop, entry, lanes[0])
      /\ limit = Operand(entry, loop.limit)
  BY <1>1 DEF SimdInv, CopyInv
<1>3. Seen = View(entry, lanes[0])
  BY <1>1, SeenIs
<1>4. Seen' = Seen
  BY <1>1, <1>2 DEF Seen, Fits, Simd
<1>5. Comparable(loop, Seen) /\ ~Continues(loop, Seen)
  BY <1>1, <1>2, <1>3, ViewCompare DEF Active
<1>6. Ended = "running" /\ Ended' = "left"
  BY <1>1 DEF Ended
<1> QED BY <1>1, <1>4, <1>5, <1>6, SameCompare DEF W!Leave

LEMMA LimitFailsMaps == ASSUME SimdInv, SimdInv', LimitFails PROVE W!Fail
<1>1. /\ phase = "start" /\ phase' = "failed" /\ loop' = loop /\ entry' = entry
      /\ slots' = slots /\ slots = entry /\ Operand(entry, loop.limit) = Other
  BY DEF LimitFails, SimdInv, StartInv
<1>2. Seen = entry
  BY <1>1, SeenIs
<1>3. Seen' = Seen
  BY <1>1 DEF Seen
<1>4. ~Comparable(loop, Seen)
  BY <1>1, <1>2 DEF Comparable
<1>5. Ended = "running" /\ Ended' = "failed"
  BY <1>1 DEF Ended
<1> QED BY <1>1, <1>3, <1>4, <1>5, SameCompare DEF W!Fail

LEMMA PlainMaps ==
  ASSUME SimdInv, SimdInv'
  PROVE  /\ PlainPass => W!Iterate
         /\ PlainLeave => W!Leave
         /\ PlainFail => W!Fail
<1>1. ASSUME phase = "plain", loop' = loop
      PROVE  Seen = slots /\ Seen' = slots' /\ slots # Failed /\ Ended = "running"
  BY <1>1 DEF SimdInv, PlainInv, Seen, Ended
<1>2. ASSUME PlainPass PROVE W!Iterate
  <2>1. phase = "plain" /\ loop' = loop /\ phase' = phase /\ slots' = Pass(loop, slots)
        /\ slots' # Failed /\ Comparable(loop, slots) /\ Continues(loop, slots)
    BY <1>2 DEF PlainPass
  <2>2. Seen = slots /\ Seen' = slots' /\ slots # Failed /\ Ended = "running" /\ Ended' = Ended
    BY <1>1, <2>1 DEF Ended
  <2>3. Passes(loop, Seen, 0) = Seen /\ Passes(loop, Seen, 1) = Pass(loop, Seen)
    BY PassesOne
  <2>4. \A k \in 0 .. 1 - 1 : k = 0
    OBVIOUS
  <2>5. 1 \in 1 .. 4
    OBVIOUS
  <2> QED BY <2>1, <2>2, <2>3, <2>4, <2>5, SamePass, SameCompare DEF W!Iterate
<1>3. ASSUME PlainLeave PROVE W!Leave
  <2>1. phase = "plain" /\ loop' = loop /\ phase' = "left" /\ slots' = slots
        /\ Comparable(loop, slots) /\ ~Continues(loop, slots)
    BY <1>3 DEF PlainLeave
  <2>2. Seen = slots /\ Seen' = Seen /\ Ended = "running" /\ Ended' = "left"
    BY <1>1, <2>1 DEF Ended
  <2> QED BY <2>1, <2>2, SameCompare DEF W!Leave
<1>4. ASSUME PlainFail PROVE W!Fail
  <2>1. phase = "plain" /\ loop' = loop /\ phase' = "failed" /\ slots' = slots
    BY <1>4 DEF PlainFail
  <2>2. \/ ~Comparable(loop, slots)
        \/ /\ Comparable(loop, slots) /\ Continues(loop, slots)
           /\ Pass(loop, slots) = Failed
    BY <1>4 DEF PlainFail
  <2>3. Seen = slots /\ Seen' = Seen /\ Ended = "running" /\ Ended' = "failed"
    BY <1>1, <2>1 DEF Ended
  <2> QED BY <2>1, <2>2, <2>3, SamePass, SameCompare DEF W!Fail
<1> QED BY <1>2, <1>3, <1>4

LEMMA StepMaps ==
  ASSUME SimdInv, SimdInv', [Next]_vars
  PROVE  [W!Next]_W!vars
<1>1. CASE EnterSimd \/ EnterPlain \/ StopAhead
  BY <1>1, EnterMaps
<1>2. CASE FastForward
  BY <1>2, ForwardMaps DEF W!Next
<1>3. CASE ScalarPass
  BY <1>3, ScalarMaps DEF W!Next
<1>4. CASE ScalarLeave
  BY <1>4, ScalarLeaveMaps DEF W!Next
<1>5. CASE LimitFails
  BY <1>5, LimitFailsMaps DEF W!Next
<1>6. CASE PlainPass \/ PlainLeave \/ PlainFail
  BY <1>6, PlainMaps DEF W!Next
<1>7. CASE UNCHANGED vars
  BY <1>7 DEF vars, W!vars, Seen, Ended
<1> QED BY <1>1, <1>2, <1>3, <1>4, <1>5, <1>6, <1>7 DEF Next

(* ImplementsWhile: a loop that rewrite_simd_loops replaced runs, fails    *)
(* and ends as the while statement does, and leaves the same integers.     *)
THEOREM SimdIsWhile == ASSUME Careful = TRUE PROVE Spec => ImplementsWhile
<1>1. SimdInv /\ Init => W!Init
  BY InitMaps
<1>2. SimdInv /\ SimdInv' /\ [Next]_vars => [W!Next]_W!vars
  BY StepMaps
<1>3. Spec => W!Spec
  BY <1>1, <1>2, AlwaysInv, PTL DEF Spec, W!Spec
<1> QED BY <1>3 DEF ImplementsWhile
=============================================================================
