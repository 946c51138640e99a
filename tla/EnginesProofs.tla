--------------------------- MODULE EnginesProofs ----------------------------
(* Proof that a function whose registers all have a bit, in a program that  *)
(* takes no liberties, does the same on both engines, for words of any size.*)
EXTENDS Engines, TLAPS

\* Functions over the registers, and a mask of registers.
Shape ==
  /\ env = [r \in Regs |-> env[r]]
  /\ raw = [r \in Regs |-> raw[r]]

EnginesInv == Shape /\ RegistersAgree /\ ResultsAgree

\* A register as RegistersAgree wants it.
Agrees(v, w, bit) == v.tag # "void" => (IF bit THEN ABool(w # 0) ELSE AnInt(w)) = v

\* An integer that the registers agree on is the same word.
LEMMA SameWord ==
  ASSUME RegistersAgree, NEW r \in Regs, IsInt(r)
  PROVE  r \notin bools /\ raw[r] = env[r].n
<1>1. Result(r) = env[r] /\ env[r].tag = "int"
  BY DEF RegistersAgree, IsInt
<1>2. CASE r \in bools
  <2>1. env[r] = ABool(raw[r] # 0)
    BY <1>1, <1>2 DEF Result
  <2>2. env[r].tag = "bool"
    BY <2>1 DEF ABool
  <2> QED BY <1>1, <2>2
<1>3. CASE r \notin bools
  <2>1. env[r] = AnInt(raw[r])
    BY <1>1, <1>3 DEF Result
  <2>2. env[r].n = raw[r]
    BY <2>1 DEF AnInt
  <2> QED BY <1>3, <2>2
<1> QED BY <1>2, <1>3

\* Writing one register of both engines with values that agree.
LEMMA WriteRegister ==
  ASSUME EnginesInv, NumRegs \in Nat, NumRegs <= MaskBits, MaskBits \in Nat,
         NEW d \in Regs, NEW v, NEW w, NEW on \in BOOLEAN,
         env' = [env EXCEPT ![d] = v], raw' = [raw EXCEPT ![d] = w], SetBit(d, on),
         Agrees(v, w, on), UNCHANGED <<valueEnd, intEnd>>
  PROVE  EnginesInv'
<1>1. d \in bools' <=> on
  BY DEF SetBit, Regs
<1>2. \A r \in Regs : r # d => (r \in bools' <=> r \in bools)
  BY DEF SetBit
<1>3. /\ env'[d] = v /\ raw'[d] = w
      /\ \A r \in Regs : r # d => env'[r] = env[r] /\ raw'[r] = raw[r]
  BY DEF EnginesInv, Shape
<1>4. RegistersAgree'
  <2> SUFFICES ASSUME NEW r \in Regs, env'[r].tag # "void"
               PROVE  (IF r \in bools' THEN ABool(raw'[r] # 0) ELSE AnInt(raw'[r])) = env'[r]
    BY DEF RegistersAgree, Result, ABool, AnInt
  <2>1. CASE r = d
    BY <1>1, <1>3, <2>1 DEF Agrees
  <2>2. CASE r # d
    BY <1>2, <1>3, <2>2 DEF EnginesInv, RegistersAgree, Result
  <2> QED BY <2>1, <2>2
<1>5. Shape'
  BY DEF EnginesInv, Shape
<1> QED BY <1>4, <1>5 DEF EnginesInv, ResultsAgree

\* The engines start alike, unless a parameter is a bool.
LEMMA InitAgrees ==
  ASSUME Liberties = {} PROVE Init => EnginesInv
<1> SUFFICES ASSUME Init PROVE EnginesInv
  OBVIOUS
<1>1. Shape
  BY DEF Init, Shape
<1>2. RegistersAgree
  BY DEF Init, RegistersAgree, Result, Arguments, AnInt, AVoid
<1> QED BY <1>1, <1>2 DEF Init, EnginesInv, ResultsAgree

\* Every instruction keeps the engines alike.
LEMMA StepAgrees ==
  ASSUME NumRegs \in Nat, NumRegs <= MaskBits, MaskBits \in Nat, Liberties = {}
  PROVE  EnginesInv /\ [Next]_vars => EnginesInv'
<1> SUFFICES ASSUME EnginesInv, [Next]_vars PROVE EnginesInv'
  OBVIOUS
<1>0. RegistersAgree
  BY DEF EnginesInv
<1>1. ASSUME NEW d \in Regs, NEW n \in Word, LoadInt(d, n)
      PROVE  EnginesInv'
  <2>1. Agrees(AnInt(n), n, FALSE)
    BY DEF Agrees
  <2> QED BY <1>1, <2>1, WriteRegister DEF LoadInt, Going
<1>2. ASSUME NEW d \in Regs, NEW v \in Value, CallUser(d, v)
      PROVE  EnginesInv'
  <2>1. Agrees(v, v.n, v.tag = "bool")
    BY DEF Agrees, Value, AnInt, ABool, AVoid
  <2> QED BY <1>2, <2>1, WriteRegister DEF CallUser, Going
<1>3. ASSUME NEW d \in Regs, NEW a \in Regs, Move(d, a) \/ Phi(d, a)
      PROVE  EnginesInv'
  <2>1. Agrees(env[a], raw[a], a \in bools)
    BY <1>0 DEF Agrees, RegistersAgree, Result
  <2>2. a < MaskBits
    BY DEF Regs
  <2>3. /\ env' = [env EXCEPT ![d] = env[a]] /\ raw' = [raw EXCEPT ![d] = raw[a]]
        /\ UNCHANGED <<valueEnd, intEnd>>
    BY <1>3 DEF Move, Phi, Going
  <2>4. SetBit(d, a \in bools)
    BY <1>3, <2>2 DEF Move, Phi
  <2> DEFINE on == a \in bools
  <2>5. on \in BOOLEAN /\ SetBit(d, on) /\ Agrees(env[a], raw[a], on)
    BY <2>1, <2>4
  <2> HIDE DEF on
  <2> QED BY <2>3, <2>5, WriteRegister
<1>4. ASSUME NEW d \in Regs, NEW a \in Regs, NEW b \in Regs, NEW op, ArithOp(op, d, a, b)
      PROVE  EnginesInv'
  <2>1. raw[a] = env[a].n /\ raw[b] = env[b].n
    BY <1>0, <1>4, SameWord DEF ArithOp
  <2> DEFINE w == Arith(op, raw[a], raw[b])
  <2>2. Agrees(AnInt(w), w, FALSE)
    BY DEF Agrees
  <2>3. /\ env' = [env EXCEPT ![d] = AnInt(w)] /\ raw' = [raw EXCEPT ![d] = w]
        /\ SetBit(d, FALSE) /\ UNCHANGED <<valueEnd, intEnd>>
    BY <1>4, <2>1 DEF ArithOp, Going
  <2> HIDE DEF w
  <2> QED BY <2>2, <2>3, WriteRegister
<1>5. ASSUME NEW d \in Regs, NEW a \in Regs, NEW b \in Regs, NEW op, CompareOp(op, d, a, b)
      PROVE  EnginesInv'
  <2>1. raw[a] = env[a].n /\ raw[b] = env[b].n
    BY <1>0, <1>5, SameWord DEF CompareOp
  <2> DEFINE c == Compare(op, raw[a], raw[b])
             w == IF c THEN 1 ELSE 0
  <2>2. Agrees(ABool(c), w, TRUE)
    BY DEF Agrees, ABool
  <2>3. /\ env' = [env EXCEPT ![d] = ABool(c)] /\ raw' = [raw EXCEPT ![d] = w]
        /\ SetBit(d, TRUE) /\ UNCHANGED <<valueEnd, intEnd>>
    BY <1>5, <2>1 DEF CompareOp, Going
  <2> HIDE DEF c, w
  <2> QED BY <2>2, <2>3, WriteRegister
<1>6. ASSUME NEW r \in Regs, Return(r)
      PROVE  EnginesInv'
  <2>1. env[r].tag # "void"
    BY <1>6 DEF Return, MayRead
  <2>2. Result(r) = env[r]
    BY <1>0, <2>1 DEF RegistersAgree
  <2> QED BY <1>6, <2>2 DEF Return, EnginesInv, Shape, RegistersAgree, Result, ResultsAgree
<1>7. CASE Fail \/ ReturnVoid
  BY <1>7 DEF Fail, ReturnVoid, EnginesInv, Shape, RegistersAgree, Result, ResultsAgree
<1>8. CASE UNCHANGED vars
  BY <1>8 DEF vars, EnginesInv, Shape, RegistersAgree, Result, ResultsAgree
<1> QED BY <1>1, <1>2, <1>3, <1>4, <1>5, <1>6, <1>7, <1>8 DEF Next

\* From the start, and with every step.
LEMMA EnginesInvariance ==
  ASSUME NumRegs <= MaskBits, Liberties = {}
  PROVE  Spec => []EnginesInv
<1>1. NumRegs \in Nat /\ MaskBits \in Nat
  BY EnginesAssumption
<1>2. Init => EnginesInv
  BY InitAgrees
<1>3. EnginesInv /\ [Next]_vars => EnginesInv'
  BY <1>1, StepAgrees
<1> QED BY <1>2, <1>3, PTL DEF Spec

\* With a bit for every register and no liberties, word and bit of a register
\* determine its value.
THEOREM RegistersAlwaysAgree ==
  ASSUME NumRegs <= MaskBits, Liberties = {}
  PROVE  Spec => []RegistersAgree
<1>1. EnginesInv => RegistersAgree
  BY DEF EnginesInv
<1> QED BY <1>1, EnginesInvariance, PTL

\* And the result of a function does not tell the engines apart.
THEOREM EnginesAgree ==
  ASSUME NumRegs <= MaskBits, Liberties = {}
  PROVE  Spec => []ResultsAgree
<1>1. EnginesInv => ResultsAgree
  BY DEF EnginesInv
<1> QED BY <1>1, EnginesInvariance, PTL

-----------------------------------------------------------------------------
\* What is left of the agreement in functions with more registers than the
\* mask has bits, and when bools are passed as arguments.
WordsAgree == \A r \in Regs : env[r].tag # "void" => raw[r] = env[r].n

WordsInv == Shape /\ WordsAgree

\* Writing one register of both engines with the same word.
LEMMA WriteWord ==
  ASSUME WordsInv, NEW d \in Regs, NEW v, NEW w,
         env' = [env EXCEPT ![d] = v], raw' = [raw EXCEPT ![d] = w],
         v.tag # "void" => w = v.n
  PROVE  WordsInv'
BY DEF WordsInv, Shape, WordsAgree

\* Every instruction reads and writes the same words in both engines.
LEMMA WordsStep == WordsInv /\ [Next]_vars => WordsInv'
<1> SUFFICES ASSUME WordsInv, [Next]_vars PROVE WordsInv'
  OBVIOUS
<1>0. \A r \in Regs : IsInt(r) => raw[r] = env[r].n
  BY DEF WordsInv, WordsAgree, IsInt
<1>1. ASSUME NEW d \in Regs, NEW n \in Word, LoadInt(d, n)
      PROVE  WordsInv'
  BY <1>1, WriteWord DEF LoadInt, AnInt
<1>2. ASSUME NEW d \in Regs, NEW v \in Value, CallUser(d, v)
      PROVE  WordsInv'
  BY <1>2, WriteWord DEF CallUser
<1>3. ASSUME NEW d \in Regs, NEW a \in Regs, Move(d, a) \/ Phi(d, a)
      PROVE  WordsInv'
  <2>1. env[a].tag # "void" => raw[a] = env[a].n
    BY DEF WordsInv, WordsAgree
  <2> QED BY <1>3, <2>1, WriteWord DEF Move, Phi
<1>4. ASSUME NEW d \in Regs, NEW a \in Regs, NEW b \in Regs, NEW op, ArithOp(op, d, a, b)
      PROVE  WordsInv'
  <2> DEFINE w == Arith(op, raw[a], raw[b])
  <2>1. env' = [env EXCEPT ![d] = AnInt(w)] /\ raw' = [raw EXCEPT ![d] = w]
    BY <1>0, <1>4 DEF ArithOp
  <2>2. AnInt(w).n = w
    BY DEF AnInt
  <2> HIDE DEF w
  <2> QED BY <2>1, <2>2, WriteWord
<1>5. ASSUME NEW d \in Regs, NEW a \in Regs, NEW b \in Regs, NEW op, CompareOp(op, d, a, b)
      PROVE  WordsInv'
  <2> DEFINE c == Compare(op, raw[a], raw[b])
             w == IF c THEN 1 ELSE 0
  <2>1. env' = [env EXCEPT ![d] = ABool(c)] /\ raw' = [raw EXCEPT ![d] = w]
    BY <1>0, <1>5 DEF CompareOp
  <2>2. ABool(c).n = w
    BY DEF ABool
  <2> HIDE DEF c, w
  <2> QED BY <2>1, <2>2, WriteWord
<1>6. CASE UNCHANGED <<env, raw>>
  BY <1>6 DEF WordsInv, Shape, WordsAgree
<1> QED BY <1>1, <1>2, <1>3, <1>4, <1>5, <1>6
    DEF Next, Return, Fail, ReturnVoid, vars

\* However many registers there are, and whether arguments are bools or not,
\* both engines compute with the same words: what a bool in a register that
\* has no bit, or in an argument, loses is its tag alone (bool_regs,
\* callFuncByIdx).
THEOREM WordsAlwaysAgree == Spec => []WordsAgree
<1>1. Init => WordsInv
  BY DEF Init, WordsInv, Shape, WordsAgree, AVoid, Params, Regs
<1>2. WordsInv => WordsAgree
  BY DEF WordsInv
<1> QED BY <1>1, <1>2, WordsStep, PTL DEF Spec
=============================================================================
