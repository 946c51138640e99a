---------------------------- MODULE MCSimdLoop -----------------------------
(* Loops for the model checker: register 0 counts, register 1 is changed   *)
(* by the body, register 2 is only read.                                   *)
EXTENDS SimdLoop

ReadOnly == 2
Up == Ins("add", 0, Reg(0), Lit(1))
Down == Ins("sub", 0, Reg(0), Lit(1))

Bodies == {
  <<Up>>, <<Down>>,
  <<Up, Ins("add", 1, Reg(1), Reg(2))>>,
  <<Ins("sub", 1, Reg(1), Lit(3)), Ins("add", 0, Reg(0), Lit(2))>>,
  <<Up, Up, Ins("add", 1, Reg(1), Lit(5))>>,
  <<Ins("add", 0, Reg(0), Reg(2))>>,
  <<Up, Ins("add", 1, Reg(1), Reg(0))>>,
  <<Up, Ins("mul", 1, Reg(1), Reg(2)), Ins("div", 1, Reg(1), Lit(2))>>,
  <<Ins("move", 1, Reg(0), Lit(0)), Up>>,
  <<Down, Ins("gt", 1, Reg(0), Lit(2))>>,
  <<Up, Ins("eq", 1, Reg(0), Reg(2))>>,
  <<Up, Ins("eq", 1, Reg(0), Reg(2)), Ins("div", 0, Reg(0), Reg(2))>>}

MCLoops ==
  [cmp : {"lt", "gt"}, var : {Reg(0), Lit(1)}, limit : {Reg(ReadOnly), Lit(5)},
   body : Bodies]

(* The loop of sum_to in samples/bench.bear.                               *)
SumTo ==
  {[cmp |-> "lt", var |-> Reg(0), limit |-> Reg(ReadOnly),
    body |-> <<Up, Ins("add", 1, Reg(1), Reg(0))>>]}

MCStart == {WordMin, -2, 0, 3, WordMax, Other}
FromZero == {0, WordMax}
=============================================================================
