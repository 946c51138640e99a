------------------------------- MODULE Purity -------------------------------
(***************************************************************************)
(* Vm.init of the Zig virtual machine decides which functions run on the   *)
(* integer engine.  finish() marks the functions whose own code has no     *)
(* instruction that the integer engine lacks; propagatePurity() then walks *)
(* over the functions, in order and until a walk changes nothing, and      *)
(* takes the mark from every function that calls an unmarked one.          *)
(*                                                                         *)
(* The program is arbitrary: `calls` and `clean` are fixed by Init.        *)
(***************************************************************************)
EXTENDS Integers

CONSTANT NumFns   \* how many functions the program has

ASSUME NumFnsAssumption == NumFns \in Nat \ {0}

Fns == 0 .. NumFns - 1

VARIABLES
  calls,    \* the functions that each function's code calls
  clean,    \* the functions finish() marked
  pure,     \* the functions that still have their mark (pure_int)
  next,     \* the next function of the walk
  changed,  \* has this walk taken a mark?
  walking   \* FALSE when propagatePurity() has returned

purityVars == <<calls, clean, pure, next, changed, walking>>

PurityTypeOK ==
  /\ calls \in [Fns -> SUBSET Fns]
  /\ clean \in SUBSET Fns
  /\ pure \in SUBSET Fns
  /\ next \in 0 .. NumFns
  /\ changed \in BOOLEAN
  /\ walking \in BOOLEAN

PurityInit ==
  /\ calls \in [Fns -> SUBSET Fns]
  /\ clean \in SUBSET Fns
  /\ pure = clean
  /\ next = 0
  /\ changed = FALSE
  /\ walking = TRUE

Closed(S) == \A f \in S : calls[f] \subseteq S

\* Mutant: the walk does not notice that it changed something.
VisitOnce ==
  /\ walking /\ next < NumFns
  /\ IF next \in pure /\ ~(calls[next] \subseteq pure)
       THEN pure' = pure \ {next}
       ELSE UNCHANGED pure
  /\ next' = next + 1
  /\ UNCHANGED <<calls, clean, changed, walking>>

\* Mutant: a function loses its mark even if it only calls itself.
VisitSelf ==
  /\ walking /\ next < NumFns
  /\ IF next \in pure /\ ~(calls[next] \subseteq pure \ {next})
       THEN pure' = pure \ {next} /\ changed' = TRUE
       ELSE UNCHANGED <<pure, changed>>
  /\ next' = next + 1
  /\ UNCHANGED <<calls, clean, walking>>

Visit ==
  /\ walking /\ next < NumFns
  /\ IF next \in pure /\ ~(calls[next] \subseteq pure)
       THEN pure' = pure \ {next} /\ changed' = TRUE
       ELSE UNCHANGED <<pure, changed>>
  /\ next' = next + 1
  /\ UNCHANGED <<calls, clean, walking>>

\* Mutant: `changed` is not reset at the start of a walk.
AnotherWalkStillChanged ==
  /\ walking /\ next = NumFns /\ changed
  /\ next' = 0
  /\ UNCHANGED <<calls, clean, pure, changed, walking>>

AnotherWalk ==
  /\ walking /\ next = NumFns /\ changed
  /\ next' = 0
  /\ changed' = FALSE
  /\ UNCHANGED <<calls, clean, pure, walking>>

WalksEnd ==
  /\ walking /\ next = NumFns /\ ~changed
  /\ walking' = FALSE
  /\ UNCHANGED <<calls, clean, pure, next, changed>>

Propagate == Visit \/ AnotherWalk \/ WalksEnd

PuritySpec == PurityInit /\ [][Propagate]_purityVars

FairPuritySpec == PuritySpec /\ WF_purityVars(Propagate)

-----------------------------------------------------------------------------
(* What execCompiledInt relies on when it calls a function without looking *)
(* at its mark: with propagatePurity() done, marked functions call only    *)
(* marked functions.                                                       *)
PureIsClosed == ~walking => pure \subseteq clean /\ Closed(pure)

(* No function loses its mark for nothing: whatever closed set of clean    *)
(* functions one takes, mutual recursion included, keeps all its marks.    *)
PureIsLargest == \A S \in SUBSET clean : Closed(S) => S \subseteq pure

(* A walk that has taken no mark has left only functions behind that call  *)
(* marked functions: the inductive core of PureIsClosed.                   *)
WalkInv ==
  /\ pure \subseteq clean
  /\ ~changed => \A f \in pure : f < next => calls[f] \subseteq pure
  /\ ~walking => next = NumFns /\ ~changed

PurityInv == PurityTypeOK /\ WalkInv /\ PureIsLargest

\* propagatePurity() returns, whatever the program.
WalksTerminate == <>(~walking)
=============================================================================
