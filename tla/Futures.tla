------------------------------ MODULE Futures ------------------------------
(***************************************************************************)
(* What `spawn` and `sync` promise a BearVM program, with no threads, no   *)
(* mutex and no memory: a launched task gets an outcome at most once, the  *)
(* outcome never changes, and what a sync delivers is that outcome.        *)
(***************************************************************************)
CONSTANTS
  Ids,       \* identifiers of tasks
  Outcomes,  \* what a task can end with
  None       \* no outcome yet, not one of Outcomes

VARIABLES
  pending,   \* launched, not yet finished
  outcome,   \* how each task ended
  seen       \* what the sync of each task delivered

vars == <<pending, outcome, seen>>

Init ==
  /\ pending = {}
  /\ outcome = [t \in Ids |-> None]
  /\ seen = [t \in Ids |-> None]

Launch(t) ==
  /\ t \notin pending
  /\ outcome[t] = None
  /\ pending' = pending \cup {t}
  /\ UNCHANGED <<outcome, seen>>

Resolve(t) ==
  /\ t \in pending
  /\ \E o \in Outcomes : outcome' = [outcome EXCEPT ![t] = o]
  /\ pending' = pending \ {t}
  /\ UNCHANGED seen

Deliver(t) ==
  /\ outcome[t] # None
  /\ seen[t] = None
  /\ seen' = [seen EXCEPT ![t] = outcome[t]]
  /\ UNCHANGED <<pending, outcome>>

Next == \E t \in Ids : Launch(t) \/ Resolve(t) \/ Deliver(t)

Spec == Init /\ [][Next]_vars
=============================================================================
