---------------------------- MODULE TaskTableInv ----------------------------
(* The inductive invariant from which TaskTableProofs derives the safety    *)
(* properties of TaskTable.  Each part says what one group of variables     *)
(* means; TLC checks them all before they are proved.                       *)
EXTENDS TaskTable

Ended == {"freeArgs", "complete", "destroy", "deinit", "exited"}

\* The stages of a thread.
StagesInv ==
  /\ pc[Main] \in MainPc
  /\ \A t \in Ids : pc[t] \in TaskPc
  /\ arena[Main] <=> pc[Main] \notin {"unwound", "exited"}
  /\ \A t \in Ids : arena[t] <=> pc[t] \notin {"unborn", "started", "exited"}

\* A slot that reserve() has not handed out yet is nobody's.
FreshInv ==
  \A t \in Ids : t >= len =>
    /\ pc[t] = "unborn" /\ tasks[t].thread = "undefined"
    /\ joiner[t] = None

\* A spawner is a VM that is older than the task.
ParentInv ==
  \A t \in Spawned : parent[t] = Main \/ parent[t] \in 0 .. t - 1

\* A thread that has not run has returned nothing, and neither has a
\* program that is still running.
ReturnInv ==
  \A v \in VMs :
    IF pc[v] \in Ended \cup {"unwound"}
      THEN ret[v] \in Outcomes
      ELSE ret[v] = None

\* When the slot is done, and with which outcome.
DoneInv ==
  \A t \in Ids :
    /\ tasks[t].state = "done" <=>
         \/ pc[t] \in {"destroy", "deinit", "exited"}
         \/ pc[t] = "freeArgs" /\ ret[t] = Failed
    /\ tasks[t].state = "done" => tasks[t].outcome = ret[t]

\* The operand of the spawn or sync instruction in progress.
OperandInv ==
  \A v \in VMs :
    /\ pc[v] \in {"spawn", "setThread"} =>
         /\ cur[v] \in Spawned /\ parent[cur[v]] = v
         /\ pc[v] = "spawn" <=> pc[cur[v]] = "unborn"
    /\ pc[v] \in {"join", "joined"} =>
         /\ cur[v] \in knows[v] /\ joiner[cur[v]] = v /\ got[cur[v]] = None
    /\ pc[v] = "joined" => pc[cur[v]] = "exited"

\* A sync that has delivered something joined the thread first.
JoinerInv ==
  \A t \in Ids : got[t] # None => joiner[t] # None /\ pc[t] = "exited"

(* The handles that a VM has in its registers or returned, and the one its *)
(* spawn instruction is about to write.                                    *)
Pending(v) == IF pc[v] \in {"spawn", "setThread"} THEN {cur[v]} ELSE {}
Held(v) == knows[v] \cup HandlesIn(ret[v])
HandlesOf(v) == Held(v) \cup Pending(v)

HandleInv ==
  \A v \in VMs : \A t \in Held(v) : t \in Spawned /\ tasks[t].thread = "set"

(* The inductive core of NoWaitCycle: in every set of tasks there is one   *)
(* that has no handle of a task of the set.                                *)
HandlesWellFounded ==
  \A S \in SUBSET Ids : S # {} => \E t \in S : HandlesOf(t) \cap S = {}

IndInv ==
  /\ TypeOK
  /\ StagesInv
  /\ FreshInv
  /\ ParentInv
  /\ ReturnInv
  /\ DoneInv
  /\ OperandInv
  /\ JoinerInv
  /\ HandleInv
  /\ HandlesWellFounded
  /\ FreedStorageNeedsAbandonedTask
=============================================================================
