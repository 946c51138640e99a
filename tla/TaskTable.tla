----------------------------- MODULE TaskTable -----------------------------
(***************************************************************************)
(* `spawn` and `sync` of the Zig virtual machine (vm/vm.zig): the shared   *)
(* TaskTable, the spawning VM, the thread of a task (spawnEntry) and the   *)
(* three steps of a join.                                                  *)
(*                                                                         *)
(* Every VM, the main one and one per task, runs an arbitrary program: at  *)
(* "run" it may spawn, sync a handle it has, return or fail.  A handle is  *)
(* the integer spawn leaves in a register; a program gets one by spawning, *)
(* as an argument of its function or as the result of a sync.  (A program  *)
(* that makes a handle out of an integer constant is not modelled.)        *)
(*                                                                         *)
(* Each VM allocates from an arena of its own; `arena` says which exist.   *)
(* Main's entry stands for what run() owns: the task table and main's VM.  *)
(***************************************************************************)
EXTENDS Integers

CONSTANTS
  MaxTasks,  \* bound on the tasks of a run (the table itself grows freely)
  Main,      \* the VM that run() creates
  None,      \* no VM, no task, no outcome
  Void,      \* a result that lives nowhere: an integer, a literal, void
  Own,       \* a result that points into the arena of the task
  Failed,    \* the error a task ended with
  Results    \* which of Void and Own the programs return, besides handles

Ids == 0 .. MaxTasks - 1
VMs == Ids \cup {Main}
Outcomes == Ids \cup {Void, Own, Failed}

ASSUME MaxTasksAssumption == MaxTasks \in Nat \ {0}

ASSUME SentinelAssumption ==
  /\ Main \notin Ids /\ None \notin VMs \cup Outcomes
  /\ {Void, Own, Failed} \cap Ids = {}
  /\ Void # Own /\ Void # Failed /\ Own # Failed

ASSUME ResultsAssumption == Results \subseteq {Void, Own}

VARIABLES
  tasks,   \* TaskTable.tasks: the slot of each id
  len,     \* how many slots have been reserved
  pc,      \* where each VM is
  cur,     \* the task id the VM's spawn or sync instruction works on
  ret,     \* what the task's function returned, until complete() stores it
  knows,   \* the handles in each VM's registers
  parent,  \* the VM that spawned the task, whose arena holds its SpawnArgs
  joiner,  \* the VM that claimed the task's thread by a join
  got,     \* what the sync of the task put into the joiner's register
  arena,   \* is the storage of this VM still allocated?
  fault    \* "none", or the undefined behaviour the process ran into

vars == <<tasks, len, pc, cur, ret, knows, parent, joiner, got, arena, fault>>

Slot == [thread : {"undefined", "set"}, state : {"running", "done"}, outcome : Outcomes]

MainPc == {"run", "spawn", "setThread", "join", "joined", "unwound", "exited"}
TaskPc == (MainPc \ {"unwound"}) \cup
          {"unborn", "started", "freeArgs", "complete", "destroy", "deinit"}

TypeOK ==
  /\ tasks \in [Ids -> Slot]
  /\ len \in 0 .. MaxTasks
  /\ pc \in [VMs -> MainPc \cup TaskPc]
  /\ cur \in [VMs -> Ids \cup {None}]
  /\ ret \in [VMs -> Outcomes \cup {None}]
  /\ knows \in [VMs -> SUBSET Ids]
  /\ parent \in [Ids -> VMs \cup {None}]
  /\ joiner \in [Ids -> VMs \cup {None}]
  /\ got \in [Ids -> Outcomes \cup {None}]
  /\ arena \in [VMs -> BOOLEAN]
  /\ fault \in {"none", "doubleJoin", "useAfterFree"}

\* The slot reserve() appends: no thread yet, running, result void, no error.
NewSlot == [thread |-> "undefined", state |-> "running", outcome |-> Void]

Init ==
  /\ tasks = [t \in Ids |-> NewSlot]
  /\ len = 0
  /\ pc = [v \in VMs |-> IF v = Main THEN "run" ELSE "unborn"]
  /\ cur = [v \in VMs |-> None]
  /\ ret = [v \in VMs |-> None]
  /\ knows = [v \in VMs |-> {}]
  /\ parent = [t \in Ids |-> None]
  /\ joiner = [t \in Ids |-> None]
  /\ got = [t \in Ids |-> None]
  /\ arena = [v \in VMs |-> v = Main]
  /\ fault = "none"

Alive == fault = "none" /\ pc[Main] # "exited"

-----------------------------------------------------------------------------
(* The end of the function a VM runs, with result or error r: its registers *)
(* are gone.  A task goes on in spawnEntry: a success frees the arguments   *)
(* and then completes, a failure completes and then frees them.  Main       *)
(* leaves run(): its VM and the task table go, whatever the tasks do.       *)
EndProgram(v, r) ==
  /\ ret' = [ret EXCEPT ![v] = r]
  /\ knows' = [knows EXCEPT ![v] = {}]
  /\ cur' = [cur EXCEPT ![v] = None]
  /\ IF v = Main
       THEN /\ pc' = [pc EXCEPT ![v] = "unwound"]
            /\ arena' = [arena EXCEPT ![v] = FALSE]
       ELSE /\ pc' = [pc EXCEPT ![v] = IF r = Failed THEN "complete"
                                                     ELSE "freeArgs"]
            /\ UNCHANGED arena

Return(v) ==
  /\ Alive /\ pc[v] = "run"
  /\ \E r \in Results \cup knows[v] : EndProgram(v, r)
  /\ UNCHANGED <<tasks, len, parent, joiner, got, fault>>

\* Any error of the program: a division by zero, the call depth, no memory.
Fail(v) ==
  /\ Alive /\ pc[v] = "run"
  /\ EndProgram(v, Failed)
  /\ UNCHANGED <<tasks, len, parent, joiner, got, fault>>

\* Mutant: the handle is in its register before the arguments are copied.
ReserveHandleFirst(v) ==
  /\ Alive /\ pc[v] = "run" /\ arena[Main]
  /\ len < MaxTasks
  /\ \E args \in SUBSET (knows[v] \cup {len}) : knows' = [knows EXCEPT ![len] = args]
  /\ tasks' = [tasks EXCEPT ![len] = NewSlot]
  /\ len' = len + 1
  /\ parent' = [parent EXCEPT ![len] = v]
  /\ cur' = [cur EXCEPT ![v] = len]
  /\ pc' = [pc EXCEPT ![v] = "spawn"]
  /\ UNCHANGED <<ret, joiner, got, arena, fault>>

(* spawn: copy the arguments, reserve() a slot under the mutex, start the   *)
(* thread, setThread() under the mutex, then write the handle's register.   *)
Reserve(v) ==
  /\ Alive /\ pc[v] = "run" /\ arena[Main]
  /\ len < MaxTasks
  /\ \E args \in SUBSET knows[v] : knows' = [knows EXCEPT ![len] = args]
  /\ tasks' = [tasks EXCEPT ![len] = NewSlot]
  /\ len' = len + 1
  /\ parent' = [parent EXCEPT ![len] = v]
  /\ cur' = [cur EXCEPT ![v] = len]
  /\ pc' = [pc EXCEPT ![v] = "spawn"]
  /\ UNCHANGED <<ret, joiner, got, arena, fault>>

\* Mutant: the handle's register is written before setThread().
SpawnThreadHandleFirst(v) ==
  /\ Alive /\ pc[v] = "spawn"
  /\ pc' = [pc EXCEPT ![v] = "setThread", ![cur[v]] = "started"]
  /\ knows' = [knows EXCEPT ![v] = @ \cup {cur[v]}]
  /\ UNCHANGED <<tasks, len, cur, ret, parent, joiner, got, arena, fault>>

SpawnThread(v) ==
  /\ Alive /\ pc[v] = "spawn"
  /\ pc' = [pc EXCEPT ![v] = "setThread", ![cur[v]] = "started"]
  /\ UNCHANGED <<tasks, len, cur, ret, knows, parent, joiner, got, arena, fault>>

\* No memory for SpawnArgs, or no thread: the slot stays reserved for ever.
SpawnFails(v) ==
  /\ Alive /\ pc[v] = "spawn"
  /\ EndProgram(v, Failed)
  /\ UNCHANGED <<tasks, len, parent, joiner, got, fault>>

\* Mutant: setThread() stores a whole new slot.
SetThreadNewSlot(v) ==
  /\ Alive /\ pc[v] = "setThread" /\ arena[Main]
  /\ tasks' = [tasks EXCEPT ![cur[v]] = [NewSlot EXCEPT !.thread = "set"]]
  /\ knows' = [knows EXCEPT ![v] = @ \cup {cur[v]}]
  /\ cur' = [cur EXCEPT ![v] = None]
  /\ pc' = [pc EXCEPT ![v] = "run"]
  /\ UNCHANGED <<len, ret, parent, joiner, got, arena, fault>>

SetThread(v) ==
  /\ Alive /\ pc[v] = "setThread" /\ arena[Main]
  /\ tasks' = [tasks EXCEPT ![cur[v]].thread = "set"]
  /\ knows' = [knows EXCEPT ![v] = @ \cup {cur[v]}]
  /\ cur' = [cur EXCEPT ![v] = None]
  /\ pc' = [pc EXCEPT ![v] = "run"]
  /\ UNCHANGED <<len, ret, parent, joiner, got, arena, fault>>

-----------------------------------------------------------------------------
(* join: copy the thread under the mutex, wait for it without the mutex,    *)
(* read the slot under the mutex.  `state` is never looked at.              *)
Sync(v) ==
  /\ Alive /\ pc[v] = "run" /\ arena[Main]
  /\ \E t \in knows[v] :
       /\ joiner[t] = None
       /\ joiner' = [joiner EXCEPT ![t] = v]
       /\ cur' = [cur EXCEPT ![v] = t]
  /\ pc' = [pc EXCEPT ![v] = "join"]
  /\ UNCHANGED <<tasks, len, ret, knows, parent, got, arena, fault>>

\* A second join of one thread: the thread's own memory may be gone.
SyncAgain(v) ==
  /\ Alive /\ pc[v] = "run" /\ arena[Main]
  /\ \E t \in knows[v] : joiner[t] # None
  /\ fault' = "doubleJoin"
  /\ UNCHANGED <<tasks, len, pc, cur, ret, knows, parent, joiner, got, arena>>

\* Mutant: join() trusts `state` instead of waiting for the thread.
ThreadMarkedDone(t) == tasks[t].state = "done"

\* May the thread of task t be joined?
ThreadEnded(t) == pc[t] = "exited"

SyncWait(v) ==
  /\ Alive /\ pc[v] = "join"
  /\ ThreadEnded(cur[v])
  /\ pc' = [pc EXCEPT ![v] = "joined"]
  /\ UNCHANGED <<tasks, len, cur, ret, knows, parent, joiner, got, arena, fault>>

\* The handles in the value a sync delivers.
HandlesIn(o) == {o} \cap Ids

\* Mutant: join() returns the slot it copied before it waited.
SyncReturnsStale(v) ==
  LET o == tasks[cur[v]].outcome IN
  /\ Alive /\ pc[v] = "joined" /\ arena[Main]
  /\ o # Failed
  /\ got' = [got EXCEPT ![cur[v]] = NewSlot.outcome]
  /\ knows' = knows
  /\ cur' = [cur EXCEPT ![v] = None]
  /\ pc' = [pc EXCEPT ![v] = "run"]
  /\ UNCHANGED <<tasks, len, ret, parent, joiner, arena, fault>>

SyncReturns(v) ==
  LET o == tasks[cur[v]].outcome IN
  /\ Alive /\ pc[v] = "joined" /\ arena[Main]
  /\ o # Failed
  /\ got' = [got EXCEPT ![cur[v]] = o]
  /\ knows' = [knows EXCEPT ![v] = @ \cup HandlesIn(o)]
  /\ cur' = [cur EXCEPT ![v] = None]
  /\ pc' = [pc EXCEPT ![v] = "run"]
  /\ UNCHANGED <<tasks, len, ret, parent, joiner, arena, fault>>

\* The task's error becomes the error of the VM that syncs it.
SyncRaises(v) ==
  /\ Alive /\ pc[v] = "joined" /\ arena[Main]
  /\ tasks[cur[v]].outcome = Failed
  /\ got' = [got EXCEPT ![cur[v]] = Failed]
  /\ EndProgram(v, Failed)
  /\ UNCHANGED <<tasks, len, parent, joiner, fault>>

-----------------------------------------------------------------------------
\* Mutant: a failed Vm.init leaves the error out of complete().
StartForgetsError(t) ==
  /\ Alive /\ pc[t] = "started" /\ arena[parent[t]]
  /\ arena' = [arena EXCEPT ![t] = TRUE]
  /\ pc' = [pc EXCEPT ![t] = "run"] \/ pc' = [pc EXCEPT ![t] = "complete"]
  /\ UNCHANGED <<tasks, len, cur, ret, knows, parent, joiner, got, fault>>

\* Mutant: a failed Vm.init frees the arguments and never completes.
StartNeverCompletes(t) ==
  /\ Alive /\ pc[t] = "started" /\ arena[parent[t]]
  /\ arena' = [arena EXCEPT ![t] = TRUE]
  /\ \/ pc' = [pc EXCEPT ![t] = "run"] /\ UNCHANGED ret
     \/ pc' = [pc EXCEPT ![t] = "freeArgs"]
        /\ ret' = [ret EXCEPT ![t] = Failed]
  /\ UNCHANGED <<tasks, len, cur, knows, parent, joiner, got, fault>>

(* spawnEntry: the thread of task t.                                        *)
Start(t) ==
  /\ Alive /\ pc[t] = "started" /\ arena[parent[t]]
  /\ arena' = [arena EXCEPT ![t] = TRUE]
  /\ \/ pc' = [pc EXCEPT ![t] = "run"] /\ UNCHANGED ret
     \/ pc' = [pc EXCEPT ![t] = "complete"]   \* Vm.init failed
        /\ ret' = [ret EXCEPT ![t] = Failed]
  /\ UNCHANGED <<tasks, len, cur, knows, parent, joiner, got, fault>>

\* Mutant: a success forgets complete().
FreeArgsThenDestroy(t) ==
  /\ Alive /\ pc[t] = "freeArgs" /\ arena[parent[t]]
  /\ pc' = [pc EXCEPT ![t] = "destroy"]
  /\ UNCHANGED <<tasks, len, cur, ret, knows, parent, joiner, got, arena, fault>>

FreeArgs(t) ==
  /\ Alive /\ pc[t] = "freeArgs" /\ arena[parent[t]]
  /\ pc' = [pc EXCEPT ![t] = IF ret[t] = Failed THEN "destroy" ELSE "complete"]
  /\ UNCHANGED <<tasks, len, cur, ret, knows, parent, joiner, got, arena, fault>>

\* Mutant: join() waits with the mutex locked, and complete() needs it.
CompleteLockedOut(t) ==
  /\ Alive /\ pc[t] = "complete" /\ arena[Main]
  /\ \A v \in VMs : pc[v] # "join"
  /\ tasks' = [tasks EXCEPT ![t].outcome = ret[t], ![t].state = "done"]
  /\ pc' = [pc EXCEPT ![t] = IF ret[t] = Failed THEN "freeArgs" ELSE "destroy"]
  /\ UNCHANGED <<len, cur, ret, knows, parent, joiner, got, arena, fault>>

Complete(t) ==
  /\ Alive /\ pc[t] = "complete" /\ arena[Main]
  /\ tasks' = [tasks EXCEPT ![t].outcome = ret[t], ![t].state = "done"]
  /\ pc' = [pc EXCEPT ![t] = IF ret[t] = Failed THEN "freeArgs" ELSE "destroy"]
  /\ UNCHANGED <<len, cur, ret, knows, parent, joiner, got, arena, fault>>

\* The task's VM is deinitialised and its SpawnArgs destroyed.
DestroyArgs(t) ==
  /\ Alive /\ pc[t] = "destroy" /\ arena[parent[t]]
  /\ pc' = [pc EXCEPT ![t] = "deinit"]
  /\ UNCHANGED <<tasks, len, cur, ret, knows, parent, joiner, got, arena, fault>>

\* arena.deinit(), the last thing the thread does.
Finish(t) ==
  /\ Alive /\ pc[t] = "deinit"
  /\ arena' = [arena EXCEPT ![t] = FALSE]
  /\ pc' = [pc EXCEPT ![t] = "exited"]
  /\ UNCHANGED <<tasks, len, cur, ret, knows, parent, joiner, got, fault>>

-----------------------------------------------------------------------------
\* main() ends the process; nothing waits for the other threads.
ProcessExit ==
  /\ Alive /\ pc[Main] = "unwound"
  /\ pc' = [pc EXCEPT ![Main] = "exited"]
  /\ UNCHANGED <<tasks, len, cur, ret, knows, parent, joiner, got, arena, fault>>

\* Whose storage does the next step of VM v read or write?
Touches(v) ==
  CASE pc[v] \in {"run", "setThread", "joined", "complete"} -> {Main}
    [] pc[v] \in {"started", "freeArgs", "destroy"} -> {parent[v]}
    [] OTHER -> {}

DanglingAccess(v) ==
  /\ Alive
  /\ \E h \in Touches(v) : ~arena[h]
  /\ fault' = "useAfterFree"
  /\ UNCHANGED <<tasks, len, pc, cur, ret, knows, parent, joiner, got, arena>>

Program(v) == Return(v) \/ Fail(v) \/ Reserve(v) \/ SpawnThread(v)
              \/ SpawnFails(v) \/ SetThread(v) \/ Sync(v) \/ SyncAgain(v)
              \/ SyncWait(v) \/ SyncReturns(v) \/ SyncRaises(v)
              \/ DanglingAccess(v)

SpawnEntry(t) == Start(t) \/ FreeArgs(t) \/ Complete(t) \/ DestroyArgs(t)
                 \/ Finish(t)

\* The process is gone: it exited, or nothing can be said of it any more.
Terminated == ~Alive /\ UNCHANGED vars

Next ==
  \/ \E v \in VMs : Program(v)
  \/ \E t \in Ids : SpawnEntry(t)
  \/ ProcessExit
  \/ Terminated

Spec == Init /\ [][Next]_vars

\* The system schedules every thread, and every program ends.
FairSpec ==
  /\ Spec
  /\ \A v \in VMs : WF_vars(Program(v))
  /\ \A t \in Ids : WF_vars(SpawnEntry(t))
  /\ WF_vars(ProcessExit)

-----------------------------------------------------------------------------
Spawned == 0 .. len - 1

(* A handle in a register always names a thread that setThread() recorded: *)
(* join() can never read the undefined thread of a fresh slot, even when   *)
(* the handle travelled through arguments and results.                     *)
KnownHandleHasThread == \A v \in VMs : \A t \in knows[v] : tasks[t].thread = "set"

(* When join() gets past thread.join(), complete() has stored the outcome  *)
(* on whichever of the three ways out of spawnEntry() the task took,       *)
(* although join() never looks at `state`.                                 *)
JoinReadsFinalOutcome ==
  \A v \in VMs : pc[v] = "joined" => tasks[cur[v]].state = "done"

(* No set of tasks wait for one another in their syncs: handles flow down  *)
(* into arguments and up out of results, and never close a circle.         *)
NoWaitCycle ==
  \A S \in SUBSET Ids :
    S # {} => \E t \in S : ~(pc[t] = "join" /\ cur[t] \in S)

\* A task that is still out there when the VM that spawned it has gone.
Abandoned(t) ==
  /\ t \in Spawned /\ pc[t] # "unborn"
  /\ ~arena[parent[t]]
  /\ got[t] = None

(* A thread touches freed storage (its SpawnArgs, its arguments, the task  *)
(* table) only if some VM ended before the sync of a task it had spawned:  *)
(* what spawnEntry() does after complete() is covered by the join.         *)
FreedStorageNeedsAbandonedTask ==
  fault = "useAfterFree" => \E t \in Ids : Abandoned(t)

(* Once complete() has stored an outcome no later step changes the slot:   *)
(* neither a late setThread() of the spawner, which may come after the     *)
(* task is done, nor the reservation of another task.                      *)
OutcomeIsFinal ==
  [][\A t \in Ids : tasks[t].state = "done" =>
       /\ tasks'[t].state = "done"
       /\ tasks'[t].outcome = tasks[t].outcome]_vars

(* `spawn` and `sync` are futures: complete() resolves a task once, and a  *)
(* sync delivers that very outcome (see Futures).                          *)
Finished == {t \in Spawned : tasks[t].state = "done"}

F == INSTANCE Futures WITH
       pending <- Spawned \ Finished,
       outcome <- [t \in Ids |-> IF t \in Finished THEN tasks[t].outcome ELSE None],
       seen <- got

ImplementsFutures == F!Spec

(* Every sync returns, unless the process ends or runs into undefined      *)
(* behaviour first: everybody waiting on everybody is impossible.          *)
EverySyncReturns ==
  \A v \in VMs : pc[v] = "join" ~> (pc[v] # "join" \/ ~Alive)

(* "`sync` to wait for and retrieve results" (README.md:11): the result    *)
(* that a sync retrieved is there for the program that retrieved it.       *)
SyncedResultIsAlive ==
  \A t \in Ids : got[t] = Own /\ pc[joiner[t]] = "run" => arena[t]
=============================================================================
