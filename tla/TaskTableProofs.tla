-------------------------- MODULE TaskTableProofs --------------------------
(* Proofs, for any number of tasks, that IndInv is an inductive invariant   *)
(* of TaskTable, that it implies the safety properties, and that TaskTable  *)
(* implements Futures.                                                      *)
EXTENDS TaskTableInv, TLAPS, WellFoundedInduction

USE MaxTasksAssumption, SentinelAssumption, ResultsAssumption

BasicInv ==
  /\ TypeOK
  /\ StagesInv
  /\ FreshInv
  /\ ParentInv
  /\ ReturnInv
  /\ DoneInv
  /\ OperandInv
  /\ JoinerInv
  /\ HandleInv

\* The invariant holds in the initial state: nothing is spawned, only main exists.
LEMMA InitInv == Init => IndInv
<1> SUFFICES ASSUME Init PROVE IndInv
  OBVIOUS
<1> USE DEF Init, Ids, VMs, Outcomes, NewSlot, Slot, MainPc, TaskPc
<1>1. TypeOK BY DEF TypeOK
<1>2. StagesInv BY DEF StagesInv
<1>3. FreshInv BY DEF FreshInv
<1>4. ParentInv BY DEF ParentInv, Spawned
<1>5. ReturnInv BY DEF ReturnInv, Ended
<1>6. DoneInv BY DEF DoneInv
<1>7. OperandInv BY DEF OperandInv
<1>8. JoinerInv BY DEF JoinerInv
<1>9. HandleInv BY DEF HandleInv, Held, HandlesIn
<1>10. HandlesWellFounded
  <2>1. \A t \in Ids : HandlesOf(t) = {}
    BY DEF HandlesOf, Held, HandlesIn, Pending
  <2> QED BY <2>1 DEF HandlesWellFounded
<1>11. FreedStorageNeedsAbandonedTask BY DEF FreedStorageNeedsAbandonedTask
<1> QED
  BY <1>1, <1>2, <1>3, <1>4, <1>5, <1>6, <1>7, <1>8, <1>9, <1>10, <1>11
     DEF IndInv

\* Writing one slot leaves a table of slots.
LEMMA SlotsUpdate ==
  ASSUME tasks \in [Ids -> Slot], NEW t \in Ids, NEW o \in Outcomes
  PROVE  /\ [tasks EXCEPT ![t] = NewSlot] \in [Ids -> Slot]
         /\ [tasks EXCEPT ![t].thread = "set"] \in [Ids -> Slot]
         /\ [tasks EXCEPT ![t].outcome = o, ![t].state = "done"] \in [Ids -> Slot]
<1>1. NewSlot \in Slot /\ tasks[t] \in Slot
  BY DEF NewSlot, Slot, Outcomes
<1>2. [tasks[t] EXCEPT !.thread = "set"] \in Slot
  BY <1>1 DEF Slot
<1>3. [tasks[t] EXCEPT !.outcome = o, !.state = "done"] \in Slot
  BY <1>1 DEF Slot
<1>4. [tasks EXCEPT ![t] = NewSlot] \in [Ids -> Slot]
  BY <1>1
<1>5. [tasks EXCEPT ![t].thread = "set"] \in [Ids -> Slot]
  BY <1>2
<1>6. [tasks EXCEPT ![t].outcome = o, ![t].state = "done"] \in [Ids -> Slot]
  BY <1>3
<1> QED BY <1>4, <1>5, <1>6

\* EndProgram(), the end of a VM's function, with any result or the error,
\* keeps every part of the invariant but the last two.
LEMMA EndProgramInv ==
  ASSUME NEW v \in VMs, NEW r \in Outcomes, BasicInv,
         pc[v] \in {"run", "spawn", "joined"}, HandlesIn(r) \subseteq knows[v],
         EndProgram(v, r),
         UNCHANGED <<tasks, len, parent, joiner, fault>>,
         \/ UNCHANGED got
         \/ pc[v] = "joined" /\ got' = [got EXCEPT ![cur[v]] = Failed]
  PROVE  BasicInv'
<1> USE DEF BasicInv, Ids, VMs, Outcomes, MainPc, TaskPc
<1> DEFINE next == IF v = Main THEN "unwound"
                   ELSE IF r = Failed THEN "complete" ELSE "freeArgs"
<1>1. /\ pc' = [pc EXCEPT ![v] = next]
      /\ ret' = [ret EXCEPT ![v] = r]
      /\ knows' = [knows EXCEPT ![v] = {}]
      /\ cur' = [cur EXCEPT ![v] = None]
  BY DEF EndProgram
<1>2. arena' \in [VMs -> BOOLEAN] /\ \A w \in VMs :
        arena'[w] <=> IF w = v THEN v # Main ELSE arena[w]
  <2>1. CASE v = Main
    <3>1. arena' = [arena EXCEPT ![v] = FALSE]
      BY <2>1 DEF EndProgram
    <3> QED BY <2>1, <3>1 DEF TypeOK
  <2>2. CASE v # Main
    <3>1. arena[v]
      BY <2>2 DEF StagesInv
    <3> QED BY <2>2, <3>1 DEF EndProgram, TypeOK
  <2> QED BY <2>1, <2>2
<1>3. got' \in [Ids -> Outcomes \cup {None}] /\ \A t \in Ids :
        got'[t] # got[t] => pc[v] = "joined" /\ t = cur[v]
  BY DEF TypeOK
<1>4. TypeOK'
  BY <1>1, <1>2, <1>3 DEF TypeOK
<1>5. StagesInv'
  <2>1. \A w \in VMs : pc'[w] = IF w = v THEN next ELSE pc[w]
    BY <1>1 DEF TypeOK
  <2>2. \A w \in VMs \ {v} : (arena'[w] <=> arena[w]) /\ pc'[w] = pc[w]
    BY <2>1, <1>2
  <2>3. (arena'[v] <=> v # Main) /\ pc'[v] = next
    BY <2>1, <1>2
  <2>4. v \in Ids => v # Main
    OBVIOUS
  <2>5. Main \in VMs /\ \A t \in Ids : t \in VMs
    OBVIOUS
  <2>6. pc'[Main] \in MainPc /\ (arena'[Main] <=> pc'[Main] \notin {"unwound", "exited"})
    BY <2>2, <2>3, <2>5 DEF StagesInv
  <2>7. ASSUME NEW t \in Ids
        PROVE  pc'[t] \in TaskPc /\
               (arena'[t] <=> pc'[t] \notin {"unborn", "started", "exited"})
    <3>1. CASE t = v
      BY <3>1, <2>3, <2>4
    <3>2. CASE t # v
      BY <3>2, <2>2, <2>5 DEF StagesInv
    <3> QED BY <3>1, <3>2
  <2> QED BY <2>6, <2>7 DEF StagesInv
<1>6. FreshInv'
  BY <1>1 DEF FreshInv, TypeOK, StagesInv
<1>7. ParentInv'
  BY DEF ParentInv, Spawned
<1>8. ReturnInv'
  BY <1>1 DEF ReturnInv, Ended, TypeOK
<1>9. DoneInv'
  <2>1. \A t \in Ids : t # v => pc'[t] = pc[t] /\ ret'[t] = ret[t]
    BY <1>1 DEF TypeOK
  <2>2. v \in Ids => pc'[v] = next /\ ret'[v] = r /\ v # Main
    BY <1>1 DEF TypeOK
  <2>3. v \in Ids => tasks[v].state # "done"
    BY DEF DoneInv
  <2> QED BY <2>1, <2>2, <2>3 DEF DoneInv
<1>10. OperandInv'
  <2> SUFFICES ASSUME NEW w \in VMs PROVE OperandInv!(w)'
    BY DEF OperandInv
  <2>1. v \notin Ids \/ (pc[v] # "unborn" /\ pc[v] # "exited")
    OBVIOUS
  <2>2. pc' [v] = next /\ \A u \in VMs : u # v => pc'[u] = pc[u] /\ cur'[u] = cur[u] /\ knows'[u] = knows[u]
    BY <1>1 DEF TypeOK
  <2>3. CASE w = v
    BY <2>2, <2>3 DEF OperandInv
  <2>4. CASE w # v
    <3>1. /\ pc'[w] = pc[w] /\ cur'[w] = cur[w] /\ knows'[w] = knows[w]
          /\ cur[w] \in Ids \cup {None}
      BY <2>2, <2>4 DEF TypeOK
    <3>0. OperandInv!(w) /\ Spawned \subseteq Ids /\ knows[w] \subseteq Ids
      <4>1. OperandInv!(w)
        BY DEF OperandInv
      <4>2. Spawned \subseteq Ids
        BY DEF Spawned, TypeOK
      <4> QED BY <4>1, <4>2 DEF TypeOK
    <3>2. ASSUME cur[w] \in Ids
          PROVE  (pc'[cur[w]] = "unborn" <=> pc[cur[w]] = "unborn") /\
                 (pc[cur[w]] = "exited" => pc'[cur[w]] = "exited")
      BY <3>2, <2>2
    <3>3. ASSUME pc[w] \in {"spawn", "setThread"}
          PROVE  /\ cur[w] \in Spawned /\ parent[cur[w]] = w
                 /\ pc'[w] = "spawn" <=> pc'[cur[w]] = "unborn"
      BY <3>0, <3>1, <3>2, <3>3
    <3>4. ASSUME pc[w] \in {"join", "joined"}
          PROVE  /\ cur[w] \in knows[w] /\ joiner[cur[w]] = w
                 /\ got'[cur[w]] = None
                 /\ pc[w] = "joined" => pc'[cur[w]] = "exited"
      <4>1. cur[w] \in Ids /\ joiner[cur[w]] = w /\ got[cur[w]] = None
        BY <3>0, <3>4
      <4>2. pc[v] = "joined" => joiner[cur[v]] = v
        BY DEF OperandInv
      <4> QED BY <4>1, <4>2, <3>2, <3>4, <2>4, <1>3 DEF OperandInv
    <3> QED BY <3>1, <3>3, <3>4, <2>4 DEF Spawned
  <2> QED BY <2>3, <2>4
<1>11. JoinerInv'
  <2>1. pc[v] = "joined" => cur[v] \in Ids /\ cur[v] # v /\
          joiner[cur[v]] # None /\ pc[cur[v]] = "exited"
    <3>1. OperandInv!(v) /\ knows \in [VMs -> SUBSET Ids]
      BY DEF OperandInv, TypeOK
    <3> QED BY <3>1
  <2> QED BY <1>1, <1>3, <2>1 DEF JoinerInv, TypeOK
<1>12. HandleInv'
  BY <1>1 DEF HandleInv, Held, HandlesIn, Spawned, TypeOK
<1> QED
  BY <1>4, <1>5, <1>6, <1>7, <1>8, <1>9, <1>10, <1>11, <1>12

\* reserve() hands out the first fresh slot.
LEMMA ReserveInv ==
  ASSUME NEW v \in VMs, BasicInv, Reserve(v)
  PROVE  BasicInv'
<1> USE DEF BasicInv, Ids, VMs, Outcomes, MainPc, TaskPc, Reserve, Alive
<1>0. len \in Ids /\ len # v /\ pc[len] = "unborn"
  BY DEF TypeOK, FreshInv
<1>1. TypeOK'
  <2>1. tasks' \in [Ids -> Slot]
    BY <1>0, SlotsUpdate DEF TypeOK
  <2>2. knows' \in [VMs -> SUBSET Ids]
    <3>1. PICK args \in SUBSET knows[v] : knows' = [knows EXCEPT ![len] = args]
      OBVIOUS
    <3>2. knows \in [VMs -> SUBSET Ids] /\ args \subseteq knows[v]
      BY <3>1 DEF TypeOK
    <3>3. args \subseteq Ids
      BY <3>2
    <3> HIDE DEF Ids, VMs
    <3> QED BY <3>1, <3>2, <3>3
  <2>3. len' \in 0 .. MaxTasks
    BY DEF TypeOK
  <2> QED BY <1>0, <2>1, <2>2, <2>3 DEF TypeOK
<1>2. StagesInv'
  BY <1>0 DEF StagesInv, TypeOK
<1>3. FreshInv'
  BY <1>0 DEF NewSlot, FreshInv, TypeOK, StagesInv
<1>4. ParentInv'
  BY <1>0 DEF ParentInv, FreshInv, Spawned, TypeOK, StagesInv
<1>5. ReturnInv'
  BY <1>0 DEF ReturnInv, Ended, FreshInv, TypeOK, StagesInv
<1>6. DoneInv'
  BY <1>0 DEF NewSlot, DoneInv, FreshInv, TypeOK, StagesInv
<1>7. OperandInv'
  <2>1. \A w \in VMs : len \notin knows[w]
    BY <1>0 DEF HandleInv, Held, Spawned, TypeOK
  <2>2. \A w \in VMs : w # v => cur'[w] = cur[w] /\ pc'[w] = pc[w]
    BY DEF TypeOK
  <2>3. cur'[v] = len /\ pc'[v] = "spawn" /\ parent'[len] = v /\ pc'[len] = "unborn"
    BY <1>0 DEF TypeOK
  <2>4. \A t \in Ids : t # len => parent'[t] = parent[t]
    BY DEF TypeOK
  <2>5. \A w \in VMs : w # len => knows'[w] = knows[w]
    BY <1>0 DEF TypeOK
  <2>6. Spawned \subseteq Spawned' /\ len \in Spawned' /\ len \notin Spawned /\ Spawned \subseteq Ids
    BY DEF Spawned, TypeOK
  <2> SUFFICES ASSUME NEW w \in VMs PROVE OperandInv!(w)'
    BY DEF OperandInv
  <2>7. CASE w = v
    BY <2>3, <2>6, <2>7
  <2>8. CASE w # v
    <3>1. OperandInv!(w) /\ knows[w] \subseteq Ids
      <4>1. OperandInv!(w)
        BY DEF OperandInv
      <4> QED BY <4>1 DEF TypeOK
    <3>2. cur[w] = v => pc[w] # "spawn" /\ pc[w] # "joined"
      BY <3>1
    <3>3. pc[w] \in {"join", "joined"} => w # len
      BY <1>0
    <3>4. pc'[w] = pc[w] /\ cur'[w] = cur[w]
      BY <2>2, <2>8
    <3>5. ASSUME pc[w] \in {"spawn", "setThread"}
          PROVE  /\ cur[w] \in Spawned' /\ parent'[cur[w]] = w
                 /\ pc[w] = "spawn" <=> pc'[cur[w]] = "unborn"
      <4>1. cur[w] \in Ids /\ cur[w] # len /\ cur[w] \in Spawned /\ parent[cur[w]] = w
        BY <2>6, <3>1, <3>5
      <4>2. pc'[cur[w]] = "unborn" <=> pc[cur[w]] = "unborn"
        BY <4>1, <2>2, <2>3
      <4> QED BY <4>1, <4>2, <2>4, <2>6, <3>1, <3>5
    <3>6. ASSUME pc[w] \in {"join", "joined"}
          PROVE  /\ cur[w] \in knows'[w] /\ joiner'[cur[w]] = w /\ got'[cur[w]] = None
                 /\ pc[w] = "joined" => pc'[cur[w]] = "exited"
      <4>1. knows'[w] = knows[w] /\ cur[w] \in Ids
        BY <3>1, <3>3, <3>6, <2>5
      <4> QED BY <4>1, <3>1, <3>2, <3>6, <2>2
    <3> QED BY <3>4, <3>5, <3>6
  <2> QED BY <2>7, <2>8
<1>8. JoinerInv'
  BY <1>0 DEF JoinerInv, FreshInv, TypeOK, StagesInv
<1>9. HandleInv'
  BY <1>0 DEF HandleInv, Held, HandlesIn, Spawned, FreshInv, ReturnInv, Ended, TypeOK, StagesInv
<1> QED
  BY <1>1, <1>2, <1>3, <1>4, <1>5, <1>6, <1>7, <1>8, <1>9

\* Std.Thread.spawn makes the unborn task a started one.
LEMMA SpawnThreadInv ==
  ASSUME NEW v \in VMs, BasicInv, SpawnThread(v)
  PROVE  BasicInv'
<1> USE DEF BasicInv, Ids, VMs, Outcomes, MainPc, TaskPc, SpawnThread, Alive
<1>0. /\ cur[v] \in Ids /\ cur[v] # v /\ cur[v] < len /\ parent[cur[v]] = v
      /\ pc[cur[v]] = "unborn" /\ cur[v] # Main
  BY DEF TypeOK, OperandInv, Spawned, StagesInv, MainPc
<1>1. TypeOK'
  BY <1>0 DEF TypeOK, StagesInv
<1>2. StagesInv'
  BY <1>0 DEF StagesInv, TypeOK
<1>3. FreshInv'
  <2>1. \A t \in Ids : t >= len => t # v /\ t # cur[v]
    BY <1>0 DEF FreshInv, TypeOK
  <2> QED BY <2>1 DEF FreshInv, TypeOK
<1>4. ParentInv'
  BY <1>0 DEF ParentInv, Spawned, TypeOK, StagesInv
<1>5. ReturnInv'
  BY <1>0 DEF ReturnInv, Ended, TypeOK, StagesInv
<1>6. DoneInv'
  BY <1>0 DEF DoneInv, TypeOK, StagesInv
<1>7. OperandInv'
  <2>1. \A w \in VMs : w # v /\ w # cur[v] => pc'[w] = pc[w]
    BY DEF TypeOK
  <2>2. pc'[v] = "setThread" /\ pc'[cur[v]] = "started"
    BY <1>0 DEF TypeOK
  <2> SUFFICES ASSUME NEW w \in VMs PROVE OperandInv!(w)'
    BY DEF OperandInv
  <2>3. OperandInv!(w) /\ Spawned' = Spawned /\ Spawned \subseteq Ids
    BY DEF OperandInv, Spawned, TypeOK
  <2>4. CASE w = v
    BY <1>0, <2>2, <2>3, <2>4
  <2>5. CASE w = cur[v]
    BY <1>0, <2>2, <2>5
  <2>6. CASE w # v /\ w # cur[v]
    <3>1. pc[w] \in {"spawn", "setThread"} => cur[w] # cur[v]
      BY <1>0, <2>3, <2>6
    <3>2. cur[w] = v => pc[w] # "spawn" /\ pc[w] # "joined"
      BY <2>3
    <3>3. cur[w] = cur[v] => pc[w] # "joined"
      BY <1>0, <2>3
    <3> QED BY <2>1, <2>2, <2>3, <2>6, <3>1, <3>2, <3>3 DEF TypeOK
  <2> QED BY <2>4, <2>5, <2>6
<1>8. JoinerInv'
  BY <1>0 DEF JoinerInv, TypeOK, StagesInv
<1>9. HandleInv'
  BY <1>0 DEF HandleInv, Held, HandlesIn, Spawned, TypeOK, StagesInv
<1> QED
  BY <1>1, <1>2, <1>3, <1>4, <1>5, <1>6, <1>7, <1>8, <1>9

\* setThread() gives the slot its thread before the handle is in a register.
LEMMA SetThreadInv ==
  ASSUME NEW v \in VMs, BasicInv, SetThread(v)
  PROVE  BasicInv'
<1> USE DEF BasicInv, Ids, VMs, Outcomes, MainPc, TaskPc, SetThread, Alive
<1>0. cur[v] \in Ids /\ cur[v] < len
  BY DEF TypeOK, OperandInv, Spawned
<1>1. TypeOK'
  <2>1. tasks' \in [Ids -> Slot]
    BY <1>0, SlotsUpdate DEF TypeOK
  <2> QED BY <1>0, <2>1 DEF TypeOK
<1>2. StagesInv'
  BY <1>0 DEF StagesInv, TypeOK
<1>3. FreshInv'
  BY <1>0 DEF FreshInv, TypeOK, StagesInv
<1>4. ParentInv'
  BY <1>0 DEF ParentInv, Spawned, TypeOK, StagesInv
<1>5. ReturnInv'
  BY <1>0 DEF ReturnInv, Ended, TypeOK, StagesInv
<1>6. DoneInv'
  BY <1>0 DEF DoneInv, TypeOK, StagesInv
<1>7. OperandInv'
  BY <1>0 DEF OperandInv, Spawned, TypeOK, StagesInv
<1>8. JoinerInv'
  BY <1>0 DEF JoinerInv, TypeOK, StagesInv
<1>9. HandleInv'
  BY <1>0 DEF HandleInv, Held, HandlesIn, Spawned, TypeOK, StagesInv
<1> QED
  BY <1>1, <1>2, <1>3, <1>4, <1>5, <1>6, <1>7, <1>8, <1>9

\* A join() claims a thread nobody has joined.
LEMMA SyncInv ==
  ASSUME NEW v \in VMs, BasicInv, Sync(v)
  PROVE  BasicInv'
<1> USE DEF BasicInv, Ids, VMs, Outcomes, MainPc, TaskPc, Sync, Alive
<1>0. PICK t \in knows[v] : /\ joiner[t] = None
                            /\ joiner' = [joiner EXCEPT ![t] = v]
                            /\ cur' = [cur EXCEPT ![v] = t]
  OBVIOUS
<1>a. t \in Ids /\ t < len
  BY DEF HandleInv, Held, TypeOK, Spawned
<1>1. TypeOK'
  BY <1>0, <1>a DEF TypeOK, StagesInv
<1>2. StagesInv'
  BY <1>0, <1>a DEF StagesInv, TypeOK
<1>3. FreshInv'
  BY <1>0, <1>a DEF FreshInv, TypeOK, StagesInv
<1>4. ParentInv'
  BY <1>0, <1>a DEF ParentInv, Spawned, TypeOK, StagesInv
<1>5. ReturnInv'
  BY <1>0, <1>a DEF ReturnInv, Ended, TypeOK, StagesInv
<1>6. DoneInv'
  BY <1>0, <1>a DEF DoneInv, TypeOK, StagesInv
<1>7. OperandInv'
  BY <1>0, <1>a DEF OperandInv, Spawned, JoinerInv, TypeOK, StagesInv
<1>8. JoinerInv'
  BY <1>0, <1>a DEF JoinerInv, TypeOK, StagesInv
<1>9. HandleInv'
  BY <1>0, <1>a DEF HandleInv, Held, HandlesIn, Spawned, TypeOK, StagesInv
<1> QED
  BY <1>1, <1>2, <1>3, <1>4, <1>5, <1>6, <1>7, <1>8, <1>9

\* A second join() ends what can be said of the process.
LEMMA SyncAgainInv ==
  ASSUME NEW v \in VMs, BasicInv, SyncAgain(v)
  PROVE  BasicInv'
<1> USE DEF BasicInv, Ids, VMs, Outcomes, MainPc, TaskPc, SyncAgain, Alive
<1>1. TypeOK'
  BY DEF TypeOK, StagesInv
<1>2. StagesInv'
  BY DEF StagesInv, TypeOK
<1>3. FreshInv'
  BY DEF FreshInv, TypeOK, StagesInv
<1>4. ParentInv'
  BY DEF ParentInv, Spawned, TypeOK, StagesInv
<1>5. ReturnInv'
  BY DEF ReturnInv, Ended, TypeOK, StagesInv
<1>6. DoneInv'
  BY DEF DoneInv, TypeOK, StagesInv
<1>7. OperandInv'
  BY DEF OperandInv, Spawned, TypeOK, StagesInv
<1>8. JoinerInv'
  BY DEF JoinerInv, TypeOK, StagesInv
<1>9. HandleInv'
  BY DEF HandleInv, Held, HandlesIn, Spawned, TypeOK, StagesInv
<1> QED
  BY <1>1, <1>2, <1>3, <1>4, <1>5, <1>6, <1>7, <1>8, <1>9

\* Getting past thread.join() needs the exit of the joined thread.
LEMMA SyncWaitInv ==
  ASSUME NEW v \in VMs, BasicInv, SyncWait(v)
  PROVE  BasicInv'
<1> USE DEF BasicInv, Ids, VMs, Outcomes, MainPc, TaskPc, SyncWait, ThreadEnded, Alive
<1>1. TypeOK'
  BY DEF TypeOK, StagesInv
<1>2. StagesInv'
  BY DEF StagesInv, TypeOK
<1>3. FreshInv'
  BY DEF FreshInv, TypeOK, StagesInv
<1>4. ParentInv'
  BY DEF ParentInv, Spawned, TypeOK, StagesInv
<1>5. ReturnInv'
  BY DEF ReturnInv, Ended, TypeOK, StagesInv
<1>6. DoneInv'
  BY DEF DoneInv, TypeOK, StagesInv
<1>7. OperandInv'
  BY DEF OperandInv, Spawned, TypeOK, StagesInv
<1>8. JoinerInv'
  BY DEF JoinerInv, TypeOK, StagesInv
<1>9. HandleInv'
  BY DEF HandleInv, Held, HandlesIn, Spawned, TypeOK, StagesInv
<1> QED
  BY <1>1, <1>2, <1>3, <1>4, <1>5, <1>6, <1>7, <1>8, <1>9

\* A sync moves the handle the task returned to the joiner.
LEMMA SyncReturnsInv ==
  ASSUME NEW v \in VMs, BasicInv, SyncReturns(v)
  PROVE  BasicInv'
<1> USE DEF BasicInv, Ids, VMs, Outcomes, MainPc, TaskPc, SyncReturns, Alive, Slot
<1> DEFINE c == cur[v]
<1>0. /\ c \in Ids /\ c \in knows[v] /\ pc[c] = "exited" /\ joiner[c] = v
      /\ tasks[c].outcome \in Outcomes
      /\ HandlesIn(tasks[c].outcome) \subseteq Held(c)
  <2>1. OperandInv!(v) /\ knows[v] \subseteq Ids
    <3>1. OperandInv!(v)
      BY DEF OperandInv
    <3> QED BY <3>1 DEF TypeOK
  <2>2. c \in Ids /\ c \in knows[v] /\ pc[c] = "exited" /\ joiner[c] = v
    BY <2>1
  <2>3. tasks[c].outcome \in Outcomes
    BY <2>2 DEF TypeOK
  <2>4. tasks[c].outcome = ret[c]
    BY <2>2 DEF DoneInv
  <2> QED BY <2>2, <2>3, <2>4 DEF Held
<1>1. TypeOK'
  BY <1>0 DEF TypeOK, HandlesIn, StagesInv
<1>2. StagesInv'
  BY <1>0 DEF StagesInv, TypeOK
<1>3. FreshInv'
  BY <1>0 DEF FreshInv, TypeOK, StagesInv
<1>4. ParentInv'
  BY <1>0 DEF ParentInv, Spawned, TypeOK, StagesInv
<1>5. ReturnInv'
  BY <1>0 DEF ReturnInv, Ended, TypeOK, StagesInv
<1>6. DoneInv'
  BY <1>0 DEF DoneInv, TypeOK, StagesInv
<1>7. OperandInv'
  BY <1>0 DEF OperandInv, Spawned, TypeOK, StagesInv
<1>8. JoinerInv'
  BY <1>0 DEF JoinerInv, TypeOK, StagesInv
<1>9. HandleInv'
  BY <1>0 DEF HandleInv, Held, HandlesIn, Spawned, TypeOK, StagesInv
<1> QED
  BY <1>1, <1>2, <1>3, <1>4, <1>5, <1>6, <1>7, <1>8, <1>9

\* An access to freed storage changes nothing but the fault.
LEMMA DanglingAccessInv ==
  ASSUME NEW v \in VMs, BasicInv, DanglingAccess(v)
  PROVE  BasicInv'
<1> USE DEF BasicInv, Ids, VMs, Outcomes, MainPc, TaskPc, DanglingAccess, Alive
<1>1. TypeOK'
  BY DEF TypeOK, StagesInv
<1>2. StagesInv'
  BY DEF StagesInv, TypeOK
<1>3. FreshInv'
  BY DEF FreshInv, TypeOK, StagesInv
<1>4. ParentInv'
  BY DEF ParentInv, Spawned, TypeOK, StagesInv
<1>5. ReturnInv'
  BY DEF ReturnInv, Ended, TypeOK, StagesInv
<1>6. DoneInv'
  BY DEF DoneInv, TypeOK, StagesInv
<1>7. OperandInv'
  BY DEF OperandInv, Spawned, TypeOK, StagesInv
<1>8. JoinerInv'
  BY DEF JoinerInv, TypeOK, StagesInv
<1>9. HandleInv'
  BY DEF HandleInv, Held, HandlesIn, Spawned, TypeOK, StagesInv
<1> QED
  BY <1>1, <1>2, <1>3, <1>4, <1>5, <1>6, <1>7, <1>8, <1>9

\* spawnEntry() begins: the arena exists, and Vm.init may fail.
LEMMA StartInv ==
  ASSUME NEW t \in Ids, BasicInv, Start(t)
  PROVE  BasicInv'
<1> USE DEF BasicInv, Ids, VMs, Outcomes, MainPc, TaskPc, Start, Alive
<1>z. ret[t] = None
  BY DEF ReturnInv, Ended
<1>0. /\ pc' = [pc EXCEPT ![t] = pc'[t]] /\ pc'[t] \in {"run", "complete"}
      /\ ret' = [ret EXCEPT ![t] = ret'[t]]
      /\ ret'[t] = IF pc'[t] = "run" THEN None ELSE Failed
      /\ t # Main
  BY DEF TypeOK, ReturnInv, Ended
<1>1. TypeOK'
  <2>1. pc' \in [VMs -> MainPc \cup TaskPc]
    <3>1. pc \in [VMs -> MainPc \cup TaskPc]
      BY DEF TypeOK
    <3>2. {"run", "complete"} \subseteq MainPc \cup TaskPc
      OBVIOUS
    <3> HIDE DEF VMs, MainPc, TaskPc
    <3> QED BY <1>0, <3>1, <3>2
  <2>2. ret' \in [VMs -> Outcomes \cup {None}]
    <3>1. ret \in [VMs -> Outcomes \cup {None}]
      BY DEF TypeOK
    <3>2. ret'[t] \in {None, Failed} /\ {None, Failed} \subseteq Outcomes \cup {None}
      BY <1>0
    <3> HIDE DEF VMs, Outcomes
    <3> QED BY <1>0, <3>1, <3>2
  <2>3. arena' \in [VMs -> BOOLEAN]
    BY DEF TypeOK
  <2> QED BY <2>1, <2>2, <2>3 DEF TypeOK
<1>2. StagesInv'
  BY <1>0 DEF StagesInv, TypeOK
<1>3. FreshInv'
  BY <1>0, ZenonT(30) DEF FreshInv, TypeOK, StagesInv
<1>4. ParentInv'
  BY <1>0 DEF ParentInv, Spawned, TypeOK, StagesInv
<1>5. ReturnInv'
  BY <1>0 DEF ReturnInv, Ended, TypeOK, StagesInv
<1>6. DoneInv'
  <2>1. \A u \in Ids : u # t => pc'[u] = pc[u] /\ ret'[u] = ret[u]
    BY <1>0 DEF TypeOK
  <2>2. tasks[t].state # "done"
    BY DEF DoneInv
  <2> QED BY <1>0, <2>1, <2>2 DEF DoneInv
<1>7. OperandInv'
  <2>1. \A w \in VMs : w # t => pc'[w] = pc[w]
    BY <1>0 DEF TypeOK
  <2> SUFFICES ASSUME NEW w \in VMs PROVE OperandInv!(w)'
    BY DEF OperandInv
  <2>2. OperandInv!(w) /\ Spawned' = Spawned
    BY DEF OperandInv, Spawned
  <2>3. Spawned \subseteq Ids /\ knows[w] \subseteq Ids
    <3>1. knows[w] \subseteq Ids
      BY DEF TypeOK
    <3> QED BY <3>1 DEF Spawned, TypeOK
  <2>4. CASE w = t
    BY <1>0, <2>4
  <2>5. CASE w # t
    BY <1>0, <2>1, <2>2, <2>3, <2>5
  <2> QED BY <2>4, <2>5
<1>8. JoinerInv'
  BY <1>0 DEF JoinerInv, TypeOK, StagesInv
<1>9. HandleInv'
  <2>1. \A w \in VMs : HandlesIn(ret'[w]) \subseteq HandlesIn(ret[w])
    BY <1>0 DEF HandlesIn, TypeOK
  <2> QED BY <2>1 DEF HandleInv, Held, Spawned
<1> QED
  BY <1>1, <1>2, <1>3, <1>4, <1>5, <1>6, <1>7, <1>8, <1>9

\* spawnEntry() frees the arguments, before or after complete().
LEMMA FreeArgsInv ==
  ASSUME NEW t \in Ids, BasicInv, FreeArgs(t)
  PROVE  BasicInv'
<1> USE DEF BasicInv, Ids, VMs, Outcomes, MainPc, TaskPc, FreeArgs, Alive
<1>1. TypeOK'
  BY DEF TypeOK, StagesInv
<1>2. StagesInv'
  BY DEF StagesInv, TypeOK
<1>3. FreshInv'
  BY DEF FreshInv, TypeOK, StagesInv
<1>4. ParentInv'
  BY DEF ParentInv, Spawned, TypeOK, StagesInv
<1>5. ReturnInv'
  BY DEF ReturnInv, Ended, TypeOK, StagesInv
<1>6. DoneInv'
  <2>1. /\ tasks' = tasks /\ ret' = ret /\ pc \in [VMs -> MainPc \cup TaskPc] /\ t \in VMs
        /\ pc' = [pc EXCEPT ![t] = IF ret[t] = Failed THEN "destroy" ELSE "complete"]
    BY DEF TypeOK
  <2> QED BY <2>1 DEF DoneInv
<1>7. OperandInv'
  BY DEF OperandInv, Spawned, TypeOK, StagesInv
<1>8. JoinerInv'
  BY DEF JoinerInv, TypeOK, StagesInv
<1>9. HandleInv'
  BY DEF HandleInv, Held, HandlesIn, Spawned, TypeOK, StagesInv
<1> QED
  BY <1>1, <1>2, <1>3, <1>4, <1>5, <1>6, <1>7, <1>8, <1>9

\* complete() stores what the function returned, or its error.
LEMMA CompleteInv ==
  ASSUME NEW t \in Ids, BasicInv, Complete(t)
  PROVE  BasicInv'
<1> USE DEF BasicInv, Ids, VMs, Outcomes, MainPc, TaskPc, Complete, Alive
<1>0. ret[t] \in Outcomes
  BY DEF ReturnInv, Ended
<1>1. TypeOK'
  <2>1. tasks' \in [Ids -> Slot]
    BY <1>0, SlotsUpdate DEF TypeOK
  <2> QED BY <2>1 DEF TypeOK
<1>2. StagesInv'
  BY <1>0 DEF StagesInv, TypeOK
<1>3. FreshInv'
  BY <1>0 DEF FreshInv, TypeOK, StagesInv
<1>4. ParentInv'
  BY <1>0 DEF ParentInv, Spawned, TypeOK, StagesInv
<1>5. ReturnInv'
  BY <1>0 DEF ReturnInv, Ended, TypeOK, StagesInv
<1>6. DoneInv'
  BY <1>0 DEF DoneInv, TypeOK, StagesInv
<1>7. OperandInv'
  BY <1>0 DEF OperandInv, Spawned, TypeOK, StagesInv
<1>8. JoinerInv'
  BY <1>0 DEF JoinerInv, TypeOK, StagesInv
<1>9. HandleInv'
  BY <1>0 DEF HandleInv, Held, HandlesIn, Spawned, TypeOK, StagesInv
<1> QED
  BY <1>1, <1>2, <1>3, <1>4, <1>5, <1>6, <1>7, <1>8, <1>9

\* spawnEntry() destroys its SpawnArgs.
LEMMA DestroyArgsInv ==
  ASSUME NEW t \in Ids, BasicInv, DestroyArgs(t)
  PROVE  BasicInv'
<1> USE DEF BasicInv, Ids, VMs, Outcomes, MainPc, TaskPc, DestroyArgs, Alive
<1>1. TypeOK'
  BY DEF TypeOK, StagesInv
<1>2. StagesInv'
  BY DEF StagesInv, TypeOK
<1>3. FreshInv'
  BY DEF FreshInv, TypeOK, StagesInv
<1>4. ParentInv'
  BY DEF ParentInv, Spawned, TypeOK, StagesInv
<1>5. ReturnInv'
  BY DEF ReturnInv, Ended, TypeOK, StagesInv
<1>6. DoneInv'
  BY DEF DoneInv, TypeOK, StagesInv
<1>7. OperandInv'
  BY DEF OperandInv, Spawned, TypeOK, StagesInv
<1>8. JoinerInv'
  BY DEF JoinerInv, TypeOK, StagesInv
<1>9. HandleInv'
  BY DEF HandleInv, Held, HandlesIn, Spawned, TypeOK, StagesInv
<1> QED
  BY <1>1, <1>2, <1>3, <1>4, <1>5, <1>6, <1>7, <1>8, <1>9

\* The thread frees its arena and exits.
LEMMA FinishInv ==
  ASSUME NEW t \in Ids, BasicInv, Finish(t)
  PROVE  BasicInv'
<1> USE DEF BasicInv, Ids, VMs, Outcomes, MainPc, TaskPc, Finish, Alive
<1>1. TypeOK'
  BY DEF TypeOK, StagesInv
<1>2. StagesInv'
  BY DEF StagesInv, TypeOK
<1>3. FreshInv'
  BY DEF FreshInv, TypeOK, StagesInv
<1>4. ParentInv'
  BY DEF ParentInv, Spawned, TypeOK, StagesInv
<1>5. ReturnInv'
  BY DEF ReturnInv, Ended, TypeOK, StagesInv
<1>6. DoneInv'
  BY DEF DoneInv, TypeOK, StagesInv
<1>7. OperandInv'
  BY DEF OperandInv, Spawned, TypeOK, StagesInv
<1>8. JoinerInv'
  BY DEF JoinerInv, TypeOK, StagesInv
<1>9. HandleInv'
  BY DEF HandleInv, Held, HandlesIn, Spawned, TypeOK, StagesInv
<1> QED
  BY <1>1, <1>2, <1>3, <1>4, <1>5, <1>6, <1>7, <1>8, <1>9

\* The process exits, whatever the tasks do.
LEMMA ProcessExitInv ==
  ASSUME BasicInv, ProcessExit
  PROVE  BasicInv'
<1> USE DEF BasicInv, Ids, VMs, Outcomes, MainPc, TaskPc, ProcessExit, Alive
<1>1. TypeOK'
  BY DEF TypeOK, StagesInv
<1>2. StagesInv'
  BY DEF StagesInv, TypeOK
<1>3. FreshInv'
  BY DEF FreshInv, TypeOK, StagesInv
<1>4. ParentInv'
  BY DEF ParentInv, Spawned, TypeOK, StagesInv
<1>5. ReturnInv'
  BY DEF ReturnInv, Ended, TypeOK, StagesInv
<1>6. DoneInv'
  BY DEF DoneInv, TypeOK, StagesInv
<1>7. OperandInv'
  BY DEF OperandInv, Spawned, TypeOK, StagesInv
<1>8. JoinerInv'
  BY DEF JoinerInv, TypeOK, StagesInv
<1>9. HandleInv'
  BY DEF HandleInv, Held, HandlesIn, Spawned, TypeOK, StagesInv
<1> QED
  BY <1>1, <1>2, <1>3, <1>4, <1>5, <1>6, <1>7, <1>8, <1>9
-----------------------------------------------------------------------------
(* The order of the handles.                                                *)

\* Losing handles keeps the order.
LEMMA FewerHandles ==
  ASSUME HandlesWellFounded, \A t \in Ids : HandlesOf(t)' \subseteq HandlesOf(t)
  PROVE  HandlesWellFounded'
BY DEF HandlesWellFounded

\* reserve(): the new task knows what its spawner v may pass on, and only v
\* will know the new task, which nobody knew.
LEMMA HandlesOfNewTask ==
  ASSUME HandlesWellFounded, NEW v, NEW n \in Ids, v # n,
         \A t \in Ids : n \notin HandlesOf(t),
         v \in Ids => HandlesOf(n)' \subseteq HandlesOf(v),
         n \notin HandlesOf(n)',
         v \in Ids => HandlesOf(v)' \subseteq HandlesOf(v) \cup {n},
         \A t \in Ids : t # v /\ t # n => HandlesOf(t)' \subseteq HandlesOf(t)
  PROVE  HandlesWellFounded'
<1> SUFFICES ASSUME NEW S \in SUBSET Ids, S # {}
             PROVE  \E t \in S : HandlesOf(t)' \cap S = {}
  BY DEF HandlesWellFounded
<1>1. CASE S = {n}
  BY <1>1
<1>2. CASE S # {n}
  <2>1. PICK t \in S \ {n} : HandlesOf(t) \cap (S \ {n}) = {}
    <3>1. S \ {n} # {} /\ S \ {n} \in SUBSET Ids
      BY <1>2
    <3> QED BY <3>1 DEF HandlesWellFounded
  <2>2. CASE t # v
    BY <2>1, <2>2
  <2>3. CASE t = v /\ n \in S
    BY <2>1, <2>3
  <2>4. CASE t = v /\ n \notin S
    BY <2>1, <2>4
  <2> QED BY <2>2, <2>3, <2>4
<1> QED BY <1>1, <1>2

\* A sync of c: what c returned moves to v, which had a handle of c.
LEMMA HandlesOfResult ==
  ASSUME HandlesWellFounded, NEW v, NEW c \in Ids,
         v \in Ids => c \in HandlesOf(v),
         v \in Ids => HandlesOf(v)' \subseteq HandlesOf(v) \cup HandlesOf(c),
         \A t \in Ids : t # v => HandlesOf(t)' \subseteq HandlesOf(t)
  PROVE  HandlesWellFounded'
<1> SUFFICES ASSUME NEW S \in SUBSET Ids, S # {}
             PROVE  \E t \in S : HandlesOf(t)' \cap S = {}
  BY DEF HandlesWellFounded
<1>0. S \cup {c} \in SUBSET Ids /\ S \cup {c} # {}
  OBVIOUS
<1>1. PICK t \in S \cup {c} : HandlesOf(t) \cap (S \cup {c}) = {}
  BY <1>0 DEF HandlesWellFounded
<1>2. t # v
  BY <1>1
<1>3. CASE t \in S
  BY <1>1, <1>2, <1>3
<1>4. CASE t = c
  \* c returns nothing of S, so the order of the registers is enough.
  <2>1. PICK u \in S : HandlesOf(u) \cap S = {}
    BY DEF HandlesWellFounded
  <2> QED BY <1>1, <1>4, <2>1
<1> QED BY <1>3, <1>4

\* The end of a program leaves at most one handle, the one it returned.
LEMMA EndProgramHandles ==
  ASSUME NEW v \in VMs, NEW r \in Outcomes, BasicInv, HandlesWellFounded,
         HandlesIn(r) \subseteq knows[v], EndProgram(v, r)
  PROVE  HandlesWellFounded'
<1>1. /\ pc' = [pc EXCEPT ![v] = pc'[v]] /\ pc'[v] \notin {"spawn", "setThread"}
      /\ ret' = [ret EXCEPT ![v] = r] /\ knows' = [knows EXCEPT ![v] = {}]
      /\ cur' = [cur EXCEPT ![v] = None]
  BY DEF EndProgram, BasicInv, TypeOK
<1>2. ASSUME NEW t \in Ids
      PROVE  HandlesOf(t)' \subseteq HandlesOf(t)
  <2>1. t \in VMs
    BY DEF VMs
  <2>2. CASE t = v
    BY <1>1, <2>1, <2>2 DEF HandlesOf, Held, Pending, BasicInv, TypeOK
  <2>3. CASE t # v
    BY <1>1, <2>1, <2>3 DEF HandlesOf, Held, Pending, BasicInv, TypeOK
  <2> QED BY <2>2, <2>3
<1> QED BY <1>2, FewerHandles

\* Void and Failed carry no handle.
LEMMA NoHandles ==
  /\ HandlesIn(Failed) = {} /\ HandlesIn(None) = {}
  /\ \A r \in Results : HandlesIn(r) = {} /\ r \in Outcomes
  /\ \A t \in Ids : HandlesIn(t) = {t} /\ t \in Outcomes
  /\ Failed \in Outcomes
BY DEF HandlesIn, VMs, Outcomes

\* Every step keeps the handles well founded.
LEMMA HandlesStep ==
  ASSUME BasicInv, HandlesWellFounded, [Next]_vars
  PROVE  HandlesWellFounded'
<1> USE DEF BasicInv
<1>1. ASSUME NEW v \in VMs, Return(v) PROVE HandlesWellFounded'
  <2>1. PICK r \in Results \cup knows[v] : EndProgram(v, r)
    BY <1>1 DEF Return
  <2>2. knows[v] \subseteq Ids
    BY DEF TypeOK
  <2>3. r \in Outcomes /\ HandlesIn(r) \subseteq knows[v]
    BY <2>2, NoHandles
  <2> QED BY <2>1, <2>3, EndProgramHandles
<1>2. ASSUME NEW v \in VMs, Fail(v) \/ SpawnFails(v) \/ SyncRaises(v)
      PROVE  HandlesWellFounded'
  <2>1. EndProgram(v, Failed)
    BY <1>2 DEF Fail, SpawnFails, SyncRaises
  <2> QED BY <2>1, NoHandles, EndProgramHandles
<1>3. ASSUME NEW v \in VMs, Reserve(v) PROVE HandlesWellFounded'
  <2>1. PICK args \in SUBSET knows[v] : knows' = [knows EXCEPT ![len] = args]
    BY <1>3 DEF Reserve
  <2>0. PICK n \in Ids : n = len
    BY <1>3 DEF Reserve, TypeOK, Ids
  <2>2. n \in VMs /\ n # v /\ pc[n] = "unborn" /\ ret[n] = None /\ pc[v] = "run"
    <3>1. n \in VMs /\ pc[v] = "run"
      BY <1>3 DEF Reserve, VMs
    <3>2. pc[n] = "unborn"
      BY <2>0 DEF FreshInv, Ids, TypeOK
    <3>3. ret[n] = None
      BY <3>1, <3>2 DEF ReturnInv, Ended
    <3> QED BY <3>1, <3>2, <3>3
  <2>3. /\ pc' = [pc EXCEPT ![v] = "spawn"] /\ cur' = [cur EXCEPT ![v] = n]
        /\ ret' = ret
    BY <1>3, <2>0 DEF Reserve
  <2>4. \A t \in Ids : t \in VMs
    BY DEF VMs
  <2>5. ASSUME NEW t \in Ids PROVE n \notin HandlesOf(t)
    <3>1. n \notin Held(t)
      BY <2>0, <2>4 DEF HandleInv, Spawned, TypeOK
    <3>2. n \notin Pending(t)
      BY <2>0, <2>4 DEF OperandInv, Pending, Spawned, TypeOK
    <3> QED BY <3>1, <3>2 DEF HandlesOf
  <2>6. n \notin knows[v]
    BY <2>0 DEF HandleInv, Held, Spawned, TypeOK
  <2>7. HandlesOf(n)' = args
    <3>1. knows'[n] = args /\ pc'[n] = "unborn" /\ ret'[n] = None
      BY <2>0, <2>1, <2>2, <2>3 DEF TypeOK
    <3> QED BY <3>1, NoHandles DEF HandlesOf, Held, Pending
  <2>8. v \in Ids => HandlesOf(v)' \subseteq HandlesOf(v) \cup {n}
    BY <2>0, <2>1, <2>2, <2>3 DEF HandlesOf, Held, Pending, TypeOK
  <2>9. \A t \in Ids : t # v /\ t # n => HandlesOf(t)' \subseteq HandlesOf(t)
    BY <2>0, <2>1, <2>2, <2>3, <2>4 DEF HandlesOf, Held, Pending, TypeOK
  <2>10. args \subseteq HandlesOf(v)
    BY DEF HandlesOf, Held
  <2>11. HandlesOf(n)' \subseteq HandlesOf(v) /\ n \notin HandlesOf(n)'
    BY <2>6, <2>7, <2>10
  <2> HIDE DEF HandlesOf
  <2> QED BY <2>5, <2>8, <2>9, <2>11, <2>2, HandlesOfNewTask
<1>4. ASSUME NEW v \in VMs, SpawnThread(v) PROVE HandlesWellFounded'
  <2>1. cur[v] \in VMs /\ cur[v] # v /\ pc[v] = "spawn" /\ pc[cur[v]] = "unborn"
    BY <1>4 DEF SpawnThread, OperandInv, Spawned, TypeOK, Ids, VMs
  <2>2. ASSUME NEW t \in Ids PROVE HandlesOf(t)' \subseteq HandlesOf(t)
    BY <1>4, <2>1 DEF SpawnThread, HandlesOf, Held, Pending, TypeOK, VMs
  <2> QED BY <2>2, FewerHandles
<1>5. ASSUME NEW v \in VMs, SetThread(v) PROVE HandlesWellFounded'
  <2>1. ASSUME NEW t \in Ids PROVE HandlesOf(t)' \subseteq HandlesOf(t)
    BY <1>5 DEF SetThread, HandlesOf, Held, Pending, TypeOK, VMs
  <2> QED BY <2>1, FewerHandles
<1>6. ASSUME NEW v \in VMs, Sync(v) \/ SyncWait(v) PROVE HandlesWellFounded'
  <2>1. ASSUME NEW t \in Ids PROVE HandlesOf(t)' \subseteq HandlesOf(t)
    BY <1>6 DEF Sync, SyncWait, HandlesOf, Held, Pending, TypeOK, VMs
  <2> QED BY <2>1, FewerHandles
<1>7. ASSUME NEW v \in VMs, SyncReturns(v) PROVE HandlesWellFounded'
  <2> DEFINE c == cur[v]
  <2>1. c \in knows[v] /\ pc[c] = "exited" /\ pc[v] = "joined"
    BY <1>7 DEF SyncReturns, OperandInv
  <2>2. c \in Ids
    BY <2>1 DEF TypeOK
  <2>3. tasks[c].outcome = ret[c]
    BY <2>1, <2>2 DEF DoneInv
  <2>4. /\ pc' = [pc EXCEPT ![v] = "run"] /\ ret' = ret
        /\ knows' = [knows EXCEPT ![v] = @ \cup HandlesIn(ret[c])]
        /\ cur' = [cur EXCEPT ![v] = None]
    BY <1>7, <2>3 DEF SyncReturns
  <2>5. HandlesOf(v)' \subseteq HandlesOf(v) \cup HandlesOf(c)
    BY <2>4 DEF HandlesOf, Held, Pending, TypeOK
  <2>6. \A t \in Ids : t # v => HandlesOf(t)' \subseteq HandlesOf(t)
    BY <2>4 DEF HandlesOf, Held, Pending, TypeOK, VMs
  <2>7. c \in HandlesOf(v)
    BY <2>1 DEF HandlesOf, Held
  <2> HIDE DEF c
  <2> QED BY <2>2, <2>5, <2>6, <2>7, HandlesOfResult
<1>8. ASSUME NEW v \in VMs, SyncAgain(v) \/ DanglingAccess(v)
      PROVE  HandlesWellFounded'
  <2>1. ASSUME NEW t \in Ids PROVE HandlesOf(t)' \subseteq HandlesOf(t)
    BY <1>8 DEF SyncAgain, DanglingAccess, HandlesOf, Held, Pending
  <2> QED BY <2>1, FewerHandles
<1>9. ASSUME NEW t \in Ids, SpawnEntry(t) PROVE HandlesWellFounded'
  <2>1. /\ pc' = [pc EXCEPT ![t] = pc'[t]] /\ pc'[t] \notin {"spawn", "setThread"}
        /\ UNCHANGED <<knows, cur>>
    BY <1>9 DEF SpawnEntry, Start, FreeArgs, Complete, DestroyArgs, Finish, TypeOK, VMs
  <2>2. ret' = ret \/ ret' = [ret EXCEPT ![t] = Failed]
    BY <1>9 DEF SpawnEntry, Start, FreeArgs, Complete, DestroyArgs, Finish
  <2>3. \A u \in VMs : HandlesIn(ret'[u]) \subseteq HandlesIn(ret[u])
    BY <2>2, NoHandles DEF TypeOK
  <2>4. ASSUME NEW u \in Ids PROVE HandlesOf(u)' \subseteq HandlesOf(u)
    BY <2>1, <2>3 DEF HandlesOf, Held, Pending, TypeOK, VMs
  <2> QED BY <2>4, FewerHandles
<1>10. ASSUME ProcessExit PROVE HandlesWellFounded'
  <2>1. ASSUME NEW t \in Ids PROVE HandlesOf(t)' \subseteq HandlesOf(t)
    BY <1>10 DEF ProcessExit, HandlesOf, Held, Pending, TypeOK, VMs
  <2> QED BY <2>1, FewerHandles
<1>11. CASE UNCHANGED vars
  <2>1. ASSUME NEW t \in Ids PROVE HandlesOf(t)' \subseteq HandlesOf(t)
    BY <1>11 DEF vars, HandlesOf, Held, Pending
  <2> QED BY <2>1, FewerHandles
<1> QED
  BY <1>1, <1>2, <1>3, <1>4, <1>5, <1>6, <1>7, <1>8, <1>9, <1>10, <1>11
     DEF Next, Program, Terminated

-----------------------------------------------------------------------------
(* All the steps together.                                                  *)
\* Every step keeps the parts of the invariant but the last two.
LEMMA BasicStep ==
  ASSUME BasicInv, [Next]_vars
  PROVE  BasicInv'
<1>1. ASSUME NEW v \in VMs, Return(v) PROVE BasicInv'
  <2>1. PICK r \in Results \cup knows[v] : EndProgram(v, r)
    BY <1>1 DEF Return
  <2>2. knows[v] \subseteq Ids
    BY DEF BasicInv, TypeOK
  <2>3. r \in Outcomes /\ HandlesIn(r) \subseteq knows[v]
    BY <2>2, NoHandles
  <2> QED BY <1>1, <2>1, <2>3, EndProgramInv DEF Return
<1>2. ASSUME NEW v \in VMs, Fail(v) \/ SpawnFails(v) PROVE BasicInv'
  BY <1>2, NoHandles, EndProgramInv DEF Fail, SpawnFails
<1>3. ASSUME NEW v \in VMs, SyncRaises(v) PROVE BasicInv'
  BY <1>3, NoHandles, EndProgramInv DEF SyncRaises
<1>4. ASSUME NEW v \in VMs, Program(v) PROVE BasicInv'
  BY <1>1, <1>2, <1>3, <1>4, ReserveInv, SpawnThreadInv, SetThreadInv, SyncInv,
     SyncAgainInv, SyncWaitInv, SyncReturnsInv, DanglingAccessInv DEF Program
<1>5. ASSUME NEW t \in Ids, SpawnEntry(t) PROVE BasicInv'
  BY <1>5, StartInv, FreeArgsInv, CompleteInv, DestroyArgsInv, FinishInv
     DEF SpawnEntry
<1>6. CASE UNCHANGED vars
  BY <1>6 DEF vars, BasicInv, TypeOK, StagesInv, FreshInv, ParentInv, Spawned,
     ReturnInv, DoneInv, OperandInv, JoinerInv, HandleInv, Held
<1> QED
  BY <1>4, <1>5, <1>6, ProcessExitInv DEF Next, Terminated

(* The first access to freed storage: the task with the smallest id that is *)
(* still out there has lost its spawner.                                    *)
LEMMA DanglingNeedsAbandoned ==
  ASSUME BasicInv, NEW v \in VMs, NEW h \in Touches(v), ~arena[h]
  PROVE  \E t \in Ids : Abandoned(t)
<1> USE DEF BasicInv
<1> DEFINE Live == {t \in Ids : pc[t] \notin {"unborn", "exited"}}
<1>1. ASSUME NEW t \in Live, ~arena[parent[t]] PROVE Abandoned(t)
  <2>1. t \in Spawned /\ t \in Ids /\ pc[t] \notin {"unborn", "exited"}
    BY DEF FreshInv, Ids, TypeOK, Spawned
  <2>2. got[t] = None
    BY <2>1 DEF JoinerInv
  <2> HIDE DEF Live
  <2> QED BY <1>1, <2>1, <2>2 DEF Abandoned
<1>2. CASE v \in Ids /\ h = parent[v] /\ pc[v] \in {"started", "freeArgs", "destroy"}
  BY <1>1, <1>2
<1>3. CASE h = Main
  <2>1. v \in Live
    BY <1>3 DEF Touches, VMs, StagesInv, MainPc
  <2>2. PICK t \in Live : \A u \in Live : ~(u < t)
    <3>1. Live \subseteq Nat /\ Live # {}
      BY <2>1 DEF Ids
    <3>2. IsWellFoundedOn(OpToRel(<, Nat), Nat)
      BY NatLessThanWellFounded
    <3>3. \E t \in Live : \A u \in Live : ~(<<u, t>> \in OpToRel(<, Nat))
      BY <3>1, <3>2, WFMin
    <3> QED BY <3>1, <3>3 DEF OpToRel
  <2>3. ~arena[parent[t]]
    <3>1. t \in Spawned
      BY DEF FreshInv, Spawned, Ids, TypeOK
    <3>2. CASE parent[t] = Main
      BY <1>3, <3>2
    <3>3. CASE parent[t] \in 0 .. t - 1
      <4>1. parent[t] \in Ids /\ parent[t] < t
        BY <3>3 DEF Ids
      <4>2. pc[parent[t]] \in {"unborn", "exited"}
        BY <2>2, <4>1
      <4> QED BY <4>1, <4>2 DEF StagesInv
    <3> QED BY <3>1, <3>2, <3>3 DEF ParentInv
  <2> QED BY <1>1, <2>3
<1> QED
  BY <1>2, <1>3 DEF Touches, VMs, StagesInv, MainPc

\* Every step keeps the last part: a fault comes with an abandoned task.
LEMMA FaultStep ==
  ASSUME BasicInv, FreedStorageNeedsAbandonedTask, [Next]_vars
  PROVE  FreedStorageNeedsAbandonedTask'
<1> SUFFICES ASSUME fault' = "useAfterFree"
             PROVE  \E t \in Ids : Abandoned(t)'
  BY DEF FreedStorageNeedsAbandonedTask
<1>1. CASE fault = "useAfterFree"
  <2>1. UNCHANGED vars
    BY <1>1 DEF Next, Program, SpawnEntry, Return, Fail, Reserve, SpawnThread,
       SpawnFails, SetThread, Sync, SyncAgain, SyncWait, SyncReturns,
       SyncRaises, DanglingAccess, Start, FreeArgs, Complete, DestroyArgs,
       Finish, ProcessExit, Terminated, Alive
  <2> QED
    BY <1>1, <2>1 DEF FreedStorageNeedsAbandonedTask, Abandoned, Spawned, vars
<1>2. CASE fault # "useAfterFree"
  <2>1. PICK v \in VMs : DanglingAccess(v)
    BY <1>2 DEF Next, Program, SpawnEntry, Return, Fail, Reserve, SpawnThread,
       SpawnFails, SetThread, Sync, SyncAgain, SyncWait, SyncReturns,
       SyncRaises, Start, FreeArgs, Complete, DestroyArgs,
       Finish, ProcessExit, Terminated, vars
  <2>2. PICK t \in Ids : Abandoned(t)
    BY <2>1, DanglingNeedsAbandoned DEF DanglingAccess
  <2> QED BY <2>1, <2>2 DEF DanglingAccess, Abandoned, Spawned
<1> QED BY <1>1, <1>2

\* The invariant is inductive.
LEMMA IndInvStep == IndInv /\ [Next]_vars => IndInv'
BY BasicStep, HandlesStep, FaultStep DEF IndInv, BasicInv

\* The invariant of the model, for any number of tasks.
THEOREM Invariance == Spec => []IndInv
<1>1. Init => IndInv
  BY InitInv
<1>2. IndInv /\ [Next]_vars => IndInv'
  BY IndInvStep
<1> QED BY <1>1, <1>2, PTL DEF Spec

\* Type correctness.
THEOREM TypeCorrect == Spec => []TypeOK
<1>1. IndInv => TypeOK
  BY DEF IndInv
<1> QED BY <1>1, Invariance, PTL

\* No join() ever reads the undefined thread of a fresh slot.
THEOREM HandlesNameThreads == Spec => []KnownHandleHasThread
<1>1. IndInv => KnownHandleHasThread
  BY DEF IndInv, HandleInv, KnownHandleHasThread, Held
<1> QED BY <1>1, Invariance, PTL

\* What join() reads after thread.join() is what complete() stored.
THEOREM JoinsReadFinalOutcomes == Spec => []JoinReadsFinalOutcome
<1>1. ASSUME IndInv PROVE JoinReadsFinalOutcome
  <2> SUFFICES ASSUME NEW v \in VMs, pc[v] = "joined"
               PROVE  tasks[cur[v]].state = "done"
    BY DEF JoinReadsFinalOutcome
  <2>1. pc[cur[v]] = "exited" /\ cur[v] \in knows[v]
    BY <1>1 DEF IndInv, OperandInv
  <2>2. cur[v] \in Ids
    BY <1>1, <2>1 DEF IndInv, TypeOK
  <2> QED BY <1>1, <2>1, <2>2 DEF IndInv, DoneInv
<1> QED BY <1>1, Invariance, PTL

\* No tasks wait for one another in a circle: a task waits for a task whose
\* handle it has, and the handles are well founded.
THEOREM NoTasksWaitInCircles == Spec => []NoWaitCycle
<1>1. ASSUME IndInv PROVE NoWaitCycle
  <2> SUFFICES ASSUME NEW S \in SUBSET Ids, S # {}
               PROVE  \E t \in S : ~(pc[t] = "join" /\ cur[t] \in S)
    BY DEF NoWaitCycle
  <2>1. PICK t \in S : HandlesOf(t) \cap S = {}
    BY <1>1 DEF IndInv, HandlesWellFounded
  <2>2. pc[t] = "join" => cur[t] \in HandlesOf(t)
    BY <1>1 DEF IndInv, OperandInv, HandlesOf, Held, VMs
  <2> QED BY <2>1, <2>2
<1> QED BY <1>1, Invariance, PTL

\* Freed storage is touched only after some VM ended with a task unsynced.
THEOREM FreedStorage == Spec => []FreedStorageNeedsAbandonedTask
<1>1. IndInv => FreedStorageNeedsAbandonedTask
  BY DEF IndInv
<1> QED BY <1>1, Invariance, PTL

\* Once complete() has stored an outcome, no later step changes it.
THEOREM OutcomesAreFinal == Spec => OutcomeIsFinal
<1>1. ASSUME IndInv, [Next]_vars, NEW t \in Ids, tasks[t].state = "done"
      PROVE  tasks'[t].state = "done" /\ tasks'[t].outcome = tasks[t].outcome
  <2>0. tasks \in [Ids -> Slot]
    BY <1>1 DEF IndInv, TypeOK
  <2>1. ASSUME NEW v \in VMs, Reserve(v) PROVE tasks'[t] = tasks[t]
    <3>1. pc[t] # "unborn"
      BY <1>1 DEF IndInv, DoneInv
    <3>2. t # len
      BY <1>1, <3>1 DEF IndInv, FreshInv, Ids
    <3> QED BY <2>0, <2>1, <3>2 DEF Reserve
  <2>2. ASSUME NEW v \in VMs, SetThread(v)
        PROVE  /\ tasks'[t].state = tasks[t].state
               /\ tasks'[t].outcome = tasks[t].outcome
    BY <2>0, <2>2 DEF SetThread, Slot
  <2>3. ASSUME NEW u \in Ids, Complete(u) PROVE tasks'[t] = tasks[t]
    <3>1. tasks[u].state # "done"
      BY <1>1, <2>3 DEF Complete, IndInv, DoneInv
    <3> QED BY <1>1, <2>0, <2>3, <3>1 DEF Complete
  <2>4. CASE UNCHANGED tasks
    BY <1>1, <2>4
  <2> QED
    BY <1>1, <2>1, <2>2, <2>3, <2>4 DEF Next, Program, SpawnEntry, Return, Fail,
       SpawnThread, SpawnFails, Sync, SyncAgain, SyncWait, SyncReturns,
       SyncRaises, DanglingAccess, Start, FreeArgs, DestroyArgs, Finish,
       ProcessExit, Terminated, vars
<1>2. IndInv /\ [Next]_vars =>
        [\A t \in Ids : tasks[t].state = "done" =>
           /\ tasks'[t].state = "done"
           /\ tasks'[t].outcome = tasks[t].outcome]_vars
  BY <1>1
<1> QED BY <1>2, Invariance, PTL DEF Spec, OutcomeIsFinal

-----------------------------------------------------------------------------
(* The refinement: reserve() launches, complete() resolves and the read at  *)
(* the end of a join delivers; every other step stutters.                   *)
Outcome == [t \in Ids |-> IF t \in Finished THEN tasks[t].outcome ELSE None]

\* The initial state is one of Futures.
LEMMA FuturesInit == Init => F!Init
BY DEF Init, F!Init, Finished, Spawned

\* Every step is a step of Futures or changes nothing Futures sees.
LEMMA FuturesStep == IndInv /\ [Next]_vars => [F!Next]_F!vars
<1> SUFFICES ASSUME IndInv, [Next]_vars PROVE [F!Next]_F!vars
  OBVIOUS
<1> USE DEF IndInv
<1>0. /\ tasks \in [Ids -> Slot] /\ got \in [Ids -> Outcomes \cup {None}]
      /\ None \notin Outcomes /\ Spawned \subseteq Ids
  BY DEF TypeOK, Spawned, Ids
<1>1. ASSUME NEW v \in VMs, Reserve(v) PROVE F!Launch(len) /\ len \in Ids
  <2>1. len \in Ids /\ len \notin Spawned /\ Spawned' = Spawned \cup {len}
    BY <1>1 DEF Reserve, Ids, Spawned, TypeOK
  <2>2. tasks'[len].state = "running" /\ \A t \in Ids : t # len => tasks'[t] = tasks[t]
    BY <1>0, <1>1, <2>1 DEF Reserve, NewSlot
  <2>3. Finished' = Finished
    BY <1>0, <2>1, <2>2 DEF Finished
  <2>4. got' = got /\ \A t \in Finished : tasks'[t].outcome = tasks[t].outcome
    BY <1>0, <1>1, <2>1, <2>2 DEF Reserve, Finished
  <2>5. Outcome' = Outcome /\ Outcome[len] = None
    BY <2>1, <2>3, <2>4 DEF Outcome, Finished
  <2>6. len \notin Finished
    BY <2>1 DEF Finished
  <2> QED BY <1>0, <2>1, <2>3, <2>4, <2>5, <2>6 DEF F!Launch, Outcome
<1>2. ASSUME NEW u \in Ids, Complete(u) PROVE F!Resolve(u)
  <2>1. u \in Spawned /\ tasks[u].state # "done" /\ ret[u] \in Outcomes
    <3>1. u \in VMs /\ pc[u] = "complete" /\ len \in 0 .. MaxTasks
      BY <1>2 DEF Complete, VMs, TypeOK
    <3>2. u \in Spawned
      BY <3>1 DEF FreshInv, Spawned, Ids
    <3>3. ret[u] \in Outcomes
      BY <3>1 DEF ReturnInv, Ended
    <3>4. tasks[u].state # "done"
      BY <3>1 DEF DoneInv
    <3> QED BY <3>2, <3>3, <3>4
  <2>2. tasks'[u].state = "done" /\ tasks'[u].outcome = ret[u]
    BY <1>0, <1>2 DEF Complete, Slot
  <2>3. \A t \in Ids : t # u => tasks'[t] = tasks[t]
    BY <1>0, <1>2 DEF Complete
  <2>4. Spawned' = Spawned /\ got' = got
    BY <1>2 DEF Complete, Spawned
  <2>5. Finished' = Finished \cup {u}
    BY <1>0, <2>1, <2>2, <2>3, <2>4 DEF Finished
  <2>6. Outcome' = [Outcome EXCEPT ![u] = ret[u]]
    BY <1>0, <2>1, <2>2, <2>3, <2>4, <2>5 DEF Outcome, Finished
  <2> QED BY <1>0, <2>1, <2>4, <2>5, <2>6 DEF F!Resolve, Finished, Outcome
<1>3. ASSUME NEW v \in VMs, SyncReturns(v) \/ SyncRaises(v)
      PROVE  F!Deliver(cur[v]) /\ cur[v] \in Ids
  <2> DEFINE c == cur[v]
  <2>1. c \in knows[v] /\ got[c] = None /\ pc[c] = "exited"
    BY <1>3 DEF SyncReturns, SyncRaises, OperandInv
  <2>2. c \in Ids
    BY <2>1 DEF TypeOK
  <2>3. c \in Spawned
    BY <2>2, <2>1 DEF FreshInv, Ids, Spawned, TypeOK
  <2>4. c \in Finished /\ tasks[c].outcome \in Outcomes
    BY <1>0, <2>1, <2>2, <2>3 DEF DoneInv, Finished, Slot
  <2>5. got' = [got EXCEPT ![c] = tasks[c].outcome] /\ UNCHANGED <<tasks, len>>
    BY <1>3 DEF SyncReturns, SyncRaises
  <2>6. Outcome' = Outcome /\ Spawned' = Spawned /\ Finished' = Finished
    BY <2>5 DEF Outcome, Spawned, Finished
  <2>7. Outcome[c] = tasks[c].outcome
    BY <2>2, <2>4 DEF Outcome
  <2> HIDE DEF c
  <2> QED BY <1>0, <2>1, <2>2, <2>4, <2>5, <2>6, <2>7 DEF F!Deliver, Outcome, c
<1>4. ASSUME NEW v \in VMs, SetThread(v) PROVE UNCHANGED F!vars
  <2>1. cur[v] \in Ids /\ Spawned' = Spawned /\ got' = got
    BY <1>0, <1>4 DEF SetThread, OperandInv, Spawned
  <2>2. \A t \in Ids : /\ tasks'[t].state = tasks[t].state
                      /\ tasks'[t].outcome = tasks[t].outcome
    BY <1>0, <1>4, <2>1 DEF SetThread, Slot
  <2>3. Finished' = Finished
    BY <1>0, <2>1, <2>2 DEF Finished
  <2> QED BY <2>1, <2>2, <2>3 DEF F!vars
<1>5. CASE UNCHANGED <<tasks, len, got>>
  BY <1>5 DEF F!vars, Finished, Spawned
<1>6. CASE UNCHANGED vars
  BY <1>5, <1>6 DEF vars
<1> QED
  BY <1>1, <1>2, <1>3, <1>4, <1>5, <1>6 DEF Next, Program, SpawnEntry, Return,
     Fail, SpawnThread, SpawnFails, Sync, SyncAgain, SyncWait, DanglingAccess,
     Start, FreeArgs, DestroyArgs, Finish, ProcessExit, Terminated, F!Next

\* spawn and sync implement futures.
THEOREM TasksAreFutures == Spec => ImplementsFutures
<1> QED BY FuturesInit, FuturesStep, Invariance, PTL DEF Spec, ImplementsFutures, F!Spec

=============================================================================
