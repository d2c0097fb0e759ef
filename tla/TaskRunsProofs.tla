---------------------------- MODULE TaskRunsProofs ----------------------------
(***************************************************************************)
(* The safety properties of TaskRuns, and that it implements RunSlots, for *)
(* every set of tasks, packages, runs and handlers and every cap.          *)
(***************************************************************************)
EXTENDS TaskRuns, SequenceTheorems, FunctionTheorems, FiniteSetTheorems, TLAPS

-------------------------------------------------------------------------------
(* Lemmas about the operators                                               *)

(* What applyRunRetentionLocked leaves of a history with a record put in    *)
(* front: that record, then a prefix of the old history, within the limit.  *)
LEMMA RetainedFacts ==
  ASSUME NEW r \in RunIds, NEW s \in Seq(RunIds)
  PROVE  LET new == Retained(<<r>> \o s) IN
         /\ new \in Seq(RunIds)
         /\ Len(new) <= MaxRunsPerTask
         /\ Len(new) <= Len(s) + 1
         /\ \A i \in 1..Len(new) : new[i] = IF i = 1 THEN r ELSE s[i - 1]
<1> DEFINE all == <<r>> \o s
           n == IF Len(all) < MaxRunsPerTask THEN Len(all) ELSE MaxRunsPerTask
<1>1. /\ all \in Seq(RunIds)
      /\ Len(all) = Len(s) + 1
      /\ \A i \in 1..Len(all) : all[i] = IF i = 1 THEN r ELSE s[i - 1]
  OBVIOUS
<1>2. n \in Nat /\ n <= MaxRunsPerTask /\ n <= Len(all)
  BY <1>1, ConstantsAssumption
<1> HIDE DEF all, n
<1>3. /\ SubSeq(all, 1, n) \in Seq(RunIds)
      /\ Len(SubSeq(all, 1, n)) = n
      /\ \A i \in 1..n : SubSeq(all, 1, n)[i] = all[i]
  BY <1>1, <1>2
<1>4. \A i \in 1..n : i \in 1..Len(all)
  BY <1>1, <1>2
<1>5. Retained(<<r>> \o s) = SubSeq(all, 1, n)
  BY DEF Retained, all, n
<1> QED
  BY <1>1, <1>2, <1>3, <1>4, <1>5

(* A reservation or import gives an ID without a generation the first one   *)
(* and changes nothing else.                                                *)
LEMMA WithGenerationFacts ==
  ASSUME generation \in [TaskIds -> Nat], NEW t \in TaskIds
  PROVE  /\ WithGeneration(t) \in [TaskIds -> Nat]
         /\ WithGeneration(t)[t] # 0
         /\ \A u \in TaskIds : generation[u] # 0 => WithGeneration(t)[u] = generation[u]
         /\ \A u \in TaskIds : u # t => WithGeneration(t)[u] = generation[u]
  BY DEF WithGeneration

-------------------------------------------------------------------------------
(* Type correctness                                                         *)

(* Every step of the engine keeps every variable in its type.               *)
LEMMA TypeStep == TypeOK /\ [Next]_vars => TypeOK'
<1> SUFFICES ASSUME TypeOK, [Next]_vars PROVE TypeOK'
  OBVIOUS
<1> USE DEF TypeOK, At, Killed, registryVars, trackingVars, runVars,
            shutdownVars, Phases, Executing
<1>1. ASSUME NEW t \in TaskIds, NEW p \in Packages, ImportTask(t, p) PROVE TypeOK'
  BY <1>1, WithGenerationFacts DEF ImportTask, Task
<1>2. ASSUME NEW h \in Reloaders, NEW k \in tasks, ReloadRead(h, k) PROVE TypeOK'
  BY <1>2 DEF ReloadRead
<1>3. ASSUME NEW h \in Reloaders, ReloadImport(h) PROVE TypeOK'
  <2> DEFINE k == reload[h]
  <2>1. k \in Task /\ k.id \in TaskIds
    BY <1>3 DEF ReloadImport, Task
  <2>2. generation' \in [TaskIds -> Nat]
    BY <1>3, <2>1, WithGenerationFacts DEF ReloadImport
  <2>3. tasks' \subseteq Task
    BY <1>3, <2>1 DEF ReloadImport
  <2>4. reload' \in [Reloaders -> Task \cup {None}]
    BY <1>3 DEF ReloadImport
  <2> QED
    BY <1>3, <2>2, <2>3, <2>4 DEF ReloadImport
<1>4. ASSUME NEW h \in Reloaders, ReloadFails(h) PROVE TypeOK'
  BY <1>4 DEF ReloadFails
<1>5. ASSUME NEW k \in tasks, RemoveTask(k) PROVE TypeOK'
  BY <1>5, ConstantsAssumption DEF RemoveTask, Task
<1>6. ASSUME NEW r \in RunIds, NEW t \in TaskIds, Reserve(t, r) PROVE TypeOK'
  BY <1>6, WithGenerationFacts DEF Reserve
<1>7. ASSUME NEW r \in RunIds, NEW t \in TaskIds, ReserveGated(t, r) PROVE TypeOK'
  BY <1>7, WithGenerationFacts DEF ReserveGated
<1>8. ASSUME NEW r \in RunIds, StartProcess(r) \/ LaunchFails(r) \/ ProcessExits(r) PROVE TypeOK'
  BY <1>8 DEF StartProcess, LaunchFails, ProcessExits
<1>9. ASSUME NEW r \in RunIds, RegisterCancel(r) PROVE TypeOK'
  BY <1>9 DEF RegisterCancel
<1>10. ASSUME NEW r \in RunIds, RecordActiveRun(r) \/ RecordOutput(r) PROVE TypeOK'
  BY <1>10 DEF RecordActiveRun, RecordOutput, WithController
<1>11. ASSUME NEW r \in RunIds, RefuseStaleRun(r) \/ CleanUpStaleRun(r) PROVE TypeOK'
  BY <1>11 DEF RefuseStaleRun, CleanUpStaleRun
<1>12. ASSUME NEW r \in RunIds, ProcessReaped(r) \/ RunTimesOut(r) \/ RunCanceled(r) PROVE TypeOK'
  BY <1>12 DEF ProcessReaped, RunTimesOut, RunCanceled, Interrupted
<1>13. ASSUME NEW r \in RunIds, ClearActiveRun(r) PROVE TypeOK'
  BY <1>13 DEF ClearActiveRun, ClearedRecord
<1>14. ASSUME NEW r \in RunIds, Finish(r) PROVE TypeOK'
  <2>1. runTask[r] \in TaskIds => history[runTask[r]] \in Seq(RunIds)
    OBVIOUS
  <2>2. history' \in [TaskIds -> Seq(RunIds)]
    BY <1>14, <2>1, RetainedFacts DEF Finish
  <2>3. \A t \in TaskIds : Len(history'[t]) <= MaxRunsPerTask
    BY <1>14, <2>1, RetainedFacts DEF Finish
  <2> QED
    BY <1>14, <2>2, <2>3 DEF Finish
<1>15. ASSUME NEW r \in RunIds, CancelRun(r) PROVE TypeOK'
  BY <1>15 DEF CancelRun, ClearedRecord
<1>16. ASSUME NEW r \in RunIds, CleanUpRemoved(r) PROVE TypeOK'
  BY <1>16 DEF CleanUpRemoved
<1>17. ASSUME NEW r \in RunIds, TerminateRun(r) PROVE TypeOK'
  BY <1>17 DEF TerminateRun, ClearedRecord
<1>18. CASE BeginShutdown
  BY <1>18 DEF BeginShutdown
<1>19. CASE UNCHANGED vars
  BY <1>19 DEF vars
<1> QED
  BY <1>1, <1>2, <1>3, <1>4, <1>5, <1>6, <1>7, <1>8, <1>9, <1>10, <1>11, <1>12, <1>13,
     <1>14, <1>15, <1>16, <1>17, <1>18, <1>19 DEF Next, RegistryNext, RunNext, RunStep

-------------------------------------------------------------------------------
(* The registry                                                             *)

(* A reservation finds the generation of a registered task already set.     *)
LEMMA RegisteredGeneration ==
  ASSUME TypeOK, RegistryInv, NEW t \in TaskIds, Registered(t)
  PROVE  generation[t] # 0 /\ WithGeneration(t) = generation
<1>1. generation[t] # 0
  BY DEF RegistryInv, Registered
<1> QED
  BY <1>1 DEF WithGeneration, TypeOK

(* The run's goroutine, and the requests about a run, leave the registry,   *)
(* the pending reloads and the generations of registered tasks alone.       *)
LEMMA RunsKeepRegistry ==
  ASSUME TypeOK, RegistryInv, NEW r \in RunIds, RunNext(r)
  PROVE  UNCHANGED registryVars
<1> USE DEF registryVars
<1>1. ASSUME NEW t \in TaskIds, Reserve(t, r) \/ ReserveGated(t, r) PROVE UNCHANGED registryVars
  <2>1. WithGeneration(t) = generation
    BY <1>1, RegisteredGeneration DEF Reserve, ReserveGated, Reservable
  <2> QED
    BY <1>1, <2>1 DEF Reserve, ReserveGated
<1>2. CASE RunStep(r)
  BY <1>2 DEF RunStep, StartProcess, LaunchFails, RegisterCancel, RecordActiveRun,
       RefuseStaleRun, CleanUpStaleRun, ProcessReaped, RunCanceled, Interrupted,
       ClearActiveRun, Finish
<1>3. CASE RecordOutput(r) \/ ProcessExits(r) \/ RunTimesOut(r)
  BY <1>3 DEF RecordOutput, ProcessExits, RunTimesOut, Interrupted
<1>4. CASE CleanUpRemoved(r) \/ CancelRun(r) \/ TerminateRun(r)
  BY <1>4 DEF CleanUpRemoved, CancelRun, TerminateRun
<1> QED
  BY <1>1, <1>2, <1>3, <1>4 DEF RunNext

(* Imports, reloads and removals keep IDs and packages in one-to-one        *)
(* correspondence.                                                          *)
LEMMA RegistryStep == TypeOK /\ RegistryInv /\ [Next]_vars => RegistryInv'
<1> SUFFICES ASSUME TypeOK, RegistryInv, [Next]_vars PROVE RegistryInv'
  OBVIOUS
<1>1. ASSUME UNCHANGED registryVars PROVE RegistryInv'
  BY <1>1 DEF RegistryInv, UniqueRegistry, registryVars
<1>2. ASSUME NEW t \in TaskIds, NEW p \in Packages, ImportTask(t, p) PROVE RegistryInv'
  <2> DEFINE new == [id |-> t, pkg |-> p]
  <2>1. /\ tasks' = tasks \cup {new} /\ reload' = reload
        /\ generation' = WithGeneration(t) /\ generation[t] = 0
        /\ \A k \in tasks : k.pkg # p
    BY <1>2 DEF ImportTask, Fresh
  <2>2. \A k \in tasks : k.id # t /\ k.id \in TaskIds
    BY <2>1 DEF RegistryInv, TypeOK, Task
  <2>3. \A h \in Reloaders : reload[h] # None => reload[h].id # t /\ reload[h].id \in TaskIds
    BY <2>1 DEF RegistryInv, TypeOK, Task
  <2>4. \A u \in TaskIds : generation'[u] # 0 \/ generation[u] = 0
    BY <2>1, WithGenerationFacts DEF TypeOK
  <2>5. generation'[t] # 0
    BY <2>1, WithGenerationFacts DEF TypeOK
  <2>6. new.id = t /\ new.pkg = p
    OBVIOUS
  <2> HIDE DEF new
  <2>7. UniqueRegistry'
    BY <2>1, <2>2, <2>6 DEF RegistryInv, UniqueRegistry
  <2>8. \A k \in tasks' : generation'[k.id] # 0
    BY <2>1, <2>2, <2>4, <2>5, <2>6 DEF RegistryInv
  <2>9. \A h \in Reloaders : reload'[h] # None =>
          /\ generation'[reload'[h].id] # 0
          /\ \A k \in tasks' : k.id = reload'[h].id => k = reload'[h]
          /\ \A i \in Reloaders :
               reload'[i] # None /\ reload'[i].id = reload'[h].id => reload'[i] = reload'[h]
    BY <2>1, <2>3, <2>4, <2>6 DEF RegistryInv
  <2> QED
    BY <2>7, <2>8, <2>9 DEF RegistryInv
<1>3. ASSUME NEW h \in Reloaders, NEW k \in tasks, ReloadRead(h, k) PROVE RegistryInv'
  BY <1>3 DEF ReloadRead, RegistryInv, UniqueRegistry, TypeOK
<1>4. ASSUME NEW h \in Reloaders, ReloadImport(h) PROVE RegistryInv'
  <2> DEFINE k == reload[h]
  <2>1. /\ k # None
        /\ tasks' = {e \in tasks : e.pkg # k.pkg} \cup {k}
        /\ reload' = [reload EXCEPT ![h] = None]
        /\ generation' = WithGeneration(k.id)
    BY <1>4 DEF ReloadImport
  <2>2. k \in Task /\ k.id \in TaskIds /\ generation[k.id] # 0
    BY <2>1 DEF RegistryInv, TypeOK, Task
  <2>3. generation' = generation
    BY <2>1, <2>2 DEF WithGeneration, TypeOK
  <2>4. \A e \in tasks : e.id = k.id => e = k
    BY <2>1 DEF RegistryInv
  <2>5. UniqueRegistry'
    BY <2>1, <2>4 DEF RegistryInv, UniqueRegistry
  <2>6. \A e \in tasks' : generation'[e.id] # 0
    BY <2>1, <2>2, <2>3 DEF RegistryInv
  <2>7. \A i \in Reloaders : reload'[i] # None => reload'[i] = reload[i]
    BY <2>1 DEF TypeOK
  <2>8. \A i \in Reloaders : reload[i] # None /\ reload[i].id = k.id => k = reload[i]
    BY <2>1 DEF RegistryInv
  <2> HIDE DEF k
  <2>9. \A i \in Reloaders : reload'[i] # None =>
          /\ generation'[reload'[i].id] # 0
          /\ \A e \in tasks' : e.id = reload'[i].id => e = reload'[i]
          /\ \A j \in Reloaders :
               reload'[j] # None /\ reload'[j].id = reload'[i].id => reload'[j] = reload'[i]
    BY <2>1, <2>3, <2>7, <2>8 DEF RegistryInv
  <2> QED
    BY <2>5, <2>6, <2>9 DEF RegistryInv
<1>5. ASSUME NEW h \in Reloaders, ReloadFails(h) PROVE RegistryInv'
  BY <1>5 DEF ReloadFails, RegistryInv, UniqueRegistry, TypeOK
<1>6. ASSUME NEW k \in tasks, RemoveTask(k) PROVE RegistryInv'
  <2>1. /\ tasks' = tasks \ {k} /\ reload' = reload
        /\ generation' = [generation EXCEPT ![k.id] = @ + 1]
    BY <1>6 DEF RemoveTask
  <2>2. \A u \in TaskIds : generation[u] # 0 => generation'[u] # 0
    BY <2>1 DEF TypeOK
  <2>3. /\ \A e \in tasks : e.id \in TaskIds
        /\ \A h \in Reloaders : reload[h] # None => reload[h].id \in TaskIds
    BY DEF TypeOK, Task
  <2> QED
    BY <2>1, <2>2, <2>3 DEF RegistryInv, UniqueRegistry
<1>7. CASE BeginShutdown \/ UNCHANGED vars
  BY <1>1, <1>7 DEF BeginShutdown, vars, registryVars
<1> QED
  BY <1>1, <1>2, <1>3, <1>4, <1>5, <1>6, <1>7, RunsKeepRegistry DEF Next, RegistryNext

(* Steps of the registry that leave every run and its tracking alone: all   *)
(* but RemoveTask.  They disturb no generation that is already set.         *)
QuietStep ==
  /\ UNCHANGED <<trackingVars, history, runVars, toKill>>
  /\ terminating' \subseteq terminating \cup details
  /\ \A u \in TaskIds : generation[u] # 0 => generation'[u] = generation[u]

(* Every registry step but a removal, and the start of a shutdown, is quiet. *)
LEMMA QuietSteps ==
  ASSUME TypeOK, RegistryInv,
         RegistryNext \/ BeginShutdown \/ UNCHANGED vars
  PROVE  QuietStep \/ \E k \in tasks : RemoveTask(k)
<1> USE DEF QuietStep, shutdownVars
<1>1. ASSUME NEW t \in TaskIds, NEW p \in Packages, ImportTask(t, p) PROVE QuietStep
  BY <1>1, WithGenerationFacts DEF ImportTask, TypeOK
<1>2. ASSUME NEW h \in Reloaders, ReloadImport(h) PROVE QuietStep
  <2>1. reload[h] \in Task /\ reload[h].id \in TaskIds
    BY <1>2 DEF ReloadImport, TypeOK, Task
  <2> QED
    BY <1>2, <2>1, WithGenerationFacts DEF ReloadImport, TypeOK
<1>3. ASSUME NEW h \in Reloaders, ReloadFails(h) PROVE QuietStep
  BY <1>3 DEF ReloadFails
<1>4. ASSUME NEW h \in Reloaders, NEW k \in tasks, ReloadRead(h, k) PROVE QuietStep
  BY <1>4 DEF ReloadRead
<1>5. CASE BeginShutdown
  BY <1>5 DEF BeginShutdown, registryVars
<1>6. CASE UNCHANGED vars
  BY <1>6 DEF vars, trackingVars, runVars
<1> QED
  BY <1>1, <1>2, <1>3, <1>4, <1>5, <1>6 DEF RegistryNext

(* What RemoveTask does to generations.                                     *)
LEMMA RemoveFacts ==
  ASSUME TypeOK, NEW k \in tasks, RemoveTask(k)
  PROVE  /\ k.id \in TaskIds
         /\ generation'[k.id] = generation[k.id] + 1
         /\ \A u \in TaskIds : u # k.id => generation'[u] = generation[u]
         /\ \A u \in TaskIds : generation[u] <= generation'[u]
  BY DEF RemoveTask, TypeOK, Task

-------------------------------------------------------------------------------
(* Program counters                                                         *)

(* Every step keeps what a run's program counter says about the run.        *)
LEMMA RunInvStep == TypeOK /\ RegistryInv /\ RunInv /\ [Next]_vars => RunInv'
<1> SUFFICES ASSUME TypeOK, RegistryInv, RunInv, [Next]_vars PROVE RunInv'
  OBVIOUS
<1> USE DEF TypeOK, At, Killed, Executing, Phases, runVars, trackingVars, registryVars
<1>1. CASE QuietStep
  BY <1>1 DEF QuietStep, RunInv
<1>2. ASSUME NEW k \in tasks, RemoveTask(k) PROVE RunInv'
  <2>1. details \cup toKill \subseteq details' \cup toKill'
    BY <1>2 DEF RemoveTask
  <2>2. UNCHANGED runVars
    BY <1>2 DEF RemoveTask
  <2>3. \A u \in TaskIds : generation[u] <= generation'[u] /\ generation'[u] \in Nat
    BY <1>2, RemoveFacts, TypeStep
  <2> QED
    BY <2>1, <2>2, <2>3 DEF RunInv
<1>3. ASSUME NEW r \in RunIds, RunNext(r) PROVE RunInv'
  <2>0. generation' = generation
    BY <1>3, RunsKeepRegistry
  <2>1. ASSUME NEW t \in TaskIds, Reserve(t, r) \/ ReserveGated(t, r) PROVE RunInv'
    <3>1. generation[t] # 0 /\ runGen' = [runGen EXCEPT ![r] = generation[t]]
      BY <2>1, RegisteredGeneration DEF Reserve, ReserveGated, Reservable
    <3> QED
      BY <2>0, <2>1, <3>1 DEF Reserve, ReserveGated, RunInv
  <2>2. CASE StartProcess(r) \/ LaunchFails(r) \/ RegisterCancel(r) \/ RecordActiveRun(r)
    BY <2>0, <2>2 DEF StartProcess, LaunchFails, RegisterCancel, RecordActiveRun, RunInv
  <2>3. CASE RefuseStaleRun(r) \/ CleanUpStaleRun(r) \/ RecordOutput(r)
    BY <2>0, <2>3 DEF RefuseStaleRun, CleanUpStaleRun, RecordOutput, RunInv
  <2>4. CASE ProcessExits(r) \/ ProcessReaped(r) \/ RunTimesOut(r) \/ RunCanceled(r)
    BY <2>0, <2>4 DEF ProcessExits, ProcessReaped, RunTimesOut, RunCanceled, Interrupted, RunInv
  <2>5. CASE ClearActiveRun(r)
    BY <2>0, <2>5 DEF ClearActiveRun, ClearedRecord, RunInv
  <2>6. CASE Finish(r)
    BY <2>0, <2>6 DEF Finish, RunInv
  <2>7. CASE CleanUpRemoved(r)
    BY <2>0, <2>7 DEF CleanUpRemoved, RunInv
  <2>8. CASE CancelRun(r)
    BY <2>0, <2>8 DEF CancelRun, ClearedRecord, RunInv
  <2>9. CASE TerminateRun(r)
    BY <2>0, <2>9 DEF TerminateRun, ClearedRecord, RunInv
  <2> QED
    BY <1>3, <2>1, <2>2, <2>3, <2>4, <2>5, <2>6, <2>7, <2>8, <2>9 DEF RunNext, RunStep
<1> QED
  BY <1>1, <1>2, <1>3, QuietSteps DEF Next

-------------------------------------------------------------------------------
(* The maps of active runs                                                  *)

(* Every step keeps the order in which a run is given a cancel function, is *)
(* listed, and is taken off the list again.                                 *)
LEMMA TrackingStep ==
  TypeOK /\ RegistryInv /\ RunInv /\ TrackingInv /\ [Next]_vars => TrackingInv'
<1> SUFFICES ASSUME TypeOK, RegistryInv, RunInv, TrackingInv, [Next]_vars PROVE TrackingInv'
  OBVIOUS
<1> USE DEF TypeOK, At, Executing, Phases, runVars, trackingVars, registryVars, shutdownVars,
            TrackingInv, ListedRunsCancelable, ListedRunsCurrent, Superseded
<1>1. CASE QuietStep
  BY <1>1 DEF QuietStep, RunInv
<1>2. ASSUME NEW k \in tasks, RemoveTask(k) PROVE TrackingInv'
  <2>1. \A r \in details' : r \in details /\ runTask[r] # k.id
    BY <1>2 DEF RemoveTask
  <2>2. UNCHANGED <<controller, runVars, shutdownVars>>
    BY <1>2 DEF RemoveTask
  <2> QED
    BY <1>2, <2>1, <2>2, RemoveFacts DEF RunInv
<1>3. ASSUME NEW r \in RunIds, RunNext(r) PROVE TrackingInv'
  <2>0. generation' = generation
    BY <1>3, RunsKeepRegistry
  <2>1. ASSUME NEW t \in TaskIds, Reserve(t, r) \/ ReserveGated(t, r) PROVE TrackingInv'
    BY <2>0, <2>1, ZenonT(60) DEF Reserve, ReserveGated
  <2>2. CASE StartProcess(r) \/ LaunchFails(r) \/ RegisterCancel(r)
    <3>1. CASE StartProcess(r)
      BY <2>0, <3>1 DEF StartProcess
    <3>2. CASE LaunchFails(r)
      BY <2>0, <3>2 DEF LaunchFails
    <3>3. CASE RegisterCancel(r)
      <4>1. UNCHANGED <<details, terminating, runTask, runGen>>
        BY <3>3 DEF RegisterCancel
      <4>2. /\ phase[r] = "started" /\ phase' = [phase EXCEPT ![r] = "registered"]
            /\ controller' = [controller EXCEPT ![r] = "cancelable"]
        BY <3>3 DEF RegisterCancel
      <4> QED
        BY <2>0, <4>1, <4>2
    <3> QED
      BY <2>2, <3>1, <3>2, <3>3
  <2>3. CASE RecordActiveRun(r)
    BY <2>0, <2>3 DEF RecordActiveRun, GenerationMatches, WithController
  <2>4. CASE RefuseStaleRun(r) \/ CleanUpStaleRun(r) \/ RecordOutput(r)
    BY <2>0, <2>4, ZenonT(40) DEF RefuseStaleRun, CleanUpStaleRun, RecordOutput, WithController
  <2>5. CASE ProcessExits(r) \/ ProcessReaped(r) \/ RunTimesOut(r) \/ RunCanceled(r)
    BY <2>0, <2>5, ZenonT(40) DEF ProcessExits, ProcessReaped, RunTimesOut, RunCanceled, Interrupted
  <2>6. CASE ClearActiveRun(r)
    BY <2>0, <2>6 DEF ClearActiveRun, ClearedRecord
  <2>7. CASE CleanUpRemoved(r) \/ CancelRun(r)
    BY <2>0, <2>7 DEF CleanUpRemoved, CancelRun, ClearedRecord
  <2>8. CASE TerminateRun(r)
    BY <2>0, <2>8 DEF TerminateRun, ClearedRecord
  <2>9. CASE Finish(r)
    <3>1. UNCHANGED <<details, controller, terminating, runTask, runGen>>
      BY <2>9 DEF Finish
    <3>2. phase[r] = "outcome" /\ phase' = [phase EXCEPT ![r] = "done"]
      BY <2>9 DEF Finish
    <3> QED
      BY <2>0, <3>1, <3>2
  <2> QED
    BY <1>3, <2>1, <2>2, <2>3, <2>4, <2>5, <2>6, <2>7, <2>8, <2>9 DEF RunNext, RunStep
<1> QED
  BY <1>1, <1>2, <1>3, QuietSteps DEF Next

-------------------------------------------------------------------------------
(* Slots                                                                    *)

(* Steps that neither take nor give back a slot nor change what a run's     *)
(* slot depends on.                                                         *)
LEMMA SlotStutter ==
  ASSUME TypeOK, RunInv, SlotInv,
         UNCHANGED <<activeRuns, runTask, runGen, gated>>,
         \A r \in RunIds : HoldsSlot(r)' <=> HoldsSlot(r),
         \A u \in TaskIds : generation[u] # 0 => generation'[u] = generation[u]
  PROVE  SlotInv'
<1>1. \A r \in RunIds : HoldsSlot(r) =>
        runTask[r] \in TaskIds /\ generation'[runTask[r]] = generation[runTask[r]]
  BY DEF RunInv, HoldsSlot, Executing, TypeOK
<1>2. \A t \in activeRuns : t \in TaskIds /\ generation'[t] = generation[t]
  BY <1>1 DEF SlotInv, SlotOwned
<1>3. SlotOwned'
  BY <1>2 DEF SlotInv, SlotOwned
<1>4. \A r \in RunIds : HoldsSlot(r)' => (WasRemoved(runTask[r])' <=> WasRemoved(runTask[r]))
  BY <1>1 DEF WasRemoved
<1>5. SkipIfRunning'
  BY <1>4 DEF SlotInv, SkipIfRunning
<1>6. \A r \in RunIds : HoldsSlot(r)' /\ ~WasRemoved(runTask[r])' => runTask'[r] \in activeRuns'
  BY <1>4 DEF SlotInv
<1> QED
  BY <1>3, <1>5, <1>6 DEF SlotInv

(* Every step keeps the ownership of the run slots and their number.        *)
LEMMA SlotStep ==
  TypeOK /\ RegistryInv /\ RunInv /\ TrackingInv /\ SlotInv /\ [Next]_vars => SlotInv'
<1> SUFFICES ASSUME TypeOK, RegistryInv, RunInv, TrackingInv, SlotInv, [Next]_vars PROVE SlotInv'
  OBVIOUS
<1> USE DEF At, runVars, trackingVars, registryVars
<1>1. CASE QuietStep
  BY <1>1, SlotStutter DEF QuietStep, HoldsSlot
<1>2. ASSUME NEW k \in tasks, RemoveTask(k) PROVE SlotInv'
  <2>1. UNCHANGED runVars /\ activeRuns' = activeRuns \ {k.id}
    BY <1>2 DEF RemoveTask
  <2>2. k.id \in TaskIds /\ generation[k.id] # 0 /\ generation[k.id] \in Nat
    BY <1>2, RemoveFacts DEF RegistryInv, TypeOK
  <2>3. WasRemoved(k.id)'
    BY <1>2, <2>2, RemoveFacts DEF WasRemoved
  <2>4. \A u \in TaskIds : u # k.id => generation'[u] = generation[u]
    BY <1>2, RemoveFacts
  <2>5. \A r \in RunIds : HoldsSlot(r)' <=> HoldsSlot(r)
    BY <2>1 DEF HoldsSlot
  <2>6. SlotOwned'
    <3> SUFFICES ASSUME NEW t \in activeRuns'
                 PROVE  \E r \in RunIds :
                          HoldsSlot(r)' /\ runTask'[r] = t /\ runGen'[r] = generation'[t]
      BY DEF SlotOwned
    <3>1. t \in activeRuns /\ t # k.id /\ t \in TaskIds
      BY <2>1 DEF TypeOK
    <3>2. PICK r \in RunIds : HoldsSlot(r) /\ runTask[r] = t /\ runGen[r] = generation[t]
      BY <3>1 DEF SlotInv, SlotOwned
    <3> QED
      BY <2>1, <2>4, <2>5, <3>1, <3>2
  <2>7. \A r \in RunIds : HoldsSlot(r) => runTask[r] \in TaskIds
    BY DEF HoldsSlot, Executing, RunInv
  <2>8. \A r \in RunIds : HoldsSlot(r)' /\ ~WasRemoved(runTask[r])' =>
          HoldsSlot(r) /\ ~WasRemoved(runTask[r]) /\ runTask[r] # k.id
    BY <2>1, <2>3, <2>4, <2>5, <2>7 DEF WasRemoved
  <2>9. SkipIfRunning'
    BY <2>1, <2>8 DEF SlotInv, SkipIfRunning
  <2>10. \A r \in RunIds : HoldsSlot(r)' /\ ~WasRemoved(runTask[r])' => runTask'[r] \in activeRuns'
    BY <2>1, <2>8 DEF SlotInv
  <2>11. IsFiniteSet(activeRuns') /\ Cardinality(activeRuns') <= MaxConcurrentRuns
    <3>1. IsFiniteSet(activeRuns') /\ Cardinality(activeRuns') <= Cardinality(activeRuns)
      BY <2>1, FS_Subset, FS_CardinalityType DEF SlotInv
    <3> QED
      BY <3>1, FS_CardinalityType, ConstantsAssumption DEF SlotInv
  <2> QED
    BY <2>6, <2>9, <2>10, <2>11 DEF SlotInv
<1>3. ASSUME NEW r \in RunIds, RunNext(r) PROVE SlotInv'
  <2>0. generation' = generation
    BY <1>3, RunsKeepRegistry
  <2>1. ASSUME NEW t \in TaskIds, Reserve(t, r) PROVE SlotInv'
    <3>1. generation[t] # 0 /\ runGen' = [runGen EXCEPT ![r] = generation[t]]
      BY <2>1, RegisteredGeneration DEF Reserve, Reservable
    <3>2. /\ t \notin activeRuns /\ activeRuns' = activeRuns \cup {t}
          /\ phase[r] = "free" /\ phase' = [phase EXCEPT ![r] = "reserved"]
          /\ runTask' = [runTask EXCEPT ![r] = t]
          /\ gated' = gated
          /\ Cardinality(activeRuns) < MaxConcurrentRuns
      BY <2>1 DEF Reserve, Reservable
    <3>3. r \notin gated
      BY <3>2 DEF RunInv
    <3>4. \A s \in RunIds : s # r =>
            /\ HoldsSlot(s)' <=> HoldsSlot(s)
            /\ runTask'[s] = runTask[s] /\ runGen'[s] = runGen[s]
      BY <3>1, <3>2 DEF HoldsSlot, TypeOK
    <3>5. /\ HoldsSlot(r)' /\ ~HoldsSlot(r)
          /\ runTask'[r] = t /\ runGen'[r] = generation'[t]
      BY <2>0, <3>1, <3>2, <3>3 DEF HoldsSlot, TypeOK, Executing
    <3>6. \A u : WasRemoved(u)' <=> WasRemoved(u)
      BY <2>0 DEF WasRemoved
    <3>7. SlotOwned'
      BY <2>0, <3>2, <3>4, <3>5 DEF SlotInv, SlotOwned
    <3>8. \A s \in RunIds : HoldsSlot(s) /\ ~WasRemoved(runTask[s]) => runTask[s] # t
      BY <3>2 DEF SlotInv
    <3>9. SkipIfRunning'
      BY <3>4, <3>5, <3>6, <3>8 DEF SlotInv, SkipIfRunning
    <3>10. \A s \in RunIds : HoldsSlot(s)' /\ ~WasRemoved(runTask[s])' => runTask'[s] \in activeRuns'
      BY <3>2, <3>4, <3>5, <3>6 DEF SlotInv
    <3>11. /\ IsFiniteSet(activeRuns')
           /\ Cardinality(activeRuns') = Cardinality(activeRuns) + 1
      BY <3>2, FS_AddElement DEF SlotInv
    <3>12. Cardinality(activeRuns') <= MaxConcurrentRuns
      BY <3>2, <3>11, FS_CardinalityType, ConstantsAssumption DEF SlotInv
    <3> QED
      BY <3>7, <3>9, <3>10, <3>11, <3>12 DEF SlotInv
  <2>2. ASSUME NEW t \in TaskIds, ReserveGated(t, r) PROVE SlotInv'
    <3>1. /\ phase[r] = "free" /\ phase' = [phase EXCEPT ![r] = "outcome"]
          /\ gated' = gated \cup {r} /\ activeRuns' = activeRuns
          /\ runTask' = [runTask EXCEPT ![r] = t]
          /\ runGen' = [runGen EXCEPT ![r] = WithGeneration(t)[t]]
      BY <2>2 DEF ReserveGated
    <3>2. ~HoldsSlot(r) /\ ~HoldsSlot(r)'
      BY <3>1 DEF HoldsSlot, Executing
    <3>3. \A s \in RunIds : s # r =>
            /\ HoldsSlot(s)' <=> HoldsSlot(s)
            /\ runTask'[s] = runTask[s] /\ runGen'[s] = runGen[s]
      BY <3>1 DEF HoldsSlot, TypeOK
    <3>4. \A u : WasRemoved(u)' <=> WasRemoved(u)
      BY <2>0 DEF WasRemoved
    <3>5. SlotOwned'
      BY <2>0, <3>1, <3>2, <3>3 DEF SlotInv, SlotOwned
    <3>6. SkipIfRunning'
      BY <3>2, <3>3, <3>4 DEF SlotInv, SkipIfRunning
    <3>7. \A s \in RunIds : HoldsSlot(s)' /\ ~WasRemoved(runTask[s])' => runTask'[s] \in activeRuns'
      BY <3>1, <3>2, <3>3, <3>4 DEF SlotInv
    <3> QED
      BY <3>1, <3>5, <3>6, <3>7 DEF SlotInv
  <2>3. CASE StartProcess(r) \/ LaunchFails(r) \/ RegisterCancel(r) \/ RecordActiveRun(r)
             \/ RefuseStaleRun(r) \/ CleanUpStaleRun(r) \/ ProcessReaped(r)
             \/ RunTimesOut(r) \/ RunCanceled(r) \/ ClearActiveRun(r)
    <3>1. /\ UNCHANGED <<activeRuns, runTask, runGen, gated>>
          /\ phase[r] \in Executing
          /\ \E to \in Executing \cup {"outcome"} : phase' = [phase EXCEPT ![r] = to]
      BY <2>3 DEF StartProcess, LaunchFails, RegisterCancel, RecordActiveRun, RefuseStaleRun,
           CleanUpStaleRun, ProcessReaped, RunTimesOut, RunCanceled, Interrupted,
           ClearActiveRun, ClearedRecord, Executing
    <3>2. \A s \in RunIds : HoldsSlot(s)' <=> HoldsSlot(s)
      BY <3>1 DEF HoldsSlot, TypeOK
    <3> QED
      BY <2>0, <3>1, <3>2, SlotStutter
  <2>4. CASE RecordOutput(r) \/ ProcessExits(r) \/ CleanUpRemoved(r) \/ TerminateRun(r)
    <3>1. UNCHANGED <<activeRuns, runTask, runGen, gated, phase>>
      BY <2>4 DEF RecordOutput, ProcessExits, CleanUpRemoved, TerminateRun
    <3>2. \A s \in RunIds : HoldsSlot(s)' <=> HoldsSlot(s)
      BY <3>1 DEF HoldsSlot
    <3> QED
      BY <2>0, <3>1, <3>2, SlotStutter
  <2>5. CASE CancelRun(r)
    <3>1. UNCHANGED <<activeRuns, runTask, runGen, gated, phase>>
      BY <2>5 DEF CancelRun, TrackingInv, ListedRunsCancelable
    <3>2. \A s \in RunIds : HoldsSlot(s)' <=> HoldsSlot(s)
      BY <3>1 DEF HoldsSlot
    <3> QED
      BY <2>0, <3>1, <3>2, SlotStutter
  <2>6. CASE Finish(r)
    <3>1. /\ UNCHANGED <<runTask, runGen, gated>>
          /\ phase[r] = "outcome" /\ phase' = [phase EXCEPT ![r] = "done"]
          /\ activeRuns' = IF r \in gated THEN activeRuns ELSE activeRuns \ {runTask[r]}
      BY <2>6 DEF Finish
    <3>2. ~HoldsSlot(r)' /\ (HoldsSlot(r) <=> r \notin gated)
      BY <3>1 DEF HoldsSlot, TypeOK, Executing
    <3>3. \A s \in RunIds : s # r => (HoldsSlot(s)' <=> HoldsSlot(s))
      BY <3>1 DEF HoldsSlot, TypeOK
    <3>4. \A u : WasRemoved(u)' <=> WasRemoved(u)
      BY <2>0 DEF WasRemoved
    <3>5. SlotOwned'
      BY <2>0, <3>1, <3>2, <3>3 DEF SlotInv, SlotOwned
    <3>6. SkipIfRunning'
      BY <3>1, <3>2, <3>3, <3>4 DEF SlotInv, SkipIfRunning
    <3>7. \A s \in RunIds : HoldsSlot(s)' /\ ~WasRemoved(runTask[s])' => runTask'[s] \in activeRuns'
      BY <3>1, <3>2, <3>3, <3>4 DEF SlotInv, SkipIfRunning
    <3>8. IsFiniteSet(activeRuns') /\ Cardinality(activeRuns') <= Cardinality(activeRuns)
      BY <3>1, FS_Subset, FS_CardinalityType DEF SlotInv
    <3>9. Cardinality(activeRuns') <= MaxConcurrentRuns
      BY <3>8, FS_CardinalityType, ConstantsAssumption DEF SlotInv
    <3> QED
      BY <3>5, <3>6, <3>7, <3>8, <3>9 DEF SlotInv
  <2> QED
    BY <1>3, <2>1, <2>2, <2>3, <2>4, <2>5, <2>6 DEF RunNext, RunStep
<1> QED
  BY <1>1, <1>2, <1>3, QuietSteps DEF Next

-------------------------------------------------------------------------------
(* Histories                                                                *)

(* Every step keeps the histories free of runs of removed tasks.            *)
LEMMA HistoryStep ==
  TypeOK /\ RegistryInv /\ RunInv /\ HistoryCurrent /\ [Next]_vars => HistoryCurrent'
<1> SUFFICES ASSUME TypeOK, RegistryInv, RunInv, HistoryCurrent, [Next]_vars
             PROVE  HistoryCurrent'
  OBVIOUS
<1> USE DEF At, runVars, trackingVars, registryVars
<1>1. \A t \in TaskIds : \A i \in 1..Len(history[t]) :
        /\ history[t][i] \in RunIds /\ phase[history[t][i]] = "done"
        /\ runTask[history[t][i]] = t /\ runGen[history[t][i]] = generation[t]
        /\ \A j \in 1..Len(history[t]) : history[t][j] = history[t][i] => j = i
  BY DEF HistoryCurrent, TypeOK
<1>2. \A t \in TaskIds : \A i \in 1..Len(history[t]) : generation[t] # 0
  BY <1>1 DEF RunInv
(* Nothing is added to a history, and the runs it holds stay as they are.   *)
<1>3. ASSUME UNCHANGED history,
             \A s \in RunIds : phase[s] = "done" => /\ phase'[s] = "done"
                                                   /\ runTask'[s] = runTask[s]
                                                   /\ runGen'[s] = runGen[s],
             \A u \in TaskIds : generation[u] # 0 => generation'[u] = generation[u]
      PROVE  HistoryCurrent'
  BY <1>1, <1>2, <1>3 DEF HistoryCurrent
<1>4. CASE QuietStep
  BY <1>3, <1>4 DEF QuietStep
<1>5. ASSUME NEW k \in tasks, RemoveTask(k) PROVE HistoryCurrent'
  <2>1. /\ history' = [history EXCEPT ![k.id] = <<>>]
        /\ UNCHANGED <<phase, runTask, runGen>>
    BY <1>5 DEF RemoveTask
  <2>2. \A u \in TaskIds : u # k.id => generation'[u] = generation[u] /\ history'[u] = history[u]
    BY <1>5, <2>1, RemoveFacts DEF TypeOK
  <2>3. Len(history'[k.id]) = 0
    BY <1>5, <2>1, RemoveFacts DEF TypeOK
  <2>4. \A i \in 1..Len(history'[k.id]) : FALSE
    BY <2>3
  <2> QED
    BY <1>1, <2>1, <2>2, <2>4 DEF HistoryCurrent
<1>6. ASSUME NEW r \in RunIds, RunNext(r) PROVE HistoryCurrent'
  <2>0. generation' = generation
    BY <1>6, RunsKeepRegistry
  <2>1. CASE \E t \in TaskIds : Reserve(t, r) \/ ReserveGated(t, r)
    BY <1>3, <2>0, <2>1 DEF Reserve, ReserveGated, TypeOK
  <2>2. CASE StartProcess(r) \/ LaunchFails(r) \/ RegisterCancel(r) \/ RecordActiveRun(r)
             \/ RefuseStaleRun(r) \/ CleanUpStaleRun(r) \/ ProcessReaped(r)
             \/ RunTimesOut(r) \/ RunCanceled(r) \/ ClearActiveRun(r)
    <3>1. /\ UNCHANGED <<history, runTask, runGen>>
          /\ phase[r] # "done" /\ \E to \in Phases : phase' = [phase EXCEPT ![r] = to]
      BY <2>2 DEF StartProcess, LaunchFails, RegisterCancel, RecordActiveRun, RefuseStaleRun,
           CleanUpStaleRun, ProcessReaped, RunTimesOut, RunCanceled, Interrupted,
           ClearActiveRun, Phases, Executing
    <3> QED
      BY <1>3, <2>0, <3>1 DEF TypeOK
  <2>3. CASE RecordOutput(r) \/ ProcessExits(r) \/ CleanUpRemoved(r) \/ TerminateRun(r)
             \/ CancelRun(r)
    <3>1. UNCHANGED <<history, phase, runTask, runGen>>
      BY <2>3 DEF RecordOutput, ProcessExits, CleanUpRemoved, TerminateRun, CancelRun
    <3> QED
      BY <1>3, <2>0, <3>1
  <2>4. CASE Finish(r)
    <3> DEFINE t == runTask[r]
    <3>1. /\ UNCHANGED <<runTask, runGen>>
          /\ phase[r] = "outcome" /\ phase' = [phase EXCEPT ![r] = "done"]
      BY <2>4 DEF Finish
    <3>2. CASE ~GenerationMatches(r)
      BY <1>3, <2>0, <2>4, <3>1, <3>2 DEF Finish, TypeOK
    <3>3. CASE GenerationMatches(r)
      <4> DEFINE old == history[t]
                 new == Retained(<<r>> \o old)
      <4>1. t \in TaskIds /\ runGen[r] = generation[t]
        BY <3>1, <3>3 DEF GenerationMatches, RunInv
      <4>2. old \in Seq(RunIds) /\ Len(old) \in Nat
        BY <4>1 DEF TypeOK
      <4>3. history' = [history EXCEPT ![t] = new]
        BY <2>4, <3>3 DEF Finish
      <4>4. /\ history'[t] = new
            /\ \A u \in TaskIds : u # t => history'[u] = history[u]
        BY <4>1, <4>3 DEF TypeOK
      <4>5. \A s \in RunIds : phase[s] = "done" \/ s = r <=> phase'[s] = "done"
        BY <3>1 DEF TypeOK
      <4>6. /\ new \in Seq(RunIds) /\ Len(new) \in Nat /\ Len(new) <= Len(old) + 1
            /\ \A i \in 1..Len(new) : new[i] = IF i = 1 THEN r ELSE old[i - 1]
        BY <4>2, RetainedFacts
      <4>7. \A i \in 1..Len(old) :
              /\ old[i] \in RunIds /\ old[i] # r /\ phase[old[i]] = "done"
              /\ runTask[old[i]] = t /\ runGen[old[i]] = generation[t]
              /\ \A j \in 1..Len(old) : old[j] = old[i] => j = i
        BY <1>1, <3>1, <4>1
      <4> HIDE DEF t, old, new
      <4>8. \A i \in 1..Len(new) : i = 1 \/ i - 1 \in 1..Len(old)
        BY <4>2, <4>6
      <4>9. \A i \in 1..Len(new) :
              /\ new[i] \in RunIds /\ phase'[new[i]] = "done"
              /\ runTask[new[i]] = t /\ runGen[new[i]] = generation[t]
        BY <4>1, <4>5, <4>6, <4>7, <4>8 DEF t
      <4>10. \A i, j \in 1..Len(new) : new[i] = new[j] => i = j
        <5> SUFFICES ASSUME NEW i \in 1..Len(new), NEW j \in 1..Len(new), new[i] = new[j]
                     PROVE  i = j
          OBVIOUS
        <5>1. CASE i = 1 \/ j = 1
          BY <4>6, <4>7, <4>8, <5>1
        <5>2. CASE i # 1 /\ j # 1
          <6>1. i - 1 \in 1..Len(old) /\ j - 1 \in 1..Len(old) /\ old[i - 1] = old[j - 1]
            BY <4>6, <4>8, <5>2
          <6>2. i - 1 = j - 1
            BY <4>7, <6>1
          <6> QED
            BY <4>6, <6>2
        <5> QED
          BY <5>1, <5>2
      <4>11. \A i \in 1..Len(history'[t]) :
               LET s == history'[t][i] IN
               /\ phase'[s] = "done" /\ runTask'[s] = t /\ runGen'[s] = generation'[t]
               /\ \A j \in 1..Len(history'[t]) : history'[t][j] = s => j = i
        BY <2>0, <3>1, <4>4, <4>9, <4>10
      <4>12. \A u \in TaskIds : u # t =>
               \A i \in 1..Len(history'[u]) :
                 LET s == history'[u][i] IN
                 /\ phase'[s] = "done" /\ runTask'[s] = u /\ runGen'[s] = generation'[u]
                 /\ \A j \in 1..Len(history'[u]) : history'[u][j] = s => j = i
        BY <1>1, <2>0, <3>1, <4>4, <4>5
      <4> QED
        BY <4>11, <4>12 DEF HistoryCurrent
    <3> QED
      BY <3>2, <3>3
  <2> QED
    BY <1>6, <2>1, <2>2, <2>3, <2>4 DEF RunNext, RunStep
<1> QED
  BY <1>4, <1>5, <1>6, QuietSteps DEF Next

-------------------------------------------------------------------------------
(* The inductive invariant                                                  *)

(* The engine starts with nothing registered and nothing running.           *)
LEMMA InitIInv == Init => IInv
<1> SUFFICES ASSUME Init PROVE IInv
  OBVIOUS
<1> USE DEF Init
<1>1. TypeOK
  <2>1. history \in [TaskIds -> Seq(RunIds)]
    OBVIOUS
  <2>2. \A t \in TaskIds : Len(history[t]) <= MaxRunsPerTask
    <3>1. \A t \in TaskIds : Len(history[t]) = 0
      OBVIOUS
    <3> QED
      BY <3>1, ConstantsAssumption
  <2>3. phase \in [RunIds -> Phases]
    BY DEF Phases
  <2>4. reload \in [Reloaders -> Task \cup {None}]
    OBVIOUS
  <2>5. runTask \in [RunIds -> TaskIds \cup {None}] /\ runGen \in [RunIds -> Nat]
    OBVIOUS
  <2> QED
    BY <2>1, <2>2, <2>3, <2>4, <2>5 DEF TypeOK
<1>2. RegistryInv
  BY DEF RegistryInv, UniqueRegistry
<1>3. RunInv
  BY DEF RunInv
<1>4. TrackingInv
  BY DEF TrackingInv, ListedRunsCancelable, ListedRunsCurrent
<1>5. SlotInv
  <2>1. \A r \in RunIds : ~HoldsSlot(r)
    BY DEF HoldsSlot, Executing
  <2>2. IsFiniteSet(activeRuns) /\ Cardinality(activeRuns) <= MaxConcurrentRuns
    BY FS_EmptySet, ConstantsAssumption
  <2> QED
    BY <2>1, <2>2 DEF SlotInv, SlotOwned, SkipIfRunning
<1>6. HistoryCurrent
  <2>1. \A t \in TaskIds : \A i \in 1..Len(history[t]) : FALSE
    OBVIOUS
  <2> QED
    BY <2>1 DEF HistoryCurrent
<1> QED
  BY <1>1, <1>2, <1>3, <1>4, <1>5, <1>6 DEF IInv

(* The inductive invariant holds in every reachable state: the five parts   *)
(* are preserved by every step of the engine, given the others.             *)
THEOREM Invariance == Spec => []IInv
<1>1. IInv /\ [Next]_vars => IInv'
  BY TypeStep, RegistryStep, RunInvStep, TrackingStep, SlotStep, HistoryStep DEF IInv
<1> QED
  BY <1>1, InitIInv, PTL DEF Spec

(* Every variable keeps its type, and every history its retention limit.    *)
THEOREM TypeCorrect == Spec => []TypeOK
<1>1. IInv => TypeOK
  BY DEF IInv
<1> QED
  BY <1>1, Invariance, PTL

(* Imports, reloads and removals never leave two tasks with one ID or one   *)
(* package (importTask, ReloadTask, RemoveTask).                            *)
THEOREM RegistryIsUnique == Spec => []UniqueRegistry
<1>1. IInv => UniqueRegistry
  BY DEF IInv, RegistryInv
<1> QED
  BY <1>1, Invariance, PTL

(* No slot of Engine.activeRuns outlives the run that took it.              *)
THEOREM SlotsAreOwned == Spec => []SlotOwned
<1>1. IInv => SlotOwned
  BY DEF IInv, SlotInv
<1> QED
  BY <1>1, Invariance, PTL

(* Skip-if-running holds for every ID that was never removed.               *)
THEOREM RunsAreSkipped == Spec => []SkipIfRunning
<1>1. IInv => SkipIfRunning
  BY DEF IInv, SlotInv
<1> QED
  BY <1>1, Invariance, PTL

(* Whoever finds a run in the active-run list can cancel it.                *)
THEOREM ListedRunsAreCancelable == Spec => []ListedRunsCancelable
<1>1. IInv => ListedRunsCancelable
  BY DEF IInv, TrackingInv
<1> QED
  BY <1>1, Invariance, PTL

(* The active-run list shows no run of a removed task.                      *)
THEOREM ListedRunsAreCurrent == Spec => []ListedRunsCurrent
<1>1. IInv => ListedRunsCurrent
  BY DEF IInv, TrackingInv
<1> QED
  BY <1>1, Invariance, PTL

(* Every running script is listed under its task's present registration, or *)
(* somebody is bound to kill it, or its goroutine has just started it.      *)
THEOREM ScriptsAreReachableTheorem == Spec => []ScriptsAreReachable
<1>1. IInv => ScriptsAreReachable
  BY DEF IInv, TypeOK, RunInv, TrackingInv, ListedRunsCurrent, ScriptsAreReachable
<1> QED
  BY <1>1, Invariance, PTL

(* Somebody is bound to kill the script of a removed task.                  *)
THEOREM RemovedRunsAreDoomed == Spec => []RemovedRunsDoomed
<1>1. ScriptsAreReachable => RemovedRunsDoomed
  BY DEF ScriptsAreReachable, RemovedRunsDoomed
<1> QED
  BY <1>1, ScriptsAreReachableTheorem, PTL

(* A run of a removed task leaves no record in any history.                 *)
THEOREM HistoriesAreCurrent == Spec => []HistoryCurrent
<1>1. IInv => HistoryCurrent
  BY DEF IInv
<1> QED
  BY <1>1, Invariance, PTL

(* The cap bounds the scripts really running: each of them holds a slot of  *)
(* its own, so the map from scripts to slots is an injection.               *)
THEOREM LoadIsCapped == Spec => []LoadCapped
<1>1. IInv => LoadCapped
  <2> SUFFICES ASSUME IInv PROVE LoadCapped
    OBVIOUS
  <2> DEFINE scripts == {r \in RunIds : proc[r] = "alive" /\ ~WasRemoved(runTask[r])}
             slotOf == [r \in scripts |-> runTask[r]]
  <2>1. \A r \in scripts : HoldsSlot(r)
    BY DEF IInv, RunInv, HoldsSlot, Executing
  <2>2. \A r \in scripts : runTask[r] \in activeRuns
    BY <2>1 DEF IInv, SlotInv
  <2>3. \A r, s \in scripts : runTask[r] = runTask[s] => r = s
    BY <2>1 DEF IInv, SlotInv, SkipIfRunning
  <2>4. slotOf \in Injection(scripts, activeRuns)
    <3>1. slotOf \in [scripts -> activeRuns]
      BY <2>2
    <3>2. \A r, s \in scripts : slotOf[r] = slotOf[s] => r = s
      BY <2>3
    <3> HIDE DEF scripts, slotOf
    <3> QED
      BY <3>1, <3>2, Fun_IsInj
  <2>5. IsFiniteSet(activeRuns) /\ Cardinality(activeRuns) <= MaxConcurrentRuns
    BY DEF IInv, SlotInv
  <2> HIDE DEF scripts, slotOf
  <2>6. IsFiniteSet(scripts) /\ Cardinality(scripts) <= Cardinality(activeRuns)
    BY <2>4, <2>5, FS_Injection
  <2>7. Cardinality(scripts) <= MaxConcurrentRuns
    BY <2>5, <2>6, FS_CardinalityType, ConstantsAssumption
  <2> QED
    BY <2>7 DEF LoadCapped, scripts
<1> QED
  BY <1>1, Invariance, PTL
(* No overlap and no excess of scripts of tasks that were never removed.    *)
THEOREM SlotsBoundScriptsTheorem == Spec => []SlotsBoundScripts
<1>1. SkipIfRunning /\ LoadCapped => SlotsBoundScripts
  BY DEF SlotsBoundScripts
<1> QED
  BY <1>1, RunsAreSkipped, LoadIsCapped, PTL

(* Whatever the active-run list shows can be cancelled and is current.      *)
THEOREM ListingIsSoundTheorem == Spec => []ListingIsSound
<1>1. ListedRunsCancelable /\ ListedRunsCurrent => ListingIsSound
  BY DEF ListingIsSound
<1> QED
  BY <1>1, ListedRunsAreCancelable, ListedRunsAreCurrent, PTL

-------------------------------------------------------------------------------
(* The refinement                                                           *)

(* What the mapping shows of a run, now and after a step.                   *)
LEMMA MappingFacts ==
  /\ SlotHolders \in [TaskIds -> SUBSET RunIds]
  /\ SlotHolders' \in [TaskIds -> SUBSET RunIds]
  /\ \A t \in TaskIds, r \in RunIds :
       /\ r \in SlotHolders[t] <=> Promised(r) /\ runTask[r] = t
       /\ r \in SlotHolders'[t] <=> Promised(r)' /\ runTask'[r] = t
BY DEF SlotHolders

(* A task whose slot is taken has one holder, and is counted by the engine; *)
(* a script that runs belongs to a holder.                                  *)
LEMMA HolderFacts ==
  ASSUME IInv
  PROVE  /\ \A r \in RunIds : HoldsSlot(r) => runTask[r] \in TaskIds
         /\ \A r \in RunIds : Promised(r) => SlotHolders[runTask[r]] = {r}
         /\ Slots!Taken \subseteq activeRuns
         /\ \A r \in RunningScripts : r \in RunIds /\ Promised(r)
<1>1. \A r \in RunIds : HoldsSlot(r) => runTask[r] \in TaskIds
  BY DEF IInv, RunInv, HoldsSlot, Executing
<1>2. ASSUME NEW r \in RunIds, Promised(r) PROVE SlotHolders[runTask[r]] = {r}
  <2>1. runTask[r] \in TaskIds /\ HoldsSlot(r) /\ ~WasRemoved(runTask[r])
    BY <1>1, <1>2 DEF Promised
  <2>2. ASSUME NEW s \in RunIds, s \in SlotHolders[runTask[r]] PROVE s = r
    <3>1. HoldsSlot(s) /\ runTask[s] = runTask[r]
      BY <2>1, <2>2, MappingFacts DEF Promised
    <3> QED
      BY <2>1, <3>1 DEF IInv, SlotInv, SkipIfRunning
  <2>3. r \in SlotHolders[runTask[r]] /\ SlotHolders[runTask[r]] \subseteq RunIds
    BY <1>2, <2>1, MappingFacts
  <2> QED
    BY <2>2, <2>3
<1>3. ASSUME NEW t \in Slots!Taken PROVE t \in activeRuns
  <2>1. t \in TaskIds /\ SlotHolders[t] # {}
    BY <1>3 DEF Slots!Taken
  <2>2. PICK r \in RunIds : r \in SlotHolders[t]
    BY <2>1, MappingFacts
  <2>3. Promised(r) /\ runTask[r] = t
    BY <2>1, <2>2, MappingFacts
  <2> QED
    BY <2>3 DEF Promised, IInv, SlotInv
<1>4. \A r \in RunningScripts : r \in RunIds /\ Promised(r)
  BY DEF RunningScripts, Promised, HoldsSlot, IInv, RunInv, Executing
<1> QED
  BY <1>1, <1>2, <1>3, <1>4

(* A run that is not reserved, or gated and not finished, is in no history  *)
(* and holds no slot.                                                       *)
LEMMA UnknownRun ==
  ASSUME IInv, NEW r \in RunIds, ~HoldsSlot(r), phase[r] # "done"
  PROVE  Slots!Unknown(r)
<1>1. ASSUME NEW t \in TaskIds PROVE r \notin SlotHolders[t]
  BY MappingFacts DEF Promised
<1>2. ASSUME NEW t \in TaskIds, NEW i \in 1..Len(PromisedHistory[t])
      PROVE  PromisedHistory[t][i] # r
  <2>1. CASE WasRemoved(t)
    <3>1. PromisedHistory[t] = <<>>
      BY <2>1 DEF PromisedHistory
    <3>2. i \in 1..0
      BY <3>1
    <3> QED
      BY <3>2
  <2>2. CASE ~WasRemoved(t)
    <3>1. PromisedHistory[t] = history[t]
      BY <2>2 DEF PromisedHistory
    <3> QED
      BY <3>1 DEF IInv, HistoryCurrent
  <2> QED
    BY <2>1, <2>2
<1> QED
  BY <1>1, <1>2 DEF Slots!Unknown

(* The removals of the IDs are the same after the step: so is all that the  *)
(* mapping shows, but for what the runs do.                                 *)
SameRemovals == \A t \in TaskIds : WasRemoved(t)' <=> WasRemoved(t)

LEMMA SameRetired == SameRemovals => UNCHANGED Retired
BY DEF SameRemovals, Retired

LEMMA SameHistory == SameRemovals /\ UNCHANGED history => UNCHANGED PromisedHistory
BY DEF SameRemovals, PromisedHistory

LEMMA SameHolders ==
  ASSUME IInv, SameRemovals,
         \A r \in RunIds : HoldsSlot(r)' <=> HoldsSlot(r),
         \A r \in RunIds : HoldsSlot(r) => runTask'[r] = runTask[r]
  PROVE  UNCHANGED SlotHolders /\ \A r \in RunIds : Promised(r)' <=> Promised(r)
<1>1. \A r \in RunIds : Promised(r)' <=> Promised(r)
  BY HolderFacts DEF Promised, SameRemovals
<1>2. \A t \in TaskIds, r \in RunIds :
        Promised(r)' /\ runTask'[r] = t <=> Promised(r) /\ runTask[r] = t
  BY <1>1 DEF Promised
<1> QED
  BY <1>1, <1>2 DEF SlotHolders

(* A script that ends, or is killed, is seen to exit.                       *)
LEMMA ScriptExits ==
  ASSUME IInv, SameRemovals, NEW r \in RunIds,
         UNCHANGED <<tasks, history, runTask>>,
         \A s \in RunIds : HoldsSlot(s)' <=> HoldsSlot(s),
         \/ proc' = proc
         \/ proc' = [proc EXCEPT ![r] = "dead"]
  PROVE  [Slots!Next]_(Slots!vars)
<1>1. UNCHANGED <<tasks, Retired, SlotHolders, PromisedHistory>>
  BY SameRetired, SameHistory, SameHolders
<1>2. \A s \in RunIds : proc[s] = "alive" => runTask[s] \in TaskIds
  BY DEF IInv, RunInv
<1>3. proc \in [RunIds -> {"none", "alive", "dead"}]
  BY DEF IInv, TypeOK
<1>4. CASE UNCHANGED RunningScripts
  BY <1>1, <1>4 DEF Slots!vars
<1>5. CASE RunningScripts' # RunningScripts
  <2>1. r \in RunningScripts /\ RunningScripts' = RunningScripts \ {r}
    BY <1>2, <1>3, <1>5 DEF RunningScripts, SameRemovals
  <2>2. Slots!Exit(r)
    BY <1>1, <2>1 DEF Slots!Exit
  <2> QED
    BY <2>2 DEF Slots!Next
<1> QED
  BY <1>4, <1>5

(* Imports, reloads and removals: an entry is put in, or taken out.         *)
LEMMA RegistryKeepsSlots ==
  ASSUME IInv, RegistryNext
  PROVE  [Slots!Next]_(Slots!vars)
<1> USE DEF registryVars, trackingVars, runVars, shutdownVars
<1>1. ASSUME SameRemovals, UNCHANGED <<history, runVars>>
      PROVE  UNCHANGED <<Retired, SlotHolders, RunningScripts, PromisedHistory>>
  <2>1. \A r \in RunIds : HoldsSlot(r)' <=> HoldsSlot(r)
    BY <1>1 DEF HoldsSlot
  <2>2. \A r \in RunIds : proc[r] = "alive" => runTask[r] \in TaskIds
    BY DEF IInv, RunInv
  <2>3. UNCHANGED RunningScripts
    BY <1>1, <2>2 DEF RunningScripts, SameRemovals
  <2>4. UNCHANGED runTask
    BY <1>1
  <2> QED
    BY <1>1, <2>1, <2>3, <2>4, SameRetired, SameHistory, SameHolders
<1>2. ASSUME NEW t \in TaskIds, NEW p \in Packages, ImportTask(t, p) PROVE Slots!Enter(t, p)
  <2>1. /\ tasks' = tasks \cup {[id |-> t, pkg |-> p]}
        /\ \A k \in tasks : k.pkg # p
        /\ generation[t] = 0 /\ generation' = WithGeneration(t)
        /\ UNCHANGED <<history, runVars>>
    BY <1>2 DEF ImportTask, Fresh
  <2>2. ~Slots!Entered(t)
    BY <2>1 DEF Slots!Entered, IInv, RegistryInv
  <2>3. SameRemovals
    BY <2>1 DEF SameRemovals, WasRemoved, WithGeneration, IInv, TypeOK
  <2>4. {k \in tasks : k.pkg # p} = tasks
    BY <2>1
  <2> QED
    BY <1>1, <2>1, <2>2, <2>3, <2>4 DEF Slots!Enter
<1>3. ASSUME NEW h \in Reloaders, ReloadImport(h) PROVE [Slots!Next]_(Slots!vars)
  <2> DEFINE k == reload[h]
  <2>1. /\ k # None
        /\ tasks' = {e \in tasks : e.pkg # k.pkg} \cup {k}
        /\ generation' = WithGeneration(k.id)
        /\ UNCHANGED <<history, runVars>>
    BY <1>3 DEF ReloadImport
  <2>2. k \in Task /\ k.id \in TaskIds /\ k.pkg \in Packages /\ generation[k.id] # 0
    BY <2>1 DEF IInv, RegistryInv, TypeOK, Task
  <2>3. generation' = generation
    BY <2>1, <2>2 DEF WithGeneration, IInv, TypeOK
  <2>4. SameRemovals
    BY <2>3 DEF SameRemovals, WasRemoved
  <2>5. CASE k \in tasks
    <3>1. {e \in tasks : e.pkg # k.pkg} \cup {k} = tasks
      BY <2>5 DEF IInv, RegistryInv, UniqueRegistry
    <3> QED
      BY <1>1, <2>1, <2>4, <3>1 DEF Slots!vars
  <2>6. CASE k \notin tasks
    <3>1. ~Slots!Entered(k.id)
      BY <2>1, <2>6 DEF Slots!Entered, IInv, RegistryInv
    <3>2. k = [id |-> k.id, pkg |-> k.pkg]
      BY <2>2 DEF Task
    <3>3. Slots!Enter(k.id, k.pkg)
      BY <1>1, <2>1, <2>4, <3>1, <3>2 DEF Slots!Enter
    <3> QED
      BY <2>2, <3>3 DEF Slots!Next
  <2> QED
    BY <2>5, <2>6
<1>4. ASSUME NEW h \in Reloaders, (\E k \in tasks : ReloadRead(h, k)) \/ ReloadFails(h)
      PROVE  UNCHANGED Slots!vars
  <2>1. UNCHANGED <<tasks, generation, history, runVars>>
    BY <1>4 DEF ReloadRead, ReloadFails
  <2>2. SameRemovals
    BY <2>1 DEF SameRemovals, WasRemoved
  <2> QED
    BY <1>1, <2>1, <2>2 DEF Slots!vars
<1>5. ASSUME NEW k \in tasks, RemoveTask(k) PROVE Slots!Remove(k)
  <2> DEFINE t == k.id
  <2>1. /\ tasks' = tasks \ {k}
        /\ history' = [history EXCEPT ![t] = <<>>]
        /\ UNCHANGED runVars
    BY <1>5 DEF RemoveTask
  <2>2. /\ t \in TaskIds /\ generation[t] # 0 /\ generation[t] \in Nat
        /\ generation'[t] = generation[t] + 1
        /\ \A u \in TaskIds : u # t => generation'[u] = generation[u]
    BY <1>5, RemoveFacts DEF IInv, RegistryInv, TypeOK
  <2>3. WasRemoved(t)' /\ \A u \in TaskIds : u # t => (WasRemoved(u)' <=> WasRemoved(u))
    BY <2>2 DEF WasRemoved
  <2>4. Retired' = Retired \cup {t}
    BY <2>2, <2>3 DEF Retired
  <2>5. history \in [TaskIds -> Seq(RunIds)]
    BY DEF IInv, TypeOK
  <2> HIDE DEF t
  <2>6. PromisedHistory' = [PromisedHistory EXCEPT ![t] = <<>>]
    BY <2>1, <2>2, <2>3, <2>5 DEF PromisedHistory
  <2>7. \A r \in RunIds : Promised(r)' <=> Promised(r) /\ runTask[r] # t
    <3>1. \A r \in RunIds : HoldsSlot(r)' <=> HoldsSlot(r)
      BY <2>1 DEF HoldsSlot
    <3> QED
      BY <2>1, <2>3, <3>1, HolderFacts DEF Promised
  <2>8. SlotHolders' = [SlotHolders EXCEPT ![t] = {}]
    <3>1. ASSUME NEW u \in TaskIds
          PROVE  SlotHolders'[u] = IF u = t THEN {} ELSE SlotHolders[u]
      <4>1. SlotHolders[u] \subseteq RunIds /\ SlotHolders'[u] \subseteq RunIds
        BY MappingFacts
      <4>2. \A r \in RunIds : r \in SlotHolders'[u] <=> u # t /\ r \in SlotHolders[u]
        BY <2>1, <2>7, MappingFacts
      <4> QED
        BY <4>1, <4>2
    <3> QED
      BY <3>1, MappingFacts
  <2>9. RunningScripts' = RunningScripts \ SlotHolders[t]
    <3>1. \A r \in RunIds : proc[r] = "alive" => HoldsSlot(r) /\ runTask[r] \in TaskIds
      BY DEF HoldsSlot, IInv, RunInv, Executing
    <3>2. \A r \in RunIds : r \in RunningScripts' <=> proc[r] = "alive" /\ Promised(r)'
      BY <2>1, <3>1 DEF RunningScripts, Promised, HoldsSlot
    <3>3. \A r \in RunIds : r \in RunningScripts <=> proc[r] = "alive" /\ Promised(r)
      BY <3>1 DEF RunningScripts, Promised
    <3>4. \A r \in RunIds : r \in RunningScripts' <=> r \in RunningScripts \ SlotHolders[t]
      BY <2>2, <2>7, <3>2, <3>3, MappingFacts
    <3>5. RunningScripts \subseteq RunIds /\ RunningScripts' \subseteq RunIds
      BY DEF RunningScripts
    <3> QED
      BY <3>4, <3>5
  <2> QED
    BY <2>1, <2>4, <2>6, <2>8, <2>9 DEF Slots!Remove, t
<1> QED
  BY <1>2, <1>3, <1>4, <1>5 DEF RegistryNext, Slots!Next

(* A run's step leaves the registry, and what was removed, alone.           *)
LEMMA RunFacts ==
  ASSUME IInv, NEW r \in RunIds, RunNext(r)
  PROVE  /\ UNCHANGED <<tasks, generation>>
         /\ SameRemovals
         /\ UNCHANGED Retired
<1>1. UNCHANGED <<tasks, generation>>
  BY RunsKeepRegistry DEF registryVars, IInv
<1>2. SameRemovals
  BY <1>1 DEF SameRemovals, WasRemoved
<1> QED
  BY <1>1, <1>2, SameRetired

(* The instance counts as this module does.                                 *)
LEMMA SameCount == \A S : Slots!Cardinality(S) = Cardinality(S)
BY DEF Slots!Cardinality, Cardinality

(* reserveTaskRun takes the free slot of a task that was never removed.     *)
LEMMA ReserveKeepsSlots ==
  ASSUME IInv, NEW r \in RunIds, NEW t \in TaskIds, Reserve(t, r)
  PROVE  [Slots!Next]_(Slots!vars)
<1>1. /\ t \notin activeRuns /\ Cardinality(activeRuns) < MaxConcurrentRuns
      /\ \E k \in tasks : k.id = t
      /\ phase[r] = "free" /\ phase' = [phase EXCEPT ![r] = "reserved"]
      /\ runTask' = [runTask EXCEPT ![r] = t]
      /\ UNCHANGED <<history, gated, proc>>
  BY DEF Reserve, Reservable, Registered, At
<1>2. /\ phase \in [RunIds -> Phases]
      /\ runTask \in [RunIds -> TaskIds \cup {None}]
      /\ r \notin gated
      /\ \A s \in RunIds : proc[s] = "alive" => s # r /\ runTask[s] \in TaskIds
  BY <1>1 DEF IInv, TypeOK, RunInv
<1>3. UNCHANGED <<tasks, generation, Retired>> /\ SameRemovals
  BY RunFacts DEF RunNext
<1>4. UNCHANGED PromisedHistory
  BY <1>1, <1>3, SameHistory
<1>5. UNCHANGED RunningScripts
  BY <1>1, <1>2, <1>3 DEF RunningScripts, SameRemovals
<1>6. /\ runTask'[r] = t /\ HoldsSlot(r)' /\ ~HoldsSlot(r)
      /\ \A s \in RunIds : s # r =>
           (HoldsSlot(s)' <=> HoldsSlot(s)) /\ runTask'[s] = runTask[s]
  BY <1>1, <1>2 DEF HoldsSlot, Executing
<1>7. /\ Promised(r)' <=> ~WasRemoved(t)
      /\ ~Promised(r)
      /\ \A s \in RunIds : s # r => (Promised(s)' <=> Promised(s))
  BY <1>3, <1>6, HolderFacts DEF Promised, SameRemovals
<1>8. \A u \in TaskIds : /\ SlotHolders[u] \subseteq RunIds
                         /\ SlotHolders'[u] \subseteq RunIds
  BY MappingFacts
<1>9. CASE WasRemoved(t)
  <2>1. \A u \in TaskIds, s \in RunIds : s \in SlotHolders'[u] <=> s \in SlotHolders[u]
    BY <1>6, <1>7, <1>9, MappingFacts
  <2>2. \A u \in TaskIds : SlotHolders'[u] = SlotHolders[u]
    BY <1>8, <2>1
  <2>3. UNCHANGED SlotHolders
    BY <2>2, MappingFacts
  <2> QED
    BY <1>3, <1>4, <1>5, <2>3 DEF Slots!vars
<1>10. CASE ~WasRemoved(t)
  <2>1. SlotHolders[t] = {}
    BY <1>1, <1>8, MappingFacts DEF Promised, IInv, SlotInv
  <2>2. ASSUME NEW u \in TaskIds
        PROVE  SlotHolders'[u] = IF u = t THEN {r} ELSE SlotHolders[u]
    <3>1. \A s \in RunIds : s \in SlotHolders'[u] <=> s \in SlotHolders[u] \/ (u = t /\ s = r)
      BY <1>6, <1>7, <1>10, MappingFacts
    <3> QED
      BY <1>8, <2>1, <3>1
  <2>3. SlotHolders' = [SlotHolders EXCEPT ![t] = {r}]
    BY <2>2, MappingFacts
  <2>4. Slots!Cardinality(Slots!Taken) < MaxConcurrentRuns
    <3>1. IsFiniteSet(activeRuns) /\ Slots!Taken \subseteq activeRuns
      BY HolderFacts DEF IInv, SlotInv
    <3>2. IsFiniteSet(Slots!Taken) /\ Cardinality(Slots!Taken) <= Cardinality(activeRuns)
      BY <3>1, FS_Subset
    <3> QED
      BY <1>1, <3>1, <3>2, FS_CardinalityType, ConstantsAssumption, SameCount
  <2>5. Slots!Unknown(r)
    BY <1>1, <1>6, UnknownRun
  <2>6. Slots!Entered(t) /\ t \notin Retired
    BY <1>1, <1>10 DEF Slots!Entered, Retired
  <2>7. Slots!Take(t, r)
    BY <1>3, <1>4, <1>5, <2>1, <2>3, <2>4, <2>5, <2>6 DEF Slots!Take
  <2> QED
    BY <2>7 DEF Slots!Next
<1> QED
  BY <1>9, <1>10

(* A gated attempt takes no slot.                                           *)
LEMMA GatedKeepsSlots ==
  ASSUME IInv, NEW r \in RunIds, NEW t \in TaskIds, ReserveGated(t, r)
  PROVE  UNCHANGED Slots!vars
<1>1. /\ phase[r] = "free" /\ phase' = [phase EXCEPT ![r] = "outcome"]
      /\ runTask' = [runTask EXCEPT ![r] = t]
      /\ gated' = gated \cup {r}
      /\ UNCHANGED <<history, proc>>
  BY DEF ReserveGated, At
<1>2. /\ phase \in [RunIds -> Phases]
      /\ runTask \in [RunIds -> TaskIds \cup {None}]
      /\ \A s \in RunIds : proc[s] = "alive" => s # r /\ runTask[s] \in TaskIds
  BY <1>1 DEF IInv, TypeOK, RunInv
<1>3. UNCHANGED <<tasks, generation, Retired>> /\ SameRemovals
  BY RunFacts DEF RunNext
<1>4. UNCHANGED PromisedHistory
  BY <1>1, <1>3, SameHistory
<1>5. UNCHANGED RunningScripts
  BY <1>1, <1>2, <1>3 DEF RunningScripts, SameRemovals
<1>6. /\ ~HoldsSlot(r)' /\ ~HoldsSlot(r)
      /\ \A s \in RunIds : s # r =>
           (HoldsSlot(s)' <=> HoldsSlot(s)) /\ runTask'[s] = runTask[s]
  BY <1>1, <1>2 DEF HoldsSlot, Executing
<1>7. UNCHANGED SlotHolders
  BY <1>3, <1>6, SameHolders
<1> QED
  BY <1>3, <1>4, <1>5, <1>7 DEF Slots!vars

(* cmd.Start: the script of the run that holds the slot.                    *)
LEMMA StartKeepsSlots ==
  ASSUME IInv, NEW r \in RunIds, StartProcess(r)
  PROVE  [Slots!Next]_(Slots!vars)
<1>1. /\ phase[r] = "reserved" /\ phase' = [phase EXCEPT ![r] = "started"]
      /\ proc' = [proc EXCEPT ![r] = "alive"]
      /\ UNCHANGED <<history, runTask, gated>>
  BY DEF StartProcess, At
<1>2. /\ phase \in [RunIds -> Phases] /\ proc \in [RunIds -> {"none", "alive", "dead"}]
      /\ r \notin gated /\ proc[r] # "alive"
      /\ \A s \in RunIds : proc[s] = "alive" => runTask[s] \in TaskIds
  BY <1>1 DEF IInv, TypeOK, RunInv
<1>3. UNCHANGED <<tasks, generation, Retired>> /\ SameRemovals
  BY RunFacts DEF RunNext, RunStep
<1>4. \A s \in RunIds : HoldsSlot(s)' <=> HoldsSlot(s)
  BY <1>1, <1>2 DEF HoldsSlot, Executing
<1>5. UNCHANGED <<SlotHolders, PromisedHistory>>
  BY <1>1, <1>3, <1>4, SameHistory, SameHolders
<1>6. HoldsSlot(r) /\ runTask[r] \in TaskIds
  BY <1>1, <1>2, HolderFacts DEF HoldsSlot, Executing
<1>7. CASE WasRemoved(runTask[r])
  <2>1. UNCHANGED RunningScripts
    BY <1>1, <1>2, <1>3, <1>6, <1>7 DEF RunningScripts, SameRemovals
  <2> QED
    BY <1>3, <1>5, <2>1 DEF Slots!vars
<1>8. CASE ~WasRemoved(runTask[r])
  <2>1. SlotHolders[runTask[r]] = {r}
    BY <1>6, <1>8, HolderFacts DEF Promised
  <2>2. RunningScripts' = RunningScripts \cup {r} /\ r \notin RunningScripts
    BY <1>1, <1>2, <1>3, <1>6, <1>8 DEF RunningScripts, SameRemovals
  <2>3. Slots!Launch(runTask[r], r)
    BY <1>3, <1>5, <2>1, <2>2 DEF Slots!Launch
  <2> QED
    BY <1>6, <2>3 DEF Slots!Next
<1> QED
  BY <1>7, <1>8

(* The last critical section of a run: the slot goes back with the record.  *)
LEMMA FinishKeepsSlots ==
  ASSUME IInv, NEW r \in RunIds, Finish(r)
  PROVE  [Slots!Next]_(Slots!vars)
<1> DEFINE t == runTask[r]
<1>1. /\ phase[r] = "outcome" /\ phase' = [phase EXCEPT ![r] = "done"]
      /\ history' = IF GenerationMatches(r)
                    THEN [history EXCEPT ![t] = Retained(<<r>> \o @)] ELSE history
      /\ UNCHANGED <<runTask, gated, proc>>
  BY DEF Finish, At
<1>2. /\ t \in TaskIds /\ runGen[r] # 0 /\ runGen[r] <= generation[t]
      /\ runGen[r] \in Nat /\ generation[t] \in Nat
      /\ phase \in [RunIds -> Phases] /\ history \in [TaskIds -> Seq(RunIds)]
      /\ proc[r] # "alive"
      /\ \A s \in RunIds : proc[s] = "alive" => runTask[s] \in TaskIds
  BY <1>1 DEF IInv, TypeOK, RunInv
<1>3. UNCHANGED <<tasks, generation, Retired>> /\ SameRemovals
  BY RunFacts DEF RunNext, RunStep
<1>4. UNCHANGED RunningScripts
  BY <1>1, <1>2, <1>3 DEF RunningScripts, SameRemovals
<1>5. \A s \in RunIds : HoldsSlot(s)' <=> HoldsSlot(s) /\ s # r
  BY <1>1, <1>2 DEF HoldsSlot, Executing
<1>6. CASE WasRemoved(t)
  <2>1. UNCHANGED PromisedHistory
    <3>1. ASSUME NEW u \in TaskIds PROVE PromisedHistory'[u] = PromisedHistory[u]
      BY <1>1, <1>2, <1>3, <1>6 DEF PromisedHistory, SameRemovals
    <3> QED
      BY <3>1 DEF PromisedHistory
  <2>2. \A s \in RunIds : Promised(s)' <=> Promised(s)
    BY <1>1, <1>3, <1>5, <1>6, HolderFacts DEF Promised, SameRemovals
  <2>3. UNCHANGED SlotHolders
    BY <1>1, <2>2 DEF SlotHolders
  <2> QED
    BY <1>3, <1>4, <2>1, <2>3 DEF Slots!vars
<1>7. CASE ~WasRemoved(t)
  <2>1. PromisedHistory[t] = history[t] /\ PromisedHistory \in [TaskIds -> Seq(RunIds)]
    BY <1>2, <1>7 DEF PromisedHistory
  <2>2. GenerationMatches(r) <=> Slots!Entered(t)
    BY <1>2, <1>7 DEF GenerationMatches, WasRemoved, Slots!Entered, Registered
  <2>3. ASSUME ~Slots!Entered(t) PROVE UNCHANGED PromisedHistory
    BY <1>1, <1>3, <2>2, <2>3, SameHistory
  <2>4. ASSUME Slots!Entered(t) PROVE Slots!Recorded(r, t)
    <3>1. history' = [history EXCEPT ![t] = Retained(<<r>> \o PromisedHistory[t])]
      BY <1>1, <1>2, <2>1, <2>2, <2>4
    <3> DEFINE new == Retained(<<r>> \o PromisedHistory[t])
    <3> HIDE DEF new
    <3>2. ASSUME NEW u \in TaskIds
          PROVE  PromisedHistory'[u] = [PromisedHistory EXCEPT ![t] = new][u]
      BY <1>2, <1>3, <1>7, <3>1 DEF PromisedHistory, SameRemovals, new
    <3>3. PromisedHistory' = [PromisedHistory EXCEPT ![t] = new]
      BY <3>2 DEF PromisedHistory
    <3> QED
      BY <3>3 DEF Slots!Recorded, Retained, new
  <2>5. CASE r \notin gated
    <3>1. HoldsSlot(r) /\ Promised(r)
      BY <1>1, <1>7, <2>5 DEF HoldsSlot, Promised
    <3>2. SlotHolders[t] = {r} /\ r \notin RunningScripts
      BY <1>2, <3>1, HolderFacts DEF RunningScripts
    <3>3. \A s \in RunIds : Promised(s)' <=> Promised(s) /\ s # r
      BY <1>1, <1>3, <1>5, HolderFacts DEF Promised, SameRemovals
    <3>4. ASSUME NEW u \in TaskIds
          PROVE  SlotHolders'[u] = IF u = t THEN {} ELSE SlotHolders[u]
      <4>1. SlotHolders[u] \subseteq RunIds /\ SlotHolders'[u] \subseteq RunIds
        BY MappingFacts
      <4>2. \A s \in RunIds : s \in SlotHolders'[u] <=> s # r /\ s \in SlotHolders[u]
        BY <1>1, <3>3, MappingFacts
      <4>3. u # t => r \notin SlotHolders[u]
        BY MappingFacts
      <4> QED
        BY <3>2, <4>1, <4>2, <4>3
    <3>5. SlotHolders' = [SlotHolders EXCEPT ![t] = {}]
      BY <3>4, MappingFacts
    <3>6. Slots!GiveBack(t, r)
      BY <1>3, <1>4, <2>3, <2>4, <3>2, <3>5 DEF Slots!GiveBack
    <3> QED
      BY <1>2, <3>6 DEF Slots!Next
  <2>6. CASE r \in gated
    <3>1. ~HoldsSlot(r)
      BY <2>6 DEF HoldsSlot
    <3>2. UNCHANGED SlotHolders
      BY <1>1, <1>3, <1>5, <3>1, SameHolders
    <3>3. CASE ~Slots!Entered(t)
      BY <1>3, <1>4, <2>3, <3>2, <3>3 DEF Slots!vars
    <3>4. CASE Slots!Entered(t)
      <4>1. Slots!Unknown(r) /\ t \notin Retired
        BY <1>1, <1>7, <3>1, UnknownRun DEF Retired
      <4>2. Slots!Note(t, r)
        BY <1>3, <1>4, <2>4, <3>2, <3>4, <4>1 DEF Slots!Note
      <4> QED
        BY <1>2, <4>2 DEF Slots!Next
    <3> QED
      BY <3>3, <3>4
  <2> QED
    BY <2>5, <2>6
<1> QED
  BY <1>6, <1>7

(* The other steps of a run, and of those who cancel or kill it, show at    *)
(* most that its script exits.                                              *)
LEMMA RunKeepsSlots ==
  ASSUME IInv, NEW r \in RunIds, RunNext(r)
  PROVE  [Slots!Next]_(Slots!vars)
<1> USE DEF registryVars, trackingVars, runVars, shutdownVars
<1>1. UNCHANGED tasks /\ SameRemovals
  BY RunFacts
<1>2. phase \in [RunIds -> Phases] /\ proc \in [RunIds -> {"none", "alive", "dead"}]
  BY DEF IInv, TypeOK
<1>3. ASSUME NEW from, NEW to, At(r, from, to),
             {from, to} \subseteq Executing \cup {"outcome"},
             UNCHANGED <<history, runTask, gated>>,
             proc' = proc \/ proc' = Killed(r)
      PROVE  [Slots!Next]_(Slots!vars)
  <2>1. \A s \in RunIds : HoldsSlot(s)' <=> HoldsSlot(s)
    BY <1>2, <1>3 DEF HoldsSlot, At
  <2>2. proc' = proc \/ proc' = [proc EXCEPT ![r] = "dead"]
    BY <1>2, <1>3 DEF Killed
  <2>3. UNCHANGED <<tasks, history, runTask>>
    BY <1>1, <1>3
  <2> QED
    BY <1>1, <2>1, <2>2, <2>3, ScriptExits
<1>4. ASSUME UNCHANGED <<phase, history, runTask, gated>>,
             proc' = proc \/ proc' = Killed(r) \/ proc' = [proc EXCEPT ![r] = "dead"]
      PROVE  [Slots!Next]_(Slots!vars)
  <2>1. \A s \in RunIds : HoldsSlot(s)' <=> HoldsSlot(s)
    BY <1>4 DEF HoldsSlot
  <2>2. proc' = proc \/ proc' = [proc EXCEPT ![r] = "dead"]
    BY <1>2, <1>4 DEF Killed
  <2>3. UNCHANGED <<tasks, history, runTask>>
    BY <1>1, <1>4
  <2> QED
    BY <1>1, <2>1, <2>2, <2>3, ScriptExits
<1>5. CASE LaunchFails(r) \/ RegisterCancel(r) \/ RecordActiveRun(r) \/ RefuseStaleRun(r)
  BY <1>5, <1>3 DEF LaunchFails, RegisterCancel, RecordActiveRun, RefuseStaleRun, Executing
<1>6. CASE CleanUpStaleRun(r) \/ ProcessReaped(r) \/ ClearActiveRun(r) \/ Interrupted(r)
  BY <1>6, <1>3 DEF CleanUpStaleRun, ProcessReaped, ClearActiveRun, Interrupted, Executing
<1>7. CASE CleanUpRemoved(r) \/ CancelRun(r) \/ TerminateRun(r)
  BY <1>7, <1>4 DEF CleanUpRemoved, CancelRun, TerminateRun
<1>8. CASE RecordOutput(r) \/ ProcessExits(r)
  BY <1>8, <1>4 DEF RecordOutput, ProcessExits
<1>9. CASE Finish(r) \/ StartProcess(r)
  BY <1>9, FinishKeepsSlots, StartKeepsSlots
<1>10. ASSUME NEW t \in TaskIds, Reserve(t, r) \/ ReserveGated(t, r)
       PROVE  [Slots!Next]_(Slots!vars)
  BY <1>10, ReserveKeepsSlots, GatedKeepsSlots
<1> QED
  BY <1>5, <1>6, <1>7, <1>8, <1>9, <1>10 DEF RunNext, RunStep, RunTimesOut, RunCanceled

(* A step that changes neither the runs nor the registry shows nothing.     *)
LEMMA IdleKeepsSlots ==
  ASSUME IInv, BeginShutdown \/ UNCHANGED vars
  PROVE  UNCHANGED Slots!vars
<1>1. UNCHANGED <<tasks, generation, history, phase, runTask, gated, proc>>
  BY DEF BeginShutdown, vars, registryVars, runVars
<1>2. SameRemovals
  BY <1>1 DEF SameRemovals, WasRemoved
<1>3. \A s \in RunIds : HoldsSlot(s)' <=> HoldsSlot(s)
  BY <1>1 DEF HoldsSlot
<1>4. \A s \in RunIds : proc[s] = "alive" => runTask[s] \in TaskIds
  BY DEF IInv, RunInv
<1>5. UNCHANGED RunningScripts
  BY <1>1, <1>2, <1>4 DEF RunningScripts, SameRemovals
<1>6. UNCHANGED <<Retired, SlotHolders, PromisedHistory>>
  BY <1>1, <1>2, <1>3, SameRetired, SameHistory, SameHolders
<1> QED
  BY <1>1, <1>5, <1>6 DEF Slots!vars

(* The engine keeps the promise of RunSlots: it starts as RunSlots starts,  *)
(* and every step of a handler, a run or the shutdown is a step of RunSlots *)
(* or changes nothing that RunSlots shows.                                  *)
THEOREM KeepsSlotsTheorem == Spec => KeepsSlots
<1>1. Init => Slots!Init
  <2> SUFFICES ASSUME Init PROVE Slots!Init
    OBVIOUS
  <2>1. \A t \in TaskIds : ~WasRemoved(t) /\ history[t] = <<>>
    BY DEF Init, WasRemoved
  <2>2. \A r \in RunIds : ~HoldsSlot(r) /\ proc[r] # "alive"
    BY DEF Init, HoldsSlot, Executing
  <2>3. Retired = {} /\ RunningScripts = {}
    BY <2>1, <2>2 DEF Retired, RunningScripts
  <2>4. SlotHolders = [t \in TaskIds |-> {}]
    BY <2>2 DEF SlotHolders, Promised
  <2>5. PromisedHistory = [t \in TaskIds |-> <<>>]
    BY <2>1 DEF PromisedHistory
  <2> QED
    BY <2>3, <2>4, <2>5 DEF Slots!Init, Init
<1>2. IInv /\ [Next]_vars => [Slots!Next]_(Slots!vars)
  <2> SUFFICES ASSUME IInv, [Next]_vars PROVE [Slots!Next]_(Slots!vars)
    OBVIOUS
  <2>1. CASE BeginShutdown \/ UNCHANGED vars
    BY <2>1, IdleKeepsSlots
  <2>2. CASE RegistryNext
    BY <2>2, RegistryKeepsSlots
  <2>3. ASSUME NEW r \in RunIds, RunNext(r) PROVE [Slots!Next]_(Slots!vars)
    BY <2>3, RunKeepsSlots
  <2> QED
    BY <2>1, <2>2, <2>3 DEF Next
<1> QED
  BY <1>1, <1>2, Invariance, PTL DEF Spec, Slots!Spec, KeepsSlots
===============================================================================
