------------------------------- MODULE TaskRuns -------------------------------
(***************************************************************************)
(* The engine's task registry and the life cycle of its runs               *)
(* (internal/core/engine.go, runner.go, management.go).                    *)
(*                                                                         *)
(* Every engine map is guarded by Engine.mu; one action below is one       *)
(* critical section, together with the calls that follow it and that no    *)
(* other goroutine can observe separately.  A run is executed by one       *)
(* goroutine (executeReservedRun, which calls RunScriptWithOptions);       *)
(* phase[r] is its program counter.  API handlers, the scheduler and the   *)
(* shutdown goroutine interleave with it at every critical section.        *)
(*                                                                         *)
(* PersistState and the event broker, which these handlers also call,      *)
(* read the state below and never change it.                               *)
(***************************************************************************)
EXTENDS Naturals, Sequences, FiniteSets

CONSTANTS
  TaskIds,            \* task IDs; generateID never returns one twice
  Packages,           \* canonical package directories
  RunIds,             \* run IDs; bounds the number of runs
  Reloaders,          \* handlers that may be inside ReloadTask at one time
  Gateable,           \* tasks that declare dependencies, so that a run may be gated
  MaxConcurrentRuns,  \* Engine.maxConcurrentRuns
  MaxRunsPerTask,     \* retention: records kept per task
  MaxGeneration,      \* bound on the number of removals of one ID
  None                \* no task: an idle reloader, a run not reserved yet

ASSUME ConstantsAssumption ==
  /\ MaxConcurrentRuns \in Nat \ {0}
  /\ MaxRunsPerTask \in Nat \ {0}
  /\ MaxGeneration \in Nat
  /\ IsFiniteSet(RunIds)
  /\ Gateable \subseteq TaskIds
  /\ None \notin [id: TaskIds, pkg: Packages]
  /\ None \notin TaskIds

VARIABLES
  tasks,        \* Engine.tasks: the registered [id, pkg] pairs
  generation,   \* Engine.taskGenerations; 0 when absent
  reload,       \* what each ReloadTask read before it released the lock
  activeRuns,   \* Engine.activeRuns: the task IDs that hold a run slot
  details,      \* keys of Engine.activeRunDetails
  controller,   \* Engine.activeRunControllers, by what its cancel field holds
  requested,    \* controllers whose cancelRequested is set
  history,      \* Engine.runHistory, newest first
  phase,        \* program counter of each run's goroutine
  runTask,      \* reservedTaskRun.task.ID
  runGen,       \* reservedTaskRun.generation
  gated,        \* runs with a dependencyGate: no slot, no process
  canceled,     \* runs whose cancelCtx was canceled by a request
  proc,         \* the run's process group
  toKill,       \* runs RemoveTask collected and has not cleaned up yet
  shuttingDown, \* TerminateActiveRuns has taken its copy of the listed runs
  terminating   \* the runs of that copy it still has to terminate

shutdownVars == <<shuttingDown, terminating>>
registryVars == <<tasks, generation, reload>>
trackingVars == <<activeRuns, details, controller, requested>>
runVars      == <<phase, runTask, runGen, gated, canceled, proc>>
vars == <<tasks, generation, reload, activeRuns, details, controller, requested,
          history, phase, runTask, runGen, gated, canceled, proc, toKill, shuttingDown,
          terminating>>

Task == [id: TaskIds, pkg: Packages]

(* Goroutine positions, in the order a run visits them.                     *)
Executing == {"reserved", "started", "registered", "stale", "waiting", "finishing"}
Phases    == {"free", "outcome", "done"} \cup Executing

TypeOK ==
  /\ tasks \subseteq Task
  /\ generation \in [TaskIds -> Nat]
  /\ reload \in [Reloaders -> Task \cup {None}]
  /\ activeRuns \subseteq TaskIds
  /\ details \subseteq RunIds
  /\ controller \in [RunIds -> {"none", "bare", "cancelable"}]
  /\ requested \subseteq RunIds
  /\ history \in [TaskIds -> Seq(RunIds)]
  /\ \A t \in TaskIds : Len(history[t]) <= MaxRunsPerTask
  /\ phase \in [RunIds -> Phases]
  /\ runTask \in [RunIds -> TaskIds \cup {None}]
  /\ runGen \in [RunIds -> Nat]
  /\ gated \subseteq RunIds
  /\ canceled \subseteq RunIds
  /\ proc \in [RunIds -> {"none", "alive", "dead"}]
  /\ toKill \subseteq RunIds
  /\ shuttingDown \in BOOLEAN
  /\ terminating \subseteq RunIds

-------------------------------------------------------------------------------
(* Helpers                                                                  *)

Registered(t) == \E k \in tasks : k.id = t

(* taskGenerationMatchesLocked, for the task and generation run r reserved. *)
GenerationMatches(r) ==
  /\ runGen[r] # 0
  /\ generation[runTask[r]] = runGen[r]
  /\ Registered(runTask[r])

(* An ID generateID may still return: it was never registered.              *)
Fresh(t) == generation[t] = 0

WithGeneration(t) == [generation EXCEPT ![t] = IF @ = 0 THEN 1 ELSE @]

(* cleanupPersistedRunProcess, terminateProcessGroup: the process is gone.  *)
Killed(r) == [proc EXCEPT ![r] = IF @ = "alive" THEN "dead" ELSE @]

(* applyRunRetentionLocked on one history, with the age limit off.          *)
Retained(s) == SubSeq(s, 1, IF Len(s) < MaxRunsPerTask THEN Len(s) ELSE MaxRunsPerTask)

At(r, from, to) ==
  /\ phase[r] = from
  /\ phase' = [phase EXCEPT ![r] = to]

(* reserveTaskRun answers neither ErrTaskNotFound nor ErrTaskAlreadyRunning. *)
Reservable(t) == Registered(t) /\ t \notin activeRuns

(* A controller is created the first time one is asked for.                 *)
WithController(r) == [controller EXCEPT ![r] = IF @ = "none" THEN "bare" ELSE @]

(* clearActiveRunRecord.                                                    *)
ClearedRecord(r) ==
  /\ details' = details \ {r}
  /\ controller' = [controller EXCEPT ![r] = "none"]
  /\ requested' = requested \ {r}

(* Mutant: the runner stops waiting without killing the process group.      *)
InterruptedWithoutKill(r) ==
  /\ At(r, "waiting", "finishing")
  /\ UNCHANGED <<registryVars, trackingVars, history, runTask, runGen, gated, canceled,
                 proc, toKill, shutdownVars>>

(* The two interrupting branches of the runner's select: the process group  *)
(* is terminated, and the process waited for.                               *)
Interrupted(r) ==
  /\ At(r, "waiting", "finishing")
  /\ proc' = Killed(r)
  /\ UNCHANGED <<registryVars, trackingVars, history, runTask, runGen, gated, canceled,
                 toKill, shutdownVars>>

-------------------------------------------------------------------------------
Init ==
  /\ tasks = {}
  /\ generation = [t \in TaskIds |-> 0]
  /\ reload = [h \in Reloaders |-> None]
  /\ activeRuns = {}
  /\ details = {}
  /\ controller = [r \in RunIds |-> "none"]
  /\ requested = {}
  /\ history = [t \in TaskIds |-> <<>>]
  /\ phase = [r \in RunIds |-> "free"]
  /\ runTask = [r \in RunIds |-> None]
  /\ runGen = [r \in RunIds |-> 0]
  /\ gated = {}
  /\ canceled = {}
  /\ proc = [r \in RunIds |-> "none"]
  /\ toKill = {}
  /\ shuttingDown = FALSE
  /\ terminating = {}

-------------------------------------------------------------------------------
(* The registry                                                             *)

(* importTask with restoredID = "" on a package no task has.  On a package  *)
(* that is registered, importTask only replaces the manifest.               *)
ImportTask(t, p) ==
  /\ \A k \in tasks : k.pkg # p
  /\ Fresh(t)
  /\ tasks' = tasks \cup {[id |-> t, pkg |-> p]}
  /\ generation' = WithGeneration(t)
  /\ UNCHANGED <<reload, trackingVars, history, runVars, toKill, shutdownVars>>

(* ReloadTask up to RUnlock: it copies the package directory of the task.   *)
ReloadRead(h, k) ==
  /\ reload[h] = None
  /\ k \in tasks
  /\ reload' = [reload EXCEPT ![h] = k]
  /\ UNCHANGED <<tasks, generation, trackingVars, history, runVars, toKill, shutdownVars>>

(* Mutant: a reload matches entries by ID only and appends otherwise.       *)
ReloadImportAppends(h) ==
  /\ reload[h] # None
  /\ reload' = [reload EXCEPT ![h] = None]
  /\ tasks' = tasks \cup {reload[h]}
  /\ generation' = WithGeneration(reload[h].id)
  /\ UNCHANGED <<trackingVars, history, runVars, toKill, shutdownVars>>

(* importTask called by ReloadTask: restoredID is the ID read earlier.  An  *)
(* entry with that package takes the ID over; otherwise one is appended.    *)
ReloadImport(h) ==
  LET k == reload[h] IN
  /\ k # None
  /\ reload' = [reload EXCEPT ![h] = None]
  /\ tasks' = {e \in tasks : e.pkg # k.pkg} \cup {k}
  /\ generation' = WithGeneration(k.id)
  /\ UNCHANGED <<trackingVars, history, runVars, toKill, shutdownVars>>

(* importTask called by ReloadTask fails: directory or manifest is bad.     *)
ReloadFails(h) ==
  /\ reload[h] # None
  /\ reload' = [reload EXCEPT ![h] = None]
  /\ UNCHANGED <<tasks, generation, trackingVars, history, runVars, toKill, shutdownVars>>

(* Mutant: RemoveTask keeps the run slot of the task.                       *)
RemoveTaskKeepsSlot(k) ==
  LET collected == {r \in details : runTask[r] = k.id} IN
  /\ k \in tasks
  /\ generation[k.id] < MaxGeneration
  /\ tasks' = tasks \ {k}
  /\ history' = [history EXCEPT ![k.id] = <<>>]
  /\ generation' = [generation EXCEPT ![k.id] = @ + 1]
  /\ details' = details \ collected
  /\ toKill' = toKill \cup collected
  /\ UNCHANGED <<reload, activeRuns, controller, requested, runVars, shutdownVars>>

(* Mutant: RemoveTask drops the runs of the task without collecting them.   *)
RemoveTaskKeepsScripts(k) ==
  /\ k \in tasks
  /\ generation[k.id] < MaxGeneration
  /\ tasks' = tasks \ {k}
  /\ history' = [history EXCEPT ![k.id] = <<>>]
  /\ activeRuns' = activeRuns \ {k.id}
  /\ generation' = [generation EXCEPT ![k.id] = @ + 1]
  /\ details' = {r \in details : runTask[r] # k.id}
  /\ UNCHANGED <<reload, controller, requested, runVars, toKill, shutdownVars>>

(* The critical section of RemoveTask.  The runs it collects are cleaned up *)
(* after the unlock, by CleanUpRemoved.                                     *)
RemoveTask(k) ==
  LET t == k.id
      collected == {r \in details : runTask[r] = t} IN
  /\ k \in tasks
  /\ generation[t] < MaxGeneration
  /\ tasks' = tasks \ {k}
  /\ history' = [history EXCEPT ![t] = <<>>]
  /\ activeRuns' = activeRuns \ {t}
  /\ generation' = [generation EXCEPT ![t] = @ + 1]
  /\ details' = details \ collected
  /\ toKill' = toKill \cup collected
  /\ UNCHANGED <<reload, controller, requested, runVars, shutdownVars>>

CleanUpRemoved(r) ==
  /\ r \in toKill
  /\ toKill' = toKill \ {r}
  /\ proc' = Killed(r)
  /\ UNCHANGED <<registryVars, trackingVars, history, phase, runTask, runGen, gated,
                 canceled, shutdownVars>>

-------------------------------------------------------------------------------
(* The run's goroutine                                                      *)

(* reserveTaskRun, unhealthy dependency: the run needs no slot.             *)
ReserveGated(t, r) ==
  /\ Reservable(t)
  /\ t \in Gateable
  /\ At(r, "free", "outcome")
  /\ runTask' = [runTask EXCEPT ![r] = t]
  /\ generation' = WithGeneration(t)
  /\ runGen' = [runGen EXCEPT ![r] = WithGeneration(t)[t]]
  /\ gated' = gated \cup {r}
  /\ UNCHANGED <<tasks, reload, trackingVars, history, canceled, proc, toKill, shutdownVars>>

(* reserveTaskRun, dependencies healthy: the task takes a run slot.         *)
Reserve(t, r) ==
  /\ Reservable(t)
  /\ Cardinality(activeRuns) < MaxConcurrentRuns
  /\ At(r, "free", "reserved")
  /\ runTask' = [runTask EXCEPT ![r] = t]
  /\ generation' = WithGeneration(t)
  /\ runGen' = [runGen EXCEPT ![r] = WithGeneration(t)[t]]
  /\ activeRuns' = activeRuns \cup {t}
  /\ UNCHANGED <<tasks, reload, details, controller, requested, history, gated,
                 canceled, proc, toKill, shutdownVars>>

(* The run directory, the browser profile or cmd.Start fails: the runner    *)
(* returns before it called any callback.                                   *)
LaunchFails(r) ==
  /\ At(r, "reserved", "outcome")
  /\ UNCHANGED <<registryVars, trackingVars, history, runTask, runGen, gated, canceled,
                 proc, toKill, shutdownVars>>

(* cmd.Start succeeds.                                                      *)
StartProcess(r) ==
  /\ At(r, "reserved", "started")
  /\ proc' = [proc EXCEPT ![r] = "alive"]
  /\ UNCHANGED <<registryVars, trackingVars, history, runTask, runGen, gated, canceled,
                 toKill, shutdownVars>>

(* registerActiveRunCancel; a cancellation asked for earlier takes effect.  *)
RegisterCancel(r) ==
  /\ At(r, "started", "registered")
  /\ controller' = [controller EXCEPT ![r] = "cancelable"]
  /\ canceled' = IF r \in requested THEN canceled \cup {r} ELSE canceled
  /\ UNCHANGED <<registryVars, activeRuns, details, requested, history, runTask, runGen,
                 gated, proc, toKill, shutdownVars>>

(* Mutant: recordActiveRun lists the run whatever became of the task.       *)
RecordActiveRunUnchecked(r) ==
  /\ At(r, "registered", "waiting")
  /\ controller' = WithController(r)
  /\ details' = details \cup {r}
  /\ UNCHANGED <<registryVars, activeRuns, requested, history, runTask, runGen, gated,
                 canceled, proc, toKill, shutdownVars>>

(* recordActiveRun, the task is still the one that was reserved.            *)
RecordActiveRun(r) ==
  /\ GenerationMatches(r)
  /\ At(r, "registered", "waiting")
  /\ controller' = WithController(r)
  /\ details' = details \cup {r}
  /\ UNCHANGED <<registryVars, activeRuns, requested, history, runTask, runGen, gated,
                 canceled, proc, toKill, shutdownVars>>

(* recordActiveRun, the task was removed meanwhile: the run is not listed,  *)
(* and its process is cleaned up once the lock is released.                 *)
RefuseStaleRun(r) ==
  /\ ~GenerationMatches(r)
  /\ At(r, "registered", "stale")
  /\ UNCHANGED <<registryVars, trackingVars, history, runTask, runGen, gated, canceled,
                 proc, toKill, shutdownVars>>

(* Mutant: a refused run is left alone, to end by itself.                   *)
LeaveStaleRun(r) ==
  /\ At(r, "stale", "waiting")
  /\ UNCHANGED <<registryVars, trackingVars, history, runTask, runGen, gated, canceled,
                 proc, toKill, shutdownVars>>

(* recordActiveRun after the unlock: cleanupPersistedRunProcess.            *)
CleanUpStaleRun(r) ==
  /\ At(r, "stale", "waiting")
  /\ proc' = Killed(r)
  /\ UNCHANGED <<registryVars, trackingVars, history, runTask, runGen, gated, canceled,
                 toKill, shutdownVars>>

(* recordActiveRunOutput, when it has to create the controller: runOutput-  *)
(* Writer lets output through once OnStarted has returned, and Wait drains  *)
(* it before it returns.                                                    *)
RecordOutput(r) ==
  /\ phase[r] = "waiting"
  /\ controller[r] = "none"
  /\ controller' = WithController(r)
  /\ UNCHANGED <<registryVars, activeRuns, details, requested, history, runVars, toKill,
                 shutdownVars>>

(* The script ends by itself.                                               *)
ProcessExits(r) ==
  /\ proc[r] = "alive"
  /\ proc' = [proc EXCEPT ![r] = "dead"]
  /\ UNCHANGED <<registryVars, trackingVars, history, phase, runTask, runGen, gated,
                 canceled, toKill, shutdownVars>>

(* select on waitCh and cancelCtx.Done.  Both may be ready; a timeout and a *)
(* cancellation terminate the process group and then wait for the process.  *)
ProcessReaped(r) ==
  /\ At(r, "waiting", "finishing")
  /\ proc[r] = "dead"
  /\ UNCHANGED <<registryVars, trackingVars, history, runTask, runGen, gated, canceled,
                 proc, toKill, shutdownVars>>

RunTimesOut(r) == Interrupted(r)
RunCanceled(r) == r \in canceled /\ Interrupted(r)

(* Mutant: the runner's deferred callback waits for a listed run.           *)
ClearListedRun(r) ==
  /\ r \in details
  /\ At(r, "finishing", "outcome")
  /\ ClearedRecord(r)
  /\ UNCHANGED <<registryVars, activeRuns, history, runTask, runGen, gated, canceled, proc,
                 toKill, shutdownVars>>

(* OnFinished, deferred by the runner: clearActiveRunRecord.                *)
ClearActiveRun(r) ==
  /\ At(r, "finishing", "outcome")
  /\ ClearedRecord(r)
  /\ UNCHANGED <<registryVars, activeRuns, history, runTask, runGen, gated, canceled, proc,
                 toKill, shutdownVars>>

(* Mutant: the record is stored whatever became of the task.                *)
FinishUnchecked(r) ==
  LET t == runTask[r] IN
  /\ At(r, "outcome", "done")
  /\ activeRuns' = IF r \in gated THEN activeRuns ELSE activeRuns \ {t}
  /\ history' = [history EXCEPT ![t] = Retained(<<r>> \o @)]
  /\ UNCHANGED <<registryVars, details, controller, requested, runTask, runGen, gated,
                 canceled, proc, toKill, shutdownVars>>

(* The last critical section of executeReservedRun, after the deliveries:   *)
(* the slot is freed, and the record kept when the task is still the same.  *)
Finish(r) ==
  LET t == runTask[r] IN
  /\ At(r, "outcome", "done")
  /\ activeRuns' = IF r \in gated THEN activeRuns ELSE activeRuns \ {t}
  /\ history' = IF GenerationMatches(r)
                THEN [history EXCEPT ![t] = Retained(<<r>> \o @)]
                ELSE history
  /\ UNCHANGED <<registryVars, details, controller, requested, runTask, runGen, gated,
                 canceled, proc, toKill, shutdownVars>>

-------------------------------------------------------------------------------
(* Requests about a run, and shutdown                                       *)

(* Mutant: CancelRun always frees the slot, before the script has ended.    *)
CancelRunFreesSlot(r) ==
  /\ r \in details
  /\ requested' = requested \cup {r}
  /\ canceled' = canceled \cup {r}
  /\ activeRuns' = activeRuns \ {runTask[r]}
  /\ UNCHANGED <<registryVars, details, controller, history, phase, runTask, runGen, gated,
                 proc, toKill, shutdownVars>>

(* CancelRun.  Without a registered cancel function it cleans the process   *)
(* up and drops the run and the slot itself.                                *)
CancelRun(r) ==
  /\ r \in details
  /\ IF controller[r] = "cancelable"
     THEN /\ requested' = requested \cup {r}
          /\ canceled' = canceled \cup {r}
          /\ UNCHANGED <<activeRuns, details, controller, proc>>
     ELSE /\ ClearedRecord(r)
          /\ proc' = Killed(r)
          /\ activeRuns' = activeRuns \ {runTask[r]}
          /\ UNCHANGED canceled
  /\ UNCHANGED <<registryVars, history, phase, runTask, runGen, gated, toKill, shutdownVars>>

(* TerminateActiveRuns up to RUnlock: it copies the runs listed now.        *)
BeginShutdown ==
  /\ ~shuttingDown
  /\ shuttingDown' = TRUE
  /\ terminating' = details
  /\ UNCHANGED <<registryVars, trackingVars, history, runVars, toKill>>

(* The loop of TerminateActiveRuns: clean up the process, clear the record. *)
TerminateRun(r) ==
  /\ r \in terminating
  /\ terminating' = terminating \ {r}
  /\ proc' = Killed(r)
  /\ ClearedRecord(r)
  /\ UNCHANGED <<registryVars, activeRuns, history, phase, runTask, runGen, gated,
                 canceled, toKill, shuttingDown>>

-------------------------------------------------------------------------------
RegistryNext ==
  \/ \E t \in TaskIds, p \in Packages : ImportTask(t, p)
  \/ \E h \in Reloaders, k \in tasks : ReloadRead(h, k)
  \/ \E h \in Reloaders : ReloadImport(h) \/ ReloadFails(h)
  \/ \E k \in tasks : RemoveTask(k)

(* The steps of a run's goroutine that wait for nothing but the scheduler.  *)
RunStep(r) ==
  \/ StartProcess(r)
  \/ LaunchFails(r)
  \/ RegisterCancel(r)
  \/ RecordActiveRun(r)
  \/ RefuseStaleRun(r)
  \/ CleanUpStaleRun(r)
  \/ ProcessReaped(r)
  \/ RunCanceled(r)
  \/ ClearActiveRun(r)
  \/ Finish(r)

RunNext(r) ==
  \/ \E t \in TaskIds : Reserve(t, r) \/ ReserveGated(t, r)
  \/ RunStep(r)
  \/ RecordOutput(r)
  \/ ProcessExits(r)
  \/ RunTimesOut(r)
  \/ CleanUpRemoved(r)
  \/ CancelRun(r)
  \/ TerminateRun(r)

Next ==
  \/ RegistryNext
  \/ \E r \in RunIds : RunNext(r)
  \/ BeginShutdown

Spec == Init /\ [][Next]_vars

(* What the Go scheduler owes: a goroutine with a step to take takes it.    *)
(* Neither the script's exit nor the timeout is assumed.                    *)
Scheduled ==
  \A r \in RunIds :
    /\ WF_vars(RunStep(r))
    /\ WF_vars(CleanUpRemoved(r))
    /\ WF_vars(TerminateRun(r))

FairSpec == Spec /\ Scheduled

-------------------------------------------------------------------------------
(* Safety                                                                   *)

HoldsSlot(r) == r \notin gated /\ phase[r] \in Executing \cup {"outcome"}

(* An ID that has been removed at least once.                               *)
WasRemoved(t) == generation[t] > 1

Superseded(r) == phase[r] # "free" /\ runGen[r] # generation[runTask[r]]

(* Whatever imports, removals and reloads interleave, no two entries of     *)
(* Engine.tasks share an ID or a package directory: a reload that resumes   *)
(* after its task was removed and imported anew takes the entry over.       *)
UniqueRegistry ==
  \A a, b \in tasks : a.id = b.id \/ a.pkg = b.pkg => a = b

(* A slot never leaks: the task that holds one was reserved, under its      *)
(* present generation, by a run whose goroutine has not finished.  Were it  *)
(* otherwise, the task would answer ErrTaskAlreadyRunning for ever.         *)
SlotOwned ==
  \A t \in activeRuns : \E r \in RunIds :
    HoldsSlot(r) /\ runTask[r] = t /\ runGen[r] = generation[t]

(* Skip-if-running: as long as an ID has never been removed, two runs of    *)
(* it are never between reserveTaskRun and the end of executeReservedRun    *)
(* at the same time.                                                        *)
SkipIfRunning ==
  \A r, s \in RunIds :
    /\ HoldsSlot(r) /\ HoldsSlot(s)
    /\ runTask[r] = runTask[s]
    /\ ~WasRemoved(runTask[r])
    => r = s

(* The concurrent-run cap bounds the scripts that are really running, not   *)
(* only the size of Engine.activeRuns, for tasks that were never removed.   *)
LoadCapped ==
  Cardinality({r \in RunIds : proc[r] = "alive" /\ ~WasRemoved(runTask[r])})
    <= MaxConcurrentRuns

(* The branch of CancelRun that has no cancel function to call, and which   *)
(* frees a slot and drops the run itself, is never taken: a listed run has  *)
(* registered its cancel function and still waits for its process.          *)
ListedRunsCancelable ==
  \A r \in details : controller[r] = "cancelable" /\ phase[r] \in {"waiting", "finishing"}

(* The active-run list never shows a run of a removed or re-created task,   *)
(* even when the removal falls between cmd.Start and recordActiveRun.       *)
ListedRunsCurrent ==
  \A r \in details : ~Superseded(r)

(* What the slots are for: as long as no reload brings a removed task back, *)
(* scripts of one task do not overlap, and no more of them run than the cap *)
(* allows (reserveTaskRun, executeReservedRun, CancelRun).                  *)
SlotsBoundScripts == SkipIfRunning /\ LoadCapped

(* The active-run list can be acted upon: what it shows can be cancelled,   *)
(* and is no run of a removed task (recordActiveRun, CancelRun, RemoveTask).*)
ListingIsSound == ListedRunsCancelable /\ ListedRunsCurrent

(* The script of a removed task cannot outlive it unnoticed: until it ends, *)
(* either RemoveTask still has to kill it, or its own goroutine will find   *)
(* out in recordActiveRun and kill it there.                                *)
RemovedRunsDoomed ==
  \A r \in RunIds :
    proc[r] = "alive" /\ Superseded(r) =>
      r \in toKill \/ phase[r] \in {"started", "registered", "stale"}

(* Who can reach a running script: the active-run list shows it as a run of *)
(* its task's present registration, or RemoveTask is about to kill it, or   *)
(* its goroutine is between cmd.Start and the end of recordActiveRun.  So   *)
(* the script of a removed task cannot outlive it unnoticed, and the copy   *)
(* that TerminateActiveRuns takes misses runs of that short stretch only.   *)
ScriptsAreReachable ==
  \A r \in RunIds : proc[r] = "alive" =>
    \/ r \in details /\ ~Superseded(r)
    \/ r \in toKill
    \/ phase[r] \in {"started", "registered", "stale"}

(* The history of a task holds finished runs of its present generation      *)
(* only, each once: a run that outlives its task's removal leaves no record *)
(* behind, also when the ID is registered again before the run ends.        *)
HistoryCurrent ==
  \A t \in TaskIds : \A i \in 1..Len(history[t]) :
    LET r == history[t][i] IN
    /\ phase[r] = "done" /\ runTask[r] = t /\ runGen[r] = generation[t]
    /\ \A j \in 1..Len(history[t]) : history[t][j] = r => j = i

-------------------------------------------------------------------------------
(* The abstract specification.  What it promises ends with the removal of a *)
(* task, also when a reload brings its ID back.                             *)

Promised(r) == HoldsSlot(r) /\ ~WasRemoved(runTask[r])

Retired         == {t \in TaskIds : WasRemoved(t)}
SlotHolders     == [t \in TaskIds |-> {r \in RunIds : Promised(r) /\ runTask[r] = t}]
RunningScripts  == {r \in RunIds : proc[r] = "alive" /\ ~WasRemoved(runTask[r])}
PromisedHistory == [t \in TaskIds |-> IF WasRemoved(t) THEN <<>> ELSE history[t]]

Slots == INSTANCE RunSlots WITH
  retired <- Retired, holders <- SlotHolders, scripts <- RunningScripts,
  history <- PromisedHistory

(* The engine's maps, generations and callbacks, however handlers, runs and *)
(* the shutdown interleave, are as good as one atomic slot per task: every  *)
(* step of the engine is a step of RunSlots or changes nothing it shows.    *)
(* In particular no two entries share an ID or a directory, a run takes a   *)
(* free slot only and gives it back once, with its record, when its script  *)
(* has ended (reserveTaskRun, executeReservedRun, CancelRun, importTask).   *)
KeepsSlots == Slots!Spec

-------------------------------------------------------------------------------
(* The inductive invariant, in named parts: what the properties above rest  *)
(* on.                                                                      *)

(* A removed ID keeps its generation, so it is never taken for a fresh one, *)
(* and an ID always names the same package, also inside a pending reload.   *)
RegistryInv ==
  /\ UniqueRegistry
  /\ \A k \in tasks : generation[k.id] # 0
  /\ \A h \in Reloaders : reload[h] # None =>
       /\ generation[reload[h].id] # 0
       /\ \A k \in tasks : k.id = reload[h].id => k = reload[h]
       /\ \A i \in Reloaders :
            reload[i] # None /\ reload[i].id = reload[h].id => reload[i] = reload[h]

(* What a run's program counter says about the run.                         *)
RunInv ==
  \A r \in RunIds :
    /\ phase[r] = "free" => proc[r] = "none" /\ r \notin gated
    /\ phase[r] # "free" =>
         /\ runTask[r] \in TaskIds
         /\ runGen[r] # 0
         /\ runGen[r] <= generation[runTask[r]]
    /\ r \in gated => phase[r] \in {"outcome", "done"}
    /\ proc[r] = "alive" => phase[r] \in {"started", "registered", "stale", "waiting"}
    /\ proc[r] = "alive" /\ phase[r] = "waiting" => r \in details \cup toKill

(* The order RegisterCancel, recordActiveRun, clearActiveRunRecord, as the  *)
(* engine's maps show it.                                                   *)
TrackingInv ==
  /\ \A r \in RunIds : phase[r] = "registered" => controller[r] = "cancelable"
  /\ \A r \in terminating : phase[r] \in {"waiting", "finishing", "outcome", "done"}
  /\ ListedRunsCancelable
  /\ ListedRunsCurrent

(* Who holds a slot.                                                        *)
SlotInv ==
  /\ SlotOwned
  /\ SkipIfRunning
  /\ \A r \in RunIds :
       HoldsSlot(r) /\ ~WasRemoved(runTask[r]) => runTask[r] \in activeRuns
  /\ IsFiniteSet(activeRuns)
  /\ Cardinality(activeRuns) <= MaxConcurrentRuns

IInv == TypeOK /\ RegistryInv /\ RunInv /\ TrackingInv /\ SlotInv /\ HistoryCurrent

(* What the product design says without the proviso of SkipIfRunning: two   *)
(* runs of one task, both of its present registration, never overlap.       *)
NoOverlap ==
  \A r, s \in RunIds :
    /\ proc[r] = "alive" /\ GenerationMatches(r)
    /\ proc[s] = "alive" /\ GenerationMatches(s)
    /\ runTask[r] = runTask[s]
    => r = s

-------------------------------------------------------------------------------
(* Liveness                                                                 *)

(* A run ends, and with SlotOwned gives its slot back, unless its script    *)
(* runs on: whatever becomes of the task meanwhile, no other step of the    *)
(* goroutine waits for something that may not come.                         *)
RunsComplete ==
  \A r \in RunIds :
    (phase[r] \notin {"free", "done"} /\ proc[r] # "alive")
      ~> (phase[r] = "done" \/ proc[r] = "alive")

(* Removing a task kills its script wherever the run is, although the       *)
(* script would never end by itself and its timeout may be far away.        *)
RemovedRunsTerminate ==
  \A r \in RunIds : (proc[r] = "alive" /\ Superseded(r)) ~> (proc[r] = "dead")

(* A cancellation that was accepted reaches the script, without its         *)
(* timeout: it cannot fall between the registration and the select.         *)
CancellationReaches ==
  \A r \in RunIds : (r \in canceled) ~> (proc[r] = "dead")
===============================================================================
