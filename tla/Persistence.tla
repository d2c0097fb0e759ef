------------------------------ MODULE Persistence ------------------------------
(***************************************************************************)
(* What reaches the SQLite file and what comes back from it                *)
(* (internal/core/engine.go RestoreState, PersistState; internal/store;    *)
(* main.go).                                                               *)
(*                                                                         *)
(* PersistState copies the engine's memory under Engine.mu.RLock and keeps *)
(* that lock while Store.Save rewrites the whole file in one transaction.  *)
(* Everybody who changes the memory saves it afterwards, in a step of his  *)
(* own: request handlers before they answer, the goroutine of a run three  *)
(* times, the environment setup when it settles, and main at startup.  The *)
(* daemon may die between any two steps; scripts survive it, in process    *)
(* groups of their own.                                                    *)
(*                                                                         *)
(* Of the persisted state, the registered tasks, the listed runs and the   *)
(* run history are modelled.  Profiles, settings, switches and the command *)
(* log are changed and saved the same way.                                 *)
(***************************************************************************)
EXTENDS Naturals, FiniteSets

CONSTANTS
  TaskIds,      \* task IDs; generateID never returns one twice
  Managed,      \* tasks whose import starts an environment setup
  Fragile,      \* tasks whose manifest may be unreadable when the daemon starts
  RunIds,       \* run IDs
  Handlers,     \* requests that may be at work at one time
  Main,         \* the main goroutine
  LoadMayFail,  \* whether Store.Load may return an error
  MaxCrashes,   \* bound on the crashes
  None          \* no snapshot, no task

ASSUME ConstantsAssumption ==
  /\ Managed \subseteq TaskIds
  /\ Fragile \subseteq TaskIds
  /\ LoadMayFail \in BOOLEAN
  /\ MaxCrashes \in Nat
  /\ Main \notin TaskIds \cup RunIds \cup Handlers
  /\ TaskIds \cap RunIds = {} /\ TaskIds \cap Handlers = {} /\ RunIds \cap Handlers = {}
  /\ None \notin TaskIds
  /\ None \notin [tasks: SUBSET TaskIds, active: SUBSET RunIds, history: SUBSET RunIds]

VARIABLES
  mem,      \* the persisted part of the engine: tasks, activeRunDetails, runHistory
  disk,     \* what the SQLite file holds
  pc,       \* where each goroutine is
  snap,     \* the copy a goroutine inside PersistState is saving
  alive,    \* the runs whose script is running
  runTask,  \* the task of each run
  stale,    \* runs whose task was removed since they were reserved
  victims,  \* runs a RemoveTask collected and has not killed yet
  request,  \* the task a handler imports or reloads
  used,     \* task IDs that were ever registered
  todo,     \* persisted tasks RestoreState has not come to yet
  toClean,  \* persisted runs RestoreState has not cleaned up yet
  crashes,
  (* Bookkeeping of the properties: no action depends on it.               *)
  acknowledged, \* tasks and records whose save succeeded, for this process
  wanted,       \* tasks whose import was answered and whose removal not asked for
  unlisted,     \* runs whose first save failed, with no successful one since
  missed        \* runs that were alive and not on disk when a daemon died

ghostVars   == <<acknowledged, wanted, unlisted, missed>>
startVars   == <<todo, toClean>>
requestVars == <<victims, request, used>>
runVars     == <<alive, runTask, stale>>
vars == <<mem, disk, pc, snap, alive, runTask, stale, victims, request, used, todo,
          toClean, crashes, acknowledged, wanted, unlisted, missed>>

State == [tasks: SUBSET TaskIds, active: SUBSET RunIds, history: SUBSET RunIds]
Empty == [tasks |-> {}, active |-> {}, history |-> {}]

(* The setup goroutine of a task goes by the task's ID.                     *)
Goroutines == Handlers \cup RunIds \cup TaskIds \cup {Main}

(* From each of these a goroutine calls PersistState, to go on at After.    *)
SavePoints == {"changed", "recorded", "cleared", "stored", "settled", "restored", "begun"}

After(p) ==
  CASE p = "changed"  -> "idle"
    [] p = "recorded" -> "waiting"
    [] p = "cleared"  -> "outcome"
    [] p = "stored"   -> "done"
    [] p = "settled"  -> "idle"
    [] p = "restored" -> "begun"
    [] p = "begun"    -> "serving"

RunPositions ==
  {"free", "started", "stale", "recorded", "waiting", "cleared", "outcome", "stored",
   "done", "gone"}

TypeOK ==
  /\ mem \in State
  /\ disk \in State
  /\ \A h \in Handlers : pc[h] \in {"idle", "kill", "reload", "changed"}
  /\ \A r \in RunIds : pc[r] \in RunPositions
  /\ \A t \in TaskIds : pc[t] \in {"idle", "setup", "settled"}
  /\ pc[Main] \in {"down", "cleaning", "restoring", "restored", "begun", "serving"}
  /\ snap \in [Goroutines -> State \cup {None}]
  /\ \A c \in Goroutines : snap[c] # None => pc[c] \in SavePoints
  /\ alive \subseteq RunIds
  /\ runTask \in [RunIds -> TaskIds \cup {None}]
  /\ stale \subseteq RunIds
  /\ victims \in [Handlers -> SUBSET RunIds]
  /\ request \in [Handlers -> TaskIds \cup {None}]
  /\ used \subseteq TaskIds
  /\ todo \subseteq TaskIds
  /\ toClean \subseteq RunIds
  /\ crashes \in 0..MaxCrashes
  /\ acknowledged \subseteq TaskIds \cup RunIds
  /\ wanted \subseteq TaskIds
  /\ unlisted \subseteq RunIds
  /\ missed \subseteq RunIds

-------------------------------------------------------------------------------
Goto(c, from, to) ==
  /\ pc[c] = from
  /\ pc' = [pc EXCEPT ![c] = to]

Serving   == pc[Main] = "serving"
Restoring == pc[Main] \in {"cleaning", "restoring"}

(* Mutant: PersistState releases Engine.mu before it calls Store.Save.      *)
UnlockedDuringSave == TRUE

(* Engine.mu.Lock can be had: no PersistState holds the read lock.          *)
Unlocked == \A c \in Goroutines : snap[c] = None

RunsOf(t) == {r \in RunIds : runTask[r] = t}

(* Runs in progress, those between reserveTaskRun and its end.              *)
InProgress(r) == pc[r] \notin {"free", "done", "gone"}

Init ==
  /\ mem = Empty
  /\ disk = Empty
  /\ pc = [c \in Goroutines |-> CASE c = Main     -> "serving"
                                  [] c \in RunIds -> "free"
                                  [] OTHER        -> "idle"]
  /\ snap = [c \in Goroutines |-> None]
  /\ alive = {}
  /\ runTask = [r \in RunIds |-> None]
  /\ stale = {}
  /\ victims = [h \in Handlers |-> {}]
  /\ request = [h \in Handlers |-> None]
  /\ used = {}
  /\ todo = {}
  /\ toClean = {}
  /\ crashes = 0
  /\ acknowledged = {}
  /\ wanted = {}
  /\ unlisted = {}
  /\ missed = {}

-------------------------------------------------------------------------------
(* PersistState, called by any goroutine                                    *)

(* RLock, and the copy of the memory.                                       *)
BeginSave(c) ==
  /\ pc[c] \in SavePoints
  /\ snap[c] = None
  /\ snap' = [snap EXCEPT ![c] = mem]
  /\ UNCHANGED <<mem, disk, pc, runVars, requestVars, startVars, crashes, ghostVars>>

(* What the caller learns from a successful save: a handler answers that    *)
(* its task is there, and a run's record is kept.                           *)
Learned(c) ==
  IF c \in Handlers THEN {request[c]} \cap mem.tasks
  ELSE IF c \in RunIds /\ pc[c] = "stored" THEN {c} \cap mem.history
  ELSE {}

(* The transaction commits, and the lock is released.                       *)
Saved(c) ==
  /\ snap[c] # None
  /\ disk' = snap[c]
  /\ snap' = [snap EXCEPT ![c] = None]
  /\ pc' = [pc EXCEPT ![c] = After(@)]
  /\ request' = [h \in Handlers |-> IF h = c THEN None ELSE request[h]]
  /\ acknowledged' = acknowledged \cup Learned(c)
  /\ wanted' = wanted \cup (Learned(c) \cap TaskIds)
  /\ unlisted' = {}
  /\ UNCHANGED <<mem, runVars, victims, used, startVars, crashes, missed>>

(* The transaction fails and is rolled back: a handler answers with an      *)
(* error, everybody else logs it.                                           *)
SaveFails(c) ==
  /\ snap[c] # None
  /\ snap' = [snap EXCEPT ![c] = None]
  /\ pc' = [pc EXCEPT ![c] = After(@)]
  /\ request' = [h \in Handlers |-> IF h = c THEN None ELSE request[h]]
  /\ unlisted' = IF pc[c] = "recorded" THEN unlisted \cup {c} ELSE unlisted
  /\ UNCHANGED <<mem, disk, runVars, victims, used, startVars, crashes, acknowledged,
                 wanted, missed>>

-------------------------------------------------------------------------------
(* Requests: a handler changes the memory, then saves it                    *)

(* The go statement of importTask.                                          *)
StartSetup(t, f) == IF t \in Managed /\ f[t] = "idle" THEN [f EXCEPT ![t] = "setup"] ELSE f

ImportTask(h, t) ==
  /\ Serving /\ Unlocked
  /\ pc[h] = "idle"
  /\ t \notin used
  /\ mem' = [mem EXCEPT !.tasks = @ \cup {t}]
  /\ used' = used \cup {t}
  /\ request' = [request EXCEPT ![h] = t]
  /\ pc' = StartSetup(t, [pc EXCEPT ![h] = "changed"])
  /\ UNCHANGED <<disk, snap, runVars, victims, startVars, crashes, ghostVars>>

(* ReloadTask up to RUnlock.                                                *)
ReloadRead(h, t) ==
  /\ Serving
  /\ t \in mem.tasks
  /\ Goto(h, "idle", "reload")
  /\ request' = [request EXCEPT ![h] = t]
  /\ UNCHANGED <<mem, disk, snap, runVars, victims, used, startVars, crashes, ghostVars>>

(* importTask called by ReloadTask: it registers the task again if it was   *)
(* removed meanwhile.                                                       *)
ReloadImport(h) ==
  LET t == request[h] IN
  /\ Unlocked
  /\ pc[h] = "reload"
  /\ mem' = [mem EXCEPT !.tasks = @ \cup {t}]
  /\ pc' = StartSetup(t, [pc EXCEPT ![h] = "changed"])
  /\ UNCHANGED <<disk, snap, runVars, requestVars, startVars, crashes, ghostVars>>

ReloadFails(h) ==
  /\ Goto(h, "reload", "idle")
  /\ request' = [request EXCEPT ![h] = None]
  /\ UNCHANGED <<mem, disk, snap, runVars, victims, used, startVars, crashes, ghostVars>>

(* The critical section of RemoveTask.                                      *)
RemoveTask(h, t) ==
  /\ Serving /\ Unlocked
  /\ t \in mem.tasks
  /\ Goto(h, "idle", "kill")
  /\ mem' = [tasks |-> mem.tasks \ {t}, active |-> mem.active \ RunsOf(t),
             history |-> mem.history \ RunsOf(t)]
  /\ victims' = [victims EXCEPT ![h] = mem.active \cap RunsOf(t)]
  /\ stale' = stale \cup {r \in RunsOf(t) : InProgress(r)}
  /\ acknowledged' = acknowledged \ ({t} \cup RunsOf(t))
  /\ wanted' = wanted \ {t}
  /\ UNCHANGED <<disk, snap, alive, runTask, request, used, startVars, crashes, unlisted,
                 missed>>

(* The rest of RemoveTask: its runs are killed, which may take seconds.     *)
KillVictims(h) ==
  /\ Goto(h, "kill", "changed")
  /\ alive' = alive \ victims[h]
  /\ victims' = [victims EXCEPT ![h] = {}]
  /\ UNCHANGED <<mem, disk, snap, runTask, stale, request, used, startVars, crashes,
                 ghostVars>>

-------------------------------------------------------------------------------
(* The goroutine of a run                                                   *)

(* reserveTaskRun, up to cmd.Start.                                         *)
StartRun(r, t) ==
  /\ Serving
  /\ t \in mem.tasks
  /\ \A s \in RunsOf(t) : InProgress(s) => s \in stale
  /\ Goto(r, "free", "started")
  /\ runTask' = [runTask EXCEPT ![r] = t]
  /\ alive' = alive \cup {r}
  /\ UNCHANGED <<mem, disk, snap, stale, requestVars, startVars, crashes, ghostVars>>

(* recordActiveRun.                                                         *)
RecordActiveRun(r) ==
  /\ Unlocked
  /\ Goto(r, "started", IF r \in stale THEN "stale" ELSE "recorded")
  /\ mem' = [mem EXCEPT !.active = IF r \in stale THEN @ ELSE @ \cup {r}]
  /\ UNCHANGED <<disk, snap, runVars, requestVars, startVars, crashes, ghostVars>>

CleanUpStaleRun(r) ==
  /\ Goto(r, "stale", "waiting")
  /\ alive' = alive \ {r}
  /\ UNCHANGED <<mem, disk, snap, runTask, stale, requestVars, startVars, crashes,
                 ghostVars>>

(* The script ends: by itself, by its timeout or by a cancellation.  Only   *)
(* the first can happen when its daemon is dead.                            *)
ScriptEnds(r) ==
  /\ r \in alive
  /\ alive' = alive \ {r}
  /\ UNCHANGED <<mem, disk, pc, snap, runTask, stale, requestVars, startVars, crashes,
                 ghostVars>>

(* The wait for the process returns, and clearActiveRunRecord drops the run.*)
ClearActiveRun(r) ==
  /\ Unlocked
  /\ r \notin alive
  /\ Goto(r, "waiting", "cleared")
  /\ mem' = [mem EXCEPT !.active = @ \ {r}]
  /\ UNCHANGED <<disk, snap, runVars, requestVars, startVars, crashes, ghostVars>>

(* The last critical section of executeReservedRun.                         *)
StoreRecord(r) ==
  /\ Unlocked
  /\ Goto(r, "outcome", "stored")
  /\ mem' = [mem EXCEPT !.history = IF r \in stale THEN @ ELSE @ \cup {r}]
  /\ UNCHANGED <<disk, snap, runVars, requestVars, startVars, crashes, ghostVars>>

(* The environment of the task is settled; a setup whose task was removed   *)
(* ends without saving.                                                     *)
SetupSettles(t) ==
  /\ Unlocked
  /\ Goto(t, "setup", IF t \in mem.tasks THEN "settled" ELSE "idle")
  /\ UNCHANGED <<mem, disk, snap, runVars, requestVars, startVars, crashes, ghostVars>>

-------------------------------------------------------------------------------
(* Death and restart of the daemon                                          *)

(* Handlers, runs and setups die with the daemon; scripts do not.  A save   *)
(* that was under way has committed or leaves no trace.                     *)
Crash ==
  /\ pc[Main] # "down"
  /\ crashes < MaxCrashes
  /\ crashes' = crashes + 1
  /\ mem' = Empty
  /\ pc' = [c \in Goroutines |-> CASE c = Main     -> "down"
                                   [] c \in RunIds -> IF InProgress(c) THEN "gone" ELSE pc[c]
                                   [] OTHER        -> "idle"]
  /\ snap' = [c \in Goroutines |-> None]
  /\ victims' = [h \in Handlers |-> {}]
  /\ request' = [h \in Handlers |-> None]
  /\ todo' = {}
  /\ toClean' = {}
  /\ unlisted' = {}
  /\ missed' = missed \cup (alive \ disk.active)
  /\ UNCHANGED <<disk, alive, runTask, stale, used, acknowledged, wanted>>

(* RestoreState reads the file and takes the history over.  It remembers    *)
(* whether there are listed runs to clean up.                               *)
Load ==
  /\ Goto(Main, "down", IF disk.active = {} THEN "restoring" ELSE "cleaning")
  /\ mem' = [Empty EXCEPT !.history = disk.history]
  /\ todo' = disk.tasks
  /\ toClean' = disk.active
  /\ acknowledged' = acknowledged \cap RunIds
  /\ UNCHANGED <<disk, snap, runVars, requestVars, crashes, wanted, unlisted, missed>>

(* The file cannot be read: the daemon serves without it.                   *)
LoadFails ==
  /\ LoadMayFail
  /\ Goto(Main, "down", "serving")
  /\ acknowledged' = {}
  /\ missed' = missed \cup alive
  /\ UNCHANGED <<mem, disk, snap, runVars, requestVars, startVars, crashes, wanted, unlisted>>

(* cleanupPersistedActiveRuns.                                              *)
CleanListedRun(r) ==
  /\ r \in toClean
  /\ toClean' = toClean \ {r}
  /\ alive' = alive \ {r}
  /\ UNCHANGED <<mem, disk, pc, snap, runTask, stale, requestVars, todo, crashes, ghostVars>>

(* Mutant: the tasks are registered before the scripts are cleaned up.      *)
RestoreTaskEarly(t) ==
  /\ Restoring
  /\ t \in todo
  /\ Unlocked
  /\ todo' = todo \ {t}
  /\ mem' = [mem EXCEPT !.tasks = @ \cup {t}]
  /\ pc' = StartSetup(t, pc)
  /\ UNCHANGED <<disk, snap, runVars, requestVars, toClean, crashes, ghostVars>>

(* importTask called by RestoreState.                                       *)
RestoreTask(t) ==
  /\ Restoring
  /\ toClean = {}
  /\ t \in todo
  /\ Unlocked
  /\ todo' = todo \ {t}
  /\ mem' = [mem EXCEPT !.tasks = @ \cup {t}]
  /\ pc' = StartSetup(t, pc)
  /\ UNCHANGED <<disk, snap, runVars, requestVars, toClean, crashes, ghostVars>>

(* importTask fails; RestoreState logs it and goes on.                      *)
RestoreFails(t) ==
  /\ Restoring
  /\ toClean = {}
  /\ t \in todo \cap Fragile
  /\ todo' = todo \ {t}
  /\ UNCHANGED <<mem, disk, pc, snap, runVars, requestVars, toClean, crashes, ghostVars>>

(* RestoreState saves if there were runs to clean up, and main saves anyway.*)
RestoreEnds ==
  /\ toClean = {} /\ todo = {}
  /\ Goto(Main, "cleaning", "restored") \/ Goto(Main, "restoring", "begun")
  /\ UNCHANGED <<mem, disk, snap, runVars, requestVars, startVars, crashes, ghostVars>>

-------------------------------------------------------------------------------
HandlerNext(h) ==
  \/ \E t \in TaskIds : ImportTask(h, t) \/ ReloadRead(h, t) \/ RemoveTask(h, t)
  \/ ReloadImport(h)
  \/ ReloadFails(h)
  \/ KillVictims(h)

RunNext(r) ==
  \/ \E t \in TaskIds : StartRun(r, t)
  \/ RecordActiveRun(r)
  \/ CleanUpStaleRun(r)
  \/ ScriptEnds(r)
  \/ ClearActiveRun(r)
  \/ StoreRecord(r)

RestoreNext ==
  \/ Load
  \/ LoadFails
  \/ \E r \in RunIds : CleanListedRun(r)
  \/ \E t \in TaskIds : RestoreTask(t) \/ RestoreFails(t)
  \/ RestoreEnds

Next ==
  \/ \E c \in Goroutines : BeginSave(c) \/ Saved(c) \/ SaveFails(c)
  \/ \E h \in Handlers : HandlerNext(h)
  \/ \E r \in RunIds : RunNext(r)
  \/ \E t \in TaskIds : SetupSettles(t)
  \/ RestoreNext
  \/ Crash

Spec == Init /\ [][Next]_vars

-------------------------------------------------------------------------------
(* Properties                                                               *)

(* Whoever saves, and however many goroutines save at a time: what reaches  *)
(* the file is the memory as it is at that moment.  So an old copy never    *)
(* overwrites a newer one, and a save makes good an earlier one that failed.*)
SavesAreExact == [][disk' # disk => disk' = mem]_vars

(* The abstract specification, by what the file, the memory and the runs    *)
(* show of it.                                                              *)
Live == {r \in RunIds : InProgress(r) /\ r \notin stale}

Store == INSTANCE DurableStore WITH
  memory <- mem, file <- disk, promised <- acknowledged, live <- Live,
  owner <- runTask, up <- pc[Main] # "down"

(* Whoever saves, whatever changes meanwhile and whenever the daemon dies,  *)
(* PersistState is as good as one atomic copy of the memory: every step is  *)
(* a step of DurableStore or changes nothing it shows.  In particular an    *)
(* old copy never overwrites a newer one, a promise once given is broken by *)
(* a removal only, and no run of a removed task gets back into the memory   *)
(* (PersistState, RestoreState, recordActiveRun, executeReservedRun).       *)
SavesAreAtomic == Store!Spec

(* A task whose import or reload was answered with success, and the record  *)
(* of a run whose last save succeeded, are on disk from then on, at every   *)
(* moment the daemon may die, until the task is removed; records also       *)
(* survive the restart.                                                     *)
AcknowledgedIsDurable == acknowledged \subseteq disk.tasks \cup disk.history

(* The steps in which a script runs that the file need not list yet, or not *)
(* any more.                                                                *)
InTransit(r) ==
  \/ pc[r] \in {"started", "stale", "recorded"}
  \/ \E h \in Handlers : r \in victims[h]
  \/ r \in unlisted

(* Every script that runs is listed in the file, where the next start of    *)
(* the daemon finds and kills it, unless the daemon died (or its save       *)
(* failed) in one of a few steps.  In particular nothing that saves during  *)
(* the restart makes the file forget a script that has not been killed yet. *)
ScriptsAreAccountedFor ==
  \A r \in alive : r \in disk.active \/ r \in missed \/ InTransit(r)

(* "State restored on daemon restart": after the restart every task is      *)
(* registered whose import was answered and whose removal nobody asked for. *)
TasksSurvive == Serving => wanted \subseteq mem.tasks
===============================================================================
