------------------------------- MODULE EnvSetup -------------------------------
(***************************************************************************)
(* Environment setup of managed-venv tasks (internal/core/engine.go,       *)
(* management.go, runner.go): the state a task shows, the background       *)
(* workers that prepare or rebuild the virtual environment, the generation *)
(* that invalidates them, and the lock that serializes those of one task.  *)
(*                                                                         *)
(* Engine.mu makes each handler's critical section one action; a worker    *)
(* holds the setup lock of its task across several.  The environment       *)
(* itself is a directory of the package, .cronplus-venv, with a marker     *)
(* file in it, a copy of the requirements that were installed last.        *)
(***************************************************************************)
EXTENDS Naturals, FiniteSets

CONSTANTS
  TaskIds,   \* task IDs; generateID never returns one twice
  Packages,  \* canonical package directories
  Home,      \* the package each ID is made for
  Workers,   \* bound on the setup goroutines at work at one time
  Checks,    \* diagnostic checks that may be at work at one time
  MaxGen,    \* bound on the setups begun for, or removals of, one ID
  None       \* no task

ASSUME ConstantsAssumption ==
  /\ Home \in [TaskIds -> Packages]
  /\ MaxGen \in Nat
  /\ None \notin TaskIds
  /\ None \notin Workers
  /\ None \notin Packages
  /\ Workers \cap Checks = {}

VARIABLES
  registered, \* IDs in Engine.tasks
  used,       \* IDs that were ever registered
  managed,    \* the strategy of the loaded manifest is managed_venv
  state,      \* task.EnvironmentSetup.State
  envGen,     \* Engine.envSetupGenerations
  active,     \* Engine.activeRuns
  lock,       \* the worker that holds Engine.envSetupLocks[t]
  venv,       \* each package's .cronplus-venv: partial when requirements are missing
  marker,     \* packages whose .cronplus-req-hash equals their requirements
  pc,         \* where a worker is
  task,       \* the worker's taskID
  gen,        \* the worker's generation
  failed,     \* workers whose setup returned an error
  check,      \* what a diagnostic check is doing, and to which package
  outdated,   \* workers and checks whose pip began before the last removal
  undermined  \* history: packages whose environment was spoiled behind its users

registryVars == <<registered, used, managed, state, envGen, active>>
workerVars   == <<pc, task, gen, failed>>
envVars      == <<venv, marker, outdated, undermined>>
vars == <<registered, used, managed, state, envGen, active, lock, venv, marker, pc, task, gen,
          failed, check, outdated, undermined>>

(* Of these, a worker in the positions of Locked holds its task's lock.     *)
Locked    == {"removing", "creating", "installing", "pip", "marking", "finishing"}
Positions == {"idle", "rebuild", "setup", "report"} \cup Locked
CheckAt   == {"idle", "creating", "installing", "pip", "marking"}

IdleCheck == [at |-> "idle", pkg |-> None]

TypeOK ==
  /\ registered \subseteq used
  /\ used \subseteq TaskIds
  /\ managed \in [TaskIds -> BOOLEAN]
  /\ state \in [TaskIds -> {"not_required", "pending", "ready", "failed"}]
  /\ envGen \in [TaskIds -> Nat]
  /\ active \subseteq TaskIds
  /\ lock \in [TaskIds -> Workers \cup {None}]
  /\ venv \in [Packages -> {"absent", "partial", "built"}]
  /\ pc \in [Workers -> Positions]
  /\ task \in [Workers -> TaskIds \cup {None}]
  /\ gen \in [Workers -> Nat]
  /\ failed \subseteq Workers
  /\ marker \subseteq Packages
  /\ check \in [Checks -> [at: CheckAt, pkg: Packages \cup {None}]]
  /\ outdated \subseteq Workers \cup Checks
  /\ undermined \subseteq Packages

-------------------------------------------------------------------------------
(* environmentSetupGenerationMatchesLocked.                                 *)
GenerationMatches(w) ==
  /\ gen[w] # 0
  /\ envGen[task[w]] = gen[w]
  /\ task[w] \in registered

(* beginEnvironmentSetupLocked and the go statement that follows it.        *)
BeginSetup(t, w, at) ==
  /\ pc[w] = "idle"
  /\ envGen[t] < MaxGen
  /\ envGen' = [envGen EXCEPT ![t] = @ + 1]
  /\ pc' = [pc EXCEPT ![w] = at]
  /\ task' = [task EXCEPT ![w] = t]
  /\ gen' = [gen EXCEPT ![w] = envGen[t] + 1]
  /\ failed' = failed \ {w}

(* initialEnvironmentSetup, and what importTask does with it.               *)
Prepare(t, m) ==
  /\ managed' = [managed EXCEPT ![t] = m]
  /\ state' = [state EXCEPT ![t] = IF m THEN "pending" ELSE "not_required"]
  /\ IF m THEN \E w \in Workers : BeginSetup(t, w, "setup")
     ELSE UNCHANGED <<envGen, workerVars>>

Init ==
  /\ registered = {}
  /\ used = {}
  /\ managed = [t \in TaskIds |-> FALSE]
  /\ state = [t \in TaskIds |-> "not_required"]
  /\ envGen = [t \in TaskIds |-> 0]
  /\ active = {}
  /\ lock = [t \in TaskIds |-> None]
  /\ venv \in [Packages -> {"absent", "partial", "built"}]
  /\ pc = [w \in Workers |-> "idle"]
  /\ task = [w \in Workers |-> None]
  /\ gen = [w \in Workers |-> 0]
  /\ failed = {}
  /\ marker \in SUBSET {p \in Packages : venv[p] = "built"}
  /\ check = [c \in Checks |-> IdleCheck]
  /\ outdated = {}
  /\ undermined = {}

-------------------------------------------------------------------------------
(* Requests                                                                 *)

(* importTask on a package that is not registered, with a new ID.           *)
ImportTask(t, m) ==
  /\ t \notin used
  /\ \A u \in registered : Home[u] # Home[t]
  /\ registered' = registered \cup {t}
  /\ used' = used \cup {t}
  /\ Prepare(t, m)
  /\ UNCHANGED <<active, lock, envVars, check>>

(* importTask called by ReloadTask, which found the task some time ago: the *)
(* entry of the package, if there still is one, takes the ID over.          *)
ReloadTask(t, m) ==
  /\ t \in used
  /\ registered' = {u \in registered : Home[u] # Home[t]} \cup {t}
  /\ Prepare(t, m)
  /\ UNCHANGED <<used, active, lock, envVars, check>>

(* RebuildTaskEnvironment.                                                  *)
RebuildTaskEnvironment(t) ==
  /\ t \in registered
  /\ managed[t]
  /\ t \notin active
  /\ state[t] # "pending"
  /\ state' = [state EXCEPT ![t] = "pending"]
  /\ \E w \in Workers : BeginSetup(t, w, "rebuild")
  /\ UNCHANGED <<registered, used, managed, active, lock, envVars, check>>

(* RemoveTask: the workers of the task become stale.                        *)
RemoveTask(t) ==
  /\ t \in registered
  /\ envGen[t] < MaxGen
  /\ registered' = registered \ {t}
  /\ active' = active \ {t}
  /\ envGen' = [envGen EXCEPT ![t] = @ + 1]
  /\ UNCHANGED <<used, managed, state, lock, envVars, workerVars, check>>

(* reserveTaskRun and the end of the run, as far as the environment goes.   *)
StartRun(t) ==
  /\ t \in registered
  /\ t \notin active
  /\ managed[t] => state[t] \notin {"pending", "failed"}
  /\ active' = active \cup {t}
  /\ UNCHANGED <<registered, used, managed, state, envGen, lock, envVars, workerVars, check>>

EndRun(t) ==
  /\ t \in active
  /\ active' = active \ {t}
  /\ UNCHANGED <<registered, used, managed, state, envGen, lock, envVars, workerVars, check>>

-------------------------------------------------------------------------------
(* The background worker                                                    *)

Goto(w, from, to) ==
  /\ pc[w] = from
  /\ pc' = [pc EXCEPT ![w] = to]

(* setupLock.Lock, then the check of the generation: a stale worker unlocks *)
(* and returns.                                                             *)
TakeLock(w, from, to) ==
  /\ pc[w] = from
  /\ lock[task[w]] = None
  /\ IF GenerationMatches(w)
     THEN /\ Goto(w, from, to)
          /\ lock' = [lock EXCEPT ![task[w]] = w]
     ELSE /\ Goto(w, from, "idle")
          /\ UNCHANGED lock
  /\ UNCHANGED <<registryVars, envVars, task, gen, failed, check>>

(* rebuildEnvironmentSetup begins.                                          *)
RebuildLocks(w) == TakeLock(w, "rebuild", "removing")

(* What becomes of the environment v and of the marker when p is removed by *)
(* w.  An install under way does not notice.                                *)
Removal(w, p, v, keeps) ==
  /\ venv' = [venv EXCEPT ![p] = v]
  /\ marker' = IF keeps THEN marker ELSE marker \ {p}
  /\ outdated' = outdated
       \cup {x \in Workers : pc[x] \in {"pip", "marking"} /\ Home[task[x]] = p}
       \cup {c \in Checks : check[c].at \in {"pip", "marking"} /\ check[c].pkg = p}
  /\ undermined' =
       IF /\ v # "built"
          /\ p \in marker' \/ \E u \in registered : u # task[w] /\ Home[u] = p
       THEN undermined \cup {p} ELSE undermined \ {p}

(* Mutant: the rebuild calls runEnvironmentSetup with the lock in its hand.  *)
RemoveAllKeepsLock(w) ==
  /\ Goto(w, "removing", "setup")
  /\ Removal(w, Home[task[w]], "absent", FALSE)
  /\ lock' = lock
  /\ UNCHANGED <<registryVars, task, gen, failed, check>>

(* os.RemoveAll succeeds; the lock is released, and runEnvironmentSetup     *)
(* has to take it again.                                                    *)
RemoveAll(w) ==
  /\ Goto(w, "removing", "setup")
  /\ Removal(w, Home[task[w]], "absent", FALSE)
  /\ lock' = [lock EXCEPT ![task[w]] = None]
  /\ UNCHANGED <<registryVars, task, gen, failed, check>>

(* os.RemoveAll fails, having removed some files, in any order, or none.    *)
RemoveAllFails(w) ==
  LET p == Home[task[w]] IN
  /\ Goto(w, "removing", "report")
  /\ \E v \in {venv[p], "partial", "absent"}, keeps \in BOOLEAN :
       /\ venv[p] = "absent" => v = "absent"
       /\ Removal(w, p, v, keeps)
  /\ lock' = [lock EXCEPT ![task[w]] = None]
  /\ failed' = failed \cup {w}
  /\ UNCHANGED <<registryVars, task, gen, check>>

(* runEnvironmentSetup begins.                                              *)
SetupLocks(w) == TakeLock(w, "setup", "creating")

(* ensureManagedVenv, for a worker or a check: the environment is created   *)
(* unless its interpreter is there; a failed creation may leave the         *)
(* interpreter behind.                                                      *)
Created(p) == venv' = [venv EXCEPT ![p] = IF @ = "absent" THEN "partial" ELSE @]

CreationFails(p) ==
  /\ venv[p] = "absent"
  /\ \E v \in {"absent", "partial"} : venv' = [venv EXCEPT ![p] = v]

(* pip install succeeds.  In an environment that was removed meanwhile it   *)
(* leaves what it had still to write, perhaps nothing.                      *)
PipSucceeds(x, p) ==
  /\ \/ x \in outdated /\ UNCHANGED venv
     \/ venv' = [venv EXCEPT ![p] = IF @ = "absent" THEN @ ELSE "built"]
  /\ UNCHANGED <<marker, outdated, undermined>>

(* The marker is written, whichever environment the directory now holds.    *)
WriteMarker(x, p) ==
  /\ marker' = marker \cup {p}
  /\ undermined' = IF x \in outdated /\ venv[p] # "built" THEN undermined \cup {p}
                   ELSE undermined
  /\ UNCHANGED <<venv, outdated>>

Create(w) ==
  LET p == Home[task[w]] IN
  /\ \/ /\ Goto(w, "creating", "installing")
        /\ Created(p)
        /\ UNCHANGED failed
     \/ /\ Goto(w, "creating", "finishing")
        /\ CreationFails(p)
        /\ failed' = failed \cup {w}
  /\ UNCHANGED <<registryVars, lock, marker, task, gen, check, outdated, undermined>>

(* installRequirements: nothing to do when the marker says so, otherwise    *)
(* pip starts, where it can be found.                                       *)
Install(w) ==
  LET p == Home[task[w]] IN
  /\ \/ /\ Goto(w, "installing", "finishing")
        /\ p \in marker
        /\ UNCHANGED <<failed, outdated>>
     \/ /\ Goto(w, "installing", "pip")
        /\ p \notin marker /\ venv[p] # "absent"
        /\ outdated' = outdated \ {w}
        /\ UNCHANGED failed
     \/ /\ Goto(w, "installing", "finishing")
        /\ p \notin marker /\ venv[p] = "absent"
        /\ failed' = failed \cup {w}
        /\ UNCHANGED outdated
  /\ UNCHANGED <<registryVars, lock, venv, marker, task, gen, check, undermined>>

(* Mutant: the result of pip install is ignored.                            *)
PipIgnoresErrors(w) ==
  /\ Goto(w, "pip", "marking")
  /\ PipSucceeds(w, Home[task[w]]) \/ UNCHANGED envVars
  /\ UNCHANGED <<registryVars, lock, task, gen, failed, check>>

(* pip installs the requirements, or fails or runs into the setup timeout.  *)
Pip(w) ==
  /\ \/ /\ Goto(w, "pip", "marking")
        /\ PipSucceeds(w, Home[task[w]])
        /\ UNCHANGED failed
     \/ /\ Goto(w, "pip", "finishing")
        /\ failed' = failed \cup {w}
        /\ UNCHANGED envVars
  /\ UNCHANGED <<registryVars, lock, task, gen, check>>

(* os.WriteFile of the marker: an error is an error of the setup.           *)
Mark(w) ==
  /\ Goto(w, "marking", "finishing")
  /\ \/ WriteMarker(w, Home[task[w]]) /\ UNCHANGED failed
     \/ failed' = failed \cup {w} /\ UNCHANGED envVars
  /\ UNCHANGED <<registryVars, lock, task, gen, check>>

(* The state that the result of the setup stands for.                       *)
Outcome(w) == IF w \in failed THEN "failed" ELSE "ready"

(* Mutant: the result of a stale worker is stored.                          *)
StoreUnchecked(w) ==
  /\ state' = [state EXCEPT ![task[w]] = Outcome(w)]
  /\ UNCHANGED <<registered, used, managed, envGen, active>>

(* The state a worker stores, unless it became stale meanwhile.             *)
Store(w) ==
  /\ state' = IF GenerationMatches(w) THEN [state EXCEPT ![task[w]] = Outcome(w)] ELSE state
  /\ UNCHANGED <<registered, used, managed, envGen, active>>

(* The last critical section of runEnvironmentSetup, and its unlock.        *)
FinishSetup(w) ==
  /\ Goto(w, "finishing", "idle")
  /\ Store(w)
  /\ lock' = [lock EXCEPT ![task[w]] = None]
  /\ UNCHANGED <<envVars, task, gen, failed, check>>

(* finishEnvironmentSetup, after a removal that failed: no lock is held.    *)
ReportFailure(w) ==
  /\ Goto(w, "report", "idle")
  /\ Store(w)
  /\ UNCHANGED <<lock, envVars, task, gen, failed, check>>

-------------------------------------------------------------------------------
(* Diagnostic checks: CheckTaskPackage calls EnsureEnvironment on its own,  *)
(* without the lock and whether or not the package is registered.           *)

BeginCheck(c, p) ==
  /\ check[c].at = "idle"
  /\ check' = [check EXCEPT ![c] = [at |-> "creating", pkg |-> p]]
  /\ UNCHANGED <<registryVars, lock, envVars, workerVars>>

CheckCreates(c) ==
  LET p == check[c].pkg IN
  /\ check[c].at = "creating"
  /\ \/ /\ check' = [check EXCEPT ![c].at = "installing"]
        /\ Created(p)
     \/ /\ check' = [check EXCEPT ![c] = IdleCheck]
        /\ CreationFails(p)
  /\ UNCHANGED <<registryVars, lock, marker, workerVars, outdated, undermined>>

CheckInstalls(c) ==
  LET p == check[c].pkg
      starts == p \notin marker /\ venv[p] # "absent" IN
  /\ check[c].at = "installing"
  /\ IF starts THEN check' = [check EXCEPT ![c].at = "pip"] /\ outdated' = outdated \ {c}
     ELSE check' = [check EXCEPT ![c] = IdleCheck] /\ UNCHANGED outdated
  /\ UNCHANGED <<registryVars, lock, venv, marker, workerVars, undermined>>

CheckPip(c) ==
  /\ check[c].at = "pip"
  /\ \/ check' = [check EXCEPT ![c].at = "marking"] /\ PipSucceeds(c, check[c].pkg)
     \/ check' = [check EXCEPT ![c] = IdleCheck] /\ UNCHANGED envVars
  /\ UNCHANGED <<registryVars, lock, workerVars>>

CheckMarks(c) ==
  /\ check[c].at = "marking"
  /\ check' = [check EXCEPT ![c] = IdleCheck]
  /\ WriteMarker(c, check[c].pkg) \/ UNCHANGED envVars
  /\ UNCHANGED <<registryVars, lock, workerVars>>

-------------------------------------------------------------------------------
WorkerStep(w) ==
  \/ RebuildLocks(w)
  \/ RemoveAll(w)
  \/ RemoveAllFails(w)
  \/ SetupLocks(w)
  \/ Create(w)
  \/ Install(w)
  \/ Pip(w)
  \/ Mark(w)
  \/ FinishSetup(w)
  \/ ReportFailure(w)

Request(t) ==
  \/ \E m \in BOOLEAN : ImportTask(t, m) \/ ReloadTask(t, m)
  \/ RebuildTaskEnvironment(t)
  \/ RemoveTask(t)
  \/ StartRun(t)
  \/ EndRun(t)

CheckNext(c) ==
  \/ \E p \in Packages : BeginCheck(c, p)
  \/ CheckCreates(c)
  \/ CheckInstalls(c)
  \/ CheckPip(c)
  \/ CheckMarks(c)

Next ==
  \/ \E t \in TaskIds : Request(t)
  \/ \E w \in Workers : WorkerStep(w)
  \/ \E c \in Checks : CheckNext(c)

Spec == Init /\ [][Next]_vars

(* Goroutines go on; sync.Mutex hands the lock to a waiter eventually, and  *)
(* the commands a worker runs end, by their timeout at the latest.          *)
FairSpec == Spec /\ \A w \in Workers : SF_vars(WorkerStep(w))

-------------------------------------------------------------------------------
(* Properties                                                               *)

Working(w) == pc[w] # "idle"

(* A task says ready only while its environment really is complete: neither *)
(* a rebuild overtaken by a reload, nor a worker of an earlier generation,  *)
(* nor a diagnostic check that installs beside a worker spoils it.  This is *)
(* what lets reserveTaskRun start a script by looking at the state alone.   *)
(* The lock belongs to the task ID and a check takes none, so what happens  *)
(* behind the users of an environment is excepted, until the next removal:  *)
(* a marker written by an install that began before a removal, a removal    *)
(* that failed and left the marker, and one by the worker of another ID.    *)
ReadyMeansBuilt ==
  \A t \in registered : managed[t] /\ state[t] = "ready" /\ Home[t] \notin undermined =>
    venv[Home[t]] = "built"

(* Without the exceptions the code does not keep it: see env_reimport.cfg   *)
(* and env_check.cfg.                                                       *)
ReadyIsBuilt ==
  \A t \in registered : managed[t] /\ state[t] = "ready" => venv[Home[t]] = "built"

(* A pending task always has a worker that will settle it: no interleaving  *)
(* of reloads, rebuilds and removals leaves it pending with nobody at work, *)
(* where neither a run nor a rebuild would be accepted any more.            *)
PendingHasWorker ==
  \A t \in registered : managed[t] /\ state[t] = "pending" =>
    \E w \in Workers : Working(w) /\ task[w] = t /\ GenerationMatches(w)

(* A settled task is not settled a second time: when a managed task is      *)
(* ready or failed, no worker of its present generation is left.            *)
SettledOnce ==
  \A t \in registered : managed[t] /\ state[t] \in {"ready", "failed"} =>
    \A w \in Workers : Working(w) /\ task[w] = t => ~GenerationMatches(w)

(* Workers and states belong together, whatever requests come in between:   *)
(* a pending task has a worker of its generation, a settled one has none.   *)
WorkersMatchState == PendingHasWorker /\ SettledOnce

(* A pending setup ends, unless the task is removed or loaded anew.         *)
SetupSettles ==
  \A t \in TaskIds :
    (t \in registered /\ managed[t] /\ state[t] = "pending")
      ~> (t \notin registered \/ ~managed[t] \/ state[t] # "pending")
===============================================================================
