---------------------------- MODULE EnvSetupProofs ----------------------------
(***************************************************************************)
(* The background workers and the states of the tasks they set up, for any *)
(* number of tasks, workers, checks and generations.                       *)
(***************************************************************************)
EXTENDS EnvSetup, TLAPS

(* A worker at work is one of a generation begun for its task.              *)
WorkersHaveTasks ==
  \A w \in Workers : Working(w) =>
    task[w] \in TaskIds /\ gen[w] \in 1..envGen[task[w]]

OneWorkerPerGeneration ==
  \A w, x \in Workers :
    Working(w) /\ Working(x) /\ task[w] = task[x] /\ gen[w] = gen[x] => w = x

(* The setup lock of a task is held by a worker of the task, which is       *)
(* between its two critical sections.                                       *)
LockInv ==
  \A w \in Workers :
    /\ pc[w] \in Locked => lock[task[w]] = w
    /\ \A t \in TaskIds : lock[t] = w => task[w] = t /\ pc[w] \in Locked

(* A check that is at work has a package.                                   *)
ChecksHavePackages ==
  \A c \in Checks : check[c].at # "idle" => check[c].pkg \in Packages

WInv ==
  /\ TypeOK
  /\ WorkersHaveTasks
  /\ OneWorkerPerGeneration
  /\ LockInv
  /\ ChecksHavePackages
  /\ WorkersMatchState

(* A worker whose result its managed task will take.                        *)
Current(w) == managed[task[w]] /\ GenerationMatches(w)

(* Somebody at work on p, at the given point: unless the environment was    *)
(* removed meanwhile, pip is in one that exists, and has filled it.         *)
Sound(x, at, p) ==
  x \notin outdated =>
    /\ at = "pip" => venv[p] # "absent"
    /\ at = "marking" => venv[p] = "built"

(* The marker tells the truth and so does whoever is about to report        *)
(* success, except about an undermined package; and once a task says ready  *)
(* no worker of it is about to remove the environment.                      *)
BuiltInv ==
  /\ \A p \in marker : p \notin undermined => venv[p] = "built"
  /\ \A w \in Workers :
       /\ pc[w] = "report" => w \in failed
       /\ pc[w] \in {"pip", "marking"} => Sound(w, pc[w], Home[task[w]])
       /\ pc[w] = "finishing" /\ w \notin failed /\ Current(w)
            => Home[task[w]] \in undermined \/ venv[Home[task[w]]] = "built"
  /\ \A c \in Checks :
       check[c].at \in {"pip", "marking"} => Sound(c, check[c].at, check[c].pkg)
  /\ \A t \in registered : managed[t] /\ state[t] = "ready" =>
       \A w \in Workers : pc[w] = "removing" => task[w] # t
  /\ ReadyMeansBuilt

-------------------------------------------------------------------------------
(* What the steps on an environment do to it                                *)

EnvOK ==
  /\ venv \in [Packages -> {"absent", "partial", "built"}]
  /\ marker \subseteq Packages
  /\ outdated \subseteq Workers \cup Checks
  /\ undermined \subseteq Packages

LEMMA RemovalTypes ==
  ASSUME TypeOK, NEW w \in Workers, NEW p \in Packages, NEW v \in {"absent", "partial", "built"},
         NEW keeps \in BOOLEAN, Removal(w, p, v, keeps)
  PROVE  EnvOK'
BY DEF TypeOK, Removal, EnvOK

LEMMA InstallTypes ==
  ASSUME TypeOK, NEW x, NEW p \in Packages,
         \/ (Created(p) \/ CreationFails(p)) /\ UNCHANGED <<marker, outdated, undermined>>
         \/ PipSucceeds(x, p)
         \/ WriteMarker(x, p)
         \/ UNCHANGED <<venv, marker, undermined>> /\ outdated' \in {outdated, outdated \ {x}}
  PROVE  EnvOK'
<1>1. CASE (Created(p) \/ CreationFails(p)) /\ UNCHANGED <<marker, outdated, undermined>>
  BY <1>1 DEF TypeOK, EnvOK, Created, CreationFails
<1>2. CASE PipSucceeds(x, p)
  BY <1>2 DEF TypeOK, EnvOK, PipSucceeds
<1>3. CASE WriteMarker(x, p)
  BY <1>3 DEF TypeOK, EnvOK, WriteMarker
<1>4. CASE UNCHANGED <<venv, marker, undermined>> /\ outdated' \in {outdated, outdated \ {x}}
  BY <1>4 DEF TypeOK, EnvOK
<1> QED
  BY <1>1, <1>2, <1>3, <1>4

(* The steps of an install, taken alone.                                    *)
LEMMA WorkerInstalls ==
  ASSUME WInv, NEW w \in Workers, Create(w) \/ Install(w) \/ Pip(w) \/ Mark(w)
  PROVE  /\ EnvOK'
         /\ UNCHANGED registryVars /\ UNCHANGED <<lock, task, gen, check>>
         /\ failed' \subseteq Workers
<1>1. /\ UNCHANGED registryVars /\ UNCHANGED <<lock, task, gen, check>> /\ failed' \subseteq Workers
      /\ pc[w] \in Locked \ {"idle"}
  BY DEF Create, Install, Pip, Mark, Goto, Locked, WInv, TypeOK
<1>2. task[w] \in TaskIds /\ Home[task[w]] \in Packages
  BY <1>1, ConstantsAssumption DEF WInv, WorkersHaveTasks, Working
<1>3. EnvOK'
  <2> DEFINE p == Home[task[w]]
  <2>1. \/ (Created(p) \/ CreationFails(p)) /\ UNCHANGED <<marker, outdated, undermined>>
        \/ PipSucceeds(w, p)
        \/ WriteMarker(w, p)
        \/ UNCHANGED <<venv, marker, undermined>> /\ outdated' \in {outdated, outdated \ {w}}
    BY DEF Create, Install, Pip, Mark, envVars
  <2>2. p \in Packages /\ TypeOK
    BY <1>2 DEF WInv
  <2> HIDE DEF p
  <2> QED
    BY <2>1, <2>2, InstallTypes
<1> QED
  BY <1>1, <1>3

LEMMA WorkerRemoves ==
  ASSUME WInv, NEW w \in Workers, RemoveAll(w) \/ RemoveAllFails(w)
  PROVE  /\ task[w] \in TaskIds /\ Home[task[w]] \in Packages
         /\ \E v \in {"absent", "partial", "built"}, keeps \in BOOLEAN :
              Removal(w, Home[task[w]], v, keeps)
<1>1. pc[w] = "removing"
  BY DEF RemoveAll, RemoveAllFails, Goto
<1>2. task[w] \in TaskIds /\ Home[task[w]] \in Packages
  BY <1>1, ConstantsAssumption DEF WInv, WorkersHaveTasks, Working
<1>3. ASSUME RemoveAll(w)
      PROVE  Removal(w, Home[task[w]], "absent", FALSE)
  BY <1>3 DEF RemoveAll
<1>4. ASSUME RemoveAllFails(w)
      PROVE  \E v \in {"absent", "partial", "built"}, keeps \in BOOLEAN :
               Removal(w, Home[task[w]], v, keeps)
  <2>1. PICK v \in {venv[Home[task[w]]], "partial", "absent"}, keeps \in BOOLEAN :
          Removal(w, Home[task[w]], v, keeps)
    BY <1>4 DEF RemoveAllFails
  <2>2. v \in {"absent", "partial", "built"}
    BY <1>2 DEF WInv, TypeOK
  <2> QED
    BY <2>1, <2>2
<1> QED
  BY <1>2, <1>3, <1>4

-------------------------------------------------------------------------------
(* Steps that touch neither tasks nor workers.                              *)
LEMMA CalmStep ==
  ASSUME WInv, UNCHANGED <<registered, used, managed, state, envGen, lock, workerVars>>,
         TypeOK', ChecksHavePackages'
  PROVE  WInv'
BY DEF WInv, workerVars, WorkersHaveTasks, OneWorkerPerGeneration, LockInv, WorkersMatchState,
       PendingHasWorker, SettledOnce, Working, GenerationMatches

LEMMA CheckSteps ==
  ASSUME WInv, NEW c \in Checks, CheckNext(c)
  PROVE  WInv'
<1> DEFINE p == check[c].pkg
<1>1. UNCHANGED registryVars /\ UNCHANGED lock /\ UNCHANGED workerVars
  BY DEF CheckNext, BeginCheck, CheckCreates, CheckInstalls, CheckPip, CheckMarks
<1>2. /\ check' \in [Checks -> [at: CheckAt, pkg: Packages \cup {None}]]
      /\ ChecksHavePackages'
  <2> USE DEF WInv, TypeOK, ChecksHavePackages, IdleCheck, CheckAt
  <2>1. CASE \E q \in Packages : BeginCheck(c, q)
    BY <2>1 DEF BeginCheck
  <2>2. CASE CheckCreates(c)
    <3>1. /\ check[c].at = "creating"
          /\ check' = [check EXCEPT ![c].at = "installing"] \/ check' = [check EXCEPT ![c] = IdleCheck]
      BY <2>2 DEF CheckCreates
    <3> QED
      BY <3>1, SMTT(20)
  <2>3. CASE CheckInstalls(c)
    BY <2>3 DEF CheckInstalls
  <2>4. CASE CheckPip(c)
    BY <2>4, SMTT(20) DEF CheckPip
  <2>5. CASE CheckMarks(c)
    BY <2>5 DEF CheckMarks
  <2> QED
    BY <2>1, <2>2, <2>3, <2>4, <2>5 DEF CheckNext
<1>3. EnvOK'
  <2>1. CASE \E q \in Packages : BeginCheck(c, q)
    BY <2>1 DEF BeginCheck, envVars, EnvOK, WInv, TypeOK
  <2>2. CASE CheckCreates(c) \/ CheckInstalls(c) \/ CheckPip(c) \/ CheckMarks(c)
    <3>1. p \in Packages
      BY <2>2 DEF CheckCreates, CheckInstalls, CheckPip, CheckMarks, WInv, ChecksHavePackages
    <3> QED
      BY <2>2, <3>1, InstallTypes DEF CheckCreates, CheckInstalls, CheckPip, CheckMarks, envVars, WInv
  <2> QED
    BY <2>1, <2>2 DEF CheckNext
<1>4. TypeOK' /\ ChecksHavePackages'
  BY <1>1, <1>2, <1>3 DEF registryVars, workerVars, WInv, TypeOK, EnvOK
<1> QED
  BY <1>1, <1>4, CalmStep DEF registryVars

LEMMA RunSteps ==
  ASSUME WInv, NEW t \in TaskIds, StartRun(t) \/ EndRun(t)
  PROVE  WInv'
<1>1. /\ UNCHANGED <<registered, used, managed, state, envGen, lock, envVars, workerVars, check>>
      /\ active' \in {active \cup {t}, active \ {t}}
  BY DEF StartRun, EndRun
<1>2. TypeOK' /\ ChecksHavePackages'
  BY <1>1 DEF WInv, TypeOK, ChecksHavePackages, workerVars, envVars
<1> QED
  BY <1>1, <1>2, CalmStep

(* A removal, and a reload without an environment, begin no setup: the      *)
(* task they concern is unregistered, or has no environment to speak of.    *)
LEMMA NothingBegun ==
  ASSUME WInv, NEW t \in TaskIds, TypeOK',
         UNCHANGED <<lock, workerVars, check>>,
         \A u \in registered' : u # t => u \in registered,
         t \in registered' => ~managed'[t],
         \A u \in TaskIds : u # t => /\ managed'[u] = managed[u] /\ state'[u] = state[u]
                                     /\ envGen'[u] = envGen[u],
         envGen'[t] >= envGen[t]
  PROVE  WInv'
<1> USE DEF WInv, TypeOK, workerVars
<1>1. WorkersHaveTasks'
  <2> SUFFICES ASSUME NEW w \in Workers, Working(w)'
               PROVE  (task[w] \in TaskIds /\ gen[w] \in 1..envGen[task[w]])'
    BY DEF WorkersHaveTasks
  <2>1. task[w] \in TaskIds /\ gen[w] \in 1..envGen[task[w]]
    BY DEF WorkersHaveTasks, Working
  <2>2. envGen[task[w]] \in Nat /\ envGen'[task[w]] \in Nat /\ envGen'[task[w]] >= envGen[task[w]]
    BY <2>1
  <2> QED
    BY <2>1, <2>2
<1>2. OneWorkerPerGeneration' /\ LockInv' /\ ChecksHavePackages'
  BY DEF OneWorkerPerGeneration, LockInv, ChecksHavePackages, Working
<1>3. ASSUME NEW u \in registered', managed'[u]
      PROVE  /\ u \in registered /\ managed[u] /\ state'[u] = state[u]
             /\ \A w \in Workers : Working(w) /\ task[w] = u
                  => GenerationMatches(w)' = GenerationMatches(w)
  BY <1>3 DEF GenerationMatches
<1>4. PendingHasWorker'
  BY <1>3 DEF WorkersMatchState, PendingHasWorker, Working
<1>5. SettledOnce'
  BY <1>3 DEF WorkersMatchState, SettledOnce, Working
<1> QED
  BY <1>1, <1>2, <1>4, <1>5 DEF WorkersMatchState

LEMMA RemoveSteps ==
  ASSUME WInv, NEW t \in TaskIds, RemoveTask(t)
  PROVE  WInv'
<1>1. /\ registered' = registered \ {t} /\ active' = active \ {t}
      /\ envGen' = [envGen EXCEPT ![t] = @ + 1]
      /\ UNCHANGED <<used, managed, state, lock, envVars, workerVars, check>>
  BY DEF RemoveTask
<1>2. TypeOK'
  BY <1>1 DEF WInv, TypeOK, workerVars, envVars
<1>3. \A u \in TaskIds : u # t => envGen'[u] = envGen[u]
  BY <1>1 DEF WInv, TypeOK
<1>4. envGen'[t] >= envGen[t]
  BY <1>1 DEF WInv, TypeOK
<1> QED
  BY <1>1, <1>2, <1>3, <1>4, NothingBegun

(* A setup that begins: its worker is the only one of the new generation.   *)
LEMMA SetupBegins ==
  ASSUME WInv, NEW t \in TaskIds, NEW w \in Workers, NEW at \in {"rebuild", "setup"},
         BeginSetup(t, w, at), TypeOK', UNCHANGED <<lock, check>>,
         \A u \in registered' : u # t => u \in registered,
         t \in registered',
         \A u \in TaskIds : u # t => managed'[u] = managed[u],
         state' = [state EXCEPT ![t] = "pending"]
  PROVE  WInv'
<1> USE DEF WInv, TypeOK
<1>1. /\ pc[w] = "idle" /\ pc' = [pc EXCEPT ![w] = at] /\ at \notin Locked \cup {"idle"}
      /\ task' = [task EXCEPT ![w] = t]
      /\ gen' = [gen EXCEPT ![w] = envGen[t] + 1]
      /\ envGen' = [envGen EXCEPT ![t] = @ + 1]
  BY DEF BeginSetup, Locked
<1>2. /\ pc'[w] = at /\ task'[w] = t /\ gen'[w] = envGen[t] + 1 /\ envGen'[t] = envGen[t] + 1
      /\ envGen[t] \in Nat
      /\ \A u \in TaskIds : u # t => envGen'[u] = envGen[u]
      /\ \A x \in Workers : x # w => pc'[x] = pc[x] /\ task'[x] = task[x] /\ gen'[x] = gen[x]
  BY <1>1
<1>3. \A x \in Workers : Working(x) => task[x] \in TaskIds /\ gen[x] \in 1..envGen[task[x]] /\ x # w
  BY <1>1 DEF WorkersHaveTasks, Working
<1>4. \A x \in Workers : x # w /\ Working(x)' => Working(x) /\ ~(task'[x] = t /\ gen'[x] = gen'[w])
  BY <1>2, <1>3 DEF Working
<1>5. WorkersHaveTasks'
  <2> SUFFICES ASSUME NEW x \in Workers, Working(x)'
               PROVE  (task[x] \in TaskIds /\ gen[x] \in 1..envGen[task[x]])'
    BY DEF WorkersHaveTasks
  <2>1. CASE x = w
    BY <1>2, <2>1
  <2>2. CASE x # w
    <3>1. task'[x] = task[x] /\ gen'[x] = gen[x] /\ task[x] \in TaskIds /\ gen[x] \in 1..envGen[task[x]]
      BY <1>2, <1>3, <1>4, <2>2
    <3>2. envGen'[task[x]] \in Nat /\ envGen[task[x]] \in Nat /\ envGen'[task[x]] >= envGen[task[x]]
      BY <1>2, <3>1
    <3> QED
      BY <3>1, <3>2
  <2> QED
    BY <2>1, <2>2
<1>6. OneWorkerPerGeneration'
  BY <1>2, <1>4 DEF OneWorkerPerGeneration
<1>7. LockInv' /\ ChecksHavePackages'
  BY <1>1, <1>2 DEF LockInv, Locked, ChecksHavePackages
<1>8. PendingHasWorker'
  <2> SUFFICES ASSUME NEW u \in registered', managed'[u], state'[u] = "pending"
               PROVE  \E x \in Workers : (Working(x) /\ task[x] = u /\ GenerationMatches(x))'
    BY DEF PendingHasWorker
  <2>1. CASE u = t
    <3>1. Working(w)' /\ task'[w] = u /\ GenerationMatches(w)'
      BY <1>1, <1>2, <2>1 DEF Working, GenerationMatches
    <3> QED
      BY <3>1
  <2>2. CASE u # t
    <3>1. u \in registered /\ managed[u] /\ state[u] = "pending"
      BY <2>2
    <3>2. PICK x \in Workers : Working(x) /\ task[x] = u /\ GenerationMatches(x)
      BY <3>1 DEF WorkersMatchState, PendingHasWorker
    <3>3. x # w /\ (Working(x) /\ task[x] = u /\ GenerationMatches(x))'
      BY <1>2, <1>3, <2>2, <3>1, <3>2 DEF Working, GenerationMatches
    <3> QED
      BY <3>3
  <2> QED
    BY <2>1, <2>2
<1>9. SettledOnce'
  <2> SUFFICES ASSUME NEW u \in registered', managed'[u], state'[u] \in {"ready", "failed"},
                      NEW x \in Workers, Working(x)', task'[x] = u
               PROVE  ~GenerationMatches(x)'
    BY DEF SettledOnce
  <2>1. u # t
    OBVIOUS
  <2>2. x # w /\ u \in registered /\ managed[u] /\ state[u] \in {"ready", "failed"}
    BY <1>2, <2>1
  <2>3. ~GenerationMatches(x) /\ task[x] = u
    BY <1>2, <1>4, <2>2 DEF WorkersMatchState, SettledOnce
  <2> QED
    BY <1>2, <2>1, <2>2, <2>3 DEF GenerationMatches
<1> QED
  BY <1>5, <1>6, <1>7, <1>8, <1>9 DEF WorkersMatchState

LEMMA SetupTypes ==
  ASSUME TypeOK, NEW t \in TaskIds, NEW w \in Workers, NEW at \in {"rebuild", "setup"},
         BeginSetup(t, w, at)
  PROVE  /\ envGen' \in [TaskIds -> Nat]
         /\ pc' \in [Workers -> Positions]
         /\ task' \in [Workers -> TaskIds \cup {None}]
         /\ gen' \in [Workers -> Nat]
         /\ failed' \subseteq Workers
BY DEF TypeOK, BeginSetup, Positions

(* A manifest that is loaded, for a new task or over an old one.            *)
LEMMA LoadSteps ==
  ASSUME WInv, NEW t \in TaskIds, NEW m \in BOOLEAN, ImportTask(t, m) \/ ReloadTask(t, m)
  PROVE  WInv'
<1>1. /\ Prepare(t, m)
      /\ UNCHANGED <<active, lock, envVars, check>>
      /\ registered' \subseteq used' /\ used' \subseteq TaskIds
      /\ t \in registered' /\ \A u \in registered' : u # t => u \in registered
  BY DEF WInv, TypeOK, ImportTask, ReloadTask
<1>2. /\ managed' = [managed EXCEPT ![t] = m]
      /\ state' = [state EXCEPT ![t] = IF m THEN "pending" ELSE "not_required"]
      /\ managed' \in [TaskIds -> BOOLEAN] /\ managed'[t] = m
      /\ state' \in [TaskIds -> {"not_required", "pending", "ready", "failed"}]
      /\ \A u \in TaskIds : u # t => managed'[u] = managed[u] /\ state'[u] = state[u]
  BY <1>1 DEF Prepare, WInv, TypeOK
<1>3. CASE m
  <2>1. PICK w \in Workers : BeginSetup(t, w, "setup")
    BY <1>1, <1>3 DEF Prepare
  <2>2. TypeOK'
    BY <1>1, <1>2, <2>1, SetupTypes DEF WInv, TypeOK, envVars
  <2> QED
    BY <1>1, <1>2, <1>3, <2>1, <2>2, SetupBegins
<1>4. CASE ~m
  <2>1. UNCHANGED <<envGen, workerVars>>
    BY <1>1, <1>4 DEF Prepare
  <2>2. TypeOK'
    BY <1>1, <1>2, <2>1 DEF WInv, TypeOK, workerVars, envVars
  <2>3. envGen'[t] >= envGen[t]
    BY <2>1 DEF WInv, TypeOK
  <2> QED
    BY <1>1, <1>2, <1>4, <2>1, <2>2, <2>3, NothingBegun
<1> QED
  BY <1>3, <1>4

LEMMA RebuildSteps ==
  ASSUME WInv, NEW t \in TaskIds, RebuildTaskEnvironment(t)
  PROVE  WInv'
<1>1. /\ t \in registered /\ state' = [state EXCEPT ![t] = "pending"]
      /\ UNCHANGED <<registered, used, managed, active, lock, envVars, check>>
  BY DEF RebuildTaskEnvironment
<1>2. PICK w \in Workers : BeginSetup(t, w, "rebuild")
  BY DEF RebuildTaskEnvironment
<1>3. TypeOK'
  BY <1>1, <1>2, SetupTypes DEF WInv, TypeOK, envVars
<1> QED
  BY <1>1, <1>2, <1>3, SetupBegins

-------------------------------------------------------------------------------
(* A worker goes on, and stays the worker of its generation.                *)
LEMMA WorkerGoesOn ==
  ASSUME WInv, NEW w \in Workers, NEW from \in Positions \ {"idle"},
         NEW to \in Positions \ {"idle"}, Goto(w, from, to), TypeOK',
         UNCHANGED <<registered, used, managed, state, envGen, task, gen, check>>, LockInv'
  PROVE  WInv'
<1>1. \A x \in Workers : /\ Working(x)' = Working(x)
                         /\ GenerationMatches(x)' = GenerationMatches(x)
  BY DEF WInv, TypeOK, Goto, Working, GenerationMatches
<1> QED
  BY <1>1 DEF WInv, WorkersHaveTasks, OneWorkerPerGeneration, WorkersMatchState, PendingHasWorker,
              SettledOnce, ChecksHavePackages

(* A worker returns: it was stale, or it has settled its task.              *)
LEMMA WorkerReturns ==
  ASSUME WInv, NEW w \in Workers, NEW from \in Positions \ {"idle"}, Goto(w, from, "idle"),
         TypeOK', LockInv',
         UNCHANGED <<registered, used, managed, envGen, task, gen, check>>,
         \/ ~GenerationMatches(w) /\ UNCHANGED state
         \/ /\ GenerationMatches(w)
            /\ \E s \in {"ready", "failed"} : state' = [state EXCEPT ![task[w]] = s]
  PROVE  WInv'
<1> USE DEF WInv
<1>1. \A x \in Workers : /\ Working(x)' <=> Working(x) /\ x # w
                         /\ GenerationMatches(x)' = GenerationMatches(x)
  BY DEF TypeOK, Goto, Working, GenerationMatches
<1>2. WorkersHaveTasks' /\ OneWorkerPerGeneration' /\ ChecksHavePackages'
  BY <1>1 DEF WorkersHaveTasks, OneWorkerPerGeneration, ChecksHavePackages
<1>3. Working(w) /\ task[w] \in TaskIds
  BY DEF Goto, Working, WorkersHaveTasks
<1>4. PendingHasWorker'
  <2> SUFFICES ASSUME NEW u \in registered, managed[u], state'[u] = "pending"
               PROVE  \E x \in Workers : Working(x)' /\ task[x] = u /\ GenerationMatches(x)'
    BY DEF PendingHasWorker
  <2>1. state[u] = "pending" /\ (GenerationMatches(w) => u # task[w])
    BY DEF TypeOK
  <2>2. PICK x \in Workers : Working(x) /\ task[x] = u /\ GenerationMatches(x)
    BY <2>1 DEF WorkersMatchState, PendingHasWorker
  <2> QED
    BY <1>1, <2>1, <2>2
<1>5. SettledOnce'
  <2> SUFFICES ASSUME NEW u \in registered, managed[u], state'[u] \in {"ready", "failed"},
                      NEW x \in Workers, Working(x)', task[x] = u
               PROVE  ~GenerationMatches(x)
    BY <1>1 DEF SettledOnce
  <2>1. Working(x) /\ x # w
    BY <1>1
  <2>2. CASE state'[u] = state[u]
    BY <2>1, <2>2 DEF WorkersMatchState, SettledOnce
  <2>3. CASE state'[u] # state[u]
    <3>1. u = task[w] /\ GenerationMatches(w)
      BY <2>3 DEF TypeOK
    <3> QED
      BY <1>3, <2>1, <3>1 DEF OneWorkerPerGeneration, GenerationMatches
  <2> QED
    BY <2>2, <2>3
<1> QED
  BY <1>2, <1>4, <1>5 DEF WorkersMatchState

LEMMA TakeLockSteps ==
  ASSUME WInv, NEW w \in Workers, NEW from \in {"rebuild", "setup"},
         NEW to \in {"removing", "creating"}, TakeLock(w, from, to)
  PROVE  WInv'
<1> USE DEF WInv
<1>1. /\ pc[w] = from /\ lock[task[w]] = None
      /\ UNCHANGED registryVars /\ UNCHANGED <<envVars, task, gen, failed, check>>
      /\ from \in Positions \ {"idle"} /\ to \in Positions \ {"idle"}
      /\ from \notin Locked /\ to \in Locked /\ "idle" \notin Locked
  BY DEF TakeLock, Positions, Locked
<1>2. task[w] \in TaskIds
  BY <1>1 DEF WorkersHaveTasks, Working, Positions
<1>3. CASE GenerationMatches(w)
  <2>1. Goto(w, from, to) /\ pc' = [pc EXCEPT ![w] = to] /\ lock' = [lock EXCEPT ![task[w]] = w]
    BY <1>3 DEF TakeLock, Goto
  <2>2. TypeOK'
    BY <1>1, <1>2, <2>1 DEF TypeOK, registryVars, envVars
  <2>3. LockInv'
    BY <1>1, <1>2, <2>1, ConstantsAssumption DEF LockInv, TypeOK
  <2> HIDE DEF WInv
  <2> QED
    BY <1>1, <2>1, <2>2, <2>3, WorkerGoesOn DEF registryVars
<1>4. CASE ~GenerationMatches(w)
  <2>1. Goto(w, from, "idle") /\ pc' = [pc EXCEPT ![w] = "idle"] /\ lock' = lock
    BY <1>4 DEF TakeLock, Goto
  <2>2. TypeOK'
    BY <1>1, <2>1 DEF TypeOK, registryVars, envVars, Positions
  <2>3. LockInv'
    BY <1>1, <2>1 DEF LockInv, TypeOK
  <2> HIDE DEF WInv
  <2> QED
    BY <1>1, <1>4, <2>1, <2>2, <2>3, WorkerReturns DEF registryVars
<1> QED
  BY <1>3, <1>4

(* Who holds a lock may keep it or release it, as it leaves Locked.         *)
LEMMA LockKept ==
  ASSUME WInv, NEW w \in Workers, NEW from \in Locked, NEW to, Goto(w, from, to),
         UNCHANGED task,
         \/ to \in Locked /\ UNCHANGED lock
         \/ to \notin Locked /\ lock' = [lock EXCEPT ![task[w]] = None]
  PROVE  LockInv'
<1> USE DEF WInv
<1>1. pc[w] = from /\ pc' = [pc EXCEPT ![w] = to] /\ pc \in [Workers -> Positions]
  BY DEF Goto, TypeOK
<1>2. task[w] \in TaskIds /\ lock[task[w]] = w /\ lock \in [TaskIds -> Workers \cup {None}]
  BY <1>1 DEF LockInv, WorkersHaveTasks, Working, Locked, TypeOK
<1>3. CASE to \in Locked /\ UNCHANGED lock
  BY <1>1, <1>3 DEF LockInv
<1>4. CASE to \notin Locked /\ lock' = [lock EXCEPT ![task[w]] = None]
  BY <1>1, <1>2, <1>4, ConstantsAssumption DEF LockInv
<1> QED
  BY <1>3, <1>4

LEMMA LockedSteps ==
  ASSUME WInv, NEW w \in Workers,
         RemoveAll(w) \/ RemoveAllFails(w) \/ Create(w) \/ Install(w) \/ Pip(w) \/ Mark(w)
  PROVE  WInv'
<1>1. PICK from \in {"removing", "creating", "installing", "pip", "marking"},
           to \in {"setup", "report", "installing", "pip", "marking", "finishing"} :
        /\ Goto(w, from, to)
        /\ \/ to \in Locked /\ UNCHANGED lock
           \/ to \notin Locked /\ lock' = [lock EXCEPT ![task[w]] = None]
  BY DEF RemoveAll, RemoveAllFails, Create, Install, Pip, Mark, Locked
<1>2. UNCHANGED registryVars /\ UNCHANGED <<task, gen, check>> /\ failed' \subseteq Workers
  BY WorkerInstalls DEF RemoveAll, RemoveAllFails, WInv, TypeOK
<1>3. EnvOK'
  BY WorkerInstalls, WorkerRemoves, RemovalTypes DEF WInv
<1>4. /\ from \in Positions \ {"idle"} /\ to \in Positions \ {"idle"} /\ from \in Locked
  BY DEF Positions, Locked
<1>5. LockInv'
  BY <1>1, <1>2, <1>4, LockKept
<1>6. TypeOK'
  <2>1. pc' \in [Workers -> Positions]
    BY <1>1, <1>4 DEF Goto, WInv, TypeOK
  <2>2. lock' \in [TaskIds -> Workers \cup {None}]
    BY <1>1 DEF WInv, TypeOK
  <2> QED
    BY <1>2, <1>3, <2>1, <2>2 DEF WInv, TypeOK, registryVars, EnvOK
<1> QED
  BY <1>1, <1>2, <1>4, <1>5, <1>6, WorkerGoesOn DEF registryVars

LEMMA SettlingSteps ==
  ASSUME WInv, NEW w \in Workers, FinishSetup(w) \/ ReportFailure(w)
  PROVE  WInv'
<1>1. PICK from \in {"finishing", "report"} : Goto(w, from, "idle")
  BY DEF FinishSetup, ReportFailure
<1>2. Store(w) /\ UNCHANGED <<envVars, task, gen, failed, check>>
  BY DEF FinishSetup, ReportFailure
<1>3. /\ pc[w] = from /\ pc' = [pc EXCEPT ![w] = "idle"] /\ from \in Positions \ {"idle"}
      /\ task[w] \in TaskIds
  <2>1. pc[w] = from /\ pc' = [pc EXCEPT ![w] = "idle"]
    BY <1>1 DEF Goto
  <2>2. from \in Positions \ {"idle"}
    BY DEF Positions, Locked
  <2> QED
    BY <2>1, <2>2 DEF WInv, WorkersHaveTasks, Working
<1>4. /\ UNCHANGED <<registered, used, managed, envGen, active>>
      /\ \/ ~GenerationMatches(w) /\ UNCHANGED state
         \/ /\ GenerationMatches(w)
            /\ \E s \in {"ready", "failed"} : state' = [state EXCEPT ![task[w]] = s]
  BY <1>2 DEF Store, Outcome
<1>5. LockInv' /\ lock' \in [TaskIds -> Workers \cup {None}]
  <2>1. CASE FinishSetup(w)
    <3>1. /\ Goto(w, "finishing", "idle") /\ "finishing" \in Locked /\ "idle" \notin Locked
          /\ lock' = [lock EXCEPT ![task[w]] = None]
      BY <2>1 DEF FinishSetup, Locked
    <3>2. LockInv'
      BY <1>2, <3>1, LockKept
    <3> QED
      BY <3>1, <3>2 DEF WInv, TypeOK
  <2>2. CASE ReportFailure(w)
    <3>1. pc[w] = "report" /\ pc' = [pc EXCEPT ![w] = "idle"] /\ UNCHANGED <<lock, task>>
      BY <2>2 DEF ReportFailure, Goto
    <3> QED
      BY <3>1 DEF WInv, TypeOK, LockInv, Locked
  <2> QED
    BY <2>1, <2>2
<1>6. TypeOK'
  <2>1. pc' \in [Workers -> Positions]
    BY <1>3 DEF WInv, TypeOK, Positions
  <2>2. state' \in [TaskIds -> {"not_required", "pending", "ready", "failed"}]
    BY <1>4 DEF WInv, TypeOK
  <2> QED
    BY <1>2, <1>4, <1>5, <2>1, <2>2 DEF WInv, TypeOK, envVars
<1> QED
  BY <1>1, <1>2, <1>3, <1>4, <1>5, <1>6, WorkerReturns

LEMMA WorkerSteps ==
  ASSUME WInv, NEW w \in Workers, WorkerStep(w)
  PROVE  WInv'
<1>1. CASE RebuildLocks(w) \/ SetupLocks(w)
  BY <1>1, TakeLockSteps DEF RebuildLocks, SetupLocks
<1> QED
  BY <1>1, LockedSteps, SettlingSteps DEF WorkerStep

LEMMA RequestSteps ==
  ASSUME WInv, NEW t \in TaskIds, Request(t)
  PROVE  WInv'
BY LoadSteps, RebuildSteps, RemoveSteps, RunSteps DEF Request

LEMMA WorkerInvariant == Spec => []WInv
<1>1. Init => WInv
  <2> SUFFICES ASSUME Init PROVE WInv
    OBVIOUS
  <2>1. TypeOK
    BY DEF Init, TypeOK, Positions, IdleCheck, CheckAt
  <2>2. WorkersHaveTasks /\ OneWorkerPerGeneration /\ ChecksHavePackages
    BY DEF Init, WorkersHaveTasks, OneWorkerPerGeneration, ChecksHavePackages, Working, IdleCheck
  <2>3. LockInv
    BY ConstantsAssumption DEF Init, LockInv, Locked
  <2>4. WorkersMatchState
    BY DEF Init, WorkersMatchState, PendingHasWorker, SettledOnce
  <2> QED
    BY <2>1, <2>2, <2>3, <2>4 DEF WInv
<1>2. WInv /\ [Next]_vars => WInv'
  <2> SUFFICES ASSUME WInv, [Next]_vars PROVE WInv'
    OBVIOUS
  <2>1. CASE UNCHANGED vars
    <3>1. UNCHANGED <<registered, used, managed, state, envGen, lock, workerVars>> /\ TypeOK' /\ ChecksHavePackages'
      BY <2>1 DEF vars, workerVars, WInv, TypeOK, ChecksHavePackages
    <3> QED
      BY <3>1, CalmStep
  <2> QED
    BY <2>1, RequestSteps, WorkerSteps, CheckSteps DEF Next
<1> QED
  BY <1>1, <1>2, PTL DEF Spec

(* Whatever reloads, rebuilds and removals come in between: a pending task  *)
(* has a worker of its generation, a settled one has none left, so that     *)
(* nothing stays pending for ever and no result is overwritten by a late    *)
(* one.                                                                     *)
THEOREM WorkersMatchStateTheorem == Spec => []WorkersMatchState
<1>1. WInv => WorkersMatchState
  BY DEF WInv
<1> QED
  BY <1>1, WorkerInvariant, PTL

-------------------------------------------------------------------------------
(* Ready means built                                                        *)

(* Steps that take nothing away from an environment, let nobody begin to    *)
(* remove one, and declare nothing ready: what they install they install in *)
(* the environment that is there.                                           *)
LEMMA NothingSpoiled ==
  ASSUME WInv, WInv', BuiltInv,
         \A p \in Packages : /\ venv[p] = "built" => venv'[p] = "built"
                             /\ venv[p] # "absent" => venv'[p] # "absent",
         undermined \subseteq undermined',
         \A p \in marker' : p \in marker \/ p \in undermined' \/ venv'[p] = "built",
         \A w \in Workers :
           /\ pc'[w] = "report" => w \in failed'
           /\ pc'[w] = "removing" => pc[w] = "removing" /\ task'[w] = task[w]
           /\ pc'[w] \in {"pip", "marking"} =>
                \/ pc'[w] = pc[w] /\ task'[w] = task[w] /\ (w \in outdated' <=> w \in outdated)
                \/ Sound(w, pc[w], Home[task[w]])'
           /\ pc'[w] = "finishing" /\ w \notin failed' /\ Current(w)' =>
                \/ pc[w] = "finishing" /\ w \notin failed /\ task'[w] = task[w] /\ Current(w)
                \/ Home[task'[w]] \in undermined'
                \/ venv'[Home[task'[w]]] = "built",
         \A c \in Checks : check'[c].at \in {"pip", "marking"} =>
           \/ check'[c] = check[c] /\ (c \in outdated' <=> c \in outdated)
           \/ Sound(c, check[c].at, check[c].pkg)',
         \A t \in registered' : managed'[t] /\ state'[t] = "ready" =>
           t \in registered /\ managed[t] /\ state[t] = "ready"
  PROVE  BuiltInv'
<1>1. \A w \in Workers : pc'[w] \in {"pip", "marking", "finishing"} =>
        task'[w] \in TaskIds /\ Home[task'[w]] \in Packages
  BY ConstantsAssumption DEF WInv, WorkersHaveTasks, Working
<1>2. ASSUME NEW p \in marker', p \notin undermined'
      PROVE  venv'[p] = "built"
  BY <1>2 DEF BuiltInv, WInv, TypeOK
<1>3. ASSUME NEW w \in Workers, pc'[w] \in {"pip", "marking"}
      PROVE  Sound(w, pc[w], Home[task[w]])'
  BY <1>1, <1>3 DEF BuiltInv, Sound
<1>4. ASSUME NEW w \in Workers, pc'[w] = "finishing", w \notin failed', Current(w)'
      PROVE  Home[task'[w]] \in undermined' \/ venv'[Home[task'[w]]] = "built"
  BY <1>1, <1>4 DEF BuiltInv
<1>5. ASSUME NEW c \in Checks, check'[c].at \in {"pip", "marking"}
      PROVE  Sound(c, check[c].at, check[c].pkg)'
  <2>1. check'[c].pkg \in Packages
    BY <1>5 DEF WInv, ChecksHavePackages
  <2> QED
    BY <1>5, <2>1 DEF BuiltInv, Sound
<1>6. ASSUME NEW t \in registered', managed'[t], state'[t] = "ready"
      PROVE  /\ Home[t] \notin undermined' => venv'[Home[t]] = "built"
             /\ \A w \in Workers : pc'[w] = "removing" => task'[w] # t
  <2>1. t \in TaskIds /\ Home[t] \in Packages
    BY ConstantsAssumption DEF WInv, TypeOK
  <2> QED
    BY <1>6, <2>1 DEF BuiltInv, ReadyMeansBuilt
<1> QED
  BY <1>2, <1>3, <1>4, <1>5, <1>6 DEF BuiltInv, ReadyMeansBuilt

(* What an install does to environments and markers, for either actor.      *)
LEMMA InstallSpoilsNothing ==
  ASSUME TypeOK, NEW x, NEW p \in Packages,
         \/ (Created(p) \/ CreationFails(p)) /\ UNCHANGED <<marker, outdated, undermined>>
         \/ PipSucceeds(x, p)
         \/ WriteMarker(x, p)
         \/ UNCHANGED <<venv, marker, undermined>> /\ outdated' \in {outdated, outdated \ {x}}
  PROVE  /\ \A q \in Packages : /\ venv[q] = "built" => venv'[q] = "built"
                                /\ venv[q] # "absent" => venv'[q] # "absent"
         /\ undermined \subseteq undermined'
         /\ \A y : y # x => (y \in outdated' <=> y \in outdated)
         /\ \A q \in marker' : \/ q \in marker
                               \/ q = p /\ WriteMarker(x, p)
<1>1. CASE (Created(p) \/ CreationFails(p)) /\ UNCHANGED <<marker, outdated, undermined>>
  BY <1>1 DEF TypeOK, Created, CreationFails
<1>2. CASE PipSucceeds(x, p)
  BY <1>2 DEF TypeOK, PipSucceeds
<1>3. CASE WriteMarker(x, p)
  BY <1>3 DEF TypeOK, WriteMarker
<1>4. CASE UNCHANGED <<venv, marker, undermined>> /\ outdated' \in {outdated, outdated \ {x}}
  BY <1>4 DEF TypeOK
<1> QED
  BY <1>1, <1>2, <1>3, <1>4

(* Whoever passes pip, or writes the marker, soundly, leaves it sound.      *)
LEMMA PassedPip ==
  ASSUME TypeOK, NEW x, NEW p \in Packages, Sound(x, "pip", p), PipSucceeds(x, p)
  PROVE  Sound(x, "marking", p)'
BY DEF TypeOK, Sound, PipSucceeds

LEMMA WroteMarker ==
  ASSUME NEW x, NEW p \in Packages, Sound(x, "marking", p), WriteMarker(x, p)
  PROVE  p \in undermined' \/ venv'[p] = "built"
BY DEF Sound, WriteMarker

LEMMA CheckKeepsBuilt ==
  ASSUME WInv, WInv', BuiltInv, NEW c \in Checks, CheckNext(c)
  PROVE  BuiltInv'
<1> DEFINE p == check[c].pkg
<1>1. UNCHANGED registryVars /\ UNCHANGED workerVars
  BY DEF CheckNext, BeginCheck, CheckCreates, CheckInstalls, CheckPip, CheckMarks
<1>2. ASSUME NEW d \in Checks, d # c
      PROVE  check'[d] = check[d]
  BY <1>2 DEF CheckNext, BeginCheck, CheckCreates, CheckInstalls, CheckPip, CheckMarks, WInv, TypeOK
<1>3. CASE \E q \in Packages : BeginCheck(c, q)
  <2>1. UNCHANGED envVars /\ check'[c].at = "creating"
    BY <1>3 DEF BeginCheck, WInv, TypeOK
  <2> QED
    BY <1>1, <1>2, <2>1, NothingSpoiled DEF registryVars, workerVars, envVars, BuiltInv, Current,
       GenerationMatches
<1>4. CASE CheckCreates(c) \/ CheckInstalls(c) \/ CheckPip(c) \/ CheckMarks(c)
  <2>1. p \in Packages /\ TypeOK
    BY <1>4 DEF CheckCreates, CheckInstalls, CheckPip, CheckMarks, WInv, ChecksHavePackages
  <2>2. \/ (Created(p) \/ CreationFails(p)) /\ UNCHANGED <<marker, outdated, undermined>>
        \/ PipSucceeds(c, p)
        \/ WriteMarker(c, p)
        \/ UNCHANGED <<venv, marker, undermined>> /\ outdated' \in {outdated, outdated \ {c}}
    BY <1>4 DEF CheckCreates, CheckInstalls, CheckPip, CheckMarks, envVars
  <2>3. /\ \A q \in Packages : /\ venv[q] = "built" => venv'[q] = "built"
                               /\ venv[q] # "absent" => venv'[q] # "absent"
        /\ undermined \subseteq undermined'
        /\ \A y : y # c => (y \in outdated' <=> y \in outdated)
        /\ \A q \in marker' : q \in marker \/ (q = p /\ WriteMarker(c, p))
    BY <2>1, <2>2, InstallSpoilsNothing
  <2>4. \A w \in Workers : w \in outdated' <=> w \in outdated
    BY <2>3, ConstantsAssumption
  <2>5. ASSUME NEW q \in marker', q \notin marker
        PROVE  q \in undermined' \/ venv'[q] = "built"
    <3>1. q = p /\ WriteMarker(c, p) /\ marker' # marker
      BY <2>3, <2>5
    <3>2. CheckMarks(c)
      BY <1>4, <3>1 DEF CheckCreates, CheckInstalls, CheckPip, PipSucceeds, envVars
    <3>3. Sound(c, "marking", p)
      BY <3>2 DEF CheckMarks, BuiltInv
    <3> QED
      BY <2>1, <3>1, <3>3, WroteMarker
  <2>6. ASSUME check'[c].at \in {"pip", "marking"}
        PROVE  Sound(c, check[c].at, check[c].pkg)'
    <3>1. CASE CheckCreates(c) \/ CheckMarks(c)
      BY <2>6, <3>1 DEF CheckCreates, CheckMarks, IdleCheck, WInv, TypeOK
    <3>2. CASE CheckInstalls(c)
      BY <2>6, <3>2 DEF CheckInstalls, IdleCheck, WInv, TypeOK, Sound
    <3>3. CASE CheckPip(c)
      <4>1. PipSucceeds(c, p) /\ check'[c].at = "marking" /\ check'[c].pkg = p
        BY <2>6, <3>3 DEF CheckPip, IdleCheck, WInv, TypeOK
      <4>2. Sound(c, "pip", p)
        BY <3>3 DEF CheckPip, BuiltInv
      <4>3. Sound(c, "marking", p)'
        BY <2>1, <4>1, <4>2, PassedPip
      <4> QED
        BY <4>1, <4>3 DEF Sound
    <3> QED
      BY <1>4, <3>1, <3>2, <3>3
  <2> QED
    BY <1>1, <1>2, <2>3, <2>4, <2>5, <2>6, ConstantsAssumption, NothingSpoiled
    DEF registryVars, workerVars, BuiltInv, Current, GenerationMatches
<1> QED
  BY <1>3, <1>4 DEF CheckNext

(* A load or a rebuild turns the task to pending, or to nothing required,   *)
(* and makes the workers it had stale.                                      *)
LEMMA RequestKeepsBuilt ==
  ASSUME WInv, WInv', BuiltInv, NEW t \in TaskIds, Request(t)
  PROVE  BuiltInv'
<1> USE DEF WInv, TypeOK
<1>1. UNCHANGED envVars /\ UNCHANGED check
  BY DEF Request, ImportTask, ReloadTask, RebuildTaskEnvironment, RemoveTask, StartRun, EndRun
<1>2. \/ UNCHANGED workerVars
      \/ \E w \in Workers, at \in {"setup", "rebuild"} : BeginSetup(t, w, at)
  BY DEF Request, ImportTask, ReloadTask, RebuildTaskEnvironment, RemoveTask, StartRun, EndRun,
         Prepare
<1>3. \A w \in Workers :
        /\ pc'[w] = "report" => w \in failed'
        /\ pc'[w] = "finishing" /\ w \notin failed'
             => pc[w] = "finishing" /\ w \notin failed /\ task'[w] = task[w] /\ gen'[w] = gen[w]
        /\ pc'[w] \in {"removing", "pip", "marking"} => pc'[w] = pc[w] /\ task'[w] = task[w]
  <2>1. CASE UNCHANGED workerVars
    BY <2>1 DEF workerVars, BuiltInv
  <2>2. CASE \E w \in Workers, at \in {"setup", "rebuild"} : BeginSetup(t, w, at)
    BY <2>2 DEF BeginSetup, BuiltInv
  <2> QED
    BY <1>2, <2>1, <2>2
<1>4. /\ \A u \in registered' : u # t => u \in registered
      /\ \A u \in TaskIds : u # t => managed'[u] = managed[u] /\ envGen'[u] = envGen[u]
  BY DEF Request, ImportTask, ReloadTask, RebuildTaskEnvironment, RemoveTask, StartRun, EndRun,
         Prepare, BeginSetup
<1>5. \/ t \notin registered'
      \/ ~managed'[t]
      \/ envGen'[t] = envGen[t] + 1
      \/ UNCHANGED <<registered, managed, envGen>>
  BY DEF Request, ImportTask, ReloadTask, RebuildTaskEnvironment, RemoveTask, StartRun, EndRun,
         Prepare, BeginSetup
<1>6. ASSUME NEW u \in registered', managed'[u], state'[u] = "ready"
      PROVE  u \in registered /\ managed[u] /\ state[u] = "ready"
  <2>1. CASE \E m \in BOOLEAN : ImportTask(t, m) \/ ReloadTask(t, m)
    BY <1>6, <2>1 DEF ImportTask, ReloadTask, Prepare
  <2>2. CASE RebuildTaskEnvironment(t)
    BY <1>6, <2>2 DEF RebuildTaskEnvironment
  <2>3. CASE RemoveTask(t) \/ StartRun(t) \/ EndRun(t)
    BY <1>6, <2>3 DEF RemoveTask, StartRun, EndRun
  <2> QED
    BY <2>1, <2>2, <2>3 DEF Request
<1>7. ASSUME NEW w \in Workers, pc'[w] = "finishing", w \notin failed', Current(w)'
      PROVE  pc[w] = "finishing" /\ w \notin failed /\ task'[w] = task[w] /\ Current(w)
  <2>1. /\ pc[w] = "finishing" /\ w \notin failed /\ task'[w] = task[w] /\ gen'[w] = gen[w]
        /\ task[w] \in TaskIds /\ gen[w] \in 1..envGen[task[w]]
    BY <1>3, <1>7 DEF WorkersHaveTasks, Working
  <2>2. CASE task[w] = t
    BY <1>5, <1>7, <2>1, <2>2 DEF Current, GenerationMatches
  <2>3. CASE task[w] # t
    BY <1>4, <1>7, <2>1, <2>3 DEF Current, GenerationMatches
  <2> QED
    BY <2>1, <2>2, <2>3
<1> HIDE DEF WInv, TypeOK
<1> QED
  BY <1>1, <1>3, <1>6, <1>7, NothingSpoiled DEF envVars

(* While a worker holds the lock, no other worker of the task does.         *)
LEMMA LockExcludes ==
  ASSUME WInv, NEW w \in Workers, pc[w] \in Locked
  PROVE  \A x \in Workers : x # w /\ pc[x] \in Locked => task[x] # task[w]
BY DEF WInv, LockInv

(* A current worker starts to remove the environment of a pending task.     *)
LEMMA LocksKeepBuilt ==
  ASSUME WInv, WInv', BuiltInv, NEW w \in Workers, RebuildLocks(w) \/ SetupLocks(w)
  PROVE  BuiltInv'
<1>1. /\ pc[w] \in {"rebuild", "setup"}
      /\ UNCHANGED registryVars /\ UNCHANGED <<envVars, task, gen, failed, check>>
      /\ pc'[w] \in {"idle", "removing", "creating"}
      /\ pc'[w] = "removing" => pc[w] = "rebuild" /\ GenerationMatches(w)
      /\ \A x \in Workers : x # w => pc'[x] = pc[x]
  BY DEF RebuildLocks, SetupLocks, TakeLock, Goto, WInv, TypeOK
<1>2. ASSUME NEW t \in registered, managed[t], state[t] = "ready",
             NEW x \in Workers, pc'[x] = "removing"
      PROVE  task[x] # t
  <2>1. CASE x = w
    BY <1>1, <1>2, <2>1 DEF WInv, WorkersMatchState, SettledOnce, Working
  <2>2. CASE x # w
    BY <1>1, <1>2, <2>2 DEF BuiltInv
  <2> QED
    BY <2>1, <2>2
<1> QED
  BY <1>1, <1>2 DEF BuiltInv, ReadyMeansBuilt, registryVars, envVars, Sound, Current,
                    GenerationMatches

(* A removal destroys what another ID's task relies on only in a package    *)
(* that it thereby undermines, and makes the installs under way outdated.   *)
LEMMA RemovalKeepsBuilt ==
  ASSUME WInv, WInv', BuiltInv, NEW w \in Workers, RemoveAll(w) \/ RemoveAllFails(w)
  PROVE  BuiltInv'
<1> DEFINE p == Home[task[w]]
<1>1. /\ pc[w] = "removing" /\ pc[w] \in Locked
      /\ UNCHANGED registryVars /\ UNCHANGED <<task, gen, check>>
  BY DEF RemoveAll, RemoveAllFails, Goto, Locked
<1>2. /\ pc'[w] \in {"setup", "report"} /\ (pc'[w] = "report" => w \in failed')
      /\ \A x \in Workers : x # w => pc'[x] = pc[x] /\ (x \in failed' <=> x \in failed)
  <2>1. \/ pc' = [pc EXCEPT ![w] = "setup"] /\ failed' = failed
        \/ pc' = [pc EXCEPT ![w] = "report"] /\ failed' = failed \cup {w}
    BY DEF RemoveAll, RemoveAllFails, Goto
  <2>2. pc \in [Workers -> Positions]
    BY DEF WInv, TypeOK
  <2> QED
    BY <2>1, <2>2
<1>3. /\ p \in Packages
      /\ \E v \in {"absent", "partial", "built"}, keeps \in BOOLEAN : Removal(w, p, v, keeps)
  BY WorkerRemoves
<1>4. /\ \/ venv'[p] = "built"
         \/ /\ p \in marker' => p \in undermined'
            /\ \A u \in registered : u # task[w] /\ Home[u] = p => p \in undermined'
      /\ \A q \in Packages : q # p => venv'[q] = venv[q] /\ (q \in undermined' <=> q \in undermined)
      /\ marker' \subseteq marker
      /\ outdated \subseteq outdated'
      /\ \A x \in Workers : pc[x] \in {"pip", "marking"} /\ Home[task[x]] = p => x \in outdated'
      /\ \A c \in Checks : check[c].at \in {"pip", "marking"} /\ check[c].pkg = p => c \in outdated'
  BY <1>3 DEF Removal, WInv, TypeOK
<1> HIDE DEF p
<1>5. ASSUME NEW q \in marker', q \notin undermined'
      PROVE  venv'[q] = "built"
  BY <1>4, <1>5 DEF BuiltInv, WInv, TypeOK
<1>6. ASSUME NEW x \in Workers, pc'[x] \in {"pip", "marking"}
      PROVE  Sound(x, pc[x], Home[task[x]])'
  <2>1. x # w /\ pc'[x] = pc[x] /\ Home[task[x]] \in Packages
    BY <1>1, <1>2, <1>6, ConstantsAssumption DEF WInv, WorkersHaveTasks, Working
  <2> QED
    BY <1>1, <1>4, <1>6, <2>1 DEF BuiltInv, Sound
<1>7. ASSUME NEW c \in Checks, check'[c].at \in {"pip", "marking"}
      PROVE  Sound(c, check[c].at, check[c].pkg)'
  <2>1. check'[c] = check[c] /\ check[c].pkg \in Packages
    BY <1>1, <1>7 DEF WInv, ChecksHavePackages
  <2> QED
    BY <1>1, <1>4, <1>7, <2>1 DEF BuiltInv, Sound
<1>8. ASSUME NEW x \in Workers, pc'[x] = "finishing", x \notin failed', Current(x)'
      PROVE  Home[task[x]] \in undermined' \/ venv'[Home[task[x]]] = "built"
  <2>1. x # w /\ pc[x] = "finishing" /\ x \notin failed
    BY <1>2, <1>8
  <2>2. /\ task[x] \in registered /\ Home[task[x]] \in Packages /\ Current(x)
    BY <1>1, <1>8, <2>1, ConstantsAssumption
    DEF Current, GenerationMatches, registryVars, WInv, TypeOK
  <2>3. task[x] # task[w]
    BY <1>1, <2>1, LockExcludes DEF Locked
  <2> QED
    BY <1>4, <2>1, <2>2, <2>3 DEF BuiltInv
<1>9. ASSUME NEW t \in registered, managed[t], state[t] = "ready", Home[t] \notin undermined'
      PROVE  venv'[Home[t]] = "built"
  <2>1. Home[t] \in Packages /\ task[w] # t
    BY <1>1, <1>9, ConstantsAssumption DEF WInv, TypeOK, BuiltInv
  <2> QED
    BY <1>4, <1>9, <2>1 DEF BuiltInv, ReadyMeansBuilt
<1>10. \A x \in Workers : /\ pc'[x] = "report" => x \in failed'
                          /\ pc'[x] = "removing" => pc[x] = "removing"
  BY <1>2 DEF BuiltInv
<1> QED
  BY <1>1, <1>5, <1>6, <1>7, <1>8, <1>9, <1>10 DEF BuiltInv, ReadyMeansBuilt, registryVars

LEMMA InstallKeepsBuilt ==
  ASSUME WInv, WInv', BuiltInv, NEW w \in Workers, Create(w) \/ Install(w) \/ Pip(w) \/ Mark(w)
  PROVE  BuiltInv'
<1> DEFINE p == Home[task[w]]
<1>1. UNCHANGED registryVars /\ UNCHANGED <<task, gen, check>>
  BY WorkerInstalls
<1>2. /\ pc[w] \in {"creating", "installing", "pip", "marking"}
      /\ pc'[w] \in {"installing", "pip", "marking", "finishing"}
      /\ \A x \in Workers : x # w => pc'[x] = pc[x] /\ (x \in failed' <=> x \in failed)
  BY DEF Create, Install, Pip, Mark, Goto, WInv, TypeOK
<1>3. p \in Packages /\ TypeOK
  BY <1>2, ConstantsAssumption DEF WInv, WorkersHaveTasks, Working
<1>4. \/ (Created(p) \/ CreationFails(p)) /\ UNCHANGED <<marker, outdated, undermined>>
      \/ PipSucceeds(w, p)
      \/ WriteMarker(w, p)
      \/ UNCHANGED <<venv, marker, undermined>> /\ outdated' \in {outdated, outdated \ {w}}
  BY DEF Create, Install, Pip, Mark, envVars
<1>5. /\ \A q \in Packages : /\ venv[q] = "built" => venv'[q] = "built"
                             /\ venv[q] # "absent" => venv'[q] # "absent"
      /\ undermined \subseteq undermined'
      /\ \A y : y # w => (y \in outdated' <=> y \in outdated)
      /\ \A q \in marker' : q \in marker \/ (q = p /\ WriteMarker(w, p))
  BY <1>3, <1>4, InstallSpoilsNothing
<1>6. ASSUME Mark(w), w \notin failed'
      PROVE  p \in undermined' \/ venv'[p] = "built"
  <2>1. WriteMarker(w, p) /\ Sound(w, "marking", p)
    BY <1>6 DEF Mark, Goto, BuiltInv
  <2> QED
    BY <1>3, <2>1, WroteMarker
<1>7. ASSUME NEW q \in marker', q \notin marker
      PROVE  q \in undermined' \/ venv'[q] = "built"
  <2>1. q = p /\ WriteMarker(w, p) /\ marker' # marker
    BY <1>5, <1>7
  <2>2. Mark(w)
    BY <2>1 DEF Create, Install, Pip, PipSucceeds, envVars
  <2>3. Sound(w, "marking", p)
    BY <2>2 DEF Mark, Goto, BuiltInv
  <2> QED
    BY <1>3, <2>1, <2>3, WroteMarker
<1>8. ASSUME pc'[w] \in {"pip", "marking"}
      PROVE  Sound(w, pc[w], Home[task[w]])'
  <2>1. CASE Create(w) \/ Mark(w)
    BY <1>8, <2>1 DEF Create, Mark, Goto, WInv, TypeOK
  <2>2. CASE Install(w)
    BY <1>8, <2>2 DEF Install, Goto, WInv, TypeOK, Sound
  <2>3. CASE Pip(w)
    <3>1. PipSucceeds(w, p) /\ pc'[w] = "marking" /\ Sound(w, "pip", p)
      BY <1>8, <2>3 DEF Pip, Goto, WInv, TypeOK, BuiltInv
    <3>2. Sound(w, "marking", p)'
      BY <1>1, <1>3, <3>1, PassedPip
    <3> QED
      BY <1>1, <3>1, <3>2
  <2> QED
    BY <2>1, <2>2, <2>3
<1>9. ASSUME pc'[w] = "finishing", w \notin failed'
      PROVE  p \in undermined' \/ venv'[p] = "built"
  <2>1. CASE Create(w) \/ Pip(w)
    BY <1>9, <2>1 DEF Create, Pip, Goto, WInv, TypeOK
  <2>2. CASE Install(w)
    BY <1>9, <2>2 DEF Install, Goto, WInv, TypeOK, BuiltInv
  <2> QED
    BY <1>6, <1>9, <2>1, <2>2
<1>10. \A x \in Workers : x # w => (Current(x)' <=> Current(x))
  BY <1>1 DEF Current, GenerationMatches, registryVars
<1>11. \A c \in Checks : c # w
  BY ConstantsAssumption
<1>12. \A q \in marker' : q \in marker \/ q \in undermined' \/ venv'[q] = "built"
  BY <1>7
<1>13. \A x \in Workers :
         /\ pc'[x] = "report" => x \in failed'
         /\ pc'[x] = "removing" => pc[x] = "removing" /\ task'[x] = task[x]
         /\ pc'[x] \in {"pip", "marking"} =>
              \/ pc'[x] = pc[x] /\ task'[x] = task[x] /\ (x \in outdated' <=> x \in outdated)
              \/ Sound(x, pc[x], Home[task[x]])'
         /\ pc'[x] = "finishing" /\ x \notin failed' /\ Current(x)' =>
              \/ pc[x] = "finishing" /\ x \notin failed /\ task'[x] = task[x] /\ Current(x)
              \/ Home[task'[x]] \in undermined'
              \/ venv'[Home[task'[x]]] = "built"
  <2> SUFFICES ASSUME NEW x \in Workers
               PROVE  /\ pc'[x] = "report" => x \in failed'
                      /\ pc'[x] = "removing" => pc[x] = "removing" /\ task'[x] = task[x]
                      /\ pc'[x] \in {"pip", "marking"} =>
                           \/ /\ pc'[x] = pc[x] /\ task'[x] = task[x]
                              /\ (x \in outdated' <=> x \in outdated)
                           \/ Sound(x, pc[x], Home[task[x]])'
                      /\ pc'[x] = "finishing" /\ x \notin failed' /\ Current(x)' =>
                           \/ /\ pc[x] = "finishing" /\ x \notin failed /\ task'[x] = task[x]
                              /\ Current(x)
                           \/ Home[task'[x]] \in undermined'
                           \/ venv'[Home[task'[x]]] = "built"
    OBVIOUS
  <2>1. CASE x = w
    BY <1>1, <1>2, <1>8, <1>9, <2>1
  <2>2. CASE x # w
    BY <1>1, <1>2, <1>5, <1>10, <2>2 DEF BuiltInv
  <2> QED
    BY <2>1, <2>2
<1>14. \A c \in Checks : check'[c] = check[c] /\ (c \in outdated' <=> c \in outdated)
  BY <1>1, <1>5, <1>11
<1> QED
  BY <1>1, <1>5, <1>12, <1>13, <1>14, NothingSpoiled DEF registryVars

(* The result that is stored as ready was reached under the lock.           *)
LEMMA SettlingKeepsBuilt ==
  ASSUME WInv, WInv', BuiltInv, NEW w \in Workers, FinishSetup(w) \/ ReportFailure(w)
  PROVE  BuiltInv'
<1>1. /\ Store(w) /\ pc[w] \in {"finishing", "report"} /\ pc' = [pc EXCEPT ![w] = "idle"]
      /\ UNCHANGED <<envVars, task, gen, failed, check, registered, managed, envGen>>
  BY DEF FinishSetup, ReportFailure, Goto, Store
<1>2. \A x \in Workers : pc'[x] # "idle" => pc'[x] = pc[x]
  BY <1>1 DEF WInv, TypeOK
<1>3. task[w] \in TaskIds
  BY <1>1 DEF WInv, WorkersHaveTasks, Working
<1>4. ASSUME NEW t \in registered, managed[t], state'[t] = "ready"
      PROVE  /\ Home[t] \notin undermined => venv[Home[t]] = "built"
             /\ \A x \in Workers : pc[x] = "removing" => task[x] # t
  <2>1. CASE state[t] = "ready"
    BY <1>4, <2>1 DEF BuiltInv, ReadyMeansBuilt
  <2>2. CASE state[t] # "ready"
    <3>1. t = task[w] /\ w \notin failed /\ GenerationMatches(w)
      BY <1>1, <1>4, <2>2 DEF Store, Outcome, WInv, TypeOK
    <3>2. pc[w] = "finishing" /\ Current(w)
      BY <1>1, <1>4, <3>1 DEF BuiltInv, Current
    <3>3. \A x \in Workers : x # w /\ pc[x] \in Locked => task[x] # task[w]
      BY <3>2, LockExcludes DEF Locked
    <3> QED
      BY <3>1, <3>2, <3>3 DEF BuiltInv, Locked
  <2> QED
    BY <2>1, <2>2
<1>5. \A x \in Workers : Current(x)' <=> Current(x)
  BY <1>1 DEF Current, GenerationMatches
<1> QED
  BY <1>1, <1>2, <1>4, <1>5 DEF BuiltInv, ReadyMeansBuilt, envVars, Sound

(* A managed task says ready only while its environment is complete or has  *)
(* been undermined, whatever rebuilds, reloads, removals, late workers and  *)
(* diagnostic checks do to it, for any IDs that share packages.             *)
THEOREM ReadyMeansBuiltTheorem == Spec => []ReadyMeansBuilt
<1>1. Init => BuiltInv
  BY DEF Init, BuiltInv, ReadyMeansBuilt, IdleCheck
<1>2. WInv /\ WInv' /\ BuiltInv /\ [Next]_vars => BuiltInv'
  <2> SUFFICES ASSUME WInv, WInv', BuiltInv, [Next]_vars PROVE BuiltInv'
    OBVIOUS
  <2>1. ASSUME NEW w \in Workers, WorkerStep(w) PROVE BuiltInv'
    BY <2>1, LocksKeepBuilt, RemovalKeepsBuilt, InstallKeepsBuilt, SettlingKeepsBuilt
    DEF WorkerStep
  <2>2. CASE UNCHANGED vars
    BY <2>2 DEF vars, BuiltInv, ReadyMeansBuilt, Sound, Current, GenerationMatches
  <2> QED
    BY <2>1, <2>2, RequestKeepsBuilt, CheckKeepsBuilt DEF Next
<1>3. BuiltInv => ReadyMeansBuilt
  BY DEF BuiltInv
<1> QED
  BY <1>1, <1>2, <1>3, WorkerInvariant, PTL DEF Spec

===============================================================================
