------------------------------ MODULE ProcessProofs ------------------------------
(***************************************************************************)
(* Proofs about processes: those of the daemon (Daemon), for any sets of   *)
(* daemons, probes and changes, and those of a run (ScriptRun), for any    *)
(* manifests, outputs and limits.                                          *)
(***************************************************************************)
EXTENDS Daemon, ScriptRun, SequenceTheorems, WellFoundedInduction, TLAPS

(* The daemon                                                               *)

(* A lock is held from its acquisition to its release, and only then; the   *)
(* name in the file is that of the holder.                                  *)
LockInv ==
  /\ \A d \in Daemons :
       /\ main[d] \in Named \cup {"locked", "truncated"} => holder = d
       /\ main[d] \in {"new", "returned", "exited"} => holder # d
       /\ main[d] \in Named => info = d
  /\ \A p \in Probes : probe[p] = "holding" => holder = p

(* The goroutine of the shutdown is at work while main serves or waits, and *)
(* the state is loaded when the tasks are imported, and not earlier.        *)
DownInv ==
  \A d \in Daemons :
    /\ down[d] \in {"waiting", "poller", "stuck", "terminate", "http", "draining", "persist"}
         => main[d] \in {"serving", "stopped"}
    /\ main[d] \in {"new", "locked", "restore"} => d \notin loaded
    /\ main[d] = "importing" => d \in loaded

(* A daemon that loaded has the file in its memory while it holds the lock, *)
(* but for the tasks it has not imported.                                   *)
StateInv ==
  ~spoiled =>
    \A d \in loaded :
      main[d] \in {"importing", "start", "serving", "stopped", "truncated"} =>
        file \subseteq mem[d] \cup pending[d] \cup failed[d]

IInv == TypeOK /\ LockInv /\ DownInv /\ StateInv

LEMMA InitIInv == Init => IInv
<1> SUFFICES ASSUME Init PROVE IInv
  OBVIOUS
<1>1. TypeOK
  BY DEF Init, TypeOK
<1>2. LockInv
  BY ProcessesAssumption DEF Init, LockInv, Named
<1>3. DownInv
  BY DEF Init, DownInv
<1>4. StateInv
  BY DEF Init, StateInv
<1> QED
  BY <1>1, <1>2, <1>3, <1>4 DEF IInv

(* One lemma per conjunct.  Every action changes main, down and the lock in *)
(* one daemon or probe; the others are told apart by the holder.            *)
LEMMA NextTypeOK == TypeOK /\ [Next]_vars => TypeOK'
<1> SUFFICES ASSUME TypeOK, [Next]_vars PROVE TypeOK'
  OBVIOUS
<1> USE DEF TypeOK, lockVars, restoreVars, stateVars, serverVars, Goes, ShutdownGoes, Gone, Saves
<1>1. CASE UNCHANGED vars
  BY <1>1 DEF vars
<1>2. ASSUME NEW d \in Daemons, Start(d) PROVE TypeOK'
  <2>1. CASE Lock(d) \/ Refused(d) \/ WriteInfo(d)
    BY <2>1 DEF Lock, Refused, WriteInfo
  <2>2. CASE WriteInfoFails(d)
    BY <2>2 DEF WriteInfoFails
  <2>3. CASE Restore(d)
    BY <2>3, ProcessesAssumption DEF Restore
  <2>4. CASE RestoreFails(d) \/ RestoreReturns(d)
    BY <2>4 DEF RestoreFails, RestoreReturns
  <2>5. ASSUME NEW t \in Tasks, ImportTask(d, t) PROVE TypeOK'
    BY <2>5, ProcessesAssumption DEF ImportTask
  <2>6. CASE Serve(d)
    BY <2>6 DEF Serve
  <2> QED
    BY <1>2, <2>1, <2>2, <2>3, <2>4, <2>5, <2>6 DEF Start
<1>3. ASSUME NEW d \in Daemons, ListenFails(d) \/ Exit(d) \/ Crash(d) PROVE TypeOK'
  BY <1>3 DEF ListenFails, Exit, Crash
<1>4. ASSUME NEW d \in Daemons, NEW c \in Changes, Change(d, c) PROVE TypeOK'
  BY <1>4 DEF Change
<1>5. ASSUME NEW d \in Daemons, Persist(d) PROVE TypeOK'
  BY <1>5 DEF Persist
<1>6. ASSUME NEW d \in Daemons, NEW c \in Connections, Connect(d, c) \/ Disconnect(d, c)
      PROVE TypeOK'
  BY <1>6 DEF Connect, Disconnect
<1>7. ASSUME NEW d \in Daemons, Signal(d) \/ ShutdownStep(d) PROVE TypeOK'
  BY <1>7 DEF Signal, ShutdownStep, StopPoller, TerminateActiveRuns, CloseListener, Drain,
     FinalPersist
<1>8. ASSUME NEW d \in Daemons, ServeReturns(d) \/ Release(d) PROVE TypeOK'
  BY <1>8 DEF ServeReturns, Release
<1>9. ASSUME NEW p \in Probes, ProbeLock(p) \/ ProbeUnlock(p) PROVE TypeOK'
  BY <1>9 DEF ProbeLock, ProbeUnlock
<1> QED
  BY <1>1, <1>2, <1>3, <1>4, <1>5, <1>6, <1>7, <1>8, <1>9 DEF Next, MainStep

LEMMA NextLockInv == TypeOK /\ LockInv /\ [Next]_vars => LockInv'
<1> SUFFICES ASSUME TypeOK, LockInv, [Next]_vars PROVE LockInv'
  OBVIOUS
<1> USE ProcessesAssumption DEF LockInv, Named, lockVars, Goes, Gone
<1>1. CASE UNCHANGED vars
  BY <1>1 DEF vars
<1>2. ASSUME NEW d \in Daemons, Lock(d) PROVE LockInv'
  BY <1>2 DEF Lock, TypeOK
<1>3. ASSUME NEW d \in Daemons, NEW t,
             \/ Refused(d) \/ Restore(d) \/ RestoreFails(d) \/ RestoreReturns(d)
             \/ ImportTask(d, t) \/ Serve(d)
      PROVE LockInv'
  BY <1>3 DEF Refused, Restore, RestoreFails, RestoreReturns, ImportTask, Serve, TypeOK
<1>4. ASSUME NEW d \in Daemons, WriteInfo(d) PROVE LockInv'
  BY <1>4 DEF WriteInfo, TypeOK
<1>5. ASSUME NEW d \in Daemons, WriteInfoFails(d) PROVE LockInv'
  BY <1>5 DEF WriteInfoFails, TypeOK
<1>6. ASSUME NEW d \in Daemons, ListenFails(d) \/ Exit(d) \/ Crash(d) PROVE LockInv'
  BY <1>6 DEF ListenFails, Exit, Crash, TypeOK
<1>7. ASSUME NEW d \in Daemons, Release(d) PROVE LockInv'
  BY <1>7 DEF Release, TypeOK
<1>8. ASSUME NEW d \in Daemons, ServeReturns(d) PROVE LockInv'
  BY <1>8 DEF ServeReturns, TypeOK
<1>9. ASSUME NEW p \in Probes, ProbeLock(p) \/ ProbeUnlock(p) PROVE LockInv'
  BY <1>9 DEF ProbeLock, ProbeUnlock, TypeOK
<1>10. ASSUME UNCHANGED <<holder, info, main, probe>> PROVE LockInv'
  BY <1>10
<1>11. ASSUME NEW d \in Daemons, NEW c,
              Change(d, c) \/ Persist(d) \/ Connect(d, c) \/ Disconnect(d, c) \/ Signal(d)
                \/ ShutdownStep(d)
       PROVE LockInv'
  BY <1>10, <1>11 DEF Change, Persist, Connect, Disconnect, Signal, ShutdownStep, StopPoller,
     TerminateActiveRuns, CloseListener, Drain, FinalPersist
<1> QED
  BY <1>1, <1>2, <1>3, <1>4, <1>5, <1>6, <1>7, <1>8, <1>9, <1>11 DEF Next, Start, MainStep

LEMMA NextDownInv == TypeOK /\ DownInv /\ [Next]_vars => DownInv'
<1> SUFFICES ASSUME TypeOK, DownInv, [Next]_vars PROVE DownInv'
  OBVIOUS
<1> USE DEF DownInv, Goes, ShutdownGoes, Gone, TypeOK, stateVars, restoreVars
<1>1. CASE UNCHANGED vars
  BY <1>1 DEF vars
<1>2. ASSUME NEW d \in Daemons, Start(d) PROVE DownInv'
  BY <1>2 DEF Start, Lock, Refused, WriteInfo, WriteInfoFails, Restore, RestoreFails,
     RestoreReturns, ImportTask, Serve
<1>3. ASSUME NEW d \in Daemons, ListenFails(d) \/ Exit(d) \/ Crash(d) PROVE DownInv'
  BY <1>3 DEF ListenFails, Exit, Crash
<1>4. ASSUME NEW d \in Daemons, Signal(d) \/ ShutdownStep(d) PROVE DownInv'
  BY <1>4 DEF Signal, ShutdownStep, StopPoller, TerminateActiveRuns, CloseListener, Drain,
     FinalPersist
<1>5. ASSUME NEW d \in Daemons, ServeReturns(d) \/ Release(d) PROVE DownInv'
  BY <1>5 DEF ServeReturns, Release, ShutdownAwaited
<1>6. ASSUME UNCHANGED <<main, down, loaded>> PROVE DownInv'
  BY <1>6
<1>7. ASSUME NEW d \in Daemons, NEW c,
             Change(d, c) \/ Persist(d) \/ Connect(d, c) \/ Disconnect(d, c)
      PROVE DownInv'
  BY <1>6, <1>7 DEF Change, Persist, Connect, Disconnect
<1>8. ASSUME NEW p \in Probes, ProbeLock(p) \/ ProbeUnlock(p) PROVE DownInv'
  BY <1>6, <1>8 DEF ProbeLock, ProbeUnlock
<1> QED
  BY <1>1, <1>2, <1>3, <1>4, <1>5, <1>7, <1>8 DEF Next, MainStep

(* Whoever saves holds the lock and has loaded, or spoils, and what is in   *)
(* the file then is in its memory.                                          *)
LEMMA NextStateInv == IInv /\ [Next]_vars => StateInv'
<1> SUFFICES ASSUME IInv, [Next]_vars PROVE StateInv'
  OBVIOUS
<1> USE DEF IInv, TypeOK, StateInv, stateVars, restoreVars, Goes
<1>1. CASE UNCHANGED vars
  BY <1>1 DEF vars
<1>2. ASSUME NEW d \in Daemons, Lock(d) \/ Refused(d) \/ WriteInfo(d) PROVE StateInv'
  BY <1>2 DEF Lock, Refused, WriteInfo, LockInv, Named
<1>3. ASSUME NEW d \in Daemons, Restore(d) PROVE StateInv'
  BY <1>3 DEF Restore
<1>4. ASSUME NEW d \in Daemons, RestoreFails(d) PROVE StateInv'
  BY <1>4 DEF RestoreFails, DownInv
<1>5. ASSUME NEW d \in Daemons, d \in loaded, Saves(d),
             UNCHANGED <<mem, pending, failed, loaded>>, spoiled => spoiled',
             main[d] \in {"importing", "start", "serving", "stopped", "truncated"},
             \A e \in Daemons : main'[e] = main[e] \/ e = d
      PROVE  StateInv'
  BY <1>5 DEF Saves, LockInv, Named
<1>6. ASSUME NEW d \in Daemons, RestoreReturns(d) \/ Serve(d) PROVE StateInv'
  <2>1. UNCHANGED <<mem, pending, failed, loaded, spoiled>>
        /\ main[d] \in {"importing", "start"}
        /\ main' = [main EXCEPT ![d] = IF main[d] = "importing" THEN "start" ELSE "serving"]
    BY <1>6 DEF RestoreReturns, Serve
  <2>2. CASE d \in loaded /\ Saves(d)
    BY <1>5, <2>1, <2>2
  <2>3. CASE UNCHANGED file
    BY <2>1, <2>3
  <2>4. CASE d \notin loaded /\ Saves(d) /\ RestoreReturns(d)
    BY <2>4 DEF RestoreReturns, DownInv
  <2> QED
    BY <1>6, <2>2, <2>3, <2>4 DEF RestoreReturns, Serve
<1>7. ASSUME NEW d \in Daemons, Persist(d) PROVE StateInv'
  <2>1. CASE d \in loaded /\ holder = d
    <3>1. main[d] \in {"importing", "start", "serving", "stopped", "truncated"}
      BY <1>7, <2>1 DEF Persist, Works, SetsUp, LockInv
    <3> QED
      BY <1>5, <1>7, <2>1, <3>1 DEF Persist
  <2>2. CASE ~(d \in loaded /\ holder = d)
    BY <1>7, <2>2 DEF Persist
  <2> QED
    BY <2>1, <2>2
<1>8. ASSUME NEW d \in Daemons, FinalPersist(d) PROVE StateInv'
  <2>1. CASE d \in loaded /\ Saves(d)
    <3>1. main[d] \in {"serving", "stopped"}
      BY <1>8 DEF FinalPersist, ShutdownGoes, DownInv
    <3> QED
      BY <1>5, <1>8, <2>1, <3>1 DEF FinalPersist
  <2>2. CASE d \notin loaded /\ spoiled' = (spoiled \/ d \notin loaded)
    BY <2>2
  <2>3. CASE UNCHANGED <<file, spoiled>>
    BY <1>8, <2>3 DEF FinalPersist
  <2> QED
    BY <1>8, <2>1, <2>2, <2>3 DEF FinalPersist
<1>9. ASSUME NEW d \in Daemons, NEW c \in Changes, Change(d, c) PROVE StateInv'
  BY <1>9 DEF Change
<1>10. ASSUME NEW d \in Daemons, ServeReturns(d) \/ Release(d) PROVE StateInv'
  BY <1>10 DEF ServeReturns, Release
<1>11. ASSUME NEW d \in Daemons, WriteInfoFails(d) \/ ListenFails(d) \/ Exit(d) \/ Crash(d)
       PROVE StateInv'
  <2>1. Gone(d)
    BY <1>11 DEF WriteInfoFails, ListenFails, Exit, Crash
  <2> QED
    BY <2>1 DEF Gone
<1>12. ASSUME UNCHANGED <<stateVars, main>> PROVE StateInv'
  BY <1>12
<1>13. ASSUME NEW d \in Daemons, NEW c,
              Connect(d, c) \/ Disconnect(d, c) \/ Signal(d) \/ StopPoller(d)
                \/ TerminateActiveRuns(d) \/ CloseListener(d) \/ Drain(d)
       PROVE StateInv'
  BY <1>12, <1>13 DEF Connect, Disconnect, Signal, StopPoller, TerminateActiveRuns,
     CloseListener, Drain
<1>14. ASSUME NEW p \in Probes, ProbeLock(p) \/ ProbeUnlock(p) PROVE StateInv'
  BY <1>12, <1>14 DEF ProbeLock, ProbeUnlock
<1>15. ASSUME NEW d \in Daemons, NEW t \in Tasks, ImportTask(d, t) PROVE StateInv'
  BY <1>15 DEF ImportTask
<1> QED
  BY <1>1, <1>2, <1>3, <1>4, <1>6, <1>7, <1>8, <1>9, <1>10, <1>11, <1>13, <1>14, <1>15
     DEF Next, Start, ShutdownStep, MainStep

(* The inductive invariant of Daemon.                                       *)
THEOREM DaemonInvariant == Spec => []IInv
<1>1. IInv /\ [Next]_vars => IInv'
  BY NextTypeOK, NextLockInv, NextDownInv, NextStateInv DEF IInv
<1> QED
  BY InitIInv, <1>1, PTL DEF Spec

(* Whatever daemons and probes start, end and die at a time, the daemon     *)
(* that serves holds the lock, and daemon.lock tells its port.              *)
THEOREM HolderIsNamedTheorem == Spec => []HolderIsNamed
<1>1. IInv => HolderIsNamed
  BY DEF IInv, LockInv, HolderIsNamed
<1> QED
  BY <1>1, DaemonInvariant, PTL

(* A save that takes something out of the file is one of those that spoil,  *)
(* or takes tasks out that the holder of the lock has not imported.         *)
LEMMA SavesKeep ==
  IInv /\ [Next]_vars =>
    spoiled' \/ \A c \in file \ file' :
      \E d \in Daemons : holder = d /\ c \in pending[d] \cup failed[d]
<1> SUFFICES ASSUME IInv, [Next]_vars, ~spoiled', NEW c \in file \ file'
             PROVE  \E d \in Daemons : holder = d /\ c \in pending[d] \cup failed[d]
  OBVIOUS
<1> USE DEF IInv, TypeOK, stateVars, restoreVars, Goes
<1>1. ASSUME NEW d \in Daemons, Saves(d), d \in loaded, holder = d, ~spoiled,
             main[d] \in {"importing", "start", "serving", "stopped", "truncated"}
      PROVE  \E e \in Daemons : holder = e /\ c \in pending[e] \cup failed[e]
  BY <1>1 DEF StateInv, Saves
<1>2. ASSUME NEW d \in Daemons, RestoreReturns(d) \/ Serve(d)
      PROVE  \E e \in Daemons : holder = e /\ c \in pending[e] \cup failed[e]
  <2>1. main[d] \in {"importing", "start"} /\ holder = d /\ ~spoiled
    BY <1>2 DEF RestoreReturns, Serve, LockInv, Named
  <2>2. Saves(d) /\ d \in loaded
    BY <1>2 DEF RestoreReturns, Serve, DownInv
  <2> QED
    BY <1>1, <2>1, <2>2
<1>3. ASSUME NEW d \in Daemons, Persist(d)
      PROVE  \E e \in Daemons : holder = e /\ c \in pending[e] \cup failed[e]
  <2>1. Saves(d) /\ d \in loaded /\ holder = d /\ ~spoiled
    BY <1>3 DEF Persist
  <2>2. main[d] \in {"importing", "start", "serving", "stopped", "truncated"}
    BY <1>3, <2>1 DEF Persist, Works, SetsUp, LockInv
  <2> QED
    BY <1>1, <2>1, <2>2
<1>4. ASSUME NEW d \in Daemons, FinalPersist(d)
      PROVE  \E e \in Daemons : holder = e /\ c \in pending[e] \cup failed[e]
  <2>1. Saves(d) /\ d \in loaded /\ ~spoiled
    BY <1>4 DEF FinalPersist
  <2>2. main[d] \in {"serving", "stopped"} /\ holder = d
    BY <1>4 DEF FinalPersist, ShutdownGoes, DownInv, LockInv, Named
  <2> QED
    BY <1>1, <2>1, <2>2
<1>5. ~UNCHANGED file
  OBVIOUS
<1>6. ASSUME NEW d \in Daemons, NEW t,
             \/ Lock(d) \/ Refused(d) \/ WriteInfo(d) \/ Restore(d) \/ RestoreFails(d)
             \/ ImportTask(d, t) \/ Change(d, t) \/ Connect(d, t) \/ Disconnect(d, t)
             \/ Signal(d) \/ StopPoller(d) \/ TerminateActiveRuns(d) \/ CloseListener(d) \/ Drain(d)
             \/ ServeReturns(d) \/ Release(d)
      PROVE  FALSE
  BY <1>5, <1>6 DEF Lock, Refused, WriteInfo, Restore, RestoreFails, ImportTask, Change, Connect,
     Disconnect, Signal, StopPoller, TerminateActiveRuns, CloseListener, Drain, ServeReturns, Release
<1>7. ASSUME NEW d \in Daemons, WriteInfoFails(d) \/ ListenFails(d) \/ Exit(d) \/ Crash(d)
      PROVE  FALSE
  BY <1>5, <1>7 DEF WriteInfoFails, ListenFails, Exit, Crash, Gone
<1>8. ASSUME NEW p \in Probes, ProbeLock(p) \/ ProbeUnlock(p) PROVE FALSE
  BY <1>5, <1>8 DEF ProbeLock, ProbeUnlock
<1>9. CASE UNCHANGED vars
  BY <1>5, <1>9 DEF vars
<1> QED
  BY <1>2, <1>3, <1>4, <1>6, <1>7, <1>8, <1>9 DEF Next, Start, ShutdownStep, MainStep

(* Nothing that was saved is lost across restarts, except tasks that the    *)
(* next daemon has not imported (engine.go:164), and through a save after   *)
(* Release or by a daemon that could not load (main.go:64, 97).              *)
THEOREM SavedIsKeptTheorem == Spec => SavedIsKept
<1>1. IInv /\ [Next]_vars =>
        [spoiled' \/ \A c \in file \ file' :
           \E d \in Daemons : holder = d /\ c \in pending[d] \cup failed[d]]_vars
  BY SavesKeep
<1> QED
  BY <1>1, DaemonInvariant, PTL DEF Spec, SavedIsKept

-------------------------------------------------------------------------------
(* A run                                                                    *)

Before  == {"prepare", "browser", "start"}
Running == {"report", "refused", "gate", "select", "grace", "await", "cleanup"}
Cleaned == {"scan", "verdict"}
Ended   == {"directory", "finish", "returned"}

RunTypes ==
  /\ pc \in Before \cup Running \cup Cleaned \cup Ended
  /\ procs \subseteq Processes
  /\ exit \in {None, "ok", "error", "killed"}
  /\ \A b \in {deadline, timedOut, canceled, dir, scanned} : b \in BOOLEAN
  /\ reaper \in {"idle", "killing", "removing", "done"}
  /\ setup.isolated \in BOOLEAN
  /\ DOMAIN outcome = DOMAIN NoOutcome

(* The group is there from the launch to the clean-up at most, and no other *)
(* process outlives it unless the scan is not done.                         *)
ProcsInv ==
  /\ pc \in Before => procs = {} /\ exit = None
  /\ pc \in Running \cup Cleaned => "root" \in procs \/ exit # None
  /\ pc \in Cleaned \cup Ended => procs \cap Group = {}
  /\ scanned => pc \in {"verdict"} \cup Ended /\ "detached" \notin procs
  /\ pc \in Ended /\ exit = None => procs = {}

(* The deadline counts before the request.                                  *)
InterruptInv ==
  /\ timedOut => deadline
  /\ canceled => ~timedOut
  /\ pc \in Before \cup {"report", "refused", "gate"} => ~timedOut
  /\ pc \in Before \cup {"report", "refused", "gate", "select"} => ~canceled

(* The record of a run that has ended, by whatever way it did.              *)
RecordInv ==
  pc \in Ended =>
    /\ outcome.timedOut \/ outcome.canceled => outcome.status = "failure"
    /\ exit = "killed" /\ outcome.result = None => outcome.status = "failure"
    /\ outcome.canceled => outcome.result # None /\ ~outcome.timedOut
    /\ outcome.retained /\ outcome.status = "success" => setup.browser.cleanup = "keep_always"

(* The run directory is there until the end, as long as nobody cleans up    *)
(* from outside.                                                            *)
DirectoryInv ==
  reaper = "idle" =>
    /\ pc \in {"browser", "start"} \cup Running \cup Cleaned => dir = setup.isolated
    /\ pc = "directory" /\ outcome.runDir => dir /\ outcome.removal = None
    /\ pc \in {"finish", "returned"} /\ outcome.runDir
         => dir = (outcome.retained \/ outcome.removal = "failed")

RInv == RunTypes /\ ProcsInv /\ InterruptInv /\ RecordInv /\ DirectoryInv

LEMMA InitRInv == RunInit => RInv
<1> SUFFICES ASSUME RunInit PROVE RInv
  OBVIOUS
<1>1. setup.isolated \in BOOLEAN
  <2>1. PICK m \in Manifests : setup = Setup(m)
    BY DEF RunInit
  <2>2. setup.isolated = m.isolated
    BY <2>1, ManifestsAssumption DEF Setup, Defaults
  <2> QED
    BY <2>2, ManifestsAssumption
<1>2. RunTypes
  BY <1>1 DEF RunInit, RunTypes, Before, NoOutcome
<1> QED
  BY <1>2 DEF RunInit, RInv, ProcsInv, InterruptInv, RecordInv, DirectoryInv, Before, Running,
    Cleaned, Ended

(* What a record says of a run, and when its directory is retained.         *)
LEMMA OutcomeFacts ==
  ASSUME NEW e, NEW r, NEW runDir, NEW copyFailed, NEW o, o = Outcome(e, r, runDir, copyFailed)
  PROVE  /\ DOMAIN o = DOMAIN NoOutcome
         /\ o.result = r /\ o.timedOut = timedOut /\ o.canceled = canceled
         /\ o.runDir = runDir /\ o.removal = None
         /\ timedOut \/ canceled => o.status = "failure"
         /\ r = None /\ e # 0 => o.status = "failure"
         /\ ~copyFailed /\ o.retained /\ o.status = "success"
              => setup.browser.cleanup = "keep_always"
<1> DEFINE p == [exitCode |-> e, result |-> r, timedOut |-> timedOut, canceled |-> canceled]
<1>1. /\ timedOut \/ canceled => Status(p) = "failure"
      /\ r = None /\ e # 0 => Status(p) = "failure"
  BY DEF Status
<1>2. ~copyFailed /\ Retains(Status(p), copyFailed) /\ Status(p) = "success"
        => setup.browser.cleanup = "keep_always"
  BY DEF Retains
<1>3. o = [exitCode |-> e, result |-> r, timedOut |-> timedOut, canceled |-> canceled,
           status |-> Status(p), runDir |-> runDir, retained |-> Retains(Status(p), copyFailed),
           removal |-> None]
  BY DEF Outcome
<1> HIDE DEF p
<1> QED
  BY <1>1, <1>2, <1>3 DEF NoOutcome

(* The record of a run that could not be launched.                          *)
LEMMA FailKeeps ==
  ASSUME RInv, NEW runDir, NEW copyFailed, Fail(runDir, copyFailed), pc \in Before,
         UNCHANGED <<setup, procs, exit, deadline, timedOut, canceled, scanned, reaper>>,
         dir' \in BOOLEAN, reaper = "idle" /\ runDir => dir'
  PROVE  RInv'
<1> DEFINE o == Outcome(-1, None, runDir, copyFailed)
<1>1. outcome' = o /\ pc' = "directory"
  BY DEF Fail
<1>2. /\ DOMAIN o = DOMAIN NoOutcome /\ o.runDir = runDir /\ o.removal = None
      /\ o.canceled = canceled /\ o.status = "failure"
  BY OutcomeFacts
<1> HIDE DEF o
<1>3. RunTypes'
  BY <1>1, <1>2 DEF RInv, RunTypes, Before, Ended
<1>4. ProcsInv' /\ InterruptInv'
  BY <1>1 DEF RInv, ProcsInv, InterruptInv, Before, Running, Cleaned, Ended
<1>5. RecordInv' /\ DirectoryInv'
  BY <1>1, <1>2 DEF RInv, InterruptInv, RecordInv, DirectoryInv, Before, Running, Cleaned, Ended
<1> QED
  BY <1>3, <1>4, <1>5 DEF RInv

(* Up to the launch.                                                        *)
LEMMA LaunchKeeps ==
  ASSUME RInv, Prepare \/ PrepareFails \/ PrepareBrowser \/ Launch \/ LaunchFails
  PROVE  RInv'
<1> USE DEF RunnerUnchanged, engineVars, verdictVars, waitVars
<1>1. CASE Prepare
  BY <1>1 DEF Prepare, RInv, RunTypes, ProcsInv, InterruptInv, RecordInv, DirectoryInv, Before,
    Running, Cleaned, Ended
<1>2. CASE PrepareFails
  BY <1>2, FailKeeps DEF PrepareFails, Before
<1>3. CASE PrepareBrowser
  <2>1. CASE pc' = "start" /\ UNCHANGED outcome
    BY <1>3, <2>1 DEF PrepareBrowser, RInv, RunTypes, ProcsInv, InterruptInv, RecordInv,
      DirectoryInv, Before, Running, Cleaned, Ended
  <2>2. CASE Fail(setup.isolated, TRUE)
    <3>1. dir' \in BOOLEAN /\ (reaper = "idle" /\ setup.isolated => dir')
      BY <1>3 DEF PrepareBrowser, RInv, RunTypes, DirectoryInv
    <3> QED
      BY <1>3, <2>2, <3>1, FailKeeps DEF PrepareBrowser, Before
  <2> QED
    BY <1>3, <2>1, <2>2 DEF PrepareBrowser
<1>4. CASE Launch
  BY <1>4 DEF Launch, RInv, RunTypes, ProcsInv, InterruptInv, RecordInv, DirectoryInv, Before,
    Running, Cleaned, Ended, Processes, Group
<1>5. CASE LaunchFails
  <2>1. dir' \in BOOLEAN /\ (reaper = "idle" /\ setup.isolated => dir')
    BY <1>5 DEF LaunchFails, RInv, RunTypes, DirectoryInv, Before
  <2> QED
    BY <1>5, <2>1, FailKeeps DEF LaunchFails, Before
<1> QED
  BY <1>1, <1>2, <1>3, <1>4, <1>5

(* While the script runs.                                                   *)
LEMMA RunningKeeps ==
  ASSUME RInv, Report \/ OpenGate \/ SelectExit \/ SelectDone \/ GraceEnds \/ Await \/ CleanUp
  PROVE  RInv'
<1> USE DEF RunnerUnchanged, engineVars, verdictVars, waitVars, RInv
<1>1. RunTypes'
  BY DEF Report, OpenGate, SelectExit, SelectDone, GraceEnds, Await, CleanUp, GroupKilled,
    RunTypes, Running, Cleaned
<1>2. ProcsInv'
  BY DEF Report, OpenGate, SelectExit, SelectDone, GraceEnds, Await, CleanUp, GroupKilled,
    ProcsInv, Before, Running, Cleaned, Ended, Group, None
<1>3. InterruptInv'
  BY DEF Report, OpenGate, SelectExit, SelectDone, GraceEnds, Await, CleanUp, InterruptInv,
    RunTypes, Before
<1>4. RecordInv' /\ DirectoryInv'
  BY DEF Report, OpenGate, SelectExit, SelectDone, GraceEnds, Await, CleanUp, RecordInv,
    DirectoryInv, Running, Cleaned, Ended
<1> QED
  BY <1>1, <1>2, <1>3, <1>4

(* The record of a run that was launched.                                   *)
LEMMA VerdictKeeps ==
  ASSUME RInv, NEW e, NEW r, outcome' = Outcome(e, r, setup.isolated, FALSE),
         exit = "killed" /\ r = None => e # 0, canceled => r # None,
         pc = "verdict", pc' = "directory",
         UNCHANGED <<setup, procs, exit, deadline, timedOut, canceled, scanned, reaper, dir>>
  PROVE  RInv'
<1> DEFINE o == Outcome(e, r, setup.isolated, FALSE)
<1>0. PICK no : no = FALSE
  OBVIOUS
<1>1. /\ DOMAIN o = DOMAIN NoOutcome
      /\ o.result = r /\ o.timedOut = timedOut /\ o.canceled = canceled
      /\ o.runDir = setup.isolated /\ o.removal = None
      /\ timedOut \/ canceled => o.status = "failure"
      /\ r = None /\ e # 0 => o.status = "failure"
      /\ o.retained /\ o.status = "success" => setup.browser.cleanup = "keep_always"
  <2>1. o = Outcome(e, r, setup.isolated, no)
    BY <1>0
  <2> HIDE DEF o
  <2> QED
    BY <1>0, <2>1, OutcomeFacts
<1>2. outcome' = o
  OBVIOUS
<1> HIDE DEF o
<1>3. RunTypes'
  BY <1>1, <1>2 DEF RInv, RunTypes, Ended
<1>4. ProcsInv' /\ InterruptInv'
  BY DEF RInv, ProcsInv, InterruptInv, Before, Running, Cleaned, Ended, Group
<1>5. RecordInv'
  BY <1>1, <1>2 DEF RInv, InterruptInv, RecordInv
<1>6. DirectoryInv'
  BY <1>1, <1>2 DEF RInv, RunTypes, DirectoryInv, Running, Cleaned
<1> QED
  BY <1>3, <1>4, <1>5, <1>6 DEF RInv

(* Scan, the record and the directory.                                      *)
LEMMA EndKeeps == ASSUME RInv, Scan \/ Verdict \/ LeaveDirectory \/ Finish PROVE RInv'
<1> USE DEF RunnerUnchanged, engineVars, verdictVars, waitVars
<1>1. CASE Scan
  BY <1>1 DEF Scan, RInv, RunTypes, ProcsInv, InterruptInv, RecordInv, DirectoryInv, Before,
    Running, Cleaned, Ended
<1>2. CASE Verdict
  <2> DEFINE parsed == ParseResult(last)
  <2>1. CASE canceled /\ parsed = None
    <3>1. PICK e, r : e = 130 /\ r = "failure"
      OBVIOUS
    <3>2. outcome' = Outcome(e, r, setup.isolated, FALSE)
      BY <1>2, <2>1, <3>1 DEF Verdict, ScriptOutcome
    <3>3. e # 0 /\ r # None
      BY <3>1 DEF None
    <3> QED
      BY <1>2, <3>2, <3>3, VerdictKeeps DEF Verdict
  <2>2. CASE ~(canceled /\ parsed = None)
    <3>1. PICK e, r : e = ExitCode[exit] /\ r = parsed
      OBVIOUS
    <3>2. outcome' = Outcome(e, r, setup.isolated, FALSE)
      BY <1>2, <2>2, <3>1 DEF Verdict, ScriptOutcome
    <3>3. exit = "killed" => e # 0
      BY <3>1 DEF ExitCode
    <3>4. canceled => r # None
      BY <2>2, <3>1
    <3> HIDE DEF parsed
    <3> QED
      BY <1>2, <3>2, <3>3, <3>4, VerdictKeeps DEF Verdict
  <2> QED
    BY <2>1, <2>2
<1>3. CASE LeaveDirectory
  <2>1. ProcsInv' /\ InterruptInv'
    BY <1>3 DEF LeaveDirectory, RInv, ProcsInv, InterruptInv, Before, Running, Cleaned, Ended
  <2>2. CASE outcome.runDir /\ ~outcome.retained
    <3>1. PICK ok \in BOOLEAN :
            /\ dir' = (dir /\ ~ok)
            /\ outcome' = [outcome EXCEPT !.removal = IF ok THEN "removed" ELSE "failed"]
      BY <1>3, <2>2 DEF LeaveDirectory
    <3>2. /\ DOMAIN outcome' = DOMAIN outcome
          /\ outcome'.removal = IF ok THEN "removed" ELSE "failed"
          /\ \A f \in {"result", "timedOut", "canceled", "status", "runDir", "retained"} :
               outcome'[f] = outcome[f]
      BY <3>1 DEF RInv, RunTypes, NoOutcome
    <3>3. RunTypes'
      BY <1>3, <3>1, <3>2 DEF LeaveDirectory, RInv, RunTypes, Ended
    <3>4. RecordInv'
      BY <1>3, <3>2 DEF LeaveDirectory, RInv, RecordInv, Ended
    <3>5. DirectoryInv'
      BY <1>3, <2>2, <3>1, <3>2 DEF LeaveDirectory, RInv, RunTypes, DirectoryInv, Running, Cleaned
    <3> QED
      BY <2>1, <3>3, <3>4, <3>5 DEF RInv
  <2>3. CASE ~(outcome.runDir /\ ~outcome.retained)
    <3>1. UNCHANGED <<dir, outcome>>
      BY <1>3, <2>3 DEF LeaveDirectory
    <3>2. RunTypes' /\ RecordInv'
      BY <1>3, <3>1 DEF LeaveDirectory, RInv, RunTypes, RecordInv, Ended
    <3>3. DirectoryInv'
      BY <1>3, <2>3, <3>1 DEF LeaveDirectory, RInv, RunTypes, DirectoryInv, Running, Cleaned
    <3> QED
      BY <2>1, <3>2, <3>3 DEF RInv
  <2> QED
    BY <2>2, <2>3
<1>4. CASE Finish
  BY <1>4 DEF Finish, RInv, RunTypes, ProcsInv, InterruptInv, RecordInv, DirectoryInv, Before,
    Running, Cleaned, Ended
<1> QED
  BY <1>1, <1>2, <1>3, <1>4

(* Nobody else brings a process back once the group is gone, and whoever    *)
(* cleans up from outside is never idle again.                              *)
LEMMA OthersKeep ==
  ASSUME RInv, \/ ScriptNext \/ OutputNext \/ WaitReturns \/ DeadlinePasses \/ EngineNext
               \/ ReaperNext \/ UNCHANGED runVars
  PROVE  RInv'
<1> DEFINE Same == UNCHANGED <<setup, pc, timedOut, canceled, scanned, outcome>>
<1> USE DEF engineVars, verdictVars, waitVars, captureVars
<1>1. ASSUME Same, UNCHANGED <<procs, exit, dir>>, deadline => deadline', deadline' \in BOOLEAN,
             reaper' \in {"idle", "killing", "removing", "done"}, reaper' = "idle" => reaper = "idle"
      PROVE  RInv'
  BY <1>1 DEF RInv, RunTypes, ProcsInv, InterruptInv, RecordInv, DirectoryInv, Before, Running,
    Cleaned, Ended
<1>2. ASSUME NEW o \in Outputs, Emit(o) PROVE RInv'
  BY <1>1, <1>2 DEF Emit, RInv, RunTypes
<1>3. ASSUME NEW n \in 1..Len(emitted), TakeChunk(n) PROVE RInv'
  BY <1>1, <1>3 DEF TakeChunk, RInv, RunTypes
<1>4. CASE WaitReturns
  BY <1>1, <1>4 DEF WaitReturns, RInv, RunTypes
<1>5. CASE DeadlinePasses
  BY <1>1, <1>5 DEF DeadlinePasses, EngineUnchanged, RInv, RunTypes
<1>6. CASE EngineNext
  BY <1>1, <1>6 DEF EngineNext, CancelRun, RemoveTask, TerminateRun, EngineUnchanged, RInv,
    RunTypes
<1>7. CASE UNCHANGED runVars
  BY <1>1, <1>7 DEF runVars, RInv, RunTypes
<1>8. ASSUME Same, UNCHANGED deadline, UNCHANGED dir \/ reaper' # "idle", dir' \in BOOLEAN,
             reaper' \in {"idle", "killing", "removing", "done"}, reaper' = "idle" => reaper = "idle",
             procs' \subseteq Processes, exit' \in {None, "ok", "error", "killed"},
             procs \cap Group = {} => procs' \subseteq procs /\ exit' = exit,
             "root" \in procs => "root" \in procs' \/ exit' # None,
             exit # None => exit' # None
      PROVE  RInv'
  <2>1. RunTypes' /\ InterruptInv' /\ DirectoryInv'
    BY <1>8 DEF RInv, RunTypes, InterruptInv, DirectoryInv, Running, Cleaned, Before
  <2>2. ProcsInv' /\ RecordInv'
    BY <1>8 DEF RInv, ProcsInv, RecordInv, Before, Running, Cleaned, Ended
  <2> QED
    BY <2>1, <2>2 DEF RInv
<1>9. ASSUME NEW x \in Processes, Fork(x) \/ Ends(x) PROVE RInv'
  <2>1. procs \subseteq Processes /\ exit \in {None, "ok", "error", "killed"}
    BY DEF RInv, RunTypes
  <2>2. CASE Fork(x)
    BY <1>8, <2>1, <2>2 DEF Fork, RInv, RunTypes
  <2>3. CASE Ends(x)
    BY <1>8, <2>1, <2>3 DEF Ends, RInv, RunTypes, Group, None
  <2> QED
    BY <1>9, <2>2, <2>3
<1>10. CASE ReaperNext
  BY <1>8, <1>10 DEF ReaperNext, ReaperKills, ReaperRemoves, EngineUnchanged, RInv, RunTypes,
    Group, None
<1> QED
  BY <1>2, <1>3, <1>4, <1>5, <1>6, <1>7, <1>9, <1>10 DEF ScriptNext, OutputNext

(* The inductive invariant of a run.                                        *)
THEOREM RunInvariant == RunSpec => []RInv
<1>1. RInv /\ [RunNext]_runVars => RInv'
  BY LaunchKeeps, RunningKeeps, EndKeeps, OthersKeep DEF RunNext, RunnerNext
<1> QED
  BY InitRInv, <1>1, PTL DEF RunSpec

(* Whoever interrupts a run, and whatever its script has printed by then,   *)
(* the record of an interrupted run says failure.                           *)
THEOREM InterruptedRunsFailTheorem == RunSpec => []InterruptedRunsFail
<1>1. RInv => InterruptedRunsFail
  BY DEF RInv, RecordInv, InterruptedRunsFail, Ended
<1> QED
  BY <1>1, RunInvariant, PTL

(* However processes fork and end, a run that has returned leaves only      *)
(* behind what its record says.                                             *)
THEOREM CleanedUpAsRecordedTheorem == RunSpec => []CleanedUpAsRecorded
<1>1. RInv => NothingSurvives
  BY DEF RInv, ProcsInv, NothingSurvives, Ended
<1>2. RInv => DirectoryAsRecorded
  BY DEF RInv, RecordInv, DirectoryInv, DirectoryAsRecorded, Ended
<1> QED
  BY <1>1, <1>2, RunInvariant, PTL DEF CleanedUpAsRecorded

-------------------------------------------------------------------------------
(* The output of a run                                                      *)

(* The open line of some output starts at a.                                *)
OpenAt(s, a) ==
  /\ a \in 1..(Len(s) + 1)
  /\ a = 1 \/ s[a - 1] = "newline"
  /\ \A i \in a..Len(s) : s[i] # "newline"

(* The result lines that end before a position, and the last of them.       *)
ResultLines(s, n) == {l \in Lines(s) : IsResult(s, l) /\ l[2] < n}

LastOf(s, lines) ==
  IF lines = {} THEN <<>>
  ELSE LET l == CHOOSE l \in lines : \A k \in lines : k[1] <= l[1]
       IN SubSeq(s, l[1], l[2])

LastBefore(s, n) == LastOf(s, ResultLines(s, n))

(* What resultLineCapture knows of the pieces it has got: the beginning of  *)
(* the line that is open, that it is too long, and the last of those that   *)
(* are not open.                                                            *)
Captures(c, s) ==
  /\ DOMAIN c = {"line", "dropped", "last"}
  /\ \E a \in 1..(Len(s) + 1) :
       /\ OpenAt(s, a)
       /\ c.dropped = (MaxLine < Len(s) + 1 - a)
       /\ c.line = SubSeq(s, a, IF c.dropped THEN a + MaxLine - 1 ELSE Len(s))
  /\ c.last = LastBefore(s, Len(s))

(* The least counterexample takes the place of induction.                   *)
LEMMA LeastElement ==
  ASSUME NEW S \in SUBSET Nat, S # {}
  PROVE  \E m \in S : \A k \in Nat : k < m => k \notin S
<1>1. \E m \in S : \A x \in S : <<x, m>> \notin OpToRel(<, Nat)
  BY WFMin, NatLessThanWellFounded
<1>2. \A m, k \in S : k < m => <<k, m>> \in OpToRel(<, Nat)
  BY DEF OpToRel
<1> QED
  BY <1>1, <1>2

(* The last result line, when there is one and when there is none.          *)
LEMMA LastResultIs ==
  ASSUME NEW s \in Seq(Pieces), NEW n \in Nat, NEW l \in ResultLines(s, n),
         \A k \in ResultLines(s, n) : k[1] <= l[1]
  PROVE  LastBefore(s, n) = SubSeq(s, l[1], l[2])
<1>1. \A k \in ResultLines(s, n) : k[1] \in 1..Len(s) /\ k[2] \in 1..Len(s)
  BY DEF ResultLines, Lines
<1>2. ASSUME NEW k \in ResultLines(s, n), k[1] = l[1] PROVE k[2] = l[2]
  <2>1. k[2] < l[2] => s[k[2] + 1] = "newline" /\ k[2] + 1 \in l[1]..l[2]
    BY <1>1, <1>2 DEF ResultLines, Lines
  <2>2. l[2] < k[2] => s[l[2] + 1] = "newline" /\ l[2] + 1 \in k[1]..k[2]
    BY <1>1, <1>2 DEF ResultLines, Lines
  <2>3. \A i \in l[1]..l[2] : s[i] # "newline"
    BY DEF ResultLines, Lines
  <2>4. \A i \in k[1]..k[2] : s[i] # "newline"
    BY DEF ResultLines, Lines
  <2> QED
    BY <1>1, <2>1, <2>2, <2>3, <2>4
<1> DEFINE P(k) == k \in ResultLines(s, n)
                    /\ \A j \in ResultLines(s, n) : j[1] <= k[1]
<1>3. P(CHOOSE k : P(k))
  BY Zenon
<1>4. LastBefore(s, n) = LET k == CHOOSE k : P(k) IN SubSeq(s, k[1], k[2])
  BY DEF LastBefore, LastOf
<1>5. ASSUME NEW k, P(k) PROVE k[1] = l[1] /\ k[2] = l[2]
  <2>1. k[1] <= l[1] /\ l[1] <= k[1]
    BY <1>5
  <2> QED
    BY <1>1, <1>2, <1>5, <2>1
<1> QED
  BY <1>3, <1>4, <1>5

LEMMA NoLastResult ==
  ASSUME NEW s, NEW n, ResultLines(s, n) = {}
  PROVE  LastBefore(s, n) = <<>>
BY DEF LastBefore, LastOf

LEMMA SomeLastResult ==
  ASSUME NEW s \in Seq(Pieces), NEW n, ResultLines(s, n) # {}
  PROVE  \E l \in ResultLines(s, n) : \A k \in ResultLines(s, n) : k[1] <= l[1]
<1> DEFINE R == ResultLines(s, n)
           D == {Len(s) - l[1] : l \in R}
<1>1. \A l \in R : l[1] \in 1..Len(s)
  BY DEF ResultLines, Lines
<1>2. D \in SUBSET Nat /\ D # {}
  BY <1>1
<1>3. PICK d \in D : \A k \in Nat : k < d => k \notin D
  <2> HIDE DEF D
  <2> QED
    BY <1>2, LeastElement
<1>4. PICK l \in R : d = Len(s) - l[1]
  BY <1>3
<1>5. ASSUME NEW k \in R PROVE k[1] <= l[1]
  <2>1. Len(s) - k[1] \in Nat /\ Len(s) - k[1] \in D
    BY <1>1
  <2>2. ~(Len(s) - k[1] < d)
    BY <1>3, <2>1
  <2> QED
    BY <1>1, <1>4, <2>2
<1> QED
  BY <1>4, <1>5

(* A result line, by its ends.                                              *)
LEMMA ResultLineIs ==
  ASSUME NEW s \in Seq(Pieces), NEW b \in Nat
  PROVE  /\ \A l \in ResultLines(s, b) : l = <<l[1], l[2]>>
         /\ \A i, j : <<i, j>> \in ResultLines(s, b) <=>
              /\ i \in 1..Len(s) /\ j \in 1..Len(s) /\ i <= j
              /\ \A k \in i..j : s[k] # "newline"
              /\ i = 1 \/ s[i - 1] = "newline"
              /\ j = Len(s) \/ s[j + 1] = "newline"
              /\ s[i] \in ResultPieces /\ j - i < MaxLine
              /\ j < b
BY DEF ResultLines, Lines, IsResult

LEMMA SubSeqSame ==
  ASSUME NEW s, NEW t, NEW i \in Nat, NEW j \in Nat,
         \A k \in i..j : s[k] \in Pieces /\ s[k] = t[k]
  PROVE  SubSeq(s, i, j) = SubSeq(t, i, j)
<1>1. \A k \in i..j : t[k] \in Pieces
  OBVIOUS
<1>2. /\ SubSeq(s, i, j) \in Seq(Pieces) /\ SubSeq(t, i, j) \in Seq(Pieces)
      /\ Len(SubSeq(s, i, j)) = IF i <= j THEN j - i + 1 ELSE 0
      /\ Len(SubSeq(t, i, j)) = IF i <= j THEN j - i + 1 ELSE 0
      /\ \A k \in 1..(j - i + 1) : SubSeq(s, i, j)[k] = s[i + k - 1]
      /\ \A k \in 1..(j - i + 1) : SubSeq(t, i, j)[k] = t[i + k - 1]
  BY <1>1, SubSeqProperties
<1>3. ASSUME NEW k \in 1..Len(SubSeq(s, i, j)) PROVE SubSeq(s, i, j)[k] = SubSeq(t, i, j)[k]
  <2>1. k \in 1..(j - i + 1) /\ i + k - 1 \in i..j
    BY <1>2
  <2> QED
    BY <1>2, <2>1
<1> QED
  BY <1>2, <1>3, SeqEqual

(* The last result of two outputs that have the same lines is the same.     *)
LEMMA SameLastResult ==
  ASSUME NEW s \in Seq(Pieces), NEW t \in Seq(Pieces), NEW b \in Nat, NEW c \in Nat,
         \A i, j : <<i, j>> \in ResultLines(s, b) <=> <<i, j>> \in ResultLines(t, c),
         \A k \in 1..Len(s) : s[k] = t[k]
  PROVE  LastBefore(s, b) = LastBefore(t, c)
<1>0. ResultLines(s, b) = ResultLines(t, c)
  <2>1. ASSUME NEW l \in ResultLines(s, b) PROVE l \in ResultLines(t, c)
    <3>1. l = <<l[1], l[2]>>
      BY ResultLineIs
    <3> QED
      BY <3>1
  <2>2. ASSUME NEW l \in ResultLines(t, c) PROVE l \in ResultLines(s, b)
    <3>1. l = <<l[1], l[2]>>
      BY ResultLineIs
    <3> QED
      BY <3>1
  <2> QED
    BY <2>1, <2>2
<1>1. CASE ResultLines(s, b) = {}
  BY <1>0, <1>1, NoLastResult
<1>2. CASE ResultLines(s, b) # {}
  <2>1. PICK l \in ResultLines(s, b) : \A k \in ResultLines(s, b) : k[1] <= l[1]
    BY <1>2, SomeLastResult
  <2>2. l[1] \in 1..Len(s) /\ l[2] \in 1..Len(s)
    BY ResultLineIs
  <2>3. SubSeq(s, l[1], l[2]) = SubSeq(t, l[1], l[2])
    <3>1. PICK i, j : i = l[1] /\ j = l[2]
      OBVIOUS
    <3>2. i \in 1..Len(s) /\ j \in 1..Len(s)
      BY <2>2, <3>1
    <3>3. \A k \in i..j : s[k] \in Pieces /\ s[k] = t[k]
      BY <3>2
    <3>4. i \in Nat /\ j \in Nat
      BY <3>2
    <3>5. SubSeq(s, i, j) = SubSeq(t, i, j)
      BY <3>3, <3>4, SubSeqSame, ZenonT(60)
    <3> QED
      BY <3>1, <3>5
  <2>4. LastBefore(s, b) = SubSeq(s, l[1], l[2])
    BY <2>1, LastResultIs
  <2>5. LastBefore(t, c) = SubSeq(t, l[1], l[2])
    BY <1>0, <2>1, LastResultIs
  <2> QED
    BY <2>3, <2>4, <2>5
<1> QED
  BY <1>1, <1>2

(* Another piece, unless it is a newline, ends no line; a newline ends the  *)
(* open one.                                                                *)
LEMMA PieceEndsNoLine ==
  ASSUME NEW s \in Seq(Pieces), NEW p \in Pieces, p # "newline"
  PROVE  LastBefore(Append(s, p), Len(s) + 1) = LastBefore(s, Len(s))
<1> DEFINE t == Append(s, p)
<1>1. /\ t \in Seq(Pieces) /\ Len(s) \in Nat /\ Len(t) = Len(s) + 1
      /\ t[Len(s) + 1] = p /\ \A i \in 1..Len(s) : t[i] = s[i]
  OBVIOUS
<1> HIDE DEF t
<1>2. ASSUME NEW i, NEW j
      PROVE  <<i, j>> \in ResultLines(s, Len(s)) <=> <<i, j>> \in ResultLines(t, Len(t))
  <2>1. <<i, j>> \in ResultLines(s, Len(s)) =>
          i \in 1..Len(s) /\ j \in 1..Len(s) /\ j < Len(s)
    BY ResultLineIs
  <2>2. <<i, j>> \in ResultLines(t, Len(t)) =>
          i \in 1..Len(s) /\ j \in 1..Len(s) /\ j < Len(s)
    <3> HAVE <<i, j>> \in ResultLines(t, Len(t))
    <3>1. i \in 1..Len(t) /\ j \in 1..Len(t) /\ j < Len(t) /\ i <= j /\ t[j + 1] = "newline"
      BY <1>1, ResultLineIs
    <3> QED
      BY <1>1, <3>1
  <2>3. CASE i \in 1..Len(s) /\ j \in 1..Len(s) /\ j < Len(s)
    <3>1. /\ \A k \in i..j : t[k] = s[k]
          /\ i # 1 => t[i - 1] = s[i - 1]
          /\ t[j + 1] = s[j + 1] /\ t[i] = s[i]
      BY <1>1, <2>3
    <3>2. <<i, j>> \in ResultLines(s, Len(s)) <=>
            /\ i <= j /\ \A k \in i..j : s[k] # "newline"
            /\ i = 1 \/ s[i - 1] = "newline"
            /\ s[j + 1] = "newline"
            /\ s[i] \in ResultPieces /\ j - i < MaxLine
      BY <1>1, <2>3, ResultLineIs
    <3>3. <<i, j>> \in ResultLines(t, Len(t)) <=>
            /\ i <= j /\ \A k \in i..j : t[k] # "newline"
            /\ i = 1 \/ t[i - 1] = "newline"
            /\ t[j + 1] = "newline"
            /\ t[i] \in ResultPieces /\ j - i < MaxLine
      <4>1. /\ i \in 1..Len(t) /\ j \in 1..Len(t) /\ j < Len(t) /\ j # Len(t)
            /\ Len(t) \in Nat
        BY <1>1, <2>3
      <4>2. <<i, j>> \in ResultLines(t, Len(t)) <=>
              /\ i \in 1..Len(t) /\ j \in 1..Len(t) /\ i <= j
              /\ \A k \in i..j : t[k] # "newline"
              /\ i = 1 \/ t[i - 1] = "newline"
              /\ j = Len(t) \/ t[j + 1] = "newline"
              /\ t[i] \in ResultPieces /\ j - i < MaxLine
              /\ j < Len(t)
        BY <1>1, <4>1, ResultLineIs
      <4> QED
        BY <4>1, <4>2
    <3> QED
      BY <3>1, <3>2, <3>3
  <2> QED
    BY <2>1, <2>2, <2>3
<1>3. LastBefore(s, Len(s)) = LastBefore(t, Len(t))
  BY <1>1, <1>2, SameLastResult
<1> QED
  BY <1>1, <1>3 DEF t

LEMMA NewlineEndsLine ==
  ASSUME NEW s \in Seq(Pieces)
  PROVE  LastBefore(Append(s, "newline"), Len(s) + 1) = LastBefore(s, Len(s) + 1)
<1> DEFINE t == Append(s, "newline")
<1>1. /\ t \in Seq(Pieces) /\ Len(s) \in Nat /\ Len(t) = Len(s) + 1
      /\ t[Len(s) + 1] = "newline" /\ \A i \in 1..Len(s) : t[i] = s[i]
  BY DEF Pieces
<1> HIDE DEF t
<1>2. ASSUME NEW i, NEW j
      PROVE  <<i, j>> \in ResultLines(s, Len(s) + 1) <=> <<i, j>> \in ResultLines(t, Len(t))
  <2>1. <<i, j>> \in ResultLines(s, Len(s) + 1) => i \in 1..Len(s) /\ j \in 1..Len(s)
    BY ResultLineIs
  <2>2. <<i, j>> \in ResultLines(t, Len(t)) => i \in 1..Len(s) /\ j \in 1..Len(s)
    <3> HAVE <<i, j>> \in ResultLines(t, Len(t))
    <3>1. i \in 1..Len(t) /\ j \in 1..Len(t) /\ j < Len(t) /\ i <= j
      BY <1>1, ResultLineIs
    <3> QED
      BY <1>1, <3>1
  <2>3. CASE i \in 1..Len(s) /\ j \in 1..Len(s)
    <3>1. /\ \A k \in i..j : t[k] = s[k]
          /\ i # 1 => t[i - 1] = s[i - 1]
          /\ j < Len(s) => t[j + 1] = s[j + 1]
          /\ j = Len(s) => t[j + 1] = "newline"
          /\ t[i] = s[i] /\ j < Len(t)
      BY <1>1, <2>3
    <3>2. <<i, j>> \in ResultLines(s, Len(s) + 1) <=>
            /\ i <= j /\ \A k \in i..j : s[k] # "newline"
            /\ i = 1 \/ s[i - 1] = "newline"
            /\ j = Len(s) \/ s[j + 1] = "newline"
            /\ s[i] \in ResultPieces /\ j - i < MaxLine
      BY <1>1, <2>3, ResultLineIs
    <3>3. <<i, j>> \in ResultLines(t, Len(t)) <=>
            /\ i <= j /\ \A k \in i..j : t[k] # "newline"
            /\ i = 1 \/ t[i - 1] = "newline"
            /\ t[j + 1] = "newline"
            /\ t[i] \in ResultPieces /\ j - i < MaxLine
      <4>1. /\ i \in 1..Len(t) /\ j \in 1..Len(t) /\ j < Len(t) /\ j # Len(t)
            /\ Len(t) \in Nat
        BY <1>1, <2>3
      <4>2. <<i, j>> \in ResultLines(t, Len(t)) <=>
              /\ i \in 1..Len(t) /\ j \in 1..Len(t) /\ i <= j
              /\ \A k \in i..j : t[k] # "newline"
              /\ i = 1 \/ t[i - 1] = "newline"
              /\ j = Len(t) \/ t[j + 1] = "newline"
              /\ t[i] \in ResultPieces /\ j - i < MaxLine
              /\ j < Len(t)
        BY <1>1, <4>1, ResultLineIs
      <4> QED
        BY <4>1, <4>2
    <3>4. j = Len(s) \/ j < Len(s)
      BY <1>1, <2>3
    <3> QED
      BY <3>1, <3>2, <3>3, <3>4
  <2> QED
    BY <2>1, <2>2, <2>3
<1>3. LastBefore(s, Len(s) + 1) = LastBefore(t, Len(t))
  BY <1>1, <1>2, SameLastResult
<1> QED
  BY <1>1, <1>3 DEF t

(* What finishLine keeps is the last result, the open line included.        *)
LEMMA FinishedLineIs ==
  ASSUME NEW s \in Seq(Pieces), NEW c, Captures(c, s), NEW n \in Nat, n = Len(s)
  PROVE  (IF ~c.dropped /\ IsResultLine(c.line) THEN c.line ELSE c.last) = LastBefore(s, n + 1)
<1>1. PICK a \in 1..(n + 1) :
        /\ OpenAt(s, a)
        /\ c.dropped = (MaxLine < n + 1 - a)
        /\ c.line = SubSeq(s, a, IF c.dropped THEN a + MaxLine - 1 ELSE n)
  BY DEF Captures
<1>2. c.last = LastBefore(s, n)
  BY DEF Captures
<1>3. n + 1 \in Nat /\ MaxLine \in Nat \ {0} /\ a \in Nat
  BY SizesAssumption
<1>4. ~c.dropped => c.line = SubSeq(s, a, n) /\ n - a < MaxLine
  <2>1. ~(MaxLine < n + 1 - a) => n - a < MaxLine
    BY <1>3
  <2> QED
    BY <1>1, <2>1
<1>5. c.dropped => ~(n - a < MaxLine)
  <2>1. MaxLine < n + 1 - a => ~(n - a < MaxLine)
    BY <1>3
  <2> QED
    BY <1>1, <2>1
<1>6. /\ SubSeq(s, a, n) \in Seq(Pieces)
      /\ a <= n => SubSeq(s, a, n) # <<>> /\ SubSeq(s, a, n)[1] = s[a]
      /\ SubSeq(s, a, n) # <<>> => a <= n
  <2>1. \A k \in a..n : s[k] \in Pieces
    BY <1>3
  <2>2. /\ SubSeq(s, a, n) \in Seq(Pieces)
        /\ Len(SubSeq(s, a, n)) = IF a <= n THEN n - a + 1 ELSE 0
        /\ \A i \in 1..(n - a + 1) : SubSeq(s, a, n)[i] = s[a + i - 1]
    BY <1>3, <2>1, SubSeqProperties
  <2>3. a <= n => SubSeq(s, a, n) # <<>> /\ SubSeq(s, a, n)[1] = s[a]
    <3> SUFFICES ASSUME a <= n PROVE SubSeq(s, a, n) # <<>> /\ SubSeq(s, a, n)[1] = s[a]
      OBVIOUS
    <3>1. 1 \in 1..(n - a + 1) /\ a + 1 - 1 = a /\ n - a + 1 # 0
      BY <1>3
    <3> QED
      BY <2>2, <3>1
  <2>4. SubSeq(s, a, n) # <<>> => a <= n
    BY <2>2
  <2> QED
    BY <2>2, <2>3, <2>4
<1>7. /\ a = 1 \/ s[a - 1] = "newline"
      /\ \A i \in a..n : s[i] # "newline"
  BY <1>1 DEF OpenAt
<1>8. <<a, n>> \in ResultLines(s, n + 1)
        <=> a <= n /\ s[a] \in ResultPieces /\ n - a < MaxLine
  <2>1. <<a, n>> \in ResultLines(s, n + 1) <=>
              /\ a \in 1..n /\ n \in 1..n /\ a <= n
              /\ \A k \in a..n : s[k] # "newline"
              /\ a = 1 \/ s[a - 1] = "newline"
              /\ n = Len(s) \/ s[n + 1] = "newline"
              /\ s[a] \in ResultPieces /\ n - a < MaxLine
              /\ n < n + 1
    BY <1>3, ResultLineIs
  <2> QED
    BY <1>1, <1>3, <1>7, <2>1
<1>9. <<a, n>> \in ResultLines(s, n + 1) <=> ~c.dropped /\ IsResultLine(c.line)
  <2> QED
    BY <1>4, <1>5, <1>6, <1>8 DEF IsResultLine
<1>10. ASSUME NEW i, NEW j, <<i, j>> \in ResultLines(s, n + 1), <<i, j>> # <<a, n>>
       PROVE  i \in Nat /\ i < a /\ <<i, j>> \in ResultLines(s, n)
  <2>1. /\ i \in 1..n /\ j \in 1..n /\ i <= j
        /\ \A k \in i..j : s[k] # "newline"
        /\ i = 1 \/ s[i - 1] = "newline"
        /\ j = n \/ s[j + 1] = "newline"
    BY <1>10, ResultLineIs
  <2>2. CASE j < n
    <3>1. j + 1 \in 1..n /\ s[j + 1] = "newline"
      BY <1>3, <2>1, <2>2
    <3>2. j + 1 < a
      BY <1>3, <1>7, <2>1, <3>1
    <3>3. i \in Nat /\ i < a
      BY <1>3, <2>1, <3>2
    <3> QED
      BY <1>10, <2>2, <3>3, ResultLineIs
  <2>3. CASE j = n
    <3>1. i < a => a - 1 \in i..n /\ s[a - 1] = "newline"
      BY <1>3, <1>7, <2>1
    <3>2. a < i => i - 1 \in a..n /\ s[i - 1] = "newline"
      BY <1>3, <1>7, <2>1
    <3>3. i = a
      BY <1>3, <1>7, <2>1, <2>3, <3>1, <3>2
    <3> QED
      BY <1>10, <2>3, <3>3
  <2> QED
    BY <1>3, <2>1, <2>2, <2>3
<1>11. CASE ~c.dropped /\ IsResultLine(c.line)
  <2>1. <<a, n>> \in ResultLines(s, n + 1)
    BY <1>9, <1>11
  <2>2. \A k \in ResultLines(s, n + 1) : k[1] <= a
    <3>1. ASSUME NEW k \in ResultLines(s, n + 1) PROVE k[1] <= a
      <4>1. k = <<k[1], k[2]>>
        BY ResultLineIs
      <4>2. CASE k = <<a, n>>
        BY <1>3, <4>2
      <4>3. CASE k # <<a, n>>
        <5>1. k[1] \in Nat /\ k[1] < a
          BY <1>10, <4>1, <4>3
        <5> QED
          BY <1>3, <5>1
      <4> QED
        BY <4>2, <4>3
    <3> QED
      BY <3>1
  <2>3. PICK l : l = <<a, n>>
    OBVIOUS
  <2>4. l[1] = a /\ l[2] = n
    BY <2>3
  <2>5. LastBefore(s, n + 1) = SubSeq(s, a, n)
    <3> QED
      BY <1>3, <2>1, <2>2, <2>3, <2>4, LastResultIs
  <2> QED
    BY <1>4, <1>11, <2>5
<1>12. CASE ~(~c.dropped /\ IsResultLine(c.line))
  <2>1. <<a, n>> \notin ResultLines(s, n + 1)
    BY <1>9, <1>12
  <2>2. \A i, j : <<i, j>> \in ResultLines(s, n) <=> <<i, j>> \in ResultLines(s, n + 1)
    <3>1. \A i, j : <<i, j>> \in ResultLines(s, n) => <<i, j>> \in ResultLines(s, n + 1)
      BY ResultLineIs
    <3> QED
      BY <1>10, <2>1, <3>1
  <2>3. LastBefore(s, n) = LastBefore(s, n + 1)
    BY <2>2, SameLastResult
  <2> QED
    BY <1>2, <1>12, <2>3
<1> QED
  BY <1>11, <1>12

(* A sequence and one piece more.                                           *)
LEMMA PrefixAppend ==
  ASSUME NEW s \in Seq(Pieces), NEW i \in Nat \ {0}, NEW j \in Nat, i <= j + 1, j < Len(s)
  PROVE  SubSeq(s, i, j + 1) = Append(SubSeq(s, i, j), s[j + 1])
<1> DEFINE u == SubSeq(s, i, j)
           v == SubSeq(s, i, j + 1)
           w == Append(u, s[j + 1])
<1>1. /\ \A k \in i..j : s[k] \in Pieces
      /\ \A k \in i..(j + 1) : s[k] \in Pieces
      /\ s[j + 1] \in Pieces
  OBVIOUS
<1>2. u \in Seq(Pieces) /\ Len(u) = j + 1 - i /\ \A k \in 1..(j - i + 1) : u[k] = s[i + k - 1]
  BY <1>1, SubSeqProperties
<1>3. v \in Seq(Pieces) /\ Len(v) = j + 2 - i
        /\ \A k \in 1..(j + 1 - i + 1) : v[k] = s[i + k - 1]
  BY <1>1, SubSeqProperties
<1> HIDE DEF u, v
<1>4. /\ w \in Seq(Pieces) /\ Len(w) = j + 2 - i
      /\ w[j + 2 - i] = s[j + 1] /\ \A k \in 1..(j + 1 - i) : w[k] = u[k]
  <2>1. /\ w \in Seq(Pieces) /\ Len(w) = Len(u) + 1
        /\ w[Len(u) + 1] = s[j + 1] /\ \A k \in 1..Len(u) : w[k] = u[k]
    BY <1>1, <1>2, AppendProperties
  <2> HIDE DEF w
  <2>2. j + 1 - i + 1 = j + 2 - i
    OBVIOUS
  <2> QED
    BY <1>2, <2>1, <2>2
<1> HIDE DEF w
<1>5. ASSUME NEW k \in 1..Len(v) PROVE v[k] = w[k]
  <2>1. CASE k \in 1..(j + 1 - i)
    BY <1>2, <1>3, <1>4, <2>1
  <2>2. CASE k = j + 2 - i
    <3>1. i + k - 1 = j + 1 /\ k \in 1..(j + 1 - i + 1)
      BY <1>3, <2>2
    <3> QED
      BY <1>3, <1>4, <2>2, <3>1
  <2> QED
    BY <1>3, <2>1, <2>2
<1>6. v = w
  BY <1>3, <1>4, <1>5, SeqEqual
<1> QED
  BY <1>6 DEF u, v, w

(* A piece keeps what the capture knows.                                    *)
LEMMA CapturedIs ==
  ASSUME NEW s \in Seq(Pieces), NEW p \in Pieces, NEW c, Captures(c, s)
  PROVE  Captures(Captured(c, p), Append(s, p))
<1> DEFINE t == Append(s, p)
           d == Captured(c, p)
<1>1. PICK n \in Nat : n = Len(s)
  OBVIOUS
<1>2. /\ t \in Seq(Pieces) /\ Len(t) = n + 1 /\ t[n + 1] = p
      /\ \A i \in 1..n : t[i] = s[i] /\ s[i] \in Pieces
  BY <1>1
<1>3. PICK a \in 1..(n + 1) :
        /\ OpenAt(s, a)
        /\ c.dropped = (MaxLine < n + 1 - a)
        /\ c.line = SubSeq(s, a, IF c.dropped THEN a + MaxLine - 1 ELSE n)
  BY <1>1 DEF Captures
<1>4. MaxLine \in Nat \ {0} /\ a \in Nat \ {0}
  BY SizesAssumption
<1>5. DOMAIN c = {"line", "dropped", "last"} /\ c.last = LastBefore(s, n)
  BY <1>1 DEF Captures
<1>6. CASE p = "newline"
  <2>1. d = FinishedLine(c)
    BY <1>6 DEF Captured
  <2>2. d.line = <<>> /\ d.dropped = FALSE /\ DOMAIN d = {"line", "dropped", "last"}
    BY <2>1 DEF FinishedLine
  <2>3. d.last = LastBefore(t, n + 1)
    <3>1. d.last = IF ~c.dropped /\ IsResultLine(c.line) THEN c.line ELSE c.last
      BY <2>1 DEF FinishedLine
    <3>2. d.last = LastBefore(s, n + 1)
      BY <1>1, <3>1, FinishedLineIs
    <3>3. LastBefore(Append(s, "newline"), n + 1) = LastBefore(s, n + 1)
      BY <1>1, NewlineEndsLine
    <3> QED
      BY <1>6, <3>2, <3>3
  <2> HIDE DEF d, t
  <2>4. OpenAt(t, n + 2)
    BY <1>2, <1>6 DEF OpenAt
  <2>5. d.dropped = (MaxLine < n + 2 - (n + 2))
    <3>1. n + 2 - (n + 2) = 0
      OBVIOUS
    <3>2. (MaxLine < 0) = FALSE
      BY <1>4
    <3> QED
      BY <2>2, <3>1, <3>2
  <2>6. SubSeq(t, n + 2, n + 1) = <<>>
    BY SubSeqEmpty
  <2>7. n + 2 \in 1..(n + 2)
    OBVIOUS
  <2>8. /\ n + 2 \in 1..(Len(t) + 1)
        /\ OpenAt(t, n + 2)
        /\ d.dropped = (MaxLine < Len(t) + 1 - (n + 2))
        /\ d.line = SubSeq(t, n + 2, IF d.dropped THEN n + 2 + MaxLine - 1 ELSE Len(t))
    BY <1>2, <2>2, <2>4, <2>5, <2>6, <2>7
  <2>9. Captures(d, t)
    BY <1>2, <2>2, <2>3, <2>8 DEF Captures
  <2> QED
    BY <2>9 DEF d, t
<1>7. CASE p # "newline"
  <2>1. OpenAt(t, a) /\ a \in 1..(Len(t) + 1)
    <3> HIDE DEF t
    <3> QED
      BY <1>1, <1>2, <1>3, <1>7 DEF OpenAt
  <2>2. LastBefore(t, n + 1) = c.last
    BY <1>1, <1>5, <1>7, PieceEndsNoLine
  <2>3. Len(c.line) = IF c.dropped THEN MaxLine ELSE n + 1 - a
    <3>1. CASE c.dropped
      <4>1. \A k \in a..(a + MaxLine - 1) : s[k] \in Pieces
        <5>1. MaxLine < n + 1 - a
          BY <1>3, <3>1
        <5>2. \A k \in a..(a + MaxLine - 1) : k \in 1..n
          BY <1>4, <5>1
        <5> QED
          BY <1>2, <5>2
      <4>2. a <= a + MaxLine - 1 /\ a + MaxLine - 1 \in Int /\ a + MaxLine - 1 - a + 1 = MaxLine
        BY <1>4
      <4>3. Len(SubSeq(s, a, a + MaxLine - 1)) = MaxLine
        BY <1>4, <4>1, <4>2, SubSeqProperties
      <4> QED
        BY <1>3, <3>1, <4>3
    <3>2. CASE ~c.dropped
      <4>1. \A k \in a..n : s[k] \in Pieces
        BY <1>2, <1>3, <1>4
      <4>2. Len(SubSeq(s, a, n)) = IF a <= n THEN n - a + 1 ELSE 0
        BY <1>4, <4>1, SubSeqProperties
      <4>3. Len(SubSeq(s, a, n)) = n + 1 - a
        BY <1>4, <4>2
      <4> QED
        BY <1>3, <3>2, <4>3
    <3> QED
      BY <3>1, <3>2
  <2>4. CASE Len(c.line) < MaxLine
    <3>1. ~c.dropped /\ n + 1 - a < MaxLine
      BY <1>4, <2>3, <2>4
    <3>2. d = [c EXCEPT !.line = Append(@, p)]
      BY <1>7, <2>4 DEF Captured
    <3>3. /\ DOMAIN d = {"line", "dropped", "last"}
          /\ d.line = Append(c.line, p) /\ d.dropped = c.dropped /\ d.last = c.last
      BY <1>5, <3>2
    <3>4. c.line = SubSeq(s, a, n)
      BY <1>3, <3>1
    <3>5. SubSeq(s, a, n) = SubSeq(t, a, n)
      <4>1. \A k \in a..n : s[k] \in Pieces /\ s[k] = t[k]
        BY <1>2, <1>3
      <4> HIDE DEF t
      <4> QED
        BY <1>4, <4>1, SubSeqSame
    <3> HIDE DEF d, t
    <3>6. d.line = SubSeq(t, a, n + 1)
      <4>1. a <= n + 1 /\ n < Len(t)
        BY <1>2
      <4> QED
        BY <1>2, <1>4, <3>3, <3>4, <3>5, <4>1, PrefixAppend
    <3>7. d.dropped = (MaxLine < Len(t) + 1 - a)
      <4>1. ~(MaxLine < n + 1 - a) /\ ~(MaxLine < n + 1 + 1 - a)
        BY <1>4, <3>1
      <4> QED
        BY <1>2, <1>3, <3>3, <4>1
    <3>8. Captures(d, t)
      BY <1>2, <2>1, <2>2, <3>1, <3>3, <3>6, <3>7 DEF Captures
    <3> QED
      BY <3>8 DEF d, t
  <2>5. CASE ~(Len(c.line) < MaxLine)
    <3>1. d = [c EXCEPT !.dropped = TRUE]
      BY <1>7, <2>5 DEF Captured
    <3>2. /\ DOMAIN d = {"line", "dropped", "last"}
          /\ d.line = c.line /\ d.dropped = TRUE /\ d.last = c.last
      BY <1>5, <3>1
    <3>3. c.line = SubSeq(s, a, a + MaxLine - 1) /\ a + MaxLine - 1 \in a..n
      <4>1. CASE c.dropped
        <5>1. MaxLine < n + 1 - a
          BY <1>3, <4>1
        <5>2. a + MaxLine - 1 \in a..n
          BY <1>4, <5>1
        <5> QED
          BY <1>3, <4>1, <5>2
      <4>2. CASE ~c.dropped
        <5>1. ~(MaxLine < n + 1 - a) /\ ~(n + 1 - a < MaxLine)
          BY <1>3, <2>3, <2>5, <4>2
        <5>2. n = a + MaxLine - 1 /\ n \in a..n
          BY <1>4, <5>1
        <5> QED
          BY <1>3, <4>2, <5>2
      <4> QED
        BY <4>1, <4>2
    <3>4. SubSeq(s, a, a + MaxLine - 1) = SubSeq(t, a, a + MaxLine - 1)
      <4>1. \A k \in a..(a + MaxLine - 1) : s[k] \in Pieces /\ s[k] = t[k]
        BY <1>2, <1>3, <3>3
      <4>2. a + MaxLine - 1 \in Nat
        BY <1>4
      <4> HIDE DEF t
      <4> QED
        BY <1>4, <4>1, <4>2, SubSeqSame
    <3> HIDE DEF d, t
    <3>5. MaxLine < Len(t) + 1 - a
      BY <1>2, <1>4, <3>3
    <3>6. Captures(d, t)
      BY <1>2, <2>1, <2>2, <3>2, <3>3, <3>4, <3>5 DEF Captures
    <3> QED
      BY <3>6 DEF d, t
  <2> QED
    BY <2>4, <2>5
<1> QED
  BY <1>6, <1>7

(* The buffer is the beginning of what was written, the capture its lines.  *)
Wrote(w, s) ==
  /\ w.buffer = SubSeq(s, 1, IF Len(s) < Limit THEN Len(s) ELSE Limit)
  /\ Captures(w.capture, s)

LEMMA WrittenIs ==
  ASSUME NEW s \in Seq(Pieces), NEW p \in Pieces, NEW w, Wrote(w, s)
  PROVE  Wrote(Written(w, p), Append(s, p))
<1> DEFINE t == Append(s, p)
           b == Capped(w.buffer, p)
<1>1. PICK n \in Nat : n = Len(s)
  OBVIOUS
<1>2. /\ t \in Seq(Pieces) /\ Len(t) = n + 1 /\ t[n + 1] = p
      /\ \A i \in 1..n : t[i] = s[i] /\ s[i] \in Pieces
  BY <1>1
<1>3. w.buffer = SubSeq(s, 1, IF n < Limit THEN n ELSE Limit)
  BY <1>1 DEF Wrote
<1>4. Limit \in Nat \ {0}
  BY SizesAssumption
<1>5. b = SubSeq(t, 1, IF n + 1 < Limit THEN n + 1 ELSE Limit)
  <2>1. CASE n < Limit
    <3>1. SubSeq(s, 1, n) = SubSeq(t, 1, n)
      <4> HIDE DEF t
      <4> QED
        BY <1>2, SubSeqSame
    <3>2. Len(SubSeq(s, 1, n)) = n
      BY <1>1
    <3>3. b = Append(SubSeq(t, 1, n), p)
      <4> HIDE DEF t
      <4> QED
        BY <1>3, <2>1, <3>1, <3>2 DEF Capped
    <3>4. SubSeq(t, 1, n + 1) = Append(SubSeq(t, 1, n), t[n + 1])
      <4> HIDE DEF t
      <4>1. n < Len(t) /\ 1 <= n + 1
        BY <1>2
      <4> QED
        BY <1>2, <4>1, PrefixAppend
    <3>5. n + 1 = IF n + 1 < Limit THEN n + 1 ELSE Limit
      BY <1>4, <2>1
    <3> QED
      BY <1>2, <3>3, <3>4, <3>5
  <2>2. CASE ~(n < Limit)
    <3>1. Limit \in 1..n /\ ~(n + 1 < Limit)
      BY <1>4, <2>2
    <3>2. SubSeq(s, 1, Limit) = SubSeq(t, 1, Limit)
      <4> HIDE DEF t
      <4> QED
        BY <1>2, <3>1, SubSeqSame
    <3>3. Len(SubSeq(s, 1, Limit)) = Limit
      BY <1>1, <3>1
    <3>4. b = SubSeq(s, 1, Limit)
      BY <1>3, <1>4, <2>2, <3>3 DEF Capped
    <3> HIDE DEF b, t
    <3> QED
      BY <3>1, <3>2, <3>4
  <2> QED
    BY <2>1, <2>2
<1>6. Captures(Captured(w.capture, p), t)
  BY CapturedIs DEF Wrote
<1> HIDE DEF b, t
<1>7. Wrote([buffer |-> b, capture |-> Captured(w.capture, p)], t)
  BY <1>2, <1>5, <1>6 DEF Wrote
<1> QED
  BY <1>7 DEF Written, b, t

(* MapThenFoldSet's recursion, as FoldLeft uses it for Written.             *)
Folded(c, s, n, g) ==
  g = [S \in SUBSET (1..n) |->
         IF S = {} THEN c ELSE Written(g[S \ {Max(S)}], s[Max(S)])]

LEMMA MaxOfPrefix ==
  ASSUME NEW n \in Nat, NEW S \in SUBSET (1..(n + 1)), n + 1 \in S
  PROVE  Max(S) = n + 1
<1>1. \A y \in S : y \in Int /\ n + 1 >= y
  OBVIOUS
<1>2. \E x \in S : \A y \in S : x >= y
  BY <1>1
<1>3. Max(S) \in S /\ \A y \in S : Max(S) >= y
  <2> DEFINE P(x) == x \in S /\ \A y \in S : x >= y
  <2>1. \E x : P(x)
    BY <1>2
  <2>2. P(CHOOSE x : P(x))
    BY <2>1
  <2>3. Max(S) = CHOOSE x \in S : \A y \in S : x >= y
    BY DEF Max
  <2> QED
    BY <1>2, <2>3
<1>4. Max(S) \in Int /\ n + 1 >= Max(S) /\ Max(S) >= n + 1
  BY <1>1, <1>3
<1> QED
  BY <1>4

LEMMA FoldExists == ASSUME NEW c, NEW s, NEW n \in Nat PROVE \E g : Folded(c, s, n, g)
<1> DEFINE Bad == {k \in Nat : ~\E g : Folded(c, s, k, g)}
<1> SUFFICES ASSUME Bad # {} PROVE FALSE
  OBVIOUS
<1>1. PICK m \in Bad : \A k \in Nat : k < m => k \notin Bad
  BY LeastElement
<1>2. m # 0
  <2> DEFINE g == [S \in SUBSET (1..0) |-> c]
  <2>1. Folded(c, s, 0, g)
    BY DEF Folded
  <2> QED
    BY <2>1
<1>3. PICK n1 \in Nat : m = n1 + 1
  BY <1>2
<1>4. PICK g : Folded(c, s, n1, g)
  BY <1>1, <1>3
<1> DEFINE h == [S \in SUBSET (1..(n1 + 1)) |->
                   IF n1 + 1 \in S THEN Written(g[S \ {n1 + 1}], s[n1 + 1]) ELSE g[S]]
<1>5. ASSUME NEW S \in SUBSET (1..(n1 + 1))
      PROVE  h[S] = IF S = {} THEN c ELSE Written(h[S \ {Max(S)}], s[Max(S)])
  <2>1. CASE n1 + 1 \in S
    <3>1. /\ Max(S) = n1 + 1 /\ S # {}
          /\ S \ {n1 + 1} \in SUBSET (1..n1) /\ n1 + 1 \notin S \ {n1 + 1}
      BY <2>1, MaxOfPrefix
    <3>2. h[S \ {n1 + 1}] = g[S \ {n1 + 1}]
      BY <3>1
    <3> QED
      BY <2>1, <3>1, <3>2
  <2>2. CASE n1 + 1 \notin S
    <3>1. S \in SUBSET (1..n1) /\ S \ {Max(S)} \in SUBSET (1..n1) /\ h[S] = g[S]
      BY <2>2
    <3>2. h[S \ {Max(S)}] = g[S \ {Max(S)}]
      BY <3>1
    <3>3. g[S] = IF S = {} THEN c ELSE Written(g[S \ {Max(S)}], s[Max(S)])
      BY <1>4, <3>1 DEF Folded
    <3> QED
      BY <3>1, <3>2, <3>3
  <2> QED
    BY <2>1, <2>2
<1>6. Folded(c, s, n1 + 1, h)
  <2> HIDE DEF h
  <2>1. h = [S \in SUBSET (1..(n1 + 1)) |-> h[S]]
    BY DEF h
  <2> QED
    BY <1>5, <2>1 DEF Folded
<1> QED
  BY <1>3, <1>6

(* What was written before a chunk, and the chunk.                          *)
LEMMA ChunkIs ==
  ASSUME NEW e \in Seq(Pieces), NEW m \in Nat, NEW n \in Nat, m + n <= Len(e), NEW w,
         Wrote(w, SubSeq(e, 1, m))
  PROVE  Wrote(FoldLeft(Written, w, SubSeq(e, m + 1, m + n)), SubSeq(e, 1, m + n))
<1> DEFINE s == SubSeq(e, m + 1, m + n)
<1>1. /\ \A k \in (m + 1)..(m + n) : e[k] \in Pieces
      /\ m + n - (m + 1) + 1 = n
      /\ n = 0 \/ m + 1 <= m + n
  OBVIOUS
<1>2. s \in Seq(Pieces) /\ Len(s) = n /\ \A k \in 1..n : s[k] = e[m + k]
  <2>1. /\ s \in Seq(Pieces) /\ Len(s) = IF m + 1 <= m + n THEN m + n - (m + 1) + 1 ELSE 0
        /\ \A k \in 1..(m + n - (m + 1) + 1) : s[k] = e[m + 1 + k - 1]
    BY <1>1, SubSeqProperties
  <2> HIDE DEF s
  <2>2. \A k \in Nat : m + 1 + k - 1 = m + k
    OBVIOUS
  <2> QED
    BY <1>1, <2>1, <2>2
<1> HIDE DEF s
<1>3. DOMAIN s = 1..n
  BY <1>2
<1>4. PICK g : g = CHOOSE f : Folded(w, s, n, f)
  OBVIOUS
<1>5. Folded(w, s, n, g)
  BY <1>4, FoldExists
<1>6. FoldLeft(Written, w, s) = g[1..n]
  <2>1. FoldLeft(Written, w, s) = (CHOOSE f : Folded(w, s, n, f))[1..n]
    BY <1>3 DEF FoldLeft, MapThenFoldSet, Folded
  <2> QED
    BY <1>4, <2>1
<1>7. \A S \in SUBSET (1..n) : g[S] = IF S = {} THEN w ELSE Written(g[S \ {Max(S)}], s[Max(S)])
  BY <1>5 DEF Folded
<1> DEFINE Bad == {k \in 0..n : ~Wrote(g[1..k], SubSeq(e, 1, m + k))}
<1>8. CASE Bad # {}
  <2>1. PICK k \in Bad : \A j \in Nat : j < k => j \notin Bad
    <3>1. Bad \in SUBSET Nat
      OBVIOUS
    <3> HIDE DEF Bad
    <3> QED
      BY <1>8, <3>1, LeastElement
  <2>2. k \in 0..n /\ ~Wrote(g[1..k], SubSeq(e, 1, m + k))
    OBVIOUS
  <2>3. k # 0
    <3>1. 1..0 = {} /\ {} \in SUBSET (1..n) /\ m + 0 = m
      OBVIOUS
    <3>2. g[{}] = w
      BY <1>7, <3>1
    <3>3. Wrote(g[1..0], SubSeq(e, 1, m + 0))
      BY <3>1, <3>2
    <3> QED
      BY <2>2, <3>3
  <2>4. PICK j \in Nat : k = j + 1 /\ j \in 0..n /\ j + 1 \in 1..n
    <3>1. k - 1 \in Nat /\ k = (k - 1) + 1 /\ k - 1 \in 0..n /\ (k - 1) + 1 \in 1..n
      BY <2>2, <2>3
    <3> QED
      BY <3>1
  <2>5. Wrote(g[1..j], SubSeq(e, 1, m + j))
    BY <2>1, <2>4
  <2>6. 1..(j + 1) \in SUBSET (1..n) /\ 1..(j + 1) # {} /\ (1..(j + 1)) \ {j + 1} = 1..j
    <3>1. j + 1 \in 1..(j + 1)
      BY <2>4
    <3>2. \A i \in 1..(j + 1) : i \in 1..n
      BY <2>4
    <3>3. \A i : i \in 1..(j + 1) /\ i # j + 1 <=> i \in 1..j
      BY <2>4
    <3> QED
      BY <3>1, <3>2, <3>3
  <2>7. Max(1..(j + 1)) = j + 1
    <3>1. 1..(j + 1) \in SUBSET (1..(j + 1)) /\ j + 1 \in 1..(j + 1)
      BY <2>4
    <3> QED
      BY <3>1, MaxOfPrefix
  <2>8. g[1..(j + 1)] = Written(g[1..j], e[m + j + 1])
    <3>1. g[1..(j + 1)] = Written(g[1..j], s[j + 1])
      BY <1>7, <2>6, <2>7
    <3>2. s[j + 1] = e[m + (j + 1)] /\ m + (j + 1) = m + j + 1
      BY <1>2, <2>4
    <3> QED
      BY <3>1, <3>2
  <2>9. SubSeq(e, 1, m + j + 1) = Append(SubSeq(e, 1, m + j), e[m + j + 1])
    <3>1. PICK i \in Nat : i = m + j
      OBVIOUS
    <3>2. i < Len(e) /\ 1 <= i + 1
      BY <2>4, <3>1
    <3>3. SubSeq(e, 1, i + 1) = Append(SubSeq(e, 1, i), e[i + 1])
      BY <3>2, PrefixAppend
    <3> QED
      BY <3>1, <3>3
  <2>10. SubSeq(e, 1, m + j) \in Seq(Pieces) /\ e[m + j + 1] \in Pieces
    <3>1. \A i \in 1..(m + j + 1) : e[i] \in Pieces
      BY <2>4
    <3>2. m + j + 1 \in 1..(m + j + 1) /\ m + j \in Int /\ \A i \in 1..(m + j) : e[i] \in Pieces
      BY <3>1, <2>4
    <3> QED
      BY <3>1, <3>2, SubSeqProperties
  <2>11. Wrote(g[1..(j + 1)], SubSeq(e, 1, m + j + 1))
    BY <2>5, <2>8, <2>9, <2>10, WrittenIs
  <2>12. m + k = m + j + 1
    BY <2>4
  <2> QED
    BY <2>2, <2>4, <2>11, <2>12
<1>9. CASE Bad = {}
  <2>1. n \in 0..n
    OBVIOUS
  <2>2. Wrote(g[1..n], SubSeq(e, 1, m + n))
    BY <1>9, <2>1
  <2> QED
    BY <1>6, <2>2 DEF s
<1> QED
  BY <1>8, <1>9

LEMMA LastResultIsBefore ==
  ASSUME NEW s \in Seq(Pieces), NEW complete \in BOOLEAN
  PROVE  LastResult(s, complete) = LastBefore(s, IF complete THEN Len(s) + 1 ELSE Len(s))
<1> DEFINE L == {l \in Lines(s) : IsResult(s, l) /\ (complete \/ l[2] < Len(s))}
<1>1. L = ResultLines(s, IF complete THEN Len(s) + 1 ELSE Len(s))
  <2>1. \A l \in Lines(s) : l[2] < Len(s) + 1
    BY DEF Lines
  <2> QED
    BY <2>1 DEF ResultLines
<1>2. LastResult(s, complete) = LastOf(s, L)
  BY DEF LastResult, LastOf
<1> HIDE DEF L
<1> QED
  BY <1>1, <1>2 DEF LastBefore

Read == SubSeq(emitted, 1, taken)

Flushed == pc \in Cleaned \/ (pc \in Ended /\ exit # None)

(* Output is read between the opening of the gate and the return of         *)
(* cmd.Wait, which every run that was launched awaits.                      *)
ReadInv ==
  /\ emitted \in Seq(Pieces) /\ taken \in 0..Len(emitted)
  /\ pc \in Before \cup {"report", "refused", "gate"} => ~ready /\ ~waited
  /\ pc \in {"cleanup"} \cup Cleaned => waited
  /\ pc \in Ended => waited \/ (~ready /\ exit = None)
  /\ waited => exit # None
  /\ waited /\ ~cut => procs = {} /\ taken = Len(emitted)

RecordedInv == IF pc \in Ended THEN outcome.status # None ELSE outcome = NoOutcome

(* The buffer and the capture, until the flush and after it.                *)
CaptureInv ==
  /\ kept = SubSeq(Read, 1, IF taken < Limit THEN taken ELSE Limit)
  /\ IF Flushed THEN last = LastBefore(Read, taken + 1) ELSE Captures(Capture, Read)

OutputInv == ReadInv /\ RecordedInv /\ CaptureInv

LEMMA ReadFacts ==
  ASSUME NEW e \in Seq(Pieces), NEW n \in 0..Len(e)
  PROVE  SubSeq(e, 1, n) \in Seq(Pieces) /\ Len(SubSeq(e, 1, n)) = n
OBVIOUS

LEMMA InitOutputInv == RunInit => OutputInv
<1> SUFFICES ASSUME RunInit PROVE OutputInv
  OBVIOUS
<1>1. ReadInv /\ RecordedInv
  BY DEF RunInit, ReadInv, RecordedInv, Cleaned, Ended
<1>2. emitted = <<>> /\ taken = 0 /\ kept = <<>> /\ line = <<>> /\ dropped = FALSE /\ last = <<>>
  BY DEF RunInit
<1>3. PICK s \in Seq(Pieces) : s = Read /\ s = <<>> /\ Len(s) = 0
  <2>1. Read = <<>>
    BY <1>2, SubSeqEmpty DEF Read
  <2>2. <<>> \in Seq(Pieces) /\ Len(<<>>) = 0
    OBVIOUS
  <2> QED
    BY <2>1, <2>2
<1>4. LastBefore(s, 0) = <<>>
  <2>1. ResultLines(s, 0) = {}
    BY <1>3 DEF ResultLines, Lines
  <2> QED
    BY <2>1, NoLastResult
<1>5. Captures(Capture, s)
  <2>1. OpenAt(s, 1)
    BY <1>3 DEF OpenAt
  <2>2. (MaxLine < 0 + 1 - 1) = FALSE
    BY SizesAssumption
  <2>3. SubSeq(s, 1, 0) = <<>>
    BY SubSeqEmpty
  <2>4. /\ DOMAIN Capture = {"line", "dropped", "last"}
        /\ Capture.line = <<>> /\ Capture.dropped = FALSE /\ Capture.last = <<>>
    BY <1>2 DEF Capture
  <2>5. PICK c : c = Capture
    OBVIOUS
  <2>6. /\ 1 \in 1..(Len(s) + 1)
        /\ c.dropped = (MaxLine < Len(s) + 1 - 1)
        /\ c.line = SubSeq(s, 1, IF c.dropped THEN 1 + MaxLine - 1 ELSE Len(s))
        /\ c.last = LastBefore(s, Len(s))
    <3>1. c.line = <<>> /\ c.dropped = FALSE /\ c.last = <<>>
      BY <2>4, <2>5
    <3>2. Len(s) + 1 - 1 = 0 /\ 0 + 1 - 1 = 0 /\ 1 \in 1..(Len(s) + 1)
      BY <1>3
    <3>3. (IF c.dropped THEN 1 + MaxLine - 1 ELSE Len(s)) = 0
      BY <1>3, <3>1
    <3> QED
      BY <1>3, <1>4, <2>2, <2>3, <3>1, <3>2, <3>3
  <2>7. Captures(c, s)
    BY <2>1, <2>4, <2>5, <2>6 DEF Captures
  <2> QED
    BY <2>5, <2>7
<1>6. ~Flushed
  BY DEF RunInit, Flushed, Cleaned, Ended
<1>7. kept = SubSeq(Read, 1, IF taken < Limit THEN taken ELSE Limit)
  <2>1. 0 < Limit
    BY SizesAssumption
  <2>2. SubSeq(s, 1, 0) = <<>>
    BY SubSeqEmpty
  <2> QED
    BY <1>2, <1>3, <2>1, <2>2
<1>8. CaptureInv
  BY <1>3, <1>5, <1>6, <1>7 DEF CaptureInv
<1> QED
  BY <1>1, <1>8 DEF OutputInv

(* What was read stays so as long as no more is.                            *)
LEMMA QuietKeeps ==
  ASSUME CaptureInv, UNCHANGED <<Read, captureVars>>, Flushed' = Flushed
  PROVE  CaptureInv'
BY DEF CaptureInv, Captures, Capture, captureVars

LEMMA EmitKeeps == ASSUME OutputInv, NEW o \in Outputs, Emit(o) PROVE OutputInv'
<1>1. emitted = <<>> /\ taken = 0 /\ taken' = 0 /\ emitted' = o /\ o \in Seq(Pieces)
  BY OutputsAssumption DEF OutputInv, ReadInv, Emit, captureVars
<1>2. ReadInv' /\ RecordedInv'
  BY <1>1 DEF Emit, OutputInv, ReadInv, RecordedInv, captureVars, waitVars
<1>3. Read' = Read
  BY <1>1, SubSeqEmpty DEF Read
<1>4. Flushed' = Flushed
  BY DEF Emit, Flushed
<1>5. CaptureInv'
  BY <1>3, <1>4, QuietKeeps DEF Emit, OutputInv
<1> QED
  BY <1>2, <1>5 DEF OutputInv

LEMMA TakeChunkKeeps == ASSUME OutputInv, NEW n \in 1..Len(emitted), TakeChunk(n) PROVE OutputInv'
<1>1. ReadInv' /\ RecordedInv'
  BY DEF TakeChunk, OutputInv, ReadInv, RecordedInv, waitVars
<1>2. ~Flushed /\ ~Flushed'
  BY DEF TakeChunk, OutputInv, ReadInv, Flushed, waitVars
<1> DEFINE w == [buffer |-> kept, capture |-> Capture]
           v == FoldLeft(Written, w, SubSeq(emitted, taken + 1, taken + n))
<1>3. /\ emitted \in Seq(Pieces) /\ taken \in Nat /\ n \in Nat /\ taken + n <= Len(emitted)
      /\ taken \in 0..Len(emitted) /\ taken + n \in 0..Len(emitted)
  BY DEF TakeChunk, OutputInv, ReadInv
<1>4. Read \in Seq(Pieces) /\ Len(Read) = taken
  BY <1>3, ReadFacts DEF Read
<1>5. Wrote(w, SubSeq(emitted, 1, taken))
  BY <1>2, <1>4 DEF OutputInv, CaptureInv, Wrote, Read
<1>6. Wrote(v, SubSeq(emitted, 1, taken + n))
  <2> HIDE DEF w
  <2> QED
    BY <1>3, <1>5, ChunkIs
<1>7. /\ kept' = v.buffer /\ line' = v.capture.line /\ dropped' = v.capture.dropped
      /\ last' = v.capture.last /\ taken' = taken + n /\ emitted' = emitted
  BY DEF TakeChunk
<1> HIDE DEF v
<1>8. Read' = SubSeq(emitted, 1, taken + n) /\ Len(Read') = taken'
  BY <1>3, <1>7, ReadFacts DEF Read
<1>9. Captures(Capture', Read')
  BY <1>6, <1>7, <1>8 DEF Wrote, Captures, Capture
<1>10. CaptureInv'
  BY <1>2, <1>6, <1>7, <1>8, <1>9 DEF CaptureInv, Wrote
<1> QED
  BY <1>1, <1>10 DEF OutputInv

(* resultCapture.Finish looks at the line without a newline at the end.     *)
LEMMA FlushKeeps == ASSUME RInv, OutputInv, CleanUp PROVE OutputInv'
<1>1. ReadInv' /\ RecordedInv'
  BY DEF CleanUp, GroupKilled, RunnerUnchanged, OutputInv, ReadInv, RecordedInv, waitVars, Before,
    Cleaned, Ended, None
<1>2. ~Flushed /\ Flushed'
  BY DEF CleanUp, Flushed, Cleaned, Ended
<1>3. emitted \in Seq(Pieces) /\ taken \in 0..Len(emitted) /\ UNCHANGED <<emitted, taken, kept>>
  BY DEF CleanUp, RunnerUnchanged, OutputInv, ReadInv
<1>4. Read \in Seq(Pieces) /\ Len(Read) = taken /\ Read' = Read
  BY <1>3, ReadFacts DEF Read
<1>5. (IF ~dropped /\ IsResultLine(line) THEN line ELSE last) = LastBefore(Read, taken + 1)
  <2>1. PICK c : c = Capture
    OBVIOUS
  <2>2. c.line = line /\ c.dropped = dropped /\ c.last = last /\ Captures(c, Read)
    BY <1>2, <2>1 DEF OutputInv, CaptureInv, Capture
  <2>3. taken \in Nat
    BY <1>3
  <2> QED
    BY <1>4, <2>2, <2>3, FinishedLineIs
<1>6. last' = IF ~dropped /\ IsResultLine(line) THEN line ELSE last
  BY DEF CleanUp, FinishedLine, Capture, IsResultLine
<1>7. CaptureInv'
  BY <1>2, <1>3, <1>4, <1>5, <1>6 DEF OutputInv, CaptureInv
<1> QED
  BY <1>1, <1>7 DEF OutputInv

(* Nobody else touches the output.                                          *)
LEMMA UntouchedKeeps ==
  ASSUME OutputInv, UNCHANGED <<emitted, captureVars>>, ReadInv', RecordedInv', Flushed' = Flushed
  PROVE  OutputInv'
<1>1. Read' = Read
  BY DEF Read, captureVars
<1> QED
  BY <1>1, QuietKeeps DEF OutputInv

LEMMA RunnerKeepsOutput ==
  ASSUME RInv, OutputInv, RunnerNext, ~CleanUp
  PROVE  OutputInv'
<1> USE DEF RunnerUnchanged, engineVars, verdictVars, waitVars, captureVars
<1>1. UNCHANGED <<emitted, captureVars>>
  BY DEF RunnerNext, Prepare, PrepareFails, PrepareBrowser, Launch, LaunchFails, Report, OpenGate,
    SelectExit, SelectDone, GraceEnds, Await, Scan, Verdict, LeaveDirectory, Finish
<1>2. CASE Prepare \/ PrepareFails \/ PrepareBrowser \/ Launch \/ LaunchFails
  <2>1. pc \in Before /\ procs = {} /\ exit = None /\ exit' = None /\ ~ready /\ ~waited
    BY <1>2 DEF Prepare, PrepareFails, PrepareBrowser, Launch, LaunchFails, RInv, ProcsInv,
      OutputInv, ReadInv, Before
  <2>2. pc' \in Before \cup {"report", "directory"}
    BY <1>2 DEF Prepare, PrepareFails, PrepareBrowser, Launch, LaunchFails, Fail, Before
  <2>3. ReadInv'
    <3>1. UNCHANGED <<taken, ready, waited, cut>>
      BY <1>2 DEF Prepare, PrepareFails, PrepareBrowser, Launch, LaunchFails
    <3> QED
      BY <1>1, <2>1, <2>2, <3>1 DEF OutputInv, ReadInv, Before, Cleaned, Ended
  <2>4. RecordedInv'
    <3>1. CASE \E d, f : Fail(d, f)
      BY <3>1 DEF Fail, Outcome, Status, None, RecordedInv, Ended
    <3>2. CASE UNCHANGED outcome /\ pc' \in {"browser", "start", "report"}
      BY <2>1, <3>2 DEF OutputInv, RecordedInv, Before, Ended
    <3> QED
      BY <1>2, <3>1, <3>2 DEF Prepare, PrepareFails, PrepareBrowser, Launch, LaunchFails
  <2>5. Flushed' = Flushed
    BY <2>1, <2>2 DEF Flushed, Before, Cleaned, Ended
  <2> QED
    BY <1>1, <2>3, <2>4, <2>5, UntouchedKeeps
<1>3. CASE Report \/ OpenGate \/ SelectExit \/ SelectDone \/ GraceEnds \/ Await
  <2> USE DEF OutputInv, ReadInv, Before, Cleaned, Ended
  <2>1. ReadInv'
    <3>1. CASE Report
      BY <1>1, <3>1 DEF Report
    <3>2. CASE OpenGate
      BY <1>1, <3>2 DEF OpenGate
    <3>3. CASE SelectExit \/ Await
      BY <1>1, <3>3 DEF SelectExit, Await
    <3>4. CASE SelectDone
      BY <1>1, <3>4 DEF SelectDone
    <3>5. CASE GraceEnds
      BY <1>1, <3>5 DEF GraceEnds, GroupKilled, None
    <3> QED
      BY <1>3, <3>1, <3>2, <3>3, <3>4, <3>5
  <2>2. /\ outcome' = outcome
        /\ pc \notin Cleaned \cup Ended /\ pc' \notin Cleaned \cup Ended
    BY <1>3 DEF Report, OpenGate, SelectExit, SelectDone, GraceEnds, Await, Cleaned, Ended
  <2>3. RecordedInv' /\ Flushed' = Flushed
    BY <2>2 DEF OutputInv, RecordedInv, Flushed
  <2> QED
    BY <1>1, <2>1, <2>3, UntouchedKeeps
<1>4. CASE Scan
  <2>1. ReadInv' /\ RecordedInv' /\ Flushed' = Flushed
    BY <1>1, <1>4 DEF Scan, OutputInv, ReadInv, RecordedInv, Flushed, Before, Cleaned, Ended
  <2> QED
    BY <1>1, <2>1, UntouchedKeeps
<1>5. CASE Verdict
  <2>1. ReadInv' /\ Flushed' = Flushed
    BY <1>1, <1>5 DEF Verdict, OutputInv, ReadInv, Flushed, Before, Cleaned, Ended
  <2>2. RecordedInv'
    BY <1>5 DEF Verdict, ScriptOutcome, Outcome, Status, None, RecordedInv, Ended
  <2> QED
    BY <1>1, <2>1, <2>2, UntouchedKeeps
<1>6. CASE LeaveDirectory
  <2>1. ReadInv' /\ Flushed' = Flushed
    BY <1>1, <1>6 DEF LeaveDirectory, OutputInv, ReadInv, Flushed, Before, Cleaned, Ended
  <2>2. outcome.status # None /\ pc' \in Ended
    BY <1>6 DEF LeaveDirectory, OutputInv, RecordedInv, Ended
  <2>3. outcome'.status = outcome.status
    <3>1. DOMAIN outcome = DOMAIN NoOutcome
      BY DEF RInv, RunTypes
    <3> QED
      BY <1>6, <3>1 DEF LeaveDirectory, NoOutcome
  <2>4. RecordedInv'
    BY <2>2, <2>3 DEF RecordedInv
  <2> QED
    BY <1>1, <2>1, <2>4, UntouchedKeeps
<1>7. CASE Finish
  BY <1>1, <1>7, UntouchedKeeps DEF Finish, OutputInv, ReadInv, RecordedInv, Flushed, Before,
    Cleaned, Ended
<1> QED
  BY <1>2, <1>3, <1>4, <1>5, <1>6, <1>7 DEF RunnerNext

LEMMA OthersKeepOutput ==
  ASSUME RInv, OutputInv,
         \/ \E x \in Processes : Fork(x) \/ Ends(x)
         \/ WaitReturns \/ DeadlinePasses \/ EngineNext \/ ReaperNext \/ UNCHANGED runVars
  PROVE  OutputInv'
<1> USE DEF engineVars, verdictVars, waitVars, captureVars
<1>1. ASSUME UNCHANGED <<pc, emitted, captureVars, ready, waited, cut, outcome>>,
             exit' = exit \/ ("root" \in procs /\ exit' # None),
             procs' \subseteq procs \/ procs # {}
      PROVE  OutputInv'
  <2>1. pc \in Ended => exit' = exit
    BY <1>1 DEF RInv, ProcsInv, Group
  <2>2. ReadInv' /\ RecordedInv'
    BY <1>1, <2>1 DEF OutputInv, ReadInv, RecordedInv
  <2>3. Flushed' = Flushed
    BY <1>1, <2>1 DEF Flushed
  <2> QED
    BY <1>1, <2>2, <2>3, UntouchedKeeps
<1>2. ASSUME NEW x \in Processes, Fork(x) \/ Ends(x) PROVE OutputInv'
  BY <1>1, <1>2 DEF Fork, Ends, None
<1>3. CASE WaitReturns
  BY <1>3, UntouchedKeeps DEF WaitReturns, OutputInv, ReadInv, RecordedInv, Flushed
<1>4. CASE DeadlinePasses \/ EngineNext \/ UNCHANGED runVars
  BY <1>1, <1>4 DEF DeadlinePasses, EngineNext, CancelRun, RemoveTask, TerminateRun,
    EngineUnchanged, runVars
<1>5. CASE ReaperNext
  BY <1>1, <1>5 DEF ReaperNext, ReaperKills, ReaperRemoves, EngineUnchanged, None
<1> QED
  BY <1>2, <1>3, <1>4, <1>5

(* However the output is cut into chunks and whenever it is cut off, the    *)
(* result is the last of all that was read, and the beginning is kept.      *)
THEOREM CaptureIsExactTheorem == RunSpec => []CaptureIsExact
<1>1. RInv /\ OutputInv /\ [RunNext]_runVars => OutputInv'
  BY EmitKeeps, TakeChunkKeeps, FlushKeeps, RunnerKeepsOutput, OthersKeepOutput
     DEF RunNext, ScriptNext, OutputNext
<1>2. ASSUME RInv, OutputInv PROVE CaptureIsExact
  <2>1. Read \in Seq(Pieces) /\ Len(Read) = taken /\ taken \in Nat
    BY <1>2, ReadFacts DEF OutputInv, ReadInv, Read
  <2>2. PICK b \in BOOLEAN :
          b <=> pc \in {"scan", "verdict"} \/ (outcome # NoOutcome /\ exit # None)
    OBVIOUS
  <2>3. b <=> Flushed
    <3>1. outcome # NoOutcome <=> pc \in Ended
      BY <1>2 DEF OutputInv, RecordedInv, NoOutcome
    <3> QED
      BY <2>2, <3>1 DEF Flushed, Cleaned
  <2>4. last = LastResult(Read, b)
    <3>1. CASE Flushed
      BY <1>2, <2>1, <2>3, <3>1, LastResultIsBefore DEF OutputInv, CaptureInv
    <3>2. CASE ~Flushed
      <4>1. last = LastBefore(Read, taken)
        BY <1>2, <2>1, <3>2 DEF OutputInv, CaptureInv, Captures, Capture
      <4> QED
        BY <2>1, <2>3, <3>2, <4>1, LastResultIsBefore
    <3> QED
      BY <3>1, <3>2
  <2>5. b = (pc \in {"scan", "verdict"} \/ (outcome # NoOutcome /\ exit # None))
    BY <2>2
  <2>6. kept = SubSeq(Read, 1, IF taken < Limit THEN taken ELSE Limit)
    BY <1>2 DEF OutputInv, CaptureInv
  <2>7. waited /\ ~cut => taken = Len(emitted)
    BY <1>2 DEF OutputInv, ReadInv
  <2> QED
    BY <2>4, <2>5, <2>6, <2>7 DEF CaptureIsExact, Read
<1> QED
  BY InitOutputInv, RunInvariant, <1>1, <1>2, PTL DEF RunSpec

-------------------------------------------------------------------------------
(* Type correctness of a run                                                *)

(* The types no other invariant needs.                                      *)
RestTypes ==
  /\ line \in Seq(Pieces) /\ dropped \in BOOLEAN
  /\ ready \in BOOLEAN /\ waited \in BOOLEAN /\ cut \in BOOLEAN
  /\ cancel \in BOOLEAN /\ listed \in BOOLEAN /\ removed \in BOOLEAN

LEMMA InitRestTypes == RunInit => RestTypes
<1>1. <<>> \in Seq(Pieces)
  OBVIOUS
<1> QED
  BY <1>1 DEF RunInit, RestTypes

LEMMA PartsAreTyped ==
  ASSUME NEW s \in Seq(Pieces), NEW i \in Nat, 1 <= i, NEW j \in 0..Len(s)
  PROVE  SubSeq(s, i, j) \in Seq(Pieces)
<1>1. j \in Nat /\ \A k \in i..j : s[k] \in Pieces
  OBVIOUS
<1> QED
  BY <1>1, SubSeqProperties

(* The line that is open is a part of the output.                           *)
LEMMA CapturesAreTyped ==
  ASSUME NEW s \in Seq(Pieces), NEW c, Captures(c, s)
  PROVE  c.line \in Seq(Pieces) /\ c.dropped \in BOOLEAN
<1>1. PICK a \in 1..(Len(s) + 1) :
        /\ c.dropped = (MaxLine < Len(s) + 1 - a)
        /\ c.line = SubSeq(s, a, IF c.dropped THEN a + MaxLine - 1 ELSE Len(s))
  BY DEF Captures
<1>2. PICK n : n = IF c.dropped THEN a + MaxLine - 1 ELSE Len(s)
  OBVIOUS
<1>3. Len(s) \in Nat /\ a \in Nat /\ 1 <= a /\ MaxLine \in Nat /\ 0 < MaxLine
  BY SizesAssumption
<1>4. n \in 0..Len(s)
  <2>1. CASE c.dropped
    <3>1. MaxLine < Len(s) + 1 - a
      BY <1>1, <2>1
    <3>2. a + MaxLine - 1 \in 0..Len(s)
      BY <1>3, <3>1
    <3> QED
      BY <1>2, <2>1, <3>2
  <2>2. CASE ~c.dropped
    BY <1>2, <1>3, <2>2
  <2> QED
    BY <2>1, <2>2
<1>5. SubSeq(s, a, n) \in Seq(Pieces)
  BY <1>3, <1>4, PartsAreTyped
<1>6. c.dropped \in BOOLEAN
  BY <1>1
<1> QED
  BY <1>1, <1>2, <1>5, <1>6

(* So is a result.                                                          *)
LEMMA ResultsAreTyped ==
  ASSUME NEW s \in Seq(Pieces), NEW n \in Nat
  PROVE  LastBefore(s, n) \in Seq(Pieces)
<1>1. CASE ResultLines(s, n) = {}
  <2>1. <<>> \in Seq(Pieces)
    OBVIOUS
  <2> QED
    BY <1>1, <2>1, NoLastResult
<1>2. CASE ResultLines(s, n) # {}
  <2>1. PICK l \in ResultLines(s, n) : \A k \in ResultLines(s, n) : k[1] <= l[1]
    BY <1>2, SomeLastResult
  <2>2. LastBefore(s, n) = SubSeq(s, l[1], l[2])
    BY <2>1, LastResultIs
  <2>3. l[1] \in 1..Len(s) /\ l[2] \in 1..Len(s)
    BY DEF ResultLines, Lines
  <2>4. SubSeq(s, l[1], l[2]) \in Seq(Pieces)
    BY <2>3, PartsAreTyped
  <2> QED
    BY <2>2, <2>4
<1> QED
  BY <1>1, <1>2

LEMMA OutputIsTyped ==
  ASSUME OutputInv
  PROVE  kept \in Seq(Pieces) /\ last \in Seq(Pieces)
<1>1. Read \in Seq(Pieces) /\ Len(Read) = taken /\ taken \in Nat
  BY ReadFacts DEF OutputInv, ReadInv, Read
<1>2. kept \in Seq(Pieces)
  <2>1. PICK n \in 0..taken : n = IF taken < Limit THEN taken ELSE Limit
    BY <1>1, SizesAssumption
  <2>2. SubSeq(Read, 1, n) \in Seq(Pieces)
    BY <1>1, <2>1, ReadFacts
  <2> QED
    BY <2>1, <2>2 DEF OutputInv, CaptureInv
<1>3. CASE Flushed
  <2>1. last = LastBefore(Read, taken + 1)
    BY <1>3 DEF OutputInv, CaptureInv
  <2> QED
    BY <1>1, <1>2, <2>1, ResultsAreTyped
<1>4. CASE ~Flushed
  <2>1. last = LastBefore(Read, taken)
    BY <1>1, <1>4 DEF OutputInv, CaptureInv, Captures, Capture
  <2> QED
    BY <1>1, <1>2, <2>1, ResultsAreTyped
<1> QED
  BY <1>3, <1>4

LEMMA RestTypesKept ==
  ASSUME OutputInv, RestTypes, [RunNext]_runVars, OutputInv'
  PROVE  RestTypes'
<1> USE DEF RestTypes, engineVars, verdictVars, waitVars, captureVars
<1>1. CASE RunnerNext
  <2> USE DEF RunnerUnchanged
  <2>1. CASE CleanUp
    <3>1. /\ line' = line \/ line' = <<>>
          /\ dropped' = dropped \/ dropped' = FALSE
      BY <2>1 DEF CleanUp, FinishedLine, Capture
    <3>2. <<>> \in Seq(Pieces)
      OBVIOUS
    <3> QED
      BY <2>1, <3>1, <3>2 DEF CleanUp
  <2> QED
    BY <1>1, <2>1, ZenonT(40) DEF RunnerNext, Prepare, PrepareFails, PrepareBrowser, Launch, LaunchFails,
      Report, OpenGate, SelectExit, SelectDone, GraceEnds, Await, Scan, Verdict, LeaveDirectory,
      Finish
<1>2. CASE OutputNext
  <2>1. PICK n \in 1..Len(emitted) : TakeChunk(n)
    BY <1>2 DEF OutputNext
  <2>2. ~Flushed'
    BY <2>1 DEF TakeChunk, OutputInv, ReadInv, Flushed
  <2>3. Read' \in Seq(Pieces) /\ Captures(Capture, Read)'
    BY <2>2, ReadFacts DEF OutputInv, CaptureInv, ReadInv, Read
  <2>4. line' \in Seq(Pieces) /\ dropped' \in BOOLEAN
    <3>1. Captures(Capture', Read')
      BY <2>3 DEF Captures
    <3>2. PICK c : c = Capture'
      OBVIOUS
    <3>3. c.line \in Seq(Pieces) /\ c.dropped \in BOOLEAN
      BY <2>3, <3>1, <3>2, CapturesAreTyped
    <3>4. c.line = line' /\ c.dropped = dropped'
      BY <3>2 DEF Capture
    <3> QED
      BY <3>3, <3>4
  <2> QED
    BY <2>1, <2>4 DEF TakeChunk
<1>3. CASE ScriptNext
  BY <1>3 DEF ScriptNext, Emit, Fork, Ends
<1>4. CASE WaitReturns
  BY <1>4 DEF WaitReturns
<1>5. CASE DeadlinePasses \/ EngineNext \/ ReaperNext
  BY <1>5, ZenonT(40) DEF DeadlinePasses, EngineNext, CancelRun, RemoveTask, TerminateRun, ReaperNext,
    ReaperKills, ReaperRemoves, EngineUnchanged
<1>6. CASE UNCHANGED runVars
  BY <1>6 DEF runVars
<1> QED
  BY <1>1, <1>2, <1>3, <1>4, <1>5, <1>6 DEF RunNext

(* Every variable keeps its type: what is kept and what may be a result are *)
(* pieces of the output, however it is cut into chunks.                     *)
THEOREM RunTypeCorrect == RunSpec => []RunTypeOK
<1>1. RInv /\ OutputInv /\ [RunNext]_runVars => OutputInv'
  BY EmitKeeps, TakeChunkKeeps, FlushKeeps, RunnerKeepsOutput, OthersKeepOutput
     DEF RunNext, ScriptNext, OutputNext
<1>2. OutputInv /\ RestTypes /\ [RunNext]_runVars /\ OutputInv' => RestTypes'
  BY RestTypesKept
<1>3. RInv /\ OutputInv /\ RestTypes => RunTypeOK
  BY OutputIsTyped DEF RInv, RunTypes, OutputInv, ReadInv, RestTypes, RunTypeOK, Before, Running,
    Cleaned, Ended
<1> QED
  BY InitOutputInv, InitRestTypes, RunInvariant, <1>1, <1>2, <1>3, PTL DEF RunSpec
================================================================================
