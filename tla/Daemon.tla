--------------------------------- MODULE Daemon ---------------------------------
(***************************************************************************)
(* The life of daemon processes that share one configuration directory     *)
(* (main.go, daemon_lock.go, daemon_lock_unix.go).                         *)
(*                                                                         *)
(* A daemon takes a lock on daemon.lock, writes its name (process and      *)
(* port) into it, loads state.db, serves, and on a signal shuts down in a  *)
(* goroutine of its own while main waits for it.  A process may die at any *)
(* moment, and others (a person, launchd) start new ones at any moment.    *)
(* What the daemon works on is left to TaskRuns and Persistence: its state *)
(* is the set of the changes it contains.  Some of them are tasks, which a *)
(* restart has to import again, one by one, and may fail to.               *)
(***************************************************************************)
EXTENDS Naturals, FiniteSets

CONSTANTS
  Daemons,  \* daemon processes, each of which is started once at most
  Probes,   \* runs of "autostart install", which ask whether a daemon runs
  Changes,  \* changes of the state: the bound of the model
  Tasks,    \* those that are tasks
  Connections, \* of clients: requests, and event streams that last until their client leaves
  Nobody

ASSUME ProcessesAssumption ==
  Daemons \cap Probes = {} /\ Nobody \notin Daemons \cup Probes /\ Tasks \subseteq Changes

VARIABLES
  holder,   \* who holds the lock (flock) on daemon.lock
  info,     \* the daemon whose process and port daemon.lock tells
  file,     \* state.db
  mem,      \* Engine: the state of each daemon
  pending,  \* the tasks that RestoreState of each daemon has still to import
  failed,   \* the tasks that it could not import
  loaded,   \* daemons whose RestoreState succeeds: restoreSucceeded
  main,     \* where the main goroutine is
  down,     \* where the goroutine that handles shutdown is
  open,     \* httpServer accepts connections
  conns,    \* its connections
  probe,    \* where daemonLockHeld is
  spoiled   \* history: a save came from outside the lock, or from a daemon
            \* that could not load

vars == <<holder, info, file, mem, pending, failed, loaded, main, down, open, conns, probe,
          spoiled>>
lockVars == <<holder, info>>
restoreVars == <<pending, failed, loaded>>
stateVars == <<file, mem, restoreVars, spoiled>>
serverVars == <<open, conns>>

Init ==
  /\ holder = Nobody /\ info = Nobody
  /\ file = {} /\ spoiled = FALSE /\ loaded = {}
  /\ mem = [d \in Daemons |-> {}]
  /\ pending = [d \in Daemons |-> {}]
  /\ failed = [d \in Daemons |-> {}]
  /\ main = [d \in Daemons |-> "new"]
  /\ down = [d \in Daemons |-> "none"]
  /\ open = [d \in Daemons |-> FALSE]
  /\ conns = [d \in Daemons |-> {}]
  /\ probe = [p \in Probes |-> "new"]

Goes(d, from, to) == main[d] = from /\ main' = [main EXCEPT ![d] = to]
ShutdownGoes(d, from, to) == down[d] = from /\ down' = [down EXCEPT ![d] = to]

(* The process is gone with its memory: the kernel takes the lock back and  *)
(* closes the connections; what is in the files stays.                      *)
Gone(d) ==
  /\ main' = [main EXCEPT ![d] = "exited"]
  /\ down' = [down EXCEPT ![d] = "none"]
  /\ open' = [open EXCEPT ![d] = FALSE]
  /\ conns' = [conns EXCEPT ![d] = {}]
  /\ holder' = IF holder = d THEN Nobody ELSE holder
  /\ mem' = [mem EXCEPT ![d] = {}]
  /\ pending' = [pending EXCEPT ![d] = {}]
  /\ failed' = [failed EXCEPT ![d] = {}]
  /\ loaded' = loaded \ {d}
  /\ UNCHANGED <<file, spoiled, probe>>

(* store.Save in one transaction. *)
Saves(d) == file' = mem[d]

-------------------------------------------------------------------------------
(* Start                                                                    *)

(* acquireDaemonLock: tryLockDaemonFile *)
Lock(d) ==
  /\ holder = Nobody
  /\ Goes(d, "new", "locked")
  /\ holder' = d
  /\ UNCHANGED <<info, stateVars, down, serverVars, probe>>

(* The lock is busy: errDaemonAlreadyRunning, even if it is only a probe.   *)
Refused(d) ==
  /\ holder # Nobody
  /\ Goes(d, "new", "exited")
  /\ UNCHANGED <<lockVars, stateVars, down, serverVars, probe>>

(* acquireDaemonLock: writeDaemonLockInfo *)
WriteInfo(d) ==
  /\ Goes(d, "locked", "restore")
  /\ info' = d
  /\ UNCHANGED <<holder, stateVars, down, serverVars, probe>>

(* writeDaemonLockInfo fails once the file is truncated. *)
WriteInfoFails(d) ==
  /\ main[d] = "locked"
  /\ info' = Nobody
  /\ Gone(d)

(* RestoreState: the state is loaded, but for the tasks.                    *)
Restore(d) ==
  /\ Goes(d, "restore", "importing")
  /\ mem' = [mem EXCEPT ![d] = file \ Tasks]
  /\ pending' = [pending EXCEPT ![d] = file \cap Tasks]
  /\ loaded' = loaded \cup {d}
  /\ UNCHANGED <<lockVars, file, failed, spoiled, down, serverVars, probe>>

(* RestoreState fails: the daemon goes on with an empty state. *)
RestoreFails(d) ==
  /\ Goes(d, "restore", "start")
  /\ UNCHANGED <<lockVars, stateVars, down, serverVars, probe>>

(* importTask of RestoreState: a task whose import fails is left out.       *)
ImportTask(d, t) ==
  /\ main[d] = "importing"
  /\ t \in pending[d]
  /\ pending' = [pending EXCEPT ![d] = @ \ {t}]
  /\ \/ mem' = [mem EXCEPT ![d] = @ \cup {t}] /\ UNCHANGED failed
     \/ failed' = [failed EXCEPT ![d] = @ \cup {t}] /\ UNCHANGED mem
  /\ UNCHANGED <<lockVars, file, loaded, spoiled, main, down, serverVars, probe>>

(* RestoreState returns nil, after a save if the file listed active runs.   *)
RestoreReturns(d) ==
  /\ pending[d] = {}
  /\ Goes(d, "importing", "start")
  /\ Saves(d) \/ UNCHANGED file
  /\ UNCHANGED <<lockVars, mem, restoreVars, spoiled, down, serverVars, probe>>

(* The first save, which a daemon that could not load skips, and the server *)
Serve(d) ==
  /\ Goes(d, "start", "serving")
  /\ IF d \in loaded THEN Saves(d) \/ UNCHANGED file ELSE UNCHANGED file
  /\ ShutdownGoes(d, "none", "waiting")
  /\ open' = [open EXCEPT ![d] = TRUE]
  /\ UNCHANGED <<lockVars, mem, restoreVars, spoiled, conns, probe>>

(* ListenAndServe fails, as the port is taken: log.Fatalf runs no deferred  *)
(* call.                                                                    *)
ListenFails(d) ==
  /\ main[d] = "serving" /\ down[d] = "waiting" /\ conns[d] = {}
  /\ Gone(d)
  /\ UNCHANGED info

-------------------------------------------------------------------------------
(* Work                                                                     *)

(* Goroutines of the daemon work on until the process exits. *)
Works(d) == main[d] \in {"serving", "stopped", "truncated", "returned"}

(* While it is restored, the environments of tasks that have been imported  *)
(* are set up.                                                              *)
SetsUp(d) == main[d] \in {"importing", "start"} /\ mem[d] \cap Tasks # {}

Change(d, c) ==
  /\ Works(d)
  /\ \A e \in Daemons : c \notin mem[e]
  /\ c \notin file
  /\ mem' = [mem EXCEPT ![d] = @ \cup {c}]
  /\ UNCHANGED <<lockVars, file, restoreVars, spoiled, main, down, serverVars, probe>>

(* PersistState, of a handler, a run, the poller or the worker of a set-up  *)
Persist(d) ==
  /\ Works(d) \/ SetsUp(d)
  /\ mem[d] # file
  /\ Saves(d)
  /\ spoiled' = (spoiled \/ holder # d \/ d \notin loaded)
  /\ UNCHANGED <<lockVars, mem, restoreVars, main, down, serverVars, probe>>

Connect(d, c) ==
  /\ open[d] /\ c \notin conns[d]
  /\ conns' = [conns EXCEPT ![d] = @ \cup {c}]
  /\ UNCHANGED <<lockVars, stateVars, main, down, open, probe>>

Disconnect(d, c) ==
  /\ c \in conns[d]
  /\ conns' = [conns EXCEPT ![d] = @ \ {c}]
  /\ UNCHANGED <<lockVars, stateVars, main, down, open, probe>>

-------------------------------------------------------------------------------
(* Shutdown                                                                 *)

(* SIGINT or SIGTERM: the context of the scheduler is cancelled. *)
Signal(d) ==
  /\ ShutdownGoes(d, "waiting", "poller")
  /\ UNCHANGED <<lockVars, stateVars, main, serverVars, probe>>

(* poller.Stop waits for the loop without a deadline.  If calls of Restart  *)
(* overlapped, it may wait for a loop that nobody cancels (see OneLoop and  *)
(* CallsReturn of Poller; that it panics then is a Crash).                  *)
StopPoller(d) ==
  /\ ShutdownGoes(d, "poller", "terminate") \/ ShutdownGoes(d, "poller", "stuck")
  /\ UNCHANGED <<lockVars, stateVars, main, serverVars, probe>>

(* TerminateActiveRuns: the killing of the listed runs is in TaskRuns. *)
TerminateActiveRuns(d) ==
  /\ ShutdownGoes(d, "terminate", "http")
  /\ UNCHANGED <<lockVars, stateVars, main, serverVars, probe>>

(* httpServer.Shutdown closes the listener first. *)
CloseListener(d) ==
  /\ ShutdownGoes(d, "http", "draining")
  /\ open' = [open EXCEPT ![d] = FALSE]
  /\ UNCHANGED <<lockVars, stateVars, main, conns, probe>>

(* httpServer.Shutdown with a context that has no deadline *)
DrainWithoutDeadline(d) ==
  /\ conns[d] = {}
  /\ ShutdownGoes(d, "draining", "persist")
  /\ UNCHANGED <<lockVars, stateVars, main, serverVars, probe>>

(* httpServer.Shutdown returns when the connections are idle, or after five *)
(* seconds, whatever is connected then.                                     *)
Drain(d) ==
  /\ ShutdownGoes(d, "draining", "persist")
  /\ UNCHANGED <<lockVars, stateVars, main, serverVars, probe>>

(* The last PersistState, which may fail *)
FinalPersist(d) ==
  /\ ShutdownGoes(d, "persist", "done")
  /\ \/ Saves(d) /\ spoiled' = (spoiled \/ d \notin loaded)
     \/ UNCHANGED <<file, spoiled>>
  /\ UNCHANGED <<lockVars, mem, restoreVars, main, serverVars, probe>>

(* ListenAndServe returns ErrServerClosed as soon as the listener is closed. *)
ServeReturns(d) ==
  /\ ~open[d]
  /\ Goes(d, "serving", "stopped")
  /\ UNCHANGED <<lockVars, stateVars, down, serverVars, probe>>

(* main without waitForStartedShutdown *)
ShutdownNotAwaited(d) == TRUE

(* waitForStartedShutdown *)
ShutdownAwaited(d) == down[d] = "done"

(* daemonLock.Release that unlocks the file before it empties it *)
ReleaseUnlocksFirst(d) ==
  /\ \/ /\ ShutdownAwaited(d)
        /\ Goes(d, "stopped", "truncated")
        /\ holder' = Nobody
        /\ UNCHANGED info
     \/ /\ Goes(d, "truncated", "returned")
        /\ info' = Nobody
        /\ UNCHANGED holder
  /\ UNCHANGED <<stateVars, down, serverVars, probe>>

(* daemonLock.Release, deferred by main *)
Release(d) ==
  /\ \/ /\ ShutdownAwaited(d)
        /\ Goes(d, "stopped", "truncated")
        /\ info' = Nobody
        /\ UNCHANGED holder
     \/ /\ Goes(d, "truncated", "returned")
        /\ holder' = Nobody
        /\ UNCHANGED info
  /\ UNCHANGED <<stateVars, down, serverVars, probe>>

(* main returns, and the process with it. *)
Exit(d) ==
  /\ main[d] = "returned"
  /\ Gone(d)
  /\ UNCHANGED info

(* A crash, SIGKILL, or a signal before signal.Notify *)
Crash(d) ==
  /\ main[d] \notin {"new", "exited"}
  /\ Gone(d)
  /\ UNCHANGED info

(* daemonLockHeld of "autostart install" takes a free lock for a moment. *)
ProbeLock(p) ==
  /\ probe[p] = "new"
  /\ IF holder = Nobody
     THEN holder' = p /\ probe' = [probe EXCEPT ![p] = "holding"]
     ELSE UNCHANGED holder /\ probe' = [probe EXCEPT ![p] = "done"]
  /\ UNCHANGED <<info, stateVars, main, down, serverVars>>

ProbeUnlock(p) ==
  /\ probe[p] = "holding"
  /\ holder' = Nobody
  /\ probe' = [probe EXCEPT ![p] = "done"]
  /\ UNCHANGED <<info, stateVars, main, down, serverVars>>

Start(d) ==
  \/ Lock(d) \/ Refused(d) \/ WriteInfo(d) \/ WriteInfoFails(d)
  \/ Restore(d) \/ RestoreFails(d) \/ RestoreReturns(d)
  \/ \E t \in Tasks : ImportTask(d, t)
  \/ Serve(d)

(* What a goroutine of a daemon that shuts down does next *)
ShutdownStep(d) ==
  StopPoller(d) \/ TerminateActiveRuns(d) \/ CloseListener(d) \/ Drain(d) \/ FinalPersist(d)

MainStep(d) == ServeReturns(d) \/ Release(d) \/ Exit(d)

Next ==
  \/ \E d \in Daemons :
       \/ Start(d) \/ ListenFails(d)
       \/ \E c \in Changes : Change(d, c)
       \/ Persist(d)
       \/ \E c \in Connections : Connect(d, c) \/ Disconnect(d, c)
       \/ Signal(d) \/ ShutdownStep(d) \/ MainStep(d)
       \/ Crash(d)
  \/ \E p \in Probes : ProbeLock(p) \/ ProbeUnlock(p)

(* The two goroutines of a shutdown run on; nothing is assumed of clients,  *)
(* which may stay connected, nor of anything else.                          *)
Fairness == \A d \in Daemons : WF_vars(ShutdownStep(d)) /\ WF_vars(MainStep(d))

Spec == Init /\ [][Next]_vars /\ Fairness

-------------------------------------------------------------------------------
(* Properties                                                               *)

TypeOK ==
  /\ holder \in Daemons \cup Probes \cup {Nobody} /\ info \in Daemons \cup {Nobody}
  /\ file \subseteq Changes /\ spoiled \in BOOLEAN
  /\ mem \in [Daemons -> SUBSET Changes] /\ loaded \subseteq Daemons
  /\ pending \in [Daemons -> SUBSET Tasks] /\ failed \in [Daemons -> SUBSET Tasks]
  /\ main \in [Daemons -> {"new", "locked", "restore", "importing", "start", "serving", "stopped",
                           "truncated", "returned", "exited"}]
  /\ down \in [Daemons -> {"none", "waiting", "poller", "stuck", "terminate", "http", "draining",
                           "persist", "done"}]
  /\ open \in [Daemons -> BOOLEAN] /\ conns \in [Daemons -> SUBSET Connections]
  /\ probe \in [Probes -> {"new", "holding", "done"}]

Named == {"restore", "importing", "start", "serving", "stopped"}

(* From the moment its name is written until it releases the lock, a daemon *)
(* holds it and is the one daemon.lock tells commands to talk to, whatever  *)
(* other daemons and probes start, end or die (acquireDaemonLock, Release,  *)
(* readDaemonLockPort).                                                     *)
HolderIsNamed == \A d \in Daemons : main[d] \in Named => holder = d /\ info = d

(* What a save takes out of state.db are tasks that the daemon that holds   *)
(* the lock found there and has not imported, yet or at all: no daemon      *)
(* saves over what another one has saved, in any sequence of restarts and   *)
(* deaths.  The exceptions are a goroutine that saves between Release and   *)
(* the end of its process, and a daemon that saves although it could not    *)
(* load (main.go:64, 97, 183, engine.go:164).                                *)
SavedIsKept ==
  [][spoiled' \/ \A c \in file \ file' :
       \E d \in Daemons : holder = d /\ c \in pending[d] \cup failed[d]]_vars

(* A daemon that is told to stop ends, although event streams stay open for *)
(* as long as their clients want, unless the poller does not stop, which    *)
(* main awaits without a deadline (main.go:168, 171).                        *)
ShutdownEnds ==
  \A d \in Daemons : down[d] = "poller" ~> main[d] = "exited" \/ down[d] = "stuck"
================================================================================
