------------------------------- MODULE Scheduler -------------------------------
(***************************************************************************)
(* When the scheduler decides to run a task                                *)
(* (internal/core/scheduler.go, and engine.go where tasks become visible). *)
(*                                                                         *)
(* A ticker fires twice a minute.  For each enabled task that is due at    *)
(* the minute of the tick, the loop compares that minute with the one it   *)
(* last dealt with (lastTriggered) and, if they differ, decides: it starts *)
(* a run, or records why it cannot.  Whoever makes a task visible primes   *)
(* lastTriggered so that the current minute counts as dealt with.  The     *)
(* loop reads the list of tasks under Engine.mu and lastTriggered under a  *)
(* mutex of its own, one after the other; a tick may wait for Engine.mu    *)
(* while the clock goes on.                                                *)
(*                                                                         *)
(* A minute is known to lastTriggered by its wall-clock text in the time   *)
(* zone of the task's manifest.  Two minutes share a text when daylight    *)
(* saving time ends, and a minute has several when a reload changes the    *)
(* zone.  What a decision leads to is the subject of TaskRuns.             *)
(***************************************************************************)
EXTENDS Naturals, FiniteSets

CONSTANTS
  TaskIds,    \* task IDs
  Callers,    \* requests that may be at work at one time
  MaxClock,   \* bound on the clock, in half minutes
  Labels,     \* wall-clock texts of minutes
  Zones,      \* time zones
  Local,      \* in each zone, the text of each minute
  Schedules,  \* the schedules of manifests: a zone, and the texts that match
  None        \* no task, no minute, no request

Minutes == 0..(MaxClock \div 2)

ASSUME ConstantsAssumption ==
  /\ MaxClock \in Nat
  /\ Local \in [Zones -> [Minutes -> Labels]]
  /\ Schedules \subseteq [texts: SUBSET Labels, zone: Zones]
  /\ None \notin Labels

VARIABLES
  clock,         \* half minutes gone
  tick,          \* the tick in the ticker's channel, which holds one
  loop,          \* where the scheduler's goroutine is
  now,           \* the minute the loop works for
  batch,         \* the copies of tasks the loop has still to look at
  tasks,         \* Engine.tasks
  lastTriggered, \* Scheduler.lastTriggered
  request,       \* what each caller is doing
  decided,       \* how often a run was decided for each task and minute
  (* Bookkeeping of the properties: no action depends on it.               *)
  fired,         \* for each task, the minutes decided for, with their texts
  primed,        \* for each task, the texts PrimeTask marked
  displaced,     \* for each task, decided minutes whose mark PrimeTask replaced
  passed         \* for each task, the texts it was due at and not decided for

ghosts == <<fired, primed, displaced, passed>>
vars == <<clock, tick, loop, now, batch, tasks, lastTriggered, request, decided,
          fired, primed, displaced, passed>>

Minute(c) == c \div 2

Task == [enabled: BOOLEAN, schedule: Schedules]

Request ==
  [op: {"reload"}, task: TaskIds, enabled: BOOLEAN]
    \cup [op: {"enabled"}, task: TaskIds, copy: Task]
    \cup [op: {"prime"}, task: TaskIds, copy: Task, at: Minutes]
    \cup {None}

TypeOK ==
  /\ clock \in 0..MaxClock
  /\ tick \in Minutes \cup {None}
  /\ loop \in {"off", "starting", "priming", "idle", "ticked", "walking"}
  /\ now \in Minutes
  /\ batch \in [TaskIds -> Task \cup {None}]
  /\ tasks \in [TaskIds -> Task \cup {None}]
  /\ lastTriggered \in [TaskIds -> Labels \cup {None}]
  /\ request \in [Callers -> Request]
  /\ decided \in [TaskIds -> [Minutes -> 0..2]]
  /\ fired \in [TaskIds -> SUBSET (Minutes \X Labels)]
  /\ primed \in [TaskIds -> SUBSET Labels]
  /\ displaced \in [TaskIds -> SUBSET Minutes]
  /\ passed \in [TaskIds -> SUBSET Labels]

Registered == {t \in TaskIds : tasks[t] # None}
Waiting    == {t \in TaskIds : batch[t] # None}

Init ==
  /\ clock = 0
  /\ tick = None
  /\ loop = "off"
  /\ now = 0
  /\ batch = [t \in TaskIds |-> None]
  /\ tasks = [t \in TaskIds |-> None]
  /\ lastTriggered = [t \in TaskIds |-> None]
  /\ request = [h \in Callers |-> None]
  /\ decided = [t \in TaskIds |-> [m \in Minutes |-> 0]]
  /\ fired = [t \in TaskIds |-> {}]
  /\ primed = [t \in TaskIds |-> {}]
  /\ displaced = [t \in TaskIds |-> {}]
  /\ passed = [t \in TaskIds |-> {}]

-------------------------------------------------------------------------------
(* taskMinuteKeyIfDue: the text of minute m in the zone of a copy of a      *)
(* task, and whether the task is due then.                                  *)
Key(copy, m) == Local[copy.schedule.zone][m]
Due(copy, m) == copy.enabled /\ Key(copy, m) \in copy.schedule.texts

(* PrimeTask: minute m counts as dealt with for task t if it is due then.   *)
PrimeTask(t, copy, m) ==
  IF Due(copy, m)
  THEN /\ lastTriggered' = [lastTriggered EXCEPT ![t] = Key(copy, m)]
       /\ primed' = [primed EXCEPT ![t] = @ \cup {Key(copy, m)}]
       /\ displaced' = [displaced EXCEPT ![t] = @ \cup
            {n \in Minutes : <<n, lastTriggered[t]>> \in fired[t] /\ <<n, Key(copy, m)>> \notin fired[t]}]
  ELSE UNCHANGED <<lastTriggered, primed, displaced>>

(* Half a minute passes and the ticker fires; a tick nobody has taken yet   *)
(* makes the new one drop.                                                  *)
Tick ==
  /\ clock < MaxClock
  /\ clock' = clock + 1
  /\ tick' = IF loop # "off" /\ tick = None THEN Minute(clock + 1) ELSE tick
  /\ UNCHANGED <<loop, now, batch, tasks, lastTriggered, request, decided, ghosts>>

-------------------------------------------------------------------------------
(* The scheduler's goroutine                                                *)

(* Start makes the ticker and reads the clock.                              *)
Start ==
  /\ loop = "off"
  /\ loop' = "starting"
  /\ now' = Minute(clock)
  /\ UNCHANGED <<clock, tick, batch, tasks, lastTriggered, request, decided, ghosts>>

(* tick takes the time the ticker fired at.                                 *)
TakeTick ==
  /\ loop = "idle"
  /\ tick # None
  /\ loop' = "ticked"
  /\ now' = tick
  /\ tick' = None
  /\ UNCHANGED <<clock, batch, tasks, lastTriggered, request, decided, ghosts>>

(* Engine.Tasks: copies of all tasks, under Engine.mu.                      *)
CopyTasks ==
  /\ loop \in {"starting", "ticked"}
  /\ loop' = IF loop = "starting" THEN "priming" ELSE "walking"
  /\ batch' = tasks
  /\ UNCHANGED <<clock, tick, now, tasks, lastTriggered, request, decided, ghosts>>

(* primeTasks, for one task.                                                *)
PrimeNext(t) ==
  /\ loop = "priming"
  /\ batch[t] # None
  /\ PrimeTask(t, batch[t], now)
  /\ batch' = [batch EXCEPT ![t] = None]
  /\ UNCHANGED <<clock, tick, loop, now, tasks, request, decided, fired, passed>>

(* A decision for the minute of the loop, in the bookkeeping.               *)
CountDecision(t) ==
  /\ decided' = [decided EXCEPT ![t][now] = IF @ < 2 THEN @ + 1 ELSE @]
  /\ fired' = [fired EXCEPT ![t] = @ \cup {<<now, Key(batch[t], now)>>}]

(* Mutant: the loop forgets to remember the minute it decided for.          *)
DecideUnmarked(t) ==
  /\ loop = "walking"
  /\ batch[t] # None
  /\ Due(batch[t], now)
  /\ lastTriggered[t] # Key(batch[t], now)
  /\ CountDecision(t)
  /\ batch' = [batch EXCEPT ![t] = None]
  /\ UNCHANGED <<clock, tick, loop, now, tasks, lastTriggered, request, primed, displaced, passed>>

(* The task is due, and the minute is new to it: the run is decided.        *)
Decide(t) ==
  /\ loop = "walking"
  /\ batch[t] # None
  /\ Due(batch[t], now)
  /\ lastTriggered[t] # Key(batch[t], now)
  /\ lastTriggered' = [lastTriggered EXCEPT ![t] = Key(batch[t], now)]
  /\ CountDecision(t)
  /\ batch' = [batch EXCEPT ![t] = None]
  /\ UNCHANGED <<clock, tick, loop, now, tasks, request, primed, displaced, passed>>

(* A due task that is passed over, in the bookkeeping.                      *)
CountPassed(t) ==
  passed' = [passed EXCEPT ![t] =
    IF Due(batch[t], now) THEN @ \cup {Key(batch[t], now)} ELSE @]

(* Mutant: the loop passes a due task over at will.                         *)
PassOverAny(t) ==
  /\ loop = "walking"
  /\ batch[t] # None
  /\ CountPassed(t)
  /\ batch' = [batch EXCEPT ![t] = None]
  /\ UNCHANGED <<clock, tick, loop, now, tasks, lastTriggered, request, decided, fired, primed,
                 displaced>>

(* The task is not due, or the minute has been dealt with.                  *)
PassOver(t) ==
  /\ loop = "walking"
  /\ batch[t] # None
  /\ Due(batch[t], now) => lastTriggered[t] = Key(batch[t], now)
  /\ CountPassed(t)
  /\ batch' = [batch EXCEPT ![t] = None]
  /\ UNCHANGED <<clock, tick, loop, now, tasks, lastTriggered, request, decided, fired, primed,
                 displaced>>

WalkEnds ==
  /\ loop \in {"priming", "walking"}
  /\ Waiting = {}
  /\ loop' = "idle"
  /\ UNCHANGED <<clock, tick, now, batch, tasks, lastTriggered, request, decided, ghosts>>

-------------------------------------------------------------------------------
(* Requests                                                                 *)

(* importTask: the task is registered and primed while Engine.mu is held.   *)
(* The clock is read in that critical section, so to read it and write      *)
(* lastTriggered in one step loses nothing.                                 *)
Register(t, task) ==
  /\ tasks' = [tasks EXCEPT ![t] = task]
  /\ PrimeTask(t, task, Minute(clock))
  /\ UNCHANGED <<clock, tick, loop, now, batch, decided, fired, passed>>

(* ImportTask, or RestoreState before Start.                                *)
ImportTask(t) ==
  /\ tasks[t] = None
  /\ \E enabled \in BOOLEAN, schedule \in Schedules :
       Register(t, [enabled |-> enabled, schedule |-> schedule])
  /\ UNCHANGED request

(* ReloadTask up to RUnlock.                                                *)
ReloadRead(h, t) ==
  /\ request[h] = None
  /\ tasks[t] # None
  /\ request' = [request EXCEPT ![h] =
       [op |-> "reload", task |-> t, enabled |-> tasks[t].enabled]]
  /\ UNCHANGED <<clock, tick, loop, now, batch, tasks, lastTriggered, decided, ghosts>>

(* importTask called by ReloadTask, with the manifest as it is now and the  *)
(* enabled flag as it was.                                                  *)
ReloadImport(h) ==
  /\ request[h] # None
  /\ request[h].op = "reload"
  /\ \E schedule \in Schedules :
       Register(request[h].task, [enabled |-> request[h].enabled, schedule |-> schedule])
  /\ request' = [request EXCEPT ![h] = None]

(* The critical section of SetTaskEnabled.                                  *)
SetTaskEnabled(h, t) ==
  /\ request[h] = None
  /\ tasks[t] # None
  /\ \E enabled \in BOOLEAN :
       LET copy == [tasks[t] EXCEPT !.enabled = enabled] IN
       /\ tasks' = [tasks EXCEPT ![t] = copy]
       /\ request' = [request EXCEPT ![h] =
            IF enabled THEN [op |-> "enabled", task |-> t, copy |-> copy] ELSE None]
  /\ UNCHANGED <<clock, tick, loop, now, batch, lastTriggered, decided, ghosts>>

(* After Engine.mu is released SetTaskEnabled reads the clock ...           *)
EnabledReadsClock(h) ==
  /\ request[h] # None
  /\ request[h].op = "enabled"
  /\ request' = [request EXCEPT ![h] = [op |-> "prime", task |-> @.task, copy |-> @.copy,
                                        at |-> Minute(clock)]]
  /\ UNCHANGED <<clock, tick, loop, now, batch, tasks, lastTriggered, decided, ghosts>>

(* ... and primes the task.                                                 *)
EnabledPrimes(h) ==
  /\ request[h] # None
  /\ request[h].op = "prime"
  /\ PrimeTask(request[h].task, request[h].copy, request[h].at)
  /\ request' = [request EXCEPT ![h] = None]
  /\ UNCHANGED <<clock, tick, loop, now, batch, tasks, decided, fired, passed>>

RemoveTask(t) ==
  /\ tasks[t] # None
  /\ tasks' = [tasks EXCEPT ![t] = None]
  /\ UNCHANGED <<clock, tick, loop, now, batch, lastTriggered, request, decided, ghosts>>

-------------------------------------------------------------------------------
LoopNext ==
  \/ Start
  \/ TakeTick
  \/ CopyTasks
  \/ \E t \in TaskIds : PrimeNext(t) \/ Decide(t) \/ PassOver(t)
  \/ WalkEnds

RequestNext ==
  \/ \E t \in TaskIds : ImportTask(t) \/ RemoveTask(t)
  \/ \E h \in Callers, t \in TaskIds : ReloadRead(h, t) \/ SetTaskEnabled(h, t)
  \/ \E h \in Callers : ReloadImport(h) \/ EnabledReadsClock(h) \/ EnabledPrimes(h)

Next == Tick \/ LoopNext \/ RequestNext

Spec == Init /\ [][Next]_vars

-------------------------------------------------------------------------------
(* Properties                                                               *)

(* "lastTriggered ... to prevent double-fire": a run of a task is decided   *)
(* at most once for a minute.                                               *)
NoDoubleFire == \A t \in TaskIds, m \in Minutes : decided[t][m] < 2

(* However ticks are delayed and dropped and whatever requests do, the loop *)
(* decides twice for a minute only if PrimeTask put another text in the     *)
(* place of that minute's mark, or if a change of the manifest's time zone  *)
(* gave the minute another text (scheduler.go:125 formats the minute in the *)
(* zone of the copy at hand).                                               *)
DoubleFireNeedsPriming ==
  \A t \in TaskIds, m \in Minutes : decided[t][m] = 2 =>
    \/ m \in displaced[t]
    \/ \E k, l \in Labels : k # l /\ <<m, k>> \in fired[t] /\ <<m, l>> \in fired[t]

(* A task that was due when the loop came to it, and for which nothing was  *)
(* decided, had been decided for, or primed, at a minute of that text.      *)
PassedOverForAReason ==
  \A t \in TaskIds : passed[t] \subseteq primed[t] \cup {f[2] : f \in fired[t]}
===============================================================================
