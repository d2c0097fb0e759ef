# CronPlus: specification and verification

CronPlus is a local daemon that runs packaged scripts on cron schedules, serves a
REST API, a web UI and an MCP adapter, prepares Python environments for its
tasks, delivers results to notification channels and takes commands from
Telegram. This directory models the parts of it where several goroutines, the
operating system and the outside world meet: what the engine promises about
runs, environments, schedules, events, deliveries, inbound commands, the state on
disk and the life of the daemon itself, and the algorithms these rest on: cron
expressions, manifest validation, the script's environment, run history.

Contents: [components](#components), [modules](#modules), [runs](#runs), [configurations outside the runs](#configurations-outside-the-runs),
[bounds](#bounds), [fairness](#fairness), [proofs](#proofs),
[divergences](#divergences-between-code-and-documents),
[not modelled](#not-modelled), [plan](#plan).

## Components

`Engine.mu` (a `sync.RWMutex`) guards every map of the engine. No operation
holds it across blocking work: each takes it, changes the maps, releases it, and
carries on with processes, files or the network. Nearly every hard question
about this program is therefore: *what may have happened between two critical
sections of the same operation?*

| Component | State it keeps | Operations | What makes it correct |
|---|---|---|---|
| Engine registry and run life cycle (`internal/core/engine.go`, `management.go`) | `tasks`, `taskGenerations`, `activeRuns`, `activeRunDetails`, `activeRunControllers`, `runHistory` | import, reload, remove, enable, reserve and execute a run, cancel, terminate | one slot per task, no slot leaked, cap on load, no record and no script of a removed task, cancellation reaches the script |
| Script runner (`runner.go`, `result.go`, `browser.go`, `process_*.go`) | one process group per run, output buffers, a run directory | prepare, launch, register cancel, record, capture output, wait, time out, kill, clean up | the result is the last one written, an interrupted run fails, the record says what was left, the call always ends |
| Scheduler (`scheduler.go`) | `lastTriggered`, a ticker | start, tick, prime | a due minute is run once, and not passed over without a reason |
| Cron expressions (`cron.go`) | none | parse, match, next run | agrees with cron |
| Environment setup (`engine.go`, `management.go`, `runner.go`) | `environmentSetup.state`, generations, locks, the `.cronplus-venv` directory | initial setup, rebuild, diagnostic check | `ready` means built; `pending` ends |
| Persistence (`engine.go` `PersistState`/`RestoreState`, `internal/store`) | the SQLite file | save, load, restore | the file is a past memory, newer never gives way to older; what was acknowledged survives |
| Inbound poller (`internal/inbound/poller.go`, `internal/delivery/telegram.go`) | `running`, `cancel`, a wait group, offsets, rate limiters | start, stop, restart, poll, handle | no loop that nobody can stop, each command once, no command lost but by a restart of the poller |
| Command router (`internal/inbound/router.go`) | none | parse and dispatch | state changes only through the engine |
| Event broker, SSE (`events.go`, `internal/api/sse.go`) | subscribers and their channels | subscribe, publish, unsubscribe | no send on a closed channel; drops are bounded to slow readers |
| Dependencies, history, retention (`engine.go`, `management.go`, `state_sqlite.go`) | `runHistory` | health of upstream tasks, trim, write and read back | newest records stay, and a restart changes no verdict |
| Delivery (`internal/delivery`, profile operations of `engine.go` and `routes.go`) | profiles, counters | add, update, remove profiles; look references up; deliver, test | a message goes where its reference says, or nowhere |
| Diagnostics, confidence checks (`operations.go`, `confidence.go`) | recent entries, counters | record, report, check a package | a check does not disturb a task |
| Startup, shutdown, lock (`main.go`, `daemon_lock*.go`) | a PID file | restore, save, serve, terminate | one daemon; scripts do not outlive it unseen |
| Manifest loader (`internal/manifest/loader.go`, `internal/models`) | none | defaults, validation | what it admits can be scheduled and run |
| HTTP API, auth, MCP, client, CLI, web UI | none, or none that interacts | stateless translation | out of the reach of state exploration |

How they interact:

- API handlers and the inbound router call engine operations, each on its own
  goroutine, and then `PersistState`; the scheduler's goroutine reserves a run
  and starts a goroutine that executes it.
- A run's goroutine calls back into the engine from the runner
  (`OnCancelAvailable`, `OnStarted`, `OnOutput`, `OnFinished`) and saves three times.
- Import and rebuild start a goroutine of the environment setup, which takes the
  per-task setup lock, runs commands for minutes, and comes back to the engine.
- A change of a delivery profile calls `Poller.Restart` on the goroutine of the
  request.
- The daemon may die at any step. Scripts live in process groups of their own
  and survive it; the next start kills those the file lists.

Hard behaviours, each listed with its line under `hazards` in `PROJECT.json`:
stale reads across an unlock (`ReloadTask`, `RemoveTask`, `recordActiveRun`, the
end of a run); the race of exit, timeout and cancellation; a slot freed by
whoever comes late; several saves at a time; a save in the middle of a restore;
a crash between a launch and its record; a rebuild that lets go of its lock
half-way; a stop that finishes after another start; a tick that is delayed past
its minute; a subscriber that leaves while an event is on its way to it; a child
process that keeps a pipe open; a profile that changes between its validation and
its update; a daemon that ends while another one starts.

## Modules

One module per component; `MC*` modules hold only the constants of the TLC
instances and the samples they look at; `*Proofs` modules hold the theorems. `RunSlots`,
`DurableStore` and `LossyFanout` are abstract specifications, each with the module that implements it.

### TaskRuns (engine registry, run life cycle, runner)

One action is one critical section of `Engine.mu` with the calls that follow it
and that nobody else can see separately. `phase[r]` is the program counter of
the goroutine of run `r`:

    free -> reserved -> started -> registered -> waiting -> finishing -> outcome -> done
                                      |            ^
                                      +-> stale ---+      (the task was removed meanwhile)

| Action | Code |
|---|---|
| `ImportTask`, `ReloadRead`, `ReloadImport`, `ReloadFails` | `importTask`; `ReloadTask` before and after it releases the lock |
| `RemoveTask`, `CleanUpRemoved` | the critical section of `RemoveTask`; the kills after it |
| `Reserve`, `ReserveGated` | `reserveTaskRun` with and without a healthy gate |
| `StartProcess`, `LaunchFails`, `RegisterCancel`, `RecordActiveRun`, `RefuseStaleRun`, `CleanUpStaleRun`, `RecordOutput` | `RunScriptWithOptions` and its callbacks |
| `ProcessReaped`, `RunTimesOut`, `RunCanceled`, `ClearActiveRun`, `Finish` | the select, `OnFinished`, the end of `executeReservedRun` |
| `CancelRun`, `BeginShutdown`, `TerminateRun` | the requests and the shutdown |

`generation` starts at 0 for "absent" and grows with each removal; an ID that was
removed keeps it. Package directories matter because a reload matches by
directory. What a dependency gate computes is a choice for the tasks that may
have one (`Gateable`).

`RunSlots` is what the engine promises with neither locks nor goroutines: entries
with one ID and one directory each, a slot per task, a run that takes the slot when it
is free and the cap allows, whose script runs only meanwhile, and that gives the slot
back and leaves its record in one step. `TaskRuns` implements it (`KeepsSlots`, by
`Slots == INSTANCE RunSlots WITH ...`): the run holds the slot from its reservation on,
whatever its phase, and the steps between are stutters. After the removal of a task nothing
more is promised about its ID, which is where divergence 1 lives: the mapping shows runs and
records of IDs that were never removed.

### Poller (inbound commands)

Two kinds of processes: callers inside `Restart` or `Stop` (`pc`), cut where
`Poller.mu` is released, and polling loops (`loop`), each with its context, rate
limiter and batch. Telegram's side is one action per answer: it forgets what is
below the offset asked for and sends the rest. The wait group is the set of
loops alive; a waiter that was woken and finds the group in use again panics, as
the library does. `Fits` stands for the 4096 bytes that the driver reads of an
answer. One bot, one chat, one rate-limit window.

Handlers that change profiles (`Restart`) and the goroutine that shuts down (`Stop`)
overlap. A `Stop` that waited for one loop may reset `cancel` when another caller's
`Start` has set it for the next: that loop is then an orphan, which the history variable
`orphans` remembers. A loop whose context is canceled goes on over its batch, advances the
offset and drops the commands (`dropped`); what it refuses for the limit or passes over as
unauthorized counts as `handled`.

### EnvSetup (environments)

Requests change the state a task shows and start workers; a worker goes through
`rebuild`, `removing`, `setup`, `creating`, `installing`, `pip`, `marking`, `finishing`,
holding the setup lock of its task where the code does and no longer. The environment is
absent, partial or built; `marker` says that its copy of the requirements lets the next
install do nothing. pip and the writing of the marker are steps of their own. A diagnostic
check takes the same steps, with the same operators (`Created`, `PipSucceeds`,
`WriteMarker`), without the lock, so a removal may come between any two of them: an actor
whose pip began before it is `outdated`. `undermined`, a history variable, holds the
packages whose environment was spoiled behind the back of its users. `Home` gives the
package an ID is made for. Every managed environment has requirements, and they do not
change.

### Persistence (file and restart)

`mem` is the persisted part of the engine, `disk` the file. Everybody who saves
does so in two steps, the copy under the read lock and the commit or failure,
while `Unlocked` keeps writers out. `After` says where each goroutine goes on
after its save. `Crash` loses everything but `disk` and the running scripts;
`Load`, `CleanListedRun`, `RestoreTask`, `RestoreFails` and `RestoreEnds` follow
`RestoreState`, with the setups it starts already at work. Four bookkeeping
variables (`acknowledged`, `wanted`, `unlisted`, `missed`) serve the properties
and are read by no guard.

`DurableStore` is what the daemon promises about the file: a save is one atomic copy of
the memory, though the code takes the copy and writes it in two steps with others
at work; what a caller learned from a save stays promised until its task is removed; a
crash takes the memory, and a restart begins with the file. A run is listed and recorded only
while it is live. `Persistence` implements it (`SavesAreAtomic`): the commit is the save,
and the copy before it is a stutter.

### Scheduler, Cron (ticks, priming, expressions)

Time is counted in half minutes. The loop takes the time a tick fired at, copies the
tasks under `Engine.mu`, and then decides task by task; requests interleave
anywhere. `SetTaskEnabled` reads the clock and primes after it has released the
lock, `importTask` primes while it holds it. A schedule is a time zone and the set of
wall-clock texts it matches. `Local` gives each minute its text in each zone: two
minutes may share a text, as they do when daylight saving time ends, and a reload may
change the zone, so that a minute the loop has decided for gets another text (`Key`).

`Cron` has what `Scheduler` takes as given: `ParseField`, `ParseCron`, `Matches` and
`NextRun` of `cron.go`, the second reader of the same format in `loader.go`
(`ValidField`, `ValidExpression`), and a reference (`SchemaMatches`) written from
`MANIFEST_SCHEMA.md`. A field is what is left after splitting the text: `*`, `*/n`
or a list of numbers, ranges and junk. `At` is package `time` for UTC and one leap year.

### Manifest, RunEnvironment (what may run, and with what)

`Manifest` is the loader: `Defaults`, and one set of issues per section of
`validate`; `Loads` is its verdict. It uses `Cron` for the schedule.
`RunEnvironment` computes for a manifest the interpreter, the layers of environment
variables and the three browser paths; a value is named by where it comes from, so that
what overrides what is visible. `MCManifests` has the sample manifests that
`MCScheduler` and `MCScriptRun` share.

### ScriptRun (one run)

`RunScriptWithOptions` from the run directory to the return, for one run that
`TaskRuns` has as a few steps. `pc` is the runner's goroutine:

    prepare -> browser -> start -> report -> gate ---> select -> (grace -> await) -> cleanup
                                      |                  ^                              |
                                      +-> refused -------+        scan -> verdict -> directory
                                                                       -> finish -> returned

Beside it run the processes of the script (`procs`: the root, a child in its group, one
that has left the group), the output goroutines (`TakeChunk`, `WaitReturns`), the
clock, and the engine, which may cancel the run, or kill it from outside
(`reaper`, `cleanupPersistedRunProcess`). Output is a sequence of pieces, cut into
chunks anywhere; `Written` is `runOutputWriter.Write` for a piece, which gives it to
`Capped` (`cappedBuffer.Write`) and to `Captured` (`resultLineCapture.Write`, with
`FinishedLine`). What the runner does depends on the manifest, which must be one
that `Manifest` loads.

### History (records, retention, dependencies)

`Retained` is retention by count, age and output; `Rows` and `Read` are a history's way
into `state.db` and back, including the order of the texts of its times; `Gate`,
`Report` and `Dependents` are what depends on it. `Arranged` is the order in which a loop
or `ORDER BY` leaves indices, as a function that the provers can expand (they have no
definition of `SelectSeq` and `SortSeq`). No state: the interleavings of
storing records are in `TaskRuns` and `Persistence`.

### EventBroker, LossyFanout (events)

`EventBroker` has the broker's map, channels and `RWMutex` in its two phases (a writer
announces itself, which stops new readers, and works when the old ones are gone), and
the handler of `/api/events`. `LossyFanout` is the promise without any lock: an event
is owed to every member of the moment it was published, and is lost only to a full
backlog; nobody leaves while something is owed to them. `EventBroker` implements it
(`Promise == INSTANCE LossyFanout WITH members <- clients, ...`, `KeepsPromise`).

### Delivery (profiles and messages)

The list of profiles under `Engine.mu`; an update that is validated against a copy
(`ReadAndValidate`) and applied to the list as it is then (`ApplyUpdate`); imports of
inline profiles; and the deliveries of runs, each with a copy of its own, one
reference after the other. `NewLookup`, `AddProfile`, `AddText`, `AddAlias` and `Get` are the lookup with its
ambiguous aliases. Names, IDs and values keep the blanks around them where the code stores
them (updates, inline profiles) and lose them where it calls `strings.TrimSpace` (`TrimOf`:
new names, the lookup, validation); `UsedBy`, as the web UI, cuts the reference only. Hence two
notions of a profile that can send: `Complete`, which the handlers demand, and `Present`, with
which the driver is content. Whether Telegram takes a message is a choice.

### Daemon (processes that share a directory)

Daemons start, take the lock, write their name, restore, serve, are told to stop and
end, or die at any step; `main` and `down` are the two goroutines of each (the one of
`main()` and the one that shuts down), cut where `main.go` hands over. State is the set of
changes it contains. Some of these are tasks: `Restore` loads all but them, `ImportTask`
brings them back one by one or fails to, and meanwhile the set-ups of those that are back may
save (`SetsUp`, `Persist`). `poller.Stop` ends or is `stuck`, as `Poller` has it. A probe
(`autostart install`) takes the lock for a moment.

## Runs

| Run | Kind | Properties | What it shows |
|---|---|---|---|
| `task_runs` | pass | `SlotOwned`, `SlotsBoundScripts`, `ListingIsSound`, `ScriptsAreReachable`, `HistoryCurrent`, `KeepsSlots` | The engine implements `RunSlots`; slots, active-run list and history stay consistent through removals, reloads and cancellations; a running script is listed, about to be killed, or between its launch and its listing |
| `run_liveness` | pass | `RunsComplete`, `RemovedRunsTerminate`, `CancellationReaches` | Under fair scheduling runs complete unless the script runs on, and removals and cancellations reach the script |
| `no_overlap` | violation | `NoOverlap` | Two scripts of one registered task at a time |
| `poller` | pass | `OneLoop`, `EachUpdateOnce`, `StopEndsItsLoop`, `CallsReturn`, `UpdatesAreHandled` | Through overlapping restarts, a stop and a crash: a loop lives only under `Poller.cancel` or as an orphan; without an orphan no command is routed twice by a process and none is lost but those a canceled loop drops; a call hangs or panics only when a `Start` overtook it or an orphan lives; updates are handled unless too many pile up |
| `env_setup` | pass | `ReadyMeansBuilt`, `WorkersMatchState`, `SetupSettles` | `ready` means built unless the environment was undermined, `pending` has a worker and ends, nothing is settled twice |
| `persistence` | pass | `AcknowledgedIsDurable`, `ScriptsAreAccountedFor`, `SavesAreAtomic`, `HistoryServesDependencies` | The daemon and its file implement `DurableStore`, the acknowledged is durable, every running script is accounted for; retention and a restart change nothing for tasks that depend on a history |
| `tasks_survive` | violation | `TasksSurvive` | A save during the restore, then a crash, loses tasks |
| `scheduler` | pass | `DoubleFireNeedsPriming`, `PassedOverForAReason`, `LoaderAgreesWithScheduler`, `CronFollowsSchema`, `AdmittedManifestsRun` | A second decision for a minute is due to priming for another one, or to a new time zone of the manifest, and a due task is passed over only for a reason; expressions mean what the schema says, to both readers; what the loader admits can be scheduled and run |
| `event_broker` | pass | `NoSendOnClosed`, `OrderPerPublisher`, `KeepsPromise`, `NobodyBlocks` | The broker implements the lossy fan-out, in order, and a client that does not read holds up nobody |
| `script_run` | pass | `CaptureIsExact`, `InterruptedRunsFail`, `CleanedUpAsRecorded`, `RunReturns` | The captured result is the last one written, an interrupted run fails, processes and directory are as recorded, the call returns whatever children do |
| `delivery` | pass | `SentAsMeant`, `IdsAreUnique`, `CompleteStaysComplete` | Messages go where the reference says, with the blanks around names and IDs cut, and to users the web UI knows unless there are such blanks; stale validation takes no credentials away |
| `daemon` | pass | `HolderIsNamed`, `SavedIsKept`, `ShutdownEnds` | The lock file names its holder; a save takes nothing out of the file but tasks that the daemon holding the lock has not imported; a shutdown ends although streams stay open, unless the poller does not stop |

The properties are stated, with the code behaviour each is about, where they are
defined. Four of them (`HistoryServesDependencies`, `LoaderAgreesWithScheduler`,
`CronFollowsSchema`, `AdmittedManifestsRun`) compare pure algorithms with a reference or
with each other over bounded inputs; they are evaluated in the first states of
their run. Each property of a passing run also has a mutant, a definition next to
the one it alters, that changes the code the way a bug would; the property fails
when the mutant takes its place. The type invariants are not among the runs' properties:
they are proved, as theorems of their own or as a part of the inductive invariant of their module.

### Configurations outside the runs

Five more configurations each show a disagreement of the code with one of its
documents by a counterexample. They are run by hand, for instance
`tlc -config poller_orphan.cfg MCPoller`:

| Configuration | Module | Property | What TLC finds |
|---|---|---|---|
| `poller_orphan.cfg` | `MCPoller` | `StopTerminates` | Two profile changes at a time leave a polling loop nobody can stop |
| `poller_stuck.cfg` | `MCPoller` | `EveryBacklogDrains` | More updates than fit into 4096 bytes are never handled |
| `double_fire.cfg` | `MCScheduler` | `NoDoubleFire` | A minute is decided twice for a task when priming for another minute came in between |
| `env_reimport.cfg` | `MCEnvSetup` | `ReadyIsBuilt` | A package imported under a new ID has a new lock, and an old rebuild deletes its environment |
| `env_check.cfg` | `MCEnvSetup` | `ReadyIsBuilt` | With one ID: a removal that failed, or a check that installed across a removal, leaves a marker, and the next setup says `ready` without the requirements |

### Bounds

- `task_runs`: two IDs, two packages, two runs, two reloads in flight, one
  removal per ID, cap 1. A stale read needs one reload, one removal, one
  re-registration; an overlap needs two runs. With cap 1 and two tasks the cap is
  reached.
- `run_liveness`: one ID, removed up to twice, two runs. No symmetry, since
  liveness is checked.
- `no_overlap`: three runs, the number the overlap needs (one that outlives the
  removal, one that takes the slot, one that starts beside it).
- `poller`: two handlers and the shutdown goroutine, two calls of `Restart` or `Stop`
  in all, three updates (one from an unauthorized chat, one over the limit), two of which
  fit into an answer, one crash. Two overlapping calls are what an orphan, a call that
  waits for somebody else's loop and a panic of the wait group take; a third call, after
  an orphan, is left to the theorems.
- `env_setup`: one ID, three workers, one check, three generations: two stale
  workers and a current one at a time, and a check across the removal of a rebuild. The
  removal of a package and a new import are the subject of `env_reimport.cfg`, and of the
  theorem.
- `persistence`: two tasks (one with a setup, one whose manifest may be broken),
  one run, two handlers, one crash, a failing load.
  Histories of up to three records, started on a second and between two, with every
  kind of outcome; three policies; two dependencies each, to one task, to a slug that
  may be shared, and to nothing.
  `tasks_survive`: two crashes, and neither failing loads nor broken manifests,
  so that the loss has no other cause.
- `scheduler`: five ticks over three minutes; two zones, one in which the last minute
  has the text of the first and one that is a minute behind; two schedules, one in each;
  two requests. Fields: every limit of the five ranges and its
  neighbours, alone, as a step, in ranges and in lists of two; expressions: every way
  to restrict the days the code tells apart, matched around every midnight of the
  first three months of a leap year. `AdmittedManifestsRun` looks at all manifests that
  differ from a good one in two fields, and at all combinations of the browser policy.
- `event_broker`: two clients, two publishers of two events, channels of two: a
  publisher can be in its loop while a client leaves and another one joins, and the
  channels fill up.
- `script_run`: three processes, seven outputs of up to four pieces, buffers of two
  pieces and lines of one, so that both overflow; six manifests, one of which is
  refused.
- `delivery`: three changes of the list, two update handlers, one run; spellings of
  one name, with a blank before it and without, a name of blanks and one without a slug,
  IDs that differ in a blank only or are aliases of other profiles, an inline profile
  whose chat is blank and one without credentials.
- `daemon`: two daemons, a probe, two tasks and one other change, an event stream: one
  starts while the other ends. A third daemon adds no neighbour to the lock.

Deadlock is not checked: the bounds end behaviours, and a daemon nobody talks to
may rest. That operations do not block each other for ever is what the liveness
properties say.

### Fairness

- `TaskRuns!Scheduled`: weak fairness of the steps of a run's goroutine and of
  the two clean-up loops. The Go scheduler runs goroutines that can run.
  Neither the end of a script nor its timeout is assumed.
- `Poller!FairSpec`: the same for callers and loops; a call to Telegram is
  answered or fails, since the HTTP client has a timeout. `OnlineSpec` adds
  strong fairness of a received answer, without which no update could be
  expected to be handled; it is used where the question is whether the *poller*
  makes progress when the network does.
- `EnvSetup!FairSpec`: strong fairness of each worker. `sync.Mutex` hands the
  lock over in turn once a waiter has waited a millisecond (starvation mode), so a
  worker for which the lock becomes free again and again gets it; its commands
  have a timeout.
- `EventBroker!Fairness`: weak fairness of publishers and of a writer that has the lock,
  strong fairness of its announcement (the mutex inside `RWMutex` hands over in turn).
  Nothing is assumed of `Stream`: a client may stop reading.
- `ScriptRun!RunFairness`: weak fairness of the runner, of `cmd.Wait` (which has a
  `WaitDelay`), of the deadline and of a clean-up that was begun. The script may ignore
  signals and run on.
- `Daemon!Fairness`: weak fairness of the two goroutines of a shutdown. `Drain` is
  always enabled then, as `Shutdown` is given a context of five seconds; clients may
  stay. `StopPoller` has no deadline in the code: its outcome may be `stuck`, and then
  nothing is promised.

## Proofs

### TaskRunsProofs

For all finite sets of runs and all sets of tasks, packages and reloads, every
positive cap and retention (`ConstantsAssumption`): `Spec => []IInv`, and from it
type correctness and each safety property of `task_runs`, with the parts they are
conjunctions of (`SkipIfRunning` and `LoadCapped` of `SlotsBoundScripts`,
`ListedRunsCancelable` and `ListedRunsCurrent` of `ListingIsSound`). The properties are not
inductive by themselves. `IInv` adds:

- `RegistryInv`: a registered ID and the ID of a pending reload have a generation
  other than 0, and an ID always names the same package, also across pending
  reloads. Without it `ReloadImport` could register an ID twice.
- `RunInv`: what a run's phase says about its task, generation and process; in
  particular a script that is waited for is listed or about to be killed. That is
  what makes `ScriptsAreReachable` survive a removal.
- `TrackingInv`: cancel functions are registered before a run is listed, and
  only runs that were listed are terminated, so `CancelRun` never reaches its
  branch without a cancel function, which would free a slot early.
- `SlotInv`: a run of a task never removed that holds a slot has its task in
  `activeRuns`, and `activeRuns` is finite and within the cap. From it follow
  `SkipIfRunning`, and `LoadCapped` by an injection of running scripts into slots.

The preservation proof has one lemma per group of properties and one step per
action.

`Spec => KeepsSlots` is the refinement, with `IInv` in both states of a step. One lemma
per kind of step says which step of `RunSlots` it is (`ReserveKeepsSlots`,
`GatedKeepsSlots`, `StartKeepsSlots`, `FinishKeepsSlots`, `ScriptExits`,
`RegistryKeepsSlots`) or that it changes nothing that is shown (`IdleKeepsSlots`). An
import or reload is `Enter`, which needs that an ID is never entered twice (`UniqueRegistry`, from
`RegistryInv`); a reservation is `Take`, which needs that a run that is free is in no history and holds no
slot (`UnknownRun`), and that as many slots are taken as `activeRuns` has members at most;
the end of a run is `GiveBack`, which needs that nobody else holds the slot
(`SlotInv`).

### PersistenceProofs

For all sets of tasks, runs and handlers and any number of crashes:
`Spec => []AcknowledgedIsDurable`. The invariant `DInv` says that who holds a
copy is at a save point (and nobody is while the daemon is down), that every copy
being saved equals the memory (nobody writes while one is held), that what was
acknowledged is on disk, and also in the memory, so that the next save does not
drop it. Most steps are alike to it: they move nobody who saves and let the memory only
grow (`QuietStep`). Saves, removals and the restart are proved one by one.

`Spec => []ScriptsAreAccountedFor` needs another invariant, because the property is about
the file and most steps are about the memory. `AInv` says who knows of a running script:
while the daemon is up the memory does, or the list of the restart's clean-up, or whoever
has just started it or is about to kill it (`Known`); while it is down the file does, but
for the exceptions (`Left`). While the scripts of the last daemon are being killed nobody
else is at work (`CleaningInv`), so no save makes the file forget one of them.

`Spec => SavesAreAtomic` is the refinement of `DurableStore`. A commit is `Save` of the
memory because every copy is current (`DInv`), though it was taken earlier. `LiveInv` adds
that a run that has not started has no owner and was not removed, and that a run is in the list of
active runs only from its listing to its clearing. `Spec => []TypeOK` (`TypeCorrect`) needs the places of
each kind of goroutine (`PlacesOf`): where a save point leads depends on who saves. A step that moves only goroutines is a stutter, and the lemmas
`SavesShow`, `HandlersShow`, `RemovalShows`, `RunsShow`, `RestoreShows` and `CrashShows` map the others.

*Histories.* For any records whose runs follow one another in different seconds
(`Consecutive`), any policy and any time: retention leaves the first records of a history, with
their output cut, as many as the policy allows and none that is too old
(`RetainedIsAPrefix`); and rows come back in the order of the slice, because the texts of
such times are ordered as the times are (`ReadInOrder`, `TextsFollowSeconds`), with the status they had
(`AppliedKeepsTheStatus`). Hence a restart shows what was kept and retention finds nothing
more to do (`RestartShowsWhatWasKept`), and a dependency is healthy exactly when the latest
completed run of the one task it names satisfies it (`DependenciesSeeTheLatestRun`): the
first record is the latest (`TheFirstIsTheLatest`), it is the last to be forgotten, and an age at which
it is forgotten is one at which the policy forgets it. `HistoryServesDependenciesTheorem` shows that the
samples of the run are such histories and policies.

### PollerProofs

For any number of callers at a time, profile changes, updates and crashes
`Spec => []StopEndsItsLoop`: the invariant `LInv` adds that loops are numbered as they
start and that none is launched twice, so what a `Stop` waited for stays ended. From it
`Spec => []OneLoop`: `cancel` is nil when the poller does not run (`CancelInv`), so a
`Start` finds no loop but orphans, and what a `Stop` forgets has ended or becomes one. As
long as no `Stop` has left an orphan behind, one loop lives at most (`OneLoopAtMost`).

`Spec => []EachUpdateOnce` rests on that: with an orphan two loops share one offset, which
is divergence 2, and the property says nothing then. `PathInv` follows an update from
Telegram to the command: what was executed is below the offset and what a loop has still
to take is not (`OffsetInv`), which gives "at most once"; nothing below the offset was
passed over, and a batch has no gaps (`NoGaps`), which gives that what a fetch confirms was
handled, or dropped under a canceled context. A
loop takes the least update of its batch; that there is one is the well-foundedness of
the natural numbers.

`Spec => []TypeOK` (`TypeCorrect`) holds with orphans, too. `HandsFull` adds that a
loop between its fetch and the end of its batch has an update to take or in its hands, so
what it handles is the number of one.

### EnvSetupProofs

For all tasks, packages, workers, checks and generations: `Spec => []WorkersMatchState`.
`WInv` adds that a worker at work belongs to a generation that was begun, one worker to
each (`OneWorkerPerGeneration`), and that the setup lock is held by a worker of its task
between its two critical sections (`LockInv`).
`Spec => []ReadyMeansBuilt` holds for IDs that share packages in any way. `BuiltInv` says that
the marker tells the truth about every package that is not undermined; that whoever is at
pip or about to write the marker is in the environment it began in, or outdated (`Sound`);
that a worker whose result its task will take (`Current`) has a complete environment before
it; and that no worker of a ready task is about to remove its environment. The exceptions
are the code's: without them `env_reimport.cfg` and `env_check.cfg` are counterexamples.

### EventBrokerProofs

For all sets of clients and publishers, every capacity and every number of events:
`Spec => []NoSendOnClosed`, `Spec => []OrderPerPublisher` and the refinement
`Spec => KeepsPromise`. `BrokerInv` ties the handler's place to the map
(`Registered`) and says that only readers have channels to visit, all of them registered
(`ReadersVisit`), and that channels are bounded; each step then maps to a step of
`LossyFanout` or to a stutter. `Leave` needs `ReadersVisit`: its guard is what the write
lock provides. For the order, `OrderInv` adds that what is in a channel or written is
not ahead of its publisher (`Limit`), so an event that is appended is later than all
of its own before it.

### ProcessProofs

The daemon and a run of a script, the two parts whose subject is processes of the
operating system.

*The daemon.* For all sets of daemons, probes and changes: `Spec => []HolderIsNamed` and
`Spec => []SavedIsKept`. `LockInv` says who holds the lock at each place of `main`, and
that the name in the file is the holder's while it counts; `DownInv` that the
shutdown goroutine works only while `main` serves or waits for it; `StateInv` that
what is in the file is, for a daemon that has loaded, in its memory, still to be imported, or
among the tasks it could not import (`pending`, `failed`): only the last two can be
lost by its saves.

*A run.* For all manifests, outputs and limits: `RunSpec => []InterruptedRunsFail` and
`RunSpec => []CleanedUpAsRecorded`. Both are about the end of a run, and the invariant
(`RInv`) has what leads there: the process group exists from the launch to the clean-up at
most (`ProcsInv`); a run is taken for timed out only after the deadline, and for cancelled only if
it is not timed out, each from a certain step on (`InterruptInv`); the record of a run that has
ended, by whichever way (`RecordInv`); and the run directory, as long as nobody
cleans up from outside (`DirectoryInv`).

*The output of a run.* `RunSpec => []CaptureIsExact`, for outputs of any length, cut into
chunks anywhere, and any two limits. The property looks at all that was read;
the code has only the open line, a flag and the last result. `Captures` says what these are worth:
the line is the beginning of what follows the last newline, cut at `MaxLine`; it is marked as
dropped if and only if it is longer; and the last result is that of the lines that have ended.
`CapturedIs` shows that a piece keeps this, by cases: the piece is a newline or not, and the line is
within the limit, at it, or beyond it. `WrittenIs` joins the buffer, which keeps a prefix
(`PrefixAppend`), and `ChunkIs` goes from a piece to a chunk. `TakeChunk` is a fold, so this
is an induction; the least counterexample takes its place (`LeastElement`), on the
recursive function by which the community modules define the fold (`FoldExists`).
`OutputInv` then carries `Captures` up to the flush at the end, and the flushed result after it.
`RunTypeCorrect` follows from `RInv` and `OutputInv`, and adds what neither needs (`RestTypes`).

### DeliveryProofs

For all names, requests, inline profiles and handlers and any number of changes:
`Spec => []IdsAreUnique` and `Spec => CompleteStaysComplete` (an action property).
`uniqueDeliveryProfileIDLocked` tries one number after the other, and the model takes the
first one that is free: the proof shows that there is one. `ListInv` says that every profile
was added by a change of its own, so the list is no longer than the number of
changes, and by the pigeonhole principle (`IdsAreFew`) some number is not taken
(`UniqueIdIsNew`). That the numbered IDs of one base differ is an assumption on the texts
(`NumberedAssumption`). Adding, removing and replacing a profile then keep the IDs
apart one by one.

`Spec => []SentAsMeant`, for all names, spellings, references and orders of the profiles,
rests on the IDs. Assumed of the texts is that lower case stays when it is taken again, and
that slugs have no blanks around them and no capitals (`TextsAssumption`). `Meant` takes all profiles at once, while `newProfileLookup` goes
through them one by one and forgets. `Knows` relates the two: an alias that the lookup has was
claimed by that profile alone, one it takes for ambiguous by two, any other by nobody.
One text keeps this (`AliasIsKnown`, where "another ID" must mean "another profile"), hence so do
a text with its lower case (`TextIsKnown`), all texts of a profile (`ProfileIsKnown`) and the
list (`ListIsKnown`, the fold again by the least counterexample). A reference therefore finds a
profile if and only if it is an ID but for blanks, or the alias of exactly one
(`FoundAsMeant`, `MeantIsFound`), and the web UI matches it to that profile if its ID and
name have no blanks around them (`TidyIsUsed`). `DeliveryInv` says that the copy a run delivers with has
distinct IDs, and that every result so far is right.

### SchedulerProofs

For all tasks, schedules, callers, time zones with their texts of minutes and any length of time:
`Spec => []DoubleFireNeedsPriming` and `Spec => []PassedOverForAReason`. `SInv` adds that
the loop runs behind the ticker and the ticker behind the clock (`TimeInv`), so the
loop never returns to an earlier minute; that every mark has its reason (`MarkInv`); and
that nothing was decided for a later minute than the one the loop works for, where the
decision is marked or its mark was replaced (`DecidedInv`). A second decision for
a minute finds another mark: it was replaced, or the minute now has another text.

The second part is about `Cron` and quantifies over every field (`CronFields`) and time, where the
run compares samples. The loader accepts an expression exactly when the scheduler can parse
it (`LoaderAgreesTheorem`); one that parses matches the times `MANIFEST_SCHEMA.md` says
(`MatchesTheorem`: steps by division with remainder, Sunday in both directions,
two restricted day fields); `NextRun` finds the first such minute of its window or says that
there is none (`NextRunTheorem`, for windows within `MinutesOfYear`, the year that `At` has). The loop of `NextRun` and
the table of months are recursive functions; the proofs give a function that satisfies each
equation and show, by a least counterexample, that there is no other. The two properties that
the run evaluates on samples are instances (`LoaderAgreesOnSamplesTheorem`,
`CronFollowsSchemaTheorem`), for which the module extends `MCScheduler`.

The third part is about what the loader lets through: for every manifest of `Manifests` that loads,
setting the defaults again changes nothing, the schedule parses, there is a python, every
path a browser policy promises exists, and an isolated script sees its own directories
(`AdmittedManifestsRunTheorem`). `AdmittedManifestsRun` of the run `scheduler` evaluates
the same on samples, which are manifests (`SamplesAreManifests`), so the theorem applies to them
(`AdmittedManifestsRunOnSamplesTheorem`). `Texts` adds the literals of the defaults to `STRING`, because the
provers do not know them as strings; it is the same set.

### Only model-checked

Every safety property of the runs that pass is a theorem, and so are the three refinements.
Liveness and everything about fairness is out
of the prover's reach: `NobodyBlocks`, `RunReturns`, `ShutdownEnds`, `CallsReturn`,
`UpdatesAreHandled`, `SetupSettles` and those of `run_liveness`. So is, by its subject, what the two
runs that expect a violation find.

## Divergences between code and documents

Shown by a run (1, 5) or by a configuration of
[their own](#configurations-outside-the-runs):

1. `PRODUCT_DESIGN.md:95` "Skip-if-running policy prevents overlap": a reload in
   flight across a removal brings the ID back; the old run's end frees the new
   run's slot (`no_overlap`).
2. `poller.go:67` "Stop terminates the polling loop": not with two callers at a
   time (`poller_orphan.cfg`).
3. `telegram.go:172` "fetches new messages": an answer cut at 4096 bytes can never
   be decoded, and never gets shorter (`poller_stuck.cfg`).
4. `PRODUCT_DESIGN.md:96` runs are blocked "until `environmentSetup.state` is
   `ready`": the environment can be deleted under a ready task (`env_reimport.cfg`), and a
   marker that a check wrote across a rebuild (`confidence.go:95` takes no lock), or that a
   failed removal left, makes the next setup say `ready` over a venv without its
   requirements (`env_check.cfg`).
5. `PRODUCT_DESIGN.md:99` "State restored on daemon restart": a save during the
   restore may forget tasks (`tasks_survive`).
6. `scheduler.go:17` "to prevent double-fire": priming for another minute
   replaces the key (`double_fire.cfg`). So does, without priming, a reload that changes the
   time zone: the key is the text of the minute in the manifest's zone (`scheduler.go:125`).

Met while modelling and stated by no run:

- `CHANNEL_COMMANDS_DESIGN.md:37` promises no double processing across restarts;
  offsets are memory only (`poller.go:136`), so a crash repeats the batch that Telegram
  has not forgotten. `EachUpdateOnce` counts within one process.
- A `Restart` in the middle of a batch loses commands: the loop goes on over the batch,
  `handleCommand` drops each (`poller.go:249`), and the offset has passed them, so the next
  loop does not get them. Nobody is told. `EachUpdateOnce` and `UpdatesAreHandled` count
  them apart, as `dropped`.
- Overlapping calls of `Restart` and `Stop` make `wg.Wait` (`poller.go:80`) wait for a loop
  nobody cancels, or panic for reuse. `CallsReturn` says that nothing else does.
- `CHANNEL_COMMANDS_DESIGN.md:38` promises a rate limit per chat; the limiter
  belongs to the loop (`poller.go:111`), and a restart of the poller starts it anew.
- When a new manifest needs no environment the setup generation is not advanced
  (`engine.go:1325`), so a worker of the old manifest may store `ready` on a task
  that shows `not_required`. Runs of such a task look at the strategy first and
  are not affected; `ReadyMeansBuilt` speaks of managed tasks.
- A reload writes the enabled flag back that it read before it released the lock
  (`engine.go:232`): a disable in between is undone.
- A reload in a due minute, before that minute's tick, primes it and so
  suppresses the run; the repeated hour at the end of daylight saving time
  repeats texts, and a job that ran or was primed in its first pass, with no other
  minute between, is skipped in the second.
- A task whose import fails at the restore, and the whole state when `Load`
  fails, are dropped by the next save (`engine.go:165`, `main.go:104`), and so are tasks not
  yet imported when the worker of a set-up saves (`engine.go:1387`), until the restore ends.
  `SavedIsKept` says that a save takes nothing else out of the file.
- A shutdown waits for the poller without a deadline (`main.go:168`), so overlapping
  restarts may keep the daemon from ending (`stuck` in `Daemon`).
- `TerminateActiveRuns` copies the list of runs once; a run launched and not yet
  listed survives the shutdown. `ScriptsAreReachable` says that there are no other such
  runs: a script is out of reach only between its launch and its listing.
- `MANIFEST_SCHEMA.md:170` goes by "the latest completed run". Records enter the history
  when their deliveries are done (`engine.go:591`), so a gated attempt that overlaps a
  run may be the first record although the run ended later. After a restart the order is
  that of the text of the start times, in which `05.1Z` comes before `05Z`: runs
  started within one second may change places. `HistoryServesDependencies` is about runs
  of different seconds that follow each other.
- `deliveryProfileUsage` lists a task under each profile its reference may mean, while
  the delivery takes an ambiguous reference for one that is not found;
  `buildAttentionItems` takes the last profile of that alias. The router takes the first
  task that has a slug, while dependencies refuse a shared one.
- An update of a profile is validated with its driver and name trimmed and stored
  untrimmed (`routes.go:518`, `engine.go:986`): a driver of `" telegram"` passes and is unknown
  to the delivery, and a name of blanks passes for "no new name" and replaces the old one,
  though "profile name is required" (`routes.go:503`). `Delivery` has such requests. An update
  without `enabled` disables the profile.
- The lookup of a delivery cuts the blanks around the names and IDs of profiles
  (`service.go:211`, `223`), and the web UI compares them (`routes.go:727`): a message may go to a
  profile that does not list the task as a user. Of profiles whose IDs differ in such
  blanks only, which inline profiles can have, the last is sent to. `SentAsMeant` names both as
  its exceptions. The driver is content with a chat of blanks.
- The management API reads the settings, changes one and writes them all back: one of two
  retention updates at a time may be lost.
- A test message is not counted in the delivery diagnostics.
- `autostart install` takes the lock for a moment to see whether it is free; a daemon
  started in that moment refuses to run (`Refused` in `Daemon`).
- After `Release` and until the process ends, goroutines of the old daemon may still save,
  over what the next one has written; a failed `RestoreState` leaves an empty memory that the
  next save of a handler writes. `SavedIsKept` excepts both (`spoiled`).

## Not modelled

- Command router: it parses a text, calls engine operations that are modelled, and
  formats the answer. Authentication: one comparison per request. MCP adapter and
  daemon client: processes that turn requests into REST calls and keep nothing. Web UI:
  a client of the API. Update and autostart: one-shot commands that download, unpack
  and write service files; only the probe of the lock interacts, and is modelled.
  Examples test all of these better than exploration does.
- The views of the management API, diagnostics and counters for display, the command
  log, formatting and logging: no decision of the program reads them.
- Detached processes that do not have the run directory in their command line: neither
  the runner nor the engine can find them. The Windows process functions.
- A run directory that `prepareRunDirectory` left half made: `CleanedUpAsRecorded` is about
  runs whose directory was made.
- Daylight saving time in `Cron` (its effect on ticks is in `Scheduler`), letters whose
  lower case and `strings.EqualFold` disagree, the text of messages and their templates.
- Profiles, settings and switches in the file: saved the same way as what
  `Persistence` models; schema upgrades.
- `sync.RWMutex` outside the broker, `flock` and SQLite transactions are taken as
  correct.

## Plan

1. `TaskRuns`, `Poller`, `EnvSetup`, `Persistence`, `Scheduler` with their
   runs; proofs of `TaskRuns` and `Persistence`, and of the loops of `Poller`. Done.
2. Pure algorithms against reference definitions: `Cron`, `Manifest`,
   `RunEnvironment`, `History`, the capture of `ScriptRun`. Done.
3. `ScriptRun`, `EventBroker` with `LossyFanout`, `Delivery`, `Daemon`; proofs of
   `EventBroker`, its refinement, `Daemon`, `Scheduler`, and the profiles of
   `Delivery`. Done.
4. The abstract specifications `RunSlots`, which `TaskRuns` implements, and `DurableStore`,
   which `Persistence` implements. Done.
5. Proofs: `EachUpdateOnce`, `ReadyMeansBuilt`, `WorkersMatchState`, `ScriptsAreAccountedFor`, the runs of scripts
   with their output, the lookup of profiles; cron expressions and loaded manifests for all
   inputs; histories. Done.
6. Proofs of the refinements of 4. Done.
7. Open: the router's commands and the views of the management API, if they come to keep
   state; runs of one task that start within one second, once the store orders them by more
   than the text of the start.
