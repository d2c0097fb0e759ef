-------------------------------- MODULE ScriptRun --------------------------------
(***************************************************************************)
(* One run of a script, as RunScriptWithOptions carries it out             *)
(* (internal/core/runner.go, with result.go, browser.go, process_unix.go   *)
(* and models/run.go).                                                     *)
(*                                                                         *)
(* Four parties are at work: the runner's goroutine (pc), the goroutines   *)
(* of os/exec that copy the output and wait for the script, the processes  *)
(* of the script, and the engine, which may cancel the run, or kill it     *)
(* without telling the runner (RemoveTask, TerminateActiveRuns, a run that *)
(* is stale when it reports).  Standard output is a sequence of pieces;    *)
(* stderr goes through a buffer of the same kind and is left out.          *)
(***************************************************************************)
EXTENDS Manifest, SequencesExt

CONSTANTS
  Manifests,  \* manifests of packages; only those the loader accepts are run
  Limit,      \* pieces of output kept: runtime.max_output_kb
  MaxLine,    \* pieces of a line resultLineCapture holds (1 MiB)
  Outputs     \* what the script may write: sequences of pieces

ASSUME SizesAssumption == Limit \in Nat \ {0} /\ MaxLine \in Nat \ {0}
ASSUME SomeManifestLoads == \E m \in Manifests : Loads(m)
ASSUME ManifestsAssumption ==
  \A m \in Manifests : "isolated" \in DOMAIN m /\ m.isolated \in BOOLEAN

(* A piece of output: a text without the prefix of results, the prefix with *)
(* a result that says success or failure or that is no JSON, a newline.     *)
Pieces == {"text", "success", "failure", "bad", "newline"}
ResultPieces == {"success", "failure", "bad"}

ASSUME OutputsAssumption == Outputs \subseteq Seq(Pieces)

(* The script's first process, one of its group, one that left the group    *)
(* and names the run directory in its command line.                         *)
Group == {"root", "child"}
Processes == Group \cup {"detached"}

None == "none"
NoOutcome == [exitCode |-> 0, result |-> None, timedOut |-> FALSE, canceled |-> FALSE,
              status |-> None, runDir |-> FALSE, retained |-> FALSE, removal |-> None]

VARIABLES
  setup,     \* what the runner uses of the manifest
  pc,        \* where RunScriptWithOptions is
  procs,     \* the script's processes that are alive
  exit,      \* how the root process ended
  emitted,   \* what the processes wrote to the pipe
  taken,     \* number of pieces read from it: cappedBuffer.total
  kept,      \* cappedBuffer.data
  line,      \* resultLineCapture.current
  dropped,   \* resultLineCapture.dropped
  last,      \* resultLineCapture.last
  ready,     \* outputReady is closed
  waited,    \* cmd.Wait has returned
  cut,       \* it closed the pipe after WaitDelay
  deadline,  \* the context's deadline has passed
  cancel,    \* the engine called the run's cancel function
  timedOut,  \* the runner's variable
  canceled,  \* the runner's variable
  dir,       \* the run directory exists
  scanned,   \* the scan for detached processes succeeded
  listed,    \* the engine lists the run as active
  removed,   \* the task was removed
  reaper,    \* where a clean-up from outside (cleanupPersistedRunProcess) is
  outcome    \* the RunOutcome, or NoOutcome

captureVars == <<taken, kept, line, dropped, last>>
engineVars  == <<cancel, listed, removed, reaper>>
waitVars    == <<waited, cut>>
verdictVars == <<timedOut, canceled>>
runVars == <<setup, pc, procs, exit, emitted, captureVars, ready, waitVars, deadline, engineVars,
          verdictVars, dir, scanned, outcome>>

Setup(m) == LET d == Defaults(m) IN [isolated |-> d.isolated, browser |-> d.browser]

RunInit ==
  /\ setup \in {Setup(m) : m \in {m \in Manifests : Loads(m)}}
  /\ pc = "prepare"
  /\ procs = {} /\ exit = None
  /\ emitted = <<>> /\ taken = 0 /\ kept = <<>> /\ line = <<>> /\ dropped = FALSE /\ last = <<>>
  /\ ready = FALSE /\ waited = FALSE /\ cut = FALSE
  /\ deadline = FALSE /\ cancel = FALSE /\ timedOut = FALSE /\ canceled = FALSE
  /\ dir = FALSE /\ scanned = FALSE
  /\ listed = FALSE /\ removed = FALSE /\ reaper = "idle"
  /\ outcome = NoOutcome

RunTypeOK ==
  /\ pc \in {"prepare", "browser", "start", "report", "refused", "gate", "select", "grace",
             "await", "cleanup", "scan", "verdict", "directory", "finish", "returned"}
  /\ procs \subseteq Processes
  /\ exit \in {None, "ok", "error", "killed"}
  /\ emitted \in Seq(Pieces) /\ taken \in 0..Len(emitted)
  /\ kept \in Seq(Pieces) /\ line \in Seq(Pieces) /\ last \in Seq(Pieces)
  /\ reaper \in {"idle", "killing", "removing", "done"}
  /\ \A b \in {dropped, ready, waited, cut, deadline, cancel, timedOut, canceled, dir, scanned,
               listed, removed} : b \in BOOLEAN

-------------------------------------------------------------------------------
(* The script                                                               *)

(* Output is written once; that it arrives in chunks is up to TakeChunk.    *)
Emit(o) ==
  /\ procs # {} /\ ~cut
  /\ emitted = <<>>
  /\ emitted' = o
  /\ UNCHANGED <<setup, pc, procs, exit, captureVars, ready, waitVars, deadline, engineVars,
                 verdictVars, dir, scanned, outcome>>

(* Processes of the group start others, which inherit the pipe. *)
Fork(x) ==
  /\ procs \cap Group # {}
  /\ x \in {"child", "detached"} \ procs
  /\ procs' = procs \cup {x}
  /\ UNCHANGED <<setup, pc, exit, emitted, captureVars, ready, waitVars, deadline, engineVars,
                 verdictVars, dir, scanned, outcome>>

(* A process ends, by itself or by a SIGTERM it need not obey. *)
Ends(x) ==
  /\ x \in procs
  /\ procs' = procs \ {x}
  /\ IF x = "root" THEN exit' \in {"ok", "error", "killed"} ELSE UNCHANGED exit
  /\ UNCHANGED <<setup, pc, emitted, captureVars, ready, waitVars, deadline, engineVars,
                 verdictVars, dir, scanned, outcome>>

(* SIGKILL to the group. *)
GroupKilled ==
  /\ procs' = procs \ Group
  /\ exit' = IF "root" \in procs THEN "killed" ELSE exit

-------------------------------------------------------------------------------
(* The output goroutines                                                    *)

(* cappedBuffer.Write, for a piece *)
Capped(buffer, p) == IF Len(buffer) < Limit THEN Append(buffer, p) ELSE buffer

(* Lines longer than MaxLine are no results, whatever they begin with. *)
IsResultLine(l) == l # <<>> /\ l[1] \in ResultPieces

(* finishLine that does not forget that the line was too long. *)
FinishedLineStillDropped(c) ==
  [line |-> <<>>, dropped |-> c.dropped,
   last |-> IF ~c.dropped /\ IsResultLine(c.line) THEN c.line ELSE c.last]

(* finishLine *)
FinishedLine(c) ==
  [line |-> <<>>, dropped |-> FALSE,
   last |-> IF ~c.dropped /\ IsResultLine(c.line) THEN c.line ELSE c.last]

(* resultLineCapture.Write, for a piece *)
Captured(c, p) ==
  IF p = "newline" THEN FinishedLine(c)
  ELSE IF Len(c.line) < MaxLine THEN [c EXCEPT !.line = Append(@, p)]
  ELSE [c EXCEPT !.dropped = TRUE]

Capture == [line |-> line, dropped |-> dropped, last |-> last]

(* runOutputWriter.Write, for a piece: the buffer and the capture get it.   *)
Written(w, p) == [buffer |-> Capped(w.buffer, p), capture |-> Captured(w.capture, p)]

(* runOutputWriter.Write takes a chunk of output once outputReady is closed.*)
TakeChunk(n) ==
  /\ ready /\ ~cut /\ ~waited
  /\ taken + n <= Len(emitted)
  /\ LET w == FoldLeft(Written, [buffer |-> kept, capture |-> Capture],
                       SubSeq(emitted, taken + 1, taken + n)) IN
     /\ kept' = w.buffer
     /\ line' = w.capture.line /\ dropped' = w.capture.dropped /\ last' = w.capture.last
  /\ taken' = taken + n
  /\ UNCHANGED <<setup, pc, procs, exit, emitted, ready, waitVars, deadline, engineVars,
                 verdictVars, dir, scanned, outcome>>

(* cmd.Wait without a WaitDelay: the pipe must be closed at the other end.  *)
WaitForEndOfFile ==
  /\ ready /\ ~waited /\ exit # None
  /\ procs = {} /\ taken = Len(emitted)
  /\ cut' = FALSE
  /\ waited' = TRUE
  /\ UNCHANGED <<setup, pc, procs, exit, emitted, captureVars, ready, deadline, engineVars,
                 verdictVars, dir, scanned, outcome>>

(* cmd.Wait: the root has ended, and the pipe is at its end or WaitDelay is *)
(* over, in which case what was not read is lost.                           *)
WaitReturns ==
  /\ ready /\ ~waited /\ exit # None
  /\ \/ procs = {} /\ taken = Len(emitted) /\ cut' = FALSE
     \/ (procs # {} \/ taken < Len(emitted)) /\ cut' = TRUE
  /\ waited' = TRUE
  /\ UNCHANGED <<setup, pc, procs, exit, emitted, captureVars, ready, deadline, engineVars,
                 verdictVars, dir, scanned, outcome>>

-------------------------------------------------------------------------------
(* The verdict                                                              *)

(* ParseResult on the line resultLineCapture kept: a result is followed by *)
(* nothing else on its line.                                                *)
ParseResult(l) == IF Len(l) = 1 /\ l[1] # "bad" THEN l[1] ELSE None

ExitCode == [ok |-> 0, error |-> 1, killed |-> -1]

(* RunStatusFromOutcome that believes the script, whoever ended the run. *)
StatusBelievingScript(o) ==
  IF o.result # None THEN o.result ELSE IF o.exitCode = 0 THEN "success" ELSE "failure"

(* RunStatusFromOutcome *)
Status(o) ==
  IF o.timedOut \/ o.canceled THEN "failure"
  ELSE IF o.result # None THEN o.result
  ELSE IF o.exitCode = 0 THEN "success" ELSE "failure"

(* finalizeBrowserDiagnostics, shouldRetainBrowserRunDirectory *)
Retains(status, copyFailed) ==
  LET b == setup.browser IN
  /\ b.enabled
  /\ b.cleanup # "delete_always"
  /\ copyFailed \/ b.cleanup = "keep_always" \/ status # "success"

Outcome(exitCode, result, runDir, copyFailed) ==
  LET o == [exitCode |-> exitCode, result |-> result, timedOut |-> timedOut,
            canceled |-> canceled] IN
  [exitCode |-> exitCode, result |-> result, timedOut |-> timedOut, canceled |-> canceled,
   status |-> Status(o), runDir |-> runDir, retained |-> Retains(Status(o), copyFailed),
   removal |-> None]

(* A canceled run without a result of its own gets one, and exit code 130. *)
ScriptOutcome ==
  LET parsed == ParseResult(last) IN
  IF canceled /\ parsed = None THEN Outcome(130, "failure", setup.isolated, FALSE)
  ELSE Outcome(ExitCode[exit], parsed, setup.isolated, FALSE)

-------------------------------------------------------------------------------
(* The runner                                                               *)

RunnerUnchanged == UNCHANGED <<setup, emitted, waitVars, deadline>>

(* A launch failure is recorded as one; with retention or without. *)
Fail(runDir, copyFailed) ==
  /\ outcome' = Outcome(-1, None, runDir, copyFailed)
  /\ pc' = "directory"

(* prepareRunDirectory, if the run is isolated *)
Prepare ==
  /\ pc = "prepare"
  /\ dir' = setup.isolated
  /\ pc' = "browser"
  /\ RunnerUnchanged
  /\ UNCHANGED <<procs, exit, captureVars, ready, engineVars, verdictVars, scanned, outcome>>

(* It fails, perhaps after some of its directories were made. *)
PrepareFails ==
  /\ pc = "prepare" /\ setup.isolated
  /\ dir' \in BOOLEAN
  /\ Fail(FALSE, FALSE)
  /\ RunnerUnchanged
  /\ UNCHANGED <<procs, exit, captureVars, ready, engineVars, verdictVars, scanned>>

(* prepareBrowserRuntime: only the copy of a profile can fail. *)
PrepareBrowser ==
  /\ pc = "browser"
  /\ \/ pc' = "start" /\ UNCHANGED outcome
     \/ setup.browser.enabled /\ setup.browser.profile = "copy_from" /\ Fail(setup.isolated, TRUE)
  /\ RunnerUnchanged
  /\ UNCHANGED <<procs, exit, captureVars, ready, engineVars, verdictVars, dir, scanned>>

(* cmd.Start, and RegisterCancel *)
Launch ==
  /\ pc = "start"
  /\ procs' = {"root"}
  /\ pc' = "report"
  /\ RunnerUnchanged
  /\ UNCHANGED <<exit, captureVars, ready, engineVars, verdictVars, dir, scanned, outcome>>

LaunchFails ==
  /\ pc = "start"
  /\ Fail(setup.isolated, FALSE)
  /\ RunnerUnchanged
  /\ UNCHANGED <<procs, exit, captureVars, ready, engineVars, verdictVars, dir, scanned>>

(* OnStarted (recordActiveRun): the run is listed, or cleaned up at once if *)
(* its task was removed.                                                    *)
Report ==
  /\ pc = "report"
  /\ IF removed
     THEN pc' = "refused" /\ reaper' = "killing" /\ UNCHANGED listed
     ELSE pc' = "gate" /\ listed' = TRUE /\ UNCHANGED reaper
  /\ RunnerUnchanged
  /\ UNCHANGED <<procs, exit, captureVars, ready, cancel, removed, verdictVars, dir, scanned,
                 outcome>>

(* close(outputReady); cmd.Wait starts; the deadline may be over already. *)
OpenGate ==
  /\ pc = "gate" \/ (pc = "refused" /\ reaper = "done")
  /\ ready' = TRUE
  /\ timedOut' = deadline
  /\ pc' = "select"
  /\ RunnerUnchanged
  /\ UNCHANGED <<procs, exit, captureVars, engineVars, canceled, dir, scanned, outcome>>

SelectExit ==
  /\ pc = "select" /\ waited
  /\ pc' = "cleanup"
  /\ RunnerUnchanged
  /\ UNCHANGED <<procs, exit, captureVars, ready, engineVars, verdictVars, dir, scanned, outcome>>

(* cancelCtx is done: the deadline counts before the request. *)
SelectDone ==
  /\ pc = "select" /\ (deadline \/ cancel)
  /\ IF deadline THEN timedOut' = TRUE /\ UNCHANGED canceled
                 ELSE canceled' = TRUE /\ UNCHANGED timedOut
  /\ pc' = "grace"
  /\ RunnerUnchanged
  /\ UNCHANGED <<procs, exit, captureVars, ready, engineVars, dir, scanned, outcome>>

(* terminateProcessGroup: the group obeys SIGTERM, or is killed when the    *)
(* grace is over.                                                           *)
GraceEnds ==
  /\ pc = "grace"
  /\ GroupKilled
  /\ pc' = "await"
  /\ RunnerUnchanged
  /\ UNCHANGED <<captureVars, ready, engineVars, verdictVars, dir, scanned, outcome>>

Await ==
  /\ pc = "await" /\ waited
  /\ pc' = "cleanup"
  /\ RunnerUnchanged
  /\ UNCHANGED <<procs, exit, captureVars, ready, engineVars, verdictVars, dir, scanned, outcome>>

(* A runner that kills the group only when it interrupts the script. *)
CleanUpWithoutKill ==
  /\ pc = "cleanup"
  /\ pc' = IF setup.isolated THEN "scan" ELSE "verdict"
  /\ RunnerUnchanged
  /\ UNCHANGED <<procs, exit, captureVars, ready, engineVars, verdictVars, dir, scanned, outcome>>

(* resultCapture.Finish, and what is left of the group is terminated. *)
CleanUp ==
  /\ pc = "cleanup"
  /\ GroupKilled
  /\ LET f == IF line # <<>> \/ dropped THEN FinishedLine(Capture) ELSE Capture IN
     line' = f.line /\ dropped' = f.dropped /\ last' = f.last
  /\ pc' = IF setup.isolated THEN "scan" ELSE "verdict"
  /\ RunnerUnchanged
  /\ UNCHANGED <<taken, kept, ready, engineVars, verdictVars, dir, scanned, outcome>>

(* cleanupDetachedProcesses, which needs ps *)
Scan ==
  /\ pc = "scan"
  /\ scanned' \in BOOLEAN
  /\ procs' = IF scanned' THEN procs \ {"detached"} ELSE procs
  /\ pc' = "verdict"
  /\ RunnerUnchanged
  /\ UNCHANGED <<exit, captureVars, ready, engineVars, verdictVars, dir, outcome>>

Verdict ==
  /\ pc = "verdict"
  /\ outcome' = ScriptOutcome
  /\ pc' = "directory"
  /\ RunnerUnchanged
  /\ UNCHANGED <<procs, exit, captureVars, ready, engineVars, verdictVars, dir, scanned>>

(* The run directory goes, unless it is retained; os.RemoveAll may fail. *)
LeaveDirectory ==
  /\ pc = "directory"
  /\ IF outcome.runDir /\ ~outcome.retained
     THEN \E ok \in BOOLEAN :
            /\ dir' = (dir /\ ~ok)
            /\ outcome' = [outcome EXCEPT !.removal = IF ok THEN "removed" ELSE "failed"]
     ELSE UNCHANGED <<dir, outcome>>
  /\ pc' = "finish"
  /\ RunnerUnchanged
  /\ UNCHANGED <<procs, exit, captureVars, ready, engineVars, verdictVars, scanned>>

(* The deferred OnFinished (clearActiveRunRecord), and the return. *)
Finish ==
  /\ pc = "finish"
  /\ listed' = FALSE
  /\ pc' = "returned"
  /\ RunnerUnchanged
  /\ UNCHANGED <<procs, exit, captureVars, ready, cancel, removed, reaper, verdictVars, dir,
                 scanned, outcome>>

RunnerNext ==
  \/ Prepare \/ PrepareFails \/ PrepareBrowser \/ Launch \/ LaunchFails \/ Report \/ OpenGate
  \/ SelectExit \/ SelectDone \/ GraceEnds \/ Await
  \/ CleanUp \/ Scan \/ Verdict \/ LeaveDirectory \/ Finish

-------------------------------------------------------------------------------
(* The clock and the engine                                                 *)

EngineUnchanged ==
  UNCHANGED <<setup, pc, emitted, captureVars, ready, waitVars, verdictVars, scanned, outcome>>

DeadlinePasses ==
  /\ ~deadline /\ pc # "returned"
  /\ deadline' = TRUE
  /\ EngineUnchanged /\ UNCHANGED <<procs, exit, engineVars, dir>>

(* CancelRun *)
CancelRun ==
  /\ listed /\ ~cancel
  /\ cancel' = TRUE
  /\ EngineUnchanged /\ UNCHANGED <<procs, exit, deadline, listed, removed, reaper, dir>>

(* RemoveTask: it takes a listed run off the list and cleans it up. *)
RemoveTask ==
  /\ ~removed /\ reaper = "idle"
  /\ removed' = TRUE
  /\ listed' = FALSE
  /\ reaper' = IF listed THEN "killing" ELSE reaper
  /\ EngineUnchanged /\ UNCHANGED <<procs, exit, deadline, cancel, dir>>

(* TerminateActiveRuns: the run is cleaned up, then taken off the list. *)
TerminateRun ==
  /\ listed /\ reaper = "idle"
  /\ reaper' = "killing"
  /\ EngineUnchanged /\ UNCHANGED <<procs, exit, deadline, cancel, listed, removed, dir>>

(* cleanupPersistedRunProcess: the group is terminated if the root has not  *)
(* been waited for yet, and detached processes are if ps works.             *)
ReaperKills ==
  /\ reaper = "killing"
  /\ \E scan \in BOOLEAN :
       procs' = (IF waited THEN procs ELSE procs \ Group)
                  \ (IF scan /\ setup.isolated THEN {"detached"} ELSE {})
  /\ exit' = IF "root" \in procs /\ ~waited THEN "killed" ELSE exit
  /\ reaper' = "removing"
  /\ EngineUnchanged /\ UNCHANGED <<deadline, cancel, listed, removed, dir>>

(* It removes the run directory, whatever its policy says. *)
ReaperRemoves ==
  /\ reaper = "removing"
  /\ dir' \in {dir, FALSE}
  /\ reaper' = "done"
  /\ listed' = FALSE
  /\ EngineUnchanged /\ UNCHANGED <<procs, exit, deadline, cancel, removed>>

ScriptNext ==
  \/ \E o \in Outputs : Emit(o)
  \/ \E x \in Processes : Fork(x) \/ Ends(x)

OutputNext == \E n \in 1..Len(emitted) : TakeChunk(n)

ReaperNext == ReaperKills \/ ReaperRemoves

EngineNext == CancelRun \/ RemoveTask \/ TerminateRun

RunNext ==
  \/ RunnerNext \/ ScriptNext \/ OutputNext \/ WaitReturns
  \/ DeadlinePasses \/ EngineNext \/ ReaperNext

(* Goroutines are scheduled and timers fire; nothing is asked of the script.*)
RunFairness ==
  /\ WF_runVars(RunnerNext) /\ WF_runVars(WaitReturns)
  /\ WF_runVars(DeadlinePasses) /\ WF_runVars(ReaperNext)

RunSpec == RunInit /\ [][RunNext]_runVars /\ RunFairness

-------------------------------------------------------------------------------
(* Properties                                                               *)

(* The lines of the output so far, as intervals of positions; the last one  *)
(* has no newline yet.                                                      *)
Lines(s) ==
  {l \in (1..Len(s)) \X (1..Len(s)) :
     /\ l[1] <= l[2]
     /\ \A i \in l[1]..l[2] : s[i] # "newline"
     /\ l[1] = 1 \/ s[l[1] - 1] = "newline"
     /\ l[2] = Len(s) \/ s[l[2] + 1] = "newline"}

IsResult(s, l) == s[l[1]] \in ResultPieces /\ l[2] - l[1] < MaxLine

(* RESULT_SCHEMA.md: the result is the last line with the prefix.           *)
LastResult(s, complete) ==
  LET lines == {l \in Lines(s) : IsResult(s, l) /\ (complete \/ l[2] < Len(s))} IN
  IF lines = {} THEN <<>>
  ELSE LET l == CHOOSE l \in lines : \A k \in lines : k[1] <= l[1]
       IN SubSeq(s, l[1], l[2])

(* However the pipe cuts the output into chunks, the result the run goes by *)
(* is the last result line of all that was read, the one without a newline  *)
(* at the end included, and the cap on the output neither loses it nor      *)
(* loses count: what is kept is the beginning of what was read.  Everything *)
(* the script wrote was read unless WaitDelay cut the output off            *)
(* (runner.go:586, 643, 184).                                               *)
CaptureIsExact ==
  LET read == SubSeq(emitted, 1, taken)
      flushed == pc \in {"scan", "verdict"} \/ (outcome # NoOutcome /\ exit # None) IN
  /\ last = LastResult(read, flushed)
  /\ kept = SubSeq(read, 1, IF taken < Limit THEN taken ELSE Limit)
  /\ (waited /\ ~cut) => taken = Len(emitted)

(* A run that was interrupted is a failure whatever the script printed, and *)
(* so is one whose script was killed, by whomever, before it could print a  *)
(* result; a cancelled run has a result, and its record does not say too    *)
(* that it timed out (runner.go:166-183, 242; run.go:219).                  *)
InterruptedRunsFail ==
  pc = "returned" /\ exit # None =>
    /\ (outcome.timedOut \/ outcome.canceled) => outcome.status = "failure"
    /\ exit = "killed" /\ outcome.result = None => outcome.status = "failure"
    /\ outcome.canceled => outcome.result # None /\ ~outcome.timedOut

(* What the record says of the run directory is so when the run returns:    *)
(* it is there if and only if it was retained or could not be removed, and  *)
(* it was removed after a success unless the policy keeps it always.  This  *)
(* does not hold when the engine cleaned the run up from outside, or when   *)
(* the directory could not be prepared (runner.go:260, browser.go:85).      *)
DirectoryAsRecorded ==
  pc = "returned" /\ outcome.runDir /\ reaper = "idle" =>
    /\ dir = (outcome.retained \/ outcome.removal = "failed")
    /\ outcome.retained /\ outcome.status = "success" => setup.browser.cleanup = "keep_always"

(* No process of the script's group survives the run, and none that names   *)
(* its run directory does if ps could be run (runner.go:193-200).           *)
NothingSurvives ==
  pc = "returned" =>
    /\ procs \cap Group = {}
    /\ "detached" \in procs => ~setup.isolated \/ ~scanned

(* A run leaves behind what its record says and nothing else: no process of *)
(* its own, and a directory only where the policy or an error kept it       *)
(* (runner.go:193-269).                                                     *)
CleanedUpAsRecorded == NothingSurvives /\ DirectoryAsRecorded

(* Every run returns: a script that never ends, ignores SIGTERM or leaves   *)
(* a process behind that holds its output open does not keep the run, and   *)
(* its slot, for ever (runner.go:110, 184).                                 *)
RunReturns == (pc = "prepare") ~> (pc = "returned")
==================================================================================
