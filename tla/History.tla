--------------------------------- MODULE History ---------------------------------
(***************************************************************************)
(* Completed runs: how they are kept, written to state.db and read back    *)
(* (internal/core/engine.go, internal/store/state_sqlite.go), and what the *)
(* tasks that depend on them make of them (internal/core/management.go).   *)
(*                                                                         *)
(* A history is the sequence of the records of one task, the last stored   *)
(* one first.  A time counts tenths of a second; an output is its length.  *)
(***************************************************************************)
EXTENDS Manifest

NoStatus == "none"  \* an outcome without a parsed result

Second == 10

(* The indices in DOMAIN before, each after those that are before it: what  *)
(* a loop appends, or ORDER BY returns.  No two have as many before them.   *)
Arranged(before) ==
  [i \in 1..Cardinality(DOMAIN before) |->
     CHOOSE k \in DOMAIN before : Cardinality(before[k]) = i - 1]

-------------------------------------------------------------------------------
(* Retention                                                                *)

DefaultMaxRuns == 50

ClampNonNegative(n) == IF n < 0 THEN 0 ELSE n

(* UpdateRetentionPolicy, applySettingsLocked and retentionPolicyLocked     *)
Policy(runs, age, output) ==
  [runs   |-> IF runs > 0 THEN runs ELSE DefaultMaxRuns,
   age    |-> ClampNonNegative(age),
   output |-> ClampNonNegative(output)]

(* pruneTextToTail *)
PrunedLength(length, limit) == IF limit = 0 \/ length <= limit THEN length ELSE limit

(* applyRunRetentionLocked, for one task *)
Retained(h, policy, now) ==
  LET recent == {k \in DOMAIN h : policy.age = 0 \/ h[k].finish >= now - policy.age}
      fresh == Arranged([k \in recent |-> {j \in recent : j < k}])
      n == IF Len(fresh) < policy.runs THEN Len(fresh) ELSE policy.runs IN
  [i \in 1..n |-> [h[fresh[i]] EXCEPT !.output = PrunedLength(@, policy.output)]]

-------------------------------------------------------------------------------
(* What state.db keeps of a record                                          *)

(* RunStatusFromOutcome *)
StatusOf(o) ==
  IF o.timedOut \/ o.canceled THEN "failure"
  ELSE IF IsValidRunStatus(o.parsed) THEN NormalizeRunStatus(o.parsed)
  ELSE IF o.exitCode = 0 THEN "success" ELSE "failure"

(* applyStoredRunResult: the status column is for records whose result has  *)
(* no valid status.                                                         *)
Applied(r, status) ==
  IF IsValidRunStatus(r.outcome.parsed) \/ ~IsValidRunStatus(status) THEN r
  ELSE [r EXCEPT !.outcome.parsed = status]

(* writeSQLiteRunHistory: a row for each record, in the order of the slice. *)
Rows(h) == [i \in DOMAIN h |-> [record |-> h[i], status |-> StatusOf(h[i].outcome), rowid |-> i]]

(* formatSQLiteTime leaves the fraction out when there is none, and the     *)
(* database compares texts: "05.1Z" < "05.2Z" < "05Z".                      *)
TextOrder(t) == Second * (t \div Second) + (IF t % Second = 0 THEN Second ELSE t % Second)

(* The rows in that order, with their results. *)
Results(rows, before) ==
  LET order == Arranged(before) IN
  [i \in DOMAIN order |-> Applied(rows[order[i]].record, rows[order[i]].status)]

(* readSQLiteRunHistory without DESC *)
ReadOldestFirst(rows) ==
  LET Start(k) == TextOrder(rows[k].record.start)
      Before(j, k) == \/ Start(j) < Start(k)
                      \/ Start(j) = Start(k) /\ rows[j].rowid < rows[k].rowid IN
  Results(rows, [k \in DOMAIN rows |-> {j \in DOMAIN rows : Before(j, k)}])

(* readSQLiteRunHistory: ORDER BY started_at DESC, rowid DESC               *)
Read(rows) ==
  LET Start(k) == TextOrder(rows[k].record.start)
      Before(j, k) == \/ Start(j) > Start(k)
                      \/ Start(j) = Start(k) /\ rows[j].rowid > rows[k].rowid IN
  Results(rows, [k \in DOMAIN rows |-> {j \in DOMAIN rows : Before(j, k)}])

-------------------------------------------------------------------------------
(* Dependencies                                                             *)

(* findDependencyTargetLocked, as the set of the tasks it finds: an ID is   *)
(* looked up as such, a slug must belong to one task only.                  *)
Targets(tasks, d) ==
  IF d.id # "" THEN {t \in tasks : t.id = d.id} ELSE {t \in tasks : t.slug = d.slug}

(* evaluateTaskDependencyHealthLocked, with the histories of the tasks      *)
Healthy(tasks, histories, d, now) ==
  LET found == Targets(tasks, d)
      h == histories[(CHOOSE t \in found : TRUE).id] IN
  /\ \E t \in found : found = {t}
  /\ h # <<>>
  /\ StatusOf(h[1].outcome) = d.require
  /\ d.maxAge > 0 => now - h[1].finish <= d.maxAge * Second

(* evaluateTaskDependenciesLocked, unhealthyDependencyResult: the status of *)
(* the record that stands for the run, or NoStatus when the script may run. *)
Gate(tasks, histories, ds, now) ==
  LET bad == {i \in DOMAIN ds : ~Healthy(tasks, histories, ds[i], now)}
      first == CHOOSE i \in bad : \A j \in bad : i <= j IN
  IF bad = {} THEN NoStatus ELSE IF ds[first].unhealthy = "fail" THEN "failure" ELSE "skipped"

(* DependencyHealth, the report of the API *)
Report(tasks, histories, ds, now) ==
  IF ds = <<>> THEN "none"
  ELSE IF \A i \in DOMAIN ds : Healthy(tasks, histories, ds[i], now) THEN "healthy"
  ELSE "unhealthy"

(* TaskDependents, dependencyReferencesTask *)
Dependents(tasks, task) ==
  {t \in tasks \ {task} :
     \E i \in DOMAIN t.ds : LET d == t.ds[i] IN
       IF d.id # "" THEN d.id = task.id ELSE d.slug # "" /\ d.slug = task.slug}
================================================================================
