----------------------------- MODULE MCPersistence -----------------------------
(* TLC instances of Persistence, and of the histories it stores.           *)
EXTENDS Persistence, History, TLC

(* Handlers and runs are interchangeable.                                   *)
Symmetry == Permutations(Handlers) \cup Permutations(RunIds)

-------------------------------------------------------------------------------
Ended(exitCode, parsed, canceled) ==
  [exitCode |-> exitCode, parsed |-> parsed, timedOut |-> FALSE, canceled |-> canceled]

(* No result, a good one, an alias, an unknown status, and a result of a    *)
(* script that was cancelled.                                               *)
SampleOutcomes ==
  {Ended(1, NoStatus, FALSE), Ended(0, "success", FALSE), Ended(0, "failed", FALSE),
   Ended(0, "unknown", FALSE), Ended(130, "success", TRUE)}

(* Start and finish of runs, on the second and between two of them.         *)
SampleSpans == {<<2, 5>>, <<7, 19>>, <<10, 12>>, <<20, 20>>, <<23, 31>>, <<40, 58>>}

Run(span, o) == [start |-> span[1], finish |-> span[2], outcome |-> o, output |-> span[2]]

(* A run of a task starts when the record of the one before it was stored,  *)
(* and in another second.                                                   *)
Serial(s) ==
  \A i, j \in DOMAIN s : i < j => /\ s[i][2] <= s[j][1]
                                 /\ s[i][1] \div Second # s[j][1] \div Second

SerialSpans(n) == {s \in [1..n -> SampleSpans] : Serial(s)}

HistoryOf(n, s, o) == [i \in 1..n |-> Run(s[n + 1 - i], o[i])]

Mixed == <<Ended(1, NoStatus, FALSE), Ended(0, "success", FALSE), Ended(1, NoStatus, FALSE)>>

SampleHistories ==
  {<<>>}
    \cup (UNION {{HistoryOf(n, s, o) : s \in SerialSpans(n), o \in [1..n -> SampleOutcomes]} :
                   n \in 1..2})
    \cup {HistoryOf(3, s, Mixed) : s \in SerialSpans(3)}

SamplePolicies == {Policy(0, 0, 0), Policy(1, -1, 10), Policy(2, 35, 20)}
Now == 60

Dependency(id, slug, require, maxAge, unhealthy) ==
  [id |-> id, slug |-> slug, require |-> require, maxAge |-> maxAge, unhealthy |-> unhealthy]

SampleDependencies ==
  {Dependency("t1", "", "success", 4, "fail"), Dependency("", "up", "failure", 0, "skip"),
   Dependency("", "down", "success", 0, "fail")}
TaskOf(id, slug, ds) == [id |-> id, slug |-> slug, ds |-> ds]

(* What MANIFEST_SCHEMA.md:170 asks of a dependency: the latest completed   *)
(* run of the one task that is named.  A run that is as old as the policy   *)
(* lets a record become is forgotten.                                       *)
Satisfied(tasks, d, completed, policy, now) ==
  \E t \in tasks :
    LET h == completed[t.id]
        Latest(i) == \A j \in DOMAIN h : h[j].start <= h[i].start IN
    /\ {u \in tasks : IF d.id # "" THEN u.id = d.id ELSE u.slug = d.slug} = {t}
    /\ \E i \in DOMAIN h :
         /\ Latest(i)
         /\ StatusOf(h[i].outcome) = d.require
         /\ d.maxAge > 0 => now <= h[i].finish + d.maxAge * Second
         /\ policy.age > 0 => now <= h[i].finish + policy.age

Shown(h) == [i \in DOMAIN h |-> <<h[i].start, h[i].finish, h[i].output, StatusOf(h[i].outcome)>>]

Restarted(h, policy, now) == Read(Rows(Retained(h, policy, now)))

Verdict(d) == IF d.unhealthy = "fail" THEN "failure" ELSE "skipped"

(* As long as the runs of a task follow one another, neither retention nor *)
(* a restart changes what tasks that depend on it see: the records come     *)
(* back from state.db in the order and with the status they had, the latest *)
(* completed run stays the one that counts even when older ones satisfy     *)
(* more, retention finds nothing more to do, and the gate, the report of    *)
(* the API and the list of dependents agree (engine.go:617, 635, 1150,      *)
(* management.go:345, state_sqlite.go:402).  It is about constants: one     *)
(* state is enough.                                                         *)
HistoryServesDependencies ==
  Init => \A h \in SampleHistories, policy \in SamplePolicies :
    LET restarted == Restarted(h, policy, Now)
        completed == [id \in {"t1", "t2", "t3"} |-> IF id = "t1" THEN h ELSE <<>>]
        histories == [id \in {"t1", "t2", "t3"} |-> IF id = "t1" THEN restarted ELSE <<>>] IN
    /\ Shown(restarted) = Shown(Retained(h, policy, Now))
    /\ Shown(Retained(restarted, policy, Now)) = Shown(restarted)
    /\ \A d, e \in SampleDependencies, other \in {"t0", "up"} :
         LET me == TaskOf("t3", "me", <<d, e>>)
             tasks == {TaskOf("t1", "up", <<>>), TaskOf("t2", other, <<>>), me}
             gate == Gate(tasks, histories, me.ds, Now)
             good(x) == Satisfied(tasks, x, completed, policy, Now) IN
         /\ gate = IF ~good(d) THEN Verdict(d) ELSE IF ~good(e) THEN Verdict(e) ELSE NoStatus
         /\ (Report(tasks, histories, me.ds, Now) = "unhealthy") = (gate # NoStatus)
         /\ \A x \in {d, e} : \A t \in Targets(tasks, x) : me \in Dependents(tasks, t)
===============================================================================
