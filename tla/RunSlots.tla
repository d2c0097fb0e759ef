------------------------------- MODULE RunSlots -------------------------------
(***************************************************************************)
(* What the engine promises about registrations, runs and records, with   *)
(* neither locks nor goroutines: an ID and a directory have one entry each;*)
(* a task has one slot, a run takes it when it is free and the cap allows, *)
(* its script runs only meanwhile, and the run gives the slot back and     *)
(* leaves its record in one step.  A run that is gated leaves a record     *)
(* without a slot.  Nothing else touches a slot or a history but the       *)
(* removal of the task, after which nothing more is promised about its ID. *)
(***************************************************************************)
EXTENDS Naturals, Sequences, FiniteSets

CONSTANTS
  TaskIds,            \* task IDs
  Packages,           \* package directories
  RunIds,             \* run IDs
  MaxConcurrentRuns,  \* slots that may be taken at one time
  MaxRunsPerTask      \* records a history may hold

VARIABLES
  tasks,    \* the entries, [id, pkg]
  retired,  \* IDs that were removed
  holders,  \* task -> the runs that hold its slot
  scripts,  \* runs whose script is running
  history   \* task -> its records, newest first

vars == <<tasks, retired, holders, scripts, history>>

Init ==
  /\ tasks = {}
  /\ retired = {}
  /\ holders = [t \in TaskIds |-> {}]
  /\ scripts = {}
  /\ history = [t \in TaskIds |-> <<>>]

Entered(t) == \E k \in tasks : k.id = t

Taken == {t \in TaskIds : holders[t] # {}}

(* A run nobody has heard of: it holds no slot, and no history has it.      *)
Unknown(r) ==
  \A t \in TaskIds : /\ r \notin holders[t]
                     /\ \A i \in 1..Len(history[t]) : history[t][i] # r

(* A record in front of the others; the oldest give way.                    *)
Recorded(r, t) ==
  LET all == <<r>> \o history[t]
      n == IF Len(all) < MaxRunsPerTask THEN Len(all) ELSE MaxRunsPerTask IN
  history' = [history EXCEPT ![t] = SubSeq(all, 1, n)]

(* An entry takes the place of the one of its directory, if there is one.   *)
Enter(t, p) ==
  /\ ~Entered(t)
  /\ tasks' = {k \in tasks : k.pkg # p} \cup {[id |-> t, pkg |-> p]}
  /\ UNCHANGED <<retired, holders, scripts, history>>

Remove(k) ==
  /\ k \in tasks
  /\ tasks' = tasks \ {k}
  /\ retired' = retired \cup {k.id}
  /\ holders' = [holders EXCEPT ![k.id] = {}]
  /\ scripts' = scripts \ holders[k.id]
  /\ history' = [history EXCEPT ![k.id] = <<>>]

Take(t, r) ==
  /\ Entered(t) /\ t \notin retired
  /\ holders[t] = {}
  /\ Cardinality(Taken) < MaxConcurrentRuns
  /\ Unknown(r)
  /\ holders' = [holders EXCEPT ![t] = {r}]
  /\ UNCHANGED <<tasks, retired, scripts, history>>

Launch(t, r) ==
  /\ holders[t] = {r}
  /\ r \notin scripts
  /\ scripts' = scripts \cup {r}
  /\ UNCHANGED <<tasks, retired, holders, history>>

Exit(r) ==
  /\ r \in scripts
  /\ scripts' = scripts \ {r}
  /\ UNCHANGED <<tasks, retired, holders, history>>

(* A task whose directory went to another entry keeps no record.            *)
GiveBack(t, r) ==
  /\ holders[t] = {r}
  /\ r \notin scripts
  /\ holders' = [holders EXCEPT ![t] = {}]
  /\ IF Entered(t) THEN Recorded(r, t) ELSE UNCHANGED history
  /\ UNCHANGED <<tasks, retired, scripts>>

Note(t, r) ==
  /\ Entered(t) /\ t \notin retired
  /\ Unknown(r)
  /\ Recorded(r, t)
  /\ UNCHANGED <<tasks, retired, holders, scripts>>

Next ==
  \/ \E t \in TaskIds, p \in Packages : Enter(t, p)
  \/ \E k \in tasks : Remove(k)
  \/ \E r \in RunIds : Exit(r)
  \/ \E t \in TaskIds, r \in RunIds :
       Take(t, r) \/ Launch(t, r) \/ GiveBack(t, r) \/ Note(t, r)

Spec == Init /\ [][Next]_vars
===============================================================================
