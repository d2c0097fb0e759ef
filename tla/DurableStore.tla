------------------------------ MODULE DurableStore ------------------------------
(***************************************************************************)
(* What the daemon promises about its state file, with neither lock nor    *)
(* goroutines: a save is one atomic copy of the memory, what a caller has  *)
(* learned from a save stays promised until its task is removed, a crash   *)
(* takes the memory and leaves the file, and a restart starts from the     *)
(* file.  A run is listed and recorded only while it is live, recorded     *)
(* only when it is no longer listed, and live until its task is removed or *)
(* it has ended.                                                           *)
(***************************************************************************)
CONSTANTS
  TaskIds,  \* task IDs
  RunIds,   \* run IDs
  None      \* no task

VARIABLES
  memory,    \* the tasks, the listed runs and the records the daemon knows
  file,      \* the same, as the file has it
  promised,  \* tasks and records a caller was told of
  live,      \* runs in progress, of tasks that were not removed since
  owner,     \* the task of each run
  up         \* whether a daemon is there

vars == <<memory, file, promised, live, owner, up>>

Empty == [tasks |-> {}, active |-> {}, history |-> {}]

Init ==
  /\ memory = Empty /\ file = Empty
  /\ promised = {} /\ live = {}
  /\ owner = [r \in RunIds |-> None]
  /\ up = TRUE

(* A step of the daemon that changes the memory only.                       *)
Changes(m) ==
  /\ up
  /\ memory' = m
  /\ UNCHANGED <<file, promised, live, owner, up>>

Register(t) == Changes([memory EXCEPT !.tasks = @ \cup {t}])

List(r)   == r \in live /\ Changes([memory EXCEPT !.active = @ \cup {r}])
Clear(r)  == Changes([memory EXCEPT !.active = @ \ {r}])
Record(r) ==
  /\ r \in live \ memory.active
  /\ Changes([memory EXCEPT !.history = @ \cup {r}])

(* A removal takes the runs and the records of the task along.              *)
Remove(t) ==
  LET runs == {r \in RunIds : owner[r] = t} IN
  /\ up
  /\ t \in memory.tasks
  /\ memory' = [tasks |-> memory.tasks \ {t}, active |-> memory.active \ runs,
                history |-> memory.history \ runs]
  /\ promised' = promised \ ({t} \cup runs)
  /\ live' = live \ runs
  /\ UNCHANGED <<file, owner, up>>

(* A task has one live run at a time.                                       *)
Begin(r, t) ==
  /\ up
  /\ t \in memory.tasks
  /\ owner[r] = None
  /\ \A s \in live : owner[s] # t
  /\ owner' = [owner EXCEPT ![r] = t]
  /\ live' = live \cup {r}
  /\ UNCHANGED <<memory, file, promised, up>>

(* A run ends although its save failed.                                     *)
End(r) ==
  /\ up
  /\ live' = live \ {r}
  /\ UNCHANGED <<memory, file, promised, owner, up>>

(* Somebody saves, and a run may end with that; what the caller learns is   *)
(* in the memory.                                                           *)
Save(learned, ended) ==
  /\ up
  /\ learned \subseteq memory.tasks \cup memory.history
  /\ file' = memory
  /\ promised' = promised \cup learned
  /\ live' = live \ ended
  /\ UNCHANGED <<memory, owner, up>>

Crash ==
  /\ up
  /\ up' = FALSE
  /\ memory' = Empty
  /\ live' = {}
  /\ UNCHANGED <<file, promised, owner>>

(* The records are there at once; the tasks have to be registered again.    *)
Restart ==
  /\ ~up
  /\ up' = TRUE
  /\ memory' = [Empty EXCEPT !.history = file.history]
  /\ promised' = promised \cap RunIds
  /\ UNCHANGED <<file, live, owner>>

(* A daemon that cannot read the file owes nothing.                         *)
RestartBlind ==
  /\ ~up
  /\ up' = TRUE
  /\ promised' = {}
  /\ UNCHANGED <<memory, file, live, owner>>

Next ==
  \/ \E t \in TaskIds : Register(t) \/ Remove(t)
  \/ \E r \in RunIds : List(r) \/ Clear(r) \/ Record(r) \/ End(r)
  \/ \E r \in RunIds, t \in TaskIds : Begin(r, t)
  \/ Save({}, {})
  \/ \E t \in TaskIds : Save({t}, {})
  \/ \E r \in RunIds : Save({r}, {r}) \/ Save({}, {r})
  \/ Crash \/ Restart \/ RestartBlind

Spec == Init /\ [][Next]_vars
===============================================================================
