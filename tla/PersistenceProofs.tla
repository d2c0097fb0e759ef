--------------------------- MODULE PersistenceProofs ---------------------------
(***************************************************************************)
(* What was acknowledged is durable, and state.db is a store with atomic   *)
(* saves: for every set of tasks, runs and request handlers and any number *)
(* of crashes.  Then the histories: what retention and a restart leave of  *)
(* the records of runs that follow one another, and that dependencies see  *)
(* the latest of them.                                                     *)
(***************************************************************************)
EXTENDS MCPersistence, FiniteSetTheorems, WellFoundedInduction, TLAPS

Places ==
  {"idle", "kill", "reload", "setup", "free", "started", "stale", "waiting", "outcome",
   "done", "gone", "down", "cleaning", "restoring", "serving"} \cup SavePoints

Resting == {"idle", "free", "done", "gone", "down"}

(* The types the argument needs.                                            *)
SaveTypes ==
  /\ mem \in State
  /\ disk \in State
  /\ pc \in [Goroutines -> Places]
  /\ snap \in [Goroutines -> State \cup {None}]
  /\ request \in [Handlers -> TaskIds \cup {None}]

(* A reload has a task to reload.                                           *)
ReloadsHaveATask == \A h \in Handlers : pc[h] = "reload" => request[h] # None

(* Only somebody who is saving holds a copy, and while the daemon is down   *)
(* nobody is.                                                               *)
SaversAreAwake ==
  /\ \A c \in Goroutines : snap[c] # None => pc[c] \in SavePoints
  /\ pc[Main] = "down" => \A c \in Goroutines : pc[c] \in Resting

(* Nobody changes the memory while a copy of it is being saved.             *)
CopiesAreCurrent == \A c \in Goroutines : snap[c] # None => snap[c] = mem

(* What was acknowledged is in the memory, too, and will be saved again.    *)
AcknowledgedIsKnown ==
  pc[Main] # "down" => acknowledged \subseteq mem.tasks \cup mem.history

DInv ==
  /\ SaveTypes
  /\ ReloadsHaveATask
  /\ SaversAreAwake
  /\ CopiesAreCurrent
  /\ AcknowledgedIsDurable
  /\ AcknowledgedIsKnown

-------------------------------------------------------------------------------
(* The shapes of the steps                                                  *)

(* The goroutine a save returns to is in a place of its own.                *)
LEMMA AfterFacts ==
  ASSUME NEW p \in SavePoints
  PROVE  After(p) \in Places \ {"down", "reload"}
BY DEF After, SavePoints, Places

LEMMA GoroutineFacts ==
  /\ Main \in Goroutines
  /\ Handlers \subseteq Goroutines
  /\ RunIds \subseteq Goroutines
  /\ TaskIds \subseteq Goroutines
  /\ Main \notin Handlers /\ Main \notin RunIds /\ Main \notin TaskIds
  /\ TaskIds \cap RunIds = {}
BY ConstantsAssumption DEF Goroutines

(* A step that moves nobody who saves, and nobody while the daemon is down. *)
QuietMove ==
  /\ pc' \in [Goroutines -> Places]
  /\ pc'[Main] = "down" <=> pc[Main] = "down"
  /\ \A g \in Goroutines : pc'[g] = pc[g] \/ (pc[Main] # "down" /\ snap[g] = None)

(* A step that leaves the file, the copies and the acknowledgements alone,  *)
(* and lets the memory grow only, and that only when nobody saves.          *)
QuietData ==
  /\ UNCHANGED <<disk, snap, acknowledged>>
  /\ mem' \in State
  /\ mem' = mem \/ (/\ Unlocked
                    /\ mem.tasks \subseteq mem'.tasks
                    /\ mem.history \subseteq mem'.history)

QuietRequests ==
  /\ request' \in [Handlers -> TaskIds \cup {None}]
  /\ ReloadsHaveATask'

(* Most steps are all that, and keep the invariant.                         *)
LEMMA QuietStep ==
  ASSUME DInv, QuietMove, QuietData, QuietRequests
  PROVE  DInv'
<1> USE DEF QuietMove, QuietData, QuietRequests
<1>1. SaveTypes' /\ ReloadsHaveATask'
  BY DEF DInv, SaveTypes
<1>2. SaversAreAwake'
  <2>1. ASSUME NEW c \in Goroutines, snap'[c] # None PROVE pc'[c] \in SavePoints
    BY <2>1 DEF DInv, SaversAreAwake
  <2>2. ASSUME pc'[Main] = "down", NEW c \in Goroutines PROVE pc'[c] \in Resting
    BY <2>2 DEF DInv, SaversAreAwake
  <2> QED
    BY <2>1, <2>2 DEF SaversAreAwake
<1>3. CopiesAreCurrent'
  BY DEF DInv, CopiesAreCurrent, Unlocked
<1>4. AcknowledgedIsDurable' /\ AcknowledgedIsKnown'
  BY DEF DInv, AcknowledgedIsDurable, AcknowledgedIsKnown
<1> QED
  BY <1>1, <1>2, <1>3, <1>4 DEF DInv

-------------------------------------------------------------------------------
(* Preservation, group by group                                             *)

(* PersistState: the copy is taken, and the save succeeds or fails.         *)
LEMMA SaveSteps ==
  ASSUME DInv, NEW c \in Goroutines, BeginSave(c) \/ Saved(c) \/ SaveFails(c)
  PROVE  DInv'
<1> USE DEF DInv, SaveTypes
<1>1. CASE BeginSave(c)
  <2>1. SaveTypes' /\ ReloadsHaveATask'
    BY <1>1 DEF BeginSave, ReloadsHaveATask, requestVars
  <2>2. SaversAreAwake'
    BY <1>1 DEF BeginSave, SaversAreAwake
  <2>3. CopiesAreCurrent'
    BY <1>1 DEF BeginSave, CopiesAreCurrent
  <2>4. AcknowledgedIsDurable' /\ AcknowledgedIsKnown'
    BY <1>1 DEF BeginSave, AcknowledgedIsDurable, AcknowledgedIsKnown, ghostVars
  <2> QED
    BY <2>1, <2>2, <2>3, <2>4
<1>2. ASSUME snap[c] # None,
             pc' = [pc EXCEPT ![c] = After(@)],
             snap' = [snap EXCEPT ![c] = None],
             request' = [h \in Handlers |-> IF h = c THEN None ELSE request[h]],
             mem' = mem
      PROVE  /\ pc' \in [Goroutines -> Places]
             /\ snap' \in [Goroutines -> State \cup {None}]
             /\ request' \in [Handlers -> TaskIds \cup {None}]
             /\ ReloadsHaveATask'
             /\ SaversAreAwake' /\ CopiesAreCurrent'
             /\ pc[Main] # "down" /\ pc'[Main] # "down"
  <2>1. pc[c] \in SavePoints /\ After(pc[c]) \in Places \ {"down", "reload"}
    BY <1>2, AfterFacts DEF SaversAreAwake
  <2>2. pc[Main] # "down"
    BY <2>1, GoroutineFacts DEF SaversAreAwake, Resting, SavePoints
  <2>3. pc'[Main] # "down"
    BY <1>2, <2>1, <2>2, GoroutineFacts
  <2>4. SaversAreAwake'
    BY <1>2, <2>3 DEF SaversAreAwake
  <2>5. CopiesAreCurrent'
    BY <1>2 DEF CopiesAreCurrent
  <2>6. /\ request' \in [Handlers -> TaskIds \cup {None}]
        /\ ReloadsHaveATask'
    BY <1>2, <2>1, AfterFacts, GoroutineFacts DEF ReloadsHaveATask
  <2> QED
    BY <1>2, <2>1, <2>2, <2>3, <2>4, <2>5, <2>6
<1>3. CASE Saved(c)
  <2>1. disk' = mem /\ mem' = mem
    BY <1>3 DEF Saved, CopiesAreCurrent
  <2>2. Learned(c) \subseteq mem.tasks \cup mem.history
    BY DEF Learned
  <2>3. /\ pc' \in [Goroutines -> Places]
        /\ snap' \in [Goroutines -> State \cup {None}]
        /\ request' \in [Handlers -> TaskIds \cup {None}]
        /\ ReloadsHaveATask'
        /\ SaversAreAwake' /\ CopiesAreCurrent'
        /\ pc[Main] # "down" /\ pc'[Main] # "down"
    BY <1>2, <1>3, <2>1 DEF Saved
  <2>4. acknowledged' = acknowledged \cup Learned(c)
    BY <1>3 DEF Saved
  <2>5. AcknowledgedIsDurable' /\ AcknowledgedIsKnown'
    BY <2>1, <2>2, <2>3, <2>4 DEF AcknowledgedIsDurable, AcknowledgedIsKnown
  <2> QED
    BY <2>1, <2>3, <2>5
<1>4. CASE SaveFails(c)
  <2>1. UNCHANGED <<mem, disk, acknowledged>>
    BY <1>4 DEF SaveFails
  <2>2. /\ pc' \in [Goroutines -> Places]
        /\ snap' \in [Goroutines -> State \cup {None}]
        /\ request' \in [Handlers -> TaskIds \cup {None}]
        /\ ReloadsHaveATask'
        /\ SaversAreAwake' /\ CopiesAreCurrent'
        /\ pc[Main] # "down" /\ pc'[Main] # "down"
    BY <1>2, <1>4, <2>1 DEF SaveFails
  <2>3. AcknowledgedIsDurable' /\ AcknowledgedIsKnown'
    BY <2>1, <2>2 DEF AcknowledgedIsDurable, AcknowledgedIsKnown
  <2> QED
    BY <2>1, <2>2, <2>3
<1> QED
  BY <1>1, <1>3, <1>4

(* A goroutine that goes on from a place where it neither saves nor rests   *)
(* moves nobody who saves, and moves only while the daemon is up.           *)
LEMMA Awake ==
  ASSUME DInv, NEW c \in Goroutines, pc[c] \notin Resting
  PROVE  pc[Main] # "down"
BY DEF DInv, SaversAreAwake

LEMMA Moves ==
  ASSUME DInv, NEW c \in Goroutines, NEW from, NEW to \in Places \ {"down"},
         Goto(c, from, to), from \notin SavePoints, pc[Main] # "down"
  PROVE  /\ QuietMove
         /\ to # "reload" => \A h \in Handlers : pc'[h] = "reload" => pc[h] = "reload" /\ h # c
<1>1. pc' = [pc EXCEPT ![c] = to] /\ pc[c] = from
  BY DEF Goto
<1>2. snap[c] = None
  BY <1>1 DEF DInv, SaversAreAwake
<1>3. QuietMove
  BY <1>1, <1>2, GoroutineFacts DEF QuietMove, DInv, SaveTypes
<1>4. \A h \in Handlers : h # c => pc'[h] = pc[h]
  BY <1>1, GoroutineFacts DEF DInv, SaveTypes
<1>5. pc'[c] = to
  BY <1>1 DEF DInv, SaveTypes
<1> QED
  BY <1>3, <1>4, <1>5

(* An import moves the importer, if it is a handler, and starts the setup.  *)
LEMMA ImportMoves ==
  ASSUME DInv, NEW t \in TaskIds, Unlocked, pc[Main] # "down",
         NEW f \in [Goroutines -> Places],
         f[Main] = pc[Main],
         pc' = StartSetup(t, f)
  PROVE  /\ QuietMove
         /\ \A h \in Handlers : pc'[h] = "reload" => f[h] = "reload"
<1>1. pc' = f \/ pc' = [f EXCEPT ![t] = "setup"]
  BY DEF StartSetup
<1>2. pc' \in [Goroutines -> Places]
  BY <1>1 DEF Places
<1>3. pc'[Main] = pc[Main]
  BY <1>1, GoroutineFacts
<1>4. \A g \in Goroutines : snap[g] = None
  BY DEF Unlocked
<1>5. \A h \in Handlers : pc'[h] = "reload" => f[h] = "reload"
  BY <1>1, GoroutineFacts
<1> QED
  BY <1>2, <1>3, <1>4, <1>5 DEF QuietMove

(* Requests other than a removal.                                           *)
LEMMA HandlerSteps ==
  ASSUME DInv, NEW h \in Handlers,
         \/ \E t \in TaskIds : ImportTask(h, t) \/ ReloadRead(h, t)
         \/ ReloadImport(h)
         \/ ReloadFails(h)
         \/ KillVictims(h)
  PROVE  DInv'
<1> DEFINE f == [pc EXCEPT ![h] = "changed"]
<1>1. h \in Goroutines /\ None \notin TaskIds /\ mem \in State
  BY GoroutineFacts, ConstantsAssumption DEF DInv, SaveTypes
<1>2. /\ request \in [Handlers -> TaskIds \cup {None}]
      /\ \A g \in Handlers : pc[g] = "reload" => request[g] # None
  BY DEF DInv, SaveTypes, ReloadsHaveATask
<1>3. /\ f \in [Goroutines -> Places]
      /\ f[Main] = pc[Main]
      /\ \A g \in Handlers : f[g] = "reload" => pc[g] = "reload" /\ g # h
  BY GoroutineFacts DEF DInv, SaveTypes, Places, SavePoints
<1>4. /\ {"idle", "kill", "reload"} \cap SavePoints = {}
      /\ {"idle", "kill", "reload", "changed"} \subseteq Places \ {"down"}
      /\ {"kill", "reload"} \cap Resting = {}
  BY DEF SavePoints, Places, Resting
<1>5. ASSUME NEW t \in TaskIds, ImportTask(h, t) PROVE DInv'
  <2>1. pc[Main] # "down" /\ Unlocked /\ pc' = StartSetup(t, f)
    BY <1>5 DEF ImportTask, Serving
  <2>2. QuietMove /\ \A g \in Handlers : pc'[g] = "reload" => f[g] = "reload"
    BY <1>3, <2>1, ImportMoves
  <2>3. QuietData
    BY <1>1, <1>5, <2>1 DEF ImportTask, QuietData, State, ghostVars
  <2>4. request' = [request EXCEPT ![h] = t]
    BY <1>5 DEF ImportTask
  <2>5. QuietRequests
    BY <1>1, <1>2, <1>3, <2>2, <2>4 DEF QuietRequests, ReloadsHaveATask
  <2> QED
    BY <2>2, <2>3, <2>5, QuietStep
<1>6. ASSUME NEW t \in TaskIds, ReloadRead(h, t) PROVE DInv'
  <2>1. pc[Main] # "down" /\ Goto(h, "idle", "reload")
    BY <1>6 DEF ReloadRead, Serving
  <2>2. QuietMove
    BY <1>1, <1>4, <2>1, Moves
  <2>3. QuietData
    BY <1>1, <1>6 DEF ReloadRead, QuietData, ghostVars
  <2>4. request' = [request EXCEPT ![h] = t] /\ pc' = [pc EXCEPT ![h] = "reload"]
    BY <1>6 DEF ReloadRead, Goto
  <2>5. \A g \in Handlers : g # h => pc'[g] = pc[g]
    BY <2>4, GoroutineFacts DEF DInv, SaveTypes
  <2>6. QuietRequests
    BY <1>1, <1>2, <2>4, <2>5 DEF QuietRequests, ReloadsHaveATask
  <2> QED
    BY <2>2, <2>3, <2>6, QuietStep
<1>7. CASE ReloadImport(h)
  <2> DEFINE u == request[h]
  <2>1. /\ pc[h] = "reload" /\ Unlocked
        /\ pc' = StartSetup(u, f) /\ request' = request
        /\ mem' = [mem EXCEPT !.tasks = @ \cup {u}]
    BY <1>7 DEF ReloadImport, requestVars
  <2>2. pc[Main] # "down"
    BY <1>1, <1>4, <2>1, Awake
  <2>3. u \in TaskIds
    BY <1>2, <2>1
  <2>4. QuietMove /\ \A g \in Handlers : pc'[g] = "reload" => f[g] = "reload"
    BY <1>3, <2>1, <2>2, <2>3, ImportMoves
  <2>5. QuietData
    BY <1>1, <1>7, <2>1, <2>3 DEF ReloadImport, QuietData, State, ghostVars
  <2>6. QuietRequests
    BY <1>2, <1>3, <2>1, <2>4 DEF QuietRequests, ReloadsHaveATask
  <2> QED
    BY <2>4, <2>5, <2>6, QuietStep
<1>8. CASE ReloadFails(h)
  <2>1. Goto(h, "reload", "idle") /\ request' = [request EXCEPT ![h] = None]
    BY <1>8 DEF ReloadFails
  <2>2. pc[Main] # "down"
    BY <1>1, <1>4, <2>1, Awake DEF Goto
  <2>3. QuietMove /\ \A g \in Handlers : pc'[g] = "reload" => pc[g] = "reload" /\ g # h
    BY <1>1, <1>4, <2>1, <2>2, Moves
  <2>4. QuietData
    BY <1>1, <1>8 DEF ReloadFails, QuietData, ghostVars
  <2>5. QuietRequests
    BY <1>2, <2>1, <2>3 DEF QuietRequests, ReloadsHaveATask
  <2> QED
    BY <2>3, <2>4, <2>5, QuietStep
<1>9. CASE KillVictims(h)
  <2>1. Goto(h, "kill", "changed") /\ request' = request
    BY <1>9 DEF KillVictims
  <2>2. pc[Main] # "down"
    BY <1>1, <1>4, <2>1, Awake DEF Goto
  <2>3. QuietMove /\ \A g \in Handlers : pc'[g] = "reload" => pc[g] = "reload" /\ g # h
    BY <1>1, <1>4, <2>1, <2>2, Moves
  <2>4. QuietData
    BY <1>1, <1>9 DEF KillVictims, QuietData, ghostVars
  <2>5. QuietRequests
    BY <1>2, <2>1, <2>3 DEF QuietRequests, ReloadsHaveATask
  <2> QED
    BY <2>3, <2>4, <2>5, QuietStep
<1> QED
  BY <1>5, <1>6, <1>7, <1>8, <1>9

(* Runs.                                                                    *)
LEMMA RunSteps ==
  ASSUME DInv, NEW r \in RunIds, RunNext(r)
  PROVE  DInv'
<1>1. r \in Goroutines /\ mem \in State
  BY GoroutineFacts DEF DInv, SaveTypes
<1>2. /\ request \in [Handlers -> TaskIds \cup {None}]
      /\ \A g \in Handlers : pc[g] = "reload" => request[g] # None
  BY DEF DInv, SaveTypes, ReloadsHaveATask
<1>3. /\ {"free", "started", "stale", "waiting", "outcome"} \cap SavePoints = {}
      /\ {"started", "stale", "waiting", "outcome"} \cap Resting = {}
      /\ {"started", "stale", "recorded", "waiting", "cleared", "stored"}
           \subseteq Places \ {"down", "reload"}
  BY DEF SavePoints, Places, Resting
<1>4. request' = request /\ QuietData
  <2>1. \/ UNCHANGED <<mem, disk, snap, acknowledged, request>>
        \/ /\ Unlocked /\ UNCHANGED <<disk, snap, acknowledged, request>>
           /\ \/ mem' = [mem EXCEPT !.active = IF r \in stale THEN @ ELSE @ \cup {r}]
              \/ mem' = [mem EXCEPT !.active = @ \ {r}]
              \/ mem' = [mem EXCEPT !.history = IF r \in stale THEN @ ELSE @ \cup {r}]
    BY DEF RunNext, StartRun, RecordActiveRun, CleanUpStaleRun, ScriptEnds, ClearActiveRun,
           StoreRecord, requestVars, ghostVars
  <2>2. CASE UNCHANGED <<mem, disk, snap, acknowledged, request>>
    BY <1>1, <2>2 DEF QuietData
  <2>3. CASE /\ Unlocked /\ UNCHANGED <<disk, snap, acknowledged, request>>
             /\ \/ mem' = [mem EXCEPT !.active = IF r \in stale THEN @ ELSE @ \cup {r}]
                \/ mem' = [mem EXCEPT !.active = @ \ {r}]
                \/ mem' = [mem EXCEPT !.history = IF r \in stale THEN @ ELSE @ \cup {r}]
    BY <1>1, <2>3 DEF QuietData, State
  <2> QED
    BY <2>1, <2>2, <2>3
<1>5. QuietMove /\ \A h \in Handlers : pc'[h] = "reload" => pc[h] = "reload"
  <2>1. CASE \E t \in TaskIds : StartRun(r, t)
    BY <1>1, <1>3, <2>1, Moves DEF StartRun, Serving
  <2>2. CASE RecordActiveRun(r)
    <3>1. PICK to \in {"stale", "recorded"} : Goto(r, "started", to)
      BY <2>2 DEF RecordActiveRun
    <3>2. pc[Main] # "down"
      BY <1>1, <1>3, <3>1, Awake DEF Goto
    <3> QED
      BY <1>1, <1>3, <3>1, <3>2, Moves
  <2>3. CASE CleanUpStaleRun(r)
    <3>1. Goto(r, "stale", "waiting")
      BY <2>3 DEF CleanUpStaleRun
    <3>2. pc[Main] # "down"
      BY <1>1, <1>3, <3>1, Awake DEF Goto
    <3> QED
      BY <1>1, <1>3, <3>1, <3>2, Moves
  <2>4. CASE ScriptEnds(r)
    BY <2>4 DEF ScriptEnds, QuietMove, DInv, SaveTypes
  <2>5. CASE ClearActiveRun(r)
    <3>1. Goto(r, "waiting", "cleared")
      BY <2>5 DEF ClearActiveRun
    <3>2. pc[Main] # "down"
      BY <1>1, <1>3, <3>1, Awake DEF Goto
    <3> QED
      BY <1>1, <1>3, <3>1, <3>2, Moves
  <2>6. CASE StoreRecord(r)
    <3>1. Goto(r, "outcome", "stored")
      BY <2>6 DEF StoreRecord
    <3>2. pc[Main] # "down"
      BY <1>1, <1>3, <3>1, Awake DEF Goto
    <3> QED
      BY <1>1, <1>3, <3>1, <3>2, Moves
  <2> QED
    BY <2>1, <2>2, <2>3, <2>4, <2>5, <2>6 DEF RunNext
<1>6. QuietRequests
  BY <1>2, <1>4, <1>5 DEF QuietRequests, ReloadsHaveATask
<1> QED
  BY <1>4, <1>5, <1>6, QuietStep

(* Environment setups.                                                      *)
LEMMA SetupSteps ==
  ASSUME DInv, NEW t \in TaskIds, SetupSettles(t)
  PROVE  DInv'
<1>1. t \in Goroutines /\ mem \in State
  BY GoroutineFacts DEF DInv, SaveTypes
<1>2. /\ request \in [Handlers -> TaskIds \cup {None}]
      /\ \A g \in Handlers : pc[g] = "reload" => request[g] # None
  BY DEF DInv, SaveTypes, ReloadsHaveATask
<1>3. PICK to \in {"settled", "idle"} : Goto(t, "setup", to)
  BY DEF SetupSettles
<1>4. "setup" \notin SavePoints \cup Resting /\ to \in Places \ {"down", "reload"}
  BY DEF SavePoints, Places, Resting
<1>5. pc[Main] # "down"
  BY <1>1, <1>3, <1>4, Awake DEF Goto
<1>6. QuietMove /\ \A h \in Handlers : pc'[h] = "reload" => pc[h] = "reload"
  BY <1>1, <1>3, <1>4, <1>5, Moves
<1>7. request' = request /\ QuietData
  BY <1>1 DEF SetupSettles, QuietData, requestVars, ghostVars
<1>8. QuietRequests
  BY <1>2, <1>6, <1>7 DEF QuietRequests, ReloadsHaveATask
<1> QED
  BY <1>6, <1>7, <1>8, QuietStep

(* The restart, once the file is read.                                      *)
LEMMA RestoreSteps ==
  ASSUME DInv,
         \/ \E r \in RunIds : CleanListedRun(r)
         \/ \E t \in TaskIds : RestoreTask(t) \/ RestoreFails(t)
         \/ RestoreEnds
  PROVE  DInv'
<1>1. Main \in Goroutines /\ mem \in State /\ pc \in [Goroutines -> Places]
  BY GoroutineFacts DEF DInv, SaveTypes
<1>2. /\ request \in [Handlers -> TaskIds \cup {None}]
      /\ \A g \in Handlers : pc[g] = "reload" => request[g] # None
  BY DEF DInv, SaveTypes, ReloadsHaveATask
<1>3. request' = request
  BY DEF CleanListedRun, RestoreTask, RestoreFails, RestoreEnds, requestVars
<1>4. QuietData
  BY <1>1 DEF CleanListedRun, RestoreTask, RestoreFails, RestoreEnds, QuietData, State,
              ghostVars
<1>5. QuietMove /\ \A h \in Handlers : pc'[h] = "reload" => pc[h] = "reload"
  <2>1. CASE (\E r \in RunIds : CleanListedRun(r)) \/ (\E t \in TaskIds : RestoreFails(t))
    BY <1>1, <2>1 DEF CleanListedRun, RestoreFails, QuietMove
  <2>2. CASE \E t \in TaskIds : RestoreTask(t)
    <3>1. PICK t \in TaskIds : pc[Main] # "down" /\ Unlocked /\ pc' = StartSetup(t, pc)
      BY <2>2 DEF RestoreTask, Restoring
    <3> QED
      BY <1>1, <3>1, ImportMoves
  <2>3. CASE RestoreEnds
    <3>1. PICK from \in {"cleaning", "restoring"}, to \in {"restored", "begun"} :
            Goto(Main, from, to)
      BY <2>3 DEF RestoreEnds
    <3>2. /\ from \notin SavePoints
          /\ to \in Places \ {"down", "reload"}
      BY DEF SavePoints, Places
    <3>3. pc[Main] # "down"
      BY <3>1 DEF Goto
    <3> QED
      BY <1>1, <3>1, <3>2, <3>3, Moves
  <2> QED
    BY <2>1, <2>2, <2>3
<1>6. QuietRequests
  BY <1>2, <1>3, <1>5 DEF QuietRequests, ReloadsHaveATask
<1> QED
  BY <1>4, <1>5, <1>6, QuietStep

(* A removal takes from the memory what it takes from the acknowledged.     *)
LEMMA RemoveStep ==
  ASSUME DInv, NEW h \in Handlers, NEW t \in TaskIds, RemoveTask(h, t)
  PROVE  DInv'
<1> USE DEF DInv, SaveTypes
<1>1. /\ h \in Goroutines
      /\ Goto(h, "idle", "kill") /\ "idle" \notin SavePoints
      /\ "kill" \in Places \ {"down", "reload"}
      /\ pc[Main] # "down"
  BY GoroutineFacts DEF RemoveTask, Serving, SavePoints, Places
<1>2. QuietMove /\ \A g \in Handlers : pc'[g] = "reload" => pc[g] = "reload"
  BY <1>1, Moves
<1>3. /\ mem'.tasks = mem.tasks \ {t} /\ mem'.history = mem.history \ RunsOf(t)
      /\ mem' \in State
  BY DEF RemoveTask, State
<1>4. /\ Unlocked /\ UNCHANGED <<disk, snap, request>>
      /\ acknowledged' = acknowledged \ ({t} \cup RunsOf(t))
  BY DEF RemoveTask
<1>5. SaveTypes' /\ ReloadsHaveATask'
  BY <1>2, <1>3, <1>4 DEF QuietMove, ReloadsHaveATask
<1>6. SaversAreAwake'
  BY <1>1, <1>2, <1>4 DEF SaversAreAwake, QuietMove
<1>7. CopiesAreCurrent'
  BY <1>4 DEF CopiesAreCurrent, Unlocked
<1>8. AcknowledgedIsDurable'
  BY <1>4 DEF AcknowledgedIsDurable
<1>9. AcknowledgedIsKnown'
  BY <1>1, <1>3, <1>4 DEF AcknowledgedIsKnown
<1> QED
  BY <1>5, <1>6, <1>7, <1>8, <1>9

(* The daemon dies, and the next one reads the file or cannot.              *)
LEMMA CrashSteps ==
  ASSUME DInv, Crash \/ Load \/ LoadFails
  PROVE  DInv'
<1> USE GoroutineFacts DEF DInv, SaveTypes
<1>1. CASE Crash
  <2>1. Empty \in State
    BY DEF Empty, State
  <2>2. \A c \in Goroutines : pc'[c] \in Resting
    BY <1>1 DEF Crash, InProgress, Resting
  <2>3. SaveTypes'
    BY <1>1, <2>1, <2>2 DEF Crash, Resting, Places
  <2>4. pc'[Main] = "down" /\ \A c \in Goroutines : snap'[c] = None
    BY <1>1 DEF Crash
  <2>5. ReloadsHaveATask' /\ SaversAreAwake' /\ CopiesAreCurrent' /\ AcknowledgedIsKnown'
    BY <2>2, <2>4
    DEF ReloadsHaveATask, SaversAreAwake, CopiesAreCurrent, AcknowledgedIsKnown, Resting
  <2>6. AcknowledgedIsDurable'
    BY <1>1 DEF Crash, AcknowledgedIsDurable
  <2> QED
    BY <2>3, <2>5, <2>6
<1>2. CASE Load \/ LoadFails
  <2>1. PICK to \in {"cleaning", "restoring", "serving"} : Goto(Main, "down", to)
    BY <1>2 DEF Load, LoadFails
  <2>2. /\ pc' = [pc EXCEPT ![Main] = to]
        /\ \A c \in Goroutines : pc[c] \notin SavePoints /\ pc[c] # "reload"
    BY <2>1 DEF Goto, SaversAreAwake, Resting, SavePoints
  <2>3. \A c \in Goroutines : snap[c] = None
    BY <2>2 DEF SaversAreAwake
  <2>4. UNCHANGED <<disk, snap, request>> /\ mem' \in State
    BY <1>2 DEF Load, LoadFails, Empty, State, requestVars
  <2>5. SaveTypes'
    BY <2>2, <2>4 DEF Places
  <2>6. ReloadsHaveATask' /\ SaversAreAwake' /\ CopiesAreCurrent'
    BY <2>2, <2>3, <2>4 DEF ReloadsHaveATask, SaversAreAwake, CopiesAreCurrent
  <2>7. /\ acknowledged' \subseteq disk.history
        /\ acknowledged' \subseteq mem'.tasks \cup mem'.history
    BY <1>2 DEF Load, LoadFails, Empty, AcknowledgedIsDurable, State
  <2> QED
    BY <2>4, <2>5, <2>6, <2>7 DEF AcknowledgedIsDurable, AcknowledgedIsKnown
<1> QED
  BY <1>1, <1>2

-------------------------------------------------------------------------------
(* The theorems                                                             *)

(* The invariant holds in every reachable state.                            *)
THEOREM DurabilityInvariant == Spec => []DInv
<1>1. Init => DInv
  <2> SUFFICES ASSUME Init PROVE DInv
    OBVIOUS
  <2>1. mem = Empty /\ disk = Empty /\ Empty \in State
    BY DEF Init, Empty, State
  <2>2. SaveTypes
    BY <2>1 DEF Init, SaveTypes, Places, SavePoints
  <2>3. \A c \in Goroutines : pc[c] # "reload" /\ snap[c] = None
    BY DEF Init
  <2>4. pc[Main] = "serving"
    BY GoroutineFacts DEF Init
  <2>5. ReloadsHaveATask /\ SaversAreAwake /\ CopiesAreCurrent
    BY <2>3, <2>4, GoroutineFacts DEF ReloadsHaveATask, SaversAreAwake, CopiesAreCurrent
  <2>6. AcknowledgedIsDurable /\ AcknowledgedIsKnown
    BY DEF Init, AcknowledgedIsDurable, AcknowledgedIsKnown
  <2> QED
    BY <2>2, <2>5, <2>6 DEF DInv
<1>2. DInv /\ [Next]_vars => DInv'
  <2> SUFFICES ASSUME DInv, [Next]_vars PROVE DInv'
    OBVIOUS
  <2>1. CASE \E c \in Goroutines : BeginSave(c) \/ Saved(c) \/ SaveFails(c)
    BY <2>1, SaveSteps
  <2>2. CASE \E h \in Handlers : HandlerNext(h)
    <3>1. PICK h \in Handlers : HandlerNext(h)
      BY <2>2
    <3>2. CASE \E t \in TaskIds : ImportTask(h, t) \/ ReloadRead(h, t) \/ RemoveTask(h, t)
      BY <3>2, HandlerSteps, RemoveStep
    <3>3. CASE ReloadImport(h) \/ ReloadFails(h) \/ KillVictims(h)
      BY <3>3, HandlerSteps
    <3> QED
      BY <3>1, <3>2, <3>3 DEF HandlerNext
  <2>3. CASE \E r \in RunIds : RunNext(r)
    BY <2>3, RunSteps
  <2>4. CASE \E t \in TaskIds : SetupSettles(t)
    BY <2>4, SetupSteps
  <2>5. CASE RestoreNext
    BY <2>5, RestoreSteps, CrashSteps DEF RestoreNext
  <2>6. CASE Crash
    BY <2>6, CrashSteps
  <2>7. CASE UNCHANGED vars
    BY <2>7 DEF vars, DInv, SaveTypes, ReloadsHaveATask, SaversAreAwake, CopiesAreCurrent,
                AcknowledgedIsDurable, AcknowledgedIsKnown
  <2> QED
    BY <2>1, <2>2, <2>3, <2>4, <2>5, <2>6, <2>7 DEF Next
<1> QED
  BY <1>1, <1>2, PTL DEF Spec

(* Whatever happens between the copy and the commit, the file becomes the   *)
(* memory of that moment (PersistState keeps the read lock over Store.Save).*)
THEOREM SavesAreExactTheorem == Spec => SavesAreExact
<1>1. DInv /\ [Next]_vars => [disk' # disk => disk' = mem]_vars
  <2> SUFFICES ASSUME DInv, Next, disk' # disk PROVE disk' = mem
    BY DEF vars
  <2>1. \E c \in Goroutines : Saved(c)
    BY DEF Next, BeginSave, SaveFails, HandlerNext, ImportTask, ReloadRead, RemoveTask,
           ReloadImport, ReloadFails, KillVictims, RunNext, StartRun, RecordActiveRun,
           CleanUpStaleRun, ScriptEnds, ClearActiveRun, StoreRecord, SetupSettles,
           RestoreNext, Load, LoadFails, CleanListedRun, RestoreTask, RestoreFails,
           RestoreEnds, Crash
  <2> QED
    BY <2>1 DEF Saved, DInv, CopiesAreCurrent
<1> QED
  BY <1>1, DurabilityInvariant, PTL DEF SavesAreExact, Spec

(* What a request or a run was told is saved is in the file in every state  *)
(* that follows, crashes and failed saves included, until it is removed.    *)
THEOREM AcknowledgedIsDurableTheorem == Spec => []AcknowledgedIsDurable
<1>1. DInv => AcknowledgedIsDurable
  BY DEF DInv
<1> QED
  BY <1>1, DurabilityInvariant, PTL

-------------------------------------------------------------------------------
(* Running scripts                                                          *)

ScriptTypes ==
  /\ alive \subseteq RunIds
  /\ victims \in [Handlers -> SUBSET RunIds]
  /\ toClean \subseteq RunIds

(* Only a handler that is about to kill has runs to kill.                   *)
VictimsInv == \A h \in Handlers : pc[h] # "kill" => victims[h] = {}

(* While scripts of the daemon before are being killed nobody is at work.   *)
CleaningInv ==
  toClean # {} => /\ pc[Main] = "cleaning"
                  /\ \A c \in Goroutines \ {Main} : pc[c] \in Resting

(* A run that is not recorded yet, or not killed yet by who dropped it.     *)
InHand(r) == pc[r] \in {"started", "stale"} \/ \E h \in Handlers : r \in victims[h]

(* A daemon that is up knows of every script that runs.                     *)
Known == pc[Main] # "down" =>
  \A r \in alive : r \in mem.active \cup toClean \cup missed \/ InHand(r)

(* When it is down the file does, of all those it is not excused from.      *)
Left == pc[Main] = "down" => alive \subseteq disk.active \cup missed

AInv ==
  /\ ScriptTypes /\ VictimsInv /\ CleaningInv /\ Known /\ Left /\ ScriptsAreAccountedFor

LEMMA InitAInv == Init => AInv
<1> SUFFICES ASSUME Init PROVE AInv
  OBVIOUS
<1>1. alive = {} /\ toClean = {} /\ victims = [h \in Handlers |-> {}]
  BY DEF Init
<1> QED
  BY <1>1
  DEF AInv, ScriptTypes, VictimsInv, CleaningInv, Known, Left, ScriptsAreAccountedFor

(* A step that starts no script, forgets none that runs, and moves no run   *)
(* that is on its way into the file.                                        *)
Calm ==
  /\ UNCHANGED <<disk, victims, toClean, missed, unlisted>>
  /\ alive' \subseteq alive
  /\ \A r \in alive' : /\ r \in mem.active => r \in mem'.active
                       /\ pc[r] \in {"started", "stale", "recorded"} => pc'[r] = pc[r]
  /\ pc'[Main] = "down" <=> pc[Main] = "down"
  /\ toClean = {} \/ pc' = pc
  /\ \A h \in Handlers : pc[h] = "kill" => pc'[h] = "kill"

LEMMA CalmStep ==
  ASSUME AInv, Calm
  PROVE  AInv'
<1> USE DEF Calm
<1>1. ScriptTypes' /\ VictimsInv' /\ CleaningInv'
  BY DEF AInv, ScriptTypes, VictimsInv, CleaningInv
<1>2. Known'
  BY DEF AInv, Known, InHand
<1>3. Left' /\ ScriptsAreAccountedFor'
  BY DEF AInv, Left, ScriptsAreAccountedFor, InTransit
<1> QED
  BY <1>1, <1>2, <1>3 DEF AInv

(* Whoever is at work can say that the scripts of before are dead.          *)
LEMMA NothingToClean ==
  ASSUME AInv, NEW c \in Goroutines, pc[c] \notin Resting, pc[c] # "cleaning"
  PROVE  toClean = {}
BY DEF AInv, CleaningInv

(* A goroutine other than the main one goes on; pc changes nowhere else.    *)
LEMMA OneMoves ==
  ASSUME DInv, NEW c \in Goroutines \ {Main}, NEW from, NEW to, Goto(c, from, to)
  PROVE  /\ pc[c] = from /\ pc'[c] = to
         /\ \A g \in Goroutines : g # c => pc'[g] = pc[g]
         /\ pc'[Main] = pc[Main]
BY GoroutineFacts DEF Goto, DInv, SaveTypes

(* A setup that is started moves no run and no handler.                     *)
LEMMA SetupMoves ==
  ASSUME NEW t \in TaskIds, NEW f \in [Goroutines -> Places], pc' = StartSetup(t, f)
  PROVE  \A g \in Goroutines \ TaskIds : pc'[g] = f[g]
BY DEF StartSetup

LEMMA DisjointIds ==
  /\ TaskIds \cap RunIds = {} /\ TaskIds \cap Handlers = {} /\ RunIds \cap Handlers = {}
  /\ Main \notin TaskIds \cup RunIds \cup Handlers
BY ConstantsAssumption

(* A handler moves no run, no other handler and not the main goroutine.     *)
LEMMA HandlersMoveThemselves ==
  ASSUME DInv, NEW h \in Handlers,
         \/ \E t \in TaskIds : ImportTask(h, t) \/ ReloadRead(h, t)
         \/ ReloadImport(h)
         \/ ReloadFails(h)
  PROVE  /\ pc[h] # "kill" /\ pc[Main] # "down"
         /\ \A g \in RunIds \cup Handlers \cup {Main} : g # h => pc'[g] = pc[g]
<1> DEFINE f == [pc EXCEPT ![h] = "changed"]
<1>1. /\ h \in Goroutines \ {Main}
      /\ RunIds \cup Handlers \cup {Main} \subseteq Goroutines \ TaskIds
  BY GoroutineFacts, DisjointIds
<1>2. f \in [Goroutines -> Places] /\ \A g \in Goroutines : g # h => f[g] = pc[g]
  BY <1>1 DEF DInv, SaveTypes, Places, SavePoints
<1>3. pc[Main] # "down"
  <2>1. CASE \E t \in TaskIds : ImportTask(h, t) \/ ReloadRead(h, t)
    BY <2>1 DEF ImportTask, ReloadRead, Serving
  <2>2. CASE ReloadImport(h) \/ ReloadFails(h)
    BY <1>1, <2>2, Awake DEF ReloadImport, ReloadFails, Goto, Resting
  <2> QED
    BY <2>1, <2>2
<1>4. CASE \E t \in TaskIds : ImportTask(h, t)
  <2>1. PICK t \in TaskIds : pc' = StartSetup(t, f) /\ pc[h] = "idle"
    BY <1>4 DEF ImportTask
  <2> HIDE DEF f
  <2> QED
    BY <1>1, <1>2, <1>3, <2>1, SetupMoves
<1>5. CASE ReloadImport(h)
  <2>1. pc' = StartSetup(request[h], f) /\ pc[h] = "reload" /\ request[h] \in TaskIds
    BY <1>5 DEF ReloadImport, DInv, SaveTypes, ReloadsHaveATask
  <2> HIDE DEF f
  <2> QED
    BY <1>1, <1>2, <1>3, <2>1, SetupMoves
<1>6. CASE (\E t \in TaskIds : ReloadRead(h, t)) \/ ReloadFails(h)
  <2>1. PICK from \in {"idle", "reload"}, to \in {"idle", "reload"} : Goto(h, from, to)
    BY <1>6 DEF ReloadRead, ReloadFails
  <2> QED
    BY <1>1, <1>3, <2>1, OneMoves
<1> QED
  BY <1>4, <1>5, <1>6

LEMMA CalmHandlerSteps ==
  ASSUME DInv, AInv, NEW h \in Handlers,
         \/ \E t \in TaskIds : ImportTask(h, t) \/ ReloadRead(h, t)
         \/ ReloadImport(h)
         \/ ReloadFails(h)
  PROVE  Calm
<1>1. h \in Goroutines \ {Main} /\ RunIds \cup Handlers \subseteq Goroutines \ TaskIds
      /\ Main \in Goroutines \ TaskIds /\ h \notin RunIds /\ alive \subseteq RunIds
  BY GoroutineFacts, DisjointIds DEF AInv, ScriptTypes
<1>2. UNCHANGED <<disk, victims, toClean, missed, unlisted, alive>> /\ mem'.active = mem.active
  BY DEF ImportTask, ReloadRead, ReloadImport, ReloadFails, runVars, startVars, requestVars,
         ghostVars, DInv, SaveTypes, State
<1>3. toClean = {}
  <2>1. CASE \E t \in TaskIds : ImportTask(h, t) \/ ReloadRead(h, t)
    BY <2>1 DEF ImportTask, ReloadRead, Serving, AInv, CleaningInv
  <2>2. CASE ReloadImport(h) \/ ReloadFails(h)
    BY <1>1, <2>2, NothingToClean DEF ReloadImport, ReloadFails, Goto, Resting
  <2> QED
    BY <2>1, <2>2
<1>4. pc[h] # "kill" /\ \A g \in RunIds \cup Handlers \cup {Main} : g # h => pc'[g] = pc[g]
  BY HandlersMoveThemselves
<1> QED
  BY <1>1, <1>2, <1>3, <1>4 DEF Calm

LEMMA CalmRunSteps ==
  ASSUME DInv, AInv, NEW r \in RunIds,
         ScriptEnds(r) \/ ClearActiveRun(r) \/ StoreRecord(r)
  PROVE  Calm
<1>1. r \in Goroutines \ {Main} /\ RunIds \cup Handlers \subseteq Goroutines
      /\ r \notin Handlers /\ alive \subseteq RunIds
  BY GoroutineFacts, DisjointIds DEF AInv, ScriptTypes
<1>2. CASE ScriptEnds(r)
  BY <1>2 DEF ScriptEnds, Calm, requestVars, startVars, ghostVars
<1>3. CASE ClearActiveRun(r) \/ StoreRecord(r)
  <2>1. PICK from \in {"waiting", "outcome"}, to \in {"cleared", "stored"} : Goto(r, from, to)
    BY <1>3 DEF ClearActiveRun, StoreRecord
  <2>2. /\ pc[r] = from /\ pc'[Main] = pc[Main]
        /\ \A g \in Goroutines : g # r => pc'[g] = pc[g]
    BY <1>1, <2>1, OneMoves
  <2>3. toClean = {}
    BY <1>1, <2>2, NothingToClean DEF Resting
  <2>4. /\ UNCHANGED <<disk, victims, toClean, missed, unlisted, alive>>
        /\ \A s \in alive : s \in mem.active => s \in mem'.active
    BY <1>3 DEF ClearActiveRun, StoreRecord, runVars, startVars, requestVars, ghostVars,
                DInv, SaveTypes, State
  <2> QED
    BY <1>1, <2>2, <2>3, <2>4 DEF Calm
<1> QED
  BY <1>2, <1>3

LEMMA CalmOtherSteps ==
  ASSUME DInv, AInv,
         \/ \E c \in Goroutines : BeginSave(c)
         \/ \E t \in TaskIds : SetupSettles(t) \/ RestoreTask(t) \/ RestoreFails(t)
         \/ RestoreEnds
  PROVE  Calm
<1>1. /\ TaskIds \subseteq Goroutines \ {Main} /\ RunIds \cup Handlers \subseteq Goroutines \ TaskIds
      /\ Main \in Goroutines \ TaskIds /\ alive \subseteq RunIds /\ pc \in [Goroutines -> Places]
      /\ RunIds \cup Handlers \subseteq Goroutines \ {Main}
  BY GoroutineFacts, DisjointIds DEF AInv, ScriptTypes, DInv, SaveTypes
<1>2. UNCHANGED <<disk, victims, toClean, missed, unlisted, alive>> /\ mem'.active = mem.active
  BY DEF BeginSave, SetupSettles, RestoreTask, RestoreFails, RestoreEnds, runVars, startVars,
         requestVars, ghostVars, DInv, SaveTypes, State
<1>3. CASE (\E c \in Goroutines : BeginSave(c)) \/ (\E t \in TaskIds : RestoreFails(t))
  <2>1. pc' = pc
    BY <1>3 DEF BeginSave, RestoreFails
  <2> QED
    BY <1>2, <2>1 DEF Calm
<1>4. ASSUME NEW t \in TaskIds, SetupSettles(t) PROVE Calm
  <2>1. PICK to \in {"settled", "idle"} : Goto(t, "setup", to)
    BY <1>4 DEF SetupSettles
  <2>2. pc[t] = "setup" /\ \A g \in Goroutines : g # t => pc'[g] = pc[g]
    BY <1>1, <2>1, OneMoves
  <2>3. toClean = {}
    BY <1>1, <2>2, NothingToClean DEF Resting
  <2> QED
    BY <1>1, <1>2, <2>2, <2>3 DEF Calm
<1>5. ASSUME NEW t \in TaskIds, RestoreTask(t) PROVE Calm
  <2>1. toClean = {} /\ pc' = StartSetup(t, pc)
    BY <1>5 DEF RestoreTask
  <2>2. \A g \in Goroutines \ TaskIds : pc'[g] = pc[g]
    BY <1>1, <2>1, SetupMoves
  <2> QED
    BY <1>1, <1>2, <2>1, <2>2 DEF Calm
<1>6. CASE RestoreEnds
  <2>1. toClean = {}
    BY <1>6 DEF RestoreEnds
  <2>2. PICK from \in {"cleaning", "restoring"}, to \in {"restored", "begun"} :
          Goto(Main, from, to)
    BY <1>6 DEF RestoreEnds
  <2>3. pc[Main] = from /\ pc'[Main] = to /\ \A g \in Goroutines \ {Main} : pc'[g] = pc[g]
    BY <1>1, <2>2 DEF Goto
  <2> QED
    BY <1>1, <1>2, <2>1, <2>3 DEF Calm
<1> QED
  BY <1>3, <1>4, <1>5, <1>6

(* A save makes the file the memory, which knows every script.              *)
LEMMA SaveKeepsScripts ==
  ASSUME DInv, AInv, NEW c \in Goroutines, Saved(c) \/ SaveFails(c)
  PROVE  AInv'
<1>1. /\ pc[c] \in SavePoints /\ After(pc[c]) \in Places \ {"down", "reload"}
      /\ pc[c] \notin Resting /\ pc[c] \notin {"cleaning", "started", "stale", "kill"}
  <2>1. pc[c] \in SavePoints
    BY DEF Saved, SaveFails, DInv, SaversAreAwake
  <2> QED
    BY <2>1, AfterFacts DEF SavePoints, Resting
<1>2. toClean = {} /\ pc[Main] # "down"
  BY <1>1, NothingToClean DEF DInv, SaversAreAwake
<1>3. /\ pc' = [pc EXCEPT ![c] = After(@)]
      /\ UNCHANGED <<mem, alive, victims, toClean, missed>>
  BY DEF Saved, SaveFails, runVars, startVars
<1>4. /\ pc'[c] = After(pc[c]) /\ \A g \in Goroutines : g # c => pc'[g] = pc[g]
      /\ Main \in Goroutines /\ RunIds \cup Handlers \subseteq Goroutines /\ alive \subseteq RunIds
  BY <1>3, GoroutineFacts DEF DInv, SaveTypes, AInv, ScriptTypes
<1>5. pc'[Main] # "down"
  BY <1>1, <1>2, <1>4
<1>6. ScriptTypes' /\ VictimsInv' /\ CleaningInv' /\ Left'
  BY <1>1, <1>2, <1>3, <1>4, <1>5 DEF AInv, ScriptTypes, VictimsInv, CleaningInv, Left
<1>7. \A r \in alive : r \in mem.active \cup missed \/ InHand(r)
  BY <1>2 DEF AInv, Known
<1>8. \A r \in alive : InHand(r) => InHand(r)'
  BY <1>1, <1>3, <1>4 DEF InHand
<1>9. Known'
  BY <1>3, <1>7, <1>8 DEF Known
<1>10. ScriptsAreAccountedFor'
  <2>1. CASE Saved(c)
    <3>1. disk' = mem
      BY <2>1 DEF Saved, DInv, CopiesAreCurrent
    <3> QED
      BY <1>3, <1>7, <1>8, <3>1 DEF ScriptsAreAccountedFor, InTransit, InHand
  <2>2. CASE SaveFails(c)
    <3>1. /\ disk' = disk
          /\ unlisted' = IF pc[c] = "recorded" THEN unlisted \cup {c} ELSE unlisted
      BY <2>2 DEF SaveFails
    <3>2. \A r \in alive : InTransit(r) => InTransit(r)'
      BY <1>1, <1>3, <1>4, <3>1 DEF InTransit
    <3> QED
      BY <1>3, <3>1, <3>2 DEF AInv, ScriptsAreAccountedFor
  <2> QED
    BY <2>1, <2>2
<1> QED
  BY <1>6, <1>9, <1>10 DEF AInv

(* A removal takes runs off the list and keeps them in hand until they are  *)
(* killed.                                                                  *)
LEMMA RemovalKeepsScripts ==
  ASSUME DInv, AInv, NEW h \in Handlers,
         KillVictims(h) \/ \E t \in TaskIds : RemoveTask(h, t)
  PROVE  AInv'
<1>1. /\ h \in Goroutines \ {Main} /\ Main \in Goroutines /\ alive \subseteq RunIds
      /\ RunIds \cup Handlers \subseteq Goroutines /\ h \notin RunIds
      /\ victims \in [Handlers -> SUBSET RunIds]
  BY GoroutineFacts, DisjointIds DEF AInv, ScriptTypes
<1>2. CASE KillVictims(h)
  <2>1. /\ Goto(h, "kill", "changed")
        /\ alive' = alive \ victims[h] /\ victims' = [victims EXCEPT ![h] = {}]
        /\ UNCHANGED <<mem, disk, toClean, missed, unlisted>>
    BY <1>2 DEF KillVictims, startVars, ghostVars
  <2>2. /\ pc[h] = "kill" /\ pc'[h] = "changed" /\ pc'[Main] = pc[Main]
        /\ \A g \in Goroutines : g # h => pc'[g] = pc[g]
    BY <1>1, <2>1, OneMoves
  <2>3. toClean = {}
    BY <1>1, <2>2, NothingToClean DEF Resting
  <2>4. \A r \in alive' : \A g \in Handlers : r \in victims[g] => r \in victims'[g]
    BY <1>1, <2>1
  <2>5. ScriptTypes' /\ VictimsInv' /\ CleaningInv' /\ Left'
    BY <1>1, <2>1, <2>2, <2>3 DEF AInv, ScriptTypes, VictimsInv, CleaningInv, Left
  <2>6. Known'
    BY <1>1, <2>1, <2>2, <2>4 DEF AInv, Known, InHand
  <2>7. ScriptsAreAccountedFor'
    BY <1>1, <2>1, <2>2, <2>4 DEF AInv, ScriptsAreAccountedFor, InTransit
  <2> QED
    BY <2>5, <2>6, <2>7 DEF AInv
<1>3. ASSUME NEW t \in TaskIds, RemoveTask(h, t) PROVE AInv'
  <2>1. /\ Goto(h, "idle", "kill") /\ Serving
        /\ mem'.active = mem.active \ RunsOf(t)
        /\ victims' = [victims EXCEPT ![h] = mem.active \cap RunsOf(t)]
        /\ UNCHANGED <<disk, alive, toClean, missed, unlisted>>
    BY <1>3 DEF RemoveTask, startVars
  <2>2. /\ pc[h] = "idle" /\ pc'[h] = "kill" /\ pc'[Main] = pc[Main]
        /\ \A g \in Goroutines : g # h => pc'[g] = pc[g]
    BY <1>1, <2>1, OneMoves
  <2>3. toClean = {}
    BY <2>1 DEF Serving, AInv, CleaningInv
  <2>4. mem.active \cap RunsOf(t) \in SUBSET RunIds /\ victims[h] = {}
    BY <2>2 DEF RunsOf, AInv, VictimsInv
  <2>5. \A r \in RunIds : \A g \in Handlers : r \in victims[g] => r \in victims'[g]
    BY <1>1, <2>1, <2>4
  <2>6. \A r \in mem.active : r \in mem'.active \/ r \in victims'[h]
    BY <1>1, <2>1
  <2>7. ScriptTypes' /\ VictimsInv' /\ CleaningInv' /\ Left'
    BY <1>1, <2>1, <2>2, <2>3, <2>4 DEF AInv, ScriptTypes, VictimsInv, CleaningInv, Left
  <2>8. Known'
    BY <1>1, <2>1, <2>2, <2>5, <2>6 DEF AInv, Known, InHand
  <2>9. ScriptsAreAccountedFor'
    BY <1>1, <2>1, <2>2, <2>5 DEF AInv, ScriptsAreAccountedFor, InTransit
  <2> QED
    BY <2>7, <2>8, <2>9 DEF AInv
<1> QED
  BY <1>2, <1>3

(* A run that starts is in hand until it is recorded, or killed as stale.   *)
LEMMA StartKeepsScripts ==
  ASSUME DInv, AInv, NEW r \in RunIds,
         (\E t \in TaskIds : StartRun(r, t)) \/ RecordActiveRun(r) \/ CleanUpStaleRun(r)
  PROVE  AInv'
<1>1. /\ r \in Goroutines \ {Main} /\ Main \in Goroutines /\ alive \subseteq RunIds
      /\ RunIds \cup Handlers \subseteq Goroutines /\ r \notin Handlers
      /\ mem \in State
  BY GoroutineFacts, DisjointIds DEF AInv, ScriptTypes, DInv, SaveTypes
<1>2. UNCHANGED <<disk, victims, toClean, missed, unlisted>>
  BY DEF StartRun, RecordActiveRun, CleanUpStaleRun, requestVars, startVars, ghostVars
<1>3. PICK from \in {"free", "started", "stale"},
           to \in {"started", "stale", "recorded", "waiting"} : Goto(r, from, to)
  BY DEF StartRun, RecordActiveRun, CleanUpStaleRun
<1>4. /\ pc[r] = from /\ pc'[r] = to /\ pc'[Main] = pc[Main]
      /\ \A g \in Goroutines : g # r => pc'[g] = pc[g]
  BY <1>1, <1>3, OneMoves
<1>5. toClean = {} /\ pc[Main] # "down"
  <2>1. CASE \E t \in TaskIds : StartRun(r, t)
    BY <2>1 DEF StartRun, Serving, AInv, CleaningInv
  <2>2. CASE RecordActiveRun(r) \/ CleanUpStaleRun(r)
    <3>1. pc[r] \notin Resting /\ pc[r] # "cleaning"
      BY <2>2 DEF RecordActiveRun, CleanUpStaleRun, Goto, Resting
    <3> QED
      BY <1>1, <3>1, NothingToClean, Awake
  <2> QED
    BY <2>1, <2>2
<1>6. /\ alive' \subseteq alive \cup {r}
      /\ r \in alive' => pc'[r] \in {"started", "stale"} \/ (pc'[r] = "recorded" /\ r \in mem'.active)
      /\ mem.active \subseteq mem'.active
  <2>1. CASE \E t \in TaskIds : StartRun(r, t)
    <3>1. mem' = mem /\ alive' = alive \cup {r} /\ Goto(r, "free", "started")
      BY <2>1 DEF StartRun
    <3> QED
      BY <1>1, <1>4, <3>1 DEF Goto, DInv, SaveTypes
  <2>2. CASE RecordActiveRun(r)
    <3>1. /\ Goto(r, "started", IF r \in stale THEN "stale" ELSE "recorded")
          /\ mem' = [mem EXCEPT !.active = IF r \in stale THEN @ ELSE @ \cup {r}]
          /\ alive' = alive
      BY <2>2 DEF RecordActiveRun, runVars
    <3>2. mem'.active = IF r \in stale THEN mem.active ELSE mem.active \cup {r}
      BY <1>1, <3>1 DEF State
    <3>3. pc'[r] = IF r \in stale THEN "stale" ELSE "recorded"
      BY <1>1, <3>1 DEF Goto, DInv, SaveTypes
    <3> QED
      BY <3>1, <3>2, <3>3
  <2>3. CASE CleanUpStaleRun(r)
    BY <2>3 DEF CleanUpStaleRun
  <2> QED
    BY <2>1, <2>2, <2>3
<1>7. ScriptTypes' /\ VictimsInv' /\ CleaningInv' /\ Left'
  BY <1>1, <1>2, <1>4, <1>5, <1>6 DEF AInv, ScriptTypes, VictimsInv, CleaningInv, Left
<1>8. Known'
  BY <1>1, <1>2, <1>4, <1>5, <1>6 DEF AInv, Known, InHand
<1>9. ScriptsAreAccountedFor'
  BY <1>1, <1>2, <1>4, <1>6 DEF AInv, ScriptsAreAccountedFor, InTransit
<1> QED
  BY <1>7, <1>8, <1>9 DEF AInv

(* What a daemon that dies leaves running is in the file, or is excused;    *)
(* the next one takes the list from there and works it off.                 *)
LEMMA CrashKeepsScripts ==
  ASSUME DInv, AInv, Crash \/ Load \/ LoadFails \/ \E r \in RunIds : CleanListedRun(r)
  PROVE  AInv'
<1>1. /\ Main \in Goroutines /\ RunIds \cup Handlers \subseteq Goroutines
      /\ alive \subseteq RunIds /\ Main \notin RunIds \cup Handlers
      /\ pc \in [Goroutines -> Places] /\ disk \in State
  BY GoroutineFacts DEF AInv, ScriptTypes, DInv, SaveTypes
<1>2. CASE Crash
  <2>1. /\ pc'[Main] = "down" /\ toClean' = {} /\ victims' = [h \in Handlers |-> {}]
        /\ missed' = missed \cup (alive \ disk.active)
        /\ UNCHANGED <<disk, alive>>
    BY <1>1, <1>2 DEF Crash
  <2>2. ScriptTypes' /\ VictimsInv' /\ CleaningInv' /\ Known' /\ Left' /\ ScriptsAreAccountedFor'
    BY <1>1, <2>1 DEF AInv, ScriptTypes, VictimsInv, CleaningInv, Known, Left,
                      ScriptsAreAccountedFor
  <2> QED
    BY <2>2 DEF AInv
<1>3. CASE Load \/ LoadFails
  <2>1. PICK to \in {"cleaning", "restoring", "serving"} : Goto(Main, "down", to)
    BY <1>3 DEF Load, LoadFails
  <2>2. /\ pc[Main] = "down" /\ pc'[Main] = to
        /\ \A g \in Goroutines \ {Main} : pc'[g] = pc[g] /\ pc[g] \in Resting
    BY <1>1, <2>1 DEF Goto, DInv, SaversAreAwake
  <2>3. toClean = {} /\ alive \subseteq disk.active \cup missed
    BY <2>2 DEF AInv, CleaningInv, Left
  <2>4. /\ UNCHANGED <<disk, alive, victims>> /\ missed \subseteq missed'
        /\ disk.active \subseteq toClean' \/ alive \subseteq missed'
        /\ toClean' \subseteq RunIds
        /\ toClean' # {} => to = "cleaning"
    <3>1. CASE Load
      BY <1>1, <2>2, <3>1 DEF Load, Goto, runVars, requestVars, State
    <3>2. CASE LoadFails
      BY <2>3, <3>2 DEF LoadFails, runVars, requestVars, startVars
    <3> QED
      BY <1>3, <3>1, <3>2
  <2>5. ScriptTypes' /\ CleaningInv' /\ Left'
    BY <2>2, <2>4 DEF AInv, ScriptTypes, CleaningInv, Left
  <2>6. VictimsInv'
    BY <1>1, <2>2, <2>4 DEF AInv, VictimsInv, Resting
  <2>7. Known' /\ ScriptsAreAccountedFor'
    BY <2>3, <2>4 DEF Known, ScriptsAreAccountedFor
  <2> QED
    BY <2>5, <2>6, <2>7 DEF AInv
<1>4. ASSUME NEW r \in RunIds, CleanListedRun(r) PROVE AInv'
  <2>1. /\ toClean' = toClean \ {r} /\ alive' = alive \ {r}
        /\ UNCHANGED <<mem, disk, pc, victims, missed, unlisted>>
    BY <1>4 DEF CleanListedRun, requestVars, ghostVars
  <2>2. ScriptTypes' /\ VictimsInv' /\ CleaningInv' /\ Left'
    BY <2>1 DEF AInv, ScriptTypes, VictimsInv, CleaningInv, Left
  <2>3. Known' /\ ScriptsAreAccountedFor'
    BY <2>1 DEF AInv, Known, InHand, ScriptsAreAccountedFor, InTransit
  <2> QED
    BY <2>2, <2>3 DEF AInv
<1> QED
  BY <1>2, <1>3, <1>4

LEMMA StepKeepsScripts == DInv /\ AInv /\ [Next]_vars => AInv'
<1> SUFFICES ASSUME DInv, AInv, [Next]_vars PROVE AInv'
  OBVIOUS
<1>1. CASE \E c \in Goroutines : BeginSave(c) \/ Saved(c) \/ SaveFails(c)
  BY <1>1, CalmOtherSteps, CalmStep, SaveKeepsScripts
<1>2. CASE \E h \in Handlers : HandlerNext(h)
  <2>1. PICK h \in Handlers : HandlerNext(h)
    BY <1>2
  <2>2. CASE KillVictims(h) \/ \E t \in TaskIds : RemoveTask(h, t)
    BY <2>2, RemovalKeepsScripts
  <2>3. CASE \/ \E t \in TaskIds : ImportTask(h, t) \/ ReloadRead(h, t)
             \/ ReloadImport(h) \/ ReloadFails(h)
    BY <2>3, CalmHandlerSteps, CalmStep
  <2> QED
    BY <2>1, <2>2, <2>3 DEF HandlerNext
<1>3. CASE \E r \in RunIds : RunNext(r)
  BY <1>3, CalmRunSteps, CalmStep, StartKeepsScripts DEF RunNext
<1>4. CASE \E t \in TaskIds : SetupSettles(t)
  BY <1>4, CalmOtherSteps, CalmStep
<1>5. CASE RestoreNext
  BY <1>5, CalmOtherSteps, CalmStep, CrashKeepsScripts DEF RestoreNext
<1>6. CASE Crash
  BY <1>6, CrashKeepsScripts
<1>7. CASE UNCHANGED vars
  BY <1>7 DEF vars, AInv, ScriptTypes, VictimsInv, CleaningInv, Known, InHand, Left,
              ScriptsAreAccountedFor, InTransit
<1> QED
  BY <1>1, <1>2, <1>3, <1>4, <1>5, <1>6, <1>7 DEF Next

(* Every script that runs is in the file, where the next start finds it,    *)
(* or one of the named steps excuses it, for any number of saves, removals, *)
(* crashes and restarts (PersistState, cleanupPersistedActiveRuns).         *)
THEOREM ScriptsAreAccountedForTheorem == Spec => []ScriptsAreAccountedFor
<1>1. AInv => ScriptsAreAccountedFor
  BY DEF AInv
<1> QED
  BY <1>1, InitAInv, StepKeepsScripts, DurabilityInvariant, PTL DEF Spec

-------------------------------------------------------------------------------
(* The refinement                                                           *)

(* What makes a run live: a run that has not started has no task and was    *)
(* not removed, and a listed run has been recorded and not cleared.         *)
LiveInv ==
  /\ runTask \in [RunIds -> TaskIds \cup {None}]
  /\ \A r \in RunIds : pc[r] = "free" => runTask[r] = None /\ r \notin stale
  /\ \A r \in mem.active : pc[r] \in {"recorded", "waiting"}

(* A step of the abstract store, or nothing it shows.                       *)
StoreStep == [Store!Next]_(Store!vars)

(* A step of a request, a setup or the restart that shows at most a task    *)
(* that is registered.                                                      *)
LEMMA TaskStep ==
  ASSUME DInv, LiveInv,
         UNCHANGED <<disk, acknowledged, stale, runTask>>,
         \A r \in RunIds : pc'[r] = pc[r],
         pc'[Main] = "down" <=> pc[Main] = "down",
         \/ mem' = mem
         \/ pc[Main] # "down" /\ \E t \in TaskIds : mem' = [mem EXCEPT !.tasks = @ \cup {t}]
  PROVE  LiveInv' /\ StoreStep
<1>1. UNCHANGED Live
  BY DEF Live, InProgress
<1>2. mem \in State /\ mem'.active = mem.active
  BY DEF DInv, SaveTypes, State
<1>3. LiveInv'
  BY <1>2 DEF LiveInv, State
<1>4. ASSUME mem' = mem PROVE StoreStep
  BY <1>1, <1>4 DEF StoreStep, Store!vars
<1>5. ASSUME NEW t \in TaskIds, mem' = [mem EXCEPT !.tasks = @ \cup {t}], pc[Main] # "down"
      PROVE  StoreStep
  <2>1. Store!Register(t)
    BY <1>1, <1>5 DEF Store!Register, Store!Changes
  <2> QED
    BY <2>1 DEF StoreStep, Store!Next
<1> QED
  BY <1>3, <1>4, <1>5

(* Requests other than a removal.                                           *)
LEMMA HandlersShow ==
  ASSUME DInv, LiveInv, NEW h \in Handlers,
         \/ \E t \in TaskIds : ImportTask(h, t) \/ ReloadRead(h, t)
         \/ ReloadImport(h)
         \/ ReloadFails(h)
         \/ KillVictims(h)
  PROVE  LiveInv' /\ StoreStep
<1>1. /\ h \in Goroutines \ {Main} /\ RunIds \subseteq Goroutines /\ h \notin RunIds
      /\ Main \in Goroutines
  BY GoroutineFacts, DisjointIds
<1>2. CASE KillVictims(h)
  <2>1. UNCHANGED <<mem, disk, acknowledged, stale, runTask>> /\ Goto(h, "kill", "changed")
    BY <1>2 DEF KillVictims, ghostVars
  <2>2. pc'[Main] = pc[Main] /\ \A r \in RunIds : pc'[r] = pc[r]
    BY <1>1, <2>1, OneMoves
  <2> QED
    BY <2>1, <2>2, TaskStep
<1>3. CASE \/ \E t \in TaskIds : ImportTask(h, t) \/ ReloadRead(h, t)
           \/ ReloadImport(h) \/ ReloadFails(h)
  <2>1. /\ UNCHANGED <<disk, acknowledged, stale, runTask>>
        /\ mem' = mem \/ \E t \in TaskIds : mem' = [mem EXCEPT !.tasks = @ \cup {t}]
    BY <1>3 DEF ImportTask, ReloadRead, ReloadImport, ReloadFails, runVars, ghostVars,
                DInv, SaveTypes, ReloadsHaveATask
  <2>2. /\ pc[Main] # "down" /\ pc'[Main] = pc[Main]
        /\ \A r \in RunIds : pc'[r] = pc[r]
    BY <1>1, <1>3, HandlersMoveThemselves
  <2> QED
    BY <2>1, <2>2, TaskStep
<1> QED
  BY <1>2, <1>3

(* A removal retires the runs of the task.                                  *)
LEMMA RemovalShows ==
  ASSUME DInv, LiveInv, NEW h \in Handlers, NEW t \in TaskIds, RemoveTask(h, t)
  PROVE  LiveInv' /\ StoreStep
<1>1. /\ h \in Goroutines \ {Main} /\ RunIds \subseteq Goroutines /\ h \notin RunIds
      /\ mem \in State
  BY GoroutineFacts, DisjointIds DEF DInv, SaveTypes
<1>2. /\ Goto(h, "idle", "kill") /\ Serving /\ t \in mem.tasks
      /\ mem' = [tasks |-> mem.tasks \ {t}, active |-> mem.active \ RunsOf(t),
                 history |-> mem.history \ RunsOf(t)]
      /\ stale' = stale \cup {r \in RunsOf(t) : InProgress(r)}
      /\ acknowledged' = acknowledged \ ({t} \cup RunsOf(t))
      /\ UNCHANGED <<disk, runTask>>
  BY DEF RemoveTask
<1>3. pc'[Main] = pc[Main] /\ \A r \in RunIds : pc'[r] = pc[r]
  BY <1>1, <1>2, OneMoves
<1>4. LiveInv'
  <2>1. \A r \in RunIds : pc'[r] = "free" => r \notin stale'
    BY <1>2, <1>3 DEF LiveInv, InProgress
  <2>2. mem'.active \subseteq mem.active /\ mem.active \subseteq RunIds
    BY <1>1, <1>2 DEF State
  <2> QED
    BY <1>2, <1>3, <2>1, <2>2 DEF LiveInv
<1>5. Live' = Live \ RunsOf(t)
  BY <1>2, <1>3 DEF Live, InProgress, RunsOf
<1>6. Store!Remove(t)
  BY <1>2, <1>3, <1>5 DEF Store!Remove, RunsOf, Serving
<1> QED
  BY <1>4, <1>6 DEF StoreStep, Store!Next

(* A run goes on.                                                           *)
LEMMA RunsShow ==
  ASSUME DInv, LiveInv, NEW r \in RunIds, RunNext(r)
  PROVE  LiveInv' /\ StoreStep
<1>1. r \in Goroutines \ {Main} /\ RunIds \subseteq Goroutines /\ mem \in State
  BY GoroutineFacts DEF DInv, SaveTypes
<1>2. ASSUME NEW t \in TaskIds, StartRun(r, t) PROVE LiveInv' /\ StoreStep
  <2>1. /\ Goto(r, "free", "started") /\ Serving /\ t \in mem.tasks
        /\ \A s \in RunsOf(t) : InProgress(s) => s \in stale
        /\ runTask' = [runTask EXCEPT ![r] = t]
        /\ UNCHANGED <<mem, disk, stale, acknowledged>>
    BY <1>2 DEF StartRun, ghostVars
  <2>2. /\ pc[r] = "free" /\ pc'[r] = "started" /\ pc'[Main] = pc[Main]
        /\ \A s \in RunIds : s # r => pc'[s] = pc[s]
    BY <1>1, <2>1, OneMoves
  <2>3. runTask[r] = None /\ r \notin stale /\ r \notin mem.active
    BY <2>2 DEF LiveInv
  <2>4. LiveInv'
    BY <1>1, <2>1, <2>2, <2>3 DEF LiveInv, State
  <2>5. Live' = Live \cup {r}
    BY <2>1, <2>2, <2>3 DEF Live, InProgress
  <2>6. \A s \in Live : runTask[s] # t
    BY <2>1 DEF Live, RunsOf
  <2>7. Store!Begin(r, t)
    BY <2>1, <2>2, <2>3, <2>5, <2>6 DEF Store!Begin, Serving
  <2> QED
    BY <2>4, <2>7 DEF StoreStep, Store!Next
<1>3. ASSUME NEW from \in {"started", "stale", "waiting", "outcome"},
             NEW to \in {"stale", "recorded", "waiting", "cleared", "stored"},
             Goto(r, from, to),
             UNCHANGED <<disk, stale, runTask, acknowledged>>
      PROVE  /\ pc[r] = from /\ pc'[r] = to /\ UNCHANGED Live
             /\ pc[Main] # "down" /\ pc'[Main] = pc[Main]
             /\ \A s \in RunIds : s # r => pc'[s] = pc[s]
             /\ \A s \in RunIds : pc'[s] = "free" => runTask'[s] = None /\ s \notin stale'
             /\ r \in Live <=> r \notin stale
  <2>1. /\ pc[r] = from /\ pc'[r] = to /\ pc'[Main] = pc[Main]
        /\ \A s \in RunIds : s # r => pc'[s] = pc[s]
    BY <1>1, <1>3, OneMoves
  <2>2. pc[Main] # "down"
    BY <1>1, <2>1, Awake DEF Resting
  <2> QED
    BY <1>3, <2>1, <2>2 DEF Live, InProgress, LiveInv
<1>4. CASE RecordActiveRun(r)
  <2>1. PICK to \in {"stale", "recorded"} :
          /\ Goto(r, "started", to)
          /\ to = "recorded" <=> r \notin stale
          /\ mem' = [mem EXCEPT !.active = IF r \in stale THEN @ ELSE @ \cup {r}]
          /\ UNCHANGED <<disk, stale, runTask, acknowledged>>
    BY <1>4 DEF RecordActiveRun, runVars, ghostVars
  <2>2. /\ pc[r] = "started" /\ pc'[r] = to /\ UNCHANGED Live
        /\ pc[Main] # "down" /\ pc'[Main] = pc[Main]
        /\ \A s \in RunIds : s # r => pc'[s] = pc[s]
        /\ \A s \in RunIds : pc'[s] = "free" => runTask'[s] = None /\ s \notin stale'
        /\ r \in Live <=> r \notin stale
    BY <1>3, <2>1
  <2>3. r \notin mem.active
    BY <2>2 DEF LiveInv
  <2>4. CASE r \in stale
    <3>1. mem' = mem
      BY <1>1, <2>1, <2>4 DEF State
    <3>2. LiveInv'
      BY <1>1, <2>1, <2>2, <2>3, <3>1 DEF LiveInv, State
    <3> QED
      BY <2>1, <2>2, <3>1, <3>2 DEF StoreStep, Store!vars
  <2>5. CASE r \notin stale
    <3>1. mem' = [mem EXCEPT !.active = @ \cup {r}] /\ mem'.active = mem.active \cup {r}
      BY <1>1, <2>1, <2>5 DEF State
    <3>2. LiveInv'
      BY <1>1, <2>1, <2>2, <2>5, <3>1 DEF LiveInv, State
    <3>3. Store!List(r)
      BY <2>1, <2>2, <2>5, <3>1 DEF Store!List, Store!Changes
    <3> QED
      BY <3>2, <3>3 DEF StoreStep, Store!Next
  <2> QED
    BY <2>4, <2>5
<1>5. CASE ClearActiveRun(r)
  <2>1. /\ Goto(r, "waiting", "cleared")
        /\ mem' = [mem EXCEPT !.active = @ \ {r}]
        /\ UNCHANGED <<disk, stale, runTask, acknowledged>>
    BY <1>5 DEF ClearActiveRun, runVars, ghostVars
  <2>2. /\ pc'[r] = "cleared" /\ UNCHANGED Live
        /\ pc[Main] # "down" /\ pc'[Main] = pc[Main]
        /\ \A s \in RunIds : s # r => pc'[s] = pc[s]
        /\ \A s \in RunIds : pc'[s] = "free" => runTask'[s] = None /\ s \notin stale'
    BY <1>3, <2>1
  <2>3. mem'.active = mem.active \ {r} /\ mem.active \subseteq RunIds
    BY <1>1, <2>1 DEF State
  <2>4. LiveInv'
    BY <2>1, <2>2, <2>3 DEF LiveInv
  <2>5. Store!Clear(r)
    BY <2>1, <2>2 DEF Store!Clear, Store!Changes
  <2> QED
    BY <2>4, <2>5 DEF StoreStep, Store!Next
<1>6. CASE StoreRecord(r)
  <2>1. /\ Goto(r, "outcome", "stored")
        /\ mem' = [mem EXCEPT !.history = IF r \in stale THEN @ ELSE @ \cup {r}]
        /\ UNCHANGED <<disk, stale, runTask, acknowledged>>
    BY <1>6 DEF StoreRecord, runVars, ghostVars
  <2>2. /\ pc[r] = "outcome" /\ UNCHANGED Live
        /\ pc[Main] # "down" /\ pc'[Main] = pc[Main]
        /\ \A s \in RunIds : s # r => pc'[s] = pc[s]
        /\ \A s \in RunIds : pc'[s] = "free" => runTask'[s] = None /\ s \notin stale'
        /\ r \in Live <=> r \notin stale
    BY <1>3, <2>1
  <2>3. /\ mem'.active = mem.active /\ mem.active \subseteq RunIds
        /\ r \notin mem.active
    BY <1>1, <2>1, <2>2 DEF State, LiveInv
  <2>4. LiveInv'
    BY <2>1, <2>2, <2>3 DEF LiveInv
  <2>5. CASE r \in stale
    <3>1. mem' = mem
      BY <1>1, <2>1, <2>5 DEF State
    <3> QED
      BY <2>1, <2>2, <2>4, <3>1 DEF StoreStep, Store!vars
  <2>6. CASE r \notin stale
    <3>1. mem' = [mem EXCEPT !.history = @ \cup {r}]
      BY <1>1, <2>1, <2>6 DEF State
    <3>2. Store!Record(r)
      BY <2>1, <2>2, <2>3, <2>6, <3>1 DEF Store!Record, Store!Changes
    <3> QED
      BY <2>4, <3>2 DEF StoreStep, Store!Next
  <2> QED
    BY <2>5, <2>6
<1>7. CASE CleanUpStaleRun(r)
  <2>1. Goto(r, "stale", "waiting") /\ UNCHANGED <<mem, disk, stale, runTask, acknowledged>>
    BY <1>7 DEF CleanUpStaleRun, ghostVars
  <2>2. /\ pc'[r] = "waiting" /\ UNCHANGED Live /\ pc'[Main] = pc[Main]
        /\ \A s \in RunIds : s # r => pc'[s] = pc[s]
        /\ \A s \in RunIds : pc'[s] = "free" => runTask'[s] = None /\ s \notin stale'
    BY <1>3, <2>1
  <2>3. LiveInv'
    BY <1>1, <2>1, <2>2 DEF LiveInv, State
  <2> QED
    BY <2>1, <2>2, <2>3 DEF StoreStep, Store!vars
<1>8. CASE ScriptEnds(r)
  BY <1>8, TaskStep DEF ScriptEnds, ghostVars
<1> QED
  BY <1>2, <1>4, <1>5, <1>6, <1>7, <1>8 DEF RunNext

(* Setups, and the restart once the file is read.                           *)
LEMMA RestoreShows ==
  ASSUME DInv, LiveInv,
         \/ \E t \in TaskIds : SetupSettles(t) \/ RestoreTask(t) \/ RestoreFails(t)
         \/ \E r \in RunIds : CleanListedRun(r)
         \/ RestoreEnds
  PROVE  LiveInv' /\ StoreStep
<1>1. /\ TaskIds \subseteq Goroutines \ {Main} /\ RunIds \subseteq Goroutines \ TaskIds
      /\ Main \in Goroutines \ TaskIds /\ pc \in [Goroutines -> Places]
      /\ RunIds \subseteq Goroutines \ {Main}
  BY GoroutineFacts, DisjointIds DEF DInv, SaveTypes
<1>2. UNCHANGED <<disk, acknowledged, stale, runTask>>
  BY DEF SetupSettles, RestoreTask, RestoreFails, CleanListedRun, RestoreEnds, runVars, ghostVars
<1>3. ASSUME NEW t \in TaskIds, SetupSettles(t) PROVE LiveInv' /\ StoreStep
  <2>1. PICK to \in {"settled", "idle"} : Goto(t, "setup", to)
    BY <1>3 DEF SetupSettles
  <2>2. mem' = mem /\ \A g \in Goroutines : g # t => pc'[g] = pc[g]
    BY <1>1, <1>3, <2>1, OneMoves DEF SetupSettles
  <2> QED
    BY <1>1, <1>2, <2>2, TaskStep
<1>4. ASSUME NEW t \in TaskIds, RestoreTask(t) PROVE LiveInv' /\ StoreStep
  <2>1. /\ pc[Main] # "down" /\ pc' = StartSetup(t, pc)
        /\ mem' = [mem EXCEPT !.tasks = @ \cup {t}]
    BY <1>4 DEF RestoreTask, Restoring
  <2>2. \A g \in Goroutines \ TaskIds : pc'[g] = pc[g]
    BY <1>1, <2>1, SetupMoves
  <2> QED
    BY <1>1, <1>2, <2>1, <2>2, TaskStep
<1>5. CASE \/ \E t \in TaskIds : RestoreFails(t)
           \/ \E r \in RunIds : CleanListedRun(r)
  <2>1. mem' = mem /\ pc' = pc
    BY <1>5 DEF RestoreFails, CleanListedRun
  <2> QED
    BY <1>2, <2>1, TaskStep
<1>6. CASE RestoreEnds
  <2>1. PICK from \in {"cleaning", "restoring"}, to \in {"restored", "begun"} :
          Goto(Main, from, to)
    BY <1>6 DEF RestoreEnds
  <2>2. /\ mem' = mem /\ pc[Main] # "down" /\ pc'[Main] # "down"
        /\ \A g \in Goroutines \ {Main} : pc'[g] = pc[g]
    BY <1>1, <1>6, <2>1 DEF RestoreEnds, Goto
  <2> QED
    BY <1>1, <1>2, <2>2, TaskStep
<1> QED
  BY <1>3, <1>4, <1>5, <1>6

(* PersistState: one step of the store, when the transaction commits.       *)
LEMMA SavesShow ==
  ASSUME DInv, LiveInv, NEW c \in Goroutines, BeginSave(c) \/ Saved(c) \/ SaveFails(c)
  PROVE  LiveInv' /\ StoreStep
<1>1. /\ RunIds \subseteq Goroutines /\ Main \in Goroutines /\ mem \in State
      /\ pc \in [Goroutines -> Places] /\ request \in [Handlers -> TaskIds \cup {None}]
  BY GoroutineFacts DEF DInv, SaveTypes
<1>2. CASE BeginSave(c)
  BY <1>2, TaskStep DEF BeginSave, runVars, ghostVars
<1>3. ASSUME Saved(c) \/ SaveFails(c)
      PROVE  /\ pc[c] \in SavePoints /\ pc[Main] # "down" /\ pc'[Main] # "down"
             /\ pc'[c] = After(pc[c]) /\ \A g \in Goroutines : g # c => pc'[g] = pc[g]
             /\ UNCHANGED <<mem, stale, runTask>>
  <2>1. pc[c] \in SavePoints /\ After(pc[c]) # "down"
    BY <1>3, AfterFacts DEF Saved, SaveFails, DInv, SaversAreAwake
  <2>2. pc[Main] # "down"
    BY <2>1, Awake DEF SavePoints, Resting
  <2> QED
    BY <1>1, <1>3, <2>1, <2>2 DEF Saved, SaveFails, runVars
<1>4. ASSUME Saved(c) \/ SaveFails(c) PROVE LiveInv'
  <2>1. After(pc[c]) # "free" /\ (pc[c] = "recorded" => After(pc[c]) = "waiting")
    BY <1>3, <1>4 DEF SavePoints, After
  <2>2. \A r \in RunIds : pc'[r] = "free" => pc[r] = "free"
    BY <1>1, <1>3, <1>4, <2>1
  <2>3. \A r \in mem.active : pc'[r] \in {"recorded", "waiting"}
    BY <1>1, <1>3, <1>4, <2>1 DEF LiveInv, SavePoints, State
  <2> QED
    BY <1>3, <1>4, <2>2, <2>3 DEF LiveInv
<1>5. ASSUME Saved(c) \/ SaveFails(c)
      PROVE  Live' = IF c \in RunIds /\ pc[c] = "stored" THEN Live \ {c} ELSE Live
  <2>1. /\ pc[c] \notin {"free", "done", "gone"}
        /\ After(pc[c]) \in {"free", "done", "gone"} <=> pc[c] = "stored"
    BY <1>3, <1>5 DEF SavePoints, After
  <2>2. \A r \in RunIds : InProgress(r)' <=> InProgress(r) /\ ~(r = c /\ pc[c] = "stored")
    BY <1>1, <1>3, <1>5, <2>1 DEF InProgress
  <2> QED
    BY <1>3, <1>5, <2>2 DEF Live
<1>6. CASE Saved(c)
  <2>1. disk' = mem /\ mem' = mem /\ acknowledged' = acknowledged \cup Learned(c)
    BY <1>6 DEF Saved, DInv, CopiesAreCurrent
  <2>2. Learned(c) \subseteq mem.tasks \cup mem.history
    BY DEF Learned
  <2>3. CASE c \in RunIds /\ pc[c] = "stored"
    <3>1. Learned(c) = {} \/ Learned(c) = {c}
      BY <2>3, DisjointIds DEF Learned
    <3>2. Store!Save(Learned(c), {c})
      BY <1>3, <1>5, <1>6, <2>1, <2>2, <2>3 DEF Store!Save
    <3>3. StoreStep
      BY <2>3, <3>1, <3>2 DEF StoreStep, Store!Next
    <3> QED
      BY <1>4, <1>6, <3>3
  <2>4. CASE ~(c \in RunIds /\ pc[c] = "stored")
    <3>1. Learned(c) = {} \/ \E t \in TaskIds : Learned(c) = {t}
      BY <1>1, <2>4 DEF Learned, State
    <3>2. Store!Save(Learned(c), {})
      BY <1>3, <1>5, <1>6, <2>1, <2>2, <2>4 DEF Store!Save
    <3>3. StoreStep
      BY <3>1, <3>2 DEF StoreStep, Store!Next
    <3> QED
      BY <1>4, <1>6, <3>3
  <2> QED
    BY <2>3, <2>4
<1>7. CASE SaveFails(c)
  <2>1. UNCHANGED <<mem, disk, acknowledged, runTask>>
    BY <1>7 DEF SaveFails, runVars
  <2>2. CASE c \in RunIds /\ pc[c] = "stored"
    <3>1. Store!End(c)
      BY <1>3, <1>5, <1>7, <2>1, <2>2 DEF Store!End
    <3>2. StoreStep
      BY <2>2, <3>1 DEF StoreStep, Store!Next
    <3> QED
      BY <1>4, <1>7, <3>2
  <2>3. CASE ~(c \in RunIds /\ pc[c] = "stored")
    <3>1. StoreStep
      BY <1>3, <1>5, <1>7, <2>1, <2>3 DEF StoreStep, Store!vars
    <3> QED
      BY <1>4, <1>7, <3>1
  <2> QED
    BY <2>2, <2>3
<1> QED
  BY <1>2, <1>6, <1>7

(* The end of a daemon and the start of the next.                           *)
LEMMA CrashShows ==
  ASSUME DInv, LiveInv, Crash \/ Load \/ LoadFails
  PROVE  LiveInv' /\ StoreStep
<1>1. /\ Main \in Goroutines /\ RunIds \subseteq Goroutines /\ Main \notin RunIds
      /\ mem \in State /\ disk \in State /\ pc \in [Goroutines -> Places]
  BY GoroutineFacts DEF DInv, SaveTypes
<1>2. CASE Crash
  <2>1. /\ pc[Main] # "down" /\ pc'[Main] = "down" /\ mem' = Empty
        /\ \A r \in RunIds : pc'[r] = IF InProgress(r) THEN "gone" ELSE pc[r]
        /\ UNCHANGED <<disk, acknowledged, stale, runTask>>
    BY <1>1, <1>2 DEF Crash
  <2>2. \A r \in RunIds : ~InProgress(r)'
    BY <2>1 DEF InProgress
  <2>3. LiveInv'
    BY <2>1 DEF LiveInv, Empty, InProgress
  <2>4. Live' = {}
    BY <2>2 DEF Live
  <2>5. Store!Crash
    BY <2>1, <2>4 DEF Store!Crash, Store!Empty, Empty
  <2> QED
    BY <2>3, <2>5 DEF StoreStep, Store!Next
<1>3. CASE Load \/ LoadFails
  <2>1. PICK to \in {"cleaning", "restoring", "serving"} : Goto(Main, "down", to)
    BY <1>3 DEF Load, LoadFails
  <2>2. /\ pc[Main] = "down" /\ pc'[Main] # "down"
        /\ \A r \in RunIds : pc'[r] = pc[r]
    BY <1>1, <2>1 DEF Goto
  <2>3. UNCHANGED <<disk, stale, runTask>>
    BY <1>3 DEF Load, LoadFails, runVars
  <2>4. UNCHANGED Live
    BY <2>2, <2>3 DEF Live, InProgress
  <2>5. CASE Load
    <3>1. /\ mem' = [Empty EXCEPT !.history = disk.history]
          /\ acknowledged' = acknowledged \cap RunIds
      BY <2>5 DEF Load
    <3>2. LiveInv'
      BY <2>2, <2>3, <3>1 DEF LiveInv, Empty
    <3>3. Store!Restart
      BY <2>2, <2>3, <2>4, <3>1 DEF Store!Restart, Store!Empty, Empty
    <3> QED
      BY <3>2, <3>3 DEF StoreStep, Store!Next
  <2>6. CASE LoadFails
    <3>1. mem' = mem /\ acknowledged' = {}
      BY <2>6 DEF LoadFails
    <3>2. LiveInv'
      BY <1>1, <2>2, <2>3, <3>1 DEF LiveInv, State
    <3>3. Store!RestartBlind
      BY <2>2, <2>3, <2>4, <3>1 DEF Store!RestartBlind
    <3> QED
      BY <3>2, <3>3 DEF StoreStep, Store!Next
  <2> QED
    BY <1>3, <2>5, <2>6
<1> QED
  BY <1>2, <1>3

LEMMA InitShows == Init => LiveInv /\ Store!Init
<1> SUFFICES ASSUME Init PROVE LiveInv /\ Store!Init
  OBVIOUS
<1>1. /\ mem = Empty /\ disk = Empty /\ acknowledged = {} /\ stale = {}
      /\ runTask = [r \in RunIds |-> None] /\ pc[Main] = "serving"
      /\ \A r \in RunIds : pc[r] = "free"
  BY GoroutineFacts DEF Init
<1>2. LiveInv
  BY <1>1 DEF LiveInv, Empty
<1>3. Live = {}
  BY <1>1 DEF Live, InProgress
<1> QED
  BY <1>1, <1>2, <1>3 DEF Store!Init, Store!Empty, Empty

LEMMA StepShows == DInv /\ LiveInv /\ [Next]_vars => LiveInv' /\ StoreStep
<1> SUFFICES ASSUME DInv, LiveInv, [Next]_vars PROVE LiveInv' /\ StoreStep
  OBVIOUS
<1>1. CASE \E c \in Goroutines : BeginSave(c) \/ Saved(c) \/ SaveFails(c)
  BY <1>1, SavesShow
<1>2. CASE \E h \in Handlers : HandlerNext(h)
  BY <1>2, HandlersShow, RemovalShows DEF HandlerNext
<1>3. CASE \E r \in RunIds : RunNext(r)
  BY <1>3, RunsShow
<1>4. CASE \E t \in TaskIds : SetupSettles(t)
  BY <1>4, RestoreShows
<1>5. CASE RestoreNext
  BY <1>5, RestoreShows, CrashShows DEF RestoreNext
<1>6. CASE Crash
  BY <1>6, CrashShows
<1>7. CASE UNCHANGED vars
  BY <1>7, TaskStep DEF vars
<1> QED
  BY <1>1, <1>2, <1>3, <1>4, <1>5, <1>6, <1>7 DEF Next

(* The daemon implements the store whose saves are atomic: it starts as the *)
(* store does, and every step of a request, a run, a setup, a save, a crash *)
(* or a restart is a step of the store or shows nothing.                    *)
THEOREM SavesAreAtomicTheorem == Spec => SavesAreAtomic
<1>1. StoreStep => [Store!Next]_(Store!vars)
  BY DEF StoreStep
<1> QED
  BY <1>1, InitShows, StepShows, DurabilityInvariant, PTL DEF Spec, Store!Spec, SavesAreAtomic

-------------------------------------------------------------------------------
(* Histories: retention and the way through state.db.                       *)

(* Records, whose parsed statuses are of the given texts.                   *)
RunRecords(Texts) ==
  [start : Int, finish : Int, output : Int,
   outcome : [exitCode : Int, parsed : Texts, timedOut : BOOLEAN, canceled : BOOLEAN]]

Policies == [runs : Nat \ {0}, age : Nat, output : Nat]

(* The runs of a task follow one another, in different seconds.             *)
Consecutive(h) ==
  /\ \A i \in DOMAIN h : h[i].start <= h[i].finish
  /\ \A i, j \in DOMAIN h :
       i < j => /\ h[j].finish <= h[i].start
                /\ h[j].start \div Second # h[i].start \div Second

Recent(r, policy, now) == policy.age = 0 \/ r.finish >= now - policy.age

LEMMA ArrangedInOrder ==
  ASSUME NEW n \in Nat, NEW before, DOMAIN before = 1..n, \A k \in 1..n : before[k] = 1..(k - 1)
  PROVE  Arranged(before) = [i \in 1..n |-> i]
<1>1. Cardinality(1..n) = n BY FS_Interval
<1>2. \A k \in 1..n : Cardinality(before[k]) = k - 1
  <2> TAKE k \in 1..n
  <2>1. Cardinality(1..(k - 1)) = k - 1 BY FS_Interval
  <2> QED BY <2>1
<1>3. ASSUME NEW i \in 1..n
      PROVE  (CHOOSE k \in DOMAIN before : Cardinality(before[k]) = i - 1) = i
  <2>1. \A k \in DOMAIN before : Cardinality(before[k]) = i - 1 <=> k = i BY <1>2
  <2> QED BY <2>1
<1> QED BY <1>1, <1>3 DEF Arranged

LEMMA ClosedBelow ==
  ASSUME NEW n \in Nat, NEW S \in SUBSET (1..n), \A j \in S : \A i \in 1..j : i \in S
  PROVE  \E m \in 0..n : S = 1..m
<1> DEFINE Missing == {k \in 1..(n + 1) : k \notin S}
<1>1. Missing \in SUBSET Nat /\ n + 1 \in Missing OBVIOUS
<1>2. PICK k \in Missing : \A l \in Missing : k <= l
  <2> HIDE DEF Missing
  <2>1. PICK k \in Missing : \A l \in Missing : <<l, k>> \notin OpToRel(<, Nat)
    BY <1>1, WFMin, NatLessThanWellFounded
  <2>2. \A l \in Missing : ~(l < k) BY <1>1, <2>1 DEF OpToRel
  <2> QED BY <1>1, <2>2
<1>3. \A i \in 1..(k - 1) : i \in S BY <1>2
<1>4. \A i \in S : i < k BY <1>2
<1>0. k \in Nat \ {0} OBVIOUS
<1>5. \A i \in S : i \in 1..(k - 1)
  <2> HIDE DEF Missing
  <2> QED BY <1>0, <1>4
<1>6. S = 1..(k - 1) BY <1>3, <1>5
<1>7. k - 1 \in 0..n OBVIOUS
<1> QED BY <1>6, <1>7

LEMMA TextsFollowSeconds ==
  ASSUME NEW a \in Int, NEW b \in Int, a <= b, a \div Second # b \div Second
  PROVE  TextOrder(a) \in Int /\ TextOrder(b) \in Int /\ TextOrder(a) < TextOrder(b)
BY DEF TextOrder, Second

LEMMA RecordFields ==
  ASSUME NEW Texts, NEW h \in Seq(RunRecords(Texts)), NEW i \in DOMAIN h
  PROVE  /\ i \in 1..Len(h) /\ DOMAIN h = 1..Len(h) /\ Len(h) \in Nat
         /\ h[i] \in RunRecords(Texts) /\ h[i].start \in Int /\ h[i].finish \in Int
         /\ h[i].output \in Int
<1>1. i \in 1..Len(h) /\ DOMAIN h = 1..Len(h) /\ Len(h) \in Nat OBVIOUS
<1>2. h[i] \in RunRecords(Texts) BY <1>1
<1>3. \A r \in RunRecords(Texts) : r.start \in Int /\ r.finish \in Int /\ r.output \in Int
  BY DEF RunRecords
<1> QED BY <1>1, <1>2, <1>3

LEMMA FirstOnesFollow ==
  ASSUME NEW h, Consecutive(h), NEW g, DOMAIN g \subseteq DOMAIN h,
         \A i \in DOMAIN g : g[i].start = h[i].start /\ g[i].finish = h[i].finish
  PROVE  Consecutive(g)
<1>1. \A i \in DOMAIN g : h[i].start <= h[i].finish BY DEF Consecutive
<1>2. ASSUME NEW i \in DOMAIN g, NEW j \in DOMAIN g, i < j
      PROVE  h[j].finish <= h[i].start /\ h[j].start \div Second # h[i].start \div Second
  BY <1>2 DEF Consecutive
<1> QED BY <1>1, <1>2 DEF Consecutive

(* Retention leaves the first records, with their output cut.               *)
LEMMA RetainedIsAPrefix ==
  ASSUME NEW Texts, NEW h \in Seq(RunRecords(Texts)), Consecutive(h),
         NEW policy \in Policies, NEW now \in Int
  PROVE  \E n \in 0..Len(h) :
           /\ Retained(h, policy, now) =
                [i \in 1..n |-> [h[i] EXCEPT !.output = PrunedLength(@, policy.output)]]
           /\ n <= policy.runs
           /\ \A i \in 1..n : Recent(h[i], policy, now)
           /\ n = Len(h) \/ n = policy.runs \/ ~Recent(h[n + 1], policy, now)
<1> DEFINE recent == {k \in DOMAIN h : policy.age = 0 \/ h[k].finish >= now - policy.age}
           before == [k \in recent |-> {j \in recent : j < k}]
           fresh == Arranged(before)
<1>1. DOMAIN h = 1..Len(h) /\ Len(h) \in Nat OBVIOUS
<1>2. policy.age \in Nat /\ policy.runs \in Nat BY DEF Policies
<1>3. \A k \in 1..Len(h) : k \in recent <=> Recent(h[k], policy, now) BY <1>1 DEF Recent
<1>4. PICK m \in 0..Len(h) : recent = 1..m
  <2>1. recent \in SUBSET (1..Len(h)) BY <1>1
  <2>2. ASSUME NEW j \in recent, NEW i \in 1..j PROVE i \in recent
    <3>1. i \in DOMAIN h /\ j \in DOMAIN h BY <1>1
    <3>2. i < j => h[j].finish <= h[i].start BY <3>1 DEF Consecutive
    <3>3. h[i].start <= h[i].finish BY <3>1 DEF Consecutive
    <3>4. h[i].start \in Int /\ h[i].finish \in Int /\ h[j].finish \in Int BY <3>1, RecordFields
    <3>5. policy.age = 0 \/ h[j].finish >= now - policy.age OBVIOUS
    <3> QED BY <1>2, <3>1, <3>2, <3>3, <3>4, <3>5, SMTT(20)
  <2> HIDE DEF recent
  <2> QED BY <1>1, <2>1, <2>2, ClosedBelow
<1>5. fresh = [i \in 1..m |-> i]
  <2>1. DOMAIN before = 1..m BY <1>4
  <2>2. ASSUME NEW k \in 1..m PROVE before[k] = 1..(k - 1)
    <3>1. before[k] = {j \in recent : j < k} BY <1>4
    <3>2. \A j : j \in before[k] <=> j \in 1..m /\ j < k BY <1>4, <3>1
    <3> HIDE DEF before
    <3>3. \A j : j \in before[k] <=> j \in 1..(k - 1) BY <1>4, <3>2
    <3> QED BY <3>3
  <2> HIDE DEF before
  <2> QED BY <1>4, <2>1, <2>2, ArrangedInOrder
<1> DEFINE n == IF Len(fresh) < policy.runs THEN Len(fresh) ELSE policy.runs
<1>6. Retained(h, policy, now) =
        [i \in 1..n |-> [h[fresh[i]] EXCEPT !.output = PrunedLength(@, policy.output)]]
  BY DEF Retained
<1> HIDE DEF fresh, before, recent
<1>7. Len(fresh) = m BY <1>4, <1>5
<1>8. n \in 0..m /\ n <= policy.runs /\ (n = m \/ n = policy.runs) BY <1>2, <1>4, <1>7
<1> HIDE DEF n
<1>9. \A i \in 1..n : fresh[i] = i BY <1>4, <1>5, <1>8
<1>10. Retained(h, policy, now) =
         [i \in 1..n |-> [h[i] EXCEPT !.output = PrunedLength(@, policy.output)]]
  BY <1>6, <1>9
<1>11. \A i \in 1..n : Recent(h[i], policy, now) BY <1>1, <1>3, <1>4, <1>8
<1>12. n = Len(h) \/ n = policy.runs \/ ~Recent(h[n + 1], policy, now)
  <2>1. m < Len(h) => m + 1 \in 1..Len(h) /\ m + 1 \notin recent BY <1>1, <1>4
  <2>2. CASE n = m /\ m < Len(h)
    <3>1. n + 1 \in 1..Len(h) /\ n + 1 \notin recent BY <2>1, <2>2
    <3> QED BY <1>3, <3>1
  <2>3. m = Len(h) \/ m < Len(h)
    <3>1. Len(h) \in Nat /\ m \in Nat /\ m <= Len(h) BY <1>1
    <3> QED BY <3>1
  <2>4. n = m \/ n = policy.runs BY <1>8
  <2> QED BY <2>2, <2>3, <2>4, Zenon
<1>13. n \in 0..Len(h) BY <1>1, <1>4, <1>8
<1> QED BY <1>8, <1>10, <1>11, <1>12, <1>13

(* The rows of such a history come back in its order.                       *)
LEMMA ReadInOrder ==
  ASSUME NEW Texts, NEW h \in Seq(RunRecords(Texts)), Consecutive(h)
  PROVE  Read(Rows(h)) = [i \in 1..Len(h) |-> Applied(h[i], StatusOf(h[i].outcome))]
<1> DEFINE rows == Rows(h)
           Start(k) == TextOrder(rows[k].record.start)
           Before(j, k) == \/ Start(j) > Start(k)
                           \/ Start(j) = Start(k) /\ rows[j].rowid > rows[k].rowid
           before == [k \in DOMAIN rows |-> {j \in DOMAIN rows : Before(j, k)}]
<1>1. DOMAIN h = 1..Len(h) /\ Len(h) \in Nat OBVIOUS
<1>2. /\ DOMAIN rows = 1..Len(h)
      /\ \A k \in 1..Len(h) : /\ rows[k].record = h[k] /\ rows[k].rowid = k
                              /\ rows[k].status = StatusOf(h[k].outcome)
  BY <1>1 DEF Rows
<1>3. Read(rows) = [i \in DOMAIN Arranged(before) |->
                      Applied(rows[Arranged(before)[i]].record, rows[Arranged(before)[i]].status)]
  BY DEF Read, Results
<1> HIDE DEF rows
<1>4. \A k \in 1..Len(h) : Start(k) = TextOrder(h[k].start) BY <1>2
<1>0. \A k \in 1..Len(h) : Start(k) \in Int
  <2> TAKE k \in 1..Len(h)
  <2>1. h[k].start \in Int BY <1>1, RecordFields
  <2>2. Start(k) = TextOrder(h[k].start) BY <1>4
  <2> QED BY <2>1, <2>2 DEF TextOrder, Second
<1>5. ASSUME NEW j \in 1..Len(h), NEW k \in 1..Len(h), j < k
      PROVE  Start(j) \in Int /\ Start(k) \in Int /\ Start(k) < Start(j)
  <2>1. h[j].start \in Int /\ h[k].start \in Int /\ h[k].finish \in Int BY <1>1, RecordFields
  <2>2. /\ h[k].start <= h[k].finish /\ h[k].finish <= h[j].start
        /\ h[k].start \div Second # h[j].start \div Second
    BY <1>1, <1>5 DEF Consecutive
  <2>3. h[k].start <= h[j].start BY <2>1, <2>2
  <2> QED BY <1>4, <2>1, <2>2, <2>3, TextsFollowSeconds
<1> HIDE DEF Start
<1>6. ASSUME NEW k \in 1..Len(h) PROVE before[k] = 1..(k - 1)
  <2>1. before[k] = {j \in 1..Len(h) : Before(j, k)} BY <1>2
  <2>2. ASSUME NEW j \in 1..Len(h) PROVE Before(j, k) <=> j < k
    <3>1. CASE j < k BY <3>1, <1>5
    <3>2. CASE k < j BY <3>2, <1>5
    <3>3. CASE j = k
      <4>1. ~(Start(k) > Start(k)) BY <1>0
      <4> QED BY <3>3, <4>1, <1>2
    <3> QED BY <1>1, <3>1, <3>2, <3>3
  <2> HIDE DEF Before, before
  <2>3. \A j : j \in before[k] <=> j \in 1..(k - 1) BY <1>1, <2>1, <2>2
  <2> QED BY <2>3
<1>7. DOMAIN before = 1..Len(h) BY <1>2
<1> HIDE DEF before
<1>8. Arranged(before) = [i \in 1..Len(h) |-> i] BY <1>1, <1>6, <1>7, ArrangedInOrder
<1>9. Read(rows) = [i \in 1..Len(h) |-> Applied(rows[i].record, rows[i].status)] BY <1>3, <1>8
<1> QED BY <1>2, <1>9 DEF rows

(* The status column gives back what the record had.                        *)
LEMMA AppliedKeepsTheStatus ==
  ASSUME NEW Texts, RunStatuses \subseteq Texts, NEW r \in RunRecords(Texts)
  PROVE  LET a == Applied(r, StatusOf(r.outcome)) IN
         /\ a \in RunRecords(Texts)
         /\ a.start = r.start /\ a.finish = r.finish /\ a.output = r.output
         /\ StatusOf(a.outcome) = StatusOf(r.outcome)
<1> DEFINE o == r.outcome
           status == StatusOf(o)
<1>1. \A s \in RunStatuses : NormalizeRunStatus(s) = s /\ IsValidRunStatus(s)
  <2> TAKE s \in RunStatuses
  <2>1. s # "failed" /\ s # "SUCCESS" BY DEF RunStatuses
  <2>2. NormalizeRunStatus(s) = s BY <2>1, Zenon DEF NormalizeRunStatus
  <2> QED BY <2>2 DEF IsValidRunStatus
<1>2. {"success", "failure"} \subseteq RunStatuses BY DEF RunStatuses
<1>3. status \in RunStatuses BY <1>2 DEF StatusOf, IsValidRunStatus
<1>4. o \in [exitCode : Int, parsed : Texts, timedOut : BOOLEAN, canceled : BOOLEAN]
  BY DEF RunRecords
<1>5. CASE IsValidRunStatus(o.parsed) BY <1>5 DEF Applied
<1>6. CASE ~IsValidRunStatus(o.parsed)
  <2> DEFINE a == [r EXCEPT !.outcome.parsed = status]
  <2>1. Applied(r, status) = a BY <1>1, <1>3, <1>6 DEF Applied
  <2>2. a.outcome = [o EXCEPT !.parsed = status] BY DEF RunRecords
  <2>3. /\ a.outcome.parsed = status /\ a.outcome.exitCode = o.exitCode
        /\ a.outcome.timedOut = o.timedOut /\ a.outcome.canceled = o.canceled
    BY <1>4, <2>2
  <2>4. status \in Texts BY <1>3
  <2> HIDE DEF status
  <2>5. a \in RunRecords(Texts) /\ a.start = r.start /\ a.finish = r.finish /\ a.output = r.output
    BY <2>4 DEF RunRecords
  <2> HIDE DEF a
  <2>6. StatusOf(a.outcome) = status
    <3>1. CASE o.timedOut \/ o.canceled BY <2>3, <3>1 DEF StatusOf, status
    <3>2. CASE ~(o.timedOut \/ o.canceled) BY <1>1, <1>3, <2>3, <3>2 DEF StatusOf
    <3> QED BY <3>1, <3>2
  <2> QED BY <2>1, <2>5, <2>6 DEF status
<1> QED BY <1>5, <1>6

(* What retention and a restart leave of a history: its first n records,    *)
(* with the output cut and the status they had.                             *)
KeepsFirst(Texts, h, policy, now, n) ==
  LET kept == Retained(h, policy, now)
      restarted == Restarted(h, policy, now) IN
  /\ DOMAIN kept = 1..n
  /\ \A i \in 1..n :
       /\ kept[i].start = h[i].start /\ kept[i].finish = h[i].finish
       /\ kept[i].output = PrunedLength(h[i].output, policy.output)
       /\ kept[i].outcome = h[i].outcome
  /\ restarted \in Seq(RunRecords(Texts)) /\ Len(restarted) = n /\ Consecutive(restarted)
  /\ \A i \in 1..n :
       /\ restarted[i].start = h[i].start /\ restarted[i].finish = h[i].finish
       /\ restarted[i].output = PrunedLength(h[i].output, policy.output)
       /\ StatusOf(restarted[i].outcome) = StatusOf(h[i].outcome)
  /\ n <= policy.runs
  /\ \A i \in 1..n : Recent(h[i], policy, now)
  /\ n = Len(h) \/ n = policy.runs \/ ~Recent(h[n + 1], policy, now)

LEMMA RestartedIsAPrefix ==
  ASSUME NEW Texts, RunStatuses \subseteq Texts, NEW h \in Seq(RunRecords(Texts)),
         Consecutive(h), NEW policy \in Policies, NEW now \in Int
  PROVE  \E n \in 0..Len(h) : KeepsFirst(Texts, h, policy, now, n)
<1> DEFINE kept == Retained(h, policy, now)
           restarted == Restarted(h, policy, now)
<1>1. PICK n \in 0..Len(h) :
        /\ kept = [i \in 1..n |-> [h[i] EXCEPT !.output = PrunedLength(@, policy.output)]]
        /\ n <= policy.runs
        /\ \A i \in 1..n : Recent(h[i], policy, now)
        /\ n = Len(h) \/ n = policy.runs \/ ~Recent(h[n + 1], policy, now)
  BY RetainedIsAPrefix
<1> HIDE DEF kept
<1>2. DOMAIN h = 1..Len(h) /\ Len(h) \in Nat OBVIOUS
<1>3. ASSUME NEW i \in 1..n
      PROVE  /\ kept[i] \in RunRecords(Texts)
             /\ kept[i].start = h[i].start /\ kept[i].finish = h[i].finish
             /\ kept[i].output = PrunedLength(h[i].output, policy.output)
             /\ kept[i].outcome = h[i].outcome
  <2>1. h[i] \in RunRecords(Texts) BY <1>1, <1>2
  <2>2. PrunedLength(h[i].output, policy.output) \in Int
    <3>1. h[i].output \in Int BY <2>1 DEF RunRecords
    <3>2. policy.output \in Int BY DEF Policies
    <3> HIDE DEF kept, restarted
    <3> QED BY <3>1, <3>2 DEF PrunedLength
  <2>3. kept[i] = [h[i] EXCEPT !.output = PrunedLength(h[i].output, policy.output)] BY <1>1
  <2> HIDE DEF kept
  <2> QED BY <2>1, <2>2, <2>3 DEF RunRecords
<1>4. DOMAIN kept = 1..n BY <1>1
<1>5. kept \in Seq(RunRecords(Texts)) /\ Len(kept) = n
  <2>1. kept \in [1..n -> RunRecords(Texts)] BY <1>1, <1>3, <1>4
  <2> QED BY <1>1, <2>1
<1>6. Consecutive(kept)
  <2>1. DOMAIN kept \subseteq DOMAIN h BY <1>1, <1>2, <1>4
  <2> QED BY <1>3, <1>4, <2>1, FirstOnesFollow
<1>7. restarted = [i \in 1..n |-> Applied(kept[i], StatusOf(kept[i].outcome))]
  BY <1>5, <1>6, ReadInOrder DEF Restarted, kept
<1> HIDE DEF restarted
<1>8. ASSUME NEW i \in 1..n
      PROVE  /\ restarted[i] \in RunRecords(Texts)
             /\ restarted[i].start = h[i].start /\ restarted[i].finish = h[i].finish
             /\ restarted[i].output = PrunedLength(h[i].output, policy.output)
             /\ StatusOf(restarted[i].outcome) = StatusOf(h[i].outcome)
  <2>1. restarted[i] = Applied(kept[i], StatusOf(kept[i].outcome)) BY <1>7
  <2> QED BY <1>3, <2>1, AppliedKeepsTheStatus
<1>9. restarted \in Seq(RunRecords(Texts)) /\ Len(restarted) = n /\ DOMAIN restarted = 1..n
  <2>1. restarted \in [1..n -> RunRecords(Texts)] BY <1>7, <1>8
  <2> QED BY <1>1, <2>1
<1>10. Consecutive(restarted)
  <2>1. DOMAIN restarted \subseteq DOMAIN h BY <1>1, <1>2, <1>9
  <2> QED BY <1>8, <1>9, <2>1, FirstOnesFollow
<1> QED BY <1>1, <1>3, <1>4, <1>8, <1>9, <1>10 DEF KeepsFirst, kept, restarted

(* Retention and a restart show the same records, and retention finds       *)
(* nothing more to do with what a restart shows (engine.go:1150,            *)
(* state_sqlite.go:402), for every history of runs that follow one another. *)
THEOREM RestartShowsWhatWasKept ==
  ASSUME NEW Texts, RunStatuses \subseteq Texts, NEW h \in Seq(RunRecords(Texts)),
         Consecutive(h), NEW policy \in Policies, NEW now \in Int
  PROVE  LET restarted == Restarted(h, policy, now) IN
         /\ Shown(restarted) = Shown(Retained(h, policy, now))
         /\ Shown(Retained(restarted, policy, now)) = Shown(restarted)
<1> DEFINE kept == Retained(h, policy, now)
           restarted == Restarted(h, policy, now)
           again == Retained(restarted, policy, now)
<1>0. PICK n \in 0..Len(h) : KeepsFirst(Texts, h, policy, now, n) BY RestartedIsAPrefix
<1>1. /\ DOMAIN kept = 1..n
      /\ \A i \in 1..n :
           /\ kept[i].start = h[i].start /\ kept[i].finish = h[i].finish
           /\ kept[i].output = PrunedLength(h[i].output, policy.output)
           /\ kept[i].outcome = h[i].outcome
      /\ restarted \in Seq(RunRecords(Texts)) /\ Len(restarted) = n /\ Consecutive(restarted)
      /\ \A i \in 1..n :
           /\ restarted[i].start = h[i].start /\ restarted[i].finish = h[i].finish
           /\ restarted[i].output = PrunedLength(h[i].output, policy.output)
           /\ StatusOf(restarted[i].outcome) = StatusOf(h[i].outcome)
      /\ n <= policy.runs
      /\ \A i \in 1..n : Recent(h[i], policy, now)
  BY <1>0 DEF KeepsFirst
<1> HIDE DEF kept, restarted
<1>2. DOMAIN restarted = 1..n /\ n \in 0..Len(h) BY <1>1
<1>3. Shown(restarted) = Shown(kept) BY <1>1, <1>2 DEF Shown
<1>4. PICK m \in 0..n :
        /\ again = [i \in 1..m |-> [restarted[i] EXCEPT !.output = PrunedLength(@, policy.output)]]
        /\ m = n \/ m = policy.runs \/ ~Recent(restarted[m + 1], policy, now)
  BY <1>1, RetainedIsAPrefix, ZenonT(40)
<1> HIDE DEF again
<1>5. m = n
  <2>1. policy.runs \in Nat BY DEF Policies
  <2>2. m < n => m + 1 \in 1..n BY <1>1, <1>4
  <2>3. m < n => Recent(restarted[m + 1], policy, now) BY <1>1, <2>2 DEF Recent
  <2> QED BY <1>1, <1>4, <2>1, <2>3
<1>6. ASSUME NEW i \in 1..n
      PROVE  <<again[i].start, again[i].finish, again[i].output, StatusOf(again[i].outcome)>>
               = <<restarted[i].start, restarted[i].finish, restarted[i].output,
                   StatusOf(restarted[i].outcome)>>
  <2>1. restarted[i] \in RunRecords(Texts) /\ h[i].output \in Int
    BY <1>1, <1>2, RecordFields
  <2>2. again[i] = [restarted[i] EXCEPT !.output = PrunedLength(@, policy.output)]
    BY <1>4, <1>5
  <2>3. PrunedLength(PrunedLength(h[i].output, policy.output), policy.output)
          = PrunedLength(h[i].output, policy.output)
    BY <2>1 DEF PrunedLength, Policies
  <2>4. again[i].output = restarted[i].output BY <1>1, <2>1, <2>2, <2>3 DEF RunRecords
  <2>5. /\ again[i].start = restarted[i].start /\ again[i].finish = restarted[i].finish
        /\ again[i].outcome = restarted[i].outcome
    BY <2>1, <2>2 DEF RunRecords
  <2> QED BY <2>4, <2>5
<1>7. DOMAIN again = 1..n BY <1>4, <1>5
<1>8. Shown(again) = Shown(restarted) BY <1>2, <1>6, <1>7 DEF Shown
<1> QED BY <1>3, <1>8 DEF kept, restarted, again

(* What counts is whether the latest run was kept.                          *)
LEMMA TheFirstIsTheLatest ==
  ASSUME NEW Texts, NEW h \in Seq(RunRecords(Texts)), Consecutive(h), NEW i \in DOMAIN h
  PROVE  (\A j \in DOMAIN h : h[j].start <= h[i].start) <=> i = 1
<1>1. \A j \in DOMAIN h : j \in Nat \ {0} /\ h[j].start \in Int /\ h[j].finish \in Int
  BY RecordFields
<1>2. 1 \in DOMAIN h OBVIOUS
<1>3. ASSUME NEW j \in DOMAIN h, j # 1 PROVE h[j].start < h[1].start
  <2>1. 1 < j BY <1>1, <1>3
  <2>2. /\ h[j].start <= h[j].finish /\ h[j].finish <= h[1].start
        /\ h[j].start \div Second # h[1].start \div Second
    BY <1>2, <2>1 DEF Consecutive
  <2>3. h[j].start # h[1].start BY <2>2
  <2> QED BY <1>1, <1>2, <2>2, <2>3
<1>4. i = 1 => \A j \in DOMAIN h : h[j].start <= h[i].start BY <1>1, <1>3
<1>5. i # 1 => ~(h[1].start <= h[i].start) BY <1>1, <1>2, <1>3
<1> QED BY <1>2, <1>4, <1>5

FirstServes(r, d, now) ==
  /\ r # <<>>
  /\ StatusOf(r[1].outcome) = d.require
  /\ d.maxAge > 0 => now - r[1].finish <= d.maxAge * Second

LatestServes(h, d, policy, now) ==
  \E i \in DOMAIN h :
    /\ \A j \in DOMAIN h : h[j].start <= h[i].start
    /\ StatusOf(h[i].outcome) = d.require
    /\ d.maxAge > 0 => now <= h[i].finish + d.maxAge * Second
    /\ policy.age > 0 => now <= h[i].finish + policy.age

LEMMA TheLatestRunCounts ==
  ASSUME NEW Texts, RunStatuses \subseteq Texts, NEW h \in Seq(RunRecords(Texts)),
         Consecutive(h), NEW policy \in Policies, NEW now \in Int, NEW d, d.maxAge \in Int
  PROVE  FirstServes(Restarted(h, policy, now), d, now) <=> LatestServes(h, d, policy, now)
<1> DEFINE r == Restarted(h, policy, now)
           allowed(x) == d.maxAge > 0 => now <= x + d.maxAge * Second
           kept(x) == policy.age > 0 => now <= x + policy.age
<1>0. PICK n \in 0..Len(h) : KeepsFirst(Texts, h, policy, now, n) BY RestartedIsAPrefix
<1>1. /\ r \in Seq(RunRecords(Texts)) /\ Len(r) = n
      /\ \A i \in 1..n : /\ r[i].finish = h[i].finish
                         /\ StatusOf(r[i].outcome) = StatusOf(h[i].outcome)
      /\ \A i \in 1..n : Recent(h[i], policy, now)
      /\ n = Len(h) \/ n = policy.runs \/ ~Recent(h[n + 1], policy, now)
  BY <1>0 DEF KeepsFirst
<1> HIDE DEF r
<1>2. policy.runs \in Nat \ {0} /\ policy.age \in Nat BY DEF Policies
<1>3. DOMAIN h = 1..Len(h) /\ Len(h) \in Nat OBVIOUS
<1>4. r # <<>> <=> n > 0 BY <1>1
<1>5. n > 0 => 1 \in DOMAIN h
  <2>1. n \in Nat /\ n <= Len(h) BY <1>3
  <2> QED BY <1>3, <2>1
<1>6. 1 \in DOMAIN h => (n > 0 <=> Recent(h[1], policy, now))
  <2>1. n > 0 => Recent(h[1], policy, now) BY <1>1
  <2>2. n = 0 /\ 1 \in DOMAIN h => n # Len(h) /\ n # policy.runs BY <1>2, <1>3
  <2>3. n = 0 => n + 1 = 1 OBVIOUS
  <2>4. n = 0 /\ 1 \in DOMAIN h => ~Recent(h[1], policy, now) BY <1>1, <2>2, <2>3
  <2>5. n = 0 \/ n > 0 BY <1>1
  <2> QED BY <2>1, <2>4, <2>5
<1>7. 1 \in DOMAIN h => h[1].finish \in Int BY RecordFields
<1>8. 1 \in DOMAIN h => (Recent(h[1], policy, now) <=> kept(h[1].finish)) BY <1>2, <1>7 DEF Recent
<1>9. n > 0 => (r[1].finish = h[1].finish /\ StatusOf(r[1].outcome) = StatusOf(h[1].outcome))
  BY <1>1
<1>10. 1 \in DOMAIN h =>
         ((d.maxAge > 0 => now - h[1].finish <= d.maxAge * Second) <=> allowed(h[1].finish))
  BY <1>7 DEF Second
<1>11. (\E i \in DOMAIN h : /\ \A j \in DOMAIN h : h[j].start <= h[i].start
                            /\ StatusOf(h[i].outcome) = d.require
                            /\ allowed(h[i].finish) /\ kept(h[i].finish))
       <=> /\ 1 \in DOMAIN h /\ StatusOf(h[1].outcome) = d.require
           /\ allowed(h[1].finish) /\ kept(h[1].finish)
  <2> HIDE DEF allowed, kept
  <2>1. \A i \in DOMAIN h : (\A j \in DOMAIN h : h[j].start <= h[i].start) <=> i = 1
    BY TheFirstIsTheLatest
  <2> QED BY <2>1, Zenon
<1>12. (/\ r # <<>> /\ StatusOf(r[1].outcome) = d.require
        /\ d.maxAge > 0 => now - r[1].finish <= d.maxAge * Second)
       <=> /\ 1 \in DOMAIN h /\ StatusOf(h[1].outcome) = d.require
           /\ allowed(h[1].finish) /\ kept(h[1].finish)
  <2> HIDE DEF kept
  <2>1. CASE n > 0
    <3>1. kept(h[1].finish) BY <1>5, <1>6, <1>8, <2>1
    <3> QED BY <1>4, <1>5, <1>9, <1>10, <2>1, <3>1
  <2>2. CASE ~(n > 0)
    <3>1. 1 \in DOMAIN h => ~kept(h[1].finish) BY <1>6, <1>8, <2>2
    <3> QED BY <1>4, <2>2, <3>1
  <2> QED BY <2>1, <2>2
<1> QED BY <1>11, <1>12 DEF FirstServes, LatestServes, r

(* A dependency is healthy exactly when the latest completed run of the one *)
(* task it names satisfies it, whatever retention and a restart did to the  *)
(* records (engine.go:635, management.go:345).                              *)
THEOREM DependenciesSeeTheLatestRun ==
  ASSUME NEW Texts, RunStatuses \subseteq Texts, NEW Ids,
         NEW completed \in [Ids -> Seq(RunRecords(Texts))],
         \A id \in Ids : Consecutive(completed[id]),
         NEW policy \in Policies, NEW now \in Int,
         NEW tasks, \A t \in tasks : t.id \in Ids, NEW d, d.maxAge \in Int
  PROVE  Healthy(tasks, [id \in Ids |-> Restarted(completed[id], policy, now)], d, now)
           <=> Satisfied(tasks, d, completed, policy, now)
<1> DEFINE histories == [id \in Ids |-> Restarted(completed[id], policy, now)]
           found == Targets(tasks, d)
           counts(r) == FirstServes(r, d, now)
           latest(h) == LatestServes(h, d, policy, now)
<1>1. ASSUME NEW t \in tasks PROVE counts(histories[t.id]) <=> latest(completed[t.id])
  <2>1. completed[t.id] \in Seq(RunRecords(Texts)) /\ Consecutive(completed[t.id]) OBVIOUS
  <2>2. histories[t.id] = Restarted(completed[t.id], policy, now) OBVIOUS
  <2> HIDE DEF histories
  <2> QED BY <2>1, <2>2, TheLatestRunCounts
<1>2. found = {u \in tasks : IF d.id # "" THEN u.id = d.id ELSE u.slug = d.slug}
  BY DEF Targets
<1>3. Satisfied(tasks, d, completed, policy, now)
        <=> \E t \in tasks : found = {t} /\ latest(completed[t.id])
  BY <1>2 DEF Satisfied, LatestServes
<1>4. Healthy(tasks, histories, d, now)
        <=> (\E t \in found : found = {t}) /\ counts(histories[(CHOOSE t \in found : TRUE).id])
  BY DEF Healthy, FirstServes
<1> HIDE DEF histories, counts, latest, found
<1>5. \A t : found = {t} => (CHOOSE u \in found : TRUE) = t /\ t \in tasks BY <1>2
<1>6. (\E t \in found : found = {t}) /\ counts(histories[(CHOOSE t \in found : TRUE).id])
        <=> \E t \in tasks : found = {t} /\ counts(histories[t.id])
  BY <1>2, <1>5
<1> QED BY <1>1, <1>3, <1>4, <1>6 DEF histories

(* The report of the API says "unhealthy" exactly of the tasks that the     *)
(* gate stops (management.go:16, engine.go:617).                            *)
LEMMA ReportAgreesWithGate ==
  ASSUME NEW tasks, NEW histories, NEW ds, NEW now
  PROVE  Report(tasks, histories, ds, now) = "unhealthy" <=> Gate(tasks, histories, ds, now) # NoStatus
<1> DEFINE bad == {i \in DOMAIN ds : ~Healthy(tasks, histories, ds[i], now)}
<1>1. Gate(tasks, histories, ds, now) = NoStatus <=> bad = {} BY DEF Gate, NoStatus
<1>2. ds = <<>> => bad = {} OBVIOUS
<1>3. (\A i \in DOMAIN ds : Healthy(tasks, histories, ds[i], now)) <=> bad = {} OBVIOUS
<1> HIDE DEF bad
<1>4. Report(tasks, histories, ds, now) = "unhealthy" <=> bad # {} BY <1>2, <1>3 DEF Report
<1> QED BY <1>1, <1>4

(* The first of two dependencies that is not healthy decides.               *)
LEMMA GateOfTwo ==
  ASSUME NEW tasks, NEW histories, NEW d, NEW e, NEW now
  PROVE  Gate(tasks, histories, <<d, e>>, now) =
           IF ~Healthy(tasks, histories, d, now) THEN Verdict(d)
           ELSE IF ~Healthy(tasks, histories, e, now) THEN Verdict(e) ELSE NoStatus
<1> DEFINE ds == <<d, e>>
           bad == {i \in DOMAIN ds : ~Healthy(tasks, histories, ds[i], now)}
           first == CHOOSE i \in bad : \A j \in bad : i <= j
<1>1. DOMAIN ds = {1, 2} /\ ds[1] = d /\ ds[2] = e OBVIOUS
<1>2. /\ 1 \in bad <=> ~Healthy(tasks, histories, d, now)
      /\ 2 \in bad <=> ~Healthy(tasks, histories, e, now)
      /\ bad \subseteq {1, 2}
  BY <1>1
<1>3. Gate(tasks, histories, ds, now) =
        IF bad = {} THEN NoStatus
        ELSE IF ds[first].unhealthy = "fail" THEN "failure" ELSE "skipped"
  BY DEF Gate
<1> HIDE DEF bad, ds
<1>4. ASSUME 1 \in bad PROVE first = 1
  <2>1. \A i \in bad : (\A j \in bad : i <= j) <=> i = 1 BY <1>2, <1>4
  <2> QED BY <1>4, <2>1
<1>5. ASSUME 1 \notin bad, 2 \in bad PROVE first = 2
  <2>1. bad = {2} BY <1>2, <1>5
  <2>2. \A i \in bad : (\A j \in bad : i <= j) <=> i = 2 BY <2>1
  <2> QED BY <1>5, <2>2
<1>6. 1 \notin bad /\ 2 \notin bad => bad = {} BY <1>2
<1> HIDE DEF first
<1>7. CASE 1 \in bad
  <2>1. Gate(tasks, histories, ds, now) = Verdict(d) BY <1>1, <1>3, <1>4, <1>7 DEF Verdict
  <2> QED BY <1>2, <1>7, <2>1 DEF ds
<1>8. CASE 1 \notin bad /\ 2 \in bad
  <2>1. Gate(tasks, histories, ds, now) = Verdict(e) BY <1>1, <1>3, <1>5, <1>8 DEF Verdict
  <2> QED BY <1>2, <1>8, <2>1 DEF ds
<1>9. CASE 1 \notin bad /\ 2 \notin bad
  <2>1. Gate(tasks, histories, ds, now) = NoStatus BY <1>3, <1>6, <1>9
  <2> QED BY <1>2, <1>9, <2>1 DEF ds
<1> QED BY <1>7, <1>8, <1>9

(* The sample histories are such histories, the sample policies such        *)
(* policies.                                                                *)
SampleTexts == RunStatuses \cup {NoStatus, "failed", "unknown"}

LEMMA SampleRuns ==
  ASSUME NEW span \in SampleSpans, NEW o \in SampleOutcomes
  PROVE  /\ Run(span, o) \in RunRecords(SampleTexts)
         /\ Run(span, o).start = span[1] /\ Run(span, o).finish = span[2]
<1> DEFINE Outcomes == [exitCode : Int, parsed : SampleTexts, timedOut : BOOLEAN, canceled : BOOLEAN]
<1>1. span[1] \in Int /\ span[2] \in Int BY DEF SampleSpans
<1>2. o \in Outcomes
  <2>1. {NoStatus, "success", "failed", "unknown"} \subseteq SampleTexts
    BY DEF SampleTexts, RunStatuses
  <2>2. \A exitCode \in Int, parsed \in SampleTexts, canceled \in BOOLEAN :
          Ended(exitCode, parsed, canceled) \in Outcomes
    BY DEF Ended
  <2> HIDE DEF SampleTexts
  <2>3. \A canceled \in BOOLEAN :
          /\ Ended(1, NoStatus, canceled) \in Outcomes
          /\ Ended(0, "success", canceled) \in Outcomes
          /\ Ended(0, "failed", canceled) \in Outcomes
          /\ Ended(0, "unknown", canceled) \in Outcomes
          /\ Ended(130, "success", canceled) \in Outcomes
    BY <2>1, <2>2
  <2> HIDE DEF Outcomes
  <2> QED BY <2>3 DEF SampleOutcomes
<1> HIDE DEF SampleTexts
<1> QED BY <1>1, <1>2 DEF Run, RunRecords

LEMMA HistoryOfSamples ==
  ASSUME NEW n \in Nat, NEW s \in SerialSpans(n), NEW o \in [1..n -> SampleOutcomes]
  PROVE  HistoryOf(n, s, o) \in Seq(RunRecords(SampleTexts)) /\ Consecutive(HistoryOf(n, s, o))
<1> DEFINE h == HistoryOf(n, s, o)
<1>1. s \in [1..n -> SampleSpans] /\ Serial(s) BY DEF SerialSpans
<1>2. DOMAIN h = 1..n /\ \A i \in 1..n : h[i] = Run(s[n + 1 - i], o[i]) BY DEF HistoryOf
<1> HIDE DEF h
<1>3. ASSUME NEW i \in 1..n
      PROVE  /\ h[i] \in RunRecords(SampleTexts) /\ n + 1 - i \in 1..n
             /\ h[i].start = s[n + 1 - i][1] /\ h[i].finish = s[n + 1 - i][2]
             /\ s[n + 1 - i] \in SampleSpans
  <2>1. n + 1 - i \in 1..n OBVIOUS
  <2>2. s[n + 1 - i] \in SampleSpans /\ o[i] \in SampleOutcomes BY <1>1, <2>1
  <2> QED BY <1>2, <2>1, <2>2, SampleRuns
<1>4. h \in Seq(RunRecords(SampleTexts))
  <2>1. h = [i \in 1..n |-> h[i]]
    BY <1>2 DEF HistoryOf, h
  <2>2. h \in [1..n -> RunRecords(SampleTexts)] BY <1>3, <2>1
  <2> QED BY <2>2
<1>5. ASSUME NEW i \in 1..n PROVE h[i].start <= h[i].finish
  <2>1. \A span \in SampleSpans : span[1] <= span[2] BY DEF SampleSpans
  <2> QED BY <1>3, <2>1
<1>6. ASSUME NEW i \in 1..n, NEW j \in 1..n, i < j
      PROVE  h[j].finish <= h[i].start /\ h[j].start \div Second # h[i].start \div Second
  <2> DEFINE p == n + 1 - j
             q == n + 1 - i
  <2>1. p \in 1..n /\ q \in 1..n /\ p < q BY <1>6
  <2>2. p \in DOMAIN s /\ q \in DOMAIN s BY <1>1, <2>1
  <2>3. s[p][2] <= s[q][1] /\ s[p][1] \div Second # s[q][1] \div Second
    BY <1>1, <2>1, <2>2 DEF Serial
  <2> QED BY <1>3, <2>3
<1> QED BY <1>2, <1>4, <1>5, <1>6 DEF Consecutive, h

LEMMA SampleHistoriesFollow ==
  ASSUME NEW h \in SampleHistories
  PROVE  h \in Seq(RunRecords(SampleTexts)) /\ Consecutive(h)
<1>1. CASE h = <<>>
  <2>1. <<>> \in Seq(RunRecords(SampleTexts)) OBVIOUS
  <2>2. DOMAIN h = {} BY <1>1
  <2> QED BY <1>1, <2>1, <2>2 DEF Consecutive
<1>2. ASSUME NEW n \in 1..2, NEW s \in SerialSpans(n), NEW o \in [1..n -> SampleOutcomes],
             h = HistoryOf(n, s, o)
      PROVE  h \in Seq(RunRecords(SampleTexts)) /\ Consecutive(h)
  <2>1. n \in Nat OBVIOUS
  <2> QED BY <1>2, <2>1, HistoryOfSamples
<1>3. CASE h \in {HistoryOf(3, s, Mixed) : s \in SerialSpans(3)}
  <2>1. PICK s \in SerialSpans(3) : h = HistoryOf(3, s, Mixed) BY <1>3
  <2>2. DOMAIN Mixed = 1..3 /\ Mixed = [i \in 1..3 |-> Mixed[i]] BY DEF Mixed
  <2>3. \A i \in 1..3 : Mixed[i] \in SampleOutcomes
    <3>1. /\ Mixed[1] = Ended(1, NoStatus, FALSE) /\ Mixed[2] = Ended(0, "success", FALSE)
          /\ Mixed[3] = Ended(1, NoStatus, FALSE)
      BY DEF Mixed
    <3>2. \A i \in 1..3 : i = 1 \/ i = 2 \/ i = 3 OBVIOUS
    <3> QED BY <3>1, <3>2 DEF SampleOutcomes
  <2> HIDE DEF Mixed
  <2>4. Mixed \in [1..3 -> SampleOutcomes] BY <2>2, <2>3
  <2> QED BY <2>1, <2>4, HistoryOfSamples
<1>4. \/ h = <<>>
      \/ \E n \in 1..2 : \E s \in SerialSpans(n), o \in [1..n -> SampleOutcomes] :
           h = HistoryOf(n, s, o)
      \/ h \in {HistoryOf(3, s, Mixed) : s \in SerialSpans(3)}
  BY DEF SampleHistories
<1> QED BY <1>1, <1>2, <1>3, <1>4

LEMMA SampleDependenciesFit ==
  ASSUME NEW x \in SampleDependencies
  PROVE  /\ x.maxAge \in Int /\ (x.id # "" \/ x.slug # "")
         /\ x.id # "t3" /\ (x.id = "" => x.slug # "me")
<1>1. \A id, slug, require, maxAge, unhealthy :
        x = Dependency(id, slug, require, maxAge, unhealthy)
          => x.id = id /\ x.slug = slug /\ x.maxAge = maxAge
  BY DEF Dependency
<1>2. 4 \in Int /\ 0 \in Int OBVIOUS
<1>3. CASE x = Dependency("t1", "", "success", 4, "fail")
  <2>1. x.id = "t1" BY <1>1, <1>3, Zenon
  <2>2. x.maxAge = 4 BY <1>1, <1>3, Zenon
  <2>3. x.id # "" /\ x.id # "t3" BY <2>1, Zenon
  <2> QED BY <1>2, <2>2, <2>3, Zenon
<1>4. CASE x = Dependency("", "up", "failure", 0, "skip")
  <2>1. x.id = "" /\ x.slug = "up" BY <1>1, <1>4, Zenon
  <2>2. x.maxAge = 0 BY <1>1, <1>4, Zenon
  <2>3. x.slug # "" /\ x.slug # "me" /\ x.id # "t3" BY <2>1, Zenon
  <2> QED BY <1>2, <2>2, <2>3, Zenon
<1>5. CASE x = Dependency("", "down", "success", 0, "fail")
  <2>1. x.id = "" /\ x.slug = "down" BY <1>1, <1>5, Zenon
  <2>2. x.maxAge = 0 BY <1>1, <1>5, Zenon
  <2>3. x.slug # "" /\ x.slug # "me" /\ x.id # "t3" BY <2>1, Zenon
  <2> QED BY <1>2, <2>2, <2>3, Zenon
<1> QED BY <1>3, <1>4, <1>5, Zenon DEF SampleDependencies

(* Whatever the settings say, the daemon's policy is one of those.          *)
LEMMA PoliciesFit ==
  ASSUME NEW runs \in Int, NEW age \in Int, NEW output \in Int
  PROVE  Policy(runs, age, output) \in Policies
BY DEF Policies, Policy, ClampNonNegative, DefaultMaxRuns

LEMMA SamplePoliciesFit == SamplePolicies \subseteq Policies
BY PoliciesFit DEF SamplePolicies

LEMMA NothingToRestart ==
  ASSUME NEW policy \in Policies, NEW now \in Int
  PROVE  Restarted(<<>>, policy, now) = <<>>
<1> DEFINE h == <<>>
           r == Restarted(h, policy, now)
<1>1. h \in Seq(RunRecords(SampleTexts)) /\ Len(h) = 0 /\ DOMAIN h = {} OBVIOUS
<1>2. Consecutive(h) BY <1>1 DEF Consecutive
<1>3. RunStatuses \subseteq SampleTexts BY DEF SampleTexts
<1> HIDE DEF h
<1>4. PICK n \in 0..Len(h) : KeepsFirst(SampleTexts, h, policy, now, n)
  BY <1>1, <1>2, <1>3, RestartedIsAPrefix
<1>5. r \in Seq(RunRecords(SampleTexts)) /\ Len(r) = 0 BY <1>1, <1>4 DEF KeepsFirst
<1> HIDE DEF r
<1>6. r = <<>> BY <1>5
<1> QED BY <1>6 DEF r, h

(* A task is among the dependents of every task that one of its             *)
(* dependencies names.                                                      *)
LEMMA TargetsHaveDependents ==
  ASSUME NEW tasks, NEW me \in tasks, NEW i \in DOMAIN me.ds,
         me.ds[i].id # "" \/ me.ds[i].slug # "",
         NEW t \in Targets(tasks, me.ds[i]), t # me
  PROVE  me \in Dependents(tasks, t)
BY DEF Targets, Dependents

(* HistoryServesDependencies, in every state.                               *)
THEOREM HistoryServesDependenciesTheorem == Spec => []HistoryServesDependencies
<1>1. HistoryServesDependencies
  <2> SUFFICES ASSUME NEW h \in SampleHistories, NEW policy \in SamplePolicies
               PROVE  LET restarted == Restarted(h, policy, Now)
                          completed == [id \in {"t1", "t2", "t3"} |-> IF id = "t1" THEN h ELSE <<>>]
                          histories == [id \in {"t1", "t2", "t3"} |-> IF id = "t1" THEN restarted ELSE <<>>] IN
      /\ Shown(restarted) = Shown(Retained(h, policy, Now))
      /\ Shown(Retained(restarted, policy, Now)) = Shown(restarted)
      /\ \A d, e \in SampleDependencies, other \in {"t0", "up"} :
           LET me == TaskOf("t3", "me", <<d, e>>)
               tasks == {TaskOf("t1", "up", <<>>), TaskOf("t2", other, <<>>), me}
               gate == Gate(tasks, histories, me.ds, Now)
               good(x) == Satisfied(tasks, x, completed, policy, Now) IN
           /\ gate = IF ~good(d) THEN Verdict(d) ELSE IF ~good(e) THEN Verdict(e) ELSE NoStatus
           /\ (Report(tasks, histories, me.ds, Now) = "unhealthy") = (gate # NoStatus)
           /\ \A x \in {d, e} : \A t \in Targets(tasks, x) : me \in Dependents(tasks, t)
    BY DEF HistoryServesDependencies
  <2> DEFINE Ids == {"t1", "t2", "t3"}
             restarted == Restarted(h, policy, Now)
             completed == [id \in Ids |-> IF id = "t1" THEN h ELSE <<>>]
             histories == [id \in Ids |-> IF id = "t1" THEN restarted ELSE <<>>]
  <2>1. h \in Seq(RunRecords(SampleTexts)) /\ Consecutive(h) BY SampleHistoriesFollow
  <2>2. policy \in Policies BY SamplePoliciesFit
  <2>3. RunStatuses \subseteq SampleTexts BY DEF SampleTexts
  <2>4. Now \in Int BY DEF Now
  <2>5. /\ Shown(restarted) = Shown(Retained(h, policy, Now))
        /\ Shown(Retained(restarted, policy, Now)) = Shown(restarted)
    BY <2>1, <2>2, <2>3, <2>4, RestartShowsWhatWasKept
  <2>6. completed \in [Ids -> Seq(RunRecords(SampleTexts))]
    <3>1. <<>> \in Seq(RunRecords(SampleTexts)) OBVIOUS
    <3> QED BY <2>1, <3>1
  <2>7. \A id \in Ids : Consecutive(completed[id])
    <3>1. Consecutive(<<>>)
      <4>1. DOMAIN <<>> = {} OBVIOUS
      <4> QED BY <4>1 DEF Consecutive
    <3> QED BY <2>1, <3>1
  <2>8. histories = [id \in Ids |-> Restarted(completed[id], policy, Now)]
    <3>1. Restarted(<<>>, policy, Now) = <<>> BY <2>2, <2>4, NothingToRestart
    <3>2. ASSUME NEW id \in Ids PROVE histories[id] = Restarted(completed[id], policy, Now)
      <4>1. CASE id = "t1"
        <5>1. completed[id] = h /\ histories[id] = restarted BY <4>1
        <5> HIDE DEF completed, histories
        <5> QED BY <5>1
      <4>2. CASE id # "t1"
        <5>1. completed[id] = <<>> /\ histories[id] = <<>> BY <4>2
        <5> HIDE DEF completed, histories
        <5> QED BY <3>1, <5>1
      <4> QED BY <4>1, <4>2
    <3>3. histories = [id \in Ids |-> histories[id]] OBVIOUS
    <3> HIDE DEF histories, completed
    <3> QED BY <3>2, <3>3
  <2> HIDE DEF restarted, completed, histories
  <2>9. ASSUME NEW d \in SampleDependencies, NEW e \in SampleDependencies,
               NEW other \in {"t0", "up"}
        PROVE  LET me == TaskOf("t3", "me", <<d, e>>)
                   tasks == {TaskOf("t1", "up", <<>>), TaskOf("t2", other, <<>>), me}
                   gate == Gate(tasks, histories, me.ds, Now)
                   good(x) == Satisfied(tasks, x, completed, policy, Now) IN
               /\ gate = IF ~good(d) THEN Verdict(d) ELSE IF ~good(e) THEN Verdict(e) ELSE NoStatus
               /\ (Report(tasks, histories, me.ds, Now) = "unhealthy") = (gate # NoStatus)
               /\ \A x \in {d, e} : \A t \in Targets(tasks, x) : me \in Dependents(tasks, t)
    <3> DEFINE me == TaskOf("t3", "me", <<d, e>>)
               tasks == {TaskOf("t1", "up", <<>>), TaskOf("t2", other, <<>>), me}
               good(x) == Satisfied(tasks, x, completed, policy, Now)
    <3>1. me.id = "t3" /\ me.slug = "me" /\ me.ds = <<d, e>> BY DEF TaskOf
    <3>2. \A t \in tasks : t.id \in Ids BY DEF TaskOf
    <3>3. \A x \in SampleDependencies :
            /\ x.maxAge \in Int /\ (x.id # "" \/ x.slug # "")
            /\ x.id # "t3" /\ (x.id = "" => x.slug # "me")
      BY SampleDependenciesFit
    <3>4. me \in tasks OBVIOUS
    <3> HIDE DEF me, tasks, Ids
    <3>5. ASSUME NEW x \in SampleDependencies
          PROVE  Healthy(tasks, histories, x, Now) <=> good(x)
      <4>1. x.maxAge \in Int BY <3>3
      <4>2. Healthy(tasks, [id \in Ids |-> Restarted(completed[id], policy, Now)], x, Now)
              <=> Satisfied(tasks, x, completed, policy, Now)
        BY <2>2, <2>3, <2>4, <2>6, <2>7, <3>2, <4>1, DependenciesSeeTheLatestRun
      <4> QED BY <2>8, <4>2
    <3> HIDE DEF good
    <3>6. Gate(tasks, histories, <<d, e>>, Now)
            = IF ~good(d) THEN Verdict(d) ELSE IF ~good(e) THEN Verdict(e) ELSE NoStatus
      BY <3>5, GateOfTwo
    <3>7. (Report(tasks, histories, <<d, e>>, Now) = "unhealthy")
            = (Gate(tasks, histories, <<d, e>>, Now) # NoStatus)
      BY ReportAgreesWithGate
    <3>8. ASSUME NEW x \in {d, e}, NEW t \in Targets(tasks, x) PROVE me \in Dependents(tasks, t)
      <4>1. PICK i \in {1, 2} : x = <<d, e>>[i] OBVIOUS
      <4>2. i \in DOMAIN me.ds /\ me.ds[i] = x BY <3>1, <4>1
      <4>3. t # me BY <3>1, <3>3 DEF Targets
      <4> QED BY <3>3, <3>4, <4>2, <4>3, TargetsHaveDependents
    <3> QED BY <3>1, <3>6, <3>7, <3>8 DEF me, tasks, good
  <2> QED BY <2>5, <2>9 DEF restarted, completed, histories
<1> QED BY <1>1, PTL

-------------------------------------------------------------------------------
(* Type correctness                                                         *)

(* Where a goroutine of each kind may be.                                   *)
PlacesOf(c) ==
  IF c \in Handlers THEN {"idle", "kill", "reload", "changed"}
  ELSE IF c \in RunIds THEN RunPositions
  ELSE IF c \in TaskIds THEN {"idle", "setup", "settled"}
  ELSE {"down", "cleaning", "restoring", "restored", "begun", "serving"}

InPlace(f) == f \in [Goroutines -> Places] /\ \A c \in Goroutines : f[c] \in PlacesOf(c)

(* The types no other invariant needs.                                      *)
OtherTypes ==
  /\ stale \subseteq RunIds
  /\ used \subseteq TaskIds
  /\ todo \subseteq TaskIds
  /\ crashes \in 0..MaxCrashes
  /\ acknowledged \subseteq TaskIds \cup RunIds
  /\ wanted \subseteq TaskIds
  /\ unlisted \subseteq RunIds
  /\ missed \subseteq RunIds

TInv == InPlace(pc) /\ OtherTypes

LEMMA PlacesByKind ==
  /\ \A h \in Handlers : PlacesOf(h) = {"idle", "kill", "reload", "changed"}
  /\ \A r \in RunIds : PlacesOf(r) = RunPositions
  /\ \A t \in TaskIds : PlacesOf(t) = {"idle", "setup", "settled"}
  /\ PlacesOf(Main) = {"down", "cleaning", "restoring", "restored", "begun", "serving"}
BY DisjointIds, Zenon DEF PlacesOf

LEMMA AllInPlace ==
  ASSUME NEW f \in [Goroutines -> Places], NEW c \in Goroutines, NEW to \in PlacesOf(c),
         InPlace(f)
  PROVE  InPlace([f EXCEPT ![c] = to])
<1>1. to \in Places
  BY DEF PlacesOf, Places, SavePoints, RunPositions
<1> QED
  BY <1>1 DEF InPlace

LEMMA SetupInPlace ==
  ASSUME NEW f, InPlace(f), NEW t \in TaskIds
  PROVE  InPlace(StartSetup(t, f))
<1>1. f \in [Goroutines -> Places] /\ t \in Goroutines /\ "setup" \in PlacesOf(t)
  BY GoroutineFacts, PlacesByKind DEF InPlace
<1>2. InPlace([f EXCEPT ![t] = "setup"])
  BY <1>1, AllInPlace
<1> QED
  BY <1>2 DEF StartSetup

LEMMA AfterInPlace ==
  ASSUME InPlace(pc), NEW c \in Goroutines, pc[c] \in SavePoints
  PROVE  After(pc[c]) \in PlacesOf(c)
<1>1. pc[c] \in PlacesOf(c)
  BY DEF InPlace
<1>2. CASE c \in Handlers
  BY <1>1, <1>2, PlacesByKind DEF After, SavePoints
<1>3. CASE c \in RunIds
  BY <1>1, <1>3, PlacesByKind DEF After, SavePoints, RunPositions
<1>4. CASE c \in TaskIds
  BY <1>1, <1>4, PlacesByKind DEF After, SavePoints
<1>5. CASE c = Main
  BY <1>1, <1>5, PlacesByKind DEF After, SavePoints
<1> QED
  BY <1>2, <1>3, <1>4, <1>5 DEF Goroutines

LEMMA TypeInit == Init => TInv
<1> SUFFICES ASSUME Init PROVE TInv
  OBVIOUS
<1>1. ASSUME NEW c \in Goroutines PROVE pc[c] \in PlacesOf(c)
  BY <1>1, PlacesByKind, DisjointIds DEF Init, Goroutines, RunPositions
<1>2. pc \in [Goroutines -> Places]
  BY DEF Init, Places
<1> QED
  BY <1>1, <1>2, ConstantsAssumption DEF TInv, InPlace, OtherTypes, Init

LEMMA SavesKeepTypes ==
  ASSUME DInv, TInv, NEW c \in Goroutines, BeginSave(c) \/ Saved(c) \/ SaveFails(c)
  PROVE  TInv'
<1> USE DEF TInv, OtherTypes
<1>1. mem \in State /\ (snap[c] # None => pc[c] \in SavePoints) /\ pc \in [Goroutines -> Places]
  BY DEF DInv, SaveTypes, SaversAreAwake
<1>2. CASE BeginSave(c)
  BY <1>2 DEF BeginSave, runVars, requestVars, startVars, ghostVars, InPlace
<1>3. ASSUME snap[c] # None, pc' = [pc EXCEPT ![c] = After(@)] PROVE InPlace(pc')
  <2>1. pc' = [pc EXCEPT ![c] = After(pc[c])] /\ After(pc[c]) \in PlacesOf(c)
    BY <1>1, <1>3, AfterInPlace
  <2> QED
    BY <1>1, <2>1, AllInPlace
<1>4. CASE Saved(c)
  <2>1. Learned(c) \subseteq TaskIds \cup RunIds
    BY <1>1 DEF Learned, State
  <2>2. InPlace(pc')
    BY <1>3, <1>4 DEF Saved
  <2> QED
    BY <1>4, <2>1, <2>2 DEF Saved, runVars, startVars
<1>5. CASE SaveFails(c)
  <2>1. pc[c] = "recorded" => c \in RunIds
    <3>1. pc[c] \in PlacesOf(c)
      BY DEF InPlace
    <3> QED
      BY <3>1 DEF PlacesOf
  <2>2. InPlace(pc')
    BY <1>3, <1>5 DEF SaveFails
  <2> QED
    BY <1>5, <2>1, <2>2 DEF SaveFails, runVars, startVars
<1> QED
  BY <1>2, <1>4, <1>5

LEMMA MoveInPlace ==
  ASSUME TInv, NEW c \in Goroutines, NEW from, NEW to \in PlacesOf(c), Goto(c, from, to)
  PROVE  InPlace(pc')
<1>1. pc \in [Goroutines -> Places] /\ pc' = [pc EXCEPT ![c] = to]
  BY DEF TInv, InPlace, Goto
<1> QED
  BY <1>1, AllInPlace DEF TInv

LEMMA HandlersKeepTypes ==
  ASSUME DInv, TInv, NEW h \in Handlers, HandlerNext(h)
  PROVE  TInv'
<1> DEFINE f == [pc EXCEPT ![h] = "changed"]
<1>1. h \in Goroutines /\ PlacesOf(h) = {"idle", "kill", "reload", "changed"}
  BY GoroutineFacts, PlacesByKind
<1>2. InPlace(f)
  <2>1. pc \in [Goroutines -> Places]
    BY DEF TInv, InPlace
  <2> QED
    BY <1>1, <2>1, AllInPlace DEF TInv
<1> HIDE DEF f
<1>3. ASSUME NEW t \in TaskIds, ImportTask(h, t) PROVE TInv'
  <2>1. pc' = StartSetup(t, f)
    BY <1>3 DEF ImportTask, f
  <2>2. OtherTypes'
    BY <1>3 DEF ImportTask, TInv, OtherTypes, runVars, startVars, ghostVars
  <2> QED
    BY <1>2, <2>1, <2>2, SetupInPlace DEF TInv
<1>4. ASSUME NEW t \in TaskIds, ReloadRead(h, t) PROVE TInv'
  <2>1. OtherTypes'
    BY <1>4 DEF ReloadRead, TInv, OtherTypes, runVars, startVars, ghostVars
  <2> QED
    BY <1>1, <1>4, <2>1, MoveInPlace DEF ReloadRead, TInv
<1>5. ASSUME NEW t \in TaskIds, RemoveTask(h, t) PROVE TInv'
  <2>1. OtherTypes'
    BY <1>5 DEF RemoveTask, TInv, OtherTypes, RunsOf, startVars
  <2> QED
    BY <1>1, <1>5, <2>1, MoveInPlace DEF RemoveTask, TInv
<1>6. CASE ReloadImport(h)
  <2>1. pc' = StartSetup(request[h], f) /\ request[h] \in TaskIds
    BY <1>6 DEF ReloadImport, f, DInv, SaveTypes, ReloadsHaveATask
  <2>2. OtherTypes'
    BY <1>6 DEF ReloadImport, TInv, OtherTypes, runVars, requestVars, startVars, ghostVars
  <2> QED
    BY <1>2, <2>1, <2>2, SetupInPlace DEF TInv
<1>7. CASE ReloadFails(h)
  <2>1. OtherTypes'
    BY <1>7 DEF ReloadFails, TInv, OtherTypes, runVars, startVars, ghostVars
  <2> QED
    BY <1>1, <1>7, <2>1, MoveInPlace DEF ReloadFails, TInv
<1>8. CASE KillVictims(h)
  <2>1. OtherTypes'
    BY <1>8 DEF KillVictims, TInv, OtherTypes, startVars, ghostVars
  <2> QED
    BY <1>1, <1>8, <2>1, MoveInPlace DEF KillVictims, TInv
<1> QED
  BY <1>3, <1>4, <1>5, <1>6, <1>7, <1>8 DEF HandlerNext

LEMMA RunsKeepTypes ==
  ASSUME TInv, NEW r \in RunIds, RunNext(r)
  PROVE  TInv'
<1>1. OtherTypes'
  BY DEF RunNext, StartRun, RecordActiveRun, CleanUpStaleRun, ScriptEnds, ClearActiveRun,
         StoreRecord, TInv, OtherTypes, runVars, requestVars, startVars, ghostVars
<1>2. r \in Goroutines /\ PlacesOf(r) = RunPositions
  BY GoroutineFacts, PlacesByKind
<1>3. \/ pc' = pc
      \/ \E from, to \in RunPositions : Goto(r, from, to)
  BY DEF RunNext, StartRun, RecordActiveRun, CleanUpStaleRun, ScriptEnds, ClearActiveRun,
         StoreRecord, RunPositions
<1>4. InPlace(pc')
  BY <1>2, <1>3, MoveInPlace DEF TInv
<1> QED
  BY <1>1, <1>4 DEF TInv

LEMMA OthersKeepTypes ==
  ASSUME DInv, AInv, TInv, Crash \/ RestoreNext \/ \E t \in TaskIds : SetupSettles(t)
  PROVE  TInv'
<1>1. disk \in State /\ alive \subseteq RunIds /\ InPlace(pc) /\ OtherTypes
  BY DEF DInv, SaveTypes, AInv, ScriptTypes, TInv
<1>2. /\ Main \in Goroutines
      /\ PlacesOf(Main) = {"down", "cleaning", "restoring", "restored", "begun", "serving"}
  BY GoroutineFacts, PlacesByKind
<1>3. CASE Crash
  <2>1. ASSUME NEW c \in Goroutines PROVE pc'[c] \in PlacesOf(c)
    <3>1. pc[c] \in PlacesOf(c)
      BY <1>1 DEF InPlace
    <3>2. pc'[c] = CASE c = Main     -> "down"
                     [] c \in RunIds -> IF InProgress(c) THEN "gone" ELSE pc[c]
                     [] OTHER        -> "idle"
      BY <1>3 DEF Crash
    <3>3. CASE c \in RunIds
      BY <3>1, <3>2, <3>3, PlacesByKind, DisjointIds DEF RunPositions
    <3>4. CASE c \in Handlers \cup TaskIds
      BY <3>2, <3>4, PlacesByKind, DisjointIds
    <3>5. CASE c = Main
      BY <1>2, <3>2, <3>5, DisjointIds
    <3> QED
      BY <3>3, <3>4, <3>5 DEF Goroutines
  <2>2. pc' \in [Goroutines -> Places]
    <3>1. DOMAIN pc' = Goroutines /\ pc' = [c \in Goroutines |-> pc'[c]]
      BY <1>3 DEF Crash
    <3>2. \A c \in Goroutines : PlacesOf(c) \subseteq Places
      BY DEF PlacesOf, Places, SavePoints, RunPositions
    <3> QED
      BY <2>1, <3>1, <3>2
  <2>3. crashes' \in 0..MaxCrashes
    BY <1>1, <1>3, ConstantsAssumption DEF Crash, OtherTypes
  <2>4. OtherTypes'
    BY <1>1, <1>3, <2>3 DEF Crash, OtherTypes
  <2> QED
    BY <2>1, <2>2, <2>4 DEF TInv, InPlace
<1>4. ASSUME NEW t \in TaskIds, SetupSettles(t) PROVE TInv'
  <2>1. t \in Goroutines /\ PlacesOf(t) = {"idle", "setup", "settled"}
    BY GoroutineFacts, PlacesByKind
  <2>2. OtherTypes'
    BY <1>1, <1>4 DEF SetupSettles, OtherTypes, runVars, requestVars, startVars, ghostVars
  <2> QED
    BY <1>4, <2>1, <2>2, MoveInPlace DEF SetupSettles, TInv
<1>5. CASE Load
  <2>1. OtherTypes'
    BY <1>1, <1>5 DEF Load, OtherTypes, runVars, requestVars, State
  <2> QED
    BY <1>2, <1>5, <2>1, MoveInPlace DEF Load, TInv
<1>6. CASE LoadFails
  <2>1. OtherTypes'
    BY <1>1, <1>6 DEF LoadFails, OtherTypes, runVars, requestVars, startVars
  <2> QED
    BY <1>2, <1>6, <2>1, MoveInPlace DEF LoadFails, TInv
<1>7. ASSUME NEW r \in RunIds, CleanListedRun(r) PROVE TInv'
  BY <1>1, <1>7 DEF CleanListedRun, OtherTypes, TInv, InPlace, requestVars, ghostVars
<1>8. ASSUME NEW t \in TaskIds, RestoreTask(t) PROVE TInv'
  <2>1. pc' = StartSetup(t, pc)
    BY <1>8 DEF RestoreTask
  <2>2. OtherTypes'
    BY <1>1, <1>8 DEF RestoreTask, OtherTypes, runVars, requestVars, ghostVars
  <2> QED
    BY <1>1, <2>1, <2>2, SetupInPlace DEF TInv
<1>9. ASSUME NEW t \in TaskIds, RestoreFails(t) PROVE TInv'
  BY <1>1, <1>9 DEF RestoreFails, OtherTypes, TInv, InPlace, runVars, requestVars, ghostVars
<1>10. CASE RestoreEnds
  <2>1. OtherTypes'
    BY <1>1, <1>10 DEF RestoreEnds, OtherTypes, runVars, requestVars, startVars, ghostVars
  <2> QED
    BY <1>2, <1>10, <2>1, MoveInPlace DEF RestoreEnds, TInv
<1> QED
  BY <1>3, <1>4, <1>5, <1>6, <1>7, <1>8, <1>9, <1>10 DEF RestoreNext

(* Every variable keeps its type, and every goroutine is at a place of its  *)
(* kind, also after crashes and restarts.                                   *)
THEOREM TypeCorrect == Spec => []TypeOK
<1>1. DInv /\ AInv /\ TInv /\ [Next]_vars => TInv'
  <2> SUFFICES ASSUME DInv, AInv, TInv, [Next]_vars PROVE TInv'
    OBVIOUS
  <2>1. CASE UNCHANGED vars
    BY <2>1 DEF vars, TInv, InPlace, OtherTypes
  <2> QED
    BY <2>1, SavesKeepTypes, HandlersKeepTypes, RunsKeepTypes, OthersKeepTypes DEF Next
<1>2. DInv /\ AInv /\ LiveInv /\ TInv => TypeOK
  BY GoroutineFacts, PlacesByKind
  DEF DInv, SaveTypes, SaversAreAwake, AInv, ScriptTypes, LiveInv, TInv, InPlace, OtherTypes,
      TypeOK
<1> QED
  BY <1>1, <1>2, InitAInv, StepKeepsScripts, InitShows, StepShows, TypeInit,
     DurabilityInvariant, PTL DEF Spec
===============================================================================
