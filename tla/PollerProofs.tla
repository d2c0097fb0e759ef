------------------------------ MODULE PollerProofs ------------------------------
(***************************************************************************)
(* The life cycle of the polling loops, for any number of callers, profile *)
(* changes, updates and crashes.                                           *)
(***************************************************************************)
EXTENDS Poller, FiniteSetTheorems, WellFoundedInduction, TLAPS

LoopPositions == {"none", "top", "polling", "batch", "handling", "ended"}

(* The types the argument needs.                                            *)
LifeTypes ==
  /\ running \in BOOLEAN
  /\ pc \in [Callers -> Positions]
  /\ started \in 0..MaxLoops
  /\ current \in 0..started
  /\ captured \in [Callers -> 0..started]
  /\ loop \in [Loops -> LoopPositions]

(* A loop that was started once is never launched a second time.            *)
StartedOnce == \A l \in Loops : l <= started => loop[l] # "none"

LInv == LifeTypes /\ StartedOnce /\ StopEndsItsLoop

(* Start sets cancel when it is nil, and nothing else does.                 *)
CancelInv == ~running => current = 0

-------------------------------------------------------------------------------
LEMMA Bounds == MaxLoops \in Nat /\ 1 \in Loops
BY ConstantsAssumption DEF MaxLoops, Loops

(* What any step of a loop does to the loops: none comes back to life, and  *)
(* no caller moves to where Stop has waited.                                *)
LEMMA LoopStepFacts ==
  ASSUME LifeTypes, NEW l \in Loops, LoopStep(l)
  PROVE  /\ UNCHANGED <<running, current, captured, started>>
         /\ loop' \in [Loops -> LoopPositions]
         /\ \A k \in Loops : (loop[k] # "none" => loop'[k] # "none") /\ (Alive(k)' => Alive(k))
         /\ pc' \in [Callers -> Positions]
         /\ \A c \in Callers : pc'[c] = pc[c] \/ pc'[c] = "released"
<1>1. PICK from \in {"top", "polling", "batch", "handling"},
           to \in {"top", "polling", "batch", "handling", "ended"} : LoopGoto(l, from, to)
  BY DEF LoopStep, LoopEnds, BeginPoll, GetUpdates, GetUpdatesFails, TakeUpdate, HandleUpdate
<1>2. loop[l] = from /\ loop' = [loop EXCEPT ![l] = to]
  BY <1>1 DEF LoopGoto
<1>3. /\ loop' \in [Loops -> LoopPositions]
      /\ \A k \in Loops : (loop[k] # "none" => loop'[k] # "none") /\ (Alive(k)' => Alive(k))
  BY <1>2 DEF LifeTypes, LoopPositions, Alive
<1>4. UNCHANGED <<running, current, captured, started>>
  BY DEF LoopStep, LoopEnds, BeginPoll, GetUpdates, GetUpdatesFails, TakeUpdate, HandleUpdate,
         lifeVars
<1>5. \/ pc' = pc
      \/ pc' = [c \in Callers |-> IF pc[c] = "waiting" THEN "released" ELSE pc[c]]
  BY DEF LoopStep, LoopEnds, BeginPoll, GetUpdates, GetUpdatesFails, TakeUpdate, HandleUpdate,
         lifeVars
<1>6. /\ pc' \in [Callers -> Positions]
      /\ \A c \in Callers : pc'[c] = pc[c] \/ pc'[c] = "released"
  BY <1>5 DEF LifeTypes, Positions
<1> QED
  BY <1>3, <1>4, <1>6

(* A process begins with one loop at most, and nobody in Stop.              *)
LEMMA FreshProcess ==
  ASSUME NEW w \in BOOLEAN,
         running' = w,
         current' = IF w THEN 1 ELSE 0,
         pc' = [c \in Callers |-> "idle"],
         captured' = [c \in Callers |-> 0],
         started' = IF w THEN 1 ELSE 0,
         loop' = [l \in Loops |-> IF w /\ l = 1 THEN "top" ELSE "none"]
  PROVE  LInv' /\ OneLoop' /\ CancelInv'
<1>1. LifeTypes'
  BY Bounds DEF LifeTypes, Loops, Positions, LoopPositions
<1>2. StartedOnce' /\ StopEndsItsLoop'
  BY Bounds DEF StartedOnce, StopEndsItsLoop, Loops
<1>3. OneLoop' /\ CancelInv'
  BY DEF OneLoop, CancelInv, Live, Alive
<1> QED
  BY <1>1, <1>2, <1>3 DEF LInv

-------------------------------------------------------------------------------
(* Each step of a caller keeps LInv.                                        *)
LEMMA CallerSteps ==
  ASSUME LInv, NEW c \in Callers,
         CallerStep(c) \/ Shutdown(c) \/ \E w \in BOOLEAN : ChangeProfiles(c, w)
  PROVE  LInv'
<1> USE Bounds DEF LInv, LifeTypes, Goto
<1>1. CASE Shutdown(c) \/ \E w \in BOOLEAN : ChangeProfiles(c, w)
  <2>1. pc' = [pc EXCEPT ![c] = "stop"] /\ UNCHANGED <<running, current, captured, started, loop>>
    BY <1>1 DEF Shutdown, ChangeProfiles
  <2> QED
    BY <2>1 DEF Positions, StartedOnce, StopEndsItsLoop, Alive
<1>2. CASE StopReads(c)
  <2>1. LifeTypes'
    BY <1>2 DEF StopReads, Positions
  <2> QED
    BY <1>2, <2>1 DEF StopReads, StartedOnce, StopEndsItsLoop, Alive
<1>3. CASE StopCancels(c)
  BY <1>3 DEF StopCancels, Positions, StartedOnce, StopEndsItsLoop, Alive
<1>4. CASE StopWaits(c) \/ WaitReturns(c)
  <2>1. PICK to \in {"finish", "waiting", "panicked"} :
          pc' = [pc EXCEPT ![c] = to] /\ (to = "finish" => Live = {})
    BY <1>4 DEF StopWaits, WaitReturns
  <2>2. UNCHANGED <<running, current, captured, started, loop>>
    BY <1>4 DEF StopWaits, WaitReturns
  <2>3. LifeTypes' /\ StartedOnce'
    BY <2>1, <2>2 DEF Positions, StartedOnce
  <2>4. ASSUME NEW d \in Callers, pc'[d] \in {"finish", "stopped"}, captured[d] # 0
        PROVE  ~Alive(captured[d])
    <3>1. captured[d] \in Loops
      BY <2>4 DEF Loops
    <3> QED
      BY <2>1, <2>4, <3>1 DEF StopEndsItsLoop, Live
  <2> QED
    BY <2>2, <2>3, <2>4 DEF StopEndsItsLoop, Alive
<1>5. CASE StopFinishes(c)
  <2>1. /\ pc[c] = "finish" /\ pc' = [pc EXCEPT ![c] = "stopped"]
        /\ current' = 0 /\ running' = FALSE
        /\ UNCHANGED <<captured, started, loop>>
    BY <1>5 DEF StopFinishes
  <2>2. pc' \in [Callers -> Positions] /\ running' \in BOOLEAN
    BY <2>1 DEF Positions
  <2>3. current' \in 0..started' /\ started' \in 0..MaxLoops
    BY <2>1
  <2>4. LifeTypes' /\ StartedOnce'
    BY <2>1, <2>2, <2>3 DEF StartedOnce
  <2>5. ASSUME NEW d \in Callers, pc'[d] \in {"finish", "stopped"}, captured[d] # 0
        PROVE  ~Alive(captured[d])
    BY <2>1, <2>5 DEF StopEndsItsLoop
  <2> QED
    BY <2>1, <2>4, <2>5 DEF StopEndsItsLoop, Alive
<1>6. CASE StopReturns(c)
  <2>1. PICK to \in {"start", "idle", "exit"} : pc' = [pc EXCEPT ![c] = to]
    BY <1>6 DEF StopReturns
  <2>2. /\ UNCHANGED <<running, current, started, loop>>
        /\ captured' = [captured EXCEPT ![c] = 0]
    BY <1>6 DEF StopReturns
  <2> QED
    BY <2>1, <2>2 DEF Positions, StartedOnce, StopEndsItsLoop, Alive
<1>7. CASE Start(c)
  <2>1. CASE running
    BY <1>7, <2>1 DEF Start, Positions, StartedOnce, StopEndsItsLoop, Alive
  <2>2. CASE ~running
    <3>1. /\ pc' = [pc EXCEPT ![c] = "idle"] /\ captured' = captured
          /\ started < MaxLoops /\ started' = started + 1 /\ current' = started + 1
          /\ running' = TRUE
          /\ loop' = [loop EXCEPT ![started + 1] = "top"]
      BY <1>7, <2>2 DEF Start
    <3>2. started + 1 \in Loops
      BY <3>1 DEF Loops
    <3>3. LifeTypes'
      BY <3>1, <3>2 DEF Positions, LoopPositions
    <3>4. StartedOnce'
      BY <3>1, <3>2 DEF StartedOnce, Loops
    <3>5. StopEndsItsLoop'
      BY <3>1, <3>2 DEF StopEndsItsLoop, Alive, Loops
    <3> QED
      BY <3>3, <3>4, <3>5
  <2> QED
    BY <2>1, <2>2
<1> QED
  BY <1>1, <1>2, <1>3, <1>4, <1>5, <1>6, <1>7 DEF CallerStep

LEMMA LoopSteps ==
  ASSUME LInv, NEW l \in Loops, LoopStep(l)
  PROVE  LInv'
<1> USE DEF LInv
<1>1. /\ UNCHANGED <<running, current, captured, started>>
      /\ loop' \in [Loops -> LoopPositions]
      /\ \A k \in Loops : (loop[k] # "none" => loop'[k] # "none") /\ (Alive(k)' => Alive(k))
      /\ pc' \in [Callers -> Positions]
      /\ \A c \in Callers : pc'[c] = pc[c] \/ pc'[c] = "released"
  BY LoopStepFacts
<1>2. LifeTypes' /\ StartedOnce'
  BY <1>1 DEF LifeTypes, StartedOnce
<1>3. ASSUME NEW c \in Callers, pc'[c] \in {"finish", "stopped"}, captured'[c] # 0
      PROVE  ~Alive(captured[c])'
  <2>1. captured[c] \in Loops
    BY <1>1, <1>3, Bounds DEF LifeTypes, Loops
  <2> QED
    BY <1>1, <1>3, <2>1 DEF StopEndsItsLoop, Alive
<1> QED
  BY <1>2, <1>3 DEF StopEndsItsLoop

(* The invariant holds in every reachable state.                            *)
THEOREM LoopInvariant == Spec => []LInv
<1>1. Init => LInv
  <2> SUFFICES ASSUME Init PROVE LInv
    OBVIOUS
  <2>1. LifeTypes
    BY Bounds DEF Init, LifeTypes, Loops, Positions, LoopPositions
  <2> QED
    BY <2>1, Bounds DEF Init, LInv, StartedOnce, StopEndsItsLoop, Loops
<1>2. LInv /\ [Next]_vars => LInv'
  <2> SUFFICES ASSUME LInv, [Next]_vars PROVE LInv'
    OBVIOUS
  <2>1. CASE \E c \in Callers : \/ CallerStep(c) \/ Shutdown(c)
                                \/ \E w \in BOOLEAN : ChangeProfiles(c, w)
    BY <2>1, CallerSteps
  <2>2. CASE \E l \in Loops : LoopStep(l)
    BY <2>2, LoopSteps
  <2>3. CASE Send
    BY <2>3 DEF Send, lifeVars, LInv, LifeTypes, StartedOnce, StopEndsItsLoop, Alive
  <2>4. CASE Crash
    BY <2>4, FreshProcess DEF Crash
  <2>5. CASE UNCHANGED vars
    BY <2>5 DEF vars, LInv, LifeTypes, StartedOnce, StopEndsItsLoop, Alive
  <2> QED
    BY <2>1, <2>2, <2>3, <2>4, <2>5 DEF Next
<1> QED
  BY <1>1, <1>2, PTL DEF Spec

(* Whoever else is in Start, Stop or Restart meanwhile, and whatever loops  *)
(* they start: the loop a call of Stop found has ended when it resets       *)
(* Poller.running.                                                          *)
THEOREM StopEndsItsLoopTheorem == Spec => []StopEndsItsLoop
<1>1. LInv => StopEndsItsLoop
  BY DEF LInv
<1> QED
  BY <1>1, LoopInvariant, PTL

-------------------------------------------------------------------------------
(* Which loops can live                                                     *)

LEMMA OneLoopCallerSteps ==
  ASSUME LInv, OneLoop, CancelInv, NEW c \in Callers,
         CallerStep(c) \/ Shutdown(c) \/ \E w \in BOOLEAN : ChangeProfiles(c, w)
  PROVE  OneLoop' /\ CancelInv'
<1> USE Bounds DEF LInv, LifeTypes
<1>1. CASE StopFinishes(c)
  <2>1. /\ pc[c] = "finish" /\ current' = 0 /\ running' = FALSE
        /\ orphans' = orphans \cup ({current} \ {0, captured[c]})
        /\ UNCHANGED loop
    BY <1>1 DEF StopFinishes, Goto
  <2>2. ASSUME NEW l \in Loops, Alive(l) PROVE l \in orphans'
    <3>1. l # 0 /\ (l = current \/ l \in orphans)
      BY <2>2 DEF OneLoop, Live, Loops
    <3>2. l # captured[c]
      BY <2>1, <2>2, <3>1 DEF StopEndsItsLoop
    <3> QED
      BY <2>1, <3>1, <3>2
  <2> QED
    BY <2>1, <2>2 DEF OneLoop, CancelInv, Live, Alive
<1>2. CASE Start(c) /\ ~running
  <2>1. /\ running' = TRUE /\ current' = started + 1 /\ UNCHANGED orphans
        /\ loop' = [loop EXCEPT ![started + 1] = "top"]
    BY <1>2 DEF Start
  <2>2. current = 0
    BY <1>2 DEF CancelInv
  <2>3. ASSUME NEW l \in Loops, Alive(l)' PROVE l = current' \/ l \in orphans'
    <3>1. CASE l = started + 1
      BY <2>1, <3>1
    <3>2. CASE l # started + 1
      <4>1. Alive(l) /\ l # 0
        BY <2>1, <2>3, <3>2 DEF Alive, Loops
      <4> QED
        BY <2>1, <2>2, <4>1 DEF OneLoop, Live
    <3> QED
      BY <3>1, <3>2
  <2> QED
    BY <2>1, <2>3 DEF OneLoop, CancelInv, Live
<1>3. ASSUME ~StopFinishes(c), ~(Start(c) /\ ~running)
      PROVE  UNCHANGED <<running, current, orphans, loop>>
  <2>0. \/ StopReads(c) \/ StopCancels(c) \/ StopWaits(c) \/ WaitReturns(c) \/ StopReturns(c)
        \/ (Start(c) /\ running) \/ Shutdown(c) \/ \E w \in BOOLEAN : ChangeProfiles(c, w)
    BY <1>3 DEF CallerStep
  <2> QED
    BY <2>0 DEF StopReads, StopCancels, StopWaits, WaitReturns, StopReturns, Start, Shutdown,
                ChangeProfiles
<1> QED
  BY <1>1, <1>2, <1>3 DEF OneLoop, CancelInv, Live, Alive

LEMMA OneLoopLoopSteps ==
  ASSUME LInv, OneLoop, CancelInv, NEW l \in Loops, LoopStep(l)
  PROVE  OneLoop' /\ CancelInv'
<1>1. /\ UNCHANGED <<running, current>>
      /\ \A k \in Loops : Alive(k)' => Alive(k)
  BY LoopStepFacts DEF LInv
<1>2. UNCHANGED orphans
  BY DEF LoopStep, LoopEnds, BeginPoll, GetUpdates, GetUpdatesFails, TakeUpdate, HandleUpdate,
         lifeVars
<1> QED
  BY <1>1, <1>2 DEF OneLoop, CancelInv, Live

LEMMA OneLoopInvariant == Spec => [](OneLoop /\ CancelInv)
<1>1. Init => OneLoop /\ CancelInv
  <2> SUFFICES ASSUME Init PROVE OneLoop /\ CancelInv
    OBVIOUS
  <2> QED
    BY DEF Init, OneLoop, CancelInv, Live, Alive
<1>2. LInv /\ OneLoop /\ CancelInv /\ [Next]_vars => OneLoop' /\ CancelInv'
  <2> SUFFICES ASSUME LInv, OneLoop, CancelInv, [Next]_vars PROVE OneLoop' /\ CancelInv'
    OBVIOUS
  <2>1. CASE \E c \in Callers : \/ CallerStep(c) \/ Shutdown(c)
                                \/ \E w \in BOOLEAN : ChangeProfiles(c, w)
    BY <2>1, OneLoopCallerSteps
  <2>2. CASE \E l \in Loops : LoopStep(l)
    BY <2>2, OneLoopLoopSteps
  <2>3. CASE Send
    BY <2>3 DEF Send, lifeVars, OneLoop, CancelInv, Live, Alive
  <2>4. CASE Crash
    BY <2>4, FreshProcess DEF Crash
  <2>5. CASE UNCHANGED vars
    BY <2>5 DEF vars, OneLoop, CancelInv, Live, Alive
  <2> QED
    BY <2>1, <2>2, <2>3, <2>4, <2>5 DEF Next
<1> QED
  BY <1>1, <1>2, LoopInvariant, PTL DEF Spec

(* However many requests change profiles at a time, and whenever shutdown   *)
(* stops the poller: a polling loop that lives is the one Poller.cancel     *)
(* ends, or one that a Stop forgot which another caller's Start had         *)
(* overtaken.                                                               *)
THEOREM OneLoopTheorem == Spec => []OneLoop
BY OneLoopInvariant, PTL

(* As long as that has not happened, one loop lives at most.                *)
COROLLARY OneLoopAtMost == Spec => [](orphans = {} => Cardinality(Live) <= 1)
<1>1. OneLoop => (orphans = {} => Cardinality(Live) <= 1)
  <2> SUFFICES ASSUME OneLoop, orphans = {} PROVE Cardinality(Live) <= 1
    OBVIOUS
  <2>1. Live \subseteq {current}
    BY DEF OneLoop
  <2>2. IsFiniteSet({current}) /\ Cardinality({current}) = 1
    BY FS_Singleton
  <2> QED
    BY <2>1, <2>2, FS_Subset
<1> QED
  BY <1>1, OneLoopTheorem, PTL

-------------------------------------------------------------------------------
(* The path of an update, as long as no Stop has left an orphan loop        *)

(* Then the loop of Poller.cancel is the only one that can be alive.        *)
SerialInv ==
  /\ \A l \in Loops : Alive(l) => l = current
  /\ CancelInv

PathTypes ==
  /\ offset \in 0..(MaxUpdates + 1)
  /\ asked \in [Loops -> Nat]
  /\ batch \in [Loops -> SUBSET Updates]
  /\ handling \in [Loops -> 0..MaxUpdates]
  /\ confirmed \in 0..MaxUpdates
  /\ sent \in 0..MaxUpdates
  /\ Done \subseteq Updates
  /\ executed \in [Updates -> Nat]

(* A loop has updates in its hands only where it works on them.             *)
HandsInv ==
  \A l \in Loops :
    /\ batch[l] # {} => loop[l] \in {"batch", "handling"}
    /\ loop[l] = "batch" => batch[l] # {}
    /\ handling[l] # 0 <=> loop[l] = "handling"

(* The offset is between what the loop took and what it has still to take.  *)
OffsetInv ==
  /\ \A u \in Updates : executed[u] > 0 => u < offset
  /\ \A l \in Loops :
       /\ loop[l] = "polling" => asked[l] = offset
       /\ \A u \in batch[l] : offset <= u
       /\ handling[l] \in Updates => handling[l] < offset /\ executed[handling[l]] = 0

(* Nothing below it was passed over, and a batch has no gaps.               *)
NoGaps ==
  /\ \A u \in Updates : u < offset => u \in Done \/ \E l \in Loops : handling[l] = u
  /\ \A l \in Loops : \A b \in batch[l] : \A u \in Updates :
       u < b => u \in batch[l] \cup Done \cup {handling[l]}

TakenOnce == AtMostOnce /\ ForgottenWereTaken

PathInv == PathTypes /\ HandsInv /\ OffsetInv /\ NoGaps /\ TakenOnce

LEMMA MinOfUpdates ==
  ASSUME NEW S \in SUBSET Nat, S # {}
  PROVE  Min(S) \in S /\ \A x \in S : Min(S) <= x
<1>1. \E m \in S : \A x \in S : <<x, m>> \notin OpToRel(<, Nat)
  BY WFMin, NatLessThanWellFounded
<1>2. \A x, m \in S : <<x, m>> \notin OpToRel(<, Nat) => m <= x
  BY DEF OpToRel
<1>3. \E m \in S : \A x \in S : m <= x
  BY <1>1, <1>2
<1> QED
  BY <1>3 DEF Min

(* What Telegram has forgotten once it was asked for an offset.             *)
LEMMA ForgottenFacts ==
  ASSUME PathTypes, NEW o \in Nat
  PROVE  /\ Forgotten(o) \in Nat
         /\ confirmed <= Forgotten(o) /\ o <= Forgotten(o) + 1
         /\ \A u \in Nat : u <= Forgotten(o) => u <= confirmed \/ u < o
<1>1. CASE o = 0
  BY <1>1 DEF Forgotten, PathTypes
<1>2. CASE o # 0
  <2> DEFINE S == {confirmed, o - 1}
  <2>1. confirmed \in Nat /\ o - 1 \in Nat
    BY <1>2 DEF PathTypes
  <2>2. \E m \in S : \A x \in S : m >= x
    BY <2>1
  <2>3. Max(S) \in S /\ \A x \in S : Max(S) >= x
    <3> HIDE DEF S
    <3> QED
      BY <2>2 DEF Max
  <2>4. Forgotten(o) = Max(S)
    BY <1>2 DEF Forgotten
  <2> QED
    BY <2>1, <2>3, <2>4
<1> QED
  BY <1>1, <1>2

(* While one loop is at work, every other one has empty hands.              *)
LEMMA OthersAreIdle ==
  ASSUME SerialInv, PathInv, NEW l \in Loops, Alive(l)
  PROVE  \A k \in Loops : k # l =>
           batch[k] = {} /\ handling[k] = 0 /\ loop[k] \in {"none", "ended"}
BY DEF SerialInv, PathInv, HandsInv, Alive

pathVars == <<offset, asked, batch, handling, confirmed, handled, dropped, executed>>

(* Between two polls, what callers do to the loops does not matter.         *)
LEMMA StillStep ==
  ASSUME PathInv, UNCHANGED pathVars, sent' \in 0..MaxUpdates,
         \A k \in Loops : \/ loop'[k] = loop[k]
                          \/ /\ loop[k] \notin {"polling", "batch", "handling"}
                             /\ loop'[k] \notin {"polling", "batch", "handling"}
  PROVE  PathInv'
<1> USE DEF PathInv, pathVars, Done
<1>1. PathTypes' /\ NoGaps' /\ TakenOnce'
  BY DEF PathTypes, NoGaps, TakenOnce, AtMostOnce, ForgottenWereTaken
<1>2. HandsInv'
  BY DEF HandsInv
<1>3. OffsetInv'
  BY DEF OffsetInv
<1> QED
  BY <1>1, <1>2, <1>3

LEMMA PathCallerSteps ==
  ASSUME LInv, SerialInv, PathInv, NEW c \in Callers,
         CallerStep(c) \/ Shutdown(c) \/ \E w \in BOOLEAN : ChangeProfiles(c, w)
  PROVE  PathInv'
<1>1. UNCHANGED trafficVars
  BY DEF CallerStep, StopReads, StopCancels, StopWaits, WaitReturns, StopFinishes, StopReturns,
         Start, Shutdown, ChangeProfiles
<1>2. loop' = loop \/ (~running /\ started < MaxLoops /\ loop' = [loop EXCEPT ![started + 1] = "top"])
  BY DEF CallerStep, StopReads, StopCancels, StopWaits, WaitReturns, StopFinishes, StopReturns,
         Start, Shutdown, ChangeProfiles
<1>3. ASSUME NEW k \in Loops, loop'[k] # loop[k]
      PROVE  /\ loop[k] \notin {"polling", "batch", "handling"}
             /\ loop'[k] \notin {"polling", "batch", "handling"}
  <2>1. ~running /\ loop' = [loop EXCEPT ![started + 1] = "top"] /\ loop \in [Loops -> LoopPositions]
    BY <1>2, <1>3 DEF LInv, LifeTypes
  <2>2. current = 0 /\ k # 0
    BY <2>1, Bounds DEF SerialInv, CancelInv, Loops
  <2> QED
    BY <1>3, <2>1, <2>2 DEF SerialInv, Alive
<1> QED
  BY <1>1, <1>3, StillStep DEF trafficVars, updateVars, pathVars, PathInv, PathTypes

(* The offset a poll begins with is the one of this moment, and stays it.   *)
LEMMA BeginPollKeeps ==
  ASSUME LInv, SerialInv, PathInv, NEW l \in Loops, BeginPoll(l)
  PROVE  PathInv'
<1> USE DEF PathInv
<1>1. /\ loop[l] = "top" /\ loop' = [loop EXCEPT ![l] = "polling"]
      /\ asked' = [asked EXCEPT ![l] = offset]
      /\ UNCHANGED <<offset, batch, handling, confirmed, sent, Done, executed>>
      /\ loop \in [Loops -> LoopPositions]
  BY DEF BeginPoll, LoopGoto, Done, LInv, LifeTypes
<1>2. PathTypes' /\ NoGaps' /\ TakenOnce'
  BY <1>1 DEF PathTypes, NoGaps, TakenOnce, AtMostOnce, ForgottenWereTaken
<1>3. HandsInv'
  BY <1>1 DEF HandsInv
<1>4. OffsetInv'
  BY <1>1 DEF OffsetInv, PathTypes
<1> QED
  BY <1>2, <1>3, <1>4

(* Telegram forgets what is below the offset, all of which was handled: no  *)
(* other loop has any of it in its hands.                                   *)
LEMMA ForgettingKeeps ==
  ASSUME SerialInv, PathInv, NEW l \in Loops, loop[l] = "polling"
  PROVE  /\ asked[l] = offset
         /\ Forgotten(asked[l]) \in 0..MaxUpdates /\ offset <= Forgotten(asked[l]) + 1
         /\ 1..Forgotten(asked[l]) \subseteq Done
         /\ \A k \in Loops : handling[k] = 0
<1> USE DEF PathInv
<1>1. asked[l] = offset /\ offset \in 0..(MaxUpdates + 1) /\ confirmed \in 0..MaxUpdates
  BY DEF OffsetInv, PathTypes
<1>2. \A k \in Loops : handling[k] = 0
  <2>1. handling[l] = 0
    BY DEF HandsInv
  <2> QED
    BY <2>1, OthersAreIdle DEF Alive
<1>3. \A u \in Updates : u < offset => u \in Done
  <2>1. \A u \in Updates : u # 0
    BY DEF Updates
  <2> QED
    BY <1>2, <2>1 DEF NoGaps
<1>4. \A u \in Updates : u <= confirmed => u \in Done
  BY <1>1 DEF TakenOnce, ForgottenWereTaken, Updates
<1>5. \A u \in Nat : u <= Forgotten(offset) => u <= confirmed \/ u < offset
  BY <1>1, ForgottenFacts
<1>6. Forgotten(offset) \in Nat /\ offset <= Forgotten(offset) + 1
  BY <1>1, ForgottenFacts
<1>7. Forgotten(offset) <= MaxUpdates
  BY <1>1, <1>5, <1>6, ConstantsAssumption
<1>8. ASSUME NEW u \in 1..Forgotten(offset) PROVE u \in Done
  <2>1. u \in Updates
    BY <1>6, <1>7, ConstantsAssumption DEF Updates
  <2> QED
    BY <1>3, <1>4, <1>5, <1>6, <2>1
<1> QED
  BY <1>1, <1>2, <1>6, <1>7, <1>8, ConstantsAssumption

(* The answer is everything Telegram keeps, and lies above the offset.      *)
LEMMA GetUpdatesKeeps ==
  ASSUME LInv, SerialInv, PathInv, NEW l \in Loops, GetUpdates(l)
  PROVE  PathInv'
<1> USE DEF PathInv
<1> DEFINE floor == Forgotten(asked[l])
           answer == (floor + 1)..sent
<1>1. /\ loop[l] = "polling"
      /\ loop' = [loop EXCEPT ![l] = IF answer = {} THEN "top" ELSE "batch"]
      /\ confirmed' = floor
      /\ batch' = [batch EXCEPT ![l] = answer]
      /\ asked' = [asked EXCEPT ![l] = 0]
      /\ UNCHANGED <<offset, handling, sent, Done, executed>>
      /\ loop \in [Loops -> LoopPositions]
  BY DEF GetUpdates, LoopGoto, Done, LInv, LifeTypes
<1>2. /\ asked[l] = offset
      /\ floor \in 0..MaxUpdates /\ offset <= floor + 1
      /\ 1..floor \subseteq Done
      /\ \A k \in Loops : handling[k] = 0
  BY <1>1, ForgettingKeeps
<1> HIDE DEF floor
<1>3. answer \subseteq Updates /\ \A u \in answer : offset <= u
  BY <1>2, ConstantsAssumption DEF PathTypes, Updates
<1>4. \A b \in answer : \A u \in Updates : u < b => u \in answer \cup Done
  BY <1>2, ConstantsAssumption DEF PathTypes, Updates
<1> HIDE DEF answer
<1>5. PathTypes'
  BY <1>1, <1>2, <1>3 DEF PathTypes
<1>6. HandsInv'
  BY <1>1 DEF HandsInv, PathTypes
<1>7. OffsetInv'
  BY <1>1, <1>3 DEF OffsetInv, PathTypes
<1>8. NoGaps'
  BY <1>1, <1>4 DEF NoGaps, PathTypes
<1>9. TakenOnce'
  BY <1>1, <1>2 DEF TakenOnce, AtMostOnce, ForgottenWereTaken
<1> QED
  BY <1>5, <1>6, <1>7, <1>8, <1>9

(* A poll that fails after its request arrived makes Telegram forget, too.  *)
LEMMA GetUpdatesFailsKeeps ==
  ASSUME LInv, SerialInv, PathInv, NEW l \in Loops, GetUpdatesFails(l)
  PROVE  PathInv'
<1> USE DEF PathInv
<1>1. /\ loop[l] = "polling" /\ loop' = [loop EXCEPT ![l] = "top"]
      /\ confirmed' \in {confirmed, Forgotten(asked[l])}
      /\ asked' = [asked EXCEPT ![l] = 0]
      /\ UNCHANGED <<offset, batch, handling, sent, Done, executed>>
      /\ loop \in [Loops -> LoopPositions]
  BY DEF GetUpdatesFails, LoopGoto, Done, LInv, LifeTypes
<1>2. Forgotten(asked[l]) \in 0..MaxUpdates /\ 1..Forgotten(asked[l]) \subseteq Done
  BY <1>1, ForgettingKeeps
<1>3. PathTypes' /\ NoGaps'
  BY <1>1, <1>2 DEF PathTypes, NoGaps
<1>4. HandsInv'
  BY <1>1 DEF HandsInv
<1>5. OffsetInv'
  BY <1>1 DEF OffsetInv
<1>6. TakenOnce'
  BY <1>1, <1>2 DEF TakenOnce, AtMostOnce, ForgottenWereTaken
<1> QED
  BY <1>3, <1>4, <1>5, <1>6

(* The offset passes the update that is taken, which is the least one left. *)
LEMMA TakeUpdateKeeps ==
  ASSUME LInv, SerialInv, PathInv, NEW l \in Loops, TakeUpdate(l)
  PROVE  PathInv'
<1> USE DEF PathInv
<1> DEFINE u == Min(batch[l])
<1>1. /\ loop[l] = "batch" /\ loop' = [loop EXCEPT ![l] = "handling"]
      /\ handling' = [handling EXCEPT ![l] = u]
      /\ batch' = [batch EXCEPT ![l] = @ \ {u}]
      /\ offset' = IF u >= offset THEN u + 1 ELSE offset
      /\ UNCHANGED <<asked, confirmed, sent, Done, executed>>
      /\ loop \in [Loops -> LoopPositions]
  BY DEF TakeUpdate, LoopGoto, Done, LInv, LifeTypes
<1>2. /\ batch[l] # {} /\ handling[l] = 0
      /\ batch[l] \subseteq Updates /\ Updates \subseteq Nat \ {0}
  BY <1>1 DEF HandsInv, PathTypes, Updates
<1>3. u \in batch[l] /\ \A x \in batch[l] : u <= x
  <2>1. batch[l] \in SUBSET Nat
    BY <1>2
  <2> QED
    BY <1>2, <2>1, MinOfUpdates
<1> HIDE DEF u
<1>4. u \in Updates /\ u # 0 /\ offset <= u
  BY <1>2, <1>3 DEF OffsetInv
<1>5. offset' = u + 1 /\ u \in 1..MaxUpdates /\ offset \in 0..(MaxUpdates + 1)
  BY <1>1, <1>4 DEF PathTypes, Updates
<1>6. executed[u] = 0
  <2>1. ~(executed[u] > 0)
    BY <1>4, <1>5 DEF OffsetInv
  <2> QED
    BY <1>4, <2>1 DEF PathTypes
<1>7. \A k \in Loops : k # l => batch[k] = {} /\ handling[k] = 0 /\ loop[k] \in {"none", "ended"}
  BY <1>1, OthersAreIdle DEF Alive
<1>8. PathTypes'
  BY <1>1, <1>4, <1>5, ConstantsAssumption DEF PathTypes
<1>9. HandsInv'
  BY <1>1, <1>4, <1>7 DEF HandsInv, PathTypes
<1>10. OffsetInv'
  <2>1. ASSUME NEW v \in Updates, executed'[v] > 0 PROVE v < offset'
    BY <1>1, <1>2, <1>4, <1>5, <2>1 DEF OffsetInv
  <2>2. ASSUME NEW k \in Loops
        PROVE  /\ loop'[k] = "polling" => asked'[k] = offset'
               /\ \A v \in batch'[k] : offset' <= v
               /\ handling'[k] \in Updates => handling'[k] < offset' /\ executed'[handling'[k]] = 0
    <3>1. CASE k = l
      <4>1. /\ loop'[l] = "handling" /\ batch'[l] = batch[l] \ {u} /\ handling'[l] = u
            /\ executed' = executed
        BY <1>1 DEF PathTypes
      <4>2. ASSUME NEW v \in batch[l] \ {u} PROVE u + 1 <= v
        <5>1. v \in Nat /\ u \in Nat /\ u <= v /\ u # v
          BY <1>2, <1>3
        <5> QED
          BY <5>1
      <4> QED
        BY <1>5, <1>6, <3>1, <4>1, <4>2
    <3>2. CASE k # l
      <4>1. batch'[k] = {} /\ handling'[k] = 0 /\ loop'[k] \in {"none", "ended"}
        BY <1>1, <1>7, <3>2 DEF PathTypes
      <4> QED
        BY <1>2, <4>1
    <3> QED
      BY <3>1, <3>2
  <2> QED
    BY <2>1, <2>2 DEF OffsetInv
<1>11. NoGaps'
  <2>1. handling'[l] = u /\ batch'[l] = batch[l] \ {u}
    BY <1>1 DEF PathTypes
  <2>2. ASSUME NEW v \in Updates, v < u PROVE v \in Done
    <3>1. v \in batch[l] \cup Done \cup {handling[l]}
      BY <1>3, <2>2 DEF NoGaps
    <3>2. v \in Nat /\ u \in Nat /\ ~(u <= v) /\ v # 0
      BY <1>2, <1>4, <2>2
    <3>3. v \notin batch[l]
      BY <1>3, <3>2
    <3> QED
      BY <1>2, <3>1, <3>2, <3>3
  <2>3. \A v \in Updates : v < offset' => v \in Done' \/ \E k \in Loops : handling'[k] = v
    BY <1>1, <1>2, <1>5, <2>1, <2>2
  <2>4. ASSUME NEW k \in Loops, NEW b \in batch'[k], NEW v \in Updates, v < b
        PROVE  v \in batch'[k] \cup Done' \cup {handling'[k]}
    <3>1. k = l /\ b \in batch[l]
      BY <1>1, <1>7, <2>1, <2>4 DEF PathTypes
    <3>2. v \in batch[l] \cup Done
      BY <1>2, <2>4, <3>1 DEF NoGaps
    <3> QED
      BY <1>1, <2>1, <3>1, <3>2
  <2> QED
    BY <2>3, <2>4 DEF NoGaps
<1>12. TakenOnce'
  BY <1>1 DEF TakenOnce, AtMostOnce, ForgottenWereTaken
<1> QED
  BY <1>8, <1>9, <1>10, <1>11, <1>12

(* What the loop took goes to the router now, or nowhere.                   *)
LEMMA HandleUpdateKeeps ==
  ASSUME LInv, SerialInv, PathInv, NEW l \in Loops, HandleUpdate(l)
  PROVE  PathInv'
<1> USE DEF PathInv
<1> DEFINE u == handling[l]
<1>1. /\ loop[l] = "handling"
      /\ loop' = [loop EXCEPT ![l] = IF batch[l] = {} THEN "top" ELSE "batch"]
      /\ handling' = [handling EXCEPT ![l] = 0]
      /\ Done' = Done \cup {u}
      /\ executed' = executed \/ executed' = [executed EXCEPT ![u] = @ + 1]
      /\ UNCHANGED <<offset, asked, batch, confirmed, sent>>
      /\ loop \in [Loops -> LoopPositions]
  BY DEF HandleUpdate, LoopGoto, Done, LInv, LifeTypes
<1>2. u # 0 /\ u \in Updates
  BY <1>1 DEF HandsInv, PathTypes, Updates
<1>3. u < offset /\ executed[u] = 0
  BY <1>2 DEF OffsetInv
<1>4. /\ executed' \in [Updates -> Nat]
      /\ \A v \in Updates : v # u => executed'[v] = executed[v]
      /\ executed'[u] <= 1
  BY <1>1, <1>2, <1>3 DEF PathTypes
<1>5. \A k \in Loops : k # l => batch[k] = {} /\ handling[k] = 0 /\ loop[k] \in {"none", "ended"}
  BY <1>1, OthersAreIdle DEF Alive
<1>6. \A k \in Loops : handling'[k] = 0
  BY <1>1, <1>5 DEF PathTypes
<1>7. PathTypes'
  BY <1>1, <1>2, <1>4, ConstantsAssumption DEF PathTypes
<1>8. HandsInv'
  BY <1>1, <1>5, <1>6 DEF HandsInv
<1>9. OffsetInv'
  <2>1. 0 \notin Updates
    BY DEF Updates
  <2>2. \A v \in Updates : executed'[v] > 0 => v < offset'
    BY <1>1, <1>3, <1>4 DEF OffsetInv
  <2>3. \A k \in Loops : loop'[k] # "polling"
    BY <1>1, <1>5
  <2> QED
    BY <1>1, <1>6, <2>1, <2>2, <2>3 DEF OffsetInv
<1>10. NoGaps'
  <2>1. \A v \in Updates : v # 0
    BY DEF Updates
  <2>2. \A v \in Updates : v < offset => v \in Done \cup {u}
    BY <1>5, <2>1 DEF NoGaps
  <2>3. \A b \in batch[l] : \A v \in Updates : v < b => v \in batch[l] \cup Done \cup {u}
    BY DEF NoGaps
  <2> QED
    BY <1>1, <1>5, <2>2, <2>3 DEF NoGaps
<1>11. TakenOnce'
  BY <1>1, <1>4 DEF TakenOnce, AtMostOnce, ForgottenWereTaken
<1> QED
  BY <1>7, <1>8, <1>9, <1>10, <1>11

(* A daemon that dies forgets its offset, and what it has executed: only    *)
(* Telegram remembers what was confirmed.                                   *)
LEMMA CrashKeepsPath ==
  ASSUME PathInv, Crash
  PROVE  PathInv'
<1> USE DEF PathInv
<1>1. /\ offset' = 0
      /\ asked' = [k \in Loops |-> 0]
      /\ batch' = [k \in Loops |-> {}]
      /\ handling' = [k \in Loops |-> 0]
      /\ executed' = [v \in Updates |-> 0]
      /\ \A k \in Loops : loop'[k] \in {"top", "none"}
      /\ UNCHANGED <<sent, confirmed, Done>>

  BY DEF Crash, Done
<1>2. PathTypes'
  BY <1>1, ConstantsAssumption DEF PathTypes
<1>3. HandsInv'
  BY <1>1 DEF HandsInv
<1>4. OffsetInv' /\ NoGaps'
  BY <1>1 DEF OffsetInv, NoGaps, Updates
<1>5. TakenOnce'
  BY <1>1 DEF TakenOnce, AtMostOnce, ForgottenWereTaken
<1> QED
  BY <1>2, <1>3, <1>4, <1>5

(* Steps that leave no orphan loop behind, with none before.                *)
LEMMA PathSteps ==
  ASSUME LInv, SerialInv, PathInv, [Next]_vars
  PROVE  PathInv'
<1>1. CASE \E c \in Callers : \/ CallerStep(c) \/ Shutdown(c)
                              \/ \E w \in BOOLEAN : ChangeProfiles(c, w)
  BY <1>1, PathCallerSteps
<1>2. ASSUME NEW l \in Loops, LoopStep(l) PROVE PathInv'
  <2>1. CASE LoopEnds(l)
    <3>1. /\ loop[l] = "top" /\ loop' = [loop EXCEPT ![l] = "ended"]
          /\ UNCHANGED pathVars /\ UNCHANGED sent /\ loop \in [Loops -> LoopPositions]
      BY <2>1 DEF LoopEnds, LoopGoto, LInv, LifeTypes, pathVars
    <3>2. sent' \in 0..MaxUpdates
      BY <3>1 DEF PathInv, PathTypes
    <3> QED
      BY <3>1, <3>2, StillStep
  <2> QED
    BY <1>2, <2>1, BeginPollKeeps, GetUpdatesKeeps, GetUpdatesFailsKeeps, TakeUpdateKeeps,
       HandleUpdateKeeps DEF LoopStep
<1>3. CASE Send
  <2>1. UNCHANGED pathVars /\ UNCHANGED loop /\ sent' \in 0..MaxUpdates
    BY <1>3, ConstantsAssumption DEF Send, PathInv, PathTypes, updateVars, pathVars
  <2> QED
    BY <2>1, StillStep
<1>4. CASE Crash
  BY <1>4, CrashKeepsPath
<1>5. CASE UNCHANGED vars
  <2>1. UNCHANGED pathVars /\ UNCHANGED loop /\ sent' \in 0..MaxUpdates
    BY <1>5 DEF vars, pathVars, PathInv, PathTypes
  <2> QED
    BY <2>1, StillStep
<1> QED
  BY <1>1, <1>2, <1>3, <1>4, <1>5 DEF Next

(* A Stop that leaves an orphan loop behind is remembered for good.         *)
LEMMA OrphansStay ==
  ASSUME [Next]_vars, orphans # {}
  PROVE  orphans' # {}
<1>1. CASE \E c \in Callers : \/ CallerStep(c) \/ Shutdown(c)
                              \/ \E w \in BOOLEAN : ChangeProfiles(c, w)
  <2>1. orphans \subseteq orphans'
    BY <1>1 DEF CallerStep, StopReads, StopCancels, StopWaits, WaitReturns, StopFinishes,
                StopReturns, Start, Shutdown, ChangeProfiles
  <2> QED
    BY <2>1
<1>2. CASE \E l \in Loops : LoopStep(l)
  BY <1>2 DEF LoopStep, LoopEnds, BeginPoll, GetUpdates, GetUpdatesFails, TakeUpdate,
              HandleUpdate, lifeVars
<1>3. CASE Send \/ UNCHANGED vars
  BY <1>3 DEF Send, lifeVars, vars
<1>4. CASE Crash
  <2>1. orphans' = {0}
    BY <1>4 DEF Crash
  <2> QED
    BY <2>1
<1> QED
  BY <1>1, <1>2, <1>3, <1>4 DEF Next

(* However many callers are in Restart and Stop, unless a Stop has left an  *)
(* orphan loop behind: a process sends a command to the router once at      *)
(* most, and Telegram forgets nothing that was neither handled nor dropped  *)
(* under a canceled context, wherever Stop, a failed poll or a crash meets  *)
(* a batch.                                                                 *)
THEOREM EachUpdateOnceTheorem == Spec => []EachUpdateOnce
<1> DEFINE IInv == orphans = {} => PathInv
<1>1. Init => IInv
  <2> SUFFICES ASSUME Init PROVE PathInv
    OBVIOUS
  <2>1. PathTypes
    BY ConstantsAssumption DEF Init, PathTypes, Done
  <2>2. HandsInv /\ OffsetInv /\ NoGaps
    BY DEF Init, HandsInv, OffsetInv, NoGaps, Updates
  <2>3. TakenOnce
    BY DEF Init, TakenOnce, AtMostOnce, ForgottenWereTaken
  <2> QED
    BY <2>1, <2>2, <2>3 DEF PathInv
<1>2. LInv /\ OneLoop /\ CancelInv /\ IInv /\ [Next]_vars => IInv'
  <2> SUFFICES ASSUME LInv, OneLoop, CancelInv, IInv, [Next]_vars, orphans' = {}
               PROVE  PathInv'
    OBVIOUS
  <2>1. orphans = {} /\ PathInv
    BY OrphansStay
  <2>2. SerialInv
    BY <2>1 DEF SerialInv, OneLoop, Live
  <2> QED
    BY <2>1, <2>2, PathSteps
<1>3. IInv => EachUpdateOnce
  BY DEF PathInv, TakenOnce, EachUpdateOnce
<1> QED
  BY <1>1, <1>2, <1>3, LoopInvariant, OneLoopInvariant, PTL DEF Spec

-------------------------------------------------------------------------------
(* Type correctness, for any number of callers at a time                    *)

(* A loop that works on updates has one.                                    *)
HandsFull ==
  \A l \in Loops :
    /\ loop[l] = "batch" => batch[l] # {}
    /\ loop[l] = "handling" => handling[l] # 0

LEMMA TypeInit == Init => TypeOK /\ HandsFull
<1> SUFFICES ASSUME Init PROVE TypeOK /\ HandsFull
  OBVIOUS
<1>1. MaxLoops \in Nat /\ MaxCalls \in Nat /\ MaxUpdates \in Nat /\ Limit \in Nat /\ MaxCrashes \in Nat
  BY Bounds, ConstantsAssumption
<1>2. current \in 0..MaxLoops /\ started \in 0..MaxLoops
  BY <1>1, Bounds DEF Init, Loops
<1>3. loop \in [Loops -> {"none", "top", "polling", "batch", "handling", "ended"}]
  BY DEF Init
<1> QED
  BY <1>1, <1>2, <1>3 DEF Init, TypeOK, HandsFull, Positions

LEMMA TypeCallerSteps ==
  ASSUME TypeOK, HandsFull, NEW c \in Callers,
         CallerStep(c) \/ Shutdown(c) \/ \E w \in BOOLEAN : ChangeProfiles(c, w)
  PROVE  TypeOK' /\ HandsFull'
<1> USE Bounds, ConstantsAssumption DEF TypeOK, Goto
<1>1. UNCHANGED trafficVars
  BY DEF CallerStep, StopReads, StopCancels, StopWaits, WaitReturns, StopFinishes, StopReturns,
         Start, Shutdown, ChangeProfiles
<1>2. \E to \in Positions : pc' = [pc EXCEPT ![c] = to]
  BY DEF CallerStep, StopReads, StopCancels, StopWaits, WaitReturns, StopFinishes, StopReturns,
         Start, Shutdown, ChangeProfiles, Positions
<1>3. pc' \in [Callers -> Positions]
  BY <1>2
<1>4. wanted' \in BOOLEAN /\ calls' \in 0..MaxCalls /\ orphans' \subseteq 0..MaxLoops
  <2>1. wanted' \in BOOLEAN /\ calls' \in 0..MaxCalls
    <3>1. CASE Shutdown(c) \/ \E w \in BOOLEAN : ChangeProfiles(c, w)
      BY <3>1 DEF Shutdown, ChangeProfiles
    <3>2. CASE CallerStep(c)
      BY <3>2 DEF CallerStep, StopReads, StopCancels, StopWaits, WaitReturns, StopFinishes,
                  StopReturns, Start
    <3> QED
      BY <3>1, <3>2
  <2>2. orphans' = orphans \/ orphans' = orphans \cup ({current} \ {0, captured[c]})
    BY DEF CallerStep, StopReads, StopCancels, StopWaits, WaitReturns, StopFinishes, StopReturns,
           Start, Shutdown, ChangeProfiles
  <2> QED
    BY <2>1, <2>2
<1>5. /\ running' \in BOOLEAN /\ current' \in 0..MaxLoops /\ started' \in 0..MaxLoops
      /\ loop' \in [Loops -> {"none", "top", "polling", "batch", "handling", "ended"}]
      /\ \A l \in Loops : loop'[l] \in {loop[l], "top"}
  <2>1. CASE Start(c)
    <3>1. CASE running
      BY <2>1, <3>1 DEF Start
    <3>2. CASE ~running
      <4>1. /\ started < MaxLoops /\ running' = TRUE /\ current' = started + 1
            /\ started' = started + 1 /\ loop' = [loop EXCEPT ![started + 1] = "top"]
        BY <2>1, <3>2 DEF Start
      <4>2. started + 1 \in 0..MaxLoops
        BY <4>1
      <4> QED
        BY <4>1, <4>2
    <3> QED
      BY <3>1, <3>2
  <2>2. CASE StopFinishes(c)
    <3>1. current' = 0 /\ running' = FALSE /\ UNCHANGED <<started, loop>>
      BY <2>2 DEF StopFinishes
    <3>2. running' \in BOOLEAN
      BY <3>1
    <3>3. current' \in 0..MaxLoops /\ started' \in 0..MaxLoops
      BY <3>1
    <3> QED
      BY <3>1, <3>2, <3>3
  <2>3. ASSUME ~Start(c), ~StopFinishes(c)
        PROVE  UNCHANGED <<running, current, started, loop>>
    <3>0. \/ StopReads(c) \/ StopCancels(c) \/ StopWaits(c) \/ WaitReturns(c) \/ StopReturns(c)
          \/ Shutdown(c) \/ \E w \in BOOLEAN : ChangeProfiles(c, w)
      BY <2>3 DEF CallerStep
    <3> QED
      BY <3>0 DEF StopReads, StopCancels, StopWaits, WaitReturns, StopReturns, Shutdown,
                  ChangeProfiles
  <2> QED
    BY <2>1, <2>2, <2>3
<1>6. captured' \in [Callers -> 0..MaxLoops]
  BY DEF CallerStep, StopReads, StopCancels, StopWaits, WaitReturns, StopFinishes, StopReturns,
         Start, Shutdown, ChangeProfiles
<1>7. canceled' \subseteq Loops
  <2>1. {captured[c]} \ {0} \subseteq Loops
    BY DEF Loops
  <2> QED
    BY <2>1 DEF CallerStep, StopReads, StopCancels, StopWaits, WaitReturns, StopFinishes,
                StopReturns, Start, Shutdown, ChangeProfiles
<1>8. TypeOK'
  BY <1>1, <1>3, <1>4, <1>5, <1>6, <1>7 DEF trafficVars, updateVars
<1>9. HandsFull'
  BY <1>1, <1>5 DEF HandsFull, trafficVars, updateVars
<1> QED
  BY <1>8, <1>9

LEMMA TypeLoopSteps ==
  ASSUME TypeOK, HandsFull, NEW l \in Loops, LoopStep(l)
  PROVE  TypeOK' /\ HandsFull'
<1> USE ConstantsAssumption DEF TypeOK, LoopGoto, lifeVars, trafficVars, updateVars
<1>0. MaxUpdates \in Nat /\ Updates = 1..MaxUpdates /\ Updates \in SUBSET Nat
  BY DEF Updates
<1>1. CASE LoopEnds(l)
  <2>1. pc' \in [Callers -> Positions]
    BY <1>1 DEF LoopEnds, Positions
  <2> QED
    BY <1>1, <2>1 DEF LoopEnds, HandsFull
<1>2. CASE BeginPoll(l)
  BY <1>2 DEF BeginPoll, HandsFull
<1>3. Forgotten(asked[l]) \in 0..MaxUpdates
  <2>1. CASE asked[l] = 0
    BY <2>1 DEF Forgotten
  <2>2. CASE asked[l] # 0
    <3> DEFINE o == asked[l]
               S == {confirmed, o - 1}
    <3>1. confirmed \in 0..MaxUpdates /\ o - 1 \in 0..MaxUpdates
      BY <1>0, <2>2
    <3>2. \E m \in S : \A x \in S : m >= x
      BY <3>1
    <3>3. Max(S) \in S
      <4> HIDE DEF S
      <4> QED BY <3>2 DEF Max
    <3>4. Forgotten(o) = Max(S)
      BY <2>2 DEF Forgotten
    <3> QED
      BY <3>1, <3>3, <3>4
  <2> QED
    BY <2>1, <2>2
<1>4. CASE GetUpdates(l)
  <2> DEFINE answer == (Forgotten(asked[l]) + 1)..sent
  <2>1. answer \subseteq Updates
    BY <1>0, <1>3, SMTT(20)
  <2>2. /\ batch' = [batch EXCEPT ![l] = answer] /\ confirmed' = Forgotten(asked[l])
        /\ loop' = [loop EXCEPT ![l] = IF answer = {} THEN "top" ELSE "batch"]
        /\ asked' = [asked EXCEPT ![l] = 0]
        /\ UNCHANGED <<wanted, lifeVars, offset, handling, count, sent, handled, dropped,
                       executed, crashes>>
    BY <1>4 DEF GetUpdates
  <2> HIDE DEF answer
  <2> QED
    BY <1>3, <2>1, <2>2 DEF HandsFull
<1>5. CASE GetUpdatesFails(l)
  BY <1>3, <1>5 DEF GetUpdatesFails, HandsFull
<1>6. CASE TakeUpdate(l)
  <2> DEFINE u == Min(batch[l])
  <2>1. u \in batch[l] /\ u \in Updates
    <3>1. batch[l] # {} /\ batch[l] \in SUBSET Nat /\ batch[l] \subseteq Updates
      BY <1>0, <1>6 DEF TakeUpdate, HandsFull
    <3> QED
      BY <3>1, MinOfUpdates
  <2>2. /\ handling' = [handling EXCEPT ![l] = u] /\ batch' = [batch EXCEPT ![l] = @ \ {u}]
        /\ offset' = IF u >= offset THEN u + 1 ELSE offset
        /\ loop' = [loop EXCEPT ![l] = "handling"]
        /\ UNCHANGED <<wanted, lifeVars, asked, count, sent, confirmed, handled, dropped, executed,
                       crashes>>
    BY <1>6 DEF TakeUpdate
  <2> HIDE DEF u
  <2>3. u \in 1..MaxUpdates
    BY <1>0, <2>1
  <2> QED
    BY <2>2, <2>3 DEF HandsFull
<1>7. CASE HandleUpdate(l)
  <2> DEFINE u == handling[l]
             drop == u \notin Unauthorized /\ l \in canceled
             accepted == u \notin Unauthorized /\ l \notin canceled /\ count[l] < Limit
  <2>1. u \in Updates
    BY <1>0, <1>7 DEF HandleUpdate, HandsFull
  <2>2. /\ loop' = [loop EXCEPT ![l] = IF batch[l] = {} THEN "top" ELSE "batch"]
        /\ handling' = [handling EXCEPT ![l] = 0]
        /\ dropped' = IF drop THEN dropped \cup {u} ELSE dropped
        /\ handled' = IF drop THEN handled ELSE handled \cup {u}
        /\ executed' = IF accepted THEN [executed EXCEPT ![u] = @ + 1] ELSE executed
        /\ count' = IF accepted THEN [count EXCEPT ![l] = @ + 1] ELSE count
        /\ UNCHANGED <<wanted, lifeVars, offset, asked, batch, sent, confirmed, crashes>>
    BY <1>7 DEF HandleUpdate
  <2>3. executed' \in [Updates -> Nat]
    BY <2>1, <2>2
  <2>4. count' \in [Loops -> 0..Limit]
    BY <2>2
  <2>5. handling' \in [Loops -> 0..MaxUpdates] /\ handled' \subseteq Updates /\ dropped' \subseteq Updates
    BY <2>1, <2>2
  <2> HIDE DEF u, drop, accepted
  <2> QED
    BY <2>2, <2>3, <2>4, <2>5 DEF HandsFull
<1> QED
  BY <1>1, <1>2, <1>4, <1>5, <1>6, <1>7 DEF LoopStep

(* Every variable keeps its type, however many callers are in Restart and   *)
(* Stop at a time (poller.go:44).                                           *)
THEOREM TypeCorrect == Spec => []TypeOK
<1>1. TypeOK /\ HandsFull /\ [Next]_vars => TypeOK' /\ HandsFull'
  <2> SUFFICES ASSUME TypeOK, HandsFull, [Next]_vars PROVE TypeOK' /\ HandsFull'
    OBVIOUS
  <2>1. ASSUME NEW c \in Callers, CallerStep(c) \/ Shutdown(c) PROVE TypeOK' /\ HandsFull'
    BY <2>1, TypeCallerSteps
  <2>2. ASSUME NEW c \in Callers, NEW w \in BOOLEAN, ChangeProfiles(c, w)
        PROVE  TypeOK' /\ HandsFull'
    BY <2>2, TypeCallerSteps
  <2>3. ASSUME NEW l \in Loops, LoopStep(l) PROVE TypeOK' /\ HandsFull'
    BY <2>3, TypeLoopSteps
  <2>4. CASE Send
    BY <2>4, ConstantsAssumption DEF Send, TypeOK, HandsFull, lifeVars, updateVars
  <2>5. CASE Crash
    <3>1. MaxLoops \in Nat /\ MaxCalls \in Nat /\ MaxUpdates \in Nat /\ Limit \in Nat
          /\ MaxCrashes \in Nat
      BY Bounds, ConstantsAssumption
    <3>2. current' \in 0..MaxLoops /\ started' \in 0..MaxLoops
      BY <2>5, <3>1, Bounds DEF Crash, Loops
    <3>3. loop' \in [Loops -> {"none", "top", "polling", "batch", "handling", "ended"}]
      BY <2>5 DEF Crash
    <3>4. crashes' \in 0..MaxCrashes
      BY <2>5, <3>1 DEF Crash, TypeOK
    <3> QED
      BY <2>5, <3>1, <3>2, <3>3, <3>4 DEF Crash, TypeOK, HandsFull, Positions
  <2>6. CASE UNCHANGED vars
    BY <2>6 DEF vars, TypeOK, HandsFull
  <2> QED
    BY <2>1, <2>2, <2>3, <2>4, <2>5, <2>6 DEF Next
<1> QED
  BY <1>1, TypeInit, PTL DEF Spec
===============================================================================
