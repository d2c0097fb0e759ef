---------------------------- MODULE SchedulerProofs ----------------------------
(***************************************************************************)
(* What the scheduler decides, for any tasks, schedules, callers and       *)
(* texts of minutes, and for as long as one likes.  The argument: the loop *)
(* works for minutes that never go back, so a second decision for a minute *)
(* is one while it still works for that minute, and then lastTriggered has *)
(* it unless PrimeTask wrote another one over it.                          *)
(*                                                                         *)
(* The second part is about the expressions it decides by, for every       *)
(* expression and every minute of the year, and the third about the        *)
(* manifests they come in, from the loader to the start of a script.       *)
(***************************************************************************)
EXTENDS MCScheduler, SequenceTheorems, WellFoundedInduction, TLAPS

(* The loop does not run ahead of the ticker, nor the ticker of the clock.  *)
TimeInv ==
  /\ now <= Minute(clock)
  /\ loop = "off" => tick = None
  /\ tick # None => now <= tick /\ tick <= Minute(clock)

(* The mark of a task is a text that was primed, or decided for.            *)
MarkInv ==
  \A t \in TaskIds :
    lastTriggered[t] # None =>
      \/ lastTriggered[t] \in primed[t]
      \/ \E n \in Minutes : <<n, lastTriggered[t]>> \in fired[t]

(* The loop has decided for no minute after the one it works for, and the   *)
(* mark is a text that one was decided under, or such a mark was replaced.  *)
DecidedInv ==
  \A t \in TaskIds, m \in Minutes :
    decided[t][m] > 0 =>
      /\ m <= now
      /\ m = now => <<m, lastTriggered[t]>> \in fired[t] \/ m \in displaced[t]

SInv == /\ TypeOK /\ TimeInv /\ MarkInv /\ DecidedInv
        /\ DoubleFireNeedsPriming /\ PassedOverForAReason

USE DEF Minute

LEMMA MinuteOfClock ==
  ASSUME NEW c \in 0..MaxClock
  PROVE  Minute(c) \in Minutes /\ Minutes \subseteq Nat
BY ConstantsAssumption DEF Minutes

(* The minute of a copy of a task has a text in the zone of its manifest.   *)
LEMMA KeyIsText ==
  ASSUME NEW copy \in Task, NEW m \in Minutes
  PROVE  Key(copy, m) \in Labels
BY ConstantsAssumption DEF Task, Key

LEMMA InitSInv == Init => SInv
<1> SUFFICES ASSUME Init PROVE SInv
  OBVIOUS
<1>1. 0 \in Minutes /\ 0 \in 0..MaxClock
  BY ConstantsAssumption DEF Minutes
<1>2. TypeOK
  BY <1>1 DEF Init, TypeOK, Request, Task
<1>3. TimeInv /\ MarkInv
  BY <1>1 DEF Init, TimeInv, MarkInv
<1>4. DecidedInv /\ DoubleFireNeedsPriming /\ PassedOverForAReason
  BY <1>1 DEF Init, DecidedInv, DoubleFireNeedsPriming, PassedOverForAReason
<1> QED
  BY <1>2, <1>3, <1>4 DEF SInv

-------------------------------------------------------------------------------
(* Priming                                                                  *)

(* Whoever primes a task keeps everything that is said of marks.            *)
LEMMA PrimingStep ==
  ASSUME SInv, NEW t \in TaskIds, NEW copy \in Task, NEW m \in Minutes,
         PrimeTask(t, copy, m), UNCHANGED <<now, decided, fired, passed>>
  PROVE  /\ lastTriggered' \in [TaskIds -> Labels \cup {None}]
         /\ primed' \in [TaskIds -> SUBSET Labels]
         /\ displaced' \in [TaskIds -> SUBSET Minutes]
         /\ MarkInv' /\ DecidedInv' /\ DoubleFireNeedsPriming' /\ PassedOverForAReason'
<1> USE DEF SInv, TypeOK
<1>1. CASE ~Due(copy, m)
  <2>1. UNCHANGED <<lastTriggered, primed, displaced, now, decided, fired, passed>>
    BY <1>1 DEF PrimeTask
  <2> QED
    BY <2>1 DEF MarkInv, DecidedInv, DoubleFireNeedsPriming, PassedOverForAReason
<1>2. CASE Due(copy, m)
  <2> DEFINE k == Key(copy, m)
  <2>0. k \in Labels
    BY KeyIsText
  <2>1. lastTriggered' = [lastTriggered EXCEPT ![t] = k]
    BY <1>2 DEF PrimeTask
  <2>2. primed' = [primed EXCEPT ![t] = @ \cup {k}]
    BY <1>2 DEF PrimeTask
  <2>3. displaced' = [displaced EXCEPT ![t] = @ \cup
          {n \in Minutes : <<n, lastTriggered[t]>> \in fired[t] /\ <<n, k>> \notin fired[t]}]
    BY <1>2 DEF PrimeTask
  <2> HIDE DEF k
  <2>4. /\ lastTriggered' \in [TaskIds -> Labels \cup {None}]
        /\ primed' \in [TaskIds -> SUBSET Labels]
        /\ displaced' \in [TaskIds -> SUBSET Minutes]
    BY <2>0, <2>1, <2>2, <2>3
  <2>5. /\ \A u \in TaskIds : primed[u] \subseteq primed'[u] /\ displaced[u] \subseteq displaced'[u]
        /\ k \in primed'[t]
    BY <2>2, <2>3
  <2>6. MarkInv'
    <3> SUFFICES ASSUME NEW u \in TaskIds, lastTriggered'[u] # None
                 PROVE  \/ lastTriggered'[u] \in primed'[u]
                        \/ \E n \in Minutes : <<n, lastTriggered'[u]>> \in fired[u]
      BY DEF MarkInv
    <3>1. CASE u = t
      BY <3>1, <2>1, <2>5
    <3>2. CASE u # t
      BY <3>2, <2>1, <2>5 DEF MarkInv
    <3> QED
      BY <3>1, <3>2
  <2>7. DecidedInv'
    <3> SUFFICES ASSUME NEW u \in TaskIds, NEW n \in Minutes, decided[u][n] > 0
                 PROVE  /\ n <= now
                        /\ n = now => <<n, lastTriggered'[u]>> \in fired[u] \/ n \in displaced'[u]
      BY DEF DecidedInv
    <3>1. n <= now /\ (n = now => <<n, lastTriggered[u]>> \in fired[u] \/ n \in displaced[u])
      BY DEF DecidedInv
    <3>2. CASE u = t
      BY <3>1, <3>2, <2>1, <2>3
    <3>3. CASE u # t
      BY <3>1, <3>3, <2>1, <2>5
    <3> QED
      BY <3>2, <3>3
  <2>8. DoubleFireNeedsPriming' /\ PassedOverForAReason'
    BY <2>5 DEF DoubleFireNeedsPriming, PassedOverForAReason
  <2> QED
    BY <2>4, <2>6, <2>7, <2>8
<1> QED
  BY <1>1, <1>2

(* Steps that change neither marks nor decisions nor the minute             *)
LEMMA UnmarkedStep ==
  ASSUME SInv, UNCHANGED <<now, lastTriggered, decided, ghosts>>
  PROVE  MarkInv' /\ DecidedInv' /\ DoubleFireNeedsPriming' /\ PassedOverForAReason'
BY DEF SInv, MarkInv, DecidedInv, DoubleFireNeedsPriming, PassedOverForAReason, ghosts

-------------------------------------------------------------------------------
(* The clock and the loop                                                   *)

LEMMA TickStep == SInv /\ Tick => SInv'
<1> SUFFICES ASSUME SInv, Tick PROVE SInv'
  OBVIOUS
<1>0. clock \in 0..MaxClock /\ clock' = clock + 1 /\ clock' \in 0..MaxClock
  BY ConstantsAssumption DEF Tick, SInv, TypeOK
<1>1. /\ clock \in 0..MaxClock /\ clock' = clock + 1 /\ clock' \in 0..MaxClock
      /\ tick' = tick \/ (loop # "off" /\ tick' = Minute(clock'))
  <2>1. tick' = IF loop # "off" /\ tick = None THEN Minute(clock') ELSE tick
    <3>1. tick' = IF loop # "off" /\ tick = None THEN Minute(clock + 1) ELSE tick
      BY DEF Tick
    <3>2. Minute(clock + 1) = Minute(clock')
      BY <1>0
    <3> HIDE DEF Minute
    <3> QED
      BY <3>1, <3>2
  <2> HIDE DEF Minute
  <2>2. CASE loop # "off" /\ tick = None
    BY <1>0, <2>1, <2>2
  <2>3. CASE ~(loop # "off" /\ tick = None)
    BY <1>0, <2>1, <2>3
  <2> QED
    BY <2>2, <2>3
<1>2. Minute(clock) \in Minutes /\ Minute(clock') \in Minutes /\ Minutes \subseteq Nat
      /\ Minute(clock) <= Minute(clock')
  BY <1>1, MinuteOfClock
<1>3. UNCHANGED <<loop, now, batch, tasks, lastTriggered, request, decided, ghosts>>
  BY DEF Tick
<1>4. TypeOK'
  BY <1>1, <1>2, <1>3 DEF SInv, TypeOK, ghosts
<1>5. TimeInv'
  <2>1. now \in Nat /\ (tick # None => tick \in Nat)
    BY <1>2 DEF SInv, TypeOK
  <2>2. now <= clock' \div 2 /\ (loop = "off" => tick' = None)
    BY <1>1, <1>2, <1>3, <2>1 DEF SInv, TimeInv
  <2>3. tick' # None => now <= tick' /\ tick' <= clock' \div 2
    <3>1. CASE tick' = tick
      BY <1>1, <1>2, <2>1, <3>1 DEF SInv, TimeInv
    <3>2. CASE tick' = Minute(clock')
      BY <1>1, <1>2, <2>1, <2>2, <3>2
    <3> QED
      BY <1>1, <3>1, <3>2
  <2> QED
    BY <1>3, <2>2, <2>3 DEF TimeInv
<1> QED
  BY <1>3, <1>4, <1>5, UnmarkedStep DEF SInv

(* A minute is begun: nothing was decided for a later one.                  *)
LEMMA BeginStep == SInv /\ (Start \/ TakeTick) => SInv'
<1> SUFFICES ASSUME SInv, Start \/ TakeTick PROVE SInv'
  OBVIOUS
<1> USE DEF SInv, TypeOK
<1>1. clock \in 0..MaxClock /\ Minute(clock) \in Minutes /\ Minutes \subseteq Nat
  BY MinuteOfClock
<1>2. /\ UNCHANGED <<clock, batch, tasks, lastTriggered, request, decided, ghosts>>
      /\ loop' \in {"starting", "ticked"}
      /\ tick' \in {tick, None}
      /\ now' \in Minutes /\ now <= now' /\ now' <= Minute(clock)
      /\ tick' # None => now' <= tick'
  <2>1. CASE Start
    BY <1>1, <2>1 DEF Start, TimeInv
  <2>2. CASE TakeTick
    BY <1>1, <2>2 DEF TakeTick, TimeInv
  <2> QED
    BY <2>1, <2>2
<1>3. TypeOK' /\ TimeInv'
  BY <1>1, <1>2 DEF ghosts, TimeInv
<1>4. DecidedInv'
  <2> SUFFICES ASSUME NEW t \in TaskIds, NEW m \in Minutes, decided[t][m] > 0
               PROVE  /\ m <= now'
                      /\ m = now' => <<m, lastTriggered[t]>> \in fired[t] \/ m \in displaced[t]
    BY <1>2 DEF DecidedInv, ghosts
  <2>1. m <= now /\ (m = now => <<m, lastTriggered[t]>> \in fired[t] \/ m \in displaced[t])
    BY DEF DecidedInv
  <2>2. m \in Nat /\ now \in Nat /\ now' \in Nat
    BY <1>1, <1>2
  <2> QED
    BY <1>2, <2>1, <2>2
<1>5. MarkInv' /\ DoubleFireNeedsPriming' /\ PassedOverForAReason'
  BY <1>2 DEF MarkInv, DoubleFireNeedsPriming, PassedOverForAReason, ghosts
<1> QED
  BY <1>3, <1>4, <1>5

LEMMA CopyTasksStep == SInv /\ CopyTasks => SInv'
<1> SUFFICES ASSUME SInv, CopyTasks PROVE SInv'
  OBVIOUS
<1>1. /\ UNCHANGED <<clock, tick, now, tasks, lastTriggered, request, decided, ghosts>>
      /\ batch' = tasks /\ loop' \in {"priming", "walking"}
  BY DEF CopyTasks
<1>2. TypeOK' /\ TimeInv'
  BY <1>1 DEF SInv, TypeOK, TimeInv, ghosts
<1> QED
  BY <1>1, <1>2, UnmarkedStep DEF SInv

LEMMA WalkEndsStep == SInv /\ WalkEnds => SInv'
<1> SUFFICES ASSUME SInv, WalkEnds PROVE SInv'
  OBVIOUS
<1>1. /\ UNCHANGED <<clock, tick, now, batch, tasks, lastTriggered, request, decided, ghosts>>
      /\ loop' = "idle"
  BY DEF WalkEnds
<1>2. TypeOK' /\ TimeInv'
  BY <1>1 DEF SInv, TypeOK, TimeInv, ghosts
<1> QED
  BY <1>1, <1>2, UnmarkedStep DEF SInv

LEMMA PrimeNextStep == ASSUME NEW t \in TaskIds PROVE SInv /\ PrimeNext(t) => SInv'
<1> SUFFICES ASSUME SInv, PrimeNext(t) PROVE SInv'
  OBVIOUS
<1>1. /\ UNCHANGED <<clock, tick, loop, now, tasks, request, decided, fired, passed>>
      /\ batch' = [batch EXCEPT ![t] = None]
      /\ batch[t] \in Task /\ now \in Minutes
      /\ PrimeTask(t, batch[t], now)
  BY DEF PrimeNext, SInv, TypeOK
<1>2. /\ lastTriggered' \in [TaskIds -> Labels \cup {None}]
      /\ primed' \in [TaskIds -> SUBSET Labels]
      /\ displaced' \in [TaskIds -> SUBSET Minutes]
      /\ MarkInv' /\ DecidedInv' /\ DoubleFireNeedsPriming' /\ PassedOverForAReason'
  BY <1>1, PrimingStep
<1>3. TypeOK' /\ TimeInv'
  BY <1>1, <1>2 DEF SInv, TypeOK, TimeInv
<1> QED
  BY <1>2, <1>3 DEF SInv

-------------------------------------------------------------------------------
(* The walk                                                                 *)

(* A second decision for the minute means that its mark was replaced.       *)
LEMMA DecideStep == ASSUME NEW t \in TaskIds PROVE SInv /\ Decide(t) => SInv'
<1> SUFFICES ASSUME SInv, Decide(t) PROVE SInv'
  OBVIOUS
<1> USE DEF SInv, TypeOK
<1> DEFINE k == Key(batch[t], now)
<1>0. now \in Minutes /\ k \in Labels /\ Minutes \subseteq Nat
  BY KeyIsText DEF Minutes, Decide
<1>1. /\ UNCHANGED <<clock, tick, loop, now, tasks, request, primed, displaced, passed>>
      /\ batch' = [batch EXCEPT ![t] = None]
      /\ lastTriggered' = [lastTriggered EXCEPT ![t] = k]
      /\ decided' = [decided EXCEPT ![t][now] = IF @ < 2 THEN @ + 1 ELSE @]
      /\ fired' = [fired EXCEPT ![t] = @ \cup {<<now, k>>}]
      /\ lastTriggered[t] # k
  BY DEF Decide, CountDecision
<1> HIDE DEF k
<1>2. \A u \in TaskIds, m \in Minutes :
        /\ decided'[u][m] \in 0..2
        /\ decided[u][m] > 0 => decided'[u][m] > 0
        /\ decided'[u][m] # decided[u][m] => u = t /\ m = now
  BY <1>0, <1>1
<1>3. decided[t][now] = 0 => decided'[t][now] = 1
  BY <1>0, <1>1
<1>4. /\ \A u \in TaskIds : fired[u] \subseteq fired'[u]
      /\ <<now, k>> \in fired'[t]
  BY <1>1
<1>5. TypeOK' /\ TimeInv'
  <2>1. decided' \in [TaskIds -> [Minutes -> 0..2]]
    BY <1>0, <1>1
  <2>2. fired' \in [TaskIds -> SUBSET (Minutes \X Labels)]
    BY <1>0, <1>1
  <2>3. lastTriggered' \in [TaskIds -> Labels \cup {None}] /\ batch' \in [TaskIds -> Task \cup {None}]
    BY <1>0, <1>1
  <2> QED
    BY <1>1, <2>1, <2>2, <2>3 DEF TimeInv
<1>6. MarkInv'
  <2> SUFFICES ASSUME NEW u \in TaskIds, lastTriggered'[u] # None
               PROVE  \/ lastTriggered'[u] \in primed[u]
                      \/ \E n \in Minutes : <<n, lastTriggered'[u]>> \in fired'[u]
    BY <1>1 DEF MarkInv
  <2>1. CASE u = t
    BY <1>0, <1>1, <1>4, <2>1
  <2>2. CASE u # t
    <3>1. lastTriggered'[u] = lastTriggered[u]
      BY <1>1, <2>2
    <3> QED
      BY <1>4, <3>1 DEF MarkInv
  <2> QED
    BY <2>1, <2>2
<1>7. DecidedInv'
  <2> SUFFICES ASSUME NEW u \in TaskIds, NEW m \in Minutes, decided'[u][m] > 0
               PROVE  /\ m <= now
                      /\ m = now => <<m, lastTriggered'[u]>> \in fired'[u] \/ m \in displaced[u]
    BY <1>1 DEF DecidedInv
  <2>1. CASE u = t /\ m = now
    BY <1>0, <1>1, <1>4, <2>1
  <2>2. CASE u = t /\ m # now
    BY <1>2, <2>2 DEF DecidedInv
  <2>3. CASE u # t
    <3>1. lastTriggered'[u] = lastTriggered[u] /\ decided'[u][m] = decided[u][m]
      BY <1>1, <1>2, <2>3
    <3> QED
      BY <1>4, <3>1 DEF DecidedInv
  <2> QED
    BY <2>1, <2>2, <2>3
<1>8. DoubleFireNeedsPriming'
  <2> SUFFICES ASSUME NEW u \in TaskIds, NEW m \in Minutes, decided'[u][m] = 2
               PROVE  \/ m \in displaced[u]
                      \/ \E j, l \in Labels :
                           j # l /\ <<m, j>> \in fired'[u] /\ <<m, l>> \in fired'[u]
    BY <1>1 DEF DoubleFireNeedsPriming
  <2>1. CASE decided[u][m] = 2
    BY <1>4, <2>1 DEF DoubleFireNeedsPriming
  <2>2. CASE decided[u][m] # 2
    <3>1. u = t /\ m = now
      BY <1>2, <2>2
    <3>2. decided[t][now] > 0
      BY <1>0, <1>3, <3>1
    <3>3. <<now, lastTriggered[t]>> \in fired[t] \/ now \in displaced[t]
      BY <1>0, <3>2 DEF DecidedInv
    <3>4. ASSUME <<now, lastTriggered[t]>> \in fired[t]
          PROVE  lastTriggered[t] \in Labels
      BY <3>4
    <3> QED
      BY <1>0, <1>1, <1>4, <3>1, <3>3, <3>4
  <2> QED
    BY <2>1, <2>2
<1>9. PassedOverForAReason'
  BY <1>1, <1>4 DEF PassedOverForAReason
<1> QED
  BY <1>5, <1>6, <1>7, <1>8, <1>9

(* What the loop passes over is marked, and a mark has its reason.          *)
LEMMA PassOverStep == ASSUME NEW t \in TaskIds PROVE SInv /\ PassOver(t) => SInv'
<1> SUFFICES ASSUME SInv, PassOver(t) PROVE SInv'
  OBVIOUS
<1> USE DEF SInv, TypeOK
<1> DEFINE k == Key(batch[t], now)
<1>0. k \in Labels /\ None \notin Labels
  BY KeyIsText, ConstantsAssumption DEF PassOver
<1>1. /\ UNCHANGED <<clock, tick, loop, now, tasks, lastTriggered, request, decided, fired, primed,
                     displaced>>
      /\ batch' = [batch EXCEPT ![t] = None]
      /\ passed' = [passed EXCEPT ![t] = IF Due(batch[t], now) THEN @ \cup {k} ELSE @]
      /\ Due(batch[t], now) => lastTriggered[t] = k
  BY DEF PassOver, CountPassed
<1> HIDE DEF k
<1>2. TypeOK' /\ TimeInv'
  BY <1>0, <1>1 DEF TimeInv
<1>3. MarkInv' /\ DecidedInv' /\ DoubleFireNeedsPriming'
  BY <1>1 DEF MarkInv, DecidedInv, DoubleFireNeedsPriming
<1>4. PassedOverForAReason'
  <2> SUFFICES ASSUME NEW u \in TaskIds, NEW l \in passed'[u]
               PROVE  l \in primed[u] \cup {f[2] : f \in fired[u]}
    BY <1>1 DEF PassedOverForAReason
  <2>1. CASE l \in passed[u]
    BY <2>1 DEF PassedOverForAReason
  <2>2. CASE l \notin passed[u]
    <3>1. u = t /\ l = k /\ lastTriggered[t] = k
      BY <1>0, <1>1, <2>2
    <3>2. k \in primed[t] \/ \E n \in Minutes : <<n, k>> \in fired[t]
      BY <1>0, <3>1 DEF MarkInv
    <3>3. ASSUME NEW n \in Minutes, <<n, k>> \in fired[t]
          PROVE  k \in {f[2] : f \in fired[t]}
      BY <3>3
    <3> QED
      BY <3>1, <3>2, <3>3
  <2> QED
    BY <2>1, <2>2
<1> QED
  BY <1>2, <1>3, <1>4

-------------------------------------------------------------------------------
(* Requests                                                                 *)

LEMMA RegisterStep ==
  ASSUME SInv, NEW t \in TaskIds, NEW task \in Task, Register(t, task),
         request' \in [Callers -> Request]
  PROVE  SInv'
<1>1. /\ UNCHANGED <<clock, tick, loop, now, batch, decided, fired, passed>>
      /\ tasks' = [tasks EXCEPT ![t] = task]
      /\ PrimeTask(t, task, Minute(clock))
  BY DEF Register
<1>2. Minute(clock) \in Minutes
  BY MinuteOfClock DEF SInv, TypeOK
<1>3. /\ lastTriggered' \in [TaskIds -> Labels \cup {None}]
      /\ primed' \in [TaskIds -> SUBSET Labels]
      /\ displaced' \in [TaskIds -> SUBSET Minutes]
      /\ MarkInv' /\ DecidedInv' /\ DoubleFireNeedsPriming' /\ PassedOverForAReason'
  <2> HIDE DEF Minute
  <2> QED
    BY <1>1, <1>2, PrimingStep
<1>4. TypeOK' /\ TimeInv'
  BY <1>1, <1>3 DEF SInv, TypeOK, TimeInv
<1> QED
  BY <1>3, <1>4 DEF SInv

(* A step that changes only tasks and requests                              *)
LEMMA TaskStep ==
  ASSUME SInv,
         tasks' \in [TaskIds -> Task \cup {None}],
         request' \in [Callers -> Request],
         UNCHANGED <<clock, tick, loop, now, batch, lastTriggered, decided, ghosts>>
  PROVE  SInv'
<1>1. TypeOK' /\ TimeInv'
  BY DEF SInv, TypeOK, TimeInv, ghosts
<1> QED
  BY <1>1, UnmarkedStep DEF SInv

LEMMA ImportStep == ASSUME NEW t \in TaskIds PROVE SInv /\ ImportTask(t) => SInv'
<1> SUFFICES ASSUME SInv, ImportTask(t) PROVE SInv'
  OBVIOUS
<1>1. PICK enabled \in BOOLEAN, schedule \in Schedules :
        Register(t, [enabled |-> enabled, schedule |-> schedule])
  BY DEF ImportTask
<1>2. [enabled |-> enabled, schedule |-> schedule] \in Task
  BY DEF Task
<1>3. request' \in [Callers -> Request]
  BY DEF ImportTask, SInv, TypeOK
<1> QED
  BY <1>1, <1>2, <1>3, RegisterStep

LEMMA RemoveStep == ASSUME NEW t \in TaskIds PROVE SInv /\ RemoveTask(t) => SInv'
<1> SUFFICES ASSUME SInv, RemoveTask(t) PROVE SInv'
  OBVIOUS
<1>1. /\ tasks' \in [TaskIds -> Task \cup {None}] /\ request' \in [Callers -> Request]
      /\ UNCHANGED <<clock, tick, loop, now, batch, lastTriggered, decided, ghosts>>
  BY DEF RemoveTask, SInv, TypeOK
<1> QED
  BY <1>1, TaskStep

LEMMA ReloadReadStep ==
  ASSUME NEW h \in Callers, NEW t \in TaskIds PROVE SInv /\ ReloadRead(h, t) => SInv'
<1> SUFFICES ASSUME SInv, ReloadRead(h, t) PROVE SInv'
  OBVIOUS
<1>1. tasks[t] \in Task
  BY DEF ReloadRead, SInv, TypeOK
<1>2. [op |-> "reload", task |-> t, enabled |-> tasks[t].enabled] \in Request
  BY <1>1 DEF Task, Request
<1>3. /\ tasks' \in [TaskIds -> Task \cup {None}] /\ request' \in [Callers -> Request]
      /\ UNCHANGED <<clock, tick, loop, now, batch, lastTriggered, decided, ghosts>>
  BY <1>2 DEF ReloadRead, SInv, TypeOK
<1> QED
  BY <1>3, TaskStep

LEMMA SetEnabledStep ==
  ASSUME NEW h \in Callers, NEW t \in TaskIds PROVE SInv /\ SetTaskEnabled(h, t) => SInv'
<1> SUFFICES ASSUME SInv, SetTaskEnabled(h, t) PROVE SInv'
  OBVIOUS
<1>1. tasks[t] \in Task
  BY DEF SetTaskEnabled, SInv, TypeOK
<1>2. PICK enabled \in BOOLEAN :
        /\ tasks' = [tasks EXCEPT ![t] = [tasks[t] EXCEPT !.enabled = enabled]]
        /\ request' = [request EXCEPT ![h] =
             IF enabled THEN [op |-> "enabled", task |-> t,
                              copy |-> [tasks[t] EXCEPT !.enabled = enabled]] ELSE None]
  BY DEF SetTaskEnabled
<1>3. [tasks[t] EXCEPT !.enabled = enabled] \in Task
  BY <1>1 DEF Task
<1>4. DEFINE copy == [tasks[t] EXCEPT !.enabled = enabled]
<1>5. copy \in Task
  BY <1>3
<1> HIDE DEF copy
<1>6. [op |-> "enabled", task |-> t, copy |-> copy] \in Request /\ None \in Request
  BY <1>5 DEF Request
<1>7. /\ tasks' = [tasks EXCEPT ![t] = copy]
      /\ request' = [request EXCEPT ![h] =
           IF enabled THEN [op |-> "enabled", task |-> t, copy |-> copy] ELSE None]
  BY <1>2 DEF copy
<1>8. tasks' \in [TaskIds -> Task \cup {None}] /\ request' \in [Callers -> Request]
  BY <1>5, <1>6, <1>7 DEF SInv, TypeOK
<1>9. UNCHANGED <<clock, tick, loop, now, batch, lastTriggered, decided, ghosts>>
  BY DEF SetTaskEnabled
<1> QED
  BY <1>8, <1>9, TaskStep

LEMMA ReloadImportStep == ASSUME NEW h \in Callers PROVE SInv /\ ReloadImport(h) => SInv'
<1> SUFFICES ASSUME SInv, ReloadImport(h) PROVE SInv'
  OBVIOUS
<1>1. request[h].task \in TaskIds /\ request[h].enabled \in BOOLEAN
  BY DEF ReloadImport, SInv, TypeOK, Request
<1>2. PICK schedule \in Schedules :
        Register(request[h].task, [enabled |-> request[h].enabled, schedule |-> schedule])
  BY DEF ReloadImport
<1>3. [enabled |-> request[h].enabled, schedule |-> schedule] \in Task
  BY <1>1 DEF Task
<1>4. request' \in [Callers -> Request]
  BY DEF ReloadImport, SInv, TypeOK, Request
<1> QED
  BY <1>1, <1>2, <1>3, <1>4, RegisterStep

LEMMA ReadsClockStep == ASSUME NEW h \in Callers PROVE SInv /\ EnabledReadsClock(h) => SInv'
<1> SUFFICES ASSUME SInv, EnabledReadsClock(h) PROVE SInv'
  OBVIOUS
<1>1. request[h].task \in TaskIds /\ request[h].copy \in Task
  BY DEF EnabledReadsClock, SInv, TypeOK, Request
<1>2. Minute(clock) \in Minutes
  BY MinuteOfClock DEF SInv, TypeOK
<1> HIDE DEF Minute
<1>3. [op |-> "prime", task |-> request[h].task, copy |-> request[h].copy, at |-> Minute(clock)]
        \in Request
  BY <1>1, <1>2 DEF Request
<1>4. /\ tasks' \in [TaskIds -> Task \cup {None}] /\ request' \in [Callers -> Request]
      /\ UNCHANGED <<clock, tick, loop, now, batch, lastTriggered, decided, ghosts>>
  BY <1>3 DEF EnabledReadsClock, SInv, TypeOK
<1> QED
  BY <1>4, TaskStep

LEMMA EnabledPrimesStep == ASSUME NEW h \in Callers PROVE SInv /\ EnabledPrimes(h) => SInv'
<1> SUFFICES ASSUME SInv, EnabledPrimes(h) PROVE SInv'
  OBVIOUS
<1>1. request[h].task \in TaskIds /\ request[h].copy \in Task /\ request[h].at \in Minutes
  BY DEF EnabledPrimes, SInv, TypeOK, Request
<1>2. /\ UNCHANGED <<clock, tick, loop, now, batch, tasks, decided, fired, passed>>
      /\ request' = [request EXCEPT ![h] = None]
      /\ PrimeTask(request[h].task, request[h].copy, request[h].at)
  BY DEF EnabledPrimes
<1>3. /\ lastTriggered' \in [TaskIds -> Labels \cup {None}]
      /\ primed' \in [TaskIds -> SUBSET Labels]
      /\ displaced' \in [TaskIds -> SUBSET Minutes]
      /\ MarkInv' /\ DecidedInv' /\ DoubleFireNeedsPriming' /\ PassedOverForAReason'
  BY <1>1, <1>2, PrimingStep
<1>4. request' \in [Callers -> Request]
  BY <1>2 DEF SInv, TypeOK, Request
<1>5. TypeOK' /\ TimeInv'
  BY <1>2, <1>3, <1>4 DEF SInv, TypeOK, TimeInv
<1> QED
  BY <1>3, <1>5 DEF SInv

-------------------------------------------------------------------------------
LEMMA StepSInv == SInv /\ [Next]_vars => SInv'
<1> SUFFICES ASSUME SInv, [Next]_vars PROVE SInv'
  OBVIOUS
<1>1. CASE Tick
  BY <1>1, TickStep
<1>2. CASE LoopNext
  BY <1>2, BeginStep, CopyTasksStep, WalkEndsStep, PrimeNextStep, DecideStep, PassOverStep DEF LoopNext
<1>3. CASE RequestNext
  BY <1>3, ImportStep, RemoveStep, ReloadReadStep, SetEnabledStep, ReloadImportStep,
     ReadsClockStep, EnabledPrimesStep DEF RequestNext
<1>4. CASE UNCHANGED vars
  BY <1>4 DEF vars, ghosts, SInv, TypeOK, TimeInv, MarkInv, DecidedInv, DoubleFireNeedsPriming,
              PassedOverForAReason
<1> QED
  BY <1>1, <1>2, <1>3, <1>4 DEF Next

LEMMA SInvHolds == Spec => []SInv
<1> QED
  BY InitSInv, StepSInv, PTL DEF Spec

(* Every variable keeps its type.                                           *)
THEOREM TypeOKTheorem == Spec => []TypeOK
<1>1. SInv => TypeOK
  BY DEF SInv
<1> QED
  BY <1>1, SInvHolds, PTL

(* scheduler.go: a second run for a minute takes a PrimeTask that put       *)
(* another text in the place of its mark, or another time zone of the       *)
(* manifest, in which the minute has another text.                          *)
THEOREM DoubleFireNeedsPrimingTheorem == Spec => []DoubleFireNeedsPriming
<1>1. SInv => DoubleFireNeedsPriming
  BY DEF SInv
<1> QED
  BY <1>1, SInvHolds, PTL

(* scheduler.go: a due task the loop passes over was decided for, or        *)
(* primed, at a minute of the same text.                                    *)
THEOREM PassedOverTheorem == Spec => []PassedOverForAReason
<1>1. SInv => PassedOverForAReason
  BY DEF SInv
<1> QED
  BY <1>1, SInvHolds, PTL

-------------------------------------------------------------------------------
(* Cron expressions: what the two readers make of any five fields, and      *)
(* what NextRun finds.  The fields that can be written, and the times that  *)
(* a minute of the year can have.                                           *)
CronSegments == [kind : {"number", "range", "junk"}, lo : Int, hi : Int]
CronFields ==
  {Star} \cup {Step(n) : n \in Int} \cup {List(s) : s \in Seq(CronSegments)}
CronTimes ==
  [minute : 0..59, hour : 0..23, day : 1..31, month : 1..12, weekday : 0..6]

(* */n allows the values that are multiples of n away from the least one.   *)
LEMMA StepsAreMultiples ==
  ASSUME NEW min \in Nat, NEW max \in Nat, NEW n \in Nat \ {0}, NEW v \in min..max
  PROVE  (v - min) % n = 0 <=> \E k \in 0..max : v = min + k * n
<1> DEFINE d == v - min
<1>1. d \in Nat /\ d <= max OBVIOUS
<1>2. d = n * (d \div n) + (d % n) /\ d \div n \in Nat /\ d % n \in 0..(n - 1)
  <2> HIDE DEF d
  <2> QED BY <1>1, SMTT(20)
<1>3. ASSUME d % n = 0 PROVE \E k \in 0..max : v = min + k * n
  <2> DEFINE q == d \div n
  <2>1. q \in Nat /\ d = n * q BY <1>2, <1>3
  <2>2. q <= n * q BY <2>1, Z3
  <2> HIDE DEF q
  <2>3. q \in 0..max /\ v = min + q * n BY <1>1, <2>1, <2>2
  <2> QED BY <2>3
<1>4. ASSUME NEW k \in 0..max, v = min + k * n PROVE d % n = 0
  <2>1. d = k * n BY <1>4
  <2>2. (k * n) % n = 0 BY Z3
  <2> QED BY <2>1, <2>2
<1> QED BY <1>3, <1>4

LEMMA BoundsFacts ==
  /\ \A i \in 1..5 : Bounds[i].min \in Nat /\ Bounds[i].max \in Nat /\ Bounds[i].min <= Bounds[i].max
  /\ \A i \in 1..4 : Bounds[i].max # 7
  /\ Bounds[1] = [min |-> 0, max |-> 59]
  /\ Bounds[2] = [min |-> 0, max |-> 23]
  /\ Bounds[3] = [min |-> 1, max |-> 31]
  /\ Bounds[4] = [min |-> 1, max |-> 12]
  /\ Bounds[5] = [min |-> 0, max |-> 7]
<1>1. Bounds[1] = [min |-> 0, max |-> 59] BY DEF Bounds
<1>2. Bounds[2] = [min |-> 0, max |-> 23] BY DEF Bounds
<1>3. Bounds[3] = [min |-> 1, max |-> 31] BY DEF Bounds
<1>4. Bounds[4] = [min |-> 1, max |-> 12] BY DEF Bounds
<1>5. Bounds[5] = [min |-> 0, max |-> 7] BY DEF Bounds
<1>6. \A i \in 1..5 : i = 1 \/ i = 2 \/ i = 3 \/ i = 4 \/ i = 5 OBVIOUS
<1>7. \A i \in 1..4 : i = 1 \/ i = 2 \/ i = 3 \/ i = 4 OBVIOUS
<1> QED BY <1>1, <1>2, <1>3, <1>4, <1>5, <1>6, <1>7

(* The readings of a field, by its kind.                                    *)
LEMMA StarReadings ==
  ASSUME NEW f, NEW b, f.kind = "star"
  PROVE  /\ ParseField(f, b).ok
         /\ ParseField(f, b).allowed = b.min..b.max
         /\ ParseField(f, b).wildcard
         /\ ValidField(f, b)
         /\ \A v : Names(f, b, v)
<1>1. ParseField(f, b) = [ok |-> TRUE, allowed |-> b.min..b.max, wildcard |-> TRUE]
  BY Zenon DEF ParseField
<1>2. ValidField(f, b) /\ \A v : Names(f, b, v) BY Zenon DEF ValidField, Names
<1> QED BY <1>1, <1>2

LEMMA StepReadings ==
  ASSUME NEW f, NEW b, f.kind = "step"
  PROVE  /\ ParseField(f, b).ok <=> f.n > 0 /\ f.n <= b.max - b.min + 1
         /\ ParseField(f, b).allowed = {v \in b.min..b.max : f.n > 0 /\ (v - b.min) % f.n = 0}
         /\ ~ParseField(f, b).wildcard
         /\ ValidField(f, b) <=> f.n > 0 /\ f.n <= b.max - b.min + 1
         /\ \A v : Names(f, b, v) <=> \E k \in 0..b.max : v = b.min + k * f.n
<1> DEFINE fits == f.n > 0 /\ f.n <= b.max - b.min + 1
           values == {v \in b.min..b.max : f.n > 0 /\ (v - b.min) % f.n = 0}
           meant(v) == \E k \in 0..b.max : v = b.min + k * f.n
<1>1. ~(f.kind = "star") OBVIOUS
<1>2. ParseField(f, b) = [ok |-> fits, allowed |-> values, wildcard |-> FALSE]
  BY <1>1, Zenon DEF ParseField
<1>3. /\ ValidField(f, b) <=> fits
      /\ \A v : Names(f, b, v) <=> meant(v)
  BY <1>1, Zenon DEF ValidField, Names
<1> HIDE DEF fits, values, meant
<1>4. ParseField(f, b).ok = fits BY <1>2
<1>5. ParseField(f, b).allowed = values /\ ParseField(f, b).wildcard = FALSE BY <1>2
<1> QED BY <1>3, <1>4, <1>5, Zenon DEF fits, values, meant

LEMMA ListReadings ==
  ASSUME NEW f, NEW b, f.kind = "list"
  PROVE  /\ ParseField(f, b).ok <=>
              \A s \in Segments(f) :
                s.kind # "junk" /\ s.lo <= s.hi /\ b.min <= s.lo /\ s.hi <= b.max
         /\ ParseField(f, b).allowed =
              UNION {WithSundayAlias(v, b) : v \in UNION {s.lo..s.hi : s \in Segments(f)}}
         /\ ~ParseField(f, b).wildcard
         /\ ValidField(f, b) <=>
              \A s \in Segments(f) :
                s.kind # "junk" /\ s.lo <= s.hi /\ s.lo >= b.min /\ s.hi <= b.max
         /\ \A v : Names(f, b, v) <=> \E s \in Segments(f) : s.lo <= v /\ v <= s.hi
<1> DEFINE parses == \A s \in Segments(f) :
                       s.kind # "junk" /\ s.lo <= s.hi /\ b.min <= s.lo /\ s.hi <= b.max
           valid == \A s \in Segments(f) :
                      s.kind # "junk" /\ s.lo <= s.hi /\ s.lo >= b.min /\ s.hi <= b.max
           values == UNION {WithSundayAlias(v, b) : v \in UNION {s.lo..s.hi : s \in Segments(f)}}
           meant(v) == \E s \in Segments(f) : s.lo <= v /\ v <= s.hi
<1>1. ~(f.kind = "star") /\ ~(f.kind = "step") OBVIOUS
<1>2. ParseField(f, b) = [ok |-> parses, allowed |-> values, wildcard |-> FALSE]
  BY <1>1, Zenon DEF ParseField
<1>3. /\ ValidField(f, b) <=> valid
      /\ \A v : Names(f, b, v) <=> meant(v)
  BY <1>1, Zenon DEF ValidField, Names
<1> HIDE DEF parses, valid, values, meant
<1>4. ParseField(f, b).ok = parses BY <1>2
<1>5. ParseField(f, b).allowed = values /\ ParseField(f, b).wildcard = FALSE BY <1>2
<1> QED BY <1>3, <1>4, <1>5, Zenon DEF parses, valid, values, meant

LEMMA FieldKinds ==
  ASSUME NEW f \in CronFields
  PROVE  /\ f.kind \in {"star", "step", "list"}
         /\ f.kind = "star" => f = Star
         /\ f.kind = "step" => f.n \in Int
         /\ f.kind = "list" => f.segs \in Seq(CronSegments)
BY DEF CronFields, Star, Step, List

LEMMA FieldReadersAgree ==
  ASSUME NEW f \in CronFields, NEW i \in 1..5
  PROVE  ValidField(f, Bounds[i]) <=> ParseField(f, Bounds[i]).ok
<1> DEFINE b == Bounds[i]
<1>0. b.min \in Int /\ b.max \in Int BY BoundsFacts
<1> HIDE DEF b
<1>1. CASE f.kind = "star"
  <2>1. ParseField(f, b).ok BY <1>1, StarReadings
  <2> QED BY <1>1, <2>1, StarReadings DEF b
<1>2. CASE f.kind = "step"
  <2>1. ParseField(f, b).ok <=> (f.n > 0 /\ f.n <= b.max - b.min + 1)
    BY <1>2, StepReadings
  <2> QED BY <1>2, <2>1, StepReadings DEF b
<1>3. CASE f.kind = "list"
  <2>1. ParseField(f, b).ok <=>
          \A s \in Segments(f) :
            s.kind # "junk" /\ s.lo <= s.hi /\ b.min <= s.lo /\ s.hi <= b.max
    BY <1>3, ListReadings
  <2>2. \A s \in Segments(f) : s.lo \in Int
    <3>1. \A j \in DOMAIN f.segs : f.segs[j] \in CronSegments BY <1>3, FieldKinds
    <3> QED BY <3>1 DEF Segments, CronSegments
  <2>3. \A s \in Segments(f) : b.min <= s.lo <=> s.lo >= b.min BY <1>0, <2>2
  <2>4. ValidField(f, b) <=>
          \A s \in Segments(f) :
            s.kind # "junk" /\ s.lo <= s.hi /\ s.lo >= b.min /\ s.hi <= b.max
    BY <1>3, ListReadings
  <2> QED BY <2>1, <2>3, <2>4 DEF b
<1> QED BY <1>1, <1>2, <1>3, FieldKinds

(* loader.go:488, cron.go:101: the loader accepts an expression at import   *)
(* exactly when the scheduler can parse it at a tick, whatever its fields.  *)
THEOREM LoaderAgreesTheorem ==
  \A e \in Seq(CronFields) : ValidExpression(e) <=> Parses(e)
<1> SUFFICES ASSUME NEW e \in Seq(CronFields) PROVE ValidExpression(e) <=> Parses(e)
  OBVIOUS
<1>1. \A i \in 1..5 : ParseCron(e)[i] = ParseField(e[i], Bounds[i]) BY DEF ParseCron
<1>2. Len(e) = 5 => \A i \in 1..5 : e[i] \in CronFields BY ElementOfSeq
<1> QED BY FieldReadersAgree, <1>1, <1>2 DEF ValidExpression, Parses

(* A field that parses allows the values the document says it names; in the *)
(* field of the weekday, a 7 allows 0 as well.                              *)
LEMMA FieldNames ==
  ASSUME NEW f \in CronFields, NEW i \in 1..5, NEW v \in Bounds[i].min..Bounds[i].max,
         ParseField(f, Bounds[i]).ok
  PROVE  /\ Bounds[i].max # 7 => (v \in ParseField(f, Bounds[i]).allowed <=> Names(f, Bounds[i], v))
         /\ Bounds[i].max = 7 /\ v < 7 =>
              (v \in ParseField(f, Bounds[i]).allowed <=>
                 Names(f, Bounds[i], v) \/ (v = 0 /\ Names(f, Bounds[i], 7)))
<1> DEFINE b == Bounds[i]
<1>b. b.min \in Nat /\ b.max \in Nat /\ b.min <= b.max /\ (b.max = 7 => b.min = 0)
  <2>1. i = 1 \/ i = 2 \/ i = 3 \/ i = 4 \/ i = 5 OBVIOUS
  <2> QED BY <2>1, BoundsFacts
<1> HIDE DEF b
<1> SUFFICES
      ASSUME ParseField(f, b).ok, v \in b.min..b.max
      PROVE  /\ b.max # 7 => (v \in ParseField(f, b).allowed <=> Names(f, b, v))
             /\ b.max = 7 /\ v < 7 =>
                  (v \in ParseField(f, b).allowed <=> Names(f, b, v) \/ (v = 0 /\ Names(f, b, 7)))
  BY DEF b
<1>1. CASE f.kind = "star"
  <2>1. ParseField(f, b).allowed = b.min..b.max BY <1>1, StarReadings
  <2>2. \A w : Names(f, b, w) BY <1>1, StarReadings
  <2> QED BY <2>1, <2>2
<1>2. CASE f.kind = "step"
  <2> DEFINE n == f.n
  <2>1. ParseField(f, b).ok <=> (n > 0 /\ n <= b.max - b.min + 1) BY <1>2, StepReadings
  <2>2. n \in Nat \ {0}
    <3>1. n \in Int /\ n > 0 BY <1>2, <2>1, FieldKinds
    <3> QED BY <3>1
  <2>3. v \in ParseField(f, b).allowed <=> (v - b.min) % n = 0
    <3>1. ParseField(f, b).allowed = {w \in b.min..b.max : n > 0 /\ (w - b.min) % n = 0}
      BY <1>2, StepReadings
    <3> HIDE DEF n
    <3> QED BY <2>2, <3>1
  <2>4. Names(f, b, v) <=> \E k \in 0..b.max : v = b.min + k * n
    BY <1>2, StepReadings
  <2> HIDE DEF n
  <2>5. v \in ParseField(f, b).allowed <=> Names(f, b, v)
    <3>1. (v - b.min) % n = 0 <=> \E k \in 0..b.max : v = b.min + k * n
      <4>1. b.min \in Nat /\ b.max \in Nat BY <1>b
      <4> QED BY <2>2, <4>1, StepsAreMultiples, ZenonT(30)
    <3> QED BY <2>3, <2>4, <3>1
  <2>6. b.max = 7 /\ v = 0 => Names(f, b, v)
    <3>1. b.max = 7 /\ v = 0 => 0 \in 0..b.max /\ v = b.min + 0 * n BY <1>b, <2>2
    <3> QED BY <2>4, <3>1
  <2> QED BY <2>5, <2>6
<1>3. CASE f.kind = "list"
  <2> DEFINE values == UNION {g.lo..g.hi : g \in Segments(f)}
  <2>2. \A g \in Segments(f) : g.lo \in Int /\ g.hi \in Int
    <3>1. \A j \in DOMAIN f.segs : f.segs[j] \in CronSegments BY <1>3, FieldKinds
    <3> QED BY <3>1 DEF Segments, CronSegments
  <2>4. \A w : w \in ParseField(f, b).allowed <=> \E u \in values : w \in WithSundayAlias(u, b)
    <3>1. ParseField(f, b).allowed = UNION {WithSundayAlias(u, b) : u \in values}
      BY <1>3, ListReadings, Zenon
    <3> HIDE DEF values
    <3> QED BY <3>1
  <2>5. \A w \in Int : w \in values <=> Names(f, b, w)
    <3>1. \A w : Names(f, b, w) <=> \E s \in Segments(f) : s.lo <= w /\ w <= s.hi
      BY <1>3, ListReadings
    <3> QED BY <2>2, <3>1
  <2>6. values \subseteq Int BY <2>2
  <2> HIDE DEF values
  <2>7. CASE b.max # 7
    <3>1. \A u : WithSundayAlias(u, b) = {u} BY <2>7 DEF WithSundayAlias
    <3> QED BY <2>4, <2>5, <2>7, <3>1, <1>b
  <2>8. CASE b.max = 7
    <3>1. \A u : WithSundayAlias(u, b) = IF u \in {0, 7} THEN {0, 7} \cup {u} ELSE {u}
      BY <2>8 DEF WithSundayAlias
    <3>2. v \in Int /\ 7 \in Int BY <1>b
    <3>3. v < 7 => (v \in ParseField(f, b).allowed <=> v \in values \/ (v = 0 /\ 7 \in values))
      BY <2>4, <2>6, <3>1, <3>2, <2>8, <1>b
    <3> QED BY <2>5, <2>8, <3>2, <3>3
  <2> QED BY <2>7, <2>8
<1> QED BY <1>1, <1>2, <1>3, FieldKinds

(* cron.go:57, MANIFEST_SCHEMA.md:194: an expression that parses matches the *)
(* times the document says it does, for every expression and every time.    *)
THEOREM MatchesTheorem ==
  ASSUME NEW e \in Seq(CronFields), Parses(e), NEW t \in CronTimes
  PROVE  Matches(ParseCron(e), t) <=> SchemaMatches(e, t)
<1> DEFINE c == ParseCron(e)
<1>1. \A i \in 1..5 : /\ e[i] \in CronFields
                      /\ c[i] = ParseField(e[i], Bounds[i])
                      /\ ParseField(e[i], Bounds[i]).ok
  <2>1. Len(e) = 5 /\ \A i \in 1..5 : c[i].ok BY DEF Parses
  <2>2. \A i \in 1..5 : c[i] = ParseField(e[i], Bounds[i]) BY DEF ParseCron
  <2>3. \A i \in 1..5 : e[i] \in CronFields BY <2>1, ElementOfSeq
  <2> QED BY <2>1, <2>2, <2>3
<1>d. ASSUME NEW i \in 1..4, NEW v \in Bounds[i].min..Bounds[i].max
      PROVE  v \in c[i].allowed <=> Names(e[i], Bounds[i], v)
  <2>1. i \in 1..5 /\ Bounds[i].max # 7 BY BoundsFacts
  <2> QED BY <1>1, <2>1, FieldNames, SMTT(40)
<1>t. /\ t.minute \in 0..59 /\ t.hour \in 0..23 /\ t.day \in 1..31 /\ t.month \in 1..12
      /\ t.weekday \in 0..6
  BY DEF CronTimes
<1>2. t.minute \in c[1].allowed <=> Names(e[1], Bounds[1], t.minute)
  <2>1. Bounds[1].min = 0 /\ Bounds[1].max = 59 BY BoundsFacts
  <2>2. t.minute \in Bounds[1].min..Bounds[1].max BY <1>t, <2>1
  <2> QED BY <1>d, <2>2
<1>3. t.hour \in c[2].allowed <=> Names(e[2], Bounds[2], t.hour)
  <2>1. Bounds[2].min = 0 /\ Bounds[2].max = 23 BY BoundsFacts
  <2>2. t.hour \in Bounds[2].min..Bounds[2].max BY <1>t, <2>1
  <2> QED BY <1>d, <2>2
<1>4. t.day \in c[3].allowed <=> Names(e[3], Bounds[3], t.day)
  <2>1. Bounds[3].min = 1 /\ Bounds[3].max = 31 BY BoundsFacts
  <2>2. t.day \in Bounds[3].min..Bounds[3].max BY <1>t, <2>1
  <2> QED BY <1>d, <2>2
<1>5. t.month \in c[4].allowed <=> Names(e[4], Bounds[4], t.month)
  <2>1. Bounds[4].min = 1 /\ Bounds[4].max = 12 BY BoundsFacts
  <2>2. t.month \in Bounds[4].min..Bounds[4].max BY <1>t, <2>1
  <2> QED BY <1>d, <2>2
<1>6. t.weekday \in c[5].allowed <=> NamesWeekday(e[5], t.weekday)
  <2>1. t.weekday \in Bounds[5].min..Bounds[5].max /\ t.weekday < 7 /\ Bounds[5].max = 7
    BY <1>t, BoundsFacts
  <2>2. e[5] \in CronFields /\ c[5] = ParseField(e[5], Bounds[5]) /\ ParseField(e[5], Bounds[5]).ok
    BY <1>1
  <2>3. t.weekday \in c[5].allowed <=>
          Names(e[5], Bounds[5], t.weekday) \/ (t.weekday = 0 /\ Names(e[5], Bounds[5], 7))
    BY <2>1, <2>2, FieldNames
  <2> QED BY <2>3 DEF NamesWeekday
<1>7. \A f \in CronFields : \A b : ParseField(f, b).wildcard <=> f = Star
  <2> SUFFICES ASSUME NEW f \in CronFields, NEW b PROVE ParseField(f, b).wildcard <=> f = Star
    OBVIOUS
  <2>1. CASE f.kind = "star"
    <3>1. ParseField(f, b).wildcard BY <2>1, StarReadings
    <3> QED BY <2>1, <3>1, FieldKinds
  <2>2. CASE f.kind = "step"
    <3>1. ~ParseField(f, b).wildcard BY <2>2, StepReadings
    <3> QED BY <2>2, <3>1 DEF Star
  <2>3. CASE f.kind = "list"
    <3>1. ~ParseField(f, b).wildcard BY <2>3, ListReadings
    <3> QED BY <2>3, <3>1 DEF Star
  <2> QED BY <2>1, <2>2, <2>3, FieldKinds
<1>8. (c[3].wildcard <=> e[3] = Star) /\ (c[5].wildcard <=> e[5] = Star) BY <1>1, <1>7
<1>9. \A b, v : Names(Star, b, v)
  <2>1. Star.kind = "star" BY DEF Star
  <2> QED BY <2>1, StarReadings
<1>10. \A v : NamesWeekday(Star, v) BY <1>9 DEF NamesWeekday
<1> HIDE DEF c
<1>11. CASE e[3] = Star /\ e[5] = Star
  BY <1>2, <1>3, <1>4, <1>5, <1>6, <1>8, <1>9, <1>10, <1>11 DEF Matches, SchemaMatches, c
<1>12. CASE e[3] = Star /\ e[5] # Star
  BY <1>2, <1>3, <1>4, <1>5, <1>6, <1>8, <1>9, <1>10, <1>12 DEF Matches, SchemaMatches, c
<1>13. CASE e[3] # Star /\ e[5] = Star
  BY <1>2, <1>3, <1>4, <1>5, <1>6, <1>8, <1>9, <1>10, <1>13 DEF Matches, SchemaMatches, c
<1>14. CASE e[3] # Star /\ e[5] # Star
  BY <1>2, <1>3, <1>4, <1>5, <1>6, <1>8, <1>9, <1>10, <1>14 DEF Matches, SchemaMatches, c
<1> QED BY <1>11, <1>12, <1>13, <1>14

(* DaysBefore is defined by recursion; a function that satisfies the equation *)
(* is at hand.                                                              *)
LEMMA DaysBeforeEquation ==
  DaysBefore = [m \in 1..13 |-> IF m = 1 THEN 0 ELSE DaysBefore[m - 1] + MonthLengths[m - 1]]
<1> DEFINE eq(f) == f = [m \in 1..13 |-> IF m = 1 THEN 0 ELSE f[m - 1] + MonthLengths[m - 1]]
           D == <<0, 31, 60, 91, 121, 152, 182, 213, 244, 274, 305, 335, 366>>
<1>1. eq(D)
  <2>1. D = [m \in 1..13 |-> D[m]] OBVIOUS
  <2>2. \A m \in 1..13 : D[m] = IF m = 1 THEN 0 ELSE D[m - 1] + MonthLengths[m - 1]
    BY DEF MonthLengths
  <2> HIDE DEF D
  <2> QED BY <2>1, <2>2
<1>2. DaysBefore = CHOOSE f : eq(f) BY DEF DaysBefore
<1> HIDE DEF eq
<1>3. eq(DaysBefore) BY <1>1, <1>2
<1> QED BY <1>3 DEF eq

LEMMA MonthBounds ==
  /\ DaysBefore[1] = 0 /\ DaysBefore[13] = 366
  /\ \A m \in 1..12 : /\ DaysBefore[m] \in 0..366
                      /\ DaysBefore[m + 1] - DaysBefore[m] \in 29..31
  /\ \A d \in 0..365 : \E m \in 1..12 : DaysBefore[m] <= d /\ d < DaysBefore[m + 1]
<1>0. \A m \in 1..13 : DaysBefore[m] = IF m = 1 THEN 0 ELSE DaysBefore[m - 1] + MonthLengths[m - 1]
  BY DaysBeforeEquation
<1>1. DaysBefore[1] = 0 BY <1>0
<1>2. DaysBefore[2] = 31 BY <1>0, <1>1 DEF MonthLengths
<1>3. DaysBefore[3] = 60 BY <1>0, <1>2 DEF MonthLengths
<1>4. DaysBefore[4] = 91 BY <1>0, <1>3 DEF MonthLengths
<1>5. DaysBefore[5] = 121 BY <1>0, <1>4 DEF MonthLengths
<1>6. DaysBefore[6] = 152 BY <1>0, <1>5 DEF MonthLengths
<1>7. DaysBefore[7] = 182 BY <1>0, <1>6 DEF MonthLengths
<1>8. DaysBefore[8] = 213 BY <1>0, <1>7 DEF MonthLengths
<1>9. DaysBefore[9] = 244 BY <1>0, <1>8 DEF MonthLengths
<1>10. DaysBefore[10] = 274 BY <1>0, <1>9 DEF MonthLengths
<1>11. DaysBefore[11] = 305 BY <1>0, <1>10 DEF MonthLengths
<1>12. DaysBefore[12] = 335 BY <1>0, <1>11 DEF MonthLengths
<1>13. DaysBefore[13] = 366 BY <1>0, <1>12 DEF MonthLengths
<1>14. \A m \in 1..12 : /\ DaysBefore[m] \in 0..366
                        /\ DaysBefore[m + 1] - DaysBefore[m] \in 29..31
  BY <1>1, <1>2, <1>3, <1>4, <1>5, <1>6, <1>7, <1>8, <1>9, <1>10, <1>11, <1>12, <1>13
<1>15. ASSUME NEW d \in 0..365 PROVE \E m \in 1..12 : DaysBefore[m] <= d /\ d < DaysBefore[m + 1]
  <2> SUFFICES ASSUME \A m \in 1..12 : ~(DaysBefore[m] <= d /\ d < DaysBefore[m + 1])
               PROVE  FALSE
    OBVIOUS
  <2> QED BY <1>1, <1>2, <1>3, <1>4, <1>5, <1>6, <1>7, <1>8, <1>9, <1>10, <1>11, <1>12, <1>13
<1> QED BY <1>1, <1>13, <1>14, <1>15

LEMMA Division ==
  ASSUME NEW a \in Nat, NEW n \in Nat \ {0}
  PROVE  a \div n \in Nat /\ a % n \in 0..(n - 1) /\ a = n * (a \div n) + (a % n)
BY SMTT(20)

MinutesOfYear == 366 * 1440

LEMMA YearEnds == DaysBefore[13] = 366
BY MonthBounds

LEMMA MonthLimits ==
  ASSUME NEW m \in 1..12
  PROVE  DaysBefore[m] \in 0..366 /\ DaysBefore[m + 1] - DaysBefore[m] \in 29..31
BY MonthBounds, Zenon

LEMMA MonthOfDay ==
  ASSUME NEW d \in 0..365
  PROVE  \E m \in 1..12 : DaysBefore[m] <= d /\ d < DaysBefore[m + 1]
<1> DEFINE In(m, day) == DaysBefore[m] <= day /\ day < DaysBefore[m + 1]
<1>1. \A day \in 0..365 : \E m \in 1..12 : In(m, day) BY MonthBounds, Zenon
<1> HIDE DEF In
<1>2. \E m \in 1..12 : In(m, d) BY <1>1
<1> QED BY <1>2 DEF In

LEMMA CalendarDay ==
  ASSUME NEW d \in 0..365
  PROVE  LET m == CHOOSE k \in 1..12 : DaysBefore[k] <= d /\ d < DaysBefore[k + 1] IN
         m \in 1..12 /\ d - DaysBefore[m] + 1 \in 1..31
<1> DEFINE m == CHOOSE k \in 1..12 : DaysBefore[k] <= d /\ d < DaysBefore[k + 1]
           first == DaysBefore[m]
           next == DaysBefore[m + 1]
<1>1. m \in 1..12 /\ first <= d /\ d < next BY MonthOfDay, Zenon
<1> HIDE DEF m
<1>2. first \in 0..366 /\ next - first \in 29..31 BY <1>1, MonthLimits, Zenon
<1>3. next \in 0..366
  <2>1. CASE m = 12
    <3>1. m + 1 = 13 BY <2>1
    <3>2. next = 366 BY <3>1, YearEnds, Zenon
    <3> HIDE DEF next
    <3> QED BY <3>2
  <2>2. CASE m # 12
    <3>1. m + 1 \in 1..12 BY <1>1, <2>2
    <3> QED BY <3>1, MonthLimits, Zenon
  <2> QED BY <2>1, <2>2
<1> HIDE DEF first, next
<1>4. d - first + 1 \in 1..31 BY <1>1, <1>2, <1>3
<1> QED BY <1>1, <1>4 DEF m, first

(* The minutes of the year have times.                                      *)
LEMMA AtInRange ==
  ASSUME NEW t \in Nat, t < MinutesOfYear
  PROVE  At(t) \in CronTimes
<1>1. PICK d : d = t \div 1440
  OBVIOUS
<1>2. d \in 0..365
  <2>1. d \in Nat /\ t % 1440 \in 0..(1440 - 1) /\ t = 1440 * d + (t % 1440)
    BY <1>1, Division
  <2>2. t % 1440 \in Nat BY <2>1
  <2> QED BY <2>1, <2>2 DEF MinutesOfYear
<1>3. t % 60 \in 0..59 /\ (t \div 60) % 24 \in 0..23 /\ (d + 1) % 7 \in 0..6
  <2>1. d + 1 \in Nat BY <1>2
  <2>2. t % 60 \in 0..(60 - 1) /\ t \div 60 \in Nat BY Division
  <2>3. (t \div 60) % 24 \in 0..(24 - 1) BY <2>2, Division
  <2>4. (d + 1) % 7 \in 0..(7 - 1)
    <3>1. 7 \in Nat \ {0} OBVIOUS
    <3> QED BY <2>1, <3>1, Division, Zenon
  <2> QED BY <2>2, <2>3, <2>4
<1> DEFINE m == CHOOSE k \in 1..12 : DaysBefore[k] <= d /\ d < DaysBefore[k + 1]
<1>4. At(t) = [minute |-> t % 60, hour |-> (t \div 60) % 24, month |-> m,
               day |-> d - DaysBefore[m] + 1, weekday |-> (d + 1) % 7]
  BY <1>1 DEF At
<1>5. m \in 1..12 /\ d - DaysBefore[m] + 1 \in 1..31 BY <1>2, CalendarDay
<1> HIDE DEF m
<1> DEFINE minute == t % 60
           hour == (t \div 60) % 24
           day == d - DaysBefore[m] + 1
           weekday == (d + 1) % 7
<1> HIDE DEF minute, hour, day, weekday
<1>6. /\ minute \in 0..59 /\ hour \in 0..23 /\ day \in 1..31 /\ m \in 1..12 /\ weekday \in 0..6
      /\ At(t) = [minute |-> minute, hour |-> hour, month |-> m, day |-> day, weekday |-> weekday]
  BY <1>3, <1>4, <1>5 DEF minute, hour, day, weekday
<1> QED BY <1>6 DEF CronTimes

(* NextRun returns the first minute of its window that matches.  Its loop is *)
(* a function defined by recursion: g says what the loop returns from every *)
(* index, satisfies the equation, and there is no greatest index at which   *)
(* another function that satisfies it differs from g.                       *)
LEMMA NextRunIsFirst ==
  ASSUME NEW c, NEW after \in Nat, NEW limit \in Nat
  PROVE  LET ahead == {u \in (after + 1)..(after + limit) : Matches(c, At(u))} IN
         IF ahead = {} THEN NextRun(c, after, limit) = NoRun
         ELSE /\ NextRun(c, after, limit) \in ahead
              /\ \A u \in ahead : NextRun(c, after, limit) <= u
<1> DEFINE good(i) == Matches(c, At(after + 1 + i))
           eq(f) == f = [i \in 0..limit |-> IF i = limit THEN NoRun
                                            ELSE IF good(i) THEN after + 1 + i ELSE f[i + 1]]
           First(i, j) == j \in i..(limit - 1) /\ good(j) /\ \A k \in i..(j - 1) : ~good(k)
           NoneFrom(i) == \A k \in i..(limit - 1) : ~good(k)
           g == [i \in 0..limit |-> IF NoneFrom(i) THEN NoRun ELSE after + 1 + CHOOSE j : First(i, j)]
<1> HIDE DEF good
<1>1. ASSUME NEW i \in 0..limit, ~NoneFrom(i) PROVE \E j : First(i, j)
  <2> DEFINE S == {j \in Nat : j \in i..(limit - 1) /\ good(j)}
  <2>1. S # {} BY <1>1
  <2>2. PICK j \in S : \A k \in S : ~(<<k, j>> \in OpToRel(<, Nat))
    BY <2>1, WFMin, NatLessThanWellFounded
  <2>3. \A k \in S : ~(k < j) BY <2>2 DEF OpToRel
  <2>4. j \in i..(limit - 1) /\ good(j) BY <2>2
  <2>5. ASSUME NEW k \in i..(j - 1) PROVE ~good(k)
    <3>1. k \in Nat /\ k \in i..(limit - 1) /\ k < j BY <2>4
    <3> QED BY <2>3, <3>1
  <2>6. First(i, j) BY <2>4, <2>5
  <2> QED BY <2>6
<1>2. \A i \in 0..limit : \A j, k : First(i, j) /\ First(i, k) => j = k
  OBVIOUS
<1>3. eq(g)
  <2>1. ASSUME NEW i \in 0..limit
        PROVE  g[i] = IF i = limit THEN NoRun ELSE IF good(i) THEN after + 1 + i ELSE g[i + 1]
    <3>1. CASE i = limit
      <4>1. NoneFrom(i) BY <3>1
      <4> QED BY <3>1, <4>1
    <3>2. CASE i # limit /\ good(i)
      <4>1. i \in 0..(limit - 1) BY <3>2
      <4>2. First(i, i) /\ ~NoneFrom(i) BY <3>2, <4>1
      <4> HIDE DEF First, NoneFrom
      <4>3. (CHOOSE j : First(i, j)) = i BY <4>2, <1>2
      <4> QED BY <3>2, <4>2, <4>3
    <3>3. CASE i # limit /\ ~good(i)
      <4>1. i \in 0..(limit - 1) /\ i + 1 \in 0..limit BY <3>3
      <4>2. NoneFrom(i) <=> NoneFrom(i + 1) BY <3>3, <4>1
      <4>3. \A j : First(i, j) <=> First(i + 1, j) BY <3>3, <4>1
      <4>4. (CHOOSE j : First(i, j)) = (CHOOSE j : First(i + 1, j)) BY <4>3, Zenon
      <4>5. i \in 0..limit /\ i # limit /\ ~good(i) BY <3>3
      <4> HIDE DEF First, NoneFrom
      <4>6. g[i] = IF NoneFrom(i) THEN NoRun ELSE after + 1 + CHOOSE j : First(i, j)
        BY <4>5
      <4>7. g[i + 1] = IF NoneFrom(i + 1) THEN NoRun ELSE after + 1 + CHOOSE j : First(i + 1, j)
        BY <4>1
      <4>8. g[i] = g[i + 1] BY <4>2, <4>4, <4>6, <4>7, Zenon
      <4> HIDE DEF g
      <4> QED BY <4>5, <4>8
    <3> QED BY <3>1, <3>2, <3>3
  <2>2. g = [i \in 0..limit |-> g[i]] OBVIOUS
  <2> HIDE DEF g
  <2> QED BY <2>1, <2>2
<1> DEFINE from == CHOOSE f : eq(f)
<1>4. NextRun(c, after, limit) = from[0] BY DEF NextRun, good
<1>5. eq(from)
  <2> HIDE DEF eq, g
  <2> QED BY <1>3
<1> HIDE DEF from, g
<1>6. ASSUME NEW i \in 0..limit PROVE from[i] = g[i]
  <2> DEFINE S == {n \in Nat : n <= limit /\ from[limit - n] # g[limit - n]}
  <2>1. S = {}
    <3> SUFFICES ASSUME S # {} PROVE FALSE
      OBVIOUS
    <3>1. PICK n \in S : \A k \in S : ~(<<k, n>> \in OpToRel(<, Nat))
      BY WFMin, NatLessThanWellFounded
    <3>2. \A k \in S : ~(k < n) BY <3>1 DEF OpToRel
    <3>3. n \in Nat /\ n <= limit /\ from[limit - n] # g[limit - n] BY <3>1
    <3> HIDE DEF S
    <3> DEFINE j == limit - n
    <3>4. j \in 0..limit BY <3>3
    <3>5. ASSUME NEW l \in 0..limit
          PROVE  /\ from[l] = IF l = limit THEN NoRun ELSE IF good(l) THEN after + 1 + l ELSE from[l + 1]
                 /\ g[l] = IF l = limit THEN NoRun ELSE IF good(l) THEN after + 1 + l ELSE g[l + 1]
      BY <1>3, <1>5
    <3>6. j # limit /\ from[j + 1] # g[j + 1] BY <3>3, <3>4, <3>5
    <3>7. n - 1 \in Nat /\ n - 1 <= limit /\ n - 1 < n /\ limit - (n - 1) = j + 1
      BY <3>3, <3>4, <3>6
    <3>8. n - 1 \in S BY <3>6, <3>7 DEF S
    <3> QED BY <3>2, <3>7, <3>8
  <2>2. limit - i \in Nat /\ limit - i <= limit /\ limit - (limit - i) = i OBVIOUS
  <2> QED BY <2>1, <2>2
<1>7. NextRun(c, after, limit) = g[0] BY <1>4, <1>6
<1>8. CASE NoneFrom(0)
  <2>1. {u \in (after + 1)..(after + limit) : Matches(c, At(u))} = {}
    <3> SUFFICES ASSUME NEW u \in (after + 1)..(after + limit), Matches(c, At(u)) PROVE FALSE
      OBVIOUS
    <3>1. u - after - 1 \in 0..(limit - 1) /\ after + 1 + (u - after - 1) = u OBVIOUS
    <3> QED BY <1>8, <3>1 DEF good
  <2>2. g[0] = NoRun BY <1>8 DEF g
  <2> QED BY <1>7, <2>1, <2>2
<1>9. CASE ~NoneFrom(0)
  <2>1. PICK j : First(0, j) BY <1>1, <1>9
  <2>2. g[0] = after + 1 + j
    <3>0. 0 \in 0..limit OBVIOUS
    <3> HIDE DEF First, NoneFrom
    <3>1. (CHOOSE k : First(0, k)) = j BY <1>2, <2>1, <3>0
    <3> QED BY <1>9, <3>0, <3>1 DEF g
  <2> DEFINE ahead == {u \in (after + 1)..(after + limit) : Matches(c, At(u))}
  <2>3. after + 1 + j \in ahead BY <2>1 DEF good
  <2>4. ASSUME NEW u \in ahead PROVE after + 1 + j <= u
    <3>1. u - after - 1 \in 0..(limit - 1) /\ after + 1 + (u - after - 1) = u OBVIOUS
    <3>2. good(u - after - 1) BY <3>1 DEF good
    <3> QED BY <2>1, <3>1, <3>2
  <2> QED BY <1>7, <2>2, <2>3, <2>4
<1> QED BY <1>8, <1>9

(* cron.go:75: within the year, NextRun returns the first minute of its     *)
(* window that the document says the expression matches, or none when there *)
(* is none.                                                                 *)
THEOREM NextRunTheorem ==
  ASSUME NEW e \in Seq(CronFields), Parses(e), NEW after \in Nat, NEW limit \in Nat,
         after + limit < MinutesOfYear
  PROVE  LET ahead == {u \in (after + 1)..(after + limit) : SchemaMatches(e, At(u))}
             found == NextRun(ParseCron(e), after, limit) IN
         IF ahead = {} THEN found = NoRun
         ELSE found \in ahead /\ \A u \in ahead : found <= u
<1> DEFINE c == ParseCron(e)
           W == (after + 1)..(after + limit)
<1>1. \A u \in W : Matches(c, At(u)) <=> SchemaMatches(e, At(u))
  <2> SUFFICES ASSUME NEW u \in W PROVE Matches(c, At(u)) <=> SchemaMatches(e, At(u))
    OBVIOUS
  <2>1. u \in Nat /\ u < MinutesOfYear BY DEF MinutesOfYear
  <2>2. At(u) \in CronTimes BY <2>1, AtInRange
  <2> QED BY <2>2, MatchesTheorem
<1> HIDE DEF c, W
<1>2. {u \in W : Matches(c, At(u))} = {u \in W : SchemaMatches(e, At(u))} BY <1>1
<1>3. LET ahead == {u \in W : Matches(c, At(u))} IN
      IF ahead = {} THEN NextRun(c, after, limit) = NoRun
      ELSE /\ NextRun(c, after, limit) \in ahead
           /\ \A u \in ahead : NextRun(c, after, limit) <= u
  BY NextRunIsFirst, Zenon DEF W
<1> QED BY <1>2, <1>3, Zenon DEF c, W

-------------------------------------------------------------------------------
LEMMA SamplesAreFields ==
  /\ SampleFields \subseteq CronFields
  /\ \A s \in SampleSegments : s \in CronSegments
<1>1. \A s \in SampleSegments : s \in CronSegments
  BY DEF SampleSegments, SampleValues, CronSegments, Number, Span, Junk
<1>2. \A s \in SampleSegments : <<s>> \in Seq(CronSegments) /\ <<s, Number(1)>> \in Seq(CronSegments)
  <2>1. Number(1) \in CronSegments BY DEF Number, CronSegments
  <2> QED BY <1>1, <2>1
<1>3. \A n \in {-1, 0} \cup SampleValues : n \in Int BY DEF SampleValues
<1> QED BY <1>1, <1>2, <1>3 DEF SampleFields, CronFields

(* The expressions of the samples, field by field.                          *)
LEMMA SampleFieldsParse ==
  /\ \A f \in SampleMinutes : f \in CronFields /\ ParseField(f, Bounds[1]).ok
  /\ Star \in CronFields /\ ParseField(Star, Bounds[2]).ok
  /\ \A f \in SampleDays : f \in CronFields /\ ParseField(f, Bounds[3]).ok
  /\ \A f \in SampleMonths : f \in CronFields /\ ParseField(f, Bounds[4]).ok
  /\ \A f \in SampleWeekdays : f \in CronFields /\ ParseField(f, Bounds[5]).ok
<1>1. Star \in CronFields /\ \A b : ParseField(Star, b).ok
  <2>1. Star.kind = "star" BY DEF Star
  <2> QED BY <2>1, StarReadings DEF CronFields
<1>2. ASSUME NEW n \in Nat \ {0}, NEW i \in 1..5, n <= Bounds[i].max - Bounds[i].min + 1
      PROVE  Step(n) \in CronFields /\ ParseField(Step(n), Bounds[i]).ok
  <2>1. Step(n).kind = "step" /\ Step(n).n = n BY DEF Step
  <2>2. ParseField(Step(n), Bounds[i]).ok <=> n > 0 /\ n <= Bounds[i].max - Bounds[i].min + 1
    BY <2>1, StepReadings
  <2>3. n \in Int /\ n > 0 OBVIOUS
  <2> QED BY <1>2, <2>2, <2>3 DEF CronFields
<1>3. ASSUME NEW lo \in Nat, NEW hi \in Nat, lo <= hi
      PROVE  /\ Span(lo, hi) \in CronSegments /\ Span(lo, hi).kind # "junk"
             /\ Span(lo, hi).lo = lo /\ Span(lo, hi).hi = hi
  BY DEF Span, CronSegments
<1>4. ASSUME NEW v \in Nat
      PROVE  /\ Number(v) \in CronSegments /\ Number(v).kind # "junk"
             /\ Number(v).lo = v /\ Number(v).hi = v
  BY DEF Number, CronSegments
<1> DEFINE fits(g, i) == /\ g \in CronSegments /\ g.kind # "junk" /\ g.lo <= g.hi
                         /\ Bounds[i].min <= g.lo /\ g.hi <= Bounds[i].max
<1>5. ASSUME NEW i \in 1..5, NEW g, fits(g, i)
      PROVE  List(<<g>>) \in CronFields /\ ParseField(List(<<g>>), Bounds[i]).ok
  <2>1. List(<<g>>).kind = "list" /\ List(<<g>>).segs = <<g>> BY DEF List
  <2>2. \A x \in Segments(List(<<g>>)) : x = g BY <2>1 DEF Segments
  <2>3. <<g>> \in Seq(CronSegments) BY <1>5
  <2> QED BY <1>5, <2>1, <2>2, <2>3, ListReadings DEF CronFields
<1>6. ASSUME NEW i \in 1..5, NEW g, NEW h, fits(g, i), fits(h, i)
      PROVE  List(<<g, h>>) \in CronFields /\ ParseField(List(<<g, h>>), Bounds[i]).ok
  <2>1. List(<<g, h>>).kind = "list" /\ List(<<g, h>>).segs = <<g, h>> BY DEF List
  <2>2. \A x \in Segments(List(<<g, h>>)) : x = g \/ x = h BY <2>1 DEF Segments
  <2>3. <<g, h>> \in Seq(CronSegments) BY <1>6
  <2> QED BY <1>6, <2>1, <2>2, <2>3, ListReadings DEF CronFields
<1>b. /\ Bounds[1].min = 0 /\ Bounds[1].max = 59
      /\ Bounds[3].min = 1 /\ Bounds[3].max = 31
      /\ Bounds[4].min = 1 /\ Bounds[4].max = 12
      /\ Bounds[5].min = 0 /\ Bounds[5].max = 7
  BY BoundsFacts
<1>7. ASSUME NEW f \in SampleMinutes PROVE f \in CronFields /\ ParseField(f, Bounds[1]).ok
  <2>1. fits(Number(0), 1) BY <1>4, <1>b
  <2> HIDE DEF fits
  <2>2. List(<<Number(0)>>) \in CronFields /\ ParseField(List(<<Number(0)>>), Bounds[1]).ok
    BY <2>1, <1>5
  <2>3. Step(59) \in CronFields /\ ParseField(Step(59), Bounds[1]).ok BY <1>2, <1>b
  <2> QED BY <1>1, <2>2, <2>3 DEF SampleMinutes
<1>8. ASSUME NEW f \in SampleDays PROVE f \in CronFields /\ ParseField(f, Bounds[3]).ok
  <2>1. fits(Number(29), 3) /\ fits(Number(31), 3) /\ fits(Span(1, 2), 3) BY <1>3, <1>4, <1>b
  <2> HIDE DEF fits
  <2>2. List(<<Number(29)>>) \in CronFields /\ ParseField(List(<<Number(29)>>), Bounds[3]).ok
    BY <2>1, <1>5
  <2>3. /\ List(<<Number(31), Span(1, 2)>>) \in CronFields
        /\ ParseField(List(<<Number(31), Span(1, 2)>>), Bounds[3]).ok
    BY <2>1, <1>6
  <2>4. /\ Step(1) \in CronFields /\ ParseField(Step(1), Bounds[3]).ok
        /\ Step(10) \in CronFields /\ ParseField(Step(10), Bounds[3]).ok
    BY <1>2, <1>b
  <2> QED BY <1>1, <2>2, <2>3, <2>4 DEF SampleDays
<1>9. ASSUME NEW f \in SampleMonths PROVE f \in CronFields /\ ParseField(f, Bounds[4]).ok
  <2>1. fits(Number(2), 4) BY <1>4, <1>b
  <2> HIDE DEF fits
  <2>2. List(<<Number(2)>>) \in CronFields /\ ParseField(List(<<Number(2)>>), Bounds[4]).ok
    BY <2>1, <1>5
  <2>3. Step(2) \in CronFields /\ ParseField(Step(2), Bounds[4]).ok BY <1>2, <1>b
  <2> QED BY <1>1, <2>2, <2>3 DEF SampleMonths
<1>10. ASSUME NEW f \in SampleWeekdays PROVE f \in CronFields /\ ParseField(f, Bounds[5]).ok
  <2>1. /\ fits(Number(0), 5) /\ fits(Number(7), 5) /\ fits(Number(3), 5)
        /\ fits(Span(5, 7), 5) /\ fits(Span(0, 6), 5)
    BY <1>3, <1>4, <1>b
  <2> HIDE DEF fits
  <2>2. ASSUME NEW g \in {Number(0), Number(7), Span(5, 7), Span(0, 6)}
        PROVE  List(<<g>>) \in CronFields /\ ParseField(List(<<g>>), Bounds[5]).ok
    BY <2>1, <1>5
  <2>3. /\ List(<<Number(3), Number(7)>>) \in CronFields
        /\ ParseField(List(<<Number(3), Number(7)>>), Bounds[5]).ok
    BY <2>1, <1>6
  <2>4. ASSUME NEW n \in {1, 5, 7} PROVE Step(n) \in CronFields /\ ParseField(Step(n), Bounds[5]).ok
    BY <1>2, <1>b
  <2> QED BY <1>1, <2>2, <2>3, <2>4, Zenon DEF SampleWeekdays
<1> QED BY <1>1, <1>7, <1>8, <1>9, <1>10

(* loader.go:488, cron.go:101: what the run compares on sample fields.      *)
THEOREM LoaderAgreesOnSamplesTheorem == Spec => []LoaderAgreesWithScheduler
<1>1. LoaderAgreesWithScheduler
  BY SamplesAreFields, FieldReadersAgree DEF LoaderAgreesWithScheduler
<1> QED BY <1>1, PTL

(* cron.go:57, 75: what the run compares on sample expressions and times.   *)
THEOREM CronFollowsSchemaTheorem == Spec => []CronFollowsSchema
<1>1. ASSUME NEW e \in SampleExpressions PROVE e \in Seq(CronFields) /\ Parses(e)
  <2>1. PICK m \in SampleMinutes, d \in SampleDays, mon \in SampleMonths, w \in SampleWeekdays :
          e = <<m, Star, d, mon, w>>
    BY DEF SampleExpressions
  <2>2. e \in Seq(CronFields) /\ Len(e) = 5 BY <2>1, SampleFieldsParse
  <2>3. \A i \in 1..5 : ParseField(e[i], Bounds[i]).ok
    <3>1. /\ ParseField(e[1], Bounds[1]).ok
          /\ ParseField(e[2], Bounds[2]).ok
          /\ ParseField(e[3], Bounds[3]).ok
          /\ ParseField(e[4], Bounds[4]).ok
          /\ ParseField(e[5], Bounds[5]).ok
      BY <2>1, SampleFieldsParse
    <3>2. \A i \in 1..5 : i = 1 \/ i = 2 \/ i = 3 \/ i = 4 \/ i = 5 OBVIOUS
    <3> QED BY <3>1, <3>2
  <2>4. \A i \in 1..5 : ParseCron(e)[i] = ParseField(e[i], Bounds[i]) BY DEF ParseCron
  <2> QED BY <2>2, <2>3, <2>4 DEF Parses
<1>2. ASSUME NEW t \in SampleTimes PROVE t \in Nat /\ t < MinutesOfYear
  BY DEF SampleTimes, MinutesOfYear
<1>3. ASSUME NEW e \in SampleExpressions, NEW t \in SampleTimes
      PROVE  Matches(ParseCron(e), At(t)) <=> SchemaMatches(e, At(t))
  BY <1>1, <1>2, AtInRange, MatchesTheorem
<1> DEFINE First(e, t) ==
      LET ahead == {u \in (t + 1)..(t + 5) : SchemaMatches(e, At(u))}
          next == NextRun(ParseCron(e), t, 5) IN
      IF ahead = {} THEN next = NoRun
      ELSE next \in ahead /\ \A u \in ahead : next <= u
<1>4. ASSUME NEW e \in SampleExpressions, NEW t \in Nat, t + 5 < MinutesOfYear
      PROVE  First(e, t)
  <2>1. e \in Seq(CronFields) /\ Parses(e) /\ 5 \in Nat BY <1>1
  <2> QED BY <1>4, <2>1, NextRunTheorem
<1>5. CronFollowsSchema
  <2> DEFINE Ends == {1440 * 31 - 2, 1440 * 59 - 1, 1440 * 60 - 3}
  <2>1. \A t \in Ends : t \in Nat /\ t + 5 < MinutesOfYear BY DEF MinutesOfYear
  <2> HIDE DEF Ends, First
  <2>2. \A e \in SampleExpressions : \A t \in Ends : First(e, t) BY <1>4, <2>1
  <2> QED BY <1>3, <2>2, SMT DEF CronFollowsSchema, Ends, First
<1> QED BY <1>5, PTL

-------------------------------------------------------------------------------
(* The manifests that can be written, with any strings, numbers, variables, *)
(* dependencies and profiles in them.  The provers are not aware that a     *)
(* literal is a string: those of defaults and samples are named.            *)
Texts ==
  STRING
    \cup {"system", "cron", "UTC", "skip", "success", "failure", "isolated", "delete_on_success"}
    \cup {"", "file", "dir", "missing", ".", "interval", "Europe/Berlin", "nowhere", "run",
          "managed_venv", "venv_path", "conda", "HOME", "TOKEN", "plain", "secret", "vault", "/",
          "env://TOKEN", "env://MISSING", "x", "failed", "never", "task", "t1", "done", "FAIL",
          "retry", "p", "telegram", "copy_from", "shared_external", "private", "default",
          "disabled", "keep_always", "keep"}
Browsers == [enabled : BOOLEAN, profile : Texts, source : Texts, downloads : Texts,
             cache : Texts, cleanup : Texts]
Dependencies == [id : Texts, slug : Texts, require : Texts, maxAge : Int, unhealthy : Texts]
Manifests ==
  [version : Int, script : Texts, type : Texts, expression : Seq(CronFields),
   timezone : Texts, missed : Texts, strategy : Texts, timeout : Int, output : Int,
   grace : Int, limits : [{"files", "processes", "cpu", "memory"} -> Int], workdir : Texts,
   venv : Texts, envFile : Texts, env : SUBSET [name : Texts, type : Texts, value : Texts],
   isolated : BOOLEAN, browser : Browsers, sendOn : SUBSET Texts,
   dependencies : Seq(Dependencies), inlineIds : Seq(Texts), drivers : SUBSET Texts]

LEMMA DefaultIsPresent ==
  ASSUME NEW S, NEW value \in S, NEW absent, NEW default \in S, default # absent
  PROVE  Default(value, absent, default) \in S \ {absent}
BY DEF Default

(* Setting the defaults of a dependency, or of a browser, twice.            *)
LEMMA DependencyDefaultsTwice ==
  ASSUME NEW d \in Dependencies
  PROVE  /\ DependencyDefaults(d) \in Dependencies
         /\ DependencyDefaults(DependencyDefaults(d)) = DependencyDefaults(d)
<1> DEFINE require == IF d.require = "" THEN "success" ELSE NormalizeRunStatus(d.require)
           unhealthy == Default(d.unhealthy, "", "skip")
           x == DependencyDefaults(d)
<1>1. x = [d EXCEPT !.require = require, !.unhealthy = unhealthy]
  BY DEF DependencyDefaults
<1>2. \A s : /\ s \in {"failed", "SUCCESS"} => NormalizeRunStatus(s) \in {"failure", "success"}
             /\ s \notin {"failed", "SUCCESS"} => NormalizeRunStatus(s) = s
  <2> TAKE s
  <2> QED BY Zenon DEF NormalizeRunStatus
<1>3. require \in Texts \ {"", "failed", "SUCCESS"}
  <2>1. d.require \in Texts BY DEF Dependencies
  <2>2. /\ "success" \in Texts \ {"", "failed", "SUCCESS"}
        /\ "failure" \in Texts \ {"", "failed", "SUCCESS"}
    BY DEF Texts
  <2>3. CASE d.require = "" BY <2>2, <2>3
  <2>4. CASE d.require # ""
    <3>1. require = NormalizeRunStatus(d.require) BY <2>4
    <3> HIDE DEF require
    <3>2. CASE d.require \in {"failed", "SUCCESS"}
      <4>1. require \in {"failure", "success"} BY <1>2, <3>1, <3>2, Zenon
      <4> QED BY <2>2, <4>1
    <3>3. CASE d.require \notin {"failed", "SUCCESS"} BY <1>2, <2>1, <2>4, <3>1, <3>3
    <3> QED BY <3>2, <3>3
  <2> QED BY <2>3, <2>4
<1>4. unhealthy \in Texts \ {""}
  <2>1. d.unhealthy \in Texts /\ "skip" \in Texts \ {""} BY DEF Dependencies, Texts
  <2> QED BY <2>1, DefaultIsPresent
<1> HIDE DEF require, unhealthy
<1>5. x \in Dependencies /\ x.require = require /\ x.unhealthy = unhealthy
  BY <1>1, <1>3, <1>4 DEF Dependencies
<1>6. DependencyDefaults(x) = [x EXCEPT !.require = require, !.unhealthy = unhealthy]
  <2>1. NormalizeRunStatus(require) = require BY <1>2, <1>3
  <2> QED BY <1>3, <1>4, <1>5, <2>1 DEF DependencyDefaults, Default
<1> QED BY <1>5, <1>6 DEF Dependencies

LEMMA BrowserDefaultsTwice ==
  ASSUME NEW b \in Browsers
  PROVE  /\ BrowserDefaults(b) \in Browsers
         /\ BrowserDefaults(BrowserDefaults(b)) = BrowserDefaults(b)
<1>1. CASE ~b.enabled BY <1>1 DEF BrowserDefaults
<1>2. CASE b.enabled
  <2> DEFINE profile == Default(b.profile, "", "isolated")
             downloads == Default(b.downloads, "", "isolated")
             cache == Default(b.cache, "", "isolated")
             cleanup == Default(b.cleanup, "", "delete_on_success")
             x == BrowserDefaults(b)
  <2>1. x = [b EXCEPT !.profile = profile, !.downloads = downloads, !.cache = cache,
                      !.cleanup = cleanup]
    BY <1>2 DEF BrowserDefaults
  <2>2. /\ profile \in Texts \ {""} /\ downloads \in Texts \ {""}
        /\ cache \in Texts \ {""} /\ cleanup \in Texts \ {""}
    <3>1. /\ b.profile \in Texts /\ b.downloads \in Texts
          /\ b.cache \in Texts /\ b.cleanup \in Texts
      BY DEF Browsers
    <3>2. "isolated" # "" /\ "delete_on_success" # ""
          /\ "isolated" \in Texts /\ "delete_on_success" \in Texts
      BY DEF Texts
    <3> QED BY <3>1, <3>2, DefaultIsPresent
  <2> HIDE DEF profile, downloads, cache, cleanup
  <2>3. /\ x \in Browsers /\ x.enabled /\ x.profile = profile /\ x.downloads = downloads
        /\ x.cache = cache /\ x.cleanup = cleanup
    BY <1>2, <2>1, <2>2 DEF Browsers
  <2>4. BrowserDefaults(x) = [x EXCEPT !.profile = profile, !.downloads = downloads,
                                       !.cache = cache, !.cleanup = cleanup]
    BY <2>2, <2>3 DEF BrowserDefaults, Default
  <2> QED BY <2>3, <2>4 DEF Browsers
<1> QED BY <1>1, <1>2

LEMMA DefaultsTwice ==
  ASSUME NEW m \in Manifests
  PROVE  Defaults(m) \in Manifests /\ Defaults(Defaults(m)) = Defaults(m)
<1> DEFINE version == Default(m.version, 0, 1)
           timeout == Default(m.timeout, 0, 120)
           output == Default(m.output, 0, 512)
           grace == Default(m.grace, 0, 5)
           strategy == Default(m.strategy, "", "system")
           browser == BrowserDefaults(m.browser)
           type == Default(m.type, "", "cron")
           timezone == Default(m.timezone, "", "UTC")
           missed == Default(m.missed, "", "skip")
           sendOn == Default(m.sendOn, {}, {"success", "failure"})
           ds == [i \in DOMAIN m.dependencies |-> DependencyDefaults(m.dependencies[i])]
           x == Defaults(m)
           set(r) == [r EXCEPT !.version = version, !.timeout = timeout, !.output = output,
                               !.grace = grace, !.strategy = strategy, !.browser = browser,
                               !.type = type, !.timezone = timezone, !.missed = missed,
                               !.sendOn = sendOn, !.dependencies = ds]
<1>1. x = set(m) BY DEF Defaults
<1>2. /\ version \in Int \ {0} /\ timeout \in Int \ {0} /\ output \in Int \ {0}
      /\ grace \in Int \ {0} /\ strategy \in Texts \ {""} /\ type \in Texts \ {""}
      /\ timezone \in Texts \ {""} /\ missed \in Texts \ {""}
      /\ sendOn \in (SUBSET Texts) \ {{}}
  <2>1. /\ m.version \in Int /\ m.timeout \in Int /\ m.output \in Int /\ m.grace \in Int
        /\ m.strategy \in Texts /\ m.type \in Texts /\ m.timezone \in Texts
        /\ m.missed \in Texts /\ m.sendOn \in SUBSET Texts
    BY DEF Manifests
  <2>2. version \in Int \ {0} /\ timeout \in Int \ {0} /\ output \in Int \ {0} /\ grace \in Int \ {0}
    BY <2>1, DefaultIsPresent
  <2>3. /\ strategy \in Texts \ {""} /\ type \in Texts \ {""}
        /\ timezone \in Texts \ {""} /\ missed \in Texts \ {""}
    <3>1. /\ "system" \in Texts \ {""} /\ "cron" \in Texts \ {""}
          /\ "UTC" \in Texts \ {""} /\ "skip" \in Texts \ {""}
      BY DEF Texts
    <3> QED BY <2>1, <3>1, DefaultIsPresent
  <2>4. sendOn \in (SUBSET Texts) \ {{}}
    <3>1. {"success", "failure"} \in SUBSET Texts /\ {"success", "failure"} # {} BY DEF Texts
    <3> QED BY <2>1, <3>1, DefaultIsPresent
  <2> QED BY <2>2, <2>3, <2>4
<1>3. browser \in Browsers /\ BrowserDefaults(browser) = browser
  BY BrowserDefaultsTwice DEF Manifests
<1>4. /\ ds \in Seq(Dependencies)
      /\ [i \in DOMAIN ds |-> DependencyDefaults(ds[i])] = ds
  <2> DEFINE old == m.dependencies
  <2>1. old \in Seq(Dependencies) BY DEF Manifests
  <2>2. Len(old) \in Nat /\ DOMAIN old = 1..Len(old) BY <2>1, LenProperties
  <2>3. \A i \in 1..Len(old) : old[i] \in Dependencies BY <2>1, ElementOfSeq
  <2> HIDE DEF old
  <2>4. ds = [i \in 1..Len(old) |-> DependencyDefaults(old[i])] BY <2>2 DEF old
  <2> HIDE DEF ds
  <2>5. \A i \in 1..Len(old) : ds[i] \in Dependencies /\ DependencyDefaults(ds[i]) = ds[i]
    BY <2>3, <2>4, DependencyDefaultsTwice
  <2>6. ds \in [1..Len(old) -> Dependencies] BY <2>4, <2>5
  <2>7. ds \in Seq(Dependencies) BY <2>2, <2>6, IsASeq
  <2> QED BY <2>4, <2>5, <2>7
<1> HIDE DEF version, timeout, output, grace, strategy, browser, type, timezone, missed, sendOn, ds, x
<1>5. /\ x \in Manifests /\ x.version = version /\ x.timeout = timeout /\ x.output = output
      /\ x.grace = grace /\ x.strategy = strategy /\ x.browser = browser /\ x.type = type
      /\ x.timezone = timezone /\ x.missed = missed /\ x.sendOn = sendOn /\ x.dependencies = ds
  BY <1>1, <1>2, <1>3, <1>4, ZenonT(40) DEF Manifests
<1>6. Defaults(x) = set(x)
  BY <1>2, <1>3, <1>4, <1>5, ZenonT(40) DEF Defaults, Default
<1>7. set(x) = x BY <1>5, ZenonT(40) DEF Manifests
<1> QED BY <1>5, <1>6, <1>7 DEF x

(* What the loader's checks leave of a manifest that it loads.              *)
LEMMA LoadedManifest ==
  ASSUME NEW m, Loads(m)
  PROVE  LET d == Defaults(m) b == Defaults(m).browser IN
         /\ ValidExpression(d.expression)
         /\ d.strategy \in {"system", "managed_venv", "venv_path"}
         /\ d.strategy = "venv_path" => d.venv # ""
         /\ b.enabled =>
              /\ b.profile \in {"isolated", "copy_from", "shared_external"}
              /\ NeedsRunDirectory(b) => d.isolated
              /\ b.profile \in {"copy_from", "shared_external"} => b.source # ""
<1> DEFINE d == Defaults(m) b == Defaults(m).browser
<1>1. ScheduleIssues(d) = {} /\ RuntimeIssues(d) = {} /\ BrowserIssues(d) = {}
  BY DEF Loads, Errors
<1>2. \A path, bad : Issue(path, bad) = {} => ~bad BY DEF Issue
<1> HIDE DEF d, b
<1>3. ValidExpression(d.expression) BY <1>1, <1>2 DEF ScheduleIssues
<1>4. /\ d.strategy \in {"system", "managed_venv", "venv_path"}
      /\ d.strategy = "venv_path" => d.venv # ""
  BY <1>1, <1>2 DEF RuntimeIssues
<1>5. ASSUME b.enabled
      PROVE  /\ b.profile \in {"isolated", "copy_from", "shared_external"}
             /\ NeedsRunDirectory(b) => d.isolated
             /\ b.profile \in {"copy_from", "shared_external"} => b.source # ""
  <2>0. b = d.browser BY DEF b, d
  <2>1. /\ Issue("runtime.browser.profile_mode",
                 b.profile \notin {"isolated", "copy_from", "shared_external"}) = {}
        /\ Issue("runtime.isolated_run", ~d.isolated /\ NeedsRunDirectory(b)) = {}
        /\ Issue("runtime.browser.profile_source",
                 \/ b.profile \in {"copy_from", "shared_external"} /\ b.source = ""
                 \/ b.profile = "copy_from" /\ b.source # "dir") = {}
    BY <1>1, <1>5, <2>0 DEF BrowserIssues
  <2> QED BY <2>1, <1>2
<1> QED BY <1>3, <1>4, <1>5 DEF d, b

LEMMA Overrides ==
  ASSUME NEW upper, NEW lower, NEW n
  PROVE  /\ n \in DOMAIN upper => Over(upper, lower)[n] = upper[n] /\ n \in DOMAIN Over(upper, lower)
         /\ n \notin DOMAIN upper /\ n \in DOMAIN lower =>
              Over(upper, lower)[n] = lower[n] /\ n \in DOMAIN Over(upper, lower)
BY DEF Over

(* loader.go:88, browser.go:13, runner.go:436: nothing stops a run of a     *)
(* manifest that the loader lets through.  To set the defaults once more    *)
(* changes nothing, its schedule can be parsed, there is a python to run    *)
(* and a path for all that the browser policies promise, and an isolated    *)
(* script sees its own directories whatever the env file, the variables and *)
(* the browser policies say.                                                *)
THEOREM AdmittedManifestsRunTheorem ==
  ASSUME NEW m \in Manifests, Loads(m)
  PROVE  LET d == Defaults(m) IN
         /\ Defaults(d) = d
         /\ Parses(d.expression)
         /\ ResolvePython(d) # ""
         /\ d.browser.enabled => BrowserPathsExist(d)
         /\ d.isolated => Isolated(d)
<1> DEFINE d == Defaults(m)
<1>1. d \in Manifests /\ Defaults(d) = d BY DefaultsTwice
<1>2. /\ ValidExpression(d.expression)
      /\ d.strategy \in {"system", "managed_venv", "venv_path"}
      /\ d.strategy = "venv_path" => d.venv # ""
      /\ d.browser.enabled =>
           /\ d.browser.profile \in {"isolated", "copy_from", "shared_external"}
           /\ NeedsRunDirectory(d.browser) => d.isolated
           /\ d.browser.profile \in {"copy_from", "shared_external"} => d.browser.source # ""
  BY LoadedManifest
<1> HIDE DEF d
<1>3. Parses(d.expression)
  <2>1. d.expression \in Seq(CronFields) BY <1>1 DEF Manifests
  <2> QED BY <1>2, <2>1, LoaderAgreesTheorem
<1>4. ResolvePython(d) # ""
  <2>1. CASE d.strategy = "managed_venv"
    <3>1. ResolvePython(d) = "managed"
      <4>1. ~(d.strategy = "venv_path" /\ d.venv # "") BY <2>1
      <4> QED BY <2>1, <4>1, Zenon DEF ResolvePython
    <3> QED BY <3>1
  <2>2. CASE d.strategy = "venv_path"
    <3>1. ResolvePython(d) = d.venv
      <4>1. ~(d.strategy = "managed_venv") /\ d.venv # "" BY <1>2, <2>2
      <4> QED BY <2>2, <4>1, Zenon DEF ResolvePython
    <3> QED BY <1>2, <2>2, <3>1
  <2>3. CASE d.strategy = "system"
    <3>1. ResolvePython(d) = "python3"
      <4>1. ~(d.strategy = "managed_venv") /\ ~(d.strategy = "venv_path" /\ d.venv # "")
        BY <2>3
      <4> QED BY <4>1, Zenon DEF ResolvePython
    <3> QED BY <3>1
  <2> QED BY <1>2, <2>1, <2>2, <2>3
<1>5. ASSUME d.browser.enabled PROVE BrowserPathsExist(d)
  <2>1. d.isolated => RunPath(d) # "" BY DEF RunPath
  <2>2. ProfilePath(d) # "" BY <1>2, <1>5, <2>1 DEF ProfilePath, NeedsRunDirectory
  <2>3. d.browser.downloads = "isolated" => DownloadPath(d) # ""
    BY <1>2, <1>5, <2>1 DEF DownloadPath, NeedsRunDirectory
  <2>4. d.browser.cache = "isolated" => CachePath(d) # ""
    BY <1>2, <1>5, <2>1 DEF CachePath, NeedsRunDirectory
  <2>5. /\ "BROWSER_PROFILE" \in DOMAIN BrowserEnvironment(d)
        /\ BrowserEnvironment(d)["BROWSER_PROFILE"] = ProfilePath(d)
    BY <1>2, <1>5, <2>2 DEF BrowserEnvironment, BrowserNames
  <2>6. Environment(d)["BROWSER_PROFILE"] = ProfilePath(d)
    BY <2>5, Overrides DEF Environment
  <2> QED BY <2>2, <2>3, <2>4, <2>6 DEF BrowserPathsExist
<1>6. ASSUME d.isolated, NEW n \in PrivateNames PROVE Environment(d)[n] = "run"
  <2>1. n \notin {"RUN_ID", "TASK_ID"} /\ n \notin BrowserNames BY DEF PrivateNames, BrowserNames
  <2>2. n \notin DOMAIN BrowserEnvironment(d)
    <3>1. CASE ~d.browser.enabled BY <3>1 DEF BrowserEnvironment
    <3>2. CASE d.browser.enabled
      <4>1. DOMAIN BrowserEnvironment(d) \subseteq BrowserNames
        BY <3>2 DEF BrowserEnvironment
      <4> QED BY <2>1, <4>1
    <3> QED BY <3>1, <3>2
  <2>3. n \in DOMAIN EngineEnvironment(d) /\ EngineEnvironment(d)[n] = "run"
    <3> DEFINE ids == Layer({"RUN_ID", "TASK_ID"}, "engine")
               private == Layer({"RUN_DIR"} \cup BrowserNames \cup PrivateNames, "run")
    <3>1. EngineEnvironment(d) = Over(ids, private) BY <1>6 DEF EngineEnvironment
    <3>2. n \notin DOMAIN ids BY <2>1 DEF Layer
    <3>3. n \in DOMAIN private /\ private[n] = "run" BY <1>6 DEF Layer
    <3> HIDE DEF ids, private
    <3> QED BY <3>1, <3>2, <3>3, Overrides
  <2>4. /\ n \in DOMAIN Over(EngineEnvironment(d), BaseEnvironment(d))
        /\ Over(EngineEnvironment(d), BaseEnvironment(d))[n] = "run"
    BY <2>3, Overrides
  <2> QED BY <2>2, <2>4, Overrides DEF Environment
<1> QED BY <1>1, <1>3, <1>4, <1>5, <1>6 DEF d, Isolated

(* The samples of the run are manifests.                                    *)
LEMMA MinimalIsAManifest == Minimal \in Manifests
<1>1. Star \in CronFields BY DEF Star, CronFields
<1>2. <<Star, Star, Star, Star, Star>> \in Seq(CronFields) BY <1>1
<1>3. NoBrowser \in Browsers BY DEF NoBrowser, Browsers, Texts
<1>4. <<>> \in Seq(Dependencies) /\ <<>> \in Seq(Texts) OBVIOUS
<1>5. Minimal.limits \in [{"files", "processes", "cpu", "memory"} -> Int] BY DEF Minimal
<1>6. "" \in Texts /\ "file" \in Texts BY DEF Texts
<1> QED BY <1>2, <1>3, <1>4, <1>5, <1>6 DEF Minimal, Manifests

(* Every sample value of a field may stand in it.                           *)
LEMMA VariantsFit ==
  /\ Fields = {"version", "script", "type", "expression", "timezone", "missed", "strategy", "timeout",
               "output", "grace", "limits", "workdir", "venv", "envFile", "env", "isolated", "sendOn",
               "dependencies", "inlineIds", "drivers"}
  /\ Variants.version \subseteq Int
  /\ Variants.script \subseteq Texts
  /\ Variants.type \subseteq Texts
  /\ Variants.expression \subseteq Seq(CronFields)
  /\ Variants.timezone \subseteq Texts
  /\ Variants.missed \subseteq Texts
  /\ Variants.strategy \subseteq Texts
  /\ Variants.timeout \subseteq Int
  /\ Variants.output \subseteq Int
  /\ Variants.grace \subseteq Int
  /\ Variants.limits \subseteq [{"files", "processes", "cpu", "memory"} -> Int]
  /\ Variants.workdir \subseteq Texts
  /\ Variants.venv \subseteq Texts
  /\ Variants.envFile \subseteq Texts
  /\ Variants.env \subseteq SUBSET [name : Texts, type : Texts, value : Texts]
  /\ Variants.isolated \subseteq BOOLEAN
  /\ Variants.sendOn \subseteq SUBSET Texts
  /\ Variants.dependencies \subseteq Seq(Dependencies)
  /\ Variants.inlineIds \subseteq Seq(Texts)
  /\ Variants.drivers \subseteq SUBSET Texts
<1>1. /\ Step(60) \in CronFields /\ Step(24) \in CronFields /\ Step(31) \in CronFields
      /\ Step(12) \in CronFields /\ Step(8) \in CronFields /\ Step(61) \in CronFields
      /\ Star \in CronFields
  BY DEF Step, Star, CronFields
<1>2. List(<<Number(0)>>) \in CronFields /\ List(<<Span(5, 7)>>) \in CronFields
  <2>1. Number(0) \in CronSegments /\ Span(5, 7) \in CronSegments
    BY DEF Number, Span, CronSegments
  <2>2. <<Number(0)>> \in Seq(CronSegments) /\ <<Span(5, 7)>> \in Seq(CronSegments) BY <2>1
  <2> QED BY <2>2 DEF List, CronFields
<1>3. Variants.expression \subseteq Seq(CronFields) BY <1>1, <1>2 DEF Variants
<1>4. Variants.dependencies \subseteq Seq(Dependencies)
  <2>1. Variants.dependencies = {<<d>> : d \in SampleDependencies} BY DEF Variants
  <2>2. /\ {"", "t1"} \subseteq Texts /\ {"", "task"} \subseteq Texts
        /\ {"", "failed", "done"} \subseteq Texts /\ {"", "FAIL", "retry"} \subseteq Texts
    BY DEF Texts
  <2>3. {-1, 0} \subseteq Int OBVIOUS
  <2>4. SampleDependencies \subseteq Dependencies
    BY <2>2, <2>3 DEF SampleDependencies, Dependencies
  <2>5. \A d \in SampleDependencies : <<d>> \in Seq(Dependencies) BY <2>4
  <2> QED BY <2>1, <2>5
<1>5. Variants.limits \subseteq [{"files", "processes", "cpu", "memory"} -> Int]
  <2>1. Minimal.limits \in [{"files", "processes", "cpu", "memory"} -> Int] BY DEF Minimal
  <2>2. Variants.limits = {[Minimal.limits EXCEPT !.cpu = -1], [Minimal.limits EXCEPT !.memory = 64]}
    BY DEF Variants
  <2> QED BY <2>1, <2>2
<1>6. Variants.env \subseteq SUBSET [name : Texts, type : Texts, value : Texts]
  <2>1. /\ {"HOME", "TOKEN"} \subseteq Texts /\ {"plain", "secret", "vault"} \subseteq Texts
        /\ {"/", "env://TOKEN", "env://MISSING", "x"} \subseteq Texts
    BY DEF Texts
  <2>2. ASSUME NEW n \in {"HOME", "TOKEN"}, NEW k \in {"plain", "secret", "vault"},
               NEW w \in {"/", "env://TOKEN", "env://MISSING", "x"}
        PROVE  [name |-> n, type |-> k, value |-> w] \in [name : Texts, type : Texts, value : Texts]
    BY <2>1
  <2>3. Variants.env = {{v} : v \in SampleVariables} BY DEF Variants
  <2>4. \A v \in SampleVariables : v \in [name : Texts, type : Texts, value : Texts]
    BY <2>2 DEF SampleVariables
  <2> QED BY <2>3, <2>4
<1>7. Variants.inlineIds \subseteq Seq(Texts)
  <2>1. "p" \in Texts /\ "" \in Texts BY DEF Texts
  <2>2. Variants.inlineIds = {<<"p">>, <<"p", "p">>, <<"p", "">>} BY DEF Variants
  <2>3. \A x, y \in Texts : <<x>> \in Seq(Texts) /\ <<x, y>> \in Seq(Texts) OBVIOUS
  <2> QED BY <2>1, <2>2, <2>3
<1>8. /\ Variants.version \subseteq Int /\ Variants.timeout \subseteq Int
      /\ Variants.output \subseteq Int /\ Variants.grace \subseteq Int
      /\ Variants.isolated \subseteq BOOLEAN
  BY DEF Variants
<1>9. /\ Variants.script \subseteq Texts
      /\ Variants.type \subseteq Texts
      /\ Variants.timezone \subseteq Texts
      /\ Variants.missed \subseteq Texts
      /\ Variants.strategy \subseteq Texts
      /\ Variants.workdir \subseteq Texts
      /\ Variants.venv \subseteq Texts
      /\ Variants.envFile \subseteq Texts
  BY DEF Variants, Texts
<1>10. Variants.sendOn \subseteq SUBSET Texts /\ Variants.drivers \subseteq SUBSET Texts
  BY DEF Variants, Texts
<1>11. Fields = {"version", "script", "type", "expression", "timezone", "missed", "strategy",
                 "timeout", "output", "grace", "limits", "workdir", "venv", "envFile", "env",
                 "isolated", "sendOn", "dependencies", "inlineIds", "drivers"}
  BY DEF Fields, Variants
<1> QED BY <1>3, <1>4, <1>5, <1>6, <1>7, <1>8, <1>9, <1>10, <1>11

LEMMA VariantsAreManifests ==
  ASSUME NEW m \in Manifests, NEW f \in Fields, NEW v \in Variants[f] \cup {m[f]}
  PROVE  [m EXCEPT ![f] = v] \in Manifests
<1> DEFINE Numbers == Int
           Expressions == Seq(CronFields)
           Limits == [{"files", "processes", "cpu", "memory"} -> Int]
           Variables == SUBSET [name : Texts, type : Texts, value : Texts]
           Flags == BOOLEAN
           TextSets == SUBSET Texts
           DependencyLists == Seq(Dependencies)
           TextLists == Seq(Texts)
<1>1. Manifests =
        [version : Numbers, script : Texts, type : Texts, expression : Expressions,
         timezone : Texts, missed : Texts, strategy : Texts, timeout : Numbers, output : Numbers,
         grace : Numbers, limits : Limits, workdir : Texts, venv : Texts, envFile : Texts,
         env : Variables, isolated : Flags, browser : Browsers, sendOn : TextSets,
         dependencies : DependencyLists, inlineIds : TextLists, drivers : TextSets]
  BY DEF Manifests
<1>2. /\ Variants.version \subseteq Numbers
      /\ Variants.script \subseteq Texts
      /\ Variants.type \subseteq Texts
      /\ Variants.expression \subseteq Expressions
      /\ Variants.timezone \subseteq Texts
      /\ Variants.missed \subseteq Texts
      /\ Variants.strategy \subseteq Texts
      /\ Variants.timeout \subseteq Numbers
      /\ Variants.output \subseteq Numbers
      /\ Variants.grace \subseteq Numbers
      /\ Variants.limits \subseteq Limits
      /\ Variants.workdir \subseteq Texts
      /\ Variants.venv \subseteq Texts
      /\ Variants.envFile \subseteq Texts
      /\ Variants.env \subseteq Variables
      /\ Variants.isolated \subseteq Flags
      /\ Variants.sendOn \subseteq TextSets
      /\ Variants.dependencies \subseteq DependencyLists
      /\ Variants.inlineIds \subseteq TextLists
      /\ Variants.drivers \subseteq TextSets
  BY VariantsFit
<1> HIDE DEF Numbers, Expressions, Limits, Variables, Flags, TextSets, DependencyLists, TextLists
<1>3. CASE f = "version" BY <1>1, <1>2, <1>3
<1>4. CASE f = "script" BY <1>1, <1>2, <1>4
<1>5. CASE f = "type" BY <1>1, <1>2, <1>5
<1>6. CASE f = "expression" BY <1>1, <1>2, <1>6
<1>7. CASE f = "timezone" BY <1>1, <1>2, <1>7
<1>8. CASE f = "missed" BY <1>1, <1>2, <1>8
<1>9. CASE f = "strategy" BY <1>1, <1>2, <1>9
<1>10. CASE f = "timeout" BY <1>1, <1>2, <1>10
<1>11. CASE f = "output" BY <1>1, <1>2, <1>11
<1>12. CASE f = "grace" BY <1>1, <1>2, <1>12
<1>13. CASE f = "limits" BY <1>1, <1>2, <1>13
<1>14. CASE f = "workdir" BY <1>1, <1>2, <1>14
<1>15. CASE f = "venv" BY <1>1, <1>2, <1>15
<1>16. CASE f = "envFile" BY <1>1, <1>2, <1>16
<1>17. CASE f = "env" BY <1>1, <1>2, <1>17
<1>18. CASE f = "isolated" BY <1>1, <1>2, <1>18
<1>19. CASE f = "sendOn" BY <1>1, <1>2, <1>19
<1>20. CASE f = "dependencies" BY <1>1, <1>2, <1>20
<1>21. CASE f = "inlineIds" BY <1>1, <1>2, <1>21
<1>22. CASE f = "drivers" BY <1>1, <1>2, <1>22
<1> QED BY VariantsFit, <1>3, <1>4, <1>5, <1>6, <1>7, <1>8, <1>9, <1>10, <1>11, <1>12, <1>13, <1>14, <1>15, <1>16, <1>17, <1>18, <1>19, <1>20, <1>21, <1>22

LEMMA SamplesAreManifests == SampleManifests \subseteq Manifests
<1>1. \A m \in Manifests, f \in Fields : Changed(m, f) \subseteq Manifests
  BY VariantsAreManifests DEF Changed
<1>2. BrowserManifests \subseteq Manifests
  <2>1. ASSUME NEW i \in BOOLEAN, NEW b \in Browsers
        PROVE  WithBrowser(i, b) \in Manifests
    BY MinimalIsAManifest DEF Manifests, WithBrowser
  <2>2. /\ {"", "isolated", "copy_from", "shared_external", "private"} \subseteq Texts
        /\ {"", "dir", "file"} \subseteq Texts /\ {"", "isolated", "default"} \subseteq Texts
        /\ {"", "isolated", "default", "disabled"} \subseteq Texts
        /\ {"", "keep_always", "keep"} \subseteq Texts
    BY DEF Texts
  <2>3. SampleBrowsers \subseteq Browsers BY <2>2 DEF SampleBrowsers, Browsers
  <2>4. ASSUME NEW x \in BrowserManifests PROVE x \in Manifests
    <3>1. PICK i \in BOOLEAN, b \in SampleBrowsers : x = WithBrowser(i, b)
      BY DEF BrowserManifests
    <3> QED BY <2>1, <2>3, <3>1
  <2> QED BY <2>4
<1> QED BY <1>1, <1>2, MinimalIsAManifest DEF SampleManifests

(* What the run checks on the samples, which are manifests.                 *)
THEOREM AdmittedManifestsRunOnSamplesTheorem == Spec => []AdmittedManifestsRun
<1>1. AdmittedManifestsRun
  BY SamplesAreManifests, AdmittedManifestsRunTheorem DEF AdmittedManifestsRun
<1> QED BY <1>1, PTL
================================================================================
