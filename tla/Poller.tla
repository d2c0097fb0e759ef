-------------------------------- MODULE Poller --------------------------------
(***************************************************************************)
(* The inbound command poller (internal/inbound/poller.go): the life cycle *)
(* of its polling loop under Start, Stop and Restart, and the path of an   *)
(* update from Telegram to the command router.                             *)
(*                                                                         *)
(* Every change of a delivery profile calls Restart synchronously, on the  *)
(* goroutine of the request that made the change (Engine.                  *)
(* OnDeliveryProfilesChanged); shutdown calls Stop.  Poller.mu covers      *)
(* reading and writing cancel and running, and nothing in between, so that *)
(* the callers interleave inside Stop and Restart.  One bot token and one  *)
(* chat are modelled, and the whole behaviour takes place within one       *)
(* minute, the window of the rate limiter.                                 *)
(***************************************************************************)
EXTENDS Naturals, FiniteSets, FiniteSetsExt

CONSTANTS
  Callers,       \* goroutines that call Restart or Stop
  Stoppers,      \* those of them that call Stop, when the daemon shuts down
  MaxCalls,      \* bound on the calls of Restart and Stop
  MaxUpdates,    \* bound on the updates users send; IDs are 1..MaxUpdates
  Unauthorized,  \* the updates that come from a chat no profile authorizes
  Limit,         \* commands per chat and minute (newRateLimiter's first argument)
  Fits,          \* updates that fit into the 4096 bytes the driver reads of an answer
  MaxCrashes     \* bound on the crashes of the daemon

ASSUME ConstantsAssumption ==
  /\ Stoppers \subseteq Callers
  /\ MaxCalls \in Nat
  /\ MaxUpdates \in Nat
  /\ Unauthorized \subseteq 1..MaxUpdates
  /\ Limit \in Nat \ {0}
  /\ Fits \in Nat
  /\ MaxCrashes \in Nat

VARIABLES
  wanted,     \* some enabled Telegram profile has inbound commands enabled
  running,    \* Poller.running
  current,    \* the loop Poller.cancel belongs to; 0 for nil
  pc,         \* where a caller is in Restart or Stop
  captured,   \* the loop whose cancel function Stop copied
  calls,      \* calls of Restart and Stop so far
  started,    \* loops started by this process: 1..started
  orphans,    \* history: the loops whose cancel function a Stop forgot that had
              \* waited for an earlier one; 0 for those of earlier processes
  loop,       \* program counter of each polling goroutine
  canceled,   \* loops whose context is canceled
  offset,     \* offsets.m[botToken]; 0 when absent
  asked,      \* the offset a loop read for its getUpdates call; 0 outside of it
  batch,      \* updates the loop got and has not taken yet
  handling,   \* the update the loop took and has not handled; 0 for none
  count,      \* commands the rate limiter of a loop that runs let through
  sent,       \* updates users have sent: 1..sent
  confirmed,  \* updates Telegram has forgotten: 1..confirmed
  handled,    \* updates some loop routed, refused for the limit or passed over
  dropped,    \* commands some loop took with its context canceled, and dropped
  executed,   \* how often a command went to the router, in this process
  crashes

lifeVars   == <<running, current, pc, captured, calls, started, orphans,
                canceled>>
updateVars == <<offset, asked, batch, handling, count, confirmed, handled, dropped,
                executed>>
trafficVars == <<updateVars, sent, crashes>>
vars == <<wanted, running, current, pc, captured, calls, started,
          orphans, loop, canceled, offset, asked, batch, handling, count, sent,
          confirmed, handled, dropped, executed, crashes>>

(* Every change of a profile starts at most one loop, and main starts one.  *)
MaxLoops == MaxCalls + 1

Loops   == 1..MaxLoops
Updates == 1..MaxUpdates

Positions == {"idle", "stop", "cancel", "wait", "waiting", "released", "finish",
              "stopped", "start", "exit", "panicked"}

TypeOK ==
  /\ wanted \in BOOLEAN
  /\ running \in BOOLEAN
  /\ current \in 0..MaxLoops
  /\ pc \in [Callers -> Positions]
  /\ captured \in [Callers -> 0..MaxLoops]
  /\ calls \in 0..MaxCalls
  /\ started \in 0..MaxLoops
  /\ orphans \subseteq 0..MaxLoops
  /\ loop \in [Loops -> {"none", "top", "polling", "batch", "handling", "ended"}]
  /\ canceled \subseteq Loops
  /\ offset \in 0..(MaxUpdates + 1)
  /\ asked \in [Loops -> 0..(MaxUpdates + 1)]
  /\ batch \in [Loops -> SUBSET Updates]
  /\ handling \in [Loops -> 0..MaxUpdates]
  /\ count \in [Loops -> 0..Limit]
  /\ sent \in 0..MaxUpdates
  /\ confirmed \in 0..MaxUpdates
  /\ handled \subseteq Updates
  /\ dropped \subseteq Updates
  /\ executed \in [Updates -> Nat]
  /\ crashes \in 0..MaxCrashes

-------------------------------------------------------------------------------
Alive(l) == loop[l] \notin {"none", "ended"}

(* The counter of Poller.wg: Start adds one, the goroutine's defer takes it *)
(* off again.                                                               *)
Live == {l \in Loops : Alive(l)}

Goto(c, from, to) ==
  /\ pc[c] = from
  /\ pc' = [pc EXCEPT ![c] = to]

(* A daemon process begins with main's own Restart.                         *)
Init ==
  /\ wanted \in BOOLEAN
  /\ running = wanted
  /\ current = IF wanted THEN 1 ELSE 0
  /\ pc = [c \in Callers |-> "idle"]
  /\ captured = [c \in Callers |-> 0]
  /\ calls = 0
  /\ started = IF wanted THEN 1 ELSE 0
  /\ loop = [l \in Loops |-> IF wanted /\ l = 1 THEN "top" ELSE "none"]
  /\ orphans = {}
  /\ canceled = {}
  /\ offset = 0
  /\ asked = [l \in Loops |-> 0]
  /\ batch = [l \in Loops |-> {}]
  /\ handling = [l \in Loops |-> 0]
  /\ count = [l \in Loops |-> 0]
  /\ executed = [u \in Updates |-> 0]
  /\ sent = 0
  /\ confirmed = 0
  /\ handled = {}
  /\ dropped = {}
  /\ crashes = 0

-------------------------------------------------------------------------------
(* Stop and Restart                                                         *)

(* A handler changes a delivery profile and calls Restart.                  *)
ChangeProfiles(c, w) ==
  /\ c \notin Stoppers
  /\ Goto(c, "idle", "stop")
  /\ calls < MaxCalls
  /\ calls' = calls + 1
  /\ wanted' = w
  /\ UNCHANGED <<running, current, captured, started, orphans, loop, canceled,
                 trafficVars>>

(* The shutdown goroutine calls Stop, once.                                 *)
Shutdown(c) ==
  /\ c \in Stoppers
  /\ Goto(c, "idle", "stop")
  /\ calls < MaxCalls
  /\ calls' = calls + 1
  /\ UNCHANGED <<wanted, running, current, captured, started, orphans, loop, canceled,
                 trafficVars>>

(* Stop, first critical section: nothing to do unless the poller runs.      *)
StopReads(c) ==
  /\ Goto(c, "stop", IF running THEN "cancel" ELSE "stopped")
  /\ captured' = [captured EXCEPT ![c] = IF running THEN current ELSE 0]
  /\ UNCHANGED <<wanted, running, current, calls, started, orphans,
                 loop, canceled, trafficVars>>

(* Mutant: Stop waits without canceling the context.                        *)
StopForgetsCancel(c) ==
  /\ Goto(c, "cancel", "wait")
  /\ UNCHANGED <<wanted, running, current, captured, calls, started,
                 orphans, loop, canceled, trafficVars>>

(* Stop calls the cancel function it copied.                                *)
StopCancels(c) ==
  /\ Goto(c, "cancel", "wait")
  /\ canceled' = canceled \cup ({captured[c]} \ {0})
  /\ UNCHANGED <<wanted, running, current, captured, calls, started,
                 orphans, loop, trafficVars>>

(* Mutant: Stop does not wait for the loop.                                 *)
StopDoesNotWait(c) ==
  /\ Goto(c, "wait", "finish")
  /\ UNCHANGED <<wanted, running, current, captured, calls, started,
                 orphans, loop, canceled, trafficVars>>

(* wg.Wait returns at once when no goroutine is counted.                    *)
StopWaits(c) ==
  /\ Goto(c, "wait", IF Live = {} THEN "finish" ELSE "waiting")
  /\ UNCHANGED <<wanted, running, current, captured, calls, started,
                 orphans, loop, canceled, trafficVars>>

(* A waiter that was woken panics when the group is in use again by then.   *)
WaitReturns(c) ==
  /\ Goto(c, "released", IF Live = {} THEN "finish" ELSE "panicked")
  /\ UNCHANGED <<wanted, running, current, captured, calls, started,
                 orphans, loop, canceled, trafficVars>>

(* Stop, last critical section.  It resets cancel whatever cancel is by     *)
(* now: another caller's Start may have set it since this call copied it.   *)
StopFinishes(c) ==
  /\ Goto(c, "finish", "stopped")
  /\ orphans' = orphans \cup ({current} \ {0, captured[c]})
  /\ current' = 0
  /\ running' = FALSE
  /\ UNCHANGED <<wanted, captured, calls, started, loop, canceled,
                 trafficVars>>

(* Stop has returned; Restart looks at the profiles, and shutdown goes on   *)
(* to the end of the process.                                               *)
StopReturns(c) ==
  /\ Goto(c, "stopped", IF c \in Stoppers THEN "exit"
                       ELSE IF wanted THEN "start" ELSE "idle")
  /\ captured' = [captured EXCEPT ![c] = 0]
  /\ UNCHANGED <<wanted, running, current, calls, started, orphans,
                 loop, canceled, trafficVars>>

(* Mutant: Start does not look whether the poller runs.                     *)
StartUnchecked(c) ==
  /\ Goto(c, "start", "idle")
  /\ started < MaxLoops
  /\ running' = TRUE
  /\ current' = started + 1
  /\ started' = started + 1
  /\ loop' = [loop EXCEPT ![started + 1] = "top"]
  /\ UNCHANGED <<wanted, captured, calls, orphans, canceled, trafficVars>>

(* Start: it counts and launches the goroutine, unless the poller runs.     *)
Start(c) ==
  /\ Goto(c, "start", "idle")
  /\ IF running
     THEN UNCHANGED <<running, current, started, loop>>
     ELSE /\ started < MaxLoops
          /\ running' = TRUE
          /\ current' = started + 1
          /\ started' = started + 1
          /\ loop' = [loop EXCEPT ![started + 1] = "top"]
  /\ UNCHANGED <<wanted, captured, calls, orphans, canceled, trafficVars>>

-------------------------------------------------------------------------------
(* The polling goroutine                                                    *)

LoopGoto(l, from, to) ==
  /\ loop[l] = from
  /\ loop' = [loop EXCEPT ![l] = to]

(* run finds its context canceled.  Its deferred wg.Done, when it brings    *)
(* the counter to zero, wakes every waiter.                                 *)
LoopEnds(l) ==
  /\ l \in canceled
  /\ LoopGoto(l, "top", "ended")
  /\ pc' = IF Live = {l}
           THEN [c \in Callers |-> IF pc[c] = "waiting" THEN "released" ELSE pc[c]]
           ELSE pc
  /\ count' = [count EXCEPT ![l] = 0]
  /\ UNCHANGED <<wanted, running, current, captured, calls, started, orphans,
                 canceled, offset, asked, batch, handling, sent, confirmed, handled,
                 dropped, executed, crashes>>

(* A poll cycle begins; without a profile that wants it nothing is polled.  *)
BeginPoll(l) ==
  /\ wanted
  /\ l \notin canceled
  /\ LoopGoto(l, "top", "polling")
  /\ asked' = [asked EXCEPT ![l] = offset]
  /\ UNCHANGED <<wanted, lifeVars, offset, batch, handling, count, sent, confirmed,
                 handled, dropped, executed, crashes>>

(* Telegram forgets the updates below the offset it is asked for (it keeps  *)
(* every update when asked for 0) and answers with the rest.  The driver    *)
(* cannot decode an answer it has only read the beginning of.               *)
Forgotten(o) == IF o = 0 THEN confirmed ELSE Max({confirmed, o - 1})

GetUpdates(l) ==
  LET answer == (Forgotten(asked[l]) + 1)..sent IN
  /\ Cardinality(answer) <= Fits
  /\ LoopGoto(l, "polling", IF answer = {} THEN "top" ELSE "batch")
  /\ confirmed' = Forgotten(asked[l])
  /\ batch' = [batch EXCEPT ![l] = answer]
  /\ asked' = [asked EXCEPT ![l] = 0]
  /\ UNCHANGED <<wanted, lifeVars, offset, handling, count, sent, handled, dropped,
                 executed, crashes>>

(* The request, or its answer, is lost or too long, or the context is       *)
(* canceled.  The request may have reached Telegram nevertheless.           *)
GetUpdatesFails(l) ==
  /\ LoopGoto(l, "polling", "top")
  /\ confirmed' \in {confirmed, Forgotten(asked[l])}
  /\ asked' = [asked EXCEPT ![l] = 0]
  /\ UNCHANGED <<wanted, lifeVars, offset, batch, handling, count, sent, handled,
                 dropped, executed, crashes>>

(* Mutant: the offset is not advanced.                                      *)
TakeUpdateAgain(l) ==
  /\ LoopGoto(l, "batch", "handling")
  /\ handling' = [handling EXCEPT ![l] = Min(batch[l])]
  /\ batch' = [batch EXCEPT ![l] = @ \ {Min(batch[l])}]
  /\ UNCHANGED <<wanted, lifeVars, offset, asked, count, sent, confirmed, handled,
                 dropped, executed, crashes>>

(* Mutant: the offset passes the whole batch when its first update is taken. *)
TakeUpdateSkips(l) ==
  /\ LoopGoto(l, "batch", "handling")
  /\ handling' = [handling EXCEPT ![l] = Min(batch[l])]
  /\ batch' = [batch EXCEPT ![l] = {}]
  /\ offset' = Max({offset, Max(batch[l]) + 1})
  /\ UNCHANGED <<wanted, lifeVars, asked, count, sent, confirmed, handled, dropped,
                 executed, crashes>>

(* The head of the loop over the updates: the offset passes the update      *)
(* before anything is done about it.                                        *)
TakeUpdate(l) ==
  LET u == Min(batch[l]) IN
  /\ LoopGoto(l, "batch", "handling")
  /\ handling' = [handling EXCEPT ![l] = u]
  /\ batch' = [batch EXCEPT ![l] = @ \ {u}]
  /\ offset' = IF u >= offset THEN u + 1 ELSE offset
  /\ UNCHANGED <<wanted, lifeVars, asked, count, sent, confirmed, handled, dropped,
                 executed, crashes>>

(* The rest of the body: an update of an unauthorized chat is passed over,  *)
(* a command under a canceled context is dropped, one over the limit is     *)
(* refused, and any other goes to the router.  The loop over the batch goes *)
(* on under a canceled context, and the offset with it.                     *)
HandleUpdate(l) ==
  LET u == handling[l]
      drop == u \notin Unauthorized /\ l \in canceled
      accepted == u \notin Unauthorized /\ l \notin canceled /\ count[l] < Limit IN
  /\ LoopGoto(l, "handling", IF batch[l] = {} THEN "top" ELSE "batch")
  /\ handling' = [handling EXCEPT ![l] = 0]
  /\ dropped' = IF drop THEN dropped \cup {u} ELSE dropped
  /\ handled' = IF drop THEN handled ELSE handled \cup {u}
  /\ executed' = IF accepted THEN [executed EXCEPT ![u] = @ + 1] ELSE executed
  /\ count' = IF accepted THEN [count EXCEPT ![l] = @ + 1] ELSE count
  /\ UNCHANGED <<wanted, lifeVars, offset, asked, batch, sent, confirmed, crashes>>

-------------------------------------------------------------------------------
(* The surroundings                                                         *)

(* A user sends a message or presses a button.                              *)
Send ==
  /\ sent < MaxUpdates
  /\ sent' = sent + 1
  /\ UNCHANGED <<wanted, lifeVars, loop, updateVars, crashes>>

(* The daemon dies and is started again.  Offsets and limiter are memory    *)
(* only; the profiles come back from the store, which may not have seen the *)
(* last change of them.                                                     *)
Crash ==
  /\ crashes < MaxCrashes
  /\ crashes' = crashes + 1
  /\ wanted' \in BOOLEAN
  /\ running' = wanted'
  /\ current' = IF wanted' THEN 1 ELSE 0
  /\ pc' = [c \in Callers |-> "idle"]
  /\ captured' = [c \in Callers |-> 0]
  /\ started' = IF wanted' THEN 1 ELSE 0
  /\ orphans' = IF orphans = {} THEN {} ELSE {0}
  /\ loop' = [l \in Loops |-> IF wanted' /\ l = 1 THEN "top" ELSE "none"]
  /\ canceled' = {}
  /\ offset' = 0
  /\ asked' = [l \in Loops |-> 0]
  /\ batch' = [l \in Loops |-> {}]
  /\ handling' = [l \in Loops |-> 0]
  /\ count' = [l \in Loops |-> 0]
  /\ executed' = [u \in Updates |-> 0]
  /\ UNCHANGED <<calls, sent, confirmed, handled, dropped>>

CallerStep(c) ==
  \/ StopReads(c)
  \/ StopCancels(c)
  \/ StopWaits(c)
  \/ WaitReturns(c)
  \/ StopFinishes(c)
  \/ StopReturns(c)
  \/ Start(c)

LoopStep(l) ==
  \/ LoopEnds(l)
  \/ BeginPoll(l)
  \/ GetUpdates(l)
  \/ GetUpdatesFails(l)
  \/ TakeUpdate(l)
  \/ HandleUpdate(l)

Next ==
  \/ \E c \in Callers : CallerStep(c) \/ Shutdown(c)
  \/ \E c \in Callers, w \in BOOLEAN : ChangeProfiles(c, w)
  \/ \E l \in Loops : LoopStep(l)
  \/ Send
  \/ Crash

Spec == Init /\ [][Next]_vars

(* Goroutines that can go on do; a request to Telegram is answered or gives *)
(* up (the HTTP client has a timeout).                                      *)
FairSpec ==
  /\ Spec
  /\ \A c \in Callers : WF_vars(CallerStep(c))
  /\ \A l \in Loops : WF_vars(LoopStep(l))

(* Moreover Telegram is reached, and its answer received, time and again.   *)
OnlineSpec == FairSpec /\ \A l \in Loops : SF_vars(GetUpdates(l))

-------------------------------------------------------------------------------
(* Properties                                                               *)

(* However many callers are in Restart and Stop, a polling loop that lives  *)
(* is the one Poller.cancel ends, or one whose cancel function a Stop       *)
(* forgot because another caller's Start had replaced the loop it waited    *)
(* for.  As long as that has not happened there is one loop at most.        *)
OneLoop == Live \subseteq {current} \cup orphans

(* Whoever else is in Start or Stop meanwhile: the loop that a call of Stop *)
(* found running has ended when that call resets Poller.running.            *)
StopEndsItsLoop ==
  \A c \in Callers :
    pc[c] \in {"finish", "stopped"} /\ captured[c] # 0 => ~Alive(captured[c])

(* The updates some loop is done with.                                      *)
Done == handled \cup dropped

(* Within one daemon process a command goes to the router at most once,     *)
(* however often the poller is restarted in the middle of a batch.          *)
AtMostOnce == \A u \in Updates : executed[u] <= 1

(* Telegram forgets an update only after some loop is done with it, also    *)
(* when the daemon dies at any point: the one way to lose a command is a    *)
(* Stop or Restart in the middle of a batch, which drops the rest of it.    *)
ForgottenWereTaken == 1..confirmed \subseteq Done

(* The offset is advanced before an update is handled (poller.go:174), and  *)
(* a batch may be met by Stop or cut short by a crash anywhere: unless a    *)
(* Stop has left an orphan loop behind, no command goes to the router twice *)
(* in a process, and none is confirmed that was neither handled nor dropped *)
(* by a loop under a canceled context.                                      *)
EachUpdateOnce == orphans = {} => AtMostOnce /\ ForgottenWereTaken

(* While c was in Stop, another caller's Start has replaced the loop that c *)
(* is waiting for.                                                          *)
Overtaken(c) == captured[c] # 0 /\ captured[c] < started

(* Restart and Stop return: a handler hangs or panics in wg.Wait only when  *)
(* a Start has overtaken it, or after a Stop has left an orphan loop.       *)
CallsReturn ==
  \A c \in Callers :
    (pc[c] = "stop") ~> (pc[c] \in {"idle", "exit"} \/ Overtaken(c) \/ orphans # {})

(* What waits at Telegram does not fit into what the driver reads of one    *)
(* answer.                                                                  *)
TooLong == Cardinality((Forgotten(offset) + 1)..sent) > Fits

(* "GetUpdates fetches new messages": an update is handled in the end, or   *)
(* dropped by a loop that Stop has canceled, unless the poller stops, no    *)
(* profile wants commands, a Stop has left an orphan loop behind, or more   *)
(* has piled up than fits into one answer.                                  *)
UpdatesAreHandled ==
  \A u \in Updates :
    (u <= sent) ~> \/ u \in Done
                   \/ ~running \/ ~wanted
                   \/ orphans # {} \/ TooLong

(* "Stop terminates the polling loop": once Poller.running is false again,  *)
(* nothing polls any more.                                                  *)
StopTerminates == ~running => Live = {}

(* Every update is handled in the end as long as the poller runs, however   *)
(* many are waiting (not so of the code: see README.md).                    *)
EveryBacklogDrains == \A u \in Updates : (u <= sent) ~> (u \in handled \/ ~running)

===============================================================================
