---------------------------- MODULE EventBroker ----------------------------
(***************************************************************************)
(* The event broker (internal/core/events.go) and the handler of           *)
(* /api/events that reads from it (internal/api/sse.go).  Publishers are   *)
(* the goroutines that call Publish: runs, handlers, setup workers.  The   *)
(* broker's RWMutex is modelled with its two phases: a writer (Subscribe,  *)
(* Unsubscribe) first announces itself, which stops new readers, and works *)
(* when the readers (Publish) that were before it are done.                *)
(***************************************************************************)
EXTENDS Integers, Sequences

CONSTANTS
  Clients,      \* the requests to /api/events, each served by a goroutine
  Publishers,   \* the goroutines that publish
  ChanCap,      \* capacity of a subscriber channel (32 in the code)
  MaxEvents,    \* bound: events each publisher publishes
  NoOne         \* no writer is announced

ASSUME CapAssumption == ChanCap \in Nat \ {0} /\ MaxEvents \in Nat
ASSUME NoOneAssumption == NoOne \notin Clients

VARIABLES
  clients,    \* EventBroker.clients: the registered channels
  handler,    \* client -> where its handler is
  chan,       \* client -> contents of its channel
  closed,     \* channels that were closed
  writer,     \* the handler that announced a write lock, or NoOne
  reading,    \* publishers that hold the read lock
  targets,    \* publisher -> channels its loop has still to visit
  count,      \* publisher -> number of events published
  written     \* client -> publisher -> number of its last event written to the response

vars == <<clients, handler, chan, closed, writer, reading, targets, count, written>>

HandlerStates == {"new", "subscribing", "streaming", "leaving", "gone"}
Events == [by : Publishers, n : 1..MaxEvents]
Event(p) == [by |-> p, n |-> count[p]]

TypeOK ==
  /\ clients \subseteq Clients
  /\ handler \in [Clients -> HandlerStates]
  /\ chan \in [Clients -> Seq(Events)]
  /\ closed \subseteq Clients
  /\ writer \in Clients \cup {NoOne}
  /\ reading \subseteq Publishers
  /\ targets \in [Publishers -> SUBSET Clients]
  /\ count \in [Publishers -> 0..MaxEvents]
  /\ written \in [Clients -> [Publishers -> 0..MaxEvents]]

Init ==
  /\ clients = {}
  /\ handler = [c \in Clients |-> "new"]
  /\ chan = [c \in Clients |-> <<>>]
  /\ closed = {}
  /\ writer = NoOne
  /\ reading = {}
  /\ targets = [p \in Publishers |-> {}]
  /\ count = [p \in Publishers |-> 0]
  /\ written = [c \in Clients |-> [p \in Publishers |-> 0]]

(* The handler calls Subscribe. *)
Connect(c) ==
  /\ handler[c] = "new"
  /\ handler' = [handler EXCEPT ![c] = "subscribing"]
  /\ UNCHANGED <<clients, chan, closed, writer, reading, targets, count, written>>

(* The request's context is done: the select of the handler may notice it  *)
(* even when its channel is not empty.  The deferred Unsubscribe follows.  *)
Disconnect(c) ==
  /\ handler[c] = "streaming"
  /\ handler' = [handler EXCEPT ![c] = "leaving"]
  /\ UNCHANGED <<clients, chan, closed, writer, reading, targets, count, written>>

(* mu.Lock() announces itself: one writer at a time. *)
Lock(c) ==
  /\ handler[c] \in {"subscribing", "leaving"}
  /\ writer = NoOne
  /\ writer' = c
  /\ UNCHANGED <<clients, handler, chan, closed, reading, targets, count, written>>

(* A writer that does not wait for the readers before it. *)
ExclusiveNeglected(c) == writer = c

(* The readers are gone: the writer has the lock to itself. *)
Exclusive(c) == writer = c /\ reading = {}

Subscribe(c) ==
  /\ handler[c] = "subscribing"
  /\ Exclusive(c)
  /\ clients' = clients \cup {c}
  /\ handler' = [handler EXCEPT ![c] = "streaming"]
  /\ writer' = NoOne
  /\ UNCHANGED <<chan, closed, reading, targets, count, written>>

Unsubscribe(c) ==
  /\ handler[c] = "leaving"
  /\ Exclusive(c)
  /\ clients' = clients \ {c}
  /\ closed' = closed \cup {c}
  /\ handler' = [handler EXCEPT ![c] = "gone"]
  /\ writer' = NoOne
  /\ UNCHANGED <<chan, reading, targets, count, written>>

(* Publish takes the read lock and starts its loop over the map. *)
Publish(p) ==
  /\ p \notin reading
  /\ writer = NoOne
  /\ count[p] < MaxEvents
  /\ reading' = reading \cup {p}
  /\ count' = [count EXCEPT ![p] = @ + 1]
  /\ targets' = [targets EXCEPT ![p] = clients]
  /\ UNCHANGED <<clients, handler, chan, closed, writer, written>>

(* A publisher that waits for room instead of taking the default branch. *)
OfferBlocking(p, c) ==
  /\ c \in targets[p]
  /\ Len(chan[c]) < ChanCap
  /\ chan' = [chan EXCEPT ![c] = Append(@, Event(p))]
  /\ targets' = [targets EXCEPT ![p] = @ \ {c}]
  /\ UNCHANGED <<clients, handler, closed, writer, reading, count, written>>

(* A publisher whose newest event overtakes those that wait. *)
OfferReordering(p, c) ==
  /\ c \in targets[p]
  /\ chan' = [chan EXCEPT ![c] = IF Len(@) < ChanCap THEN <<Event(p)>> \o @ ELSE @]
  /\ targets' = [targets EXCEPT ![p] = @ \ {c}]
  /\ UNCHANGED <<clients, handler, closed, writer, reading, count, written>>

(* A publisher that gives an event up with one place left. *)
OfferEarlyDrop(p, c) ==
  /\ c \in targets[p]
  /\ chan' = [chan EXCEPT ![c] = IF Len(@) + 1 < ChanCap THEN Append(@, Event(p)) ELSE @]
  /\ targets' = [targets EXCEPT ![p] = @ \ {c}]
  /\ UNCHANGED <<clients, handler, closed, writer, reading, count, written>>

(* One turn of the loop: a send that does not block, or the event is lost. *)
Offer(p, c) ==
  /\ c \in targets[p]
  /\ chan' = [chan EXCEPT ![c] = IF Len(@) < ChanCap THEN Append(@, Event(p)) ELSE @]
  /\ targets' = [targets EXCEPT ![p] = @ \ {c}]
  /\ UNCHANGED <<clients, handler, closed, writer, reading, count, written>>

Published(p) ==
  /\ p \in reading
  /\ targets[p] = {}
  /\ reading' = reading \ {p}
  /\ UNCHANGED <<clients, handler, chan, closed, writer, targets, count, written>>

(* The handler receives an event and writes it to the response. *)
Stream(c) ==
  /\ handler[c] = "streaming"
  /\ chan[c] # <<>>
  /\ chan' = [chan EXCEPT ![c] = Tail(@)]
  /\ written' = [written EXCEPT ![c][Head(chan[c]).by] = Head(chan[c]).n]
  /\ UNCHANGED <<clients, handler, closed, writer, reading, targets, count>>

Next ==
  \/ \E c \in Clients :
       Connect(c) \/ Disconnect(c) \/ Lock(c) \/ Subscribe(c) \/ Unsubscribe(c) \/ Stream(c)
  \/ \E p \in Publishers : Publish(p) \/ Published(p)
  \/ \E p \in Publishers, c \in Clients : Offer(p, c)

(* Goroutines that hold or wait for the lock are scheduled.  Nothing is     *)
(* assumed of Stream: a client may stop reading, and its handler is then    *)
(* stuck in the write.                                                      *)
Fairness ==
  /\ \A p \in Publishers : WF_vars(Published(p)) /\ WF_vars(\E c \in Clients : Offer(p, c))
  /\ \A c \in Clients : /\ SF_vars(Lock(c))
                        /\ WF_vars(Subscribe(c))
                        /\ WF_vars(Unsubscribe(c))

Spec == Init /\ [][Next]_vars /\ Fairness

-----------------------------------------------------------------------------
(* A channel is closed by Unsubscribe while publishers hold a set of        *)
(* channels to visit: a send on a closed channel would panic the daemon.    *)
(* No publisher ever has a closed channel before it.                        *)
NoSendOnClosed == \A p \in Publishers : targets[p] \cap closed = {}

(* The web UI folds the events of a run into what it shows, so they must    *)
(* arrive in the order they were published: the events of one publisher     *)
(* stand in a channel in ascending order and after those that were written  *)
(* to the response, whatever was dropped in between.                        *)
OrderPerPublisher ==
  \A c \in Clients, p \in Publishers :
    \A i \in 1..Len(chan[c]) :
      chan[c][i].by = p =>
        /\ written[c][p] < chan[c][i].n
        /\ \A j \in 1..i - 1 : chan[c][j].by = p => chan[c][j].n < chan[c][i].n

(* The broker, with its lock, implements the lock-free promise: an event    *)
(* reaches every client registered when it was published or is lost to a    *)
(* full channel, and Unsubscribe never takes a client from under it.        *)
Promise == INSTANCE LossyFanout WITH
  members <- clients, left <- closed, backlog <- chan, offered <- count, owed <- targets

KeepsPromise == Promise!Spec

(* A client that stops reading cannot hold up the daemon: every Publish     *)
(* returns and every Subscribe and Unsubscribe goes through, although no    *)
(* fairness is assumed of the clients' reading.                             *)
NobodyBlocks ==
  /\ \A p \in Publishers : p \in reading ~> p \notin reading
  /\ \A c \in Clients : handler[c] \in {"subscribing", "leaving"} ~> handler[c] \in {"streaming", "gone"}
=============================================================================
