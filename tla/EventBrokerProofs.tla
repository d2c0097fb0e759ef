------------------------- MODULE EventBrokerProofs -------------------------
(***************************************************************************)
(* The broker keeps its promise for every number of clients, publishers,   *)
(* events and places in a channel.  The argument is the lock's: a          *)
(* publisher between two sends is a reader, and a handler that subscribes  *)
(* or unsubscribes works only while there is no reader.                    *)
(***************************************************************************)
EXTENDS EventBroker, TLAPS

(* Where a handler stands tells whether its channel is registered. *)
Registered ==
  \A c \in Clients :
    /\ c \in clients <=> handler[c] \in {"streaming", "leaving"}
    /\ c \in closed <=> handler[c] = "gone"

(* Only a reader has channels to visit, and they are registered. *)
ReadersVisit ==
  \A p \in Publishers : /\ targets[p] # {} => p \in reading
                        /\ targets[p] \subseteq clients

(* A channel holds no more than its capacity. *)
ChannelsBounded == \A c \in Clients : Len(chan[c]) <= ChanCap

BrokerInv == TypeOK /\ Registered /\ ReadersVisit /\ ChannelsBounded

LEMMA InitBroker == Init => BrokerInv
<1> USE CapAssumption, NoOneAssumption
<1> SUFFICES ASSUME Init PROVE BrokerInv
  OBVIOUS
<1>1. TypeOK
  BY DEF Init, TypeOK, HandlerStates, Events
<1>2. Registered /\ ReadersVisit /\ ChannelsBounded
  BY DEF Init, Registered, ReadersVisit, ChannelsBounded
<1> QED BY <1>1, <1>2 DEF BrokerInv

(* The events a publisher sends are events. *)
LEMMA EventTyped ==
  ASSUME TypeOK, NEW p \in Publishers, count[p] # 0
  PROVE  Event(p) \in Events
  BY CapAssumption DEF TypeOK, Event, Events

(* A publisher with channels to visit has counted its event. *)
Counted == \A p \in Publishers : p \in reading => count[p] # 0

LEMMA CountedStep == TypeOK /\ Counted /\ [Next]_vars => Counted'
<1> USE CapAssumption DEF TypeOK
<1> SUFFICES ASSUME TypeOK, Counted, [Next]_vars, NEW p \in Publishers, p \in reading'
             PROVE  count'[p] # 0
  BY DEF Counted
<1>1. CASE UNCHANGED vars
  BY <1>1 DEF vars, Counted
<1>2. CASE \E q \in Publishers : Publish(q)
  BY <1>2 DEF Publish, Counted
<1>3. CASE \E q \in Publishers : Published(q)
  BY <1>3 DEF Published, Counted
<1>4. CASE \E q \in Publishers, c \in Clients : Offer(q, c)
  BY <1>4 DEF Offer, Counted
<1>5. CASE \E c \in Clients : Connect(c) \/ Disconnect(c) \/ Lock(c) \/ Subscribe(c) \/ Unsubscribe(c) \/ Stream(c)
  BY <1>5 DEF Connect, Disconnect, Lock, Subscribe, Unsubscribe, Stream, Counted
<1> QED BY <1>1, <1>2, <1>3, <1>4, <1>5 DEF Next

LEMMA TypeStep == BrokerInv /\ Counted /\ [Next]_vars => TypeOK'
<1> USE CapAssumption, NoOneAssumption DEF HandlerStates
<1> SUFFICES ASSUME BrokerInv, Counted, [Next]_vars PROVE TypeOK'
  OBVIOUS
<1>0. TypeOK
  BY DEF BrokerInv
<1>1. CASE UNCHANGED vars
  BY <1>0, <1>1 DEF vars, TypeOK
<1>2. ASSUME NEW c \in Clients,
             Connect(c) \/ Disconnect(c) \/ Lock(c) \/ Subscribe(c) \/ Unsubscribe(c)
      PROVE  TypeOK'
  BY <1>0, <1>2 DEF TypeOK, Connect, Disconnect, Lock, Subscribe, Unsubscribe
<1>3. ASSUME NEW p \in Publishers, Publish(p) PROVE TypeOK'
  <2>1. count[p] + 1 \in 0..MaxEvents
    BY <1>0, <1>3 DEF TypeOK, Publish
  <2>2. count' \in [Publishers -> 0..MaxEvents] /\ targets' \in [Publishers -> SUBSET Clients]
    BY <1>0, <1>3, <2>1 DEF TypeOK, Publish
  <2> QED BY <1>0, <1>3, <2>2 DEF TypeOK, Publish
<1>6. ASSUME NEW p \in Publishers, Published(p) PROVE TypeOK'
  BY <1>0, <1>6 DEF TypeOK, Published
<1>4. ASSUME NEW p \in Publishers, NEW c \in Clients, Offer(p, c) PROVE TypeOK'
  <2>1. Event(p) \in Events
    BY <1>0, <1>4, EventTyped DEF Offer, BrokerInv, ReadersVisit, Counted
  <2>2. chan' \in [Clients -> Seq(Events)]
    BY <1>0, <1>4, <2>1 DEF TypeOK, Offer
  <2> QED BY <1>0, <1>4, <2>2 DEF TypeOK, Offer
<1>5. ASSUME NEW c \in Clients, Stream(c) PROVE TypeOK'
  <2>1. Tail(chan[c]) \in Seq(Events) /\ Head(chan[c]) \in Events
    BY <1>0, <1>5 DEF TypeOK, Stream
  <2>2. Head(chan[c]).by \in Publishers /\ Head(chan[c]).n \in 0..MaxEvents
    BY <2>1 DEF Events
  <2>3. chan' \in [Clients -> Seq(Events)]
    BY <1>0, <1>5, <2>1 DEF TypeOK, Stream
  <2>4. written' \in [Clients -> [Publishers -> 0..MaxEvents]]
    BY <1>0, <1>5, <2>2 DEF TypeOK, Stream
  <2> QED BY <1>0, <1>5, <2>3, <2>4 DEF TypeOK, Stream
<1> QED BY <1>1, <1>2, <1>3, <1>4, <1>5, <1>6 DEF Next

LEMMA RegisteredStep == BrokerInv /\ [Next]_vars => Registered'
<1> SUFFICES ASSUME BrokerInv, [Next]_vars PROVE Registered'
  OBVIOUS
<1> USE DEF BrokerInv, TypeOK, Registered
<1>1. CASE UNCHANGED vars
  BY <1>1 DEF vars
<1>2. ASSUME NEW c \in Clients,
             Connect(c) \/ Disconnect(c) \/ Lock(c) \/ Subscribe(c) \/ Unsubscribe(c) \/ Stream(c)
      PROVE  Registered'
  BY <1>2 DEF Connect, Disconnect, Lock, Subscribe, Unsubscribe, Stream
<1>3. ASSUME NEW p \in Publishers, Publish(p) \/ Published(p) PROVE Registered'
  BY <1>3 DEF Publish, Published
<1>4. ASSUME NEW p \in Publishers, NEW c \in Clients, Offer(p, c) PROVE Registered'
  BY <1>4 DEF Offer
<1> QED BY <1>1, <1>2, <1>3, <1>4 DEF Next

LEMMA ReadersStep == BrokerInv /\ [Next]_vars => ReadersVisit'
<1> SUFFICES ASSUME BrokerInv, [Next]_vars PROVE ReadersVisit'
  OBVIOUS
<1> USE DEF BrokerInv, TypeOK, ReadersVisit
<1>1. CASE UNCHANGED vars
  BY <1>1 DEF vars
<1>2. ASSUME NEW c \in Clients, Connect(c) \/ Disconnect(c) \/ Lock(c) \/ Subscribe(c) \/ Stream(c)
      PROVE  ReadersVisit'
  BY <1>2 DEF Connect, Disconnect, Lock, Subscribe, Stream
<1>3. ASSUME NEW c \in Clients, Unsubscribe(c) PROVE ReadersVisit'
  BY <1>3 DEF Unsubscribe, Exclusive
<1>4. ASSUME NEW p \in Publishers, Publish(p) \/ Published(p) PROVE ReadersVisit'
  BY <1>4 DEF Publish, Published
<1>5. ASSUME NEW p \in Publishers, NEW c \in Clients, Offer(p, c) PROVE ReadersVisit'
  BY <1>5 DEF Offer
<1> QED BY <1>1, <1>2, <1>3, <1>4, <1>5 DEF Next

LEMMA BoundedStep == BrokerInv /\ [Next]_vars => ChannelsBounded'
<1> USE CapAssumption
<1> SUFFICES ASSUME BrokerInv, [Next]_vars, NEW d \in Clients PROVE Len(chan'[d]) <= ChanCap
  BY DEF ChannelsBounded
<1>0. chan[d] \in Seq(Events) /\ Len(chan[d]) <= ChanCap
  BY DEF BrokerInv, TypeOK, ChannelsBounded
<1>1. CASE UNCHANGED vars
  BY <1>0, <1>1 DEF vars
<1>2. ASSUME NEW c \in Clients,
             Connect(c) \/ Disconnect(c) \/ Lock(c) \/ Subscribe(c) \/ Unsubscribe(c)
      PROVE  Len(chan'[d]) <= ChanCap
  BY <1>0, <1>2 DEF Connect, Disconnect, Lock, Subscribe, Unsubscribe
<1>3. ASSUME NEW c \in Clients, Stream(c) PROVE Len(chan'[d]) <= ChanCap
  BY <1>0, <1>3 DEF Stream, BrokerInv, TypeOK
<1>4. ASSUME NEW p \in Publishers, Publish(p) \/ Published(p) PROVE Len(chan'[d]) <= ChanCap
  BY <1>0, <1>4 DEF Publish, Published
<1>5. ASSUME NEW p \in Publishers, NEW c \in Clients, Offer(p, c) PROVE Len(chan'[d]) <= ChanCap
  BY <1>0, <1>5 DEF Offer, BrokerInv, TypeOK
<1> QED BY <1>1, <1>2, <1>3, <1>4, <1>5 DEF Next

(* The locking discipline of internal/core/events.go is an invariant of     *)
(* the broker.                                                              *)
THEOREM BrokerInvariant == Spec => [](BrokerInv /\ Counted)
<1>1. Init => BrokerInv /\ Counted
  BY InitBroker DEF Init, Counted
<1>2. BrokerInv /\ Counted /\ [Next]_vars => (BrokerInv /\ Counted)'
  BY TypeStep, RegisteredStep, ReadersStep, BoundedStep, CountedStep DEF BrokerInv
<1> QED BY <1>1, <1>2, PTL DEF Spec

(* Publish never sends on a channel that Unsubscribe has closed, so no       *)
(* event and no disconnect of a client can bring the daemon down.            *)
THEOREM NoSendOnClosedTheorem == Spec => []NoSendOnClosed
<1>1. BrokerInv => NoSendOnClosed
  BY DEF BrokerInv, TypeOK, Registered, ReadersVisit, NoSendOnClosed
<1> QED BY <1>1, BrokerInvariant, PTL

-----------------------------------------------------------------------------
(* Every step of the broker is a step of the promise or leaves it alone. *)
LEMMA StepKeepsPromise == BrokerInv /\ [Next]_vars => [Promise!Next]_(Promise!vars)
<1> SUFFICES ASSUME BrokerInv, [Next]_vars PROVE [Promise!Next]_(Promise!vars)
  OBVIOUS
<1> USE CapAssumption DEF BrokerInv, Promise!vars
<1>1. CASE UNCHANGED vars
  BY <1>1 DEF vars
<1>2. ASSUME NEW c \in Clients, Connect(c) \/ Disconnect(c) \/ Lock(c)
      PROVE  UNCHANGED Promise!vars
  BY <1>2 DEF Connect, Disconnect, Lock
<1>3. ASSUME NEW c \in Clients, Subscribe(c) PROVE Promise!Join(c)
  BY <1>3 DEF Subscribe, Promise!Join, Registered
<1>4. ASSUME NEW c \in Clients, Unsubscribe(c) PROVE Promise!Leave(c)
  BY <1>4 DEF Unsubscribe, Exclusive, Promise!Leave, Registered, ReadersVisit
<1>5. ASSUME NEW c \in Clients, Stream(c) PROVE Promise!Read(c)
  BY <1>5 DEF Stream, Promise!Read, Registered
<1>6. ASSUME NEW p \in Publishers, Publish(p) PROVE Promise!Publish(p)
  BY <1>6 DEF Publish, Promise!Publish, ReadersVisit
<1>7. ASSUME NEW p \in Publishers, Published(p) PROVE UNCHANGED Promise!vars
  BY <1>7 DEF Published
<1>8. ASSUME NEW p \in Publishers, NEW c \in Clients, Offer(p, c)
      PROVE  Promise!Accept(p, c) \/ Promise!Lose(p, c)
  <2>1. CASE Len(chan[c]) < ChanCap
    BY <1>8, <2>1 DEF Offer, Promise!Accept, Event, Promise!Event, TypeOK
  <2>2. CASE ~(Len(chan[c]) < ChanCap)
    <3>1. Len(chan[c]) = ChanCap
      BY <2>2 DEF ChannelsBounded, TypeOK
    <3>2. chan' = chan
      BY <1>8, <2>2 DEF Offer, TypeOK
    <3> QED BY <1>8, <3>1, <3>2 DEF Offer, Promise!Lose
  <2> QED BY <2>1, <2>2
<1> QED BY <1>1, <1>2, <1>3, <1>4, <1>5, <1>6, <1>7, <1>8 DEF Next, Promise!Next

(* The broker implements the lock-free fan-out: with its lock, events reach  *)
(* every registered client in their publisher's order or are lost to a full  *)
(* channel, and a client leaves only when nothing is on its way to it.       *)
THEOREM KeepsPromiseTheorem == Spec => KeepsPromise
<1>1. Init => Promise!Init
  BY DEF Init, Promise!Init
<1>2. BrokerInv /\ [Next]_vars => [Promise!Next]_(Promise!vars)
  BY StepKeepsPromise
<1> QED BY <1>1, <1>2, BrokerInvariant, PTL DEF Spec, Promise!Spec, KeepsPromise

-----------------------------------------------------------------------------
(* What has been written to c, and what waits for it, of the events of p:   *)
(* nothing beyond the last event of p, and not that one while it is still   *)
(* on its way.                                                              *)
Limit(p, c) == IF c \in targets[p] THEN count[p] - 1 ELSE count[p]

BehindPublisher ==
  \A c \in Clients, p \in Publishers :
    /\ written[c][p] <= Limit(p, c)
    /\ \A i \in 1..Len(chan[c]) : chan[c][i].by = p => chan[c][i].n <= Limit(p, c)

OrderInv == BehindPublisher /\ OrderPerPublisher

(* What OrderInv says of one event in a channel, with the types. *)
LEMMA OrderOfOne ==
  ASSUME TypeOK, OrderInv, NEW c \in Clients, NEW p \in Publishers
  PROVE  /\ written[c][p] \in Nat /\ count[p] \in Nat /\ chan[c] \in Seq(Events)
         /\ written[c][p] <= Limit(p, c) /\ Limit(p, c) \in Int
         /\ \A i \in 1..Len(chan[c]) : chan[c][i].n \in Nat
         /\ \A i \in 1..Len(chan[c]) : chan[c][i].by = p =>
              /\ chan[c][i].n <= Limit(p, c)
              /\ written[c][p] < chan[c][i].n
              /\ \A j \in 1..i - 1 : chan[c][j].by = p => chan[c][j].n < chan[c][i].n
<1>1. written[c][p] \in Nat /\ count[p] \in Nat /\ chan[c] \in Seq(Events)
  BY CapAssumption DEF TypeOK
<1>2. Limit(p, c) \in Int
  BY <1>1 DEF Limit
<1>3. \A i \in 1..Len(chan[c]) : chan[c][i] \in Events
  BY <1>1
<1>4. \A i \in 1..Len(chan[c]) : chan[c][i].n \in Nat
  BY <1>3, CapAssumption DEF Events
<1> QED BY <1>1, <1>2, <1>4 DEF OrderInv, BehindPublisher, OrderPerPublisher

(* A step that leaves channels and writes alone and takes no limit back      *)
(* keeps the order.                                                         *)
LEMMA OrderFrame ==
  ASSUME TypeOK, OrderInv, NEW c \in Clients, NEW p \in Publishers,
         chan'[c] = chan[c], written'[c][p] = written[c][p],
         Limit(p, c)' \in Int, Limit(p, c) <= Limit(p, c)'
  PROVE  /\ written'[c][p] <= Limit(p, c)'
         /\ \A i \in 1..Len(chan'[c]) : chan'[c][i].by = p =>
              /\ chan'[c][i].n <= Limit(p, c)'
              /\ written'[c][p] < chan'[c][i].n
              /\ \A j \in 1..i - 1 : chan'[c][j].by = p => chan'[c][j].n < chan'[c][i].n
<1>1. written[c][p] <= Limit(p, c)' /\ \A i \in 1..Len(chan[c]) : chan[c][i].by = p => chan[c][i].n <= Limit(p, c)'
  BY OrderOfOne
<1>2. \A i \in 1..Len(chan[c]) : chan[c][i].by = p =>
        /\ written[c][p] < chan[c][i].n
        /\ \A j \in 1..i - 1 : chan[c][j].by = p => chan[c][j].n < chan[c][i].n
  BY OrderOfOne
<1> QED BY <1>1, <1>2

LEMMA OrderOffer ==
  ASSUME TypeOK, ReadersVisit, Counted, OrderInv, NEW q \in Publishers, NEW d \in Clients, Offer(q, d)
  PROVE  OrderInv'
<1>1. Event(q) \in Events /\ Event(q).by = q /\ Event(q).n = count[q] /\ count[q] \in Nat
  BY EventTyped, CapAssumption DEF Offer, ReadersVisit, Counted, Event, TypeOK
<1>2. written' = written /\ count' = count /\ targets' = [targets EXCEPT ![q] = @ \ {d}] /\ d \in targets[q]
  BY DEF Offer
<1>3. Limit(q, d) = count[q] - 1 /\ Limit(q, d)' = count[q]
  BY <1>2 DEF Limit, TypeOK
<1>4. ASSUME NEW c \in Clients, NEW p \in Publishers
      PROVE  Limit(p, c)' \in Int /\ Limit(p, c) <= Limit(p, c)'
  <2>1. count[p] \in Nat
    BY CapAssumption DEF TypeOK
  <2>2. c \in targets'[p] => c \in targets[p]
    BY <1>2 DEF TypeOK
  <2> QED BY <1>2, <2>1, <2>2 DEF Limit
<1>5. ASSUME NEW c \in Clients, NEW p \in Publishers
      PROVE  /\ written'[c][p] <= Limit(p, c)'
             /\ \A i \in 1..Len(chan'[c]) : chan'[c][i].by = p =>
                  /\ chan'[c][i].n <= Limit(p, c)'
                  /\ written'[c][p] < chan'[c][i].n
                  /\ \A j \in 1..i - 1 : chan'[c][j].by = p => chan'[c][j].n < chan'[c][i].n
  <2>1. CASE chan'[c] = chan[c]
    BY <1>2, <1>4, <2>1, OrderFrame
  <2>2. CASE c = d /\ chan'[d] = Append(chan[d], Event(q))
    <3> DEFINE s == chan[d]
    <3>1. s \in Seq(Events) /\ Len(s) \in Nat
      BY OrderOfOne
    <3>2. chan'[c] = Append(s, Event(q)) /\ Len(chan'[c]) = Len(s) + 1
      BY <1>1, <2>2, <3>1
    <3>3. \A i \in 1..Len(s) : chan'[c][i] = s[i]
      BY <1>1, <3>1, <3>2
    <3>4. chan'[c][Len(s) + 1] = Event(q)
      BY <1>1, <3>1, <3>2
    <3> HIDE DEF s
    <3>5. /\ written[c][p] \in Nat /\ written[c][p] <= Limit(p, c) /\ Limit(p, c) \in Int
          /\ \A i \in 1..Len(s) : s[i].n \in Nat
          /\ \A i \in 1..Len(s) : s[i].by = p =>
               /\ s[i].n <= Limit(p, c)
               /\ written[c][p] < s[i].n
               /\ \A j \in 1..i - 1 : s[j].by = p => s[j].n < s[i].n
      BY <2>2, OrderOfOne DEF s
    <3>6. written'[c][p] = written[c][p] /\ written'[c][p] <= Limit(p, c)'
      BY <1>2, <1>4, <3>5
    <3>7. ASSUME NEW i \in 1..Len(s), s[i].by = p
          PROVE  /\ s[i].n <= Limit(p, c)'
                 /\ written'[c][p] < s[i].n
                 /\ \A j \in 1..i - 1 : chan'[c][j].by = p => chan'[c][j].n < s[i].n
      <4>1. s[i].n <= Limit(p, c)' /\ written'[c][p] < s[i].n
        BY <1>4, <3>5, <3>6, <3>7
      <4>2. ASSUME NEW j \in 1..i - 1, chan'[c][j].by = p PROVE chan'[c][j].n < s[i].n
        <5>1. j \in 1..Len(s) /\ chan'[c][j] = s[j]
          BY <3>1, <3>3
        <5> QED BY <3>5, <3>7, <4>2, <5>1
      <4> QED BY <4>1, <4>2
    <3>8. ASSUME p = q
          PROVE  /\ count[q] <= Limit(p, c)'
                 /\ written'[c][p] < count[q]
                 /\ \A j \in 1..Len(s) : chan'[c][j].by = p => chan'[c][j].n < count[q]
      <4>1. Limit(p, c) = count[q] - 1 /\ Limit(p, c)' = count[q]
        BY <1>3, <2>2, <3>8
      <4>2. count[q] <= Limit(p, c)' /\ written'[c][p] < count[q]
        BY <1>1, <3>5, <3>6, <4>1
      <4>3. ASSUME NEW j \in 1..Len(s), chan'[c][j].by = p PROVE chan'[c][j].n < count[q]
        BY <1>1, <3>3, <3>5, <4>1, <4>3
      <4> QED BY <4>2, <4>3
    <3>9. ASSUME NEW i \in 1..Len(chan'[c]), chan'[c][i].by = p
          PROVE  /\ chan'[c][i].n <= Limit(p, c)'
                 /\ written'[c][p] < chan'[c][i].n
                 /\ \A j \in 1..i - 1 : chan'[c][j].by = p => chan'[c][j].n < chan'[c][i].n
      <4>1. CASE i \in 1..Len(s)
        BY <3>3, <3>7, <3>9, <4>1
      <4>2. CASE i = Len(s) + 1
        <5>1. chan'[c][i] = Event(q) /\ p = q /\ i - 1 = Len(s) /\ chan'[c][i].n = count[q]
          BY <1>1, <3>1, <3>4, <3>9, <4>2
        <5> QED BY <3>8, <5>1
      <4> QED BY <3>1, <3>2, <4>1, <4>2
    <3> QED BY <3>6, <3>9
  <2> QED BY <2>1, <2>2 DEF Offer, TypeOK
<1> QED BY <1>5 DEF OrderInv, BehindPublisher, OrderPerPublisher

LEMMA OrderStream ==
  ASSUME TypeOK, OrderInv, NEW d \in Clients, Stream(d)
  PROVE  OrderInv'
<1> DEFINE s == chan[d]
<1>1. s \in Seq(Events) /\ s # <<>> /\ Len(s) \in Nat \ {0} /\ Head(s) = s[1] /\ 1 \in 1..Len(s)
  BY DEF Stream, TypeOK
<1>2. chan'[d] = Tail(s) /\ Len(chan'[d]) = Len(s) - 1
  BY <1>1 DEF Stream, TypeOK
<1>3. \A i \in 1..Len(s) - 1 : chan'[d][i] = s[i + 1]
  BY <1>1, <1>2
<1>4. \A c \in Clients : c # d => chan'[c] = chan[c] /\ written'[c] = written[c]
  BY DEF Stream, TypeOK
<1>5. ASSUME NEW p \in Publishers
      PROVE  written'[d][p] = IF s[1].by = p THEN s[1].n ELSE written[d][p]
  BY <1>1 DEF Stream, TypeOK
<1>6. ASSUME NEW c \in Clients, NEW p \in Publishers
      PROVE  Limit(p, c)' = Limit(p, c)
  BY DEF Stream, Limit
<1>7. ASSUME NEW c \in Clients, NEW p \in Publishers
      PROVE  /\ written'[c][p] <= Limit(p, c)'
             /\ \A i \in 1..Len(chan'[c]) : chan'[c][i].by = p =>
                  /\ chan'[c][i].n <= Limit(p, c)'
                  /\ written'[c][p] < chan'[c][i].n
                  /\ \A j \in 1..i - 1 : chan'[c][j].by = p => chan'[c][j].n < chan'[c][i].n
  <2>0. Limit(p, c) \in Int /\ Limit(p, c) <= Limit(p, c)
    BY OrderOfOne
  <2>1. CASE c # d
    BY <1>4, <1>6, <2>0, <2>1, OrderFrame
  <2>2. CASE c = d
    <3>1. /\ written[d][p] \in Nat /\ written[d][p] <= Limit(p, c)
          /\ \A i \in 1..Len(s) : s[i].n \in Nat
          /\ \A i \in 1..Len(s) : s[i].by = p =>
               /\ s[i].n <= Limit(p, c)
               /\ written[d][p] < s[i].n
               /\ \A j \in 1..i - 1 : s[j].by = p => s[j].n < s[i].n
      BY <2>2, OrderOfOne
    <3> HIDE DEF s
    <3>2. written'[d][p] <= Limit(p, c)
      BY <1>1, <1>5, <3>1
    <3>3. ASSUME NEW i \in 1..Len(s) - 1, s[i + 1].by = p
          PROVE  /\ s[i + 1].n <= Limit(p, c)
                 /\ written'[d][p] < s[i + 1].n
                 /\ \A j \in 1..i - 1 : s[j + 1].by = p => s[j + 1].n < s[i + 1].n
      <4>1. i + 1 \in 1..Len(s) /\ 1 \in 1..(i + 1) - 1
        BY <1>1
      <4>2. s[i + 1].n <= Limit(p, c) /\ \A j \in 1..(i + 1) - 1 : s[j].by = p => s[j].n < s[i + 1].n
        BY <3>1, <3>3, <4>1
      <4>3. written'[d][p] < s[i + 1].n
        BY <1>5, <3>1, <3>3, <4>1, <4>2
      <4>4. \A j \in 1..i - 1 : j + 1 \in 1..(i + 1) - 1
        BY <1>1
      <4> QED BY <4>2, <4>3, <4>4
    <3>4. ASSUME NEW i \in 1..Len(chan'[d]), chan'[d][i].by = p
          PROVE  /\ chan'[d][i].n <= Limit(p, c)
                 /\ written'[d][p] < chan'[d][i].n
                 /\ \A j \in 1..i - 1 : chan'[d][j].by = p => chan'[d][j].n < chan'[d][i].n
      <4>1. i \in 1..Len(s) - 1 /\ chan'[d][i] = s[i + 1] /\ \A j \in 1..i - 1 : chan'[d][j] = s[j + 1]
        BY <1>1, <1>2, <1>3
      <4> QED BY <3>3, <3>4, <4>1
    <3> QED BY <1>6, <2>2, <3>2, <3>4
  <2> QED BY <2>1, <2>2
<1> QED BY <1>7 DEF OrderInv, BehindPublisher, OrderPerPublisher

LEMMA OrderPublish ==
  ASSUME TypeOK, ReadersVisit, OrderInv, NEW q \in Publishers, Publish(q)
  PROVE  OrderInv'
<1>1. chan' = chan /\ written' = written
  BY DEF Publish
<1>2. ASSUME NEW c \in Clients, NEW p \in Publishers
      PROVE  Limit(p, c)' \in Int /\ Limit(p, c) <= Limit(p, c)'
  <2>1. count[p] \in Nat /\ (p = q => targets[p] = {})
    BY CapAssumption DEF Publish, ReadersVisit, TypeOK
  <2>2. p # q => targets'[p] = targets[p] /\ count'[p] = count[p]
    BY DEF Publish, TypeOK
  <2>3. p = q => count'[p] = count[p] + 1
    BY DEF Publish, TypeOK
  <2> QED BY <2>1, <2>2, <2>3 DEF Limit
<1>3. ASSUME NEW c \in Clients, NEW p \in Publishers
      PROVE  /\ written'[c][p] <= Limit(p, c)'
             /\ \A i \in 1..Len(chan'[c]) : chan'[c][i].by = p =>
                  /\ chan'[c][i].n <= Limit(p, c)'
                  /\ written'[c][p] < chan'[c][i].n
                  /\ \A j \in 1..i - 1 : chan'[c][j].by = p => chan'[c][j].n < chan'[c][i].n
  BY <1>1, <1>2, OrderFrame
<1> QED BY <1>3 DEF OrderInv, BehindPublisher, OrderPerPublisher

LEMMA OrderStep == BrokerInv /\ Counted /\ OrderInv /\ [Next]_vars => OrderInv'
<1> SUFFICES ASSUME BrokerInv, Counted, OrderInv, [Next]_vars PROVE OrderInv'
  OBVIOUS
<1>1. CASE UNCHANGED <<chan, written, targets, count>>
  BY <1>1 DEF OrderInv, BehindPublisher, OrderPerPublisher, Limit
<1>2. ASSUME NEW c \in Clients,
             Connect(c) \/ Disconnect(c) \/ Lock(c) \/ Subscribe(c) \/ Unsubscribe(c)
      PROVE  UNCHANGED <<chan, written, targets, count>>
  BY <1>2 DEF Connect, Disconnect, Lock, Subscribe, Unsubscribe
<1>3. ASSUME NEW p \in Publishers, Published(p)
      PROVE  UNCHANGED <<chan, written, targets, count>>
  BY <1>3 DEF Published
<1> QED BY <1>1, <1>2, <1>3, OrderOffer, OrderStream, OrderPublish DEF Next, vars, BrokerInv

(* Whatever is dropped, what a client receives of one publisher is in the    *)
(* order it was published: the web UI never sees a run finish before an      *)
(* event the same goroutine published earlier.                               *)
THEOREM OrderPerPublisherTheorem == Spec => []OrderPerPublisher
<1>1. Init => OrderInv
  BY CapAssumption DEF Init, OrderInv, BehindPublisher, OrderPerPublisher, Limit
<1>2. BrokerInv /\ Counted /\ OrderInv /\ [Next]_vars => OrderInv'
  BY OrderStep
<1>3. OrderInv => OrderPerPublisher
  BY DEF OrderInv
<1> QED BY <1>1, <1>2, <1>3, BrokerInvariant, PTL DEF Spec
=============================================================================
