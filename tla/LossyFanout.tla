---------------------------- MODULE LossyFanout ----------------------------
(***************************************************************************)
(* What the event broker promises to a client of /api/events: an event is *)
(* offered to every member of the moment it was published, the events of *)
(* one publisher in their order; a member loses an event only when its     *)
(* backlog is full, and no member leaves while an event is on its way to   *)
(* it.  There is no lock here: the broker's lock implements the guards.    *)
(***************************************************************************)
EXTENDS Naturals, Sequences

CONSTANTS
  Clients,      \* the clients
  Publishers,   \* the publishers
  ChanCap,      \* events a backlog can hold
  MaxEvents     \* events each publisher publishes

VARIABLES
  members,      \* clients that are offered events
  left,         \* clients that were members and are no more
  backlog,      \* client -> events offered to it and not read yet
  offered,      \* publisher -> number of events it published
  owed          \* publisher -> members its last event is still on its way to

vars == <<members, left, backlog, offered, owed>>

Event(p) == [by |-> p, n |-> offered[p]]

Init ==
  /\ members = {}
  /\ left = {}
  /\ backlog = [c \in Clients |-> <<>>]
  /\ offered = [p \in Publishers |-> 0]
  /\ owed = [p \in Publishers |-> {}]

Join(c) ==
  /\ c \notin members \cup left
  /\ members' = members \cup {c}
  /\ UNCHANGED <<left, backlog, offered, owed>>

Leave(c) ==
  /\ c \in members
  /\ \A p \in Publishers : c \notin owed[p]
  /\ members' = members \ {c}
  /\ left' = left \cup {c}
  /\ UNCHANGED <<backlog, offered, owed>>

Publish(p) ==
  /\ owed[p] = {}
  /\ offered[p] < MaxEvents
  /\ offered' = [offered EXCEPT ![p] = @ + 1]
  /\ owed' = [owed EXCEPT ![p] = members]
  /\ UNCHANGED <<members, left, backlog>>

Accept(p, c) ==
  /\ c \in owed[p]
  /\ Len(backlog[c]) < ChanCap
  /\ backlog' = [backlog EXCEPT ![c] = Append(@, Event(p))]
  /\ owed' = [owed EXCEPT ![p] = @ \ {c}]
  /\ UNCHANGED <<members, left, offered>>

Lose(p, c) ==
  /\ c \in owed[p]
  /\ Len(backlog[c]) = ChanCap
  /\ owed' = [owed EXCEPT ![p] = @ \ {c}]
  /\ UNCHANGED <<members, left, backlog, offered>>

Read(c) ==
  /\ c \in members
  /\ backlog[c] # <<>>
  /\ backlog' = [backlog EXCEPT ![c] = Tail(@)]
  /\ UNCHANGED <<members, left, offered, owed>>

Next ==
  \/ \E c \in Clients : Join(c) \/ Leave(c) \/ Read(c)
  \/ \E p \in Publishers : Publish(p)
  \/ \E p \in Publishers, c \in Clients : Accept(p, c) \/ Lose(p, c)

Spec == Init /\ [][Next]_vars
=============================================================================
