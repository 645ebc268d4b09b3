-------------------------------- MODULE PubSub --------------------------------
(***************************************************************************)
(* What a channel promises its subscribers, without threads, locks, lists  *)
(* or broker connections: each queue has a set of members, a message taken *)
(* off a queue is owed to exactly the members the queue has at that moment,*)
(* at most one message is being handed out at a time, and membership       *)
(* changes only when nothing is owed.                                      *)
(***************************************************************************)
CONSTANTS Queues, Comms, Acceptors

VARIABLES
  members,  \* queue -> the communicators subscribed to it
  owed      \* acceptor -> those it has still to tell about its message

vars == <<members, owed>>

Quiet == \A t \in Acceptors : owed[t] = {}

Init ==
  /\ members = [q \in Queues |-> {}]
  /\ owed = [t \in Acceptors |-> {}]

Join(q, c) ==
  /\ Quiet
  /\ c \notin members[q]
  /\ members' = [members EXCEPT ![q] = @ \union {c}]
  /\ UNCHANGED owed

Leave(q, c) ==
  /\ Quiet
  /\ c \in members[q]
  /\ members' = [members EXCEPT ![q] = @ \ {c}]
  /\ UNCHANGED owed

Deliver(t, q) ==
  /\ Quiet
  /\ owed' = [owed EXCEPT ![t] = members[q]]
  /\ UNCHANGED members

Notify(t, c) ==
  /\ c \in owed[t]
  /\ owed' = [owed EXCEPT ![t] = @ \ {c}]
  /\ UNCHANGED members

Next ==
  \/ \E q \in Queues, c \in Comms : Join(q, c) \/ Leave(q, c)
  \/ \E t \in Acceptors : \/ \E q \in Queues : Deliver(t, q)
                          \/ \E c \in Comms : Notify(t, c)

Spec == Init /\ [][Next]_vars
===============================================================================
