-------------------------------- MODULE Channel --------------------------------
(***************************************************************************)
(* One open algol::channel (messaging/channel.cpp), the communicators that *)
(* subscribe to its queues, and the consumer threads that dispatch inbound *)
(* messages to them.                                                       *)
(*                                                                         *)
(* Application threads call subscribe, unsubscribe and the destructor of a *)
(* communicator; every queue that gets a first subscriber gets a consumer, *)
(* with a thread of its own (accept).  The subscriber table is shared, and *)
(* subscription_mtx_ guards it everywhere but in unsubscribe_all, which    *)
(* walks the table unlocked.  A thread's program counter names the point   *)
(* in the call it executes; a step is what it does between two points at   *)
(* which another thread can interfere.                                     *)
(***************************************************************************)
EXTENDS Naturals, Sequences, SequencesExt

CONSTANTS
  Queues,     \* queue identifiers
  Comms,      \* communicators
  Apps,       \* application threads
  Acceptors,  \* threads that accept can create: bounds the consumers
  Reentrant,  \* communicators whose handler subscribes or unsubscribes
  None        \* no thread, queue or communicator

ASSUME ChannelAssumption ==
  /\ Apps \intersect Acceptors = {}
  /\ Reentrant \subseteq Comms
  /\ None \notin Apps \union Acceptors \union Queues \union Comms

VARIABLES
  keys,         \* the queues subscribers_ has an entry for
  subscribers,  \* queue -> its list of communicators
  mutex,        \* who holds subscription_mtx_
  pc,           \* thread -> where it is
  queue,        \* thread -> argument of its call; of a consumer, queue_
  comm,         \* application thread -> argument of its call
  todo,         \* application thread -> keys unsubscribe_all has yet to visit
  cursor,       \* acceptor -> where the loop of dispatch stands in the list
  callee,       \* acceptor -> the communicator whose handler it executes
  life,         \* communicator -> "alive", "dying" (in ~communicator), "dead"
  running       \* FALSE once an uncaught exception has ended the process

vars == <<keys, subscribers, mutex, pc, queue, comm, todo, cursor, callee,
          life, running>>

table == <<keys, subscribers>>
loop  == <<cursor, callee>>

Threads == Apps \union Acceptors

AppPoints == {"idle", "subscribe", "subscribing", "accept", "push",
              "unsubscribe", "unsubscribing", "walk"}

AcceptorPoints == {"unborn", "setup", "wait", "dispatch", "iterate",
                   "handler", "stuck", "exited"}

\* The points between scoped_lock lock(subscription_mtx_) and its release.
Locked == {"subscribing", "accept", "push", "unsubscribing",
           "iterate", "handler", "stuck"}

At(t, point) == running /\ pc[t] = point

Goto(t, point) == pc' = [pc EXCEPT ![t] = point]

TypeOK ==
  /\ keys \subseteq Queues
  /\ subscribers \in [Queues -> Seq(Comms)]
  /\ mutex \in Threads \union {None}
  /\ pc \in [Threads -> AppPoints \union AcceptorPoints]
  /\ \A a \in Apps : pc[a] \in AppPoints
  /\ \A t \in Acceptors : pc[t] \in AcceptorPoints
  /\ queue \in [Threads -> Queues \union {None}]
  /\ comm \in [Apps -> Comms \union {None}]
  /\ todo \in [Apps -> SUBSET Queues]
  /\ cursor \in [Acceptors -> Nat]
  /\ callee \in [Acceptors -> Comms \union {None}]
  /\ life \in [Comms -> {"alive", "dying", "dead"}]
  /\ running \in BOOLEAN

Init ==
  /\ keys = {}
  /\ subscribers = [q \in Queues |-> <<>>]
  /\ mutex = None
  /\ pc = [t \in Threads |-> IF t \in Apps THEN "idle" ELSE "unborn"]
  /\ queue = [t \in Threads |-> None]
  /\ comm = [a \in Apps |-> None]
  /\ todo = [a \in Apps |-> {}]
  /\ cursor = [t \in Acceptors |-> 0]
  /\ callee = [t \in Acceptors |-> None]
  /\ life = [c \in Comms |-> "alive"]
  /\ running = TRUE

IsSubscribed(q, c) == q \in keys /\ Contains(subscribers[q], c)

----------------------------------------------------------------------------
(* scoped_lock lock(subscription_mtx_): the constructor waits until the    *)
(* mutex is free.  The mutex is not recursive.                             *)

Acquire(t, from, to) ==
  /\ At(t, from)
  /\ mutex = None
  /\ mutex' = t
  /\ Goto(t, to)

\* A call returns to the application: its arguments are out of scope.
Return(a) ==
  /\ Goto(a, "idle")
  /\ queue' = [queue EXCEPT ![a] = None]
  /\ comm' = [comm EXCEPT ![a] = None]

----------------------------------------------------------------------------
(* subscribe                                                               *)

CallSubscribe(a, q, c) ==
  /\ At(a, "idle")
  /\ life[c] = "alive"
  /\ Goto(a, "subscribe")
  /\ queue' = [queue EXCEPT ![a] = q]
  /\ comm' = [comm EXCEPT ![a] = c]
  /\ UNCHANGED <<table, mutex, todo, loop, life, running>>

SubscribeLock(a) ==
  /\ Acquire(a, "subscribe", "subscribing")
  /\ UNCHANGED <<table, queue, comm, todo, loop, life, running>>

SubscribeRefused(a) ==
  /\ At(a, "subscribing")
  /\ IsSubscribed(queue[a], comm[a])
  /\ mutex' = None
  /\ Return(a)
  /\ UNCHANGED <<table, todo, loop, life, running>>

\* Mutant of FindQueue: subscribe does not look for the communicator first.
FindQueue_NoCheck(a) ==
  /\ At(a, "subscribing")
  /\ keys' = keys \union {queue[a]}
  /\ Goto(a, IF queue[a] \in keys THEN "push" ELSE "accept")
  /\ UNCHANGED <<subscribers, mutex, queue, comm, todo, loop, life, running>>

\* Mutant of FindQueue: every subscription creates a consumer.
FindQueue_AlwaysAccept(a) ==
  /\ At(a, "subscribing")
  /\ ~IsSubscribed(queue[a], comm[a])
  /\ keys' = keys \union {queue[a]}
  /\ Goto(a, "accept")
  /\ UNCHANGED <<subscribers, mutex, queue, comm, todo, loop, life, running>>

\* A queue nobody ever subscribed to gets its (empty) list first, then its
\* consumer.
FindQueue(a) ==
  /\ At(a, "subscribing")
  /\ ~IsSubscribed(queue[a], comm[a])
  /\ keys' = keys \union {queue[a]}
  /\ Goto(a, IF queue[a] \in keys THEN "push" ELSE "accept")
  /\ UNCHANGED <<subscribers, mutex, queue, comm, todo, loop, life, running>>

\* accept: connect a consumer to the broker and start its thread.
AcceptStarts(a) ==
  /\ At(a, "accept")
  /\ \E t \in Acceptors :
       /\ pc[t] = "unborn"
       /\ pc' = [pc EXCEPT ![t] = "setup", ![a] = "push"]
       /\ queue' = [queue EXCEPT ![t] = queue[a]]
  /\ UNCHANGED <<table, mutex, comm, todo, loop, life, running>>

\* Mutant of AcceptThrows: the lock is not released with the exception.
AcceptThrows_KeepsLock(a) ==
  /\ At(a, "accept")
  /\ Return(a)
  /\ UNCHANGED <<table, mutex, todo, loop, life, running>>

\* The consumer's constructor throws connection_error, the lock is released
\* as the exception leaves subscribe, and the empty list stays behind.
AcceptThrows(a) ==
  /\ At(a, "accept")
  /\ mutex' = None
  /\ Return(a)
  /\ UNCHANGED <<table, todo, loop, life, running>>

Push(a) ==
  /\ At(a, "push")
  /\ subscribers' = [subscribers EXCEPT ![queue[a]] = Append(@, comm[a])]
  /\ mutex' = None
  /\ Return(a)
  /\ UNCHANGED <<keys, todo, loop, life, running>>

----------------------------------------------------------------------------
(* unsubscribe, called by the application or, for every key of the table,  *)
(* by unsubscribe_all                                                      *)

CallUnsubscribe(a, q, c) ==
  /\ At(a, "idle")
  /\ life[c] = "alive"
  /\ Goto(a, "unsubscribe")
  /\ queue' = [queue EXCEPT ![a] = q]
  /\ comm' = [comm EXCEPT ![a] = c]
  /\ UNCHANGED <<table, mutex, todo, loop, life, running>>

\* Mutant of UnsubscribeLock: unsubscribe does not take the mutex, as
\* unsubscribe_all does not.
UnsubscribeLock_Unlocked(a) ==
  /\ At(a, "unsubscribe")
  /\ Goto(a, "unsubscribing")
  /\ UNCHANGED <<table, mutex, queue, comm, todo, loop, life, running>>

UnsubscribeLock(a) ==
  /\ Acquire(a, "unsubscribe", "unsubscribing")
  /\ UNCHANGED <<table, queue, comm, todo, loop, life, running>>

\* unsubscribe returns to its caller: the walk of unsubscribe_all when the
\* communicator is being destroyed, the application otherwise.
UnsubscribeReturns(a) ==
  LET walking == life[comm[a]] = "dying"
  IN  /\ Goto(a, IF walking THEN "walk" ELSE "idle")
      /\ queue' = [queue EXCEPT ![a] = None]
      /\ comm' = [comm EXCEPT ![a] = IF walking THEN @ ELSE None]

UnsubscribeRefused(a) ==
  /\ At(a, "unsubscribing")
  /\ ~IsSubscribed(queue[a], comm[a])
  /\ mutex' = None
  /\ UnsubscribeReturns(a)
  /\ UNCHANGED <<table, todo, loop, life, running>>

\* The list s without its first c.
Erased(s, c) ==
  LET i == CHOOSE i \in DOMAIN s : s[i] = c /\ \A j \in 1 .. i - 1 : s[j] # c
  IN  RemoveAt(s, i)

Erase(a) ==
  /\ At(a, "unsubscribing")
  /\ IsSubscribed(queue[a], comm[a])
  /\ subscribers' = [subscribers EXCEPT ![queue[a]] = Erased(@, comm[a])]
  /\ mutex' = None
  /\ UnsubscribeReturns(a)
  /\ UNCHANGED <<keys, todo, loop, life, running>>

----------------------------------------------------------------------------
(* ~communicator: unsubscribe_all walks the keys of the table, unlocked,   *)
(* and unsubscribes the communicator from each                             *)

\* The application destroys a communicator once, and when none of its own
\* threads is in a call on it; a consumer may well be inside its handler.
Destroy(a, c) ==
  /\ At(a, "idle")
  /\ life[c] = "alive"
  /\ \A b \in Apps : comm[b] # c
  /\ Goto(a, "walk")
  /\ comm' = [comm EXCEPT ![a] = c]
  /\ life' = [life EXCEPT ![c] = "dying"]
  /\ todo' = [todo EXCEPT ![a] = keys]
  /\ UNCHANGED <<table, mutex, queue, loop, running>>

\* A key inserted meanwhile may be visited too; the communicator is on no list
\* of such a queue, and the visit changes nothing.
Walk(a) ==
  /\ At(a, "walk")
  /\ \E q \in todo[a] :
       /\ queue' = [queue EXCEPT ![a] = q]
       /\ todo' = [todo EXCEPT ![a] = @ \ {q}]
  /\ Goto(a, "unsubscribe")
  /\ UNCHANGED <<table, mutex, comm, loop, life, running>>

\* While another thread inserts a key, the map's tree is being relinked under
\* the walk, which may then miss any of the keys it had still to visit.
WalkTorn(a) ==
  /\ At(a, "walk")
  /\ \E b \in Apps \ {a} : pc[b] = "subscribing" /\ queue[b] \notin keys
  /\ \E q \in todo[a] : todo' = [todo EXCEPT ![a] = @ \ {q}]
  /\ UNCHANGED <<table, mutex, pc, queue, comm, loop, life, running>>

\* Mutant of Destroyed: the walk ends before the last key.
Destroyed_Early(a) ==
  /\ At(a, "walk")
  /\ life' = [life EXCEPT ![comm[a]] = "dead"]
  /\ todo' = [todo EXCEPT ![a] = {}]
  /\ Return(a)
  /\ UNCHANGED <<table, mutex, loop, running>>

Destroyed(a) ==
  /\ At(a, "walk")
  /\ todo[a] = {}
  /\ life' = [life EXCEPT ![comm[a]] = "dead"]
  /\ Return(a)
  /\ UNCHANGED <<table, mutex, todo, loop, running>>

----------------------------------------------------------------------------
(* the consumer's thread: consume and dispatch                             *)

ConsumeStarts(t) ==
  /\ At(t, "setup")
  /\ Goto(t, "wait")
  /\ UNCHANGED <<table, mutex, queue, comm, todo, loop, life, running>>

\* Declaring, binding or consuming the queue fails, and connection_error leaves
\* the thread's function uncaught; or a frame arrives out of place, and consume
\* aborts.
ProcessDies(t) ==
  /\ At(t, "setup") \/ At(t, "wait")
  /\ running' = FALSE
  /\ UNCHANGED <<table, mutex, pc, queue, comm, todo, loop, life>>

\* A message arrives that is for us.  A rejected one changes nothing.
Receive(t) ==
  /\ At(t, "wait")
  /\ Goto(t, "dispatch")
  /\ UNCHANGED <<table, mutex, queue, comm, todo, loop, life, running>>

\* Waiting for a frame fails, or the broker closes: the loop ends for good,
\* after the dispatch of what had arrived if it fails within a message.
ConnectionLost(t) ==
  /\ At(t, "wait")
  /\ Goto(t, "exited")
  /\ UNCHANGED <<table, mutex, queue, comm, todo, loop, life, running>>

\* Mutant of DispatchLock: the list is walked without the mutex.
DispatchLock_Unlocked(t) ==
  /\ queue[t] \in keys
  /\ At(t, "dispatch")
  /\ cursor' = [cursor EXCEPT ![t] = 1]
  /\ Goto(t, "iterate")
  /\ UNCHANGED <<table, mutex, queue, comm, todo, callee, life, running>>

\* Mutant of DispatchLock: the first subscriber is passed over.
DispatchLock_SkipsFirst(t) ==
  /\ queue[t] \in keys
  /\ Acquire(t, "dispatch", "iterate")
  /\ cursor' = [cursor EXCEPT ![t] = 2]
  /\ UNCHANGED <<table, queue, comm, todo, callee, life, running>>

\* The key is never erased while the channel is open, so the branch that
\* discards the message of an unknown queue is not taken.
DispatchLock(t) ==
  /\ queue[t] \in keys
  /\ Acquire(t, "dispatch", "iterate")
  /\ cursor' = [cursor EXCEPT ![t] = 1]
  /\ UNCHANGED <<table, queue, comm, todo, callee, life, running>>

CallHandler(t) ==
  /\ At(t, "iterate")
  /\ cursor[t] <= Len(subscribers[queue[t]])
  /\ callee' = [callee EXCEPT ![t] = subscribers[queue[t]][cursor[t]]]
  /\ Goto(t, "handler")
  /\ UNCHANGED <<table, mutex, queue, comm, todo, cursor, life, running>>

\* Mutant of HandlerReturns: the loop steps over every other subscriber.
HandlerReturns_SkipsOne(t) ==
  /\ At(t, "handler")
  /\ cursor' = [cursor EXCEPT ![t] = @ + 2]
  /\ callee' = [callee EXCEPT ![t] = None]
  /\ Goto(t, "iterate")
  /\ UNCHANGED <<table, mutex, queue, comm, todo, life, running>>

HandlerReturns(t) ==
  /\ At(t, "handler")
  /\ cursor' = [cursor EXCEPT ![t] = @ + 1]
  /\ callee' = [callee EXCEPT ![t] = None]
  /\ Goto(t, "iterate")
  /\ UNCHANGED <<table, mutex, queue, comm, todo, life, running>>

\* The handler calls back into subscribe or unsubscribe and waits for the
\* mutex its own thread holds.
HandlerReenters(t) ==
  /\ At(t, "handler")
  /\ callee[t] \in Reentrant
  /\ Goto(t, "stuck")
  /\ UNCHANGED <<table, mutex, queue, comm, todo, loop, life, running>>

DispatchEnds(t) ==
  /\ At(t, "iterate")
  /\ cursor[t] > Len(subscribers[queue[t]])
  /\ mutex' = None
  /\ cursor' = [cursor EXCEPT ![t] = 0]
  /\ Goto(t, "wait")
  /\ UNCHANGED <<table, queue, comm, todo, callee, life, running>>

----------------------------------------------------------------------------
Call(a) ==
  \/ \E q \in Queues, c \in Comms : CallSubscribe(a, q, c) \/ CallUnsubscribe(a, q, c)
  \/ \E c \in Comms : Destroy(a, c)

AppStep(a) ==
  \/ SubscribeRefused(a) \/ FindQueue(a)
  \/ AcceptStarts(a) \/ AcceptThrows(a) \/ Push(a)
  \/ UnsubscribeRefused(a) \/ Erase(a)
  \/ Walk(a) \/ WalkTorn(a) \/ Destroyed(a)

AcceptorStep(t) ==
  \/ ConsumeStarts(t)
  \/ CallHandler(t) \/ HandlerReturns(t) \/ HandlerReenters(t) \/ DispatchEnds(t)

Broker(t) == ProcessDies(t) \/ Receive(t) \/ ConnectionLost(t)

Next ==
  \/ \E a \in Apps : Call(a) \/ SubscribeLock(a) \/ UnsubscribeLock(a) \/ AppStep(a)
  \/ \E t \in Acceptors : DispatchLock(t) \/ AcceptorStep(t) \/ Broker(t)

Spec == Init /\ [][Next]_vars

\* Every thread is scheduled, every handler returns or re-enters, and a
\* thread that keeps finding the mutex free gets it in the end.  Nothing
\* forces the application to call nor the broker to send.
Fairness ==
  /\ \A a \in Apps : /\ WF_vars(AppStep(a))
                     /\ SF_vars(SubscribeLock(a))
                     /\ SF_vars(UnsubscribeLock(a))
  /\ \A t \in Acceptors : WF_vars(AcceptorStep(t)) /\ SF_vars(DispatchLock(t))

FairSpec == Spec /\ Fairness

----------------------------------------------------------------------------
(* Properties                                                              *)

\* subscription_mtx_ is held by the one thread that stands inside a critical
\* section, and by nobody otherwise: no early return, exception or thread exit
\* leaves it locked or releases another thread's lock.
MutexInv == \A t \in Threads : pc[t] \in Locked <=> mutex = t

\* A communicator is on the list of a queue at most once, however the calls of
\* several threads interleave: it is told of a message once.
NoDuplicateSubscription ==
  \A q \in Queues : \A i, j \in DOMAIN subscribers[q] :
    subscribers[q][i] = subscribers[q][j] => i = j

\* Two first subscriptions racing for a queue, or a retry after a failed one,
\* never create two consumers for it: each message is dispatched once.
OneConsumerPerQueue ==
  \A t, u \in Acceptors :
    t # u /\ pc[t] # "unborn" /\ pc[u] # "unborn" => queue[t] # queue[u]

\* While a handler runs, the element the loop of dispatch stands on is still in
\* the list, and is the communicator being called: nobody changes the list under
\* the iterator.
CalleeIsListed ==
  \A t \in Acceptors : pc[t] \in {"handler", "stuck"} =>
    /\ cursor[t] \in DOMAIN subscribers[queue[t]]
    /\ callee[t] = subscribers[queue[t]][cursor[t]]

\* "Will no longer receive messages over the specified channel & queue"
\* (communicator.hpp:84): when unsubscribe returns, the communicator is on no
\* list of that queue and no consumer of the queue is inside its handler.
UnsubscribedIsSilent ==
  [][\A a \in Apps :
       pc[a] = "unsubscribing" /\ pc'[a] # "unsubscribing" =>
         /\ ~Contains(subscribers'[queue[a]], comm[a])
         /\ \A t \in Acceptors :
              queue[t] = queue[a] => callee'[t] # comm[a]]_vars

\* A communicator whose destructor has finished is on no list and in no call:
\* it is never told of a message again.  The walk of unsubscribe_all is not
\* locked, so this needs a single application thread.
NoCallAfterDestruction ==
  \A c \in Comms : life[c] = "dead" =>
    /\ \A q \in Queues : ~Contains(subscribers[q], c)
    /\ \A t \in Acceptors : callee[t] # c

\* A communicator on the list of a queue has a consumer that feeds it.  Not so: the
\* key that subscribe inserts stays when its consumer cannot connect, and the next
\* subscription finds it.  (channel.cpp:152-157)
SubscribedQueueHasConsumer ==
  \A q \in Queues : subscribers[q] # <<>> =>
    \E t \in Acceptors : pc[t] # "unborn" /\ queue[t] = q

\* The channel implements PubSub: its lists are the members, and the part of
\* the list that the loop of dispatch has not yet passed is what is owed.
Iterating(t) == pc[t] \in {"iterate", "handler", "stuck"}

Owed(t) ==
  IF Iterating(t)
  THEN {subscribers[queue[t]][i] : i \in cursor[t] .. Len(subscribers[queue[t]])}
  ELSE {}

Abstract == INSTANCE PubSub WITH
  members <- [q \in Queues |-> ToSet(subscribers[q])],
  owed <- [t \in Acceptors |-> Owed(t)]

ImplementsPubSub == Abstract!Spec

\* When no handler re-enters the channel, every call returns, or the process
\* has ended: no lock is held for ever and no waiting thread is forgotten.
CallsReturn ==
  \A a \in Apps : pc[a] # "idle" ~> pc[a] = "idle" \/ ~running

\* c is on the list of the queue that t consumes.
Listed(t, c) == pc[t] # "unborn" /\ Contains(subscribers[queue[t]], c)

\* "Whenever a message is delivered into that queue, this instance will be
\* notified" (communicator.hpp:78): a communicator on the list when a message
\* arrives is called with it, unless it unsubscribes first.
MessageReachesSubscriber ==
  \A t \in Acceptors, c \in Comms :
    pc[t] = "dispatch" /\ Listed(t, c) ~>
      callee[t] = c \/ ~Listed(t, c) \/ ~running
=================================================================================
