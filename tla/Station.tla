-------------------------------- MODULE Station --------------------------------
(***************************************************************************)
(* The algol::station (messaging/station.cpp): the table of channels that  *)
(* communicators open, publish over, listen on, close, and that            *)
(* algol_cleanup shuts down.  The table has no lock.  Of a channel only its*)
(* connection, its publishing mutex and one consumer are kept here; the    *)
(* subscriptions behind that consumer are the subject of Channel.          *)
(*                                                                         *)
(* Using a connection or a channel after it was destroyed is undefined:    *)
(* the process dies, or the call fails quietly.  A lookup or an insertion  *)
(* that overlaps the insertion of a new key by another thread may miss or  *)
(* lose an entry.                                                          *)
(***************************************************************************)
EXTENDS Naturals, FiniteSets

CONSTANTS
  Ids,      \* channel identifiers
  Threads,  \* application threads
  Closer,   \* the thread that closes channels and shuts the station down
  Objects,  \* channel objects that can be created: bounds the opens
  None      \* no channel object, identifier or thread

ASSUME StationAssumption ==
  /\ Closer \in Threads
  /\ None \notin Ids \union Threads \union Objects

VARIABLES
  channels,   \* channels_: identifier -> registered object
  state,      \* object -> its life: "closed" once its connection is destroyed
  publisher,  \* object -> who holds its publishing_mtx_
  consumer,   \* object -> "none", "live" or "freed"
  acceptor,   \* object -> the consumer's thread
  pc,         \* thread -> where it is
  op,         \* thread -> the communicator or station call it executes
  id,         \* thread -> the channel it names
  got,        \* thread -> the channel pointer it has in hand
  sweep,      \* identifiers shutdown has yet to visit
  raced,      \* threads whose channel was created while another was (history)
  running     \* FALSE once undefined behaviour has killed the process

vars == <<channels, state, publisher, consumer, acceptor, pc, op, id, got, sweep, raced,
          running>>

call  == <<op, id>>
links == <<consumer, acceptor>>

States    == {"unborn", "new", "open", "closed", "deleted"}
Consumers == {"none", "live", "freed"}
Acceptors == {"none", "running", "dispatching", "exited"}
Points    == {"idle", "get", "connect", "insert", "publish", "writing", "attach",
              "stop", "join", "sweep", "ended"}
\* open: communicator::subscribe(id), and unsubscribe and is_subscribed, which
\* open the channel they ask about; listen: a first subscription to a queue.
Calls     == {"open", "listen", "send"}
Ops       == Calls \union {"close", "shutdown"}

At(t, point) == running /\ pc[t] = point

Goto(t, point) == pc' = [pc EXCEPT ![t] = point]

TypeOK ==
  /\ channels \in [Ids -> Objects \union {None}]
  /\ state \in [Objects -> States]
  /\ publisher \in [Objects -> Threads \union {None}]
  /\ consumer \in [Objects -> Consumers]
  /\ acceptor \in [Objects -> Acceptors]
  /\ pc \in [Threads -> Points]
  /\ op \in [Threads -> Ops \union {None}]
  /\ id \in [Threads -> Ids \union {None}]
  /\ got \in [Threads -> Objects \union {None}]
  /\ sweep \subseteq Ids
  /\ raced \subseteq Threads
  /\ running \in BOOLEAN
  /\ \A t \in Threads : pc[t] \in {"idle", "get", "sweep", "ended"} <=> got[t] = None

Init ==
  /\ channels = [i \in Ids |-> None]
  /\ state = [o \in Objects |-> "unborn"]
  /\ publisher = [o \in Objects |-> None]
  /\ consumer = [o \in Objects |-> "none"]
  /\ acceptor = [o \in Objects |-> "none"]
  /\ pc = [t \in Threads |-> "idle"]
  /\ op = [t \in Threads |-> None]
  /\ id = [t \in Threads |-> None]
  /\ got = [t \in Threads |-> None]
  /\ sweep = {}
  /\ raced = {}
  /\ running = TRUE

\* algol_cleanup runs last: no call starts once it has begun.
Serving == pc[Closer] \notin {"sweep", "ended"} /\ op[Closer] # "shutdown"

Return(t) ==
  /\ Goto(t, "idle")
  /\ op' = [op EXCEPT ![t] = None]
  /\ id' = [id EXCEPT ![t] = None]
  /\ got' = [got EXCEPT ![t] = None]
  /\ raced' = raced \ {t}

\* Another thread is relinking the tree of the map for a key of its own.
Relinking(t) == \E u \in Threads \ {t} : pc[u] = "insert" /\ channels[id[u]] = None

\* These threads looked a channel up, did not find it, and have yet to register theirs.
Creating == {u \in Threads : pc[u] \in {"connect", "insert"} /\ channels[id[u]] = None}

----------------------------------------------------------------------------
(* open_channel, first thing in subscribe and send                         *)

Call(t, what, i) ==
  /\ At(t, "idle") /\ Serving
  /\ op' = [op EXCEPT ![t] = what]
  /\ id' = [id EXCEPT ![t] = i]
  /\ Goto(t, "get")
  /\ UNCHANGED <<channels, state, publisher, links, got, sweep, raced, running>>

Found(t) ==
  /\ At(t, "get")
  /\ channels[id[t]] # None
  /\ got' = [got EXCEPT ![t] = channels[id[t]]]
  /\ Goto(t, "insert")
  /\ UNCHANGED <<channels, state, publisher, links, call, sweep, raced, running>>

Create(t) ==
  /\ At(t, "get")
  /\ channels[id[t]] = None \/ Relinking(t)
  /\ \E o \in Objects :
       /\ state[o] = "unborn"
       /\ state' = [state EXCEPT ![o] = "new"]
       /\ got' = [got EXCEPT ![t] = o]
  /\ raced' = IF Creating = {} THEN raced ELSE raced \union Creating \union {t}
  /\ Goto(t, "connect")
  /\ UNCHANGED <<channels, publisher, links, call, sweep, running>>

Connects(t) ==
  /\ At(t, "connect")
  /\ state' = [state EXCEPT ![got[t]] = "open"]
  /\ Goto(t, "insert")
  /\ UNCHANGED <<channels, publisher, links, call, got, sweep, raced, running>>

\* connection_error: open_channel returns nullptr, and the object is leaked.
ConnectThrows(t) ==
  /\ At(t, "connect")
  /\ Return(t)
  /\ UNCHANGED <<channels, state, publisher, links, sweep, running>>

\* Mutant of Registered: channels_[id] = c.
Registered_Overwrites(t) == [channels EXCEPT ![id[t]] = got[t]]

\* channels_.insert keeps the entry it finds.
Registered(t) == [channels EXCEPT ![id[t]] = IF @ = None THEN got[t] ELSE @]

\* open_channel returns its own c, whichever object is registered.
Insert(t) ==
  /\ At(t, "insert")
  /\ channels' \in {Registered(t)} \union IF Relinking(t) THEN {channels} ELSE {}
  /\ CASE op[t] = "send"   -> Goto(t, "publish") /\ UNCHANGED <<call, got, raced>>
       [] op[t] = "listen" -> Goto(t, "attach") /\ UNCHANGED <<call, got, raced>>
       [] OTHER            -> Return(t)
  /\ UNCHANGED <<state, publisher, links, sweep, running>>

----------------------------------------------------------------------------
(* publish, and the first subscription to a queue                          *)

\* Mutant of PublishLock: the scoped_lock is left out.
PublishLock_Unlocked(t) ==
  /\ At(t, "publish")
  /\ state[got[t]] = "open"
  /\ Goto(t, "writing")
  /\ UNCHANGED <<channels, state, publisher, links, call, got, sweep, raced, running>>

PublishLock(t) ==
  /\ At(t, "publish")
  /\ state[got[t]] = "open"
  /\ publisher[got[t]] = None
  /\ publisher' = [publisher EXCEPT ![got[t]] = t]
  /\ Goto(t, "writing")
  /\ UNCHANGED <<channels, state, links, call, got, sweep, raced, running>>

PublishEnds(t) ==
  /\ At(t, "writing")
  /\ publisher' = [publisher EXCEPT ![got[t]] = None]
  /\ Return(t)
  /\ UNCHANGED <<channels, state, links, sweep, running>>

\* accept, unless the queue has a consumer or connecting one throws: a second
\* connection and a thread.  Whether the channel itself is open is not asked.
\* While close joins the threads, the thread group lets nobody add one.
Attach(t) ==
  /\ At(t, "attach")
  /\ state[got[t]] # "deleted"
  /\ \/ UNCHANGED links
     \/ /\ consumer[got[t]] # "live"
        /\ acceptor[got[t]] \in {"none", "exited"}
        /\ consumer' = [consumer EXCEPT ![got[t]] = "live"]
        /\ acceptor' = [acceptor EXCEPT ![got[t]] = "running"]
  /\ Return(t)
  /\ UNCHANGED <<channels, state, publisher, sweep, running>>

\* The channel was closed since open_channel returned it.
UseClosed(t) ==
  /\ \/ At(t, "publish") /\ state[got[t]] \in {"closed", "deleted"}
     \/ At(t, "attach") /\ state[got[t]] = "deleted"
  /\ running' \in BOOLEAN
  /\ Return(t)
  /\ UNCHANGED <<channels, state, publisher, links, sweep>>

----------------------------------------------------------------------------
(* the consumer's thread                                                   *)

Receive(o) ==
  /\ running /\ acceptor[o] = "running" /\ consumer[o] = "live"
  /\ acceptor' = [acceptor EXCEPT ![o] = "dispatching"]
  /\ UNCHANGED <<channels, state, publisher, consumer, pc, call, got, sweep, raced, running>>

\* close clears the subscriber lists whether or not dispatch is walking them.
Dispatched(o) ==
  /\ running /\ acceptor[o] = "dispatching"
  /\ running' \in IF consumer[o] = "freed" THEN BOOLEAN ELSE {TRUE}
  /\ acceptor' = [acceptor EXCEPT ![o] = "running"]
  /\ UNCHANGED <<channels, state, publisher, consumer, pc, call, got, sweep, raced>>

\* Waiting for a frame fails on a lost or closed connection, or the thread
\* dies of the freed consumer it reads its connection from.
AcceptorEnds(o) ==
  /\ running /\ acceptor[o] = "running"
  /\ running' \in IF consumer[o] = "freed" THEN BOOLEAN ELSE {TRUE}
  /\ acceptor' = [acceptor EXCEPT ![o] = "exited"]
  /\ UNCHANGED <<channels, state, publisher, consumer, pc, call, got, sweep, raced>>

----------------------------------------------------------------------------
(* close_channel and shutdown                                              *)

CallClose(t, i) ==
  /\ At(t, "idle") /\ t = Closer
  /\ channels[i] # None /\ state[channels[i]] = "open"
  /\ op' = [op EXCEPT ![t] = "close"]
  /\ id' = [id EXCEPT ![t] = i]
  /\ got' = [got EXCEPT ![t] = channels[i]]
  /\ Goto(t, "stop")
  /\ UNCHANGED <<channels, state, publisher, links, sweep, raced, running>>

\* channel::close first stops and deletes the consumer ...
StopConsumer(t) ==
  /\ At(t, "stop")
  /\ consumer' = [consumer EXCEPT ![got[t]] = IF @ = "live" THEN "freed" ELSE @]
  /\ Goto(t, "join")
  /\ UNCHANGED <<channels, state, publisher, acceptor, call, got, sweep, raced, running>>

\* Mutant of Join: the consumer's thread is not waited for.
Join_NoWait(t) ==
  /\ At(t, "join")
  /\ state' = [state EXCEPT ![got[t]] = IF op[t] = "close" THEN "closed" ELSE "deleted"]
  /\ IF op[t] = "close"
     THEN Return(t)
     ELSE Goto(t, "sweep") /\ got' = [got EXCEPT ![t] = None] /\ UNCHANGED <<call, raced>>
  /\ running' \in IF publisher[got[t]] # None THEN BOOLEAN ELSE {TRUE}
  /\ UNCHANGED <<channels, publisher, links, sweep>>

\* ... then waits for its thread, and destroys the connection, whoever may be
\* publishing over it.  shutdown also deletes the channel.
Join(t) ==
  /\ At(t, "join")
  /\ acceptor[got[t]] \in {"none", "exited"}
  /\ state' = [state EXCEPT ![got[t]] = IF op[t] = "close" THEN "closed" ELSE "deleted"]
  /\ IF op[t] = "close"
     THEN Return(t)
     ELSE Goto(t, "sweep") /\ got' = [got EXCEPT ![t] = None] /\ UNCHANGED <<call, raced>>
  /\ running' \in IF publisher[got[t]] # None THEN BOOLEAN ELSE {TRUE}
  /\ UNCHANGED <<channels, publisher, links, sweep>>

CallShutdown(t) ==
  /\ At(t, "idle") /\ t = Closer
  /\ \A u \in Threads : pc[u] = "idle"
  /\ op' = [op EXCEPT ![t] = "shutdown"]
  /\ sweep' = {i \in Ids : channels[i] # None}
  /\ Goto(t, "sweep")
  /\ UNCHANGED <<channels, state, publisher, links, id, got, raced, running>>

\* An open channel is closed and deleted, a closed one deleted.
Sweep(t) ==
  /\ At(t, "sweep")
  /\ \E i \in sweep :
       LET o == channels[i] IN
       /\ sweep' = sweep \ {i}
       /\ IF state[o] = "open"
          THEN got' = [got EXCEPT ![t] = o] /\ Goto(t, "stop") /\ UNCHANGED state
          ELSE state' = [state EXCEPT ![o] = "deleted"] /\ UNCHANGED <<got, pc>>
  /\ UNCHANGED <<channels, publisher, links, call, raced, running>>

ShutdownEnds(t) ==
  /\ At(t, "sweep")
  /\ sweep = {}
  /\ channels' = [i \in Ids |-> None]
  /\ op' = [op EXCEPT ![t] = None]
  /\ Goto(t, "ended")
  /\ UNCHANGED <<state, publisher, links, id, got, sweep, raced, running>>

----------------------------------------------------------------------------
Next ==
  \/ \E t \in Threads :
       \/ \E i \in Ids : CallClose(t, i) \/ \E what \in Calls : Call(t, what, i)
       \/ Found(t) \/ Create(t) \/ Connects(t) \/ ConnectThrows(t) \/ Insert(t)
       \/ PublishLock(t) \/ PublishEnds(t) \/ Attach(t) \/ UseClosed(t)
       \/ StopConsumer(t) \/ Join(t)
       \/ CallShutdown(t) \/ Sweep(t) \/ ShutdownEnds(t)
  \/ \E o \in Objects : Receive(o) \/ Dispatched(o) \/ AcceptorEnds(o)

Spec == Init /\ [][Next]_vars

----------------------------------------------------------------------------
(* Properties                                                              *)

\* No call has a deleted channel in hand, although close and lookups are not
\* synchronised: channels are deleted by shutdown only.
LookupIsSafe == \A t \in Threads \ {Closer} : got[t] # None => state[got[t]] # "deleted"

\* A communicator's call is at work on the channel it was answered with, or
\* close_channel on the one it looked up.
Using(t) ==
  \/ pc[t] \in {"publish", "writing", "attach"}
  \/ pc[t] \in {"stop", "join"} /\ op[t] = "close"

\* Whoever publishes over a channel, listens on it or closes it has the object in
\* hand that the table has, so that senders, consumers and closers of an identifier
\* meet on one connection, although nothing makes the lookup and the insertion of
\* open_channel one step.  Not so only in a call that created its channel while
\* another thread was creating one: its object may never be registered, and the
\* exception ends with the call.  (station.cpp:76-93, 104-114)
AnswersAgree ==
  \A t \in Threads \ raced : Using(t) => got[t] = channels[id[t]]

\* Frames of two messages are never mixed on a connection: at most one thread
\* writes to it.
PublishSerialised ==
  \A t, u \in Threads :
    t # u /\ pc[t] = "writing" /\ pc[u] = "writing" => got[t] # got[u]

\* Whoever publishes does so over a channel that exists, alone.
\* (station.cpp:77-125, channel.cpp:43-60)
PublishIsSafe == TypeOK /\ LookupIsSafe /\ PublishSerialised

\* Once a close or shutdown has gone through, no thread runs on the consumer
\* that it freed, then or later.
StoppedThreadIsGone ==
  \A o \in Objects : state[o] \in {"closed", "deleted"} /\ consumer[o] = "freed" =>
    acceptor[o] \in {"none", "exited"}

\* "Opens a messaging channel with the requested identifier if it's not already
\* opened" (station.hpp:55): a channel that open_channel returned, and nobody
\* closed meanwhile, can be published over.  Not so: a closed channel stays in the
\* table, and is what the next open returns.  (station.cpp:77-114)
OpenedIsOpen ==
  \A t \in Threads : pc[t] \in {"publish", "attach"} => state[got[t]] = "open"
=================================================================================
