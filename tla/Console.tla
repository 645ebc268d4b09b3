-------------------------------- MODULE Console --------------------------------
(***************************************************************************)
(* The administration console: algol::admin::console, its connections with *)
(* their dispatchers, and the bots that answer the shells connected to them*)
(* (src/admin/).                                                           *)
(*                                                                         *)
(* One thread runs the io_service, so a handler is one step, but for the   *)
(* handler of an accepted connection, which the main thread's shutdown may *)
(* interrupt.  Handlers of one strand run in the order they were posted;   *)
(* there is no order between strands and I/O.  A handler that belongs to a *)
(* freed connection is undefined: the process dies, or nothing happens.    *)
(***************************************************************************)
EXTENDS Naturals, Sequences, FiniteSets

CONSTANTS
  Conns,     \* connection objects that can be created: bounds the accepts
  Names,     \* names of message properties
  Brief,     \* the property --brief of a help request
  MaxSent,   \* bounds the requests on all connections
  None       \* no connection

ASSUME ConsoleAssumption ==
  /\ Brief \in Names
  /\ None \notin Conns /\ IsFiniteSet(Conns)
  /\ MaxSent \in Nat

VARIABLES
  alive,    \* FALSE once an exception or undefined behaviour ended the process
  io,       \* whether io_service::run still takes handlers
  phase,    \* what was done with the console
  busy,     \* whether the io thread is in the middle of handle_accept
  accept,   \* the asynchronous accept: none, waiting, or completed
  newConn,  \* new_conn_
  bots,     \* bots_, by the connections they serve
  closes,   \* the connections that handlers on the console's strand will close
  life,     \* connection -> whether the object exists, and serves a client
  peer,     \* connection -> the client's end
  stopped,  \* connection -> whether the socket was shut down by stop
  sent,     \* connection -> the requests its client has sent
  inbox,    \* connection -> the halves of requests that are not read
  reading,  \* connection -> the asynchronous read
  events,   \* connection -> the dispatcher's events, each with its posted dispatch
  sends,    \* connection -> the replies of the posted do_sends
  replies   \* connection -> the replies written

console == <<phase, busy, accept, newConn, bots>>
client  == <<peer, sent>>
streams == <<inbox, reading, events, sends, replies>>

vars == <<alive, io, console, closes, life, client, stopped, streams>>

\* svc: a command of a custom bot, which need not reply, or one that no bot has bound.
Uids == {"help", "svc"}

Requests == [id : 1..MaxSent, uid : Uids, props : SUBSET Names]
Halves   == [half : {"head", "tail"}, of : Requests]
Answers  == {"full", "brief", "status"}
Replies  == [to : 1..MaxSent, as : Answers]

TypeOK ==
  /\ alive \in BOOLEAN
  /\ io \in BOOLEAN
  /\ phase \in {"created", "launched", "down", "deleted"}
  /\ busy \in BOOLEAN
  /\ accept \in {"none", "waiting", "accepted", "failed"}
  /\ newConn \in Conns \union {None}
  /\ bots \subseteq Conns
  /\ closes \in Seq(Conns)
  /\ life \in [Conns -> {"unborn", "waiting", "serving", "freed"}]
  /\ peer \in [Conns -> {"none", "up", "gone"}]
  /\ stopped \in [Conns -> BOOLEAN]
  /\ sent \in [Conns -> Seq(Requests)]
  /\ inbox \in [Conns -> Seq(Halves)]
  /\ reading \in [Conns -> {"no", "pending", "aborted"}]
  /\ events \in [Conns -> Seq(Requests)]
  /\ sends \in [Conns -> Seq(Replies)]
  /\ replies \in [Conns -> Seq(Replies)]

Init ==
  /\ alive = TRUE
  /\ io = TRUE
  /\ phase = "created"
  /\ busy = FALSE
  /\ accept = "none"
  /\ newConn = None
  /\ bots = {}
  /\ closes = <<>>
  /\ life = [c \in Conns |-> "unborn"]
  /\ peer = [c \in Conns |-> "none"]
  /\ stopped = [c \in Conns |-> FALSE]
  /\ sent = [c \in Conns |-> <<>>]
  /\ inbox = [c \in Conns |-> <<>>]
  /\ reading = [c \in Conns |-> "no"]
  /\ events = [c \in Conns |-> <<>>]
  /\ sends = [c \in Conns |-> <<>>]
  /\ replies = [c \in Conns |-> <<>>]

----------------------------------------------------------------------------
(* The clients                                                             *)

\* A client connects.  Bound: there is a connection object for the next accept.
Connect ==
  /\ alive
  /\ accept = "waiting"
  /\ \E c \in Conns : life[c] = "unborn"
  /\ accept' = "accepted"
  /\ peer' = [peer EXCEPT ![newConn] = "up"]
  /\ UNCHANGED <<alive, io, phase, busy, newConn, bots, closes, life, sent, stopped, streams>>

\* A request goes to the wire; its halves may be read apart.
Request(c) ==
  /\ alive
  /\ peer[c] = "up"
  /\ Cardinality({q \in Conns \X (1..MaxSent) : q[2] =< Len(sent[q[1]])}) < MaxSent
  /\ \E uid \in Uids, props \in SUBSET Names :
       LET r == [id |-> Len(sent[c]) + 1, uid |-> uid, props |-> props] IN
       /\ sent' = [sent EXCEPT ![c] = Append(@, r)]
       /\ inbox' = [inbox EXCEPT ![c] =
            @ \o <<[half |-> "head", of |-> r], [half |-> "tail", of |-> r]>>]
  /\ UNCHANGED <<alive, io, console, closes, life, peer, stopped,
                 reading, events, sends, replies>>

Disconnect(c) ==
  /\ alive
  /\ peer[c] = "up"
  /\ peer' = [peer EXCEPT ![c] = "gone"]
  /\ UNCHANGED <<alive, io, console, closes, life, sent, stopped, streams>>

----------------------------------------------------------------------------
(* Reading and dispatching                                                 *)

\* The io_service is free to run a handler.
Free == alive /\ io /\ ~ busy

Serves(c) == life[c] = "serving"

\* The requests that are whole in buffer b, which may begin with the tail of one.
Whole(b) ==
  LET skip == IF b[1].half = "tail" THEN 1 ELSE 0 IN
  [k \in 1..((Len(b) - skip) \div 2) |-> b[2 * k + skip].of]

\* What from_stream takes out of a buffer, call after call.  A head at the end is
\* refused, or passes for whole when only its footer is missing.  A tail on its own,
\* which has at least the footer, is refused, which ends the loop, or is taken for a
\* message that no handler knows, and any more of the buffer with it.
Parsed(b) ==
  LET last  == b[Len(b)]
      wholes == {Whole(b)} \union
                IF last.half = "head" THEN {Append(Whole(b), last.of)} ELSE {} IN
  IF b[1].half = "head"
    THEN wholes
    ELSE {SubSeq(w, n, Len(w)) : w \in wholes, n \in 1..(Len(b) + 1)}

\* from_stream fills in the one inbound_, which keeps the properties that an earlier
\* message of the same buffer had.
Merged(rs) ==
  [i \in DOMAIN rs |-> [rs[i] EXCEPT !.props = UNION {rs[j].props : j \in 1..i}]]

Ends(c) == {n \in DOMAIN inbox[c] : \E i \in 1..n : inbox[c][i].half = "tail"}

\* Mutant of OnRead: the next read is not started.
OnRead_Once(c) ==
  /\ Free
  /\ reading[c] = "pending"
  /\ \E n \in Ends(c) :
       /\ \E rs \in Parsed(SubSeq(inbox[c], 1, n)) :
            events' = [events EXCEPT ![c] = @ \o Merged(rs)]
       /\ inbox' = [inbox EXCEPT ![c] = SubSeq(@, n + 1, Len(@))]
  /\ reading' = [reading EXCEPT ![c] = "no"]
  /\ UNCHANGED <<alive, io, console, closes, life, client, stopped, sends, replies>>

\* on_read and read: async_read_until has found a footer, and perhaps more.  What
\* the loop leaves in the buffer is dropped, and the next read starts.
OnRead(c) ==
  /\ Free
  /\ reading[c] = "pending"
  /\ \E n \in Ends(c) :
       /\ \E rs \in Parsed(SubSeq(inbox[c], 1, n)) :
            events' = [events EXCEPT ![c] = @ \o Merged(rs)]
       /\ inbox' = [inbox EXCEPT ![c] = SubSeq(@, n + 1, Len(@))]
  /\ UNCHANGED <<alive, io, console, closes, life, client, stopped, reading, sends, replies>>

\* Mutant of Stop: stop_cb_ is not called.
Stop_NoCallback(c) ==
  /\ stopped' = [stopped EXCEPT ![c] = TRUE]
  /\ UNCHANGED <<closes, alive>>

\* connection::stop, but for what becomes of the read that cancel aborts.
Stop(c) ==
  /\ stopped' = [stopped EXCEPT ![c] = TRUE]
  /\ closes' = Append(closes, c)
  /\ alive' \in IF phase = "deleted" THEN BOOLEAN ELSE {TRUE}

\* The read was aborted, the client is gone, or the socket was shut down.
OnReadError(c) ==
  /\ Free
  /\ Serves(c)
  /\ \/ reading[c] = "aborted"
     \/ reading[c] = "pending" /\ (peer[c] = "gone" \/ stopped[c])
  /\ reading' = [reading EXCEPT ![c] = "no"]
  /\ Stop(c)
  /\ UNCHANGED <<io, console, life, client, inbox, events, sends, replies>>

\* What the handlers of a request send: bot::on_help, confirm, reject, or nothing.
Handled(r) ==
  IF r.uid = "help"
    THEN {<<[to |-> r.id, as |-> IF Brief \in r.props THEN "brief" ELSE "full"]>>}
    ELSE {<<>>, <<[to |-> r.id, as |-> "status"]>>}

\* Mutant of Dispatch: events.back() instead of events.front().
Dispatch_Newest(c) ==
  /\ Free
  /\ Serves(c)
  /\ events[c] # <<>>
  /\ \E out \in Handled(events[c][Len(events[c])]) :
       sends' = [sends EXCEPT ![c] = @ \o out]
  /\ events' = [events EXCEPT ![c] = SubSeq(@, 1, Len(@) - 1)]
  /\ UNCHANGED <<alive, io, console, closes, life, client, stopped, inbox, reading, replies>>

\* dispatcher::dispatch, with the handlers it calls.
Dispatch(c) ==
  /\ Free
  /\ Serves(c)
  /\ events[c] # <<>>
  /\ \E out \in Handled(Head(events[c])) : sends' = [sends EXCEPT ![c] = @ \o out]
  /\ events' = [events EXCEPT ![c] = Tail(@)]
  /\ UNCHANGED <<alive, io, console, closes, life, client, stopped, inbox, reading, replies>>

\* connection::do_send.  The write fails when the socket is closed at either end, or,
\* as the socket does not block, when the client reads too slowly.
DoSend(c) ==
  /\ Free
  /\ Serves(c)
  /\ sends[c] # <<>>
  /\ sends' = [sends EXCEPT ![c] = Tail(@)]
  /\ \/ /\ peer[c] = "up" /\ ~ stopped[c]
        /\ replies' = [replies EXCEPT ![c] = Append(@, Head(sends[c]))]
        /\ UNCHANGED <<alive, closes, stopped, reading>>
     \/ /\ Stop(c)
        /\ \/ reading' = [reading EXCEPT ![c] = IF @ = "pending" THEN "aborted" ELSE @]
           \/ Ends(c) # {} /\ UNCHANGED reading
        /\ UNCHANGED replies
  /\ UNCHANGED <<io, console, life, client, inbox, events>>

\* A handler of a connection that was deleted.
UseFreed(c) ==
  /\ Free
  /\ life[c] = "freed"
  /\ alive' \in BOOLEAN
  /\ \/ /\ reading[c] # "no"
        /\ reading' = [reading EXCEPT ![c] = "no"]
        /\ UNCHANGED <<events, sends>>
     \/ /\ events[c] # <<>>
        /\ events' = [events EXCEPT ![c] = Tail(@)]
        /\ UNCHANGED <<reading, sends>>
     \/ /\ sends[c] # <<>>
        /\ sends' = [sends EXCEPT ![c] = Tail(@)]
        /\ UNCHANGED <<reading, events>>
  /\ UNCHANGED <<io, console, closes, life, client, stopped, inbox, replies>>

----------------------------------------------------------------------------
(* The console                                                             *)

\* console::accept: the next connection and its bot, and the asynchronous accept.
NextAccept ==
  LET c == CHOOSE c \in Conns : life[c] = "unborn" IN
  /\ \E d \in Conns : life[d] = "unborn"
  /\ newConn' = c
  /\ life' = [life EXCEPT ![c] = "waiting"]
  /\ accept' = IF phase = "down" THEN "failed" ELSE "waiting"

Launch ==
  /\ alive
  /\ phase = "created"
  /\ NextAccept
  /\ phase' = "launched"
  /\ UNCHANGED <<alive, io, busy, bots, closes, client, stopped, streams>>

\* The first part of handle_accept.  bot::start throws when the client has already
\* left.  When shutdown was faster there is no connection to start.
HandleAccept ==
  /\ Free
  /\ accept = "accepted"
  /\ accept' = "none"
  /\ IF newConn = None \/ phase = "deleted"
       THEN /\ alive' \in IF phase = "deleted" THEN BOOLEAN ELSE {FALSE}
            /\ UNCHANGED <<busy, bots, life, reading>>
       ELSE \/ /\ life' = [life EXCEPT ![newConn] = "serving"]
               /\ reading' = [reading EXCEPT ![newConn] = "pending"]
               /\ bots' = bots \union {newConn}
               /\ busy' = TRUE
               /\ UNCHANGED alive
            \/ /\ peer[newConn] = "gone"
               /\ alive' = FALSE
               /\ UNCHANGED <<busy, bots, life, reading>>
  /\ UNCHANGED <<io, phase, newConn, closes, client, stopped, inbox, events, sends, replies>>

\* The second part of handle_accept.
AcceptNext ==
  /\ alive
  /\ busy
  /\ busy' = FALSE
  /\ IF phase = "deleted"
       THEN alive' \in BOOLEAN /\ UNCHANGED <<newConn, life, accept>>
       ELSE NextAccept /\ UNCHANGED alive
  /\ UNCHANGED <<io, phase, bots, closes, client, stopped, streams>>

\* handle_accept throws, out of io_service::run, when the accept failed.
AcceptFailed ==
  /\ Free
  /\ accept = "failed"
  /\ accept' = "none"
  /\ alive' \in IF phase = "deleted" THEN BOOLEAN ELSE {FALSE}
  /\ UNCHANGED <<io, phase, busy, newConn, bots, closes, life, client, stopped, streams>>

Freed(c) ==
  /\ life' = [life EXCEPT ![c] = "freed"]
  /\ reading' = [reading EXCEPT ![c] = IF @ = "pending" THEN "aborted" ELSE @]

\* Mutant of Close: the bot stays in bots_.
Close_KeepsBot ==
  /\ Free
  /\ closes # <<>>
  /\ closes' = Tail(closes)
  /\ IF phase # "deleted" /\ Serves(Head(closes))
       THEN Freed(Head(closes)) /\ UNCHANGED alive
       ELSE alive' \in BOOLEAN /\ UNCHANGED <<life, reading>>
  /\ UNCHANGED <<io, console, client, stopped, inbox, events, sends, replies>>

\* The handler that console::close has posted.
Close ==
  /\ Free
  /\ closes # <<>>
  /\ closes' = Tail(closes)
  /\ IF phase # "deleted" /\ Serves(Head(closes))
       THEN /\ Freed(Head(closes))
            /\ bots' = bots \ {Head(closes)}
            /\ UNCHANGED alive
       ELSE /\ alive' \in BOOLEAN
            /\ UNCHANGED <<life, reading, bots>>
  /\ UNCHANGED <<io, phase, busy, accept, newConn, client, stopped, inbox, events, sends, replies>>

\* io_service::stop: the handler that runs is the last.
StopIo ==
  /\ alive
  /\ io
  /\ io' = FALSE
  /\ UNCHANGED <<alive, console, closes, life, client, stopped, streams>>

\* console::shutdown, and the part of its destructor that calls it.
ShutDown(next) ==
  /\ IF newConn = None THEN UNCHANGED <<life, reading>> ELSE Freed(newConn)
  /\ newConn' = None
  /\ accept' = IF accept = "waiting" THEN "failed" ELSE accept
  /\ phase' = next

Shutdown ==
  /\ alive
  /\ phase = "launched"
  /\ ShutDown("down")
  /\ UNCHANGED <<alive, io, busy, bots, closes, client, stopped, inbox, events, sends, replies>>

Delete ==
  /\ alive
  /\ phase \in {"created", "launched", "down"}
  /\ ShutDown("deleted")
  /\ bots' = {}
  /\ UNCHANGED <<alive, io, busy, closes, client, stopped, inbox, events, sends, replies>>

----------------------------------------------------------------------------
Next ==
  \/ \E c \in Conns : Request(c) \/ Disconnect(c)
  \/ \E c \in Conns : OnRead(c) \/ OnReadError(c) \/ Dispatch(c) \/ DoSend(c) \/ UseFreed(c)
  \/ Connect \/ Launch \/ HandleAccept \/ AcceptNext \/ AcceptFailed \/ Close
  \/ StopIo \/ Shutdown \/ Delete

Spec == Init /\ [][Next]_vars

\* The io_service runs every handler that is ready.  The clients and the main
\* thread may do nothing.
FairSpec ==
  /\ Spec
  /\ \A c \in Conns :
       WF_vars(OnRead(c)) /\ WF_vars(OnReadError(c)) /\ WF_vars(Dispatch(c)) /\ WF_vars(DoSend(c))
  /\ WF_vars(HandleAccept) /\ WF_vars(AcceptNext) /\ WF_vars(Close)

----------------------------------------------------------------------------
(* Properties                                                              *)

\* Until it is shut down, the console lists the bots of exactly the connections that
\* exist and serve a client, and none twice; and unless it is about to make one, it
\* has a connection for the next client, with the accept on its way.
Accepts ==
  /\ TypeOK
  /\ alive /\ phase = "launched" =>
    /\ bots = {c \in Conns : Serves(c)}
    /\ newConn # None
    /\ life[newConn] = IF busy THEN "serving" ELSE "waiting"
    /\ busy \/ accept \in {"waiting", "accepted"}

\* Whoever asks for help in full is never given it in brief because of another client,
\* and whoever asks for it in brief gets it in brief: properties may leak from an earlier
\* request into a later one, but not between connections, and none gets lost.
RepliesFit ==
  \A c \in Conns : \A i \in DOMAIN replies[c] :
    LET reply == replies[c][i] IN
    CASE reply.as = "brief" -> \E n \in 1..reply.to : Brief \in sent[c][n].props
      [] reply.as = "full"  -> Brief \notin sent[c][reply.to].props
      [] OTHER              -> sent[c][reply.to].uid = "svc"

\* A client gets its replies in the order of its requests, whatever was lost or
\* refused in between, and never two replies to one, for all the queues and strands
\* between the request and the reply; and each fits what it answers.
RepliesInOrder ==
  /\ RepliesFit
  /\ \A c \in Conns : \A i \in DOMAIN replies[c] :
    /\ replies[c][i].to \in DOMAIN sent[c]
    /\ \A j \in 1..(i - 1) : replies[c][j].to < replies[c][i].to

Over(c) == ~ alive \/ ~ io \/ phase # "launched" \/ peer[c] = "gone" \/ stopped[c]

\* A request for help that the console reads by itself is answered, unless the
\* connection ends or the client sends another meanwhile.
AloneIsAnswered ==
  \A c \in Conns, n \in 1..MaxSent :
    /\ Len(sent[c]) = n
    /\ sent[c][n].uid = "help"
    /\ Len(inbox[c]) = 2
    /\ Serves(c)
    ~> \/ \E i \in DOMAIN replies[c] : replies[c][i].to = n
       \/ Len(sent[c]) > n
       \/ Over(c)

\* The connection of a client that has left is deleted.
GoneIsDeleted ==
  \A c \in Conns :
    Serves(c) /\ peer[c] = "gone" ~> life[c] = "freed" \/ ~ alive \/ ~ io \/ phase # "launched"

\* "stop all asynchronous ops" (connection.cpp:67): a connection that was stopped has
\* no handler left to run when it is deleted, and is not to be deleted again.  Not
\* so: what was posted to a strand before is not cancelled.  (connection.cpp:61-76)
StopsAllOperations ==
  \A c \in Conns : alive /\ life[c] = "freed" /\ stopped[c] =>
    /\ reading[c] = "no"
    /\ events[c] = <<>>
    /\ sends[c] = <<>>
    /\ \A i \in DOMAIN closes : closes[i] # c
================================================================================
