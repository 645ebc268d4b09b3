-------------------------------- MODULE Delivery --------------------------------
(***************************************************************************)
(* The way of a message from channel::publish to channel::dispatch: what   *)
(* message::clone and serialize put on the wire (messaging/message.cpp),   *)
(* the broker's queue, and the frames a channel::consumer reads, checks and*)
(* deserialises (messaging/channel_consumer.cpp).                          *)
(*                                                                         *)
(* Every application has one consumer on the same queue.  The broker hands *)
(* a message to one of them and, as they consume with no_ack, forgets it.  *)
(* A connection may be lost with frames unread.  What dispatch does with   *)
(* the message is the subject of Channel.                                  *)
(***************************************************************************)
EXTENDS Naturals, Sequences, SequencesExt

CONSTANTS
  Apps,      \* applications, by their fqn
  Ids,       \* what tells messages apart
  Headers,   \* headers an application may set
  Bytes,     \* pieces of a body that fit in a frame each
  Zero,      \* the piece that starts with a zero byte
  Messages,  \* the messages that may be published, each once: bounds the run
  None       \* no application

\* from: the application that publishes the message, or None for a client of the
\* broker that is no libalgol application and sends no app_id.  reply_to: the
\* recipient, or None when the property is not set.
ASSUME DeliveryAssumption ==
  /\ None \notin Apps
  /\ \A m \in Messages :
       m \in [id : Ids, from : Apps \union {None}, reply_to : Apps \union {None},
              headers : SUBSET Headers, body : Seq(Bytes)]
  /\ \A m, n \in Messages : m.id = n.id => m = n

VARIABLES
  sent,       \* the messages published so far
  ready,      \* the broker's queue: messages as they were serialised
  link,       \* application -> its consumer's connection
  wire,       \* application -> the frames that wait to be read from it
  at,         \* application -> what its consumer waits for
  msg,        \* application -> the message of the header read last
  received,   \* application -> body_received, in pieces
  body,       \* application -> body
  dispatched  \* application -> the messages its consumer dispatched

vars == <<sent, ready, link, wire, at, msg, received, body, dispatched>>

reading == <<msg, received, body>>

----------------------------------------------------------------------------
(* What is sent                                                            *)

\* message::clone: headers_ is not copied.
Clone(m) == [m EXCEPT !.headers = {}]

\* amqp_cstring_bytes: everything before the first zero byte.
CString(b) == SubSeq(b, 1, Max({n \in 0..Len(b) : \A i \in 1..n : b[i] # Zero}))

\* message::serialize: the app_id is always the sender's.
Serialize(m) ==
  [id |-> m.id, app_id |-> m.from, reply_to |-> m.reply_to, headers |-> m.headers,
   body |-> CString(m.body)]

\* A message as it is published; a foreign client sends what it likes.
Published(m) ==
  IF m.from = None
    THEN [id |-> m.id, app_id |-> None, reply_to |-> m.reply_to, headers |-> m.headers,
          body |-> m.body]
    ELSE Serialize(Clone(m))

OnWire ==
  [id : Ids, app_id : Apps \union {None}, reply_to : Apps \union {None},
   headers : SUBSET Headers, body : Seq(Bytes)]

\* A message as consume has made it of its frames.
Arrived ==
  [id : Ids, app_id : Apps, reply_to : Apps \union {None}, headers : SUBSET Headers,
   body : Seq(Bytes)]

\* The frames of one message: the delivery, its header, and a frame per piece.
Frames(w) ==
  <<[kind |-> "deliver"], [kind |-> "header", msg |-> w]>>
    \o [i \in 1..Len(w.body) |-> [kind |-> "body", piece |-> w.body[i]]]

----------------------------------------------------------------------------
Links  == {"up", "closing", "lost"}
Points == {"method", "header", "body", "gone", "aborted"}

Frame == [kind : {"deliver", "other", "close_ok"}]
           \union [kind : {"header"}, msg : OnWire] \union [kind : {"body"}, piece : Bytes]

TypeOK ==
  /\ sent \subseteq Messages
  /\ ready \in Seq(OnWire)
  /\ link \in [Apps -> Links]
  /\ wire \in [Apps -> Seq(Frame)]
  /\ at \in [Apps -> Points]
  /\ msg \in [Apps -> OnWire \union {None}]
  /\ received \in [Apps -> Nat]
  /\ body \in [Apps -> Seq(Bytes)]
  /\ dispatched \in [Apps -> Seq(Arrived)]

Init ==
  /\ sent = {}
  /\ ready = <<>>
  /\ link = [a \in Apps |-> "up"]
  /\ wire = [a \in Apps |-> <<>>]
  /\ at = [a \in Apps |-> "method"]
  /\ msg = [a \in Apps |-> None]
  /\ received = [a \in Apps |-> 0]
  /\ body = [a \in Apps |-> <<>>]
  /\ dispatched = [a \in Apps |-> <<>>]

\* channel::publish.
Publish(m) ==
  /\ m \notin sent
  /\ sent' = sent \union {m}
  /\ ready' = Append(ready, Published(m))
  /\ UNCHANGED <<link, wire, at, reading, dispatched>>

----------------------------------------------------------------------------
(* The broker                                                              *)

\* The broker hands the oldest message to some consumer.
Deliver(a) ==
  /\ link[a] = "up"
  /\ ready # <<>>
  /\ wire' = [wire EXCEPT ![a] = @ \o Frames(Head(ready))]
  /\ ready' = Tail(ready)
  /\ UNCHANGED <<sent, link, at, reading, dispatched>>

\* The broker sends a method of another kind.  Bound: one, on an idle connection.
OtherMethod(a) ==
  /\ link[a] = "up"
  /\ wire[a] = <<>>
  /\ wire' = [wire EXCEPT ![a] = <<[kind |-> "other"]>>]
  /\ UNCHANGED <<sent, ready, link, at, reading, dispatched>>

\* The broker confirms the close that channel::consumer::stop requested.
CloseOk(a) ==
  /\ link[a] = "up"
  /\ link' = [link EXCEPT ![a] = "closing"]
  /\ wire' = [wire EXCEPT ![a] = Append(@, [kind |-> "close_ok"])]
  /\ UNCHANGED <<sent, ready, at, reading, dispatched>>

\* The connection is lost, with the last of what was on its way, or all of it.
Lose(a) ==
  /\ link[a] # "lost"
  /\ link' = [link EXCEPT ![a] = "lost"]
  /\ \E n \in 0..Len(wire[a]) : wire' = [wire EXCEPT ![a] = SubSeq(@, 1, n)]
  /\ UNCHANGED <<sent, ready, at, reading, dispatched>>

----------------------------------------------------------------------------
(* channel::consumer::consume                                              *)

\* amqp_simple_wait_frame returns a frame, or a negative result.
Waits(a, point) == at[a] = point /\ wire[a] # <<>>
Fails(a)        == wire[a] = <<>> /\ link[a] = "lost"

Goto(a, point) == at' = [at EXCEPT ![a] = point]

Take(a) == wire' = [wire EXCEPT ![a] = Tail(@)]

ReadMethod_OtherStops(a) ==
  /\ Waits(a, "method")
  /\ Take(a)
  /\ Goto(a, IF Head(wire[a]).kind = "deliver" THEN "header" ELSE "gone")
  /\ UNCHANGED <<sent, ready, link, reading, dispatched>>

\* Frames that are no method, and methods of other kinds, are passed over.
ReadMethod(a) ==
  /\ Waits(a, "method")
  /\ Take(a)
  /\ CASE Head(wire[a]).kind = "deliver"  -> Goto(a, "header")
       [] Head(wire[a]).kind = "close_ok" -> Goto(a, "gone")
       [] OTHER                           -> UNCHANGED at
  /\ UNCHANGED <<sent, ready, link, reading, dispatched>>

ReadHeader_KeepsBody(a) ==
  /\ Waits(a, "header")
  /\ Take(a)
  /\ Goto(a, "body")
  /\ msg' = [msg EXCEPT ![a] = Head(wire[a]).msg]
  /\ received' = [received EXCEPT ![a] = 0]
  /\ UNCHANGED <<sent, ready, link, body, dispatched>>

ReadHeader(a) ==
  /\ Waits(a, "header")
  /\ Take(a)
  /\ IF Head(wire[a]).kind # "header"
       THEN Goto(a, "aborted") /\ UNCHANGED reading
       ELSE /\ Goto(a, "body")
            /\ msg' = [msg EXCEPT ![a] = Head(wire[a]).msg]
            /\ received' = [received EXCEPT ![a] = 0]
            /\ body' = [body EXCEPT ![a] = <<>>]
  /\ UNCHANGED <<sent, ready, link, dispatched>>

BodyTarget(a) == Len(msg[a].body)

MoreBody_OneTooMany(a) == received[a] =< BodyTarget(a)

\* The loop's condition, body_received < body_target.
MoreBody(a) == received[a] < BodyTarget(a)

ReadBody(a) ==
  /\ Waits(a, "body")
  /\ MoreBody(a)
  /\ Take(a)
  /\ IF Head(wire[a]).kind # "body"
       THEN Goto(a, "aborted") /\ UNCHANGED reading
       ELSE /\ received' = [received EXCEPT ![a] = @ + 1]
            /\ body' = [body EXCEPT ![a] = Append(@, Head(wire[a]).piece)]
            /\ UNCHANGED <<at, msg>>
  /\ UNCHANGED <<sent, ready, link, dispatched>>

\* message::deserialize into a message that has the receiver's own app_id.
Deserialized(a) ==
  [id |-> msg[a].id,
   app_id |-> IF msg[a].app_id = None THEN a ELSE msg[a].app_id,
   reply_to |-> msg[a].reply_to, headers |-> msg[a].headers, body |-> body[a]]

Accepts_FromItself(a, d) == d.reply_to \in {None, a}

\* Not from this application, and for everybody or for this application.
Accepts(a, d) == d.app_id # a /\ d.reply_to \in {None, a}

\* A body that is cut short by the loss of the connection is processed like any
\* other, and then the consumer stops.
Process(a) ==
  /\ at[a] = "body"
  /\ MoreBody(a) => Fails(a)
  /\ dispatched' =
       IF Accepts(a, Deserialized(a))
         THEN [dispatched EXCEPT ![a] = Append(@, Deserialized(a))]
         ELSE dispatched
  /\ Goto(a, IF MoreBody(a) THEN "gone" ELSE "method")
  /\ UNCHANGED <<sent, ready, link, wire, reading>>

\* Waiting for the next method or for the header fails.
WaitFails(a) ==
  /\ at[a] \in {"method", "header"}
  /\ Fails(a)
  /\ Goto(a, "gone")
  /\ UNCHANGED <<sent, ready, link, wire, reading, dispatched>>

Consume(a) == ReadMethod(a) \/ ReadHeader(a) \/ ReadBody(a) \/ Process(a) \/ WaitFails(a)

----------------------------------------------------------------------------
Next ==
  \/ \E m \in Messages : Publish(m)
  \/ \E a \in Apps : Deliver(a) \/ OtherMethod(a) \/ CloseOk(a) \/ Lose(a)
  \/ \E a \in Apps : ReadMethod(a) \/ ReadHeader(a) \/ ReadBody(a) \/ Process(a) \/ WaitFails(a)

Spec == Init /\ [][Next]_vars

\* A consumer's thread goes on.  The broker and the publishers may stop.
FairSpec == Spec /\ \A a \in Apps : WF_vars(Consume(a))

----------------------------------------------------------------------------
(* Properties                                                              *)

\* The consumer and the broker agree on where they are in the stream: after a
\* delivery comes its header and after it its body, to the last piece, however
\* long or empty it is.  So consume never aborts ("Expected header!", "Expected
\* body!") and never takes a frame of the next message for one of this.
InStep ==
  \A a \in Apps :
    /\ at[a] # "aborted"
    /\ at[a] = "method" /\ wire[a] # <<>> =>
         Head(wire[a]).kind \in {"deliver", "other", "close_ok"}
    /\ at[a] = "header" /\ wire[a] # <<>> => Head(wire[a]).kind = "header"
    /\ at[a] = "body" =>
         /\ received[a] =< BodyTarget(a)
         /\ link[a] # "lost" => received[a] + Len(wire[a]) >= BodyTarget(a)
         /\ \A i \in DOMAIN wire[a] :
              received[a] + i =< BodyTarget(a) => wire[a][i].kind = "body"

\* The body of message m as its sender's serialize cuts it.
SentBody(m) == IF m.from = None THEN m.body ELSE CString(m.body)

\* Whatever is dispatched has the whole body of the message it claims to be, and
\* of no other; only the last message before the connection was lost may have
\* less of it.
DispatchedIntact ==
  \A a \in Apps : \A i \in DOMAIN dispatched[a] : \E m \in sent :
    LET d == dispatched[a][i] IN
    /\ d.id = m.id
    /\ \/ d.body = SentBody(m)
       \/ /\ IsPrefix(d.body, SentBody(m))
          /\ i = Len(dispatched[a]) /\ at[a] = "gone" /\ link[a] = "lost"

\* Message m, as its sender made it, is for application a.
IsFor(m, a) == m.from \notin {None, a} /\ m.reply_to \in {None, a}

\* Nobody is given a message of his own or one that was sent to somebody else,
\* through all that copying, serialising and deserialising do to the message.
RightRecipient ==
  \A a \in Apps : \A d \in ToSet(dispatched[a]) : \E m \in sent :
    d.id = m.id /\ IsFor(m, a)

WasDispatched(m, a) == \E d \in ToSet(dispatched[a]) : d.id = m.id

\* The header of message m waits to be read by application a.
OnItsWay(m, a) ==
  \E i \in DOMAIN wire[a] : wire[a][i].kind = "header" /\ wire[a][i].msg.id = m.id

\* A message that the broker hands to a consumer it is for is dispatched, unless
\* the connection is lost: no other frame or message before it, not even the
\* close of the channel after it, makes the consumer stop or skip it.
DeliveredIsDispatched ==
  \A a \in Apps, m \in Messages :
    OnItsWay(m, a) /\ IsFor(m, a) ~> WasDispatched(m, a) \/ link[a] = "lost"

\* "All headers are internally cast to strings and transported that way"
\* (message.hpp:167): a message is dispatched with the headers it was sent with.
HeadersTransported ==
  \A a \in Apps : \A d \in ToSet(dispatched[a]) : \A m \in sent :
    d.id = m.id => d.headers = m.headers

BeingRead(m, a) == OnItsWay(m, a) \/ (at[a] = "body" /\ msg[a].id = m.id)

\* "Whenever a message is delivered into that queue, this instance will be
\* notified" (communicator.hpp:78-79): while no connection closes or is lost, a
\* message that is for a listening application is still on its way or was
\* dispatched by an application that it is for.  Not so: the sender's own consumer
\* may be given the message, and drops it.  (channel_consumer.cpp:80-93, 192-203)
ListenerNotified ==
  (\A a \in Apps : link[a] = "up") =>
    \A m \in sent : (\E a \in Apps : IsFor(m, a)) =>
      \/ \E w \in ToSet(ready) : w.id = m.id
      \/ \E a \in Apps : BeingRead(m, a) \/ WasDispatched(m, a)
=================================================================================
