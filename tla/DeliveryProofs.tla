----------------------------- MODULE DeliveryProofs -----------------------------
(***************************************************************************)
(* The inductive invariant of Delivery and its safety properties, for every*)
(* number of applications and messages, and bodies of every length.        *)
(***************************************************************************)
EXTENDS Delivery, TLAPS, SequenceTheorems, WellFoundedInduction

----------------------------------------------------------------------------
(* The inductive invariant                                                 *)

\* A frame that may stand between two messages.
Starts(f) == f.kind \in {"deliver", "other", "close_ok"}

\* What publish made of the messages sent so far.
InTransit == {Published(m) : m \in sent}

Piece(p) == [kind |-> "body", piece |-> p]

\* The frames on a connection follow each other as those of whole messages do.
Formed(w) ==
  \A i \in 1..Len(w) :
    /\ w[i].kind = "deliver" => (i + 1 =< Len(w) => w[i + 1].kind = "header")
    /\ w[i].kind \in {"other", "close_ok"} => (i + 1 =< Len(w) => Starts(w[i + 1]))
    /\ w[i].kind = "header" =>
         /\ \A j \in 1..Len(w[i].msg.body) :
              i + j =< Len(w) => w[i + j] = Piece(w[i].msg.body[j])
         /\ i + Len(w[i].msg.body) + 1 =< Len(w) => Starts(w[i + Len(w[i].msg.body) + 1])

\* The last message on a connection is complete.
Whole(w) ==
  \A i \in 1..Len(w) :
    /\ w[i].kind = "deliver" => i + 1 =< Len(w)
    /\ w[i].kind = "header" => i + Len(w[i].msg.body) =< Len(w)

\* Whole messages follow each other on a connection, up to its loss.
Connected(w, l) == Formed(w) /\ (l # "lost" => Whole(w))

\* What a consumer that waits at p, with r pieces of a body b of the message m, may
\* expect of the frames w of its connection l.
Reading(w, l, p, m, r, b) ==
  /\ p # "aborted"
  /\ p = "method" => (Len(w) >= 1 => Starts(w[1]))
  /\ p = "header" =>
       /\ Len(w) >= 1 => w[1].kind = "header"
       /\ l # "lost" => Len(w) >= 1
  /\ p = "body" =>
       /\ m \in OnWire
       /\ r =< Len(m.body)
       /\ Len(b) = r
       /\ \A j \in 1..r : b[j] = m.body[j]
       /\ \A i \in 1..Len(w) :
            /\ r + i =< Len(m.body) => w[i] = Piece(m.body[r + i])
            /\ r + i = Len(m.body) + 1 => Starts(w[i])
       /\ l # "lost" => r + Len(w) >= Len(m.body)

StreamInv ==
  \A a \in Apps :
    /\ Connected(wire[a], link[a])
    /\ Reading(wire[a], link[a], at[a], msg[a], received[a], body[a])

\* Messages in the queue, on the connections and in the consumers were sent.
Genuine(w) == \A i \in 1..Len(w) : w[i].kind = "header" => w[i].msg \in InTransit

GenuineInv ==
  /\ \A i \in 1..Len(ready) : ready[i] \in InTransit
  /\ \A a \in Apps : Genuine(wire[a])
  /\ \A a \in Apps : at[a] = "body" => msg[a] \in InTransit

\* What application a dispatched i-th is message m, for a, and whole unless cut.
Carries(a, i, m) ==
  /\ dispatched[a][i].id = m.id
  /\ IsFor(m, a)
  /\ \/ dispatched[a][i].body = SentBody(m)
     \/ /\ IsPrefix(dispatched[a][i].body, SentBody(m))
        /\ i = Len(dispatched[a]) /\ at[a] = "gone" /\ link[a] = "lost"

DispatchInv ==
  \A a \in Apps : \A i \in 1..Len(dispatched[a]) : \E m \in sent : Carries(a, i, m)

IInv == TypeOK /\ GenuineInv /\ StreamInv /\ DispatchInv

----------------------------------------------------------------------------
(* What is put on the wire                                                 *)

\* A nonempty set of numbers that are at most n has a greatest element.
LEMMA MaxExists ==
  ASSUME NEW S, S \subseteq Nat, NEW n \in Nat, \A k \in S : k =< n, S # {}
  PROVE  Max(S) \in S
<1> DEFINE R == OpToRel(<, Nat)
           T == {k \in 0..n : n - k \in S}
<1>1. IsWellFoundedOn(R, Nat)
  BY NatLessThanWellFounded
<1>2. T \subseteq Nat /\ T # {}
  <2>1. PICK k \in S : TRUE
    OBVIOUS
  <2>2. n - k \in T
    BY <2>1
  <2> QED BY <2>2
<1>3. PICK t \in T : \A y \in T : ~ (<<y, t>> \in R)
  BY <1>1, <1>2, WFMin
<1>4. \A y \in T : y \in Nat /\ ~(y < t)
  BY <1>2, <1>3 DEF OpToRel
<1>5. n - t \in S
  OBVIOUS
<1>6. ASSUME NEW s \in S PROVE n - t >= s
  <2>1. n - s \in T
    OBVIOUS
  <2>2. n - s >= t
    BY <1>4, <2>1
  <2> QED BY <1>2, <2>2
<1> QED BY <1>5, <1>6 DEF Max

\* What is left of a body as a C string is a body.
LEMMA CStringType ==
  ASSUME NEW b \in Seq(Bytes)
  PROVE  CString(b) \in Seq(Bytes)
<1> DEFINE S == {n \in 0..Len(b) : \A i \in 1..n : b[i] # Zero}
<1>1. Max(S) \in S
  <2>1. S \subseteq Nat /\ 0 \in S /\ \A k \in S : k =< Len(b)
    BY LenProperties
  <2> QED BY <2>1, MaxExists, LenProperties
<1>2. \A i \in 1..Max(S) : b[i] \in Bytes
  BY <1>1, ElementOfSeq, LenProperties
<1>3. CString(b) = SubSeq(b, 1, Max(S))
  BY Zenon DEF CString
<1> HIDE DEF S
<1>4. Max(S) \in Int /\ 1 \in Int
  <2>1. Max(S) \in 0..Len(b)
    BY <1>1 DEF S
  <2> QED BY <2>1, LenProperties
<1>5. SubSeq(b, 1, Max(S)) \in Seq(Bytes)
  BY <1>2, <1>4, SubSeqProperties
<1> QED BY <1>3, <1>5

\* A published message has the form the broker's queue has room for.
LEMMA PublishedType ==
  ASSUME NEW m \in Messages
  PROVE  Published(m) \in OnWire
<1>1. m \in [id : Ids, from : Apps \union {None}, reply_to : Apps \union {None},
             headers : SUBSET Headers, body : Seq(Bytes)]
  BY DeliveryAssumption
<1>2. CString(m.body) \in Seq(Bytes)
  BY <1>1, CStringType
<1>3. CASE m.from = None
  BY <1>1, <1>3 DEF Published, OnWire
<1>4. CASE m.from # None
  <2>1. Clone(m).id = m.id /\ Clone(m).from = m.from /\ Clone(m).reply_to = m.reply_to
        /\ Clone(m).headers = {} /\ Clone(m).body = m.body
    BY <1>1 DEF Clone
  <2> QED BY <1>1, <1>2, <1>4, <2>1 DEF Published, Serialize, OnWire
<1> QED BY <1>3, <1>4

\* The frames of a message: its delivery, its header, and a frame for each piece.
LEMMA FramesProperties ==
  ASSUME NEW w \in OnWire
  PROVE  /\ Frames(w) \in Seq(Frame)
         /\ Len(Frames(w)) = Len(w.body) + 2
         /\ Len(w.body) \in Nat
         /\ Frames(w)[1] = [kind |-> "deliver"]
         /\ Frames(w)[2] = [kind |-> "header", msg |-> w]
         /\ \A j \in 1..Len(w.body) : Frames(w)[j + 2] = Piece(w.body[j])
<1> DEFINE first == <<[kind |-> "deliver"], [kind |-> "header", msg |-> w]>>
           rest == [i \in 1..Len(w.body) |-> [kind |-> "body", piece |-> w.body[i]]]
<1>1. w.body \in Seq(Bytes) /\ Len(w.body) \in Nat
  BY LenProperties DEF OnWire
<1>2. /\ first \in Seq(Frame) /\ Len(first) = 2
      /\ first[1] = [kind |-> "deliver"] /\ first[2] = [kind |-> "header", msg |-> w]
  BY DEF Frame
<1>3. rest \in Seq(Frame) /\ Len(rest) = Len(w.body)
  <2>1. \A i \in 1..Len(w.body) : [kind |-> "body", piece |-> w.body[i]] \in Frame
    BY <1>1, ElementOfSeq DEF Frame
  <2>2. rest \in [1..Len(w.body) -> Frame]
    BY <2>1
  <2> QED BY <1>1, <2>2
<1> HIDE DEF first, rest
<1>4. /\ first \o rest \in Seq(Frame)
      /\ Len(first \o rest) = Len(first) + Len(rest)
      /\ \A i \in 1..(Len(first) + Len(rest)) :
           (first \o rest)[i] = IF i =< Len(first) THEN first[i] ELSE rest[i - Len(first)]
  BY ZenonT(60), <1>2, <1>3, ConcatProperties
<1>5. /\ (first \o rest)[1] = first[1]
      /\ (first \o rest)[2] = first[2]
      /\ \A j \in 1..Len(w.body) : (first \o rest)[j + 2] = rest[j]
  BY <1>1, <1>2, <1>3, <1>4
<1>6. \A j \in 1..Len(w.body) : rest[j] = Piece(w.body[j])
  BY DEF rest, Piece
<1>7. Frames(w) = first \o rest
  BY Zenon DEF Frames, first, rest
<1> QED BY <1>1, <1>2, <1>3, <1>4, <1>5, <1>6, <1>7

\* Publishing keeps what the consumer's filter and its handlers look at.
LEMMA PublishedContent ==
  ASSUME NEW m \in Messages
  PROVE  /\ Published(m).id = m.id /\ Published(m).app_id = m.from
         /\ Published(m).reply_to = m.reply_to /\ Published(m).body = SentBody(m)
<1>1. m \in [id : Ids, from : Apps \union {None}, reply_to : Apps \union {None},
             headers : SUBSET Headers, body : Seq(Bytes)]
  BY DeliveryAssumption
<1>2. /\ Clone(m).id = m.id /\ Clone(m).from = m.from /\ Clone(m).reply_to = m.reply_to
      /\ Clone(m).body = m.body
  BY <1>1 DEF Clone
<1> QED BY <1>2 DEF Published, Serialize, SentBody

----------------------------------------------------------------------------
(* The stream of frames                                                    *)

\* A header frame carries a message whose body is a finite sequence of pieces.
LEMMA HeaderHasMessage ==
  ASSUME NEW f \in Frame, f.kind = "header"
  PROVE  f.msg \in OnWire /\ f.msg.body \in Seq(Bytes) /\ Len(f.msg.body) \in Nat
<1>1. f.msg \in OnWire
  BY DEF Frame
<1> QED BY <1>1, LenProperties DEF OnWire

\* The frames of a message are a well formed stream of their own.
LEMMA FramesFormed ==
  ASSUME NEW w \in OnWire
  PROVE  Formed(Frames(w)) /\ Whole(Frames(w)) /\ Len(Frames(w)) >= 1 /\ Starts(Frames(w)[1])
<1> DEFINE F == Frames(w)
<1>1. /\ Len(F) = Len(w.body) + 2 /\ Len(w.body) \in Nat
      /\ F[1] = [kind |-> "deliver"] /\ F[2] = [kind |-> "header", msg |-> w]
      /\ \A j \in 1..Len(w.body) : F[j + 2] = Piece(w.body[j])
  BY FramesProperties
<1> HIDE DEF F
<1>2. \A i \in 1..Len(F) : i = 1 \/ i = 2 \/ (i - 2 \in 1..Len(w.body) /\ F[i].kind = "body")
  <2> SUFFICES ASSUME NEW i \in 1..Len(F), i # 1, i # 2
               PROVE  i - 2 \in 1..Len(w.body) /\ F[i].kind = "body"
    OBVIOUS
  <2>1. i - 2 \in 1..Len(w.body) /\ (i - 2) + 2 = i
    BY <1>1
  <2>2. F[i] = Piece(w.body[i - 2])
    BY <1>1, <2>1
  <2> QED BY <2>1, <2>2 DEF Piece
<1>3. \A j \in 1..Len(w.body) : F[2 + j] = Piece(w.body[j])
  BY <1>1
<1>4. Formed(F)
  BY SMTT(30), <1>1, <1>2, <1>3 DEF Formed, Starts
<1>5. Whole(F)
  BY SMTT(30), <1>1, <1>2 DEF Whole
<1> QED BY <1>1, <1>4, <1>5 DEF F, Starts

\* A method other than a delivery is one, too.
LEMMA MethodFormed ==
  ASSUME NEW f \in Frame, f.kind \in {"other", "close_ok"}
  PROVE  /\ <<f>> \in Seq(Frame)
         /\ Formed(<<f>>) /\ Whole(<<f>>) /\ Len(<<f>>) >= 1 /\ Starts(<<f>>[1])
BY DEF Formed, Whole, Starts

\* What the broker adds to whole messages leaves the stream well formed.
LEMMA Grown ==
  ASSUME NEW w \in Seq(Frame), NEW v \in Seq(Frame),
         Formed(w), Whole(w), Formed(v), Whole(v), Len(v) >= 1, Starts(v[1])
  PROVE  Formed(w \o v) /\ Whole(w \o v)
<1> DEFINE u == w \o v
<1>1. /\ Len(w) \in Nat /\ Len(v) \in Nat
      /\ Len(u) = Len(w) + Len(v)
      /\ \A i \in 1..Len(w) : u[i] = w[i]
      /\ \A i \in 1..Len(v) : u[Len(w) + i] = v[i]
  <2>1. Len(w) \in Nat /\ Len(v) \in Nat
    BY LenProperties
  <2>2. /\ Len(u) = Len(w) + Len(v)
        /\ \A i \in 1..Len(w) + Len(v) : u[i] = IF i =< Len(w) THEN w[i] ELSE v[i - Len(w)]
    BY ConcatProperties
  <2> QED BY <2>1, <2>2
<1>2. /\ \A i \in 1..Len(w) : w[i].kind = "header" => Len(w[i].msg.body) \in Nat
      /\ \A i \in 1..Len(v) : v[i].kind = "header" => Len(v[i].msg.body) \in Nat
  BY ElementOfSeq, HeaderHasMessage
<1> HIDE DEF u
<1>3. ASSUME NEW i \in 1..Len(w)
      PROVE  /\ u[i].kind = "deliver" => i + 1 =< Len(w) /\ u[i + 1].kind = "header"
             /\ u[i].kind \in {"other", "close_ok"} => Starts(u[i + 1])
             /\ u[i].kind = "header" =>
                  /\ i + Len(u[i].msg.body) =< Len(w)
                  /\ \A j \in 1..Len(u[i].msg.body) : u[i + j] = Piece(u[i].msg.body[j])
                  /\ Starts(u[i + Len(u[i].msg.body) + 1])
  <2>1. u[Len(w) + 1] = v[1] /\ u[i] = w[i]
    BY <1>1
  <2>2. w[i].kind = "deliver" => i + 1 =< Len(w) /\ w[i + 1].kind = "header"
    BY DEF Formed, Whole
  <2>3. w[i].kind \in {"other", "close_ok"} => (i + 1 =< Len(w) => Starts(w[i + 1]))
    BY DEF Formed
  <2>4. CASE w[i].kind = "header"
    <3> DEFINE n == Len(w[i].msg.body)
    <3>1. n \in Nat
      BY <1>2, <2>4
    <3>2. i + n =< Len(w) /\ (i + n + 1 =< Len(w) => Starts(w[i + n + 1]))
      BY <2>4 DEF Formed, Whole
    <3>3. \A j \in 1..n : i + j =< Len(w) => w[i + j] = Piece(w[i].msg.body[j])
      BY <2>4 DEF Formed
    <3> HIDE DEF n
    <3>4. ASSUME NEW j \in 1..n PROVE u[i + j] = Piece(w[i].msg.body[j])
      <4>1. i + j \in 1..Len(w)
        BY <1>1, <3>1, <3>2
      <4> QED BY SMTT(30), <1>1, <3>3, <4>1
    <3>5. Starts(u[i + n + 1])
      <4>1. CASE i + n = Len(w)
        BY <2>1, <4>1
      <4>2. CASE i + n # Len(w)
        <5>1. i + n + 1 \in 1..Len(w)
          BY <1>1, <3>1, <3>2, <4>2
        <5> QED BY <1>1, <3>2, <5>1
      <4> QED BY <4>1, <4>2
    <3> QED BY <2>1, <2>4, <3>2, <3>4, <3>5 DEF n
  <2>5. w[i].kind = "deliver" => u[i + 1].kind = "header"
    BY <1>1, <2>2
  <2>6. w[i].kind \in {"other", "close_ok"} => Starts(u[i + 1])
    <3>1. CASE i = Len(w)
      BY <2>1, <3>1
    <3>2. CASE i # Len(w)
      BY <1>1, <2>3, <3>2
    <3> QED BY <3>1, <3>2
  <2> QED BY <2>1, <2>2, <2>4, <2>5, <2>6
<1>4. ASSUME NEW i \in 1..Len(v)
      PROVE  LET k == Len(w) + i IN
             /\ u[k].kind = "deliver" => k + 1 =< Len(u) /\ u[k + 1].kind = "header"
             /\ u[k].kind \in {"other", "close_ok"} => (k + 1 =< Len(u) => Starts(u[k + 1]))
             /\ u[k].kind = "header" =>
                  /\ k + Len(u[k].msg.body) =< Len(u)
                  /\ \A j \in 1..Len(u[k].msg.body) : u[k + j] = Piece(u[k].msg.body[j])
                  /\ k + Len(u[k].msg.body) + 1 =< Len(u) =>
                       Starts(u[k + Len(u[k].msg.body) + 1])
  <2> DEFINE k == Len(w) + i
             n == Len(v[i].msg.body)
  <2>1. u[k] = v[i] /\ k \in Nat
    BY <1>1
  <2>2. \A j \in Nat : i + j \in 1..Len(v) => u[k + j] = v[i + j]
    <3> SUFFICES ASSUME NEW j \in Nat, i + j \in 1..Len(v) PROVE u[k + j] = v[i + j]
      OBVIOUS
    <3>1. k + j = Len(w) + (i + j)
      BY <1>1
    <3> QED BY <1>1, <3>1
  <2>3. v[i].kind = "deliver" => i + 1 =< Len(v) /\ v[i + 1].kind = "header"
    BY DEF Formed, Whole
  <2>4. v[i].kind \in {"other", "close_ok"} => (i + 1 =< Len(v) => Starts(v[i + 1]))
    BY DEF Formed
  <2>5. v[i].kind = "header" =>
          /\ n \in Nat /\ i + n =< Len(v) /\ (i + n + 1 =< Len(v) => Starts(v[i + n + 1]))
          /\ \A j \in 1..n : i + j =< Len(v) => v[i + j] = Piece(v[i].msg.body[j])
    BY <1>2 DEF Formed, Whole
  <2> HIDE DEF k, n
  <2>6. k = Len(w) + i
    BY DEF k
  <2>7. v[i].kind = "deliver" => k + 1 =< Len(u) /\ u[k + 1].kind = "header"
    BY <1>1, <2>2, <2>3, <2>6
  <2>8. v[i].kind \in {"other", "close_ok"} => (k + 1 =< Len(u) => Starts(u[k + 1]))
    BY <1>1, <2>2, <2>4, <2>6
  <2>9. v[i].kind = "header" =>
          /\ k + n =< Len(u)
          /\ \A j \in 1..n : u[k + j] = Piece(v[i].msg.body[j])
          /\ k + n + 1 =< Len(u) => Starts(u[k + n + 1])
    <3> SUFFICES ASSUME v[i].kind = "header"
                 PROVE  /\ k + n =< Len(u)
                        /\ \A j \in 1..n : u[k + j] = Piece(v[i].msg.body[j])
                        /\ k + n + 1 =< Len(u) => Starts(u[k + n + 1])
      OBVIOUS
    <3>0. n \in Nat /\ i + n =< Len(v) /\ i \in Nat /\ k \in Nat
      BY <2>1, <2>5
    <3>1. k + n =< Len(u)
      BY <1>1, <2>6, <3>0
    <3>2. ASSUME NEW j \in 1..n PROVE u[k + j] = Piece(v[i].msg.body[j])
      <4>1. i + j \in 1..Len(v) /\ j \in Nat
        BY <1>1, <3>0
      <4> QED BY <2>2, <2>5, <4>1
    <3>3. ASSUME k + n + 1 =< Len(u) PROVE Starts(u[k + n + 1])
      <4>1. i + (n + 1) \in 1..Len(v) /\ n + 1 \in Nat
        BY <1>1, <2>6, <3>0, <3>3
      <4>2. u[k + (n + 1)] = v[i + (n + 1)]
        BY <2>2, <4>1
      <4>3. k + (n + 1) = k + n + 1 /\ i + (n + 1) = i + n + 1
        BY <3>0
      <4> QED BY <2>5, <4>1, <4>2, <4>3
    <3> QED BY <3>1, <3>2, <3>3
  <2> QED BY <2>1, <2>7, <2>8, <2>9 DEF k, n
<1>5. \A i \in 1..Len(u) : i \in 1..Len(w) \/ \E h \in 1..Len(v) : i = Len(w) + h
  <2> SUFFICES ASSUME NEW i \in 1..Len(u), i \notin 1..Len(w)
               PROVE  \E h \in 1..Len(v) : i = Len(w) + h
    OBVIOUS
  <2>1. i - Len(w) \in 1..Len(v) /\ i = Len(w) + (i - Len(w))
    BY <1>1
  <2> QED BY <2>1
<1>6. ASSUME NEW i \in 1..Len(u)
      PROVE  /\ u[i].kind = "deliver" => i + 1 =< Len(u) /\ u[i + 1].kind = "header"
             /\ u[i].kind \in {"other", "close_ok"} => (i + 1 =< Len(u) => Starts(u[i + 1]))
             /\ u[i].kind = "header" =>
                  /\ i + Len(u[i].msg.body) =< Len(u)
                  /\ \A j \in 1..Len(u[i].msg.body) : u[i + j] = Piece(u[i].msg.body[j])
                  /\ i + Len(u[i].msg.body) + 1 =< Len(u) =>
                       Starts(u[i + Len(u[i].msg.body) + 1])
  <2>1. CASE i \in 1..Len(w)
    <3>1. Len(w) =< Len(u)
      BY <1>1
    <3>2. u[i].kind = "header" => Len(u[i].msg.body) \in Nat
      BY <1>1, <1>2, <2>1
    <3>3. u[i].kind = "deliver" => i + 1 =< Len(u) /\ u[i + 1].kind = "header"
      BY <1>1, <1>3, <2>1, <3>1
    <3>4. u[i].kind = "header" => i + Len(u[i].msg.body) =< Len(u)
      BY <1>1, <1>3, <2>1, <3>1, <3>2
    <3> QED BY <1>3, <2>1, <3>3, <3>4
  <2>2. CASE \E h \in 1..Len(v) : i = Len(w) + h
    <3>1. PICK h \in 1..Len(v) : i = Len(w) + h
      BY <2>2
    <3> QED BY <1>4, <3>1
  <2> QED BY <1>5, <2>1, <2>2
<1> QED BY <1>6 DEF u, Formed, Whole

\* Nor does it disturb a consumer, which finds it when it has read the rest.
LEMMA GrownReading ==
  ASSUME NEW w \in Seq(Frame), NEW v \in Seq(Frame), NEW l, NEW k, NEW p, NEW m,
         NEW r \in Nat, NEW b,
         l # "lost", Len(v) >= 1, Starts(v[1]), Reading(w, l, p, m, r, b)
  PROVE  Reading(w \o v, k, p, m, r, b)
<1> DEFINE u == w \o v
<1>1. /\ Len(w) \in Nat /\ Len(v) \in Nat
      /\ Len(u) = Len(w) + Len(v)
      /\ \A i \in 1..Len(w) : u[i] = w[i]
      /\ u[Len(w) + 1] = v[1]
  <2>1. Len(w) \in Nat /\ Len(v) \in Nat
    BY LenProperties
  <2>2. /\ Len(u) = Len(w) + Len(v)
        /\ \A i \in 1..Len(w) + Len(v) : u[i] = IF i =< Len(w) THEN w[i] ELSE v[i - Len(w)]
    BY ConcatProperties
  <2>3. Len(w) + 1 \in 1..Len(w) + Len(v) /\ (Len(w) + 1) - Len(w) = 1
    BY <2>1
  <2> QED BY <2>1, <2>2, <2>3
<1> HIDE DEF u
<1>2. CASE p = "method"
  <2>1. Starts(u[1])
    BY <1>1, <1>2 DEF Reading
  <2> QED BY <1>2, <2>1 DEF Reading, u
<1>3. CASE p = "header"
  <2>1. Len(w) >= 1 /\ w[1].kind = "header"
    BY <1>1, <1>3 DEF Reading
  <2>2. Len(u) >= 1 /\ u[1].kind = "header"
    BY <1>1, <2>1
  <2> QED BY <1>3, <2>2 DEF Reading, u
<1>4. CASE p = "body"
  <2>1. m \in OnWire /\ Len(m.body) \in Nat
    BY <1>4, LenProperties DEF Reading, OnWire
  <2>2. r + Len(w) >= Len(m.body)
    BY <1>4 DEF Reading
  <2>3. ASSUME NEW i \in 1..Len(u)
        PROVE  /\ r + i =< Len(m.body) => u[i] = Piece(m.body[r + i])
               /\ r + i = Len(m.body) + 1 => Starts(u[i])
    <3>1. CASE i \in 1..Len(w)
      BY <1>1, <1>4, <3>1 DEF Reading
    <3>2. CASE i \notin 1..Len(w)
      <4>1. i \in Nat /\ i >= Len(w) + 1
        BY <1>1, <3>2
      <4>2. ~(r + i =< Len(m.body)) /\ (r + i = Len(m.body) + 1 => i = Len(w) + 1)
        <5>1. Len(m.body) \in Nat /\ Len(w) \in Nat
          BY <1>1, <2>1
        <5> QED BY <2>2, <4>1, <5>1
      <4> QED BY <1>1, <4>2
    <3> QED BY <3>1, <3>2
  <2>4. r + Len(u) >= Len(m.body)
    BY <1>1, <2>1, <2>2
  <2> QED BY <1>4, <2>3, <2>4 DEF Reading, u
<1> QED BY <1>2, <1>3, <1>4 DEF Reading, u

\* A stream that is cut off is well formed as far as it goes.
LEMMA Cut ==
  ASSUME NEW w \in Seq(Frame), NEW n \in 0..Len(w), NEW l, NEW p, NEW m,
         NEW r \in Nat, NEW b, Formed(w), Reading(w, l, p, m, r, b)
  PROVE  /\ SubSeq(w, 1, n) \in Seq(Frame)
         /\ Connected(SubSeq(w, 1, n), "lost")
         /\ Reading(SubSeq(w, 1, n), "lost", p, m, r, b)
<1> DEFINE u == SubSeq(w, 1, n)
<1>1. /\ u \in Seq(Frame) /\ Len(u) = n /\ n \in Nat /\ n =< Len(w) /\ Len(w) \in Nat
      /\ \A i \in 1..Len(u) : u[i] = w[i]
  <2>1. Len(w) \in Nat /\ n \in Nat /\ n \in Int /\ 1 \in Int
    BY LenProperties
  <2>2. \A i \in 1..n : w[i] \in Frame
    BY <2>1, ElementOfSeq
  <2>3. /\ u \in Seq(Frame)
        /\ Len(u) = IF 1 <= n THEN n - 1 + 1 ELSE 0
        /\ \A i \in 1..(n - 1 + 1) : u[i] = w[1 + i - 1]
    BY <2>1, <2>2, SubSeqProperties
  <2> QED BY <2>1, <2>3
<1>2. \A i \in 1..Len(w) : w[i].kind = "header" => Len(w[i].msg.body) \in Nat
  BY ElementOfSeq, HeaderHasMessage
<1> HIDE DEF u
<1>3. Formed(u)
  <2> SUFFICES ASSUME NEW i \in 1..Len(u)
               PROVE  /\ u[i].kind = "deliver" => (i + 1 =< Len(u) => u[i + 1].kind = "header")
                      /\ u[i].kind \in {"other", "close_ok"} =>
                           (i + 1 =< Len(u) => Starts(u[i + 1]))
                      /\ u[i].kind = "header" =>
                           /\ \A j \in 1..Len(u[i].msg.body) :
                                i + j =< Len(u) => u[i + j] = Piece(u[i].msg.body[j])
                           /\ i + Len(u[i].msg.body) + 1 =< Len(u) =>
                                Starts(u[i + Len(u[i].msg.body) + 1])
    BY DEF Formed
  <2>1. i \in 1..Len(w) /\ u[i] = w[i]
    BY <1>1
  <2>2. \A j \in Nat : i + j =< Len(u) => i + j =< Len(w) /\ u[i + j] = w[i + j]
    BY <1>1
  <2>3. u[i].kind = "deliver" => (i + 1 =< Len(u) => u[i + 1].kind = "header")
    BY <2>1, <2>2 DEF Formed
  <2>4. u[i].kind \in {"other", "close_ok"} => (i + 1 =< Len(u) => Starts(u[i + 1]))
    BY <2>1, <2>2 DEF Formed
  <2>5. ASSUME u[i].kind = "header"
        PROVE  /\ \A j \in 1..Len(u[i].msg.body) :
                    i + j =< Len(u) => u[i + j] = Piece(u[i].msg.body[j])
               /\ i + Len(u[i].msg.body) + 1 =< Len(u) =>
                    Starts(u[i + Len(u[i].msg.body) + 1])
    <3> DEFINE k == Len(w[i].msg.body)
    <3>1. k \in Nat /\ k + 1 \in Nat
      BY <1>2, <2>1, <2>5
    <3>2. /\ \A j \in 1..k : i + j =< Len(w) => w[i + j] = Piece(w[i].msg.body[j])
          /\ i + k + 1 =< Len(w) => Starts(w[i + k + 1])
      BY <2>1, <2>5 DEF Formed
    <3> HIDE DEF k
    <3>3. \A j \in 1..k : i + j =< Len(u) => u[i + j] = Piece(w[i].msg.body[j])
      BY <2>2, <3>1, <3>2
    <3>4. i + k + 1 = i + (k + 1)
      BY <3>1
    <3>5. i + k + 1 =< Len(u) => Starts(u[i + k + 1])
      BY <2>2, <3>1, <3>2, <3>4
    <3> QED BY <2>1, <3>3, <3>5 DEF k
  <2> QED BY <2>3, <2>4, <2>5
<1>4. Reading(u, "lost", p, m, r, b)
  <2>1. CASE p = "method"
    BY <1>1, <2>1 DEF Reading
  <2>2. CASE p = "header"
    BY <1>1, <2>2 DEF Reading
  <2>3. CASE p = "body"
    BY <1>1, <2>3 DEF Reading
  <2> QED BY <2>1, <2>2, <2>3 DEF Reading
<1> QED BY <1>1, <1>3, <1>4 DEF u, Connected

\* What is left when a frame is taken off is well formed.
LEMMA Taken ==
  ASSUME NEW w \in Seq(Frame), w # <<>>, NEW l, Connected(w, l)
  PROVE  /\ Tail(w) \in Seq(Frame)
         /\ Len(w) \in Nat /\ Len(w) >= 1 /\ Len(Tail(w)) = Len(w) - 1
         /\ \A i \in 1..Len(Tail(w)) : Tail(w)[i] = w[i + 1]
         /\ Head(w) = w[1] /\ w[1] \in Frame
         /\ Connected(Tail(w), l)
<1> DEFINE u == Tail(w)
<1>1. /\ u \in Seq(Frame) /\ Len(u) = Len(w) - 1
      /\ \A i \in 1..Len(u) : u[i] = w[i + 1]
      /\ Len(w) \in Nat /\ Len(w) >= 1
      /\ Head(w) = w[1] /\ w[1] \in Frame
  <2>1. Len(w) \in Nat /\ Len(w) >= 1
    BY EmptySeq
  <2>2. u \in Seq(Frame) /\ Len(u) = Len(w) - 1 /\ \A i \in 1..Len(u) : u[i] = w[i + 1]
    BY HeadTailProperties
  <2>3. Head(w) = w[1]
    OBVIOUS
  <2> QED BY <2>1, <2>2, <2>3, ElementOfSeq
<1>2. \A i \in 1..Len(w) : w[i].kind = "header" => Len(w[i].msg.body) \in Nat
  BY ElementOfSeq, HeaderHasMessage
<1> HIDE DEF u
<1>3. ASSUME NEW i \in 1..Len(u)
      PROVE  /\ i + 1 \in 1..Len(w) /\ u[i] = w[i + 1]
             /\ \A j \in Nat : i + j =< Len(u) =>
                  (i + 1) + j =< Len(w) /\ u[i + j] = w[(i + 1) + j]
  <2> SUFFICES ASSUME NEW j \in Nat, i + j =< Len(u)
               PROVE  (i + 1) + j =< Len(w) /\ u[i + j] = w[(i + 1) + j]
    BY <1>1
  <2>1. i + j \in 1..Len(u) /\ (i + j) + 1 = (i + 1) + j
    BY <1>1
  <2>2. u[i + j] = w[(i + j) + 1]
    BY <1>1, <2>1
  <2> QED BY <1>1, <2>1, <2>2
<1>4. Formed(u)
  <2> SUFFICES ASSUME NEW i \in 1..Len(u)
               PROVE  /\ u[i].kind = "deliver" => (i + 1 =< Len(u) => u[i + 1].kind = "header")
                      /\ u[i].kind \in {"other", "close_ok"} =>
                           (i + 1 =< Len(u) => Starts(u[i + 1]))
                      /\ u[i].kind = "header" =>
                           /\ \A j \in 1..Len(u[i].msg.body) :
                                i + j =< Len(u) => u[i + j] = Piece(u[i].msg.body[j])
                           /\ i + Len(u[i].msg.body) + 1 =< Len(u) =>
                                Starts(u[i + Len(u[i].msg.body) + 1])
    BY DEF Formed
  <2>1. Formed(w)
    BY DEF Connected
  <2>2. u[i].kind = "deliver" => (i + 1 =< Len(u) => u[i + 1].kind = "header")
    BY <1>3, <2>1 DEF Formed
  <2>3. u[i].kind \in {"other", "close_ok"} => (i + 1 =< Len(u) => Starts(u[i + 1]))
    BY <1>3, <2>1 DEF Formed
  <2>4. ASSUME u[i].kind = "header"
        PROVE  /\ \A j \in 1..Len(u[i].msg.body) :
                    i + j =< Len(u) => u[i + j] = Piece(u[i].msg.body[j])
               /\ i + Len(u[i].msg.body) + 1 =< Len(u) =>
                    Starts(u[i + Len(u[i].msg.body) + 1])
    <3> DEFINE h == i + 1
               k == Len(w[h].msg.body)
    <3>1. h \in 1..Len(w) /\ w[h].kind = "header" /\ u[i] = w[h]
      BY <1>3, <2>4
    <3>2. k \in Nat /\ k + 1 \in Nat
      BY <1>2, <3>1
    <3>3. /\ \A j \in 1..k : h + j =< Len(w) => w[h + j] = Piece(w[h].msg.body[j])
          /\ h + k + 1 =< Len(w) => Starts(w[h + k + 1])
      BY <2>1, <3>1 DEF Formed
    <3>4. \A j \in Nat : i + j =< Len(u) => h + j =< Len(w) /\ u[i + j] = w[h + j]
      BY <1>3
    <3> HIDE DEF k, h
    <3>5. i + k + 1 = i + (k + 1) /\ h + k + 1 = h + (k + 1)
      <4>1. i \in Nat /\ h \in Nat /\ k \in Nat
        BY <1>1, <3>1, <3>2
      <4> QED BY <4>1
    <3>6. \A j \in 1..k : i + j =< Len(u) => u[i + j] = Piece(w[h].msg.body[j])
      BY <3>2, <3>3, <3>4
    <3>7. i + k + 1 =< Len(u) => Starts(u[i + k + 1])
      BY <3>2, <3>3, <3>4, <3>5
    <3> QED BY <3>1, <3>6, <3>7 DEF k
  <2> QED BY <2>2, <2>3, <2>4
<1>5. ASSUME l # "lost" PROVE Whole(u)
  <2>1. Whole(w)
    BY <1>5 DEF Connected
  <2> SUFFICES ASSUME NEW i \in 1..Len(u)
               PROVE  /\ u[i].kind = "deliver" => i + 1 =< Len(u)
                      /\ u[i].kind = "header" => i + Len(u[i].msg.body) =< Len(u)
    BY DEF Whole
  <2>2. i + 1 \in 1..Len(w) /\ u[i] = w[i + 1]
    BY <1>3
  <2>3. u[i].kind = "deliver" => (i + 1) + 1 =< Len(w)
    BY <2>1, <2>2 DEF Whole
  <2> DEFINE n == Len(u[i].msg.body)
  <2>4. u[i].kind = "header" => n \in Nat /\ (i + 1) + n =< Len(w)
    BY <1>2, <2>1, <2>2 DEF Whole
  <2> HIDE DEF n
  <2>5. i \in Nat /\ Len(u) = Len(w) - 1 /\ Len(w) \in Nat
    BY <1>1
  <2>6. u[i].kind = "header" => i + n =< Len(u)
    BY <2>4, <2>5
  <2> QED BY <2>3, <2>5, <2>6 DEF n
<1> QED BY <1>1, <1>4, <1>5 DEF u, Connected

\* After a delivery a consumer waits for a header, which is there or on its way.
LEMMA AfterDelivery ==
  ASSUME NEW w \in Seq(Frame), w # <<>>, NEW l, Connected(w, l), w[1].kind = "deliver",
         NEW m, NEW r, NEW b
  PROVE  Reading(Tail(w), l, "header", m, r, b)
<1>1. /\ Len(w) \in Nat /\ Len(w) >= 1 /\ Len(Tail(w)) = Len(w) - 1
      /\ \A i \in 1..Len(Tail(w)) : Tail(w)[i] = w[i + 1]
  BY Taken
<1>2. Len(Tail(w)) >= 1 => Tail(w)[1] = w[2]
  BY <1>1
<1>3. Len(w) >= 2 => w[2].kind = "header"
  BY <1>1 DEF Connected, Formed
<1>4. l # "lost" => Len(w) >= 2
  BY <1>1 DEF Connected, Whole
<1> QED BY <1>1, <1>2, <1>3, <1>4 DEF Reading

\* After a method that it passes over, it waits for the next.
LEMMA AfterMethod ==
  ASSUME NEW w \in Seq(Frame), w # <<>>, NEW l, Connected(w, l), w[1].kind = "other",
         NEW m, NEW r, NEW b
  PROVE  Reading(Tail(w), l, "method", m, r, b)
<1>1. /\ Len(w) \in Nat /\ Len(w) >= 1 /\ Len(Tail(w)) = Len(w) - 1
      /\ \A i \in 1..Len(Tail(w)) : Tail(w)[i] = w[i + 1]
  BY Taken
<1>2. Len(Tail(w)) >= 1 => Tail(w)[1] = w[2]
  BY <1>1
<1>3. Len(w) >= 2 => Starts(w[2])
  BY <1>1 DEF Connected, Formed
<1> QED BY <1>1, <1>2, <1>3 DEF Reading

\* After a header it waits for the pieces of that message.
LEMMA AfterHeader ==
  ASSUME NEW w \in Seq(Frame), w # <<>>, NEW l, Connected(w, l), w[1].kind = "header"
  PROVE  Reading(Tail(w), l, "body", w[1].msg, 0, <<>>)
<1> DEFINE m == w[1].msg
<1>1. /\ Len(w) \in Nat /\ Len(w) >= 1 /\ Len(Tail(w)) = Len(w) - 1
      /\ \A i \in 1..Len(Tail(w)) : Tail(w)[i] = w[i + 1]
      /\ w[1] \in Frame
  BY Taken
<1>2. m \in OnWire /\ Len(m.body) \in Nat
  BY <1>1, HeaderHasMessage
<1>3. /\ \A j \in 1..Len(m.body) : 1 + j =< Len(w) => w[1 + j] = Piece(m.body[j])
      /\ 1 + Len(m.body) + 1 =< Len(w) => Starts(w[1 + Len(m.body) + 1])
      /\ l # "lost" => 1 + Len(m.body) =< Len(w)
  <2>1. 1 \in 1..Len(w)
    BY <1>1
  <2> QED BY <2>1 DEF Connected, Formed, Whole
<1> HIDE DEF m
<1>4. ASSUME NEW i \in 1..Len(Tail(w))
      PROVE  /\ 0 + i =< Len(m.body) => Tail(w)[i] = Piece(m.body[0 + i])
             /\ 0 + i = Len(m.body) + 1 => Starts(Tail(w)[i])
  <2>1. /\ i \in Nat /\ i >= 1 /\ 1 + i =< Len(w) /\ 0 + i = i
        /\ Tail(w)[i] = w[i + 1] /\ i + 1 = 1 + i
    BY <1>1
  <2>2. i =< Len(m.body) => w[1 + i] = Piece(m.body[i])
    BY <1>2, <1>3, <2>1
  <2>3. i = Len(m.body) + 1 => Starts(w[1 + i])
    <3>1. i = Len(m.body) + 1 => 1 + Len(m.body) + 1 = 1 + i
      BY <1>2, <2>1
    <3> QED BY <1>3, <2>1, <3>1
  <2> QED BY <2>1, <2>2, <2>3
<1>5. l # "lost" => 0 + Len(Tail(w)) >= Len(m.body)
  BY <1>1, <1>2, <1>3
<1> QED BY <1>2, <1>4, <1>5 DEF Reading, m

\* While pieces are missing, the next frame is the next piece.
LEMMA AfterPiece ==
  ASSUME NEW w \in Seq(Frame), w # <<>>, NEW l, Connected(w, l), NEW m, NEW r \in Nat,
         NEW b \in Seq(Bytes), Reading(w, l, "body", m, r, b), r < Len(m.body)
  PROVE  /\ w[1].kind = "body"
         /\ Reading(Tail(w), l, "body", m, r + 1, Append(b, w[1].piece))
<1> DEFINE c == Append(b, w[1].piece)
<1>1. /\ Len(w) \in Nat /\ Len(w) >= 1 /\ Len(Tail(w)) = Len(w) - 1
      /\ \A i \in 1..Len(Tail(w)) : Tail(w)[i] = w[i + 1]
  BY Taken
<1>2. /\ m \in OnWire /\ m.body \in Seq(Bytes) /\ Len(m.body) \in Nat
      /\ Len(b) = r /\ \A j \in 1..r : b[j] = m.body[j]
  BY LenProperties DEF Reading, OnWire
<1>3. w[1] = Piece(m.body[r + 1])
  BY <1>1, <1>2 DEF Reading
<1>4. w[1].kind = "body" /\ w[1].piece = m.body[r + 1]
  BY <1>3 DEF Piece
<1>5. m.body[r + 1] \in Bytes
  BY <1>2, ElementOfSeq
<1>6. Len(c) = r + 1 /\ \A j \in 1..(r + 1) : c[j] = m.body[j]
  BY <1>2, <1>4, <1>5, AppendProperties
<1>7. ASSUME NEW i \in 1..Len(Tail(w))
      PROVE  /\ (r + 1) + i =< Len(m.body) => Tail(w)[i] = Piece(m.body[(r + 1) + i])
             /\ (r + 1) + i = Len(m.body) + 1 => Starts(Tail(w)[i])
  <2>1. i + 1 \in 1..Len(w) /\ (r + 1) + i = r + (i + 1) /\ Tail(w)[i] = w[i + 1]
    BY <1>1
  <2> QED BY <2>1 DEF Reading
<1>8. l # "lost" => (r + 1) + Len(Tail(w)) >= Len(m.body)
  BY <1>1, <1>2 DEF Reading
<1> HIDE DEF c
<1>9. Reading(Tail(w), l, "body", m, r + 1, c)
  BY <1>2, <1>6, <1>7, <1>8 DEF Reading
<1> QED BY <1>4, <1>9 DEF c

\* When none is missing, the body is the message's, and a method may follow.
LEMMA AfterBody ==
  ASSUME NEW w \in Seq(Frame), NEW l, NEW m, NEW r \in Nat,
         NEW b \in Seq(Bytes), Reading(w, l, "body", m, r, b), ~ (r < Len(m.body))
  PROVE  b = m.body /\ Reading(w, l, "method", m, r, b)
<1>1. /\ m \in OnWire /\ m.body \in Seq(Bytes) /\ Len(m.body) \in Nat
      /\ Len(b) = r /\ r = Len(m.body) /\ \A j \in 1..r : b[j] = m.body[j]
  BY LenProperties DEF Reading, OnWire
<1>2. b = m.body
  BY <1>1, SeqEqual
<1>3. Len(w) >= 1 => Starts(w[1])
  <2>1. Len(w) \in Nat
    BY LenProperties
  <2>2. Len(w) >= 1 => 1 \in 1..Len(w) /\ r + 1 = Len(m.body) + 1
    BY <1>1, <2>1
  <2> QED BY <2>2 DEF Reading
<1> QED BY <1>2, <1>3 DEF Reading

\* And at any time it is a prefix of the message's.
LEMMA BodyIsPrefix ==
  ASSUME NEW w, NEW l, NEW m, NEW r \in Nat, NEW b \in Seq(Bytes),
         Reading(w, l, "body", m, r, b)
  PROVE  IsPrefix(b, m.body)
<1>1. /\ m \in OnWire /\ m.body \in Seq(Bytes) /\ Len(m.body) \in Nat
      /\ Len(b) = r /\ r =< Len(m.body) /\ \A j \in 1..r : b[j] = m.body[j]
  BY LenProperties DEF Reading, OnWire
<1>2. /\ SubSeq(m.body, 1, Len(b)) \in Seq(Bytes) /\ Len(SubSeq(m.body, 1, Len(b))) = r
      /\ \A j \in 1..r : SubSeq(m.body, 1, Len(b))[j] = m.body[j]
  <2>1. \A j \in 1..r : m.body[j] \in Bytes
    BY <1>1, ElementOfSeq
  <2> QED BY <1>1, <2>1, SubSeqProperties
<1>3. b = SubSeq(m.body, 1, Len(b))
  BY <1>1, <1>2, SeqEqual
<1> QED BY <1>1, <1>3 DEF IsPrefix

----------------------------------------------------------------------------
(* The invariant is inductive                                              *)

\* The invariant holds when no message has been published yet.
LEMMA InitInv == Init => IInv
<1> SUFFICES ASSUME Init PROVE IInv
  OBVIOUS
<1>1. TypeOK
  BY EmptySeq DEF Init, TypeOK, Links, Points
<1>2. GenuineInv
  BY EmptySeq DEF Init, GenuineInv, Genuine
<1>3. StreamInv
  BY EmptySeq DEF Init, StreamInv, Connected, Formed, Whole, Reading
<1>4. DispatchInv
  BY EmptySeq DEF Init, DispatchInv
<1> QED BY <1>1, <1>2, <1>3, <1>4 DEF IInv

\* What the consumer of a has made of a message that it has read.
LEMMA DeserializedType ==
  ASSUME IInv, NEW a \in Apps, at[a] = "body"
  PROVE  Deserialized(a) \in Arrived
<1>1. msg[a] \in OnWire /\ body[a] \in Seq(Bytes)
  BY DEF IInv, StreamInv, Reading, TypeOK
<1> QED BY <1>1 DEF Deserialized, Arrived, OnWire

\* The types of the variables are kept.
LEMMA TypeStep == IInv /\ Next => TypeOK'
<1> SUFFICES ASSUME IInv, Next PROVE TypeOK'
  OBVIOUS
<1> USE DEF IInv
<1>1. ASSUME NEW m \in Messages, Publish(m) PROVE TypeOK'
  BY <1>1, PublishedType, AppendProperties DEF TypeOK, Publish, reading
<1>2. ASSUME NEW a \in Apps, Deliver(a) PROVE TypeOK'
  <2>1. Head(ready) \in OnWire /\ Tail(ready) \in Seq(OnWire)
    BY <1>2, HeadTailProperties DEF Deliver, TypeOK
  <2>2. wire[a] \o Frames(Head(ready)) \in Seq(Frame)
    BY <2>1, FramesProperties, ConcatProperties DEF TypeOK
  <2> QED BY <1>2, <2>1, <2>2 DEF Deliver, TypeOK, reading
<1>3. ASSUME NEW a \in Apps, OtherMethod(a) PROVE TypeOK'
  <2>1. <<[kind |-> "other"]>> \in Seq(Frame)
    BY DEF Frame
  <2> QED BY <1>3, <2>1 DEF OtherMethod, TypeOK, reading
<1>4. ASSUME NEW a \in Apps, CloseOk(a) PROVE TypeOK'
  <2>1. Append(wire[a], [kind |-> "close_ok"]) \in Seq(Frame)
    BY AppendProperties DEF TypeOK, Frame
  <2> QED BY <1>4, <2>1 DEF CloseOk, TypeOK, reading, Links
<1>5. ASSUME NEW a \in Apps, Lose(a) PROVE TypeOK'
  <2>1. PICK n \in 0..Len(wire[a]) : wire' = [wire EXCEPT ![a] = SubSeq(@, 1, n)]
    BY <1>5 DEF Lose
  <2>2. SubSeq(wire[a], 1, n) \in Seq(Frame)
    BY Cut DEF StreamInv, Connected, TypeOK
  <2> QED BY <1>5, <2>1, <2>2 DEF Lose, TypeOK, reading, Links
<1>6. ASSUME NEW a \in Apps, ReadMethod(a) PROVE TypeOK'
  <2>1. Tail(wire[a]) \in Seq(Frame)
    BY <1>6, HeadTailProperties DEF ReadMethod, Waits, TypeOK
  <2>2. at' \in [Apps -> Points]
    BY <1>6 DEF ReadMethod, Goto, TypeOK, Points
  <2> QED BY <1>6, <2>1, <2>2 DEF ReadMethod, Take, TypeOK, reading
<1>7. ASSUME NEW a \in Apps, ReadHeader(a) PROVE TypeOK'
  <2>1. Tail(wire[a]) \in Seq(Frame) /\ Head(wire[a]) \in Frame
    BY <1>7, HeadTailProperties DEF ReadHeader, Waits, TypeOK
  <2>2. Head(wire[a]).kind = "header" => Head(wire[a]).msg \in OnWire
    BY <2>1, HeaderHasMessage
  <2>3. wire' \in [Apps -> Seq(Frame)] /\ at' \in [Apps -> Points]
    BY <1>7, <2>1 DEF ReadHeader, Take, Goto, TypeOK, Points
  <2>4. CASE Head(wire[a]).kind # "header"
    BY <1>7, <2>3, <2>4 DEF ReadHeader, TypeOK, reading
  <2>5. CASE Head(wire[a]).kind = "header"
    <3>1. /\ msg' = [msg EXCEPT ![a] = Head(wire[a]).msg]
          /\ received' = [received EXCEPT ![a] = 0]
          /\ body' = [body EXCEPT ![a] = <<>>]
          /\ UNCHANGED <<sent, ready, link, dispatched>>
      BY <1>7, <2>5 DEF ReadHeader
    <3> QED BY <2>2, <2>3, <2>5, <3>1, EmptySeq DEF TypeOK
  <2> QED BY <2>4, <2>5
<1>8. ASSUME NEW a \in Apps, ReadBody(a) PROVE TypeOK'
  <2>1. Tail(wire[a]) \in Seq(Frame) /\ Head(wire[a]) \in Frame
    BY <1>8, HeadTailProperties DEF ReadBody, Waits, TypeOK
  <2>2. Head(wire[a]).kind = "body" => Head(wire[a]).piece \in Bytes
    BY <2>1 DEF Frame
  <2>3. Head(wire[a]).kind = "body" => Append(body[a], Head(wire[a]).piece) \in Seq(Bytes)
    BY <2>2, AppendProperties DEF TypeOK
  <2>4. wire' \in [Apps -> Seq(Frame)]
    BY <1>8, <2>1 DEF ReadBody, Take, TypeOK
  <2>5. CASE Head(wire[a]).kind # "body"
    BY <1>8, <2>4, <2>5 DEF ReadBody, Goto, TypeOK, reading, Points
  <2>6. CASE Head(wire[a]).kind = "body"
    <3>1. /\ received' = [received EXCEPT ![a] = @ + 1]
          /\ body' = [body EXCEPT ![a] = Append(@, Head(wire[a]).piece)]
          /\ UNCHANGED <<sent, ready, link, at, msg, dispatched>>
      BY <1>8, <2>6 DEF ReadBody
    <3> QED BY <2>3, <2>4, <2>6, <3>1 DEF TypeOK
  <2> QED BY <2>5, <2>6
<1>9. ASSUME NEW a \in Apps, Process(a) PROVE TypeOK'
  <2>1. Append(dispatched[a], Deserialized(a)) \in Seq(Arrived)
    BY <1>9, DeserializedType, AppendProperties DEF Process, TypeOK
  <2> QED BY <1>9, <2>1 DEF Process, Goto, TypeOK, reading, Points
<1>10. ASSUME NEW a \in Apps, WaitFails(a) PROVE TypeOK'
  BY <1>10 DEF WaitFails, Goto, TypeOK, reading, Points
<1> QED BY <1>1, <1>2, <1>3, <1>4, <1>5, <1>6, <1>7, <1>8, <1>9, <1>10 DEF Next

\* Every connection stays well formed, and every consumer in step with it.
LEMMA StreamStep == IInv /\ Next => StreamInv'
<1> SUFFICES ASSUME IInv, Next,
                    NEW c \in Apps
             PROVE  /\ Connected(wire'[c], link'[c])
                    /\ Reading(wire'[c], link'[c], at'[c], msg'[c], received'[c], body'[c])
  BY DEF StreamInv
<1> USE DEF IInv
<1>c. /\ wire[c] \in Seq(Frame) /\ received[c] \in Nat /\ body[c] \in Seq(Bytes)
      /\ Connected(wire[c], link[c])
      /\ Reading(wire[c], link[c], at[c], msg[c], received[c], body[c])
  BY DEF TypeOK, StreamInv
<1> DEFINE Same == /\ wire'[c] = wire[c] /\ link'[c] = link[c] /\ at'[c] = at[c]
                   /\ msg'[c] = msg[c] /\ received'[c] = received[c] /\ body'[c] = body[c]
           Goal == /\ Connected(wire'[c], link'[c])
                   /\ Reading(wire'[c], link'[c], at'[c], msg'[c], received'[c], body'[c])
<1>s. Same => Goal
  BY <1>c
<1>1. ASSUME NEW m \in Messages, Publish(m) PROVE Goal
  BY <1>1, <1>s DEF Publish, reading
\* What the broker puts on the connection of c.
<1>a. ASSUME NEW v \in Seq(Frame), Formed(v), Whole(v), Len(v) >= 1, Starts(v[1]),
             link[c] # "lost", wire'[c] = wire[c] \o v, at'[c] = at[c],
             msg'[c] = msg[c], received'[c] = received[c], body'[c] = body[c]
      PROVE  Goal
  <2>1. Formed(wire[c]) /\ Whole(wire[c])
    BY <1>c, <1>a DEF Connected
  <2>2. Formed(wire'[c]) /\ Whole(wire'[c])
    BY <1>c, <1>a, <2>1, Grown
  <2>3. Reading(wire'[c], link'[c], at'[c], msg'[c], received'[c], body'[c])
    BY <1>c, <1>a, GrownReading
  <2> QED BY <2>2, <2>3 DEF Connected
<1>2. ASSUME NEW a \in Apps, Deliver(a) PROVE Goal
  <2>1. CASE a # c
    BY <1>2, <1>s, <2>1 DEF Deliver, reading, TypeOK
  <2>2. CASE a = c
    <3>1. Head(ready) \in OnWire
      BY <1>2, HeadTailProperties DEF Deliver, TypeOK
    <3>2. /\ Frames(Head(ready)) \in Seq(Frame)
          /\ Formed(Frames(Head(ready))) /\ Whole(Frames(Head(ready)))
          /\ Len(Frames(Head(ready))) >= 1 /\ Starts(Frames(Head(ready))[1])
      BY <3>1, FramesProperties, FramesFormed
    <3>3. /\ link[c] # "lost" /\ wire'[c] = wire[c] \o Frames(Head(ready)) /\ at'[c] = at[c]
          /\ msg'[c] = msg[c] /\ received'[c] = received[c] /\ body'[c] = body[c]
      BY <1>2, <2>2 DEF Deliver, reading, TypeOK
    <3> QED BY <1>a, <3>2, <3>3
  <2> QED BY <2>1, <2>2
<1>3. ASSUME NEW a \in Apps, OtherMethod(a) PROVE Goal
  <2>1. CASE a # c
    BY <1>3, <1>s, <2>1 DEF OtherMethod, reading, TypeOK
  <2>2. CASE a = c
    <3> DEFINE v == <<[kind |-> "other"]>>
    <3>1. v \in Seq(Frame) /\ Formed(v) /\ Whole(v) /\ Len(v) >= 1 /\ Starts(v[1])
      <4>1. [kind |-> "other"] \in Frame /\ [kind |-> "other"].kind \in {"other", "close_ok"}
        BY DEF Frame
      <4> QED BY <4>1, MethodFormed
    <3>2. wire'[c] = v /\ wire[c] = <<>>
      BY <1>3, <2>2 DEF OtherMethod, TypeOK
    <3>3. wire'[c] = wire[c] \o v
      BY <3>1, <3>2, ConcatEmptySeq
    <3>4. /\ link[c] # "lost" /\ at'[c] = at[c]
          /\ msg'[c] = msg[c] /\ received'[c] = received[c] /\ body'[c] = body[c]
      BY <1>3, <2>2 DEF OtherMethod, reading, TypeOK
    <3> HIDE DEF v
    <3> QED BY <1>a, <3>1, <3>3, <3>4
  <2> QED BY <2>1, <2>2
<1>4. ASSUME NEW a \in Apps, CloseOk(a) PROVE Goal
  <2>1. CASE a # c
    BY <1>4, <1>s, <2>1 DEF CloseOk, reading, TypeOK
  <2>2. CASE a = c
    <3> DEFINE f == [kind |-> "close_ok"]
    <3>1. f \in Frame /\ f.kind \in {"other", "close_ok"}
      BY DEF Frame
    <3>2. /\ <<f>> \in Seq(Frame) /\ Formed(<<f>>) /\ Whole(<<f>>)
          /\ Len(<<f>>) >= 1 /\ Starts(<<f>>[1])
      BY <3>1, MethodFormed
    <3>3. wire'[c] = Append(wire[c], f)
      BY <1>4, <2>2 DEF CloseOk, TypeOK
    <3> HIDE DEF f
    <3>4. wire'[c] = wire[c] \o <<f>>
      BY <1>c, <3>1, <3>3, AppendIsConcat
    <3>5. /\ link[c] # "lost" /\ at'[c] = at[c]
          /\ msg'[c] = msg[c] /\ received'[c] = received[c] /\ body'[c] = body[c]
      BY <1>4, <2>2 DEF CloseOk, reading, TypeOK
    <3> QED BY <1>a, <3>2, <3>4, <3>5
  <2> QED BY <2>1, <2>2
<1>5. ASSUME NEW a \in Apps, Lose(a) PROVE Goal
  <2>1. CASE a # c
    BY <1>5, <1>s, <2>1 DEF Lose, reading, TypeOK
  <2>2. CASE a = c
    <3>1. PICK n \in 0..Len(wire[c]) : wire'[c] = SubSeq(wire[c], 1, n)
      BY <1>5, <2>2 DEF Lose, TypeOK
    <3>2. /\ link'[c] = "lost" /\ at'[c] = at[c]
          /\ msg'[c] = msg[c] /\ received'[c] = received[c] /\ body'[c] = body[c]
      BY <1>5, <2>2 DEF Lose, reading, TypeOK
    <3>3. Formed(wire[c])
      BY <1>c DEF Connected
    <3> QED BY <1>c, <3>1, <3>2, <3>3, Cut
  <2> QED BY <2>1, <2>2
<1>6. ASSUME NEW a \in Apps, ReadMethod(a) PROVE Goal
  <2>1. CASE a # c
    <3>1. at'[c] = at[c]
      BY <1>6, <2>1 DEF ReadMethod, Goto, TypeOK
    <3> QED BY <1>6, <1>s, <2>1, <3>1 DEF ReadMethod, Take, reading, TypeOK
  <2>2. CASE a = c
    <3>1. /\ wire[c] # <<>> /\ at[c] = "method"
          /\ wire'[c] = Tail(wire[c]) /\ link'[c] = link[c]
          /\ msg'[c] = msg[c] /\ received'[c] = received[c] /\ body'[c] = body[c]
      BY <1>6, <2>2 DEF ReadMethod, Waits, Take, reading, TypeOK
    <3>2. /\ Connected(wire'[c], link'[c]) /\ Head(wire[c]) = wire[c][1]
          /\ Len(wire[c]) >= 1
      BY <1>c, <3>1, Taken
    <3>3. wire[c][1].kind \in {"deliver", "other", "close_ok"}
      BY <1>c, <3>1, <3>2 DEF Reading, Starts
    <3>4. CASE wire[c][1].kind = "deliver"
      <4>1. at'[c] = "header"
        BY <1>6, <2>2, <3>2, <3>4 DEF ReadMethod, Goto, TypeOK
      <4> QED BY <1>c, <3>1, <3>2, <3>4, <4>1, AfterDelivery
    <3>5. CASE wire[c][1].kind = "close_ok"
      <4>1. at'[c] = "gone"
        BY <1>6, <2>2, <3>2, <3>5 DEF ReadMethod, Goto, TypeOK
      <4> QED BY <3>2, <4>1 DEF Reading
    <3>6. CASE wire[c][1].kind = "other"
      <4>1. at'[c] = "method"
        BY <1>6, <2>2, <3>1, <3>2, <3>6 DEF ReadMethod, Goto, TypeOK
      <4> QED BY <1>c, <3>1, <3>2, <3>6, <4>1, AfterMethod
    <3> QED BY <3>3, <3>4, <3>5, <3>6
  <2> QED BY <2>1, <2>2
<1>7. ASSUME NEW a \in Apps, ReadHeader(a) PROVE Goal
  <2>1. CASE a # c
    BY <1>7, <1>s, <2>1 DEF ReadHeader, Take, Goto, reading, TypeOK
  <2>2. CASE a = c
    <3>1. /\ wire[c] # <<>> /\ at[c] = "header"
          /\ wire'[c] = Tail(wire[c]) /\ link'[c] = link[c]
      BY <1>7, <2>2 DEF ReadHeader, Waits, Take, TypeOK
    <3>2. /\ Connected(wire'[c], link'[c]) /\ Head(wire[c]) = wire[c][1]
          /\ Len(wire[c]) >= 1
      BY <1>c, <3>1, Taken
    <3>3. wire[c][1].kind = "header"
      BY <1>c, <3>1, <3>2 DEF Reading
    <3>4. /\ at'[c] = "body" /\ msg'[c] = wire[c][1].msg
          /\ received'[c] = 0 /\ body'[c] = <<>>
      BY <1>7, <2>2, <3>2, <3>3 DEF ReadHeader, Goto, TypeOK
    <3> QED BY <1>c, <3>1, <3>2, <3>3, <3>4, AfterHeader
  <2> QED BY <2>1, <2>2
<1>8. ASSUME NEW a \in Apps, ReadBody(a) PROVE Goal
  <2>1. CASE a # c
    BY <1>8, <1>s, <2>1 DEF ReadBody, Take, Goto, reading, TypeOK
  <2>2. CASE a = c
    <3>1. /\ wire[c] # <<>> /\ at[c] = "body" /\ received[c] < Len(msg[c].body)
          /\ wire'[c] = Tail(wire[c]) /\ link'[c] = link[c]
      BY <1>8, <2>2 DEF ReadBody, Waits, MoreBody, BodyTarget, Take, TypeOK
    <3>2. Connected(wire'[c], link'[c]) /\ Head(wire[c]) = wire[c][1]
      BY <1>c, <3>1, Taken
    <3>3. /\ wire[c][1].kind = "body"
          /\ Reading(Tail(wire[c]), link[c], "body", msg[c], received[c] + 1,
                     Append(body[c], wire[c][1].piece))
      BY <1>c, <3>1, AfterPiece
    <3>4. /\ at'[c] = "body" /\ msg'[c] = msg[c] /\ received'[c] = received[c] + 1
          /\ body'[c] = Append(body[c], wire[c][1].piece)
      BY <1>8, <2>2, <3>1, <3>2, <3>3 DEF ReadBody, TypeOK
    <3> QED BY <3>1, <3>2, <3>3, <3>4
  <2> QED BY <2>1, <2>2
<1>9. ASSUME NEW a \in Apps, Process(a) PROVE Goal
  <2>1. CASE a # c
    BY <1>9, <1>s, <2>1 DEF Process, Goto, reading, TypeOK
  <2>2. CASE a = c
    <3>1. /\ at[c] = "body" /\ wire'[c] = wire[c] /\ link'[c] = link[c]
          /\ msg'[c] = msg[c] /\ received'[c] = received[c] /\ body'[c] = body[c]
      BY <1>9, <2>2 DEF Process, reading, TypeOK
    <3>2. CASE MoreBody(c)
      <4>1. at'[c] = "gone"
        BY <1>9, <2>2, <3>2 DEF Process, Goto, TypeOK
      <4> QED BY <1>c, <3>1, <4>1 DEF Reading
    <3>3. CASE ~ MoreBody(c)
      <4>1. at'[c] = "method" /\ ~ (received[c] < Len(msg[c].body))
        BY <1>9, <2>2, <3>3 DEF Process, Goto, TypeOK, MoreBody, BodyTarget
      <4> QED BY <1>c, <3>1, <4>1, AfterBody
    <3> QED BY <3>2, <3>3
  <2> QED BY <2>1, <2>2
<1>10. ASSUME NEW a \in Apps, WaitFails(a) PROVE Goal
  <2>1. CASE a # c
    BY <1>10, <1>s, <2>1 DEF WaitFails, Goto, reading, TypeOK
  <2>2. CASE a = c
    <3>1. /\ at'[c] = "gone" /\ wire'[c] = wire[c] /\ link'[c] = link[c]
      BY <1>10, <2>2 DEF WaitFails, Goto, TypeOK
    <3> QED BY <1>c, <3>1 DEF Reading
  <2> QED BY <2>1, <2>2
<1> QED BY <1>1, <1>2, <1>3, <1>4, <1>5, <1>6, <1>7, <1>8, <1>9, <1>10 DEF Next

\* Messages come from publish only.
LEMMA GenuineStep == IInv /\ Next => GenuineInv'
<1> SUFFICES ASSUME IInv, Next
             PROVE  GenuineInv'
  OBVIOUS
<1> USE DEF IInv
<1>1. InTransit \subseteq InTransit'
  <2>1. sent \subseteq sent'
    BY DEF Next, Publish, Deliver, OtherMethod, CloseOk, Lose, ReadMethod, ReadHeader,
           ReadBody, Process, WaitFails
  <2> QED BY <2>1 DEF InTransit
<1>2. \A i \in 1..Len(ready') : ready'[i] \in InTransit'
  <2>1. ASSUME NEW m \in Messages, Publish(m)
        PROVE  \A i \in 1..Len(ready') : ready'[i] \in InTransit'
    <3>1. Published(m) \in InTransit' /\ ready' = Append(ready, Published(m))
      BY <2>1 DEF Publish, InTransit
    <3>2. /\ Len(ready) \in Nat /\ Len(ready') = Len(ready) + 1
          /\ \A i \in 1..Len(ready) : ready'[i] = ready[i]
          /\ ready'[Len(ready) + 1] = Published(m)
      BY <3>1, PublishedType, AppendProperties, LenProperties DEF TypeOK
    <3> QED BY <1>1, <3>1, <3>2 DEF GenuineInv
  <2>2. ASSUME NEW a \in Apps, Deliver(a)
        PROVE  \A i \in 1..Len(ready') : ready'[i] \in InTransit'
    <3>1. ready \in Seq(OnWire) /\ ready # <<>> /\ ready' = Tail(ready)
      BY <2>2 DEF Deliver, TypeOK
    <3>2. /\ Len(ready) \in Nat /\ Len(ready') = Len(ready) - 1
          /\ \A i \in 1..Len(ready') : ready'[i] = ready[i + 1]
      BY <3>1, HeadTailProperties, LenProperties
    <3> QED BY <1>1, <3>2 DEF GenuineInv
  <2>3. ready' = ready => \A i \in 1..Len(ready') : ready'[i] \in InTransit'
    BY <1>1 DEF GenuineInv
  <2> QED
    BY <2>1, <2>2, <2>3 DEF Next, OtherMethod, CloseOk, Lose, ReadMethod, ReadHeader,
                            ReadBody, Process, WaitFails
<1>3. ASSUME NEW c \in Apps,
             \A i \in 1..Len(wire'[c]) : wire'[c][i].kind = "header" =>
               \/ wire'[c][i].msg \in InTransit'
               \/ \E j \in 1..Len(wire[c]) : wire'[c][i] = wire[c][j]
      PROVE  \A i \in 1..Len(wire'[c]) :
               wire'[c][i].kind = "header" => wire'[c][i].msg \in InTransit'
  BY <1>1, <1>3 DEF GenuineInv, Genuine
<1>4. ASSUME NEW c \in Apps
      PROVE  \A i \in 1..Len(wire'[c]) : wire'[c][i].kind = "header" =>
               \/ wire'[c][i].msg \in InTransit'
               \/ \E j \in 1..Len(wire[c]) : wire'[c][i] = wire[c][j]
  <2> DEFINE Goal == \A i \in 1..Len(wire'[c]) : wire'[c][i].kind = "header" =>
                       \/ wire'[c][i].msg \in InTransit'
                       \/ \E j \in 1..Len(wire[c]) : wire'[c][i] = wire[c][j]
  <2>c. wire[c] \in Seq(Frame) /\ Len(wire[c]) \in Nat /\ Connected(wire[c], link[c])
    BY LenProperties DEF TypeOK, StreamInv
  <2>1. wire'[c] = wire[c] => Goal
    OBVIOUS
  <2>2. wire[c] # <<>> /\ wire'[c] = Tail(wire[c]) => Goal
    <3> SUFFICES ASSUME wire[c] # <<>>, wire'[c] = Tail(wire[c]) PROVE Goal
      OBVIOUS
    <3>1. /\ Len(wire'[c]) = Len(wire[c]) - 1
          /\ \A i \in 1..Len(wire'[c]) : wire'[c][i] = wire[c][i + 1]
      BY <2>c, Taken
    <3>2. \A i \in 1..Len(wire'[c]) : i + 1 \in 1..Len(wire[c])
      BY <2>c, <3>1
    <3> QED BY <3>1, <3>2
  <2>3. ASSUME NEW v \in Seq(Frame), wire'[c] = wire[c] \o v,
               \A i \in 1..Len(v) : v[i].kind = "header" => v[i].msg \in InTransit'
        PROVE  Goal
    <3>1. /\ Len(v) \in Nat /\ Len(wire'[c]) = Len(wire[c]) + Len(v)
          /\ \A i \in 1..Len(wire[c]) + Len(v) :
               wire'[c][i] = IF i =< Len(wire[c]) THEN wire[c][i] ELSE v[i - Len(wire[c])]
      BY <2>c, <2>3, ConcatProperties, LenProperties
    <3>2. ASSUME NEW i \in 1..Len(wire'[c]), i \notin 1..Len(wire[c])
          PROVE  i - Len(wire[c]) \in 1..Len(v) /\ wire'[c][i] = v[i - Len(wire[c])]
      <4> HIDE DEF Goal
      <4>1. i \in 1..Len(wire[c]) + Len(v) /\ i \in Nat
        BY <2>c, <3>1
      <4>2. ~ (i =< Len(wire[c]))
        BY <2>c, <3>2, <4>1
      <4>3. wire'[c][i] = v[i - Len(wire[c])]
        BY <3>1, <4>1, <4>2
      <4> QED BY <2>c, <3>1, <4>1, <4>2, <4>3
    <3>3. \A i \in 1..Len(wire'[c]) : i \in 1..Len(wire[c]) => wire'[c][i] = wire[c][i]
      BY <2>c, <3>1
    <3> QED BY <2>3, <3>2, <3>3
  <2>4. ASSUME NEW a \in Apps, Deliver(a) PROVE Goal
    <3>1. CASE a # c
      BY <2>1, <2>4, <3>1 DEF Deliver, TypeOK
    <3>2. CASE a = c
      <4> DEFINE w == Head(ready)
      <4>1. w \in OnWire /\ w \in InTransit'
        <5>1. ready \in Seq(OnWire) /\ ready # <<>>
          BY <2>4 DEF Deliver, TypeOK
        <5>2. w = ready[1] /\ w \in OnWire /\ 1 \in 1..Len(ready)
          BY <5>1, HeadTailProperties, EmptySeq
        <5> QED BY <1>1, <5>2 DEF GenuineInv
      <4> HIDE DEF w
      <4>2. /\ Frames(w) \in Seq(Frame)
            /\ Len(Frames(w)) = Len(w.body) + 2
            /\ Len(w.body) \in Nat
            /\ Frames(w)[1] = [kind |-> "deliver"]
            /\ Frames(w)[2] = [kind |-> "header", msg |-> w]
            /\ \A j \in 1..Len(w.body) : Frames(w)[j + 2] = Piece(w.body[j])
        BY <4>1, FramesProperties
      <4>3. ASSUME NEW i \in 1..Len(Frames(w)), Frames(w)[i].kind = "header"
            PROVE  Frames(w)[i].msg \in InTransit'
        <5>1. CASE i = 2
          BY <4>1, <4>2, <5>1
        <5>2. CASE i = 1
          BY <4>2, <4>3, <5>2
        <5>3. CASE i # 1 /\ i # 2
          <6>1. i - 2 \in 1..Len(w.body) /\ (i - 2) + 2 = i
            BY <4>2, <5>3
          <6>2. Frames(w)[i] = Piece(w.body[i - 2])
            BY <4>2, <6>1
          <6> QED BY <4>3, <6>2 DEF Piece
        <5> QED BY <5>1, <5>2, <5>3
      <4>4. wire'[c] = wire[c] \o Frames(w)
        BY <2>4, <3>2 DEF Deliver, TypeOK, w
      <4> QED BY <2>3, <4>2, <4>3, <4>4
    <3> QED BY <3>1, <3>2
  <2>5. ASSUME NEW a \in Apps, OtherMethod(a) PROVE Goal
    <3>1. CASE a # c
      BY <2>1, <2>5, <3>1 DEF OtherMethod, TypeOK
    <3>2. CASE a = c
      <4>1. wire'[c] = <<[kind |-> "other"]>>
        BY <2>5, <3>2 DEF OtherMethod, TypeOK
      <4> QED BY <4>1
    <3> QED BY <3>1, <3>2
  <2>6. ASSUME NEW a \in Apps, CloseOk(a) PROVE Goal
    <3>1. CASE a # c
      BY <2>1, <2>6, <3>1 DEF CloseOk, TypeOK
    <3>2. CASE a = c
      <4>1. wire'[c] = Append(wire[c], [kind |-> "close_ok"]) /\ [kind |-> "close_ok"] \in Frame
        BY <2>6, <3>2 DEF CloseOk, TypeOK, Frame
      <4>2. /\ Len(wire'[c]) = Len(wire[c]) + 1
            /\ \A i \in 1..Len(wire[c]) : wire'[c][i] = wire[c][i]
            /\ wire'[c][Len(wire[c]) + 1] = [kind |-> "close_ok"]
        BY <2>c, <4>1, AppendProperties
      <4>3. ASSUME NEW i \in 1..Len(wire'[c]), wire'[c][i].kind = "header"
            PROVE  i \in 1..Len(wire[c])
        BY <2>c, <4>2, <4>3
      <4> QED BY <4>2, <4>3
    <3> QED BY <3>1, <3>2
  <2>7. ASSUME NEW a \in Apps, Lose(a) PROVE Goal
    <3>1. CASE a # c
      BY <2>1, <2>7, <3>1 DEF Lose, TypeOK
    <3>2. CASE a = c
      <4>1. PICK n \in 0..Len(wire[c]) : wire'[c] = SubSeq(wire[c], 1, n)
        BY <2>7, <3>2 DEF Lose, TypeOK
      <4>2. \A i \in 1..n : wire[c][i] \in Frame
        BY <2>c, ElementOfSeq
      <4>3. /\ Len(wire'[c]) = IF 1 <= n THEN n - 1 + 1 ELSE 0
            /\ \A i \in 1..(n - 1 + 1) : wire'[c][i] = wire[c][1 + i - 1]
        BY <2>c, <4>1, <4>2, SubSeqProperties
      <4>4. \A i \in 1..Len(wire'[c]) : i \in 1..Len(wire[c]) /\ wire'[c][i] = wire[c][i]
        BY <2>c, <4>3
      <4> QED BY <4>4
    <3> QED BY <3>1, <3>2
  <2>8. ASSUME NEW a \in Apps, ReadMethod(a) \/ ReadHeader(a) \/ ReadBody(a) PROVE Goal
    <3>1. wire[a] # <<>> /\ wire' = [wire EXCEPT ![a] = Tail(@)]
      BY <2>8 DEF ReadMethod, ReadHeader, ReadBody, Waits, Take
    <3>2. wire'[c] = wire[c] \/ (wire[c] # <<>> /\ wire'[c] = Tail(wire[c]))
      BY <3>1 DEF TypeOK
    <3> HIDE DEF Goal
    <3> QED BY <2>1, <2>2, <3>2
  <2> HIDE DEF Goal
  <2>9. Goal
    BY <2>1, <2>4, <2>5, <2>6, <2>7, <2>8 DEF Next, Publish, Process, WaitFails
  <2> QED BY <2>9 DEF Goal
<1>5. ASSUME NEW c \in Apps, at'[c] = "body" PROVE msg'[c] \in InTransit'
  <2>1. CASE msg'[c] = msg[c] /\ at[c] = "body"
    BY <1>1, <2>1 DEF GenuineInv
  <2>2. ASSUME NEW a \in Apps, ReadHeader(a), a = c PROVE msg'[c] \in InTransit'
    <3>1. wire[c] \in Seq(Frame) /\ wire[c] # <<>> /\ Connected(wire[c], link[c])
      BY <2>2 DEF ReadHeader, Waits, TypeOK, StreamInv
    <3>2. Head(wire[c]) = wire[c][1] /\ 1 \in 1..Len(wire[c])
      BY <3>1, Taken
    <3>3. Head(wire[c]).kind = "header" /\ msg'[c] = Head(wire[c]).msg
      BY <1>5, <2>2 DEF ReadHeader, Goto, TypeOK
    <3> QED BY <1>1, <3>2, <3>3 DEF GenuineInv, Genuine
  <2>3. ASSUME NEW a \in Apps, ReadHeader(a), a # c
        PROVE  msg'[c] = msg[c] /\ at[c] = "body"
    BY <1>5, <2>3 DEF ReadHeader, Goto, TypeOK, reading
  <2>4. ASSUME NEW a \in Apps, ReadMethod(a) \/ ReadBody(a) \/ Process(a) \/ WaitFails(a)
        PROVE  msg'[c] = msg[c] /\ at[c] = "body"
    <3>1. msg' = msg
      BY <2>4 DEF ReadMethod, ReadBody, Process, WaitFails, reading
    <3>2. at' = at \/ \E p \in {"header", "gone", "aborted", "method"} :
                        at' = [at EXCEPT ![a] = p]
      BY <2>4 DEF ReadMethod, ReadBody, Process, WaitFails, Goto
    <3> QED BY <1>5, <3>1, <3>2 DEF TypeOK
  <2>5. ASSUME at' = at, msg' = msg PROVE msg'[c] = msg[c] /\ at[c] = "body"
    BY <1>5, <2>5
  <2> QED
    BY <2>1, <2>2, <2>3, <2>4, <2>5
    DEF Next, Publish, Deliver, OtherMethod, CloseOk, Lose, reading
<1> QED BY <1>2, <1>3, <1>4, <1>5 DEF GenuineInv, Genuine

\* What the consumer of a dispatches is a message that was sent, for a, with the
\* whole of its body unless the connection is lost.
LEMMA DispatchStep == IInv /\ Next => DispatchInv'
<1> SUFFICES ASSUME IInv, Next,
                    NEW c \in Apps, NEW i \in 1..Len(dispatched'[c])
             PROVE  \E m \in sent' : Carries(c, i, m)'
  BY DEF DispatchInv
<1> USE DEF IInv
<1>1. sent \subseteq sent'
  BY DEF Next, Publish, Deliver, OtherMethod, CloseOk, Lose, ReadMethod, ReadHeader,
         ReadBody, Process, WaitFails
<1>2. CASE ~ Process(c)
  <2>1. dispatched'[c] = dispatched[c]
    BY <1>2 DEF Next, Publish, Deliver, OtherMethod, CloseOk, Lose, ReadMethod, ReadHeader,
                ReadBody, Process, WaitFails, TypeOK
  <2>2. link[c] = "lost" => link'[c] = "lost"
    BY DEF Next, Publish, Deliver, OtherMethod, CloseOk, Lose, ReadMethod, ReadHeader,
           ReadBody, Process, WaitFails, TypeOK
  <2>3. at[c] = "gone" => at'[c] = "gone"
    <3>1. ASSUME NEW a \in Apps, Consume(a) PROVE at[a] # "gone" /\ \A b \in Apps \ {a} : at'[b] = at[b]
      BY <3>1 DEF Consume, ReadMethod, ReadHeader, ReadBody, Process, WaitFails, Waits,
                  Goto, TypeOK
    <3>2. at' = at \/ \E a \in Apps : Consume(a)
      BY DEF Next, Publish, Deliver, OtherMethod, CloseOk, Lose, Consume
    <3> QED BY <3>1, <3>2
  <2>4. PICK m \in sent : Carries(c, i, m)
    BY <2>1 DEF DispatchInv
  <2> QED BY <1>1, <2>1, <2>2, <2>3, <2>4 DEF Carries
<1>3. CASE Process(c)
  <2>1. /\ at[c] = "body" /\ sent' = sent /\ link' = link /\ msg[c] \in InTransit
        /\ received[c] \in Nat /\ body[c] \in Seq(Bytes) /\ wire[c] \in Seq(Frame)
        /\ Reading(wire[c], link[c], "body", msg[c], received[c], body[c])
    BY <1>3 DEF Process, GenuineInv, StreamInv, TypeOK
  <2>2. ASSUME NEW j \in 1..Len(dispatched[c]), dispatched'[c][j] = dispatched[c][j]
        PROVE  \E m \in sent' : Carries(c, j, m)'
    <3>1. PICK m \in sent : Carries(c, j, m)
      BY DEF DispatchInv
    <3>2. dispatched[c][j].body = SentBody(m)
      BY <2>1, <3>1 DEF Carries
    <3> QED BY <1>1, <2>2, <3>1, <3>2 DEF Carries
  <2>3. CASE ~ Accepts(c, Deserialized(c))
    <3>1. dispatched' = dispatched
      BY <1>3, <2>3 DEF Process
    <3> QED BY <2>2, <3>1
  <2>4. CASE Accepts(c, Deserialized(c))
    <3> DEFINE d == Deserialized(c)
    <3>1. dispatched'[c] = Append(dispatched[c], d) /\ d \in Arrived
      BY <1>3, <2>1, <2>4, DeserializedType DEF Process, TypeOK
    <3>2. /\ Len(dispatched[c]) \in Nat /\ Len(dispatched'[c]) = Len(dispatched[c]) + 1
          /\ \A j \in 1..Len(dispatched[c]) : dispatched'[c][j] = dispatched[c][j]
          /\ dispatched'[c][Len(dispatched[c]) + 1] = d
      BY <3>1, AppendProperties, LenProperties DEF TypeOK
    <3>3. CASE i \in 1..Len(dispatched[c])
      BY <2>2, <3>2, <3>3
    <3>4. CASE i = Len(dispatched[c]) + 1
      <4>1. PICK m \in sent : msg[c] = Published(m)
        BY <2>1 DEF InTransit
      <4>2. m \in Messages
        BY DEF TypeOK
      <4>3. /\ msg[c].id = m.id /\ msg[c].app_id = m.from /\ msg[c].reply_to = m.reply_to
            /\ msg[c].body = SentBody(m)
        BY <4>1, <4>2, PublishedContent
      <4>4. d.id = m.id /\ d.reply_to = m.reply_to /\ d.body = body[c]
            /\ d.app_id = IF m.from = None THEN c ELSE m.from
        BY <4>3 DEF Deserialized
      <4>5. IsFor(m, c)
        BY <2>4, <4>4 DEF Accepts, IsFor
      <4>6. CASE MoreBody(c)
        <5>1. /\ link'[c] = "lost" /\ at'[c] = "gone"
          BY <1>3, <2>1, <4>6 DEF Process, Fails, Goto, TypeOK
        <5>2. IsPrefix(body[c], SentBody(m))
          BY <2>1, <4>3, BodyIsPrefix
        <5> QED BY <1>1, <3>2, <3>4, <4>4, <4>5, <5>1, <5>2 DEF Carries
      <4>7. CASE ~ MoreBody(c)
        <5>1. body[c] = SentBody(m)
          BY <2>1, <4>3, <4>7, AfterBody DEF MoreBody, BodyTarget
        <5> QED BY <1>1, <3>2, <3>4, <4>4, <4>5, <5>1 DEF Carries
      <4> QED BY <4>6, <4>7
    <3> QED BY <3>2, <3>3, <3>4
  <2> QED BY <2>3, <2>4
<1> QED BY <1>2, <1>3

----------------------------------------------------------------------------
(* The theorems                                                            *)

\* Every step of the system keeps the invariant, and so does standing still.
LEMMA Inductive == IInv /\ [Next]_vars => IInv'
<1> SUFFICES ASSUME IInv, [Next]_vars
             PROVE  IInv'
  OBVIOUS
<1>1. CASE Next
  BY <1>1, TypeStep, GenuineStep, StreamStep, DispatchStep DEF IInv
<1>2. CASE UNCHANGED vars
  <2>1. TypeOK'
    BY <1>2 DEF IInv, TypeOK, vars
  <2>2. GenuineInv'
    BY <1>2 DEF IInv, GenuineInv, Genuine, InTransit, vars
  <2>3. StreamInv'
    BY <1>2 DEF IInv, StreamInv, vars
  <2>4. DispatchInv'
    BY <1>2 DEF IInv, DispatchInv, Carries, vars
  <2> QED BY <2>1, <2>2, <2>3, <2>4 DEF IInv
<1> QED BY <1>1, <1>2

\* The invariant holds in every state of every behaviour.
THEOREM Invariance == Spec => []IInv
<1>1. Init => IInv
  BY InitInv
<1>2. IInv /\ [Next]_vars => IInv'
  BY Inductive
<1> QED BY <1>1, <1>2, PTL DEF Spec

\* The variables keep their types: what serialize makes of a message and what
\* deserialize makes of its frames are messages, and only messages with a sender
\* are dispatched.
THEOREM TypeCorrect == Spec => []TypeOK
<1>1. IInv => TypeOK
  BY DEF IInv
<1> QED BY <1>1, Invariance, PTL

\* The consumer's loops over the frames of a message stay in step with the broker
\* for bodies of every length: consume aborts on no frame, and never takes a frame
\* of one message for one of another.
THEOREM StaysInStep == Spec => []InStep
<1>1. IInv => InStep
  <2> SUFFICES ASSUME IInv, NEW a \in Apps
               PROVE  /\ at[a] # "aborted"
                      /\ at[a] = "method" /\ wire[a] # <<>> =>
                           Head(wire[a]).kind \in {"deliver", "other", "close_ok"}
                      /\ at[a] = "header" /\ wire[a] # <<>> => Head(wire[a]).kind = "header"
                      /\ at[a] = "body" =>
                           /\ received[a] =< BodyTarget(a)
                           /\ link[a] # "lost" => received[a] + Len(wire[a]) >= BodyTarget(a)
                           /\ \A i \in DOMAIN wire[a] :
                                received[a] + i =< BodyTarget(a) => wire[a][i].kind = "body"
    BY DEF InStep
  <2>1. /\ wire[a] \in Seq(Frame) /\ DOMAIN wire[a] = 1..Len(wire[a])
        /\ Reading(wire[a], link[a], at[a], msg[a], received[a], body[a])
    BY LenProperties DEF IInv, TypeOK, StreamInv
  <2>2. wire[a] # <<>> => Len(wire[a]) >= 1 /\ Head(wire[a]) = wire[a][1]
    BY <2>1, Taken DEF IInv, StreamInv
  <2>3. at[a] = "method" /\ wire[a] # <<>> =>
          Head(wire[a]).kind \in {"deliver", "other", "close_ok"}
    BY <2>1, <2>2 DEF Reading, Starts
  <2>4. at[a] = "header" /\ wire[a] # <<>> => Head(wire[a]).kind = "header"
    BY <2>1, <2>2 DEF Reading
  <2>5. at[a] = "body" =>
          /\ received[a] =< BodyTarget(a)
          /\ link[a] # "lost" => received[a] + Len(wire[a]) >= BodyTarget(a)
          /\ \A i \in DOMAIN wire[a] :
               received[a] + i =< BodyTarget(a) => wire[a][i].kind = "body"
    <3> SUFFICES ASSUME at[a] = "body"
                 PROVE  /\ received[a] =< BodyTarget(a)
                        /\ link[a] # "lost" => received[a] + Len(wire[a]) >= BodyTarget(a)
                        /\ \A i \in DOMAIN wire[a] :
                             received[a] + i =< BodyTarget(a) => wire[a][i].kind = "body"
      OBVIOUS
    <3>1. /\ received[a] =< Len(msg[a].body)
          /\ link[a] # "lost" => received[a] + Len(wire[a]) >= Len(msg[a].body)
          /\ \A i \in 1..Len(wire[a]) :
               received[a] + i =< Len(msg[a].body) =>
                 wire[a][i] = Piece(msg[a].body[received[a] + i])
      BY <2>1 DEF Reading
    <3>2. \A p : Piece(p).kind = "body"
      BY DEF Piece
    <3> QED BY <2>1, <3>1, <3>2 DEF BodyTarget
  <2> QED BY <2>1, <2>3, <2>4, <2>5 DEF Reading
<1> QED BY <1>1, Invariance, PTL

\* Whatever channel::dispatch is given has the body that its sender serialised, to
\* the last piece, but for the last message before a connection was lost.
THEOREM Intact == Spec => []DispatchedIntact
<1>1. IInv => DispatchedIntact
  <2> SUFFICES ASSUME IInv, NEW a \in Apps, NEW i \in DOMAIN dispatched[a]
               PROVE  \E m \in sent :
                        /\ dispatched[a][i].id = m.id
                        /\ \/ dispatched[a][i].body = SentBody(m)
                           \/ /\ IsPrefix(dispatched[a][i].body, SentBody(m))
                              /\ i = Len(dispatched[a]) /\ at[a] = "gone" /\ link[a] = "lost"
    BY DEF DispatchedIntact
  <2>1. i \in 1..Len(dispatched[a])
    BY LenProperties DEF IInv, TypeOK
  <2>2. PICK m \in sent : Carries(a, i, m)
    BY <2>1 DEF IInv, DispatchInv
  <2> QED BY <2>2 DEF Carries
<1> QED BY <1>1, Invariance, PTL

\* The filter of consume looks at a copy of a copy of the message, with defaults
\* for what the frames leave out, and yet nobody is given a message of his own or
\* one that was sent to somebody else.
THEOREM Recipients == Spec => []RightRecipient
<1>1. IInv => RightRecipient
  <2> SUFFICES ASSUME IInv, NEW a \in Apps, NEW d \in ToSet(dispatched[a])
               PROVE  \E m \in sent : d.id = m.id /\ IsFor(m, a)
    BY DEF RightRecipient
  <2>1. PICK i \in DOMAIN dispatched[a] : d = dispatched[a][i]
    BY DEF ToSet
  <2>2. i \in 1..Len(dispatched[a])
    BY <2>1, LenProperties DEF IInv, TypeOK
  <2>3. PICK m \in sent : Carries(a, i, m)
    BY <2>2 DEF IInv, DispatchInv
  <2> QED BY <2>1, <2>3 DEF Carries
<1> QED BY <1>1, Invariance, PTL
=================================================================================
