------------------------------ MODULE ConsoleProofs ------------------------------
(***************************************************************************)
(* The console, for any number of connections, properties and requests: it *)
(* goes on accepting, and whatever is lost, cut or refused on the way, a   *)
(* client gets its replies in the order of its requests.                   *)
(*                                                                         *)
(* What is on its way for one connection is in five sequences, from the    *)
(* client and back: what was sent, what is not read, the events, the       *)
(* replies of posted do_sends and the replies written.  The invariant      *)
(* relates them, and is stated of any five.                                *)
(***************************************************************************)
EXTENDS Console, TLAPS, SequenceTheorems, FiniteSetTheorems

\* Before it is launched the console has nothing.
NothingYet ==
  phase = "created" =>
    newConn = None /\ bots = {} /\ ~busy /\ \A c \in Conns : life[c] = "unborn"

\* What is not read, b, is the end of what was sent, s, by halves.
WireOf(s, b) ==
  /\ \A n \in 1..Len(s) : s[n].id = n
  /\ Len(b) <= 2 * Len(s)
  /\ \A i \in 1..Len(b) :
       b[i] = [half |-> IF (Len(b) - i) % 2 = 0 THEN "tail" ELSE "head",
               of   |-> s[Len(s) - (Len(b) - i) \div 2]]

\* The last request of which anything was read.
LastRead(s, b) == Len(s) - Len(b) \div 2

\* The events e, the posted replies d and the written replies r are in the order of the
\* requests, and of requests up to k.
OrderOf(k, e, d, r) ==
  /\ \A i, j \in 1..Len(e) : i < j => e[i].id < e[j].id
  /\ \A i, j \in 1..Len(d) : i < j => d[i].to < d[j].to
  /\ \A i, j \in 1..Len(r) : i < j => r[i].to < r[j].to
  /\ \A i \in 1..Len(r), j \in 1..Len(d) : r[i].to < d[j].to
  /\ \A i \in 1..Len(r), j \in 1..Len(e) : r[i].to < e[j].id
  /\ \A i \in 1..Len(d), j \in 1..Len(e) : d[i].to < e[j].id
  /\ \A i \in 1..Len(e) : e[i].id <= k
  /\ \A i \in 1..Len(d) : d[i].to <= k
  /\ \A i \in 1..Len(r) : r[i].to <= k

\* An event has the properties of its request, and else those of earlier ones.
Carries(s, v) ==
  /\ v.uid = s[v.id].uid
  /\ Brief \in s[v.id].props => Brief \in v.props
  /\ Brief \in v.props => \E n \in 1..v.id : Brief \in s[n].props

Fits(s, reply) ==
  /\ reply.as = "brief" => \E n \in 1..reply.to : Brief \in s[n].props
  /\ reply.as = "full" => Brief \notin s[reply.to].props
  /\ reply.as = "status" => s[reply.to].uid = "svc"

ContentOf(s, e, d, r) ==
  /\ \A i \in 1..Len(e) : Carries(s, e[i])
  /\ \A i \in 1..Len(d) : Fits(s, d[i])
  /\ \A i \in 1..Len(r) : Fits(s, r[i])

TypesOf(s, b, e, d, r) ==
  /\ s \in Seq(Requests) /\ b \in Seq(Halves) /\ e \in Seq(Requests)
  /\ d \in Seq(Replies) /\ r \in Seq(Replies)

PipeOf(s, b, e, d, r) ==
  /\ TypesOf(s, b, e, d, r)
  /\ WireOf(s, b)
  /\ OrderOf(LastRead(s, b), e, d, r)
  /\ ContentOf(s, e, d, r)

Pipe(c) == PipeOf(sent[c], inbox[c], events[c], sends[c], replies[c])

\* What Accepts says, beside the types.
Accepting ==
  alive /\ phase = "launched" =>
    /\ bots = {c \in Conns : Serves(c)}
    /\ newConn # None
    /\ life[newConn] = IF busy THEN "serving" ELSE "waiting"
    /\ busy \/ accept \in {"waiting", "accepted"}

IInv ==
  /\ TypeOK
  /\ Accepting
  /\ NothingYet
  /\ \A c \in Conns : Pipe(c)

-----------------------------------------------------------------------------
\* A request is written behind the others, by its two halves.
Both(x) == <<[half |-> "head", of |-> x], [half |-> "tail", of |-> x]>>

LEMMA Wired ==
  ASSUME NEW s \in Seq(Requests), NEW b \in Seq(Halves), WireOf(s, b),
         NEW x \in Requests, x.id = Len(s) + 1
  PROVE  /\ Append(s, x) \in Seq(Requests) /\ b \o Both(x) \in Seq(Halves)
         /\ WireOf(Append(s, x), b \o Both(x))
         /\ LastRead(Append(s, x), b \o Both(x)) = LastRead(s, b)
<1> DEFINE t == Append(s, x)
           w == b \o Both(x)
<1>1. /\ t \in Seq(Requests) /\ Len(t) = Len(s) + 1 /\ Len(s) \in Nat
      /\ \A i \in 1..Len(s) : t[i] = s[i]
      /\ t[Len(s) + 1] = x
  BY AppendProperties, LenProperties
<1>2. /\ Both(x) \in Seq(Halves) /\ Len(Both(x)) = 2
      /\ Both(x)[1] = [half |-> "head", of |-> x] /\ Both(x)[2] = [half |-> "tail", of |-> x]
  BY DEF Both, Halves
<1>3. /\ w \in Seq(Halves) /\ Len(w) = Len(b) + 2 /\ Len(b) \in Nat
      /\ \A i \in 1..Len(b) + 2 : w[i] = IF i <= Len(b) THEN b[i] ELSE Both(x)[i - Len(b)]
  <2>1. /\ w \in Seq(Halves) /\ Len(w) = Len(b) + Len(Both(x))
        /\ \A i \in 1..Len(b) + Len(Both(x)) :
             w[i] = IF i <= Len(b) THEN b[i] ELSE Both(x)[i - Len(b)]
    BY <1>2, ConcatProperties
  <2> QED BY <1>2, <2>1, LenProperties
<1> HIDE DEF t, w
<1>4. \A n \in 1..Len(t) : t[n].id = n
  BY SMTT(30), <1>1 DEF WireOf
<1>5. ASSUME NEW i \in 1..Len(w)
      PROVE  w[i] = [half |-> IF (Len(w) - i) % 2 = 0 THEN "tail" ELSE "head",
                     of   |-> t[Len(t) - (Len(w) - i) \div 2]]
  <2>1. CASE i <= Len(b)
    <3>1. /\ (Len(w) - i) % 2 = (Len(b) - i) % 2
          /\ Len(t) - (Len(w) - i) \div 2 = Len(s) - (Len(b) - i) \div 2
          /\ Len(s) - (Len(b) - i) \div 2 \in 1..Len(s)
          /\ i \in 1..Len(b)
      BY <2>1, <1>1, <1>3 DEF WireOf
    <3>2. w[i] = b[i]
      BY <2>1, <1>3, i \in 1..Len(b) + 2, Zenon
    <3> QED BY <3>1, <3>2, <1>1 DEF WireOf
  <2>2. CASE i = Len(b) + 1
    <3>1. (Len(w) - i) % 2 = 1 /\ (Len(w) - i) \div 2 = 0 /\ i - Len(b) = 1 /\ ~(i <= Len(b))
      BY <2>2, <1>3
    <3> QED BY <2>2, <3>1, <1>1, <1>2, <1>3
  <2>3. CASE i = Len(b) + 2
    <3>1. (Len(w) - i) % 2 = 0 /\ (Len(w) - i) \div 2 = 0 /\ i - Len(b) = 2 /\ ~(i <= Len(b))
      BY <2>3, <1>3
    <3> QED BY <2>3, <3>1, <1>1, <1>2, <1>3
  <2> QED BY <2>1, <2>2, <2>3, <1>3
<1>6. WireOf(t, w)
  BY <1>1, <1>3, <1>4, <1>5 DEF WireOf
<1>7. LastRead(t, w) = LastRead(s, b)
  BY <1>1, <1>3 DEF LastRead
<1> QED BY <1>1, <1>3, <1>6, <1>7 DEF t, w

\* What was sent before stays as it was.
LEMMA ContentStays ==
  ASSUME NEW s \in Seq(Requests), NEW x \in Requests, NEW k \in Nat, k <= Len(s),
         NEW e \in Seq(Requests), NEW d \in Seq(Replies), NEW r \in Seq(Replies),
         OrderOf(k, e, d, r), ContentOf(s, e, d, r)
  PROVE  ContentOf(Append(s, x), e, d, r)
<1> DEFINE t == Append(s, x)
<1>1. Len(s) \in Nat /\ \A i \in 1..Len(s) : t[i] = s[i]
  BY AppendProperties, LenProperties
<1>2. /\ \A i \in 1..Len(e) : e[i].id \in 1..Len(s)
      /\ \A i \in 1..Len(d) : d[i].to \in 1..Len(s)
      /\ \A i \in 1..Len(r) : r[i].to \in 1..Len(s)
  <2>1. /\ \A i \in 1..Len(e) : e[i] \in Requests
        /\ \A i \in 1..Len(d) : d[i] \in Replies
        /\ \A i \in 1..Len(r) : r[i] \in Replies
    BY ElementOfSeq
  <2>2. /\ \A v \in Requests : v.id \in 1..MaxSent
        /\ \A v \in Replies : v.to \in 1..MaxSent
    BY DEF Requests, Replies
  <2> QED BY <1>1, <2>1, <2>2, ConsoleAssumption DEF OrderOf
<1> HIDE DEF t
<1>3. \A i \in 1..Len(e) : Carries(t, e[i])
  BY SMTT(30), <1>1, <1>2 DEF ContentOf, Carries
<1>4. ASSUME NEW v, v.to \in 1..Len(s), Fits(s, v) PROVE Fits(t, v)
  <2>1. ASSUME NEW n \in 1..v.to PROVE t[n] = s[n]
    BY <1>1, <1>4
  <2>2. t[v.to] = s[v.to]
    BY <1>1, <1>4
  <2> QED BY <1>4, <2>1, <2>2 DEF Fits
<1>5. /\ \A i \in 1..Len(d) : Fits(t, d[i])
      /\ \A i \in 1..Len(r) : Fits(t, r[i])
  BY <1>2, <1>4 DEF ContentOf
<1> QED BY <1>3, <1>5 DEF ContentOf, t

-----------------------------------------------------------------------------
\* The requests of s that come after the k-th, as far as rs.
RunAt(rs, s, k) ==
  /\ rs \in Seq(Requests) /\ k + Len(rs) <= Len(s)
  /\ \A i \in 1..Len(rs) : rs[i] = s[k + i]

\* A function on 1..n is a sequence of length n.
LEMMA FunctionIsSeq ==
  ASSUME NEW S, NEW n \in Nat, NEW f \in [1..n -> S]
  PROVE  f \in Seq(S) /\ Len(f) = n
<1>1. f \in Seq(S)
  BY SeqDef
<1>2. Len(f) \in Nat /\ 1..Len(f) = 1..n
  BY <1>1, LenProperties
<1> QED BY <1>1, <1>2

\* The requests that are whole at the beginning of b follow the last one that was read.
LEMMA WholeIsRun ==
  ASSUME NEW s \in Seq(Requests), NEW b \in Seq(Halves), WireOf(s, b),
         NEW n \in 1..Len(b)
  PROVE  /\ RunAt(Whole(SubSeq(b, 1, n)), s, LastRead(s, b))
         /\ Len(Whole(SubSeq(b, 1, n)))
              = (n - (IF Len(b) % 2 = 0 THEN 0 ELSE 1)) \div 2
<1> DEFINE a    == SubSeq(b, 1, n)
           skip == IF Len(b) % 2 = 0 THEN 0 ELSE 1
           len  == (n - skip) \div 2
<1>1. Len(b) \in Nat /\ Len(s) \in Nat /\ n \in 1..Len(b) /\ Len(b) <= 2 * Len(s)
  BY LenProperties DEF WireOf
<1>2. Len(a) = n /\ \A i \in 1..n : a[i] = b[i]
  <2>1. \A i \in 1..n : b[i] \in Halves
    BY <1>1, ElementOfSeq
  <2>2. /\ Len(a) = IF 1 <= n THEN n - 1 + 1 ELSE 0
        /\ \A i \in 1..(n - 1 + 1) : a[i] = b[1 + i - 1]
    BY <1>1, <2>1, SubSeqProperties
  <2>3. n - 1 + 1 = n /\ 1 <= n /\ \A i \in 1..n : 1 + i - 1 = i
    BY <1>1
  <2> QED BY <2>2, <2>3
<1> HIDE DEF a
<1>3. \A i \in 1..n : /\ a[i].half = IF (Len(b) - i) % 2 = 0 THEN "tail" ELSE "head"
                      /\ a[i].of = s[Len(s) - (Len(b) - i) \div 2]
  <2> SUFFICES ASSUME NEW i \in 1..n
               PROVE  /\ a[i].half = IF (Len(b) - i) % 2 = 0 THEN "tail" ELSE "head"
                      /\ a[i].of = s[Len(s) - (Len(b) - i) \div 2]
    OBVIOUS
  <2>1. i \in 1..Len(b)
    BY <1>1
  <2>2. a[i] = [half |-> IF (Len(b) - i) % 2 = 0 THEN "tail" ELSE "head",
                of   |-> s[Len(s) - (Len(b) - i) \div 2]]
    BY <1>2, <2>1 DEF WireOf
  <2> DEFINE h == IF (Len(b) - i) % 2 = 0 THEN "tail" ELSE "head"
             x == s[Len(s) - (Len(b) - i) \div 2]
  <2>3. a[i] = [half |-> h, of |-> x]
    BY <2>2
  <2> HIDE DEF h, x
  <2>4. a[i].half = h /\ a[i].of = x
    BY <2>3
  <2> QED BY <2>4 DEF h, x
<1>4. (IF a[1].half = "tail" THEN 1 ELSE 0) = skip
  <2>1. (Len(b) - 1) % 2 = 0 <=> ~(Len(b) % 2 = 0)
    BY <1>1
  <2> QED BY <1>1, <1>3, <2>1
<1>5. Whole(a) = [k \in 1..len |-> a[2 * k + skip].of]
  BY <1>2, <1>4 DEF Whole
<1>6. len \in Nat /\ skip \in {0, 1} /\ LastRead(s, b) + len <= Len(s) /\ LastRead(s, b) \in Nat
  BY <1>1 DEF LastRead
<1>7. ASSUME NEW k \in 1..len
      PROVE  /\ 2 * k + skip \in 1..n
             /\ Len(s) - (Len(b) - (2 * k + skip)) \div 2 = LastRead(s, b) + k
             /\ LastRead(s, b) + k \in 1..Len(s)
  BY SMTT(30), <1>1, <1>6 DEF LastRead
<1> HIDE DEF len, skip
<1>8. \A k \in 1..len : Whole(a)[k] = s[LastRead(s, b) + k] /\ Whole(a)[k] \in Requests
  BY SMTT(30), <1>3, <1>5, <1>7, ElementOfSeq
<1>9. Whole(a) \in [1..len -> Requests]
  BY <1>5, <1>8
<1>10. Whole(a) \in Seq(Requests) /\ Len(Whole(a)) = len
  BY <1>6, <1>9, FunctionIsSeq
<1> QED BY <1>6, <1>8, <1>10 DEF RunAt, a, len, skip

\* What is left in the buffer is read next.
LEMMA Unread ==
  ASSUME NEW s \in Seq(Requests), NEW b \in Seq(Halves), WireOf(s, b),
         NEW n \in 1..Len(b)
  PROVE  /\ SubSeq(b, n + 1, Len(b)) \in Seq(Halves)
         /\ Len(SubSeq(b, n + 1, Len(b))) = Len(b) - n
         /\ WireOf(s, SubSeq(b, n + 1, Len(b)))
<1> DEFINE w == SubSeq(b, n + 1, Len(b))
<1>1. Len(b) \in Nat /\ Len(s) \in Nat /\ n \in 1..Len(b) /\ Len(b) <= 2 * Len(s)
  BY LenProperties DEF WireOf
<1>2. /\ w \in Seq(Halves) /\ Len(w) = Len(b) - n
      /\ \A i \in 1..(Len(b) - n) : w[i] = b[n + i]
  <2> DEFINE m == n + 1
  <2>1. m \in Int /\ Len(b) \in Int /\ \A i \in m..Len(b) : b[i] \in Halves
    BY <1>1, ElementOfSeq
  <2>2. /\ w \in Seq(Halves) /\ Len(w) = IF m <= Len(b) THEN Len(b) - m + 1 ELSE 0
        /\ \A i \in 1..(Len(b) - m + 1) : w[i] = b[m + i - 1]
    <3> HIDE DEF m
    <3>1. w = SubSeq(b, m, Len(b))
      BY DEF m
    <3> QED BY <2>1, <3>1, SubSeqProperties
  <2>3. Len(w) = Len(b) - n
    BY <1>1, <2>2
  <2>4. ASSUME NEW i \in 1..(Len(b) - n) PROVE w[i] = b[n + i]
    <3>1. i \in 1..(Len(b) - m + 1) /\ m + i - 1 = n + i
      BY <1>1
    <3> QED BY <2>2, <3>1
  <2> QED BY <2>2, <2>3, <2>4
<1> HIDE DEF w
<1>3. ASSUME NEW i \in 1..Len(w)
      PROVE  w[i] = [half |-> IF (Len(w) - i) % 2 = 0 THEN "tail" ELSE "head",
                     of   |-> s[Len(s) - (Len(w) - i) \div 2]]
  <2>1. n + i \in 1..Len(b) /\ Len(b) - (n + i) = Len(w) - i /\ i \in 1..(Len(b) - n)
    BY <1>1, <1>2
  <2>2. b[n + i] = [half |-> IF (Len(b) - (n + i)) % 2 = 0 THEN "tail" ELSE "head",
                    of   |-> s[Len(s) - (Len(b) - (n + i)) \div 2]]
    BY <2>1 DEF WireOf
  <2> QED BY <1>2, <2>1, <2>2
<1>4. WireOf(s, w)
  BY <1>1, <1>2, <1>3 DEF WireOf
<1> QED BY <1>2, <1>4 DEF w

\* A part of a run is a run, and so is a run with the next request.
LEMMA PartOfRun ==
  ASSUME NEW s \in Seq(Requests), NEW k \in Nat, NEW rs, RunAt(rs, s, k),
         NEW n \in 1..(Len(rs) + 1)
  PROVE  /\ RunAt(SubSeq(rs, n, Len(rs)), s, k + n - 1)
         /\ Len(SubSeq(rs, n, Len(rs))) = Len(rs) - n + 1
<1> DEFINE w == SubSeq(rs, n, Len(rs))
<1>1. rs \in Seq(Requests) /\ Len(rs) \in Nat /\ Len(s) \in Nat
  BY LenProperties DEF RunAt
<1>2. \A i \in n..Len(rs) : rs[i] \in Requests
  BY <1>1, ElementOfSeq
<1>3. /\ w \in Seq(Requests) /\ Len(w) = IF n <= Len(rs) THEN Len(rs) - n + 1 ELSE 0
      /\ \A i \in 1..(Len(rs) - n + 1) : w[i] = rs[n + i - 1]
  BY <1>1, <1>2, SubSeqProperties
<1>4. Len(w) = Len(rs) - n + 1
  BY <1>1, <1>3
<1> HIDE DEF w
<1>5. ASSUME NEW i \in 1..Len(w) PROVE w[i] = s[k + n - 1 + i]
  <2>1. i \in 1..(Len(rs) - n + 1) /\ n + i - 1 \in 1..Len(rs) /\ k + (n + i - 1) = k + n - 1 + i
    BY <1>1, <1>4
  <2>2. rs[n + i - 1] = s[k + (n + i - 1)]
    BY <2>1 DEF RunAt
  <2> QED BY <1>3, <2>1, <2>2
<1>6. k + n - 1 + Len(w) <= Len(s)
  BY <1>1, <1>4 DEF RunAt
<1> QED BY <1>3, <1>4, <1>5, <1>6 DEF RunAt, w

LEMMA LongerRun ==
  ASSUME NEW s \in Seq(Requests), NEW k \in Nat, NEW rs, RunAt(rs, s, k),
         k + Len(rs) + 1 <= Len(s), NEW x \in Requests, x = s[k + Len(rs) + 1]
  PROVE  RunAt(Append(rs, x), s, k) /\ Len(Append(rs, x)) = Len(rs) + 1
<1>1. rs \in Seq(Requests) /\ Len(rs) \in Nat /\ Len(s) \in Nat
  BY LenProperties DEF RunAt
<1>2. /\ Append(rs, x) \in Seq(Requests) /\ Len(Append(rs, x)) = Len(rs) + 1
      /\ \A i \in 1..Len(rs) : Append(rs, x)[i] = rs[i]
      /\ Append(rs, x)[Len(rs) + 1] = x
  BY <1>1, AppendProperties
<1>3. k + (Len(rs) + 1) = k + Len(rs) + 1
  BY <1>1
<1>4. ASSUME NEW i \in 1..(Len(rs) + 1) PROVE Append(rs, x)[i] = s[k + i]
  <2>1. CASE i \in 1..Len(rs)
    BY <2>1, <1>2 DEF RunAt
  <2>2. CASE i = Len(rs) + 1
    BY <2>2, <1>2, <1>3
  <2> QED BY <1>1, <2>1, <2>2
<1> QED BY <1>1, <1>2, <1>3, <1>4 DEF RunAt

\* Whatever from_stream makes of a buffer, it is a run of requests that were not read.
LEMMA ParsedIsRun ==
  ASSUME NEW s \in Seq(Requests), NEW b \in Seq(Halves), WireOf(s, b),
         NEW n \in 1..Len(b), NEW rs \in Parsed(SubSeq(b, 1, n))
  PROVE  \E k \in Nat :
           /\ LastRead(s, b) <= k /\ RunAt(rs, s, k)
           /\ k + Len(rs) <= LastRead(s, SubSeq(b, n + 1, Len(b)))
<1> DEFINE a   == SubSeq(b, 1, n)
           w   == Whole(a)
           v   == Append(w, a[Len(a)].of)
           k0  == LastRead(s, b)
           k1  == LastRead(s, SubSeq(b, n + 1, Len(b)))
           skip == IF Len(b) % 2 = 0 THEN 0 ELSE 1
<1>1. Len(b) \in Nat /\ Len(s) \in Nat /\ n \in 1..Len(b) /\ Len(b) <= 2 * Len(s)
  BY LenProperties DEF WireOf
<1>2. RunAt(w, s, k0) /\ Len(w) = (n - skip) \div 2
  BY WholeIsRun
<1>3. k0 \in Nat /\ k1 = Len(s) - (Len(b) - n) \div 2 /\ k0 = Len(s) - Len(b) \div 2
  <2>1. Len(SubSeq(b, n + 1, Len(b))) = Len(b) - n
    BY <1>1, Unread
  <2>2. LastRead(s, b) \in Nat
    BY <1>1 DEF LastRead
  <2> QED BY <2>1, <2>2 DEF LastRead
<1>4. k0 + Len(w) <= k1 /\ Len(w) \in Nat
  BY <1>1, <1>2, <1>3
<1>5. Len(a) = n /\ a[n] = b[n]
  <2>1. \A i \in 1..n : b[i] \in Halves
    BY <1>1, ElementOfSeq
  <2>2. /\ Len(a) = IF 1 <= n THEN n - 1 + 1 ELSE 0
        /\ \A i \in 1..(n - 1 + 1) : a[i] = b[1 + i - 1]
    BY <1>1, <2>1, SubSeqProperties
  <2>3. n - 1 + 1 = n /\ 1 <= n /\ 1 + n - 1 = n /\ n \in 1..(n - 1 + 1)
    BY <1>1
  <2> QED BY <2>2, <2>3
<1>6. ASSUME a[Len(a)].half = "head"
      PROVE  RunAt(v, s, k0) /\ k0 + Len(v) <= k1 /\ Len(v) \in Nat
  <2> DEFINE h == IF (Len(b) - n) % 2 = 0 THEN "tail" ELSE "head"
             x == s[Len(s) - (Len(b) - n) \div 2]
  <2>1. b[n] = [half |-> h, of |-> x]
    BY DEF WireOf
  <2> HIDE DEF h, x
  <2>2. h = "head" /\ a[Len(a)].of = x
    BY <1>5, <1>6, <2>1
  <2>3. (Len(b) - n) % 2 = 1
    BY <1>1, <2>2 DEF h
  <2>4. /\ Len(s) - (Len(b) - n) \div 2 = k0 + Len(w) + 1
        /\ k0 + Len(w) + 1 = k1 /\ k1 <= Len(s) /\ k1 \in 1..Len(s)
    <3>1. CASE Len(b) % 2 = 0
      <4>1. Len(w) = (n - 0) \div 2
        BY <3>1, <1>2
      <4> HIDE DEF w, k0, k1
      <4> QED BY SMTT(30), <3>1, <4>1, <1>1, <1>3, <2>3
    <3>2. CASE ~(Len(b) % 2 = 0)
      <4>1. Len(w) = (n - 1) \div 2
        BY <3>2, <1>2
      <4> HIDE DEF w, k0, k1
      <4> QED BY SMTT(30), <3>2, <4>1, <1>1, <1>3, <2>3
    <3> QED BY <3>1, <3>2
  <2>5. x = s[k0 + Len(w) + 1] /\ x \in Requests
    BY <2>4, ElementOfSeq DEF x
  <2>6. RunAt(Append(w, x), s, k0) /\ Len(Append(w, x)) = Len(w) + 1
    <3> HIDE DEF w, k0, k1
    <3> QED BY <1>2, <1>3, <2>4, <2>5, LongerRun
  <2> HIDE DEF w, k0, k1
  <2> QED BY <1>3, <1>4, <2>2, <2>4, <2>6
<1>7. /\ RunAt(w, s, k0) /\ k0 + Len(w) <= k1
      /\ Len(w) \in Nat /\ k0 \in Nat
  BY <1>2, <1>3, <1>4
<1> DEFINE W == {w} \union IF a[Len(a)].half = "head" THEN {v} ELSE {}
<1>8. rs \in W \/ \E u \in W, m \in 1..(Len(a) + 1) : rs = SubSeq(u, m, Len(u))
  <2>1. Parsed(a) = IF a[1].half = "head" THEN W
                    ELSE {SubSeq(u, m, Len(u)) : u \in W, m \in 1..(Len(a) + 1)}
    BY DEF Parsed
  <2> HIDE DEF W, a
  <2>2. rs \in Parsed(a)
    BY DEF a
  <2> QED BY <2>1, <2>2
<1> HIDE DEF w, v, k0, k1
<1>9. \A u \in W : RunAt(u, s, k0) /\ k0 + Len(u) <= k1 /\ Len(u) \in Nat
  BY <1>6, <1>7
<1>10. CASE rs \in W
  <2>1. k0 <= k0 /\ RunAt(rs, s, k0) /\ k0 + Len(rs) <= k1
    BY <1>7, <1>9, <1>10
  <2> QED BY <1>7, <2>1 DEF k0, k1
<1>11. ASSUME NEW u, RunAt(u, s, k0), k0 + Len(u) <= k1, Len(u) \in Nat,
              NEW m \in 1..(Len(a) + 1), rs = SubSeq(u, m, Len(u))
       PROVE  \E k \in Nat : k0 <= k /\ RunAt(rs, s, k) /\ k + Len(rs) <= k1
  <2>1. CASE m <= Len(u)
    <3>1. m \in 1..(Len(u) + 1) /\ k0 + m - 1 \in Nat /\ k0 <= k0 + m - 1
      BY <2>1, <1>3, <1>11
    <3>2. RunAt(rs, s, k0 + m - 1) /\ Len(rs) = Len(u) - m + 1
      BY <3>1, <1>3, <1>11, PartOfRun
    <3>3. k0 + m - 1 + Len(rs) <= k1
      BY <3>1, <3>2, <1>3, <1>7, <1>11
    <3> QED BY <3>1, <3>2, <3>3
  <2>2. CASE ~(m <= Len(u))
    <3>1. rs = <<>>
      <4>1. m \in Int /\ Len(u) \in Int /\ Len(u) < m
        BY <2>2, <1>5, <1>11
      <4> QED BY <4>1, <1>11, SubSeqEmpty
    <3>2. RunAt(<<>>, s, k0) /\ Len(<<>>) = 0 /\ k0 + 0 <= k1
      BY <1>1, <1>3, <1>7 DEF RunAt, k0
    <3> QED BY <3>1, <3>2, <1>3
  <2> QED BY <2>1, <2>2
<1> QED BY <1>8, <1>9, <1>10, <1>11 DEF k0, k1

\* from_stream's leaks only add properties of earlier requests.
LEMMA MergedCarries ==
  ASSUME NEW s \in Seq(Requests), \A n \in 1..Len(s) : s[n].id = n,
         NEW k \in Nat, NEW rs, RunAt(rs, s, k)
  PROVE  /\ Merged(rs) \in Seq(Requests) /\ Len(Merged(rs)) = Len(rs)
         /\ \A i \in 1..Len(rs) : Merged(rs)[i].id = k + i /\ Carries(s, Merged(rs)[i])
<1>1. /\ rs \in Seq(Requests) /\ Len(rs) \in Nat /\ Len(s) \in Nat
      /\ DOMAIN rs = 1..Len(rs) /\ k + Len(rs) <= Len(s)
  BY LenProperties DEF RunAt
<1>2. ASSUME NEW i \in 1..Len(rs)
      PROVE  /\ rs[i] \in Requests /\ rs[i] = s[k + i] /\ s[k + i].id = k + i
             /\ k + i \in 1..Len(s)
  BY <1>1, <1>2, ElementOfSeq DEF RunAt
<1> DEFINE P(i) == UNION {rs[j].props : j \in 1..i}
<1>3. ASSUME NEW i \in 1..Len(rs)
      PROVE  /\ Merged(rs)[i] = [rs[i] EXCEPT !.props = P(i)]
             /\ P(i) \in SUBSET Names
             /\ rs[i].props \subseteq P(i)
             /\ \A x \in P(i) : \E n \in 1..(k + i) : x \in s[n].props
  <2>1. Merged(rs)[i] = [rs[i] EXCEPT !.props = P(i)]
    BY <1>1 DEF Merged
  <2>2. ASSUME NEW j \in 1..i
        PROVE  rs[j].props \subseteq Names /\ rs[j] = s[k + j] /\ k + j \in 1..(k + i)
    <3>1. j \in 1..Len(rs) /\ k + j \in 1..(k + i)
      BY <1>1
    <3> QED BY <3>1, <1>2 DEF Requests
  <2>3. P(i) \in SUBSET Names /\ \A x \in P(i) : \E n \in 1..(k + i) : x \in s[n].props
    BY <2>2
  <2>4. i \in 1..i
    BY <1>1
  <2> QED BY <2>1, <2>3, <2>4
<1>4. ASSUME NEW i \in 1..Len(rs)
      PROVE  Merged(rs)[i] \in Requests /\ Merged(rs)[i].id = k + i /\ Carries(s, Merged(rs)[i])
  <2> HIDE DEF P
  <2>1. /\ Merged(rs)[i] = [id |-> k + i, uid |-> s[k + i].uid, props |-> P(i)]
        /\ s[k + i] \in Requests
    <3>1. rs[i] = [id |-> k + i, uid |-> s[k + i].uid, props |-> rs[i].props]
      BY <1>2 DEF Requests
    <3> QED BY SMTT(30), <3>1, <1>2, <1>3
  <2>2. Merged(rs)[i] \in Requests
    BY ZenonT(60), <2>1, <1>2, <1>3 DEF Requests
  <2>3. Carries(s, Merged(rs)[i])
    <3>1. /\ Merged(rs)[i].id = k + i /\ Merged(rs)[i].uid = s[k + i].uid
          /\ Merged(rs)[i].props = P(i)
      BY <2>1
    <3> QED BY ZenonT(60), <3>1, <1>2, <1>3 DEF Carries
  <2> QED BY <2>1, <2>2, <2>3
<1>5. Merged(rs) \in [1..Len(rs) -> Requests]
  BY <1>1, <1>4 DEF Merged
<1> QED BY <1>1, <1>4, <1>5, FunctionIsSeq

-----------------------------------------------------------------------------
(***************************************************************************)
(* What each handler does to the five sequences                            *)
(***************************************************************************)
\* Numbers of requests and replies are numbers.
LEMMA Numbered ==
  /\ \A v \in Requests : v.id \in Nat
  /\ \A v \in Replies : v.to \in Nat
BY ConsoleAssumption DEF Requests, Replies

LEMMA LastReadType ==
  ASSUME NEW s \in Seq(Requests), NEW b \in Seq(Halves), WireOf(s, b)
  PROVE  LastRead(s, b) \in Nat /\ LastRead(s, b) <= Len(s) /\ Len(s) \in Nat
BY LenProperties DEF WireOf, LastRead

LEMMA PipeRequest ==
  ASSUME NEW s, NEW b, NEW e, NEW d, NEW r, PipeOf(s, b, e, d, r),
         NEW x \in Requests, x.id = Len(s) + 1
  PROVE  PipeOf(Append(s, x), b \o Both(x), e, d, r)
<1> USE DEF PipeOf, TypesOf
<1>1. LastRead(s, b) \in Nat /\ LastRead(s, b) <= Len(s)
  BY LastReadType
<1>2. ContentOf(Append(s, x), e, d, r)
  BY <1>1, ContentStays
<1>3. /\ Append(s, x) \in Seq(Requests) /\ b \o Both(x) \in Seq(Halves)
      /\ WireOf(Append(s, x), b \o Both(x))
      /\ LastRead(Append(s, x), b \o Both(x)) = LastRead(s, b)
  BY Wired
<1> QED BY <1>2, <1>3

\* Events of later requests come behind the others.
LEMMA EventsArrive ==
  ASSUME NEW e \in Seq(Requests), NEW d \in Seq(Replies), NEW r \in Seq(Replies),
         NEW k0 \in Nat, NEW k \in Nat, NEW k1 \in Nat, OrderOf(k0, e, d, r), k0 <= k,
         NEW m \in Seq(Requests), \A i \in 1..Len(m) : m[i].id = k + i, k + Len(m) <= k1
  PROVE  OrderOf(k1, e \o m, d, r)
<1> DEFINE f == e \o m
<1>1. /\ Len(f) = Len(e) + Len(m) /\ Len(e) \in Nat /\ Len(m) \in Nat
      /\ \A i \in 1..Len(e) + Len(m) : f[i] = IF i <= Len(e) THEN e[i] ELSE m[i - Len(e)]
  BY ConcatProperties, LenProperties
<1>2. /\ \A i \in 1..Len(e) : e[i].id \in Nat
      /\ \A i \in 1..Len(d) : d[i].to \in Nat
      /\ \A i \in 1..Len(r) : r[i].to \in Nat
  BY ElementOfSeq, Numbered
<1> HIDE DEF f
<1>3. ASSUME NEW i \in 1..Len(f)
      PROVE  \/ i \in 1..Len(e) /\ f[i] = e[i]
             \/ /\ i \notin 1..Len(e) /\ i - Len(e) \in 1..Len(m)
                /\ f[i].id = k + (i - Len(e))
  <2>1. CASE i <= Len(e)
    BY <2>1, <1>1
  <2>2. CASE ~(i <= Len(e))
    <3>1. i - Len(e) \in 1..Len(m) /\ f[i] = m[i - Len(e)] /\ i \notin 1..Len(e)
      BY <2>2, <1>1
    <3> QED BY <3>1
  <2> QED BY <2>1, <2>2
<1>4. ASSUME NEW i \in 1..Len(f), NEW j \in 1..Len(f), i < j PROVE f[i].id < f[j].id
  <2>1. CASE j \in 1..Len(e)
    <3>1. i \in 1..Len(e)
      BY <2>1, <1>1, <1>4
    <3> QED BY <2>1, <3>1, <1>3, <1>4 DEF OrderOf
  <2>2. CASE j \notin 1..Len(e) /\ i \in 1..Len(e)
    <3>1. f[j].id = k + (j - Len(e)) /\ j - Len(e) \in 1..Len(m)
      BY <2>2, <1>3
    <3>2. f[i].id <= k0 /\ f[i].id \in Nat
      BY <2>2, <1>2, <1>3 DEF OrderOf
    <3> QED BY <3>1, <3>2, <1>1
  <2>3. CASE j \notin 1..Len(e) /\ i \notin 1..Len(e)
    <3>1. f[j].id = k + (j - Len(e)) /\ f[i].id = k + (i - Len(e))
      BY <2>3, <1>3
    <3> QED BY <3>1, <1>1, <1>4
  <2> QED BY <2>1, <2>2, <2>3
<1>5. \A i \in 1..Len(f) : f[i].id <= k1
  <2> TAKE i \in 1..Len(f)
  <2>1. CASE i \in 1..Len(e)
    BY SMTT(30), <2>1, <1>1, <1>2, <1>3 DEF OrderOf
  <2>2. CASE i \notin 1..Len(e)
    BY <2>2, <1>1, <1>3
  <2> QED BY <2>1, <2>2
<1>6. ASSUME NEW x \in Nat, x <= k0, \A j \in 1..Len(e) : x < e[j].id, NEW j \in 1..Len(f)
      PROVE  x < f[j].id
  <2>1. CASE j \in 1..Len(e)
    BY <2>1, <1>3, <1>6
  <2>2. CASE j \notin 1..Len(e)
    BY <2>2, <1>1, <1>3, <1>6
  <2> QED BY <2>1, <2>2
<1>7. \A i \in 1..Len(r), j \in 1..Len(f) : r[i].to < f[j].id
  BY <1>2, <1>6 DEF OrderOf
<1>8. \A i \in 1..Len(d), j \in 1..Len(f) : d[i].to < f[j].id
  BY <1>2, <1>6 DEF OrderOf
<1>9. /\ \A i \in 1..Len(d) : d[i].to <= k1
      /\ \A i \in 1..Len(r) : r[i].to <= k1
  BY SMTT(30), <1>1, <1>2 DEF OrderOf
<1> QED BY <1>4, <1>5, <1>7, <1>8, <1>9 DEF OrderOf, f

LEMMA PipeRead ==
  ASSUME NEW s, NEW b, NEW e, NEW d, NEW r, PipeOf(s, b, e, d, r),
         NEW n \in 1..Len(b), NEW rs \in Parsed(SubSeq(b, 1, n))
  PROVE  PipeOf(s, SubSeq(b, n + 1, Len(b)), e \o Merged(rs), d, r)
<1> DEFINE w == SubSeq(b, n + 1, Len(b))
           m == Merged(rs)
           f == e \o m
<1>1. /\ s \in Seq(Requests) /\ b \in Seq(Halves) /\ e \in Seq(Requests)
      /\ d \in Seq(Replies) /\ r \in Seq(Replies)
      /\ WireOf(s, b) /\ OrderOf(LastRead(s, b), e, d, r) /\ ContentOf(s, e, d, r)
  BY DEF PipeOf, TypesOf
<1>2. w \in Seq(Halves) /\ WireOf(s, w)
  BY <1>1, Unread
<1>3. PICK k \in Nat : LastRead(s, b) <= k /\ RunAt(rs, s, k) /\ k + Len(rs) <= LastRead(s, w)
  BY <1>1, ParsedIsRun
<1>4. /\ m \in Seq(Requests) /\ Len(m) = Len(rs)
      /\ \A i \in 1..Len(m) : m[i].id = k + i /\ Carries(s, m[i])
  BY <1>1, <1>3, MergedCarries DEF WireOf
<1>5. LastRead(s, b) \in Nat /\ LastRead(s, w) \in Nat
  BY <1>1, <1>2, LastReadType
<1> HIDE DEF w, m
<1>6. OrderOf(LastRead(s, w), f, d, r)
  BY <1>1, <1>3, <1>4, <1>5, EventsArrive
<1>7. /\ f \in Seq(Requests) /\ Len(f) = Len(e) + Len(m) /\ Len(e) \in Nat /\ Len(m) \in Nat
      /\ \A i \in 1..Len(e) + Len(m) : f[i] = IF i <= Len(e) THEN e[i] ELSE m[i - Len(e)]
  BY ZenonT(60), <1>1, <1>4, ConcatProperties, LenProperties
<1> HIDE DEF f
<1>8. ASSUME NEW i \in 1..Len(f) PROVE Carries(s, f[i])
  <2>1. CASE i <= Len(e)
    <3>1. i \in 1..Len(e) /\ f[i] = e[i]
      BY <2>1, <1>7
    <3> QED BY <3>1, <1>1 DEF ContentOf
  <2>2. CASE ~(i <= Len(e))
    <3>1. i - Len(e) \in 1..Len(m) /\ f[i] = m[i - Len(e)]
      BY <2>2, <1>7
    <3> QED BY <3>1, <1>4
  <2> QED BY <2>1, <2>2
<1>9. ContentOf(s, f, d, r)
  BY <1>1, <1>8 DEF ContentOf
<1> QED BY <1>1, <1>2, <1>6, <1>7, <1>9 DEF PipeOf, TypesOf, w, m, f

\* Dropping the first of the events, or of the posted replies, keeps the order.
LEMMA TailFacts ==
  ASSUME NEW S, NEW e \in Seq(S), e # <<>>
  PROVE  /\ Tail(e) \in Seq(S) /\ Len(Tail(e)) = Len(e) - 1
         /\ Len(e) \in Nat \ {0} /\ Head(e) = e[1] /\ e[1] \in S
         /\ \A i \in 1..Len(Tail(e)) : Tail(e)[i] = e[i + 1] /\ i + 1 \in 1..Len(e)
<1>1. Tail(e) \in Seq(S) /\ Len(Tail(e)) = Len(e) - 1
      /\ \A i \in 1..Len(Tail(e)) : Tail(e)[i] = e[i + 1]
  BY HeadTailProperties
<1>2. Len(e) \in Nat \ {0}
  BY EmptySeq
<1>3. 1 \in 1..Len(e)
  BY <1>2
<1>4. e[1] \in S /\ Head(e) = e[1]
  BY <1>3, ElementOfSeq
<1>5. \A i \in 1..Len(Tail(e)) : i + 1 \in 1..Len(e)
  BY <1>1, <1>2
<1> QED BY <1>1, <1>2, <1>4, <1>5

LEMMA PipeDropEvent ==
  ASSUME NEW s, NEW b, NEW e, NEW d, NEW r, PipeOf(s, b, e, d, r), e # <<>>
  PROVE  /\ PipeOf(s, b, Tail(e), d, r)
         /\ \A i \in 1..Len(Tail(e)) : Head(e).id < Tail(e)[i].id
<1> DEFINE f == Tail(e)
<1>1. /\ f \in Seq(Requests) /\ Len(f) = Len(e) - 1 /\ Len(e) \in Nat \ {0} /\ Head(e) = e[1]
      /\ \A i \in 1..Len(f) : f[i] = e[i + 1] /\ i + 1 \in 1..Len(e)
  BY TailFacts DEF PipeOf, TypesOf
<1> HIDE DEF f
<1>2. OrderOf(LastRead(s, b), f, d, r)
  <2>1. \A i, j \in 1..Len(f) : i < j => f[i].id < f[j].id
    <3> TAKE i, j \in 1..Len(f)
    <3>1. i < j => i + 1 < j + 1
      BY <1>1
    <3> QED BY <1>1, <3>1 DEF PipeOf, OrderOf
  <2> QED BY <1>1, <2>1 DEF PipeOf, OrderOf
<1>3. ContentOf(s, f, d, r)
  BY <1>1 DEF PipeOf, ContentOf
<1>4. \A i \in 1..Len(f) : e[1].id < f[i].id
  <2> TAKE i \in 1..Len(f)
  <2>1. 1 < i + 1 /\ 1 \in 1..Len(e)
    BY <1>1
  <2> QED BY <1>1, <2>1 DEF PipeOf, OrderOf
<1> QED BY <1>1, <1>2, <1>3, <1>4 DEF PipeOf, TypesOf, f

LEMMA PipeDropSend ==
  ASSUME NEW s, NEW b, NEW e, NEW d, NEW r, PipeOf(s, b, e, d, r), d # <<>>
  PROVE  /\ PipeOf(s, b, e, Tail(d), r)
         /\ \A i \in 1..Len(Tail(d)) : Head(d).to < Tail(d)[i].to
<1> DEFINE f == Tail(d)
<1>1. /\ f \in Seq(Replies) /\ Len(f) = Len(d) - 1 /\ Len(d) \in Nat \ {0} /\ Head(d) = d[1]
      /\ \A i \in 1..Len(f) : f[i] = d[i + 1] /\ i + 1 \in 1..Len(d)
  BY TailFacts DEF PipeOf, TypesOf
<1> HIDE DEF f
<1>2. OrderOf(LastRead(s, b), e, f, r)
  <2>1. \A i, j \in 1..Len(f) : i < j => f[i].to < f[j].to
    <3> TAKE i, j \in 1..Len(f)
    <3>1. i < j => i + 1 < j + 1
      BY <1>1
    <3> QED BY <1>1, <3>1 DEF PipeOf, OrderOf
  <2> QED BY <1>1, <2>1 DEF PipeOf, OrderOf
<1>3. ContentOf(s, e, f, r)
  BY <1>1 DEF PipeOf, ContentOf
<1>4. \A i \in 1..Len(f) : d[1].to < f[i].to
  <2> TAKE i \in 1..Len(f)
  <2>1. 1 < i + 1 /\ 1 \in 1..Len(d)
    BY <1>1
  <2> QED BY <1>1, <2>1 DEF PipeOf, OrderOf
<1> QED BY <1>1, <1>2, <1>3, <1>4 DEF PipeOf, TypesOf, f

\* The reply to the event that was dispatched is posted behind the others.
LEMMA PipeReply ==
  ASSUME NEW s, NEW b, NEW e, NEW d, NEW r, PipeOf(s, b, e, d, r), e # <<>>,
         NEW x \in Replies, x.to = Head(e).id, Fits(s, x)
  PROVE  PipeOf(s, b, Tail(e), Append(d, x), r)
<1> DEFINE f == Append(d, x)
           t == Tail(e)
           k == LastRead(s, b)
<1>1. /\ f \in Seq(Replies) /\ Len(f) = Len(d) + 1 /\ Len(d) \in Nat
      /\ \A i \in 1..Len(d) : f[i] = d[i]
      /\ f[Len(d) + 1] = x
  BY AppendProperties, LenProperties DEF PipeOf, TypesOf
<1>2. PipeOf(s, b, t, d, r) /\ \A i \in 1..Len(t) : x.to < t[i].id
  BY PipeDropEvent
<1>3. Head(e) = e[1] /\ 1 \in 1..Len(e)
  <2>1. Head(e) = e[1] /\ Len(e) \in Nat \ {0}
    BY TailFacts DEF PipeOf, TypesOf
  <2> QED BY <2>1
<1>4. /\ \A i \in 1..Len(d) : d[i].to < x.to
      /\ \A i \in 1..Len(r) : r[i].to < x.to
      /\ x.to <= k
  BY <1>3 DEF PipeOf, OrderOf
<1> HIDE DEF f, t, k
<1>5. \A i \in 1..Len(f) : \/ i \in 1..Len(d) /\ f[i] = d[i]
                           \/ i = Len(d) + 1 /\ f[i] = x
  BY <1>1
<1>6. OrderOf(k, t, d, r) /\ ContentOf(s, t, d, r)
  BY <1>2 DEF PipeOf, k
<1>7. \A i, j \in 1..Len(f) : i < j => f[i].to < f[j].to
  <2> SUFFICES ASSUME NEW i \in 1..Len(f), NEW j \in 1..Len(f), i < j PROVE f[i].to < f[j].to
    OBVIOUS
  <2>1. CASE j \in 1..Len(d)
    BY <2>1, <1>1, <1>6 DEF OrderOf
  <2>2. CASE j = Len(d) + 1
    <3>1. i \in 1..Len(d)
      BY <2>2, <1>1
    <3> QED BY <2>2, <3>1, <1>1, <1>4
  <2> QED BY <1>5, <2>1, <2>2
<1>8. OrderOf(k, t, f, r)
  BY <1>2, <1>4, <1>5, <1>6, <1>7 DEF OrderOf
<1>9. ContentOf(s, t, f, r)
  BY <1>5, <1>6 DEF ContentOf
<1> QED BY <1>1, <1>2, <1>8, <1>9 DEF PipeOf, TypesOf, f, t, k

LEMMA PipeDispatch ==
  ASSUME NEW s, NEW b, NEW e, NEW d, NEW r, PipeOf(s, b, e, d, r), e # <<>>,
         NEW out \in Handled(Head(e))
  PROVE  PipeOf(s, b, Tail(e), d \o out, r)
<1> DEFINE v == Head(e)
<1>1. v \in Requests /\ Carries(s, v) /\ d \in Seq(Replies)
  <2>1. v = e[1] /\ e[1] \in Requests /\ Len(e) \in Nat \ {0} /\ d \in Seq(Replies)
    BY TailFacts DEF PipeOf, TypesOf
  <2>2. 1 \in 1..Len(e)
    BY <2>1
  <2> QED BY <2>1, <2>2 DEF PipeOf, ContentOf
<1> HIDE DEF v
<1>2. CASE out = <<>>
  BY <1>1, <1>2, PipeDropEvent, ConcatEmptySeq
<1>3. ASSUME NEW x \in Replies, x.to = v.id, Fits(s, x), out = <<x>>
      PROVE  PipeOf(s, b, Tail(e), d \o out, r)
  <2>1. Append(d, x) = d \o <<x>>
    BY <1>1, AppendIsConcat
  <2> QED BY <1>3, <2>1, PipeReply DEF v
<1>4. ASSUME NEW a \in Answers,
             a = "brief" => Brief \in v.props, a = "full" => Brief \notin v.props,
             a = "status" => v.uid = "svc"
      PROVE  /\ [to |-> v.id, as |-> a] \in Replies
             /\ Fits(s, [to |-> v.id, as |-> a])
  BY <1>1, <1>4 DEF Requests, Replies, Carries, Fits
<1>5. \/ out = <<>>
      \/ \E a \in Answers :
           /\ out = <<[to |-> v.id, as |-> a]>>
           /\ a = "brief" => Brief \in v.props
           /\ a = "full" => Brief \notin v.props
           /\ a = "status" => v.uid = "svc"
  <2>1. CASE v.uid = "help"
    <3>1. out = <<[to |-> v.id, as |-> IF Brief \in v.props THEN "brief" ELSE "full"]>>
      BY <2>1 DEF Handled, v
    <3>2. CASE Brief \in v.props
      BY <3>1, <3>2 DEF Answers
    <3>3. CASE Brief \notin v.props
      BY <3>1, <3>3 DEF Answers
    <3> QED BY <3>2, <3>3
  <2>2. CASE v.uid # "help"
    <3>1. out = <<>> \/ out = <<[to |-> v.id, as |-> "status"]>>
      BY <2>2 DEF Handled, v
    <3>2. v.uid = "svc"
      BY <2>2, <1>1 DEF Requests, Uids
    <3> QED BY <3>1, <3>2 DEF Answers
  <2> QED BY <2>1, <2>2
<1> QED BY <1>2, <1>3, <1>4, <1>5

\* The first of the posted replies is written.
LEMMA PipeWrite ==
  ASSUME NEW s, NEW b, NEW e, NEW d, NEW r, PipeOf(s, b, e, d, r), d # <<>>
  PROVE  PipeOf(s, b, e, Tail(d), Append(r, Head(d)))
<1> DEFINE x == Head(d)
           f == Append(r, x)
           t == Tail(d)
           k == LastRead(s, b)
<1>1. x = d[1] /\ 1 \in 1..Len(d) /\ x \in Replies
  <2>1. Head(d) = d[1] /\ d[1] \in Replies /\ Len(d) \in Nat \ {0}
    BY TailFacts DEF PipeOf, TypesOf
  <2> QED BY <2>1
<1>2. PipeOf(s, b, e, t, r) /\ \A i \in 1..Len(t) : x.to < t[i].to
  BY PipeDropSend
<1>3. /\ \A i \in 1..Len(r) : r[i].to < x.to
      /\ \A i \in 1..Len(e) : x.to < e[i].id
      /\ x.to <= k /\ Fits(s, x)
  BY <1>1 DEF PipeOf, OrderOf, ContentOf
<1> HIDE DEF x, t, k
<1>4. /\ f \in Seq(Replies) /\ Len(f) = Len(r) + 1 /\ Len(r) \in Nat
      /\ \A i \in 1..Len(r) : f[i] = r[i]
      /\ f[Len(r) + 1] = x
  BY <1>1, AppendProperties, LenProperties DEF PipeOf, TypesOf
<1> HIDE DEF f
<1>5. \A i \in 1..Len(f) : \/ i \in 1..Len(r) /\ f[i] = r[i]
                           \/ i = Len(r) + 1 /\ f[i] = x
  BY <1>4
<1>6. OrderOf(k, e, t, r) /\ ContentOf(s, e, t, r)
  BY <1>2 DEF PipeOf, k
<1>7. \A i, j \in 1..Len(f) : i < j => f[i].to < f[j].to
  <2> SUFFICES ASSUME NEW i \in 1..Len(f), NEW j \in 1..Len(f), i < j PROVE f[i].to < f[j].to
    OBVIOUS
  <2>1. CASE j \in 1..Len(r)
    BY <2>1, <1>4, <1>6 DEF OrderOf
  <2>2. CASE j = Len(r) + 1
    <3>1. i \in 1..Len(r)
      BY <2>2, <1>4
    <3> QED BY <2>2, <3>1, <1>3, <1>4
  <2> QED BY <1>5, <2>1, <2>2
<1>8. OrderOf(k, e, t, f)
  BY <1>2, <1>3, <1>5, <1>6, <1>7 DEF OrderOf
<1>9. ContentOf(s, e, t, f)
  BY <1>3, <1>5, <1>6 DEF ContentOf
<1> QED BY <1>2, <1>4, <1>8, <1>9 DEF PipeOf, TypesOf, x, f, t, k

-----------------------------------------------------------------------------
(***************************************************************************)
(* The steps of the console                                                *)
(***************************************************************************)
\* The bound on the requests of all connections bounds those of each.
LEMMA RoomForRequest ==
  ASSUME TypeOK, NEW c \in Conns,
         Cardinality({q \in Conns \X (1..MaxSent) : q[2] =< Len(sent[q[1]])}) < MaxSent
  PROVE  Len(sent[c]) + 1 \in 1..MaxSent
<1> DEFINE S == {q \in Conns \X (1..MaxSent) : q[2] =< Len(sent[q[1]])}
           f == [n \in 1..MaxSent |-> <<c, n>>]
<1>1. Len(sent[c]) \in Nat /\ MaxSent \in Nat
  BY ConsoleAssumption, LenProperties DEF TypeOK
<1>2. IsFiniteSet(1..MaxSent) /\ Cardinality(1..MaxSent) = MaxSent
  BY <1>1, FS_Interval
<1>3. IsFiniteSet(S)
  <2>1. IsFiniteSet(Conns \X (1..MaxSent))
    BY <1>2, ConsoleAssumption, FS_Product
  <2>2. S \in SUBSET (Conns \X (1..MaxSent))
    OBVIOUS
  <2> HIDE DEF S
  <2> QED BY <2>1, <2>2, FS_Subset
<1>4. SUFFICES ASSUME Len(sent[c]) >= MaxSent PROVE FALSE
  BY <1>1
<1>5. \A n \in 1..MaxSent : <<c, n>> \in S
  BY <1>1, <1>4
<1> HIDE DEF S
<1>6. f \in Injection(1..MaxSent, S)
  <2>1. f \in [1..MaxSent -> S]
    BY <1>5
  <2>2. \A m, n \in 1..MaxSent : f[m] = f[n] => m = n
    OBVIOUS
  <2> HIDE DEF f
  <2> QED BY <2>1, <2>2 DEF Injection, IsInjective
<1> HIDE DEF f
<1>7. Cardinality(1..MaxSent) <= Cardinality(S) /\ Cardinality(S) \in Nat
  BY <1>3, <1>6, FS_Injection, FS_CardinalityType
<1> QED BY <1>1, <1>2, <1>7 DEF S

\* A connection that nothing is done with stays as it is.
LEMMA PipeStays ==
  ASSUME NEW c \in Conns, Pipe(c), sent'[c] = sent[c], inbox'[c] = inbox[c],
         events'[c] = events[c], sends'[c] = sends[c], replies'[c] = replies[c]
  PROVE  Pipe(c)'
BY DEF Pipe

\* The five sequences of c become these.
LEMMA PipeBecomes ==
  ASSUME NEW c \in Conns, NEW s, NEW b, NEW e, NEW d, NEW r, PipeOf(s, b, e, d, r),
         sent'[c] = s, inbox'[c] = b, events'[c] = e, sends'[c] = d, replies'[c] = r
  PROVE  Pipe(c)'
BY DEF Pipe

\* Steps of a client, or of the handlers of a connection, that leave the console alone.
LEMMA RequestStep ==
  ASSUME IInv, NEW c \in Conns, Request(c)
  PROVE  TypeOK' /\ \A a \in Conns : Pipe(a)'
<1> USE DEF IInv
<1>1. PICK uid \in Uids, props \in SUBSET Names :
        LET x == [id |-> Len(sent[c]) + 1, uid |-> uid, props |-> props]
        IN  /\ sent' = [sent EXCEPT ![c] = Append(@, x)]
            /\ inbox' = [inbox EXCEPT ![c] =
                 @ \o <<[half |-> "head", of |-> x], [half |-> "tail", of |-> x]>>]
  BY DEF Request
<1> DEFINE x == [id |-> Len(sent[c]) + 1, uid |-> uid, props |-> props]
<1>2. x \in Requests /\ x.id = Len(sent[c]) + 1
  BY RoomForRequest DEF Request, Requests
<1>3. /\ sent' = [sent EXCEPT ![c] = Append(sent[c], x)]
      /\ inbox' = [inbox EXCEPT ![c] = inbox[c] \o Both(x)]
  BY <1>1 DEF Both
<1> HIDE DEF x
<1>4. /\ UNCHANGED <<alive, io, console, closes, life, peer, stopped, reading, events, sends,
                     replies>>
      /\ sent'[c] = Append(sent[c], x) /\ inbox'[c] = inbox[c] \o Both(x)
      /\ \A a \in Conns \ {c} : sent'[a] = sent[a] /\ inbox'[a] = inbox[a]
  BY <1>3 DEF Request, TypeOK
<1>5. PipeOf(Append(sent[c], x), inbox[c] \o Both(x), events[c], sends[c], replies[c])
  BY <1>2, PipeRequest DEF Pipe
<1>6. Pipe(c)'
  BY <1>4, <1>5, PipeBecomes
<1>7. \A a \in Conns : Pipe(a)'
  BY <1>4, <1>6, PipeStays
<1>8. sent' \in [Conns -> Seq(Requests)] /\ inbox' \in [Conns -> Seq(Halves)]
  BY <1>3, <1>5 DEF PipeOf, TypesOf, TypeOK
<1> QED BY <1>4, <1>7, <1>8 DEF TypeOK, console

LEMMA OnReadStep ==
  ASSUME IInv, NEW c \in Conns, OnRead(c)
  PROVE  TypeOK' /\ \A a \in Conns : Pipe(a)'
<1> USE DEF IInv
<1>0. PICK n \in Ends(c) :
        /\ \E rs \in Parsed(SubSeq(inbox[c], 1, n)) :
             events' = [events EXCEPT ![c] = @ \o Merged(rs)]
        /\ inbox' = [inbox EXCEPT ![c] = SubSeq(@, n + 1, Len(@))]
  BY DEF OnRead
<1>1. PICK rs \in Parsed(SubSeq(inbox[c], 1, n)) :
        events' = [events EXCEPT ![c] = @ \o Merged(rs)]
  BY <1>0
<1>2. n \in 1..Len(inbox[c])
  BY LenProperties DEF Ends, TypeOK
<1> DEFINE e == events[c] \o Merged(rs)
           b == SubSeq(inbox[c], n + 1, Len(inbox[c]))
<1>3. PipeOf(sent[c], b, e, sends[c], replies[c])
  BY <1>2, PipeRead DEF Pipe
<1>4. events' = [events EXCEPT ![c] = e] /\ inbox' = [inbox EXCEPT ![c] = b]
  BY <1>0, <1>1
<1> HIDE DEF e, b
<1>5. /\ UNCHANGED <<alive, io, console, closes, life, client, stopped, reading, sends, replies>>
      /\ events'[c] = e /\ inbox'[c] = b
      /\ \A a \in Conns \ {c} : events'[a] = events[a] /\ inbox'[a] = inbox[a]
  BY <1>4 DEF OnRead, TypeOK
<1>6. Pipe(c)'
  BY <1>3, <1>5, PipeBecomes DEF client
<1>7. \A a \in Conns : Pipe(a)'
  BY <1>5, <1>6, PipeStays DEF client
<1>8. events' \in [Conns -> Seq(Requests)] /\ inbox' \in [Conns -> Seq(Halves)]
  BY <1>3, <1>4 DEF PipeOf, TypesOf, TypeOK
<1> QED BY <1>5, <1>7, <1>8 DEF TypeOK, console, client

LEMMA DispatchStep ==
  ASSUME IInv, NEW c \in Conns, Dispatch(c)
  PROVE  TypeOK' /\ \A a \in Conns : Pipe(a)'
<1> USE DEF IInv
<1>1. PICK out \in Handled(Head(events[c])) : sends' = [sends EXCEPT ![c] = @ \o out]
  BY DEF Dispatch
<1> DEFINE e == Tail(events[c])
           d == sends[c] \o out
<1>2. PipeOf(sent[c], inbox[c], e, d, replies[c])
  BY PipeDispatch DEF Pipe, Dispatch
<1>3. events' = [events EXCEPT ![c] = e] /\ sends' = [sends EXCEPT ![c] = d]
  BY <1>1 DEF Dispatch
<1> HIDE DEF e, d
<1>4. /\ UNCHANGED <<alive, io, console, closes, life, client, stopped, inbox, reading, replies>>
      /\ events'[c] = e /\ sends'[c] = d
      /\ \A a \in Conns \ {c} : events'[a] = events[a] /\ sends'[a] = sends[a]
  BY <1>3 DEF Dispatch, TypeOK
<1>5. Pipe(c)'
  BY <1>2, <1>4, PipeBecomes DEF client
<1>6. \A a \in Conns : Pipe(a)'
  BY <1>4, <1>5, PipeStays DEF client
<1>7. events' \in [Conns -> Seq(Requests)] /\ sends' \in [Conns -> Seq(Replies)]
  BY <1>2, <1>3 DEF PipeOf, TypesOf, TypeOK
<1> QED BY <1>4, <1>6, <1>7 DEF TypeOK, console, client

\* The callback of stop posts the close.
LEMMA StopEffect ==
  ASSUME TypeOK, NEW c \in Conns, Stop(c)
  PROVE  /\ stopped' \in [Conns -> BOOLEAN] /\ closes' \in Seq(Conns) /\ alive' \in BOOLEAN
         /\ phase = "launched" => alive'
<1>1. closes' \in Seq(Conns)
  BY AppendProperties DEF Stop, TypeOK
<1> QED BY <1>1 DEF Stop, TypeOK

LEMMA DoSendStep ==
  ASSUME IInv, NEW c \in Conns, DoSend(c)
  PROVE  TypeOK' /\ \A a \in Conns : Pipe(a)'
<1> USE DEF IInv
<1> DEFINE d == Tail(sends[c])
           r == Append(replies[c], Head(sends[c]))
<1>1. /\ PipeOf(sent[c], inbox[c], events[c], d, r)
      /\ PipeOf(sent[c], inbox[c], events[c], d, replies[c])
  BY PipeWrite, PipeDropSend DEF Pipe, DoSend
<1>2. /\ sends' = [sends EXCEPT ![c] = d]
      /\ \/ /\ replies' = [replies EXCEPT ![c] = r]
            /\ UNCHANGED <<alive, closes, stopped, reading>>
         \/ /\ Stop(c) /\ UNCHANGED replies
            /\ reading' \in {reading,
                             [reading EXCEPT ![c] = IF @ = "pending" THEN "aborted" ELSE @]}
  BY DEF DoSend
<1>3. UNCHANGED <<io, console, life, client, inbox, events>>
  BY DEF DoSend
<1> HIDE DEF d, r
<1>4. /\ sends'[c] = d /\ replies'[c] \in {r, replies[c]}
      /\ \A a \in Conns \ {c} : sends'[a] = sends[a] /\ replies'[a] = replies[a]
  BY <1>2 DEF TypeOK
<1>5. Pipe(c)'
  BY <1>1, <1>3, <1>4, PipeBecomes DEF client
<1>6. \A a \in Conns : Pipe(a)'
  BY <1>3, <1>4, <1>5, PipeStays DEF client
<1>7. sends' \in [Conns -> Seq(Replies)] /\ replies' \in [Conns -> Seq(Replies)]
  BY ZenonT(60), <1>1, <1>2 DEF PipeOf, TypesOf, TypeOK
<1>8. /\ stopped' \in [Conns -> BOOLEAN] /\ closes' \in Seq(Conns) /\ alive' \in BOOLEAN
      /\ reading' \in [Conns -> {"no", "pending", "aborted"}]
  BY <1>2, StopEffect DEF TypeOK
<1> QED BY <1>3, <1>6, <1>7, <1>8 DEF TypeOK, console, client

LEMMA UseFreedStep ==
  ASSUME IInv, NEW c \in Conns, UseFreed(c)
  PROVE  TypeOK' /\ \A a \in Conns : Pipe(a)'
<1> USE DEF IInv
<1>1. UNCHANGED <<io, console, closes, life, client, stopped, inbox, replies>> /\ alive' \in BOOLEAN
  BY DEF UseFreed
<1>2. CASE /\ reading' = [reading EXCEPT ![c] = "no"]
           /\ UNCHANGED <<events, sends>>
  BY <1>1, <1>2, PipeStays DEF TypeOK, console, client
<1>3. CASE /\ events[c] # <<>>
           /\ events' = [events EXCEPT ![c] = Tail(events[c])]
           /\ UNCHANGED <<reading, sends>>
  <2>1. PipeOf(sent[c], inbox[c], Tail(events[c]), sends[c], replies[c])
    BY <1>3, PipeDropEvent DEF Pipe
  <2>2. events'[c] = Tail(events[c]) /\ \A a \in Conns \ {c} : events'[a] = events[a]
    BY <1>3 DEF TypeOK
  <2>3. Pipe(c)'
    BY <1>1, <1>3, <2>1, <2>2, PipeBecomes DEF client
  <2>4. \A a \in Conns : Pipe(a)'
    BY <1>1, <1>3, <2>2, <2>3, PipeStays DEF client
  <2>5. events' \in [Conns -> Seq(Requests)]
    BY <1>3, <2>1 DEF PipeOf, TypesOf, TypeOK
  <2> QED BY <1>1, <1>3, <2>4, <2>5 DEF TypeOK, console, client
<1>4. CASE /\ sends[c] # <<>>
           /\ sends' = [sends EXCEPT ![c] = Tail(sends[c])]
           /\ UNCHANGED <<reading, events>>
  <2>1. PipeOf(sent[c], inbox[c], events[c], Tail(sends[c]), replies[c])
    BY <1>4, PipeDropSend DEF Pipe
  <2>2. sends'[c] = Tail(sends[c]) /\ \A a \in Conns \ {c} : sends'[a] = sends[a]
    BY <1>4 DEF TypeOK
  <2>3. Pipe(c)'
    BY <1>1, <1>4, <2>1, <2>2, PipeBecomes DEF client
  <2>4. \A a \in Conns : Pipe(a)'
    BY <1>1, <1>4, <2>2, <2>3, PipeStays DEF client
  <2>5. sends' \in [Conns -> Seq(Replies)]
    BY <1>4, <2>1 DEF PipeOf, TypesOf, TypeOK
  <2> QED BY <1>1, <1>4, <2>4, <2>5 DEF TypeOK, console, client
<1> QED BY <1>2, <1>3, <1>4 DEF UseFreed

LEMMA OnReadErrorStep ==
  ASSUME IInv, NEW c \in Conns, OnReadError(c)
  PROVE  TypeOK' /\ \A a \in Conns : Pipe(a)'
<1> USE DEF IInv
<1>1. /\ UNCHANGED <<io, console, life, client, inbox, events, sends, replies>>
      /\ reading' = [reading EXCEPT ![c] = "no"]
      /\ Stop(c)
  BY DEF OnReadError
<1>2. \A a \in Conns : Pipe(a)'
  BY <1>1, PipeStays DEF client
<1> QED BY <1>1, <1>2, StopEffect DEF TypeOK, console, client

\* What the client or a handler of c does leaves the console's part alone.
LEMMA HandlersLeaveConsole ==
  ASSUME IInv, NEW c \in Conns,
         \/ Request(c) \/ Disconnect(c) \/ OnRead(c) \/ OnReadError(c) \/ Dispatch(c)
         \/ DoSend(c) \/ UseFreed(c)
  PROVE  Accepting' /\ NothingYet'
<1> USE DEF IInv
<1>1. UNCHANGED <<console, life>> /\ alive
  BY DEF Request, Disconnect, OnRead, OnReadError, Dispatch, DoSend, UseFreed, Free
<1> QED BY <1>1 DEF Accepting, NothingYet, Serves, console

-----------------------------------------------------------------------------
\* The connection made for the next client.
LEMMA NextIsUnborn ==
  ASSUME TypeOK, NextAccept
  PROVE  /\ newConn' \in Conns /\ life[newConn'] = "unborn"
         /\ life' = [life EXCEPT ![newConn'] = "waiting"]
         /\ accept' = IF phase = "down" THEN "failed" ELSE "waiting"
BY DEF NextAccept

\* Steps of the console itself: what is on its way for a connection is left alone.
LEMMA ConsoleKeepsPipes ==
  ASSUME IInv,
         \/ Connect \/ Launch \/ HandleAccept \/ AcceptNext \/ AcceptFailed \/ Close
         \/ StopIo \/ Shutdown \/ Delete
  PROVE  UNCHANGED <<sent, inbox, events, sends, replies>> /\ \A a \in Conns : Pipe(a)'
<1>1. UNCHANGED <<sent, inbox, events, sends, replies>>
  BY DEF Connect, Launch, HandleAccept, AcceptNext, AcceptFailed, Close, StopIo, Shutdown,
         Delete, client, streams
<1> QED BY <1>1, PipeStays DEF IInv

LEMMA ConnectStep ==
  ASSUME IInv, Connect
  PROVE  TypeOK' /\ Accepting' /\ NothingYet'
<1> USE DEF IInv
<1>1. TypeOK'
  BY DEF Connect, TypeOK, streams
<1> QED BY <1>1 DEF Connect, Accepting, NothingYet, Serves

LEMMA LaunchStep ==
  ASSUME IInv, Launch
  PROVE  TypeOK' /\ Accepting' /\ NothingYet'
<1> USE DEF IInv
<1>1. /\ newConn' \in Conns /\ life' = [life EXCEPT ![newConn'] = "waiting"]
      /\ accept' = "waiting" /\ phase' = "launched"
      /\ UNCHANGED <<alive, io, busy, bots, closes, client, stopped, streams>>
  BY NextIsUnborn DEF Launch
<1>2. TypeOK'
  BY <1>1 DEF TypeOK, client, streams
<1>3. Accepting'
  <2>1. bots = {} /\ ~busy /\ \A c \in Conns : life[c] = "unborn"
    BY DEF Launch, NothingYet
  <2>2. \A c \in Conns : life'[c] \in {"unborn", "waiting"}
    BY <1>1, <2>1 DEF TypeOK
  <2>3. life'[newConn'] = "waiting" /\ newConn' # None
    BY <1>1, ConsoleAssumption DEF TypeOK
  <2> QED BY <1>1, <2>1, <2>2, <2>3 DEF Accepting, Serves
<1> QED BY <1>1, <1>2, <1>3 DEF NothingYet

\* Until the console makes the next connection, it lists the one it has begun to serve.
LEMMA HandleAcceptStep ==
  ASSUME IInv, HandleAccept
  PROVE  TypeOK' /\ Accepting' /\ NothingYet'
<1> USE DEF IInv
<1>1. /\ UNCHANGED <<io, phase, newConn, closes, client, stopped, inbox, events, sends, replies>>
      /\ accept' = "none" /\ alive /\ ~busy
  BY DEF HandleAccept, Free
<1>2. CASE /\ alive' \in IF phase = "deleted" THEN BOOLEAN ELSE {FALSE}
           /\ UNCHANGED <<busy, bots, life, reading>>
  BY <1>1, <1>2 DEF TypeOK, Accepting, NothingYet, client
<1>3. CASE /\ newConn \in Conns
           /\ life' = [life EXCEPT ![newConn] = "serving"]
           /\ reading' = [reading EXCEPT ![newConn] = "pending"]
           /\ bots' = bots \union {newConn}
           /\ busy' = TRUE
           /\ UNCHANGED alive
  <2>1. TypeOK'
    BY <1>1, <1>3 DEF TypeOK, client
  <2>2. life'[newConn] = "serving" /\ \A c \in Conns \ {newConn} : life'[c] = life[c]
    BY <1>3 DEF TypeOK
  <2>3. Accepting'
    BY <1>1, <1>3, <2>2, ConsoleAssumption DEF Accepting, Serves
  <2>4. NothingYet'
    BY <1>1, <1>3, ConsoleAssumption DEF NothingYet
  <2> QED BY <2>1, <2>3, <2>4
<1>4. CASE alive' = FALSE /\ UNCHANGED <<busy, bots, life, reading>>
  BY <1>1, <1>4 DEF TypeOK, Accepting, NothingYet, client
<1>5. newConn # None => newConn \in Conns
  BY DEF TypeOK
<1> QED BY <1>2, <1>3, <1>4, <1>5 DEF HandleAccept

LEMMA AcceptNextStep ==
  ASSUME IInv, AcceptNext
  PROVE  TypeOK' /\ Accepting' /\ NothingYet'
<1> USE DEF IInv
<1>1. /\ UNCHANGED <<io, phase, bots, closes, client, stopped, streams>>
      /\ busy' = FALSE /\ alive /\ busy /\ phase # "created"
  BY DEF AcceptNext, NothingYet
<1>2. CASE phase = "deleted" /\ alive' \in BOOLEAN /\ UNCHANGED <<newConn, life, accept>>
  BY <1>1, <1>2 DEF TypeOK, Accepting, NothingYet, client, streams
<1>3. CASE NextAccept /\ UNCHANGED alive
  <2>1. /\ newConn' \in Conns /\ life[newConn'] = "unborn"
        /\ life' = [life EXCEPT ![newConn'] = "waiting"]
        /\ accept' = IF phase = "down" THEN "failed" ELSE "waiting"
    BY <1>3, NextIsUnborn
  <2>2. TypeOK'
    BY <1>1, <1>3, <2>1 DEF TypeOK, client, streams
  <2>3. life'[newConn'] = "waiting" /\ \A c \in Conns \ {newConn'} : life'[c] = life[c]
    BY <2>1 DEF TypeOK
  <2>4. {c \in Conns : Serves(c)}' = {c \in Conns : Serves(c)}
    BY <2>1, <2>3 DEF Serves
  <2>5. Accepting'
    BY <1>1, <1>3, <2>1, <2>3, <2>4, ConsoleAssumption DEF Accepting
  <2> QED BY <1>1, <2>2, <2>5 DEF NothingYet
<1> QED BY <1>2, <1>3 DEF AcceptNext

\* A failed accept ends the process, unless the console was shut down; and it does
\* not fail before.
LEMMA AcceptFailedStep ==
  ASSUME IInv, AcceptFailed
  PROVE  TypeOK' /\ Accepting' /\ NothingYet'
<1> USE DEF IInv
<1>1. /\ UNCHANGED <<io, phase, busy, newConn, bots, closes, life, client, stopped, streams>>
      /\ accept' = "none" /\ alive' \in BOOLEAN
      /\ phase # "deleted" => ~alive'
  BY DEF AcceptFailed
<1> QED BY <1>1 DEF TypeOK, Accepting, NothingYet, client, streams

\* Closing takes a connection and its bot, and never the one for the next client.
LEMMA CloseStep ==
  ASSUME IInv, Close
  PROVE  TypeOK' /\ Accepting' /\ NothingYet'
<1> USE DEF IInv
<1> DEFINE h == Head(closes)
<1>1. /\ h \in Conns /\ closes' = Tail(closes) /\ closes' \in Seq(Conns)
      /\ UNCHANGED <<io, phase, busy, accept, newConn, client, stopped, inbox, events, sends,
                     replies>>
      /\ alive /\ ~busy
  <2>1. closes # <<>> /\ closes \in Seq(Conns)
    BY DEF Close, TypeOK
  <2>2. h \in Conns /\ Tail(closes) \in Seq(Conns)
    BY <2>1, HeadTailProperties
  <2> QED BY <2>2 DEF Close, Free
<1>2. CASE Serves(h) /\ Freed(h) /\ bots' = bots \ {h} /\ UNCHANGED alive
  <2> HIDE DEF h
  <2>1. TypeOK'
    BY <1>1, <1>2 DEF TypeOK, Freed, client
  <2>2. life'[h] = "freed" /\ \A c \in Conns \ {h} : life'[c] = life[c]
    BY <1>1, <1>2 DEF TypeOK, Freed
  <2>3. {c \in Conns : Serves(c)}' = {c \in Conns : Serves(c)} \ {h}
    BY <2>2 DEF Serves
  <2>4. Accepting'
    <3>1. CASE phase = "launched"
      <4>1. newConn # h
        BY <1>1, <1>2, <3>1 DEF Accepting, Serves
      <4>2. newConn \in Conns \ {h}
        BY <1>1, <3>1, <4>1 DEF Accepting, TypeOK
      <4> QED BY <1>1, <1>2, <2>2, <2>3, <3>1, <4>2 DEF Accepting
    <3> QED BY <1>1, <3>1 DEF Accepting
  <2>5. NothingYet'
    BY <1>1, <1>2 DEF NothingYet, Serves
  <2> QED BY <2>1, <2>4, <2>5
<1>3. CASE alive' \in BOOLEAN /\ UNCHANGED <<life, reading, bots>>
  BY <1>1, <1>3 DEF TypeOK, Accepting, NothingYet, Serves, client
<1> QED BY <1>2, <1>3 DEF Close

LEMMA StopIoStep ==
  ASSUME IInv, StopIo
  PROVE  TypeOK' /\ Accepting' /\ NothingYet'
BY DEF IInv, StopIo, TypeOK, Accepting, NothingYet, Serves, console, client, streams

LEMMA ShutDownStep ==
  ASSUME IInv, Shutdown \/ Delete
  PROVE  TypeOK' /\ Accepting' /\ NothingYet'
<1> USE DEF IInv
<1>1. /\ phase' \in {"down", "deleted"} /\ newConn' = None /\ bots' \subseteq Conns
      /\ accept' = IF accept = "waiting" THEN "failed" ELSE accept
      /\ IF newConn = None THEN UNCHANGED <<life, reading>> ELSE Freed(newConn)
      /\ UNCHANGED <<alive, io, busy, closes, client, stopped, inbox, events, sends, replies>>
  BY DEF Shutdown, Delete, ShutDown, TypeOK
<1>2. /\ life' \in [Conns -> {"unborn", "waiting", "serving", "freed"}]
      /\ reading' \in [Conns -> {"no", "pending", "aborted"}]
  BY <1>1 DEF Freed, TypeOK
<1> QED BY <1>1, <1>2 DEF TypeOK, Accepting, NothingYet, client

-----------------------------------------------------------------------------
LEMMA InitIInv == Init => IInv
<1> SUFFICES ASSUME Init PROVE IInv
  OBVIOUS
<1>1. TypeOK
  <2>1. /\ sent \in [Conns -> Seq(Requests)] /\ inbox \in [Conns -> Seq(Halves)]
        /\ events \in [Conns -> Seq(Requests)] /\ sends \in [Conns -> Seq(Replies)]
        /\ replies \in [Conns -> Seq(Replies)] /\ closes \in Seq(Conns)
    BY DEF Init
  <2>2. /\ life \in [Conns -> {"unborn", "waiting", "serving", "freed"}]
        /\ peer \in [Conns -> {"none", "up", "gone"}]
        /\ stopped \in [Conns -> BOOLEAN]
        /\ reading \in [Conns -> {"no", "pending", "aborted"}]
    BY DEF Init
  <2> QED BY <2>1, <2>2 DEF Init, TypeOK
<1>2. Accepting /\ NothingYet
  BY DEF Init, Accepting, NothingYet
<1>3. ASSUME NEW c \in Conns PROVE Pipe(c)
  <2>1. PipeOf(<<>>, <<>>, <<>>, <<>>, <<>>)
    BY DEF PipeOf, TypesOf, WireOf, OrderOf, ContentOf
  <2> QED BY <2>1 DEF Init, Pipe
<1> QED BY <1>1, <1>2, <1>3 DEF IInv

LEMMA IInvStep == IInv /\ [Next]_vars => IInv'
<1> SUFFICES ASSUME IInv, [Next]_vars PROVE IInv'
  OBVIOUS
<1>1. ASSUME NEW c \in Conns, Request(c) PROVE IInv'
  BY <1>1, RequestStep, HandlersLeaveConsole DEF IInv
<1>2. ASSUME NEW c \in Conns, Disconnect(c) PROVE IInv'
  <2>1. TypeOK'
    BY <1>2 DEF IInv, TypeOK, Disconnect, console, streams
  <2>2. \A a \in Conns : Pipe(a)'
    BY <1>2, PipeStays DEF IInv, Disconnect, streams
  <2> QED BY <1>2, <2>1, <2>2, HandlersLeaveConsole DEF IInv
<1>3. ASSUME NEW c \in Conns, OnRead(c) PROVE IInv'
  BY <1>3, OnReadStep, HandlersLeaveConsole DEF IInv
<1>4. ASSUME NEW c \in Conns, OnReadError(c) PROVE IInv'
  BY <1>4, OnReadErrorStep, HandlersLeaveConsole DEF IInv
<1>5. ASSUME NEW c \in Conns, Dispatch(c) PROVE IInv'
  BY <1>5, DispatchStep, HandlersLeaveConsole DEF IInv
<1>6. ASSUME NEW c \in Conns, DoSend(c) PROVE IInv'
  BY <1>6, DoSendStep, HandlersLeaveConsole DEF IInv
<1>7. ASSUME NEW c \in Conns, UseFreed(c) PROVE IInv'
  BY <1>7, UseFreedStep, HandlersLeaveConsole DEF IInv
<1>8. ASSUME \/ Connect \/ Launch \/ HandleAccept \/ AcceptNext \/ AcceptFailed \/ Close
             \/ StopIo \/ Shutdown \/ Delete
      PROVE  IInv'
  <2>1. \A a \in Conns : Pipe(a)'
    BY <1>8, ConsoleKeepsPipes
  <2>2. TypeOK' /\ Accepting' /\ NothingYet'
    BY <1>8, ConnectStep, LaunchStep, HandleAcceptStep, AcceptNextStep, AcceptFailedStep,
       CloseStep, StopIoStep, ShutDownStep
  <2> QED BY <2>1, <2>2 DEF IInv
<1>9. CASE UNCHANGED vars
  <2>1. \A a \in Conns : Pipe(a)'
    BY <1>9, PipeStays DEF IInv, vars, client, streams
  <2> QED BY <1>9, <2>1
          DEF IInv, TypeOK, Accepting, NothingYet, Serves, vars, console, client, streams
<1> QED BY <1>1, <1>2, <1>3, <1>4, <1>5, <1>6, <1>7, <1>8, <1>9 DEF Next

\* The inductive invariant of the console holds in every state.
THEOREM Invariance == Spec => []IInv
BY InitIInv, IInvStep, PTL DEF Spec

\* For any number of connections: until it is shut down, the console lists the bots
\* of exactly the connections it serves, and has one more for the next client, whose
\* accept is on its way unless the io thread is about to make it (console.cpp,
\* handle_accept and close).
THEOREM AcceptsAlways == Spec => []Accepts
<1>1. IInv => Accepts
  BY DEF IInv, Accepting, Accepts
<1> QED BY <1>1, Invariance, PTL

\* The order and the content of the replies, for one connection.
LEMMA PipeReplies ==
  ASSUME NEW c \in Conns, Pipe(c), NEW i \in DOMAIN replies[c]
  PROVE  /\ replies[c][i] \in Replies
         /\ replies[c][i].to \in DOMAIN sent[c]
         /\ Fits(sent[c], replies[c][i])
         /\ \A j \in 1..(i - 1) : replies[c][j].to < replies[c][i].to
<1> DEFINE s == sent[c]
           b == inbox[c]
           r == replies[c]
<1>1. PipeOf(s, b, events[c], sends[c], r)
  BY DEF Pipe
<1>2. r \in Seq(Replies) /\ s \in Seq(Requests) /\ b \in Seq(Halves)
  BY <1>1 DEF PipeOf, TypesOf
<1> HIDE DEF s, b, r
<1>3. /\ DOMAIN r = 1..Len(r) /\ DOMAIN s = 1..Len(s)
      /\ Len(r) \in Nat /\ Len(s) \in Nat /\ Len(b) \in Nat
  BY <1>2, LenProperties
<1>4. i \in 1..Len(r)
  BY <1>3 DEF r
<1>5. r[i] \in Replies
  BY <1>2, <1>4, ElementOfSeq
<1>6. r[i].to \in 1..MaxSent
  BY <1>5 DEF Replies
<1>7. r[i].to <= LastRead(s, b) /\ Fits(s, r[i]) /\ \A m, n \in 1..Len(r) : m < n => r[m].to < r[n].to
  BY <1>1, <1>4 DEF PipeOf, OrderOf, ContentOf
<1>8. LastRead(s, b) <= Len(s) /\ LastRead(s, b) \in Int
  BY <1>3 DEF LastRead
<1>9. r[i].to \in 1..Len(s)
  BY <1>3, <1>6, <1>7, <1>8, ConsoleAssumption
<1>10. \A j \in 1..(i - 1) : r[j].to < r[i].to
  BY <1>3, <1>4, <1>7
<1> QED BY <1>3, <1>5, <1>7, <1>9, <1>10 DEF s, r

\* For any number of connections, properties and requests, and however the halves of
\* the requests are read: a client gets its replies in the order of its requests, at
\* most one to each, and each fits what it answers (connection.cpp, dispatcher.cpp).
THEOREM RepliesComeInOrder == Spec => []RepliesInOrder
<1>1. IInv => RepliesInOrder
  <2> SUFFICES ASSUME IInv PROVE RepliesInOrder
    OBVIOUS
  <2>1. ASSUME NEW c \in Conns, NEW i \in DOMAIN replies[c]
        PROVE  LET reply == replies[c][i] IN
               CASE reply.as = "brief" -> \E n \in 1..reply.to : Brief \in sent[c][n].props
                 [] reply.as = "full"  -> Brief \notin sent[c][reply.to].props
                 [] OTHER              -> sent[c][reply.to].uid = "svc"
    <3>1. replies[c][i] \in Replies /\ Fits(sent[c], replies[c][i])
      BY PipeReplies DEF IInv
    <3>2. replies[c][i].as \in {"full", "brief", "status"}
      BY <3>1 DEF Replies, Answers
    <3> QED BY <3>1, <3>2 DEF Fits
  <2>2. ASSUME NEW c \in Conns, NEW i \in DOMAIN replies[c]
        PROVE  /\ replies[c][i].to \in DOMAIN sent[c]
               /\ \A j \in 1..(i - 1) : replies[c][j].to < replies[c][i].to
    BY PipeReplies DEF IInv
  <2> QED BY <2>1, <2>2 DEF RepliesInOrder, RepliesFit
<1> QED BY <1>1, Invariance, PTL
==================================================================================
