----------------------------- MODULE ChannelProofs -----------------------------
(***************************************************************************)
(* Proofs about Channel, for any number of queues, communicators and       *)
(* threads.  The inductive invariant is the conjunction IInv: the mutex    *)
(* is held exactly inside the critical sections, so a thread in one of     *)
(* them finds the table as it left it.                                     *)
(***************************************************************************)
EXTENDS Channel, SequenceTheorems, TLAPS

\* The arguments of a call are there as long as the call needs them.
ArgsInv ==
  /\ \A a \in Apps : pc[a] # "idle" => comm[a] \in Comms
  /\ \A a \in Apps : pc[a] \notin {"idle", "walk"} => queue[a] \in Queues
  /\ \A t \in Acceptors : pc[t] # "unborn" => queue[t] \in keys
  /\ \A t \in Acceptors : pc[t] \in {"iterate", "handler", "stuck"} => cursor[t] >= 1
  /\ \A t \in Acceptors : pc[t] \notin {"handler", "stuck"} => callee[t] = None

\* The point of a thread decides what it may assume of the table.
TableInv ==
  /\ \A q \in Queues : q \notin keys => subscribers[q] = <<>>
  /\ \A a \in Apps : pc[a] \in {"accept", "push"} =>
       /\ queue[a] \in keys
       /\ ~Contains(subscribers[queue[a]], comm[a])
  /\ \A a \in Apps, t \in Acceptors :
       pc[a] = "accept" /\ pc[t] # "unborn" => queue[t] # queue[a]

IInv ==
  /\ TypeOK
  /\ ArgsInv
  /\ MutexInv
  /\ TableInv
  /\ NoDuplicateSubscription
  /\ OneConsumerPerQueue
  /\ CalleeIsListed

----------------------------------------------------------------------------
(* The list operations                                                     *)

\* What erasing c from a list without duplicates returns: the others, each one
\* once, and c no more.
LEMMA ErasedProperties ==
  ASSUME NEW S, NEW s \in Seq(S), NEW c, Contains(s, c),
         \A i, j \in DOMAIN s : s[i] = s[j] => i = j
  PROVE  /\ Erased(s, c) \in Seq(S)
         /\ \A i, j \in DOMAIN Erased(s, c) :
              Erased(s, c)[i] = Erased(s, c)[j] => i = j
         /\ ToSet(Erased(s, c)) = ToSet(s) \ {c}
<1> DEFINE k == CHOOSE i \in DOMAIN s : s[i] = c /\ \A j \in 1 .. i - 1 : s[j] # c
           r == Erased(s, c)
<1>1. PICK h \in 1 .. Len(s) : s[h] = c
  BY DEF Contains
<1>2. DOMAIN s = 1 .. Len(s) /\ Len(s) \in Nat
  OBVIOUS
<1>3. \A j \in 1 .. h - 1 : s[j] # c
  BY <1>1, <1>2
<1>4. k \in 1 .. Len(s) /\ s[k] = c
  BY <1>1, <1>2, <1>3
<1>5. r = SubSeq(s, 1, k - 1) \o SubSeq(s, k + 1, Len(s))
  BY DEF Erased, RemoveAt
<1> HIDE DEF k, r
<1>6. /\ SubSeq(s, 1, k - 1) \in Seq(S) /\ Len(SubSeq(s, 1, k - 1)) = k - 1
      /\ \A j \in 1 .. k - 1 : SubSeq(s, 1, k - 1)[j] = s[j]
  BY <1>4, SMT
<1>7. /\ SubSeq(s, k + 1, Len(s)) \in Seq(S) /\ Len(SubSeq(s, k + 1, Len(s))) = Len(s) - k
      /\ \A j \in 1 .. Len(s) - k : SubSeq(s, k + 1, Len(s))[j] = s[k + j]
  BY <1>4, SMT
<1>8. /\ r \in Seq(S) /\ Len(r) = Len(s) - 1
      /\ \A j \in 1 .. Len(s) - 1 : r[j] = IF j < k THEN s[j] ELSE s[j + 1]
  <2> DEFINE u == SubSeq(s, 1, k - 1)
             v == SubSeq(s, k + 1, Len(s))
  <2>1. /\ u \in Seq(S) /\ Len(u) = k - 1 /\ v \in Seq(S) /\ Len(v) = Len(s) - k
        /\ \A j \in 1 .. k - 1 : u[j] = s[j]
        /\ \A j \in 1 .. Len(s) - k : v[j] = s[k + j]
    BY <1>6, <1>7
  <2> HIDE DEF u, v
  <2>2. r = u \o v
    BY <1>5 DEF u, v
  <2>3. /\ r \in Seq(S) /\ Len(r) = Len(u) + Len(v)
        /\ \A j \in 1 .. Len(u) + Len(v) : r[j] = IF j <= Len(u) THEN u[j] ELSE v[j - Len(u)]
    BY ZenonT(60), <2>1, <2>2, ConcatProperties
  <2>4. Len(r) = Len(s) - 1
    BY <1>2, <1>4, <2>1, <2>3
  <2>5. ASSUME NEW j \in 1 .. Len(s) - 1 PROVE r[j] = IF j < k THEN s[j] ELSE s[j + 1]
    <3>1. r[j] = IF j <= k - 1 THEN u[j] ELSE v[j - (k - 1)]
      BY <1>2, <1>4, <2>1, <2>3
    <3>2. CASE j < k
      <4>1. j \in 1 .. k - 1
        BY <3>2, <1>2, <1>4
      <4> QED BY <4>1, <3>1, <3>2, <2>1, <1>4
    <3>3. CASE ~(j < k)
      <4>1. j - (k - 1) \in 1 .. Len(s) - k
        BY <3>3, <1>2, <1>4
      <4>2. v[j - (k - 1)] = s[k + (j - (k - 1))]
        BY <4>1, <2>1
      <4>3. k + (j - (k - 1)) = j + 1
        BY <1>4
      <4> QED BY <4>2, <4>3, <3>1, <3>3, <1>4
    <3> QED BY <3>2, <3>3
  <2> QED BY <2>3, <2>4, <2>5
<1>9. DOMAIN r = 1 .. Len(s) - 1
  BY <1>8
<1>10. \A m, n \in DOMAIN r : r[m] = r[n] => m = n
  <2> SUFFICES ASSUME NEW m \in 1 .. Len(s) - 1, NEW n \in 1 .. Len(s) - 1, r[m] = r[n]
               PROVE  m = n
    BY <1>9
  <2>1. \A i, j \in 1 .. Len(s) : s[i] = s[j] => i = j
    BY <1>2
  <2> QED BY <2>1, <1>2, <1>4, <1>8
<1>11. ToSet(r) \subseteq ToSet(s) \ {c}
  <2> SUFFICES ASSUME NEW m \in 1 .. Len(s) - 1 PROVE r[m] \in ToSet(s) \ {c}
    BY <1>9 DEF ToSet
  <2>1. \A i, j \in 1 .. Len(s) : s[i] = s[j] => i = j
    BY <1>2
  <2>2. PICK i \in 1 .. Len(s) : i # k /\ r[m] = s[i]
    <3>1. CASE m < k
      <4>1. m \in 1 .. Len(s) /\ m # k /\ r[m] = s[m]
        BY SMTT(30), <3>1, <1>2, <1>4, <1>8
      <4> QED BY <4>1
    <3>2. CASE ~(m < k)
      <4>1. m + 1 \in 1 .. Len(s) /\ m + 1 # k /\ r[m] = s[m + 1]
        BY <3>2, <1>2, <1>4, <1>8
      <4> QED BY <4>1
    <3> QED BY <3>1, <3>2
  <2>3. s[i] # c
    BY <2>1, <2>2, <1>4
  <2> QED BY <2>2, <2>3, <1>2 DEF ToSet
<1>12. ASSUME NEW x \in ToSet(s) \ {c} PROVE x \in ToSet(r)
  <2>1. PICK j \in 1 .. Len(s) : s[j] = x
    BY <1>2 DEF ToSet
  <2>2. j # k
    BY <2>1, <1>4
  <2>3. CASE j < k
    BY <2>1, <2>3, <1>4, <1>8, <1>9 DEF ToSet
  <2>4. CASE j > k
    <3>1. j - 1 \in 1 .. Len(s) - 1 /\ r[j - 1] = s[j]
      BY <2>4, <1>4, <1>8
    <3> QED BY <3>1, <2>1, <1>9 DEF ToSet
  <2> QED BY <2>2, <2>3, <2>4, <1>4
<1> QED BY <1>8, <1>10, <1>11, <1>12 DEF r

\* What pushing c onto a list it is not on returns.
LEMMA AppendedProperties ==
  ASSUME NEW S, NEW s \in Seq(S), NEW c \in S, ~Contains(s, c),
         \A i, j \in DOMAIN s : s[i] = s[j] => i = j
  PROVE  /\ Append(s, c) \in Seq(S)
         /\ \A i, j \in DOMAIN Append(s, c) :
              Append(s, c)[i] = Append(s, c)[j] => i = j
         /\ ToSet(Append(s, c)) = ToSet(s) \union {c}
<1> DEFINE r == Append(s, c)
<1>1. /\ r \in Seq(S) /\ Len(r) = Len(s) + 1
      /\ \A i \in 1 .. Len(s) : r[i] = s[i]
      /\ r[Len(s) + 1] = c
  OBVIOUS
<1>2. DOMAIN r = 1 .. Len(s) + 1 /\ DOMAIN s = 1 .. Len(s) /\ Len(s) \in Nat
  BY <1>1
<1> HIDE DEF r
<1>3. \A i, j \in DOMAIN r : r[i] = r[j] => i = j
  BY <1>1, <1>2 DEF Contains
<1>4. ToSet(r) = ToSet(s) \union {c}
  <2>1. ASSUME NEW x \in ToSet(r) PROVE x \in ToSet(s) \union {c}
    BY <1>1, <1>2 DEF ToSet
  <2>2. ASSUME NEW x \in ToSet(s) PROVE x \in ToSet(r)
    <3>1. PICK i \in 1 .. Len(s) : s[i] = x
      BY <1>2 DEF ToSet
    <3> QED BY <3>1, <1>1, <1>2 DEF ToSet
  <2>3. c \in ToSet(r)
    BY <1>1, <1>2 DEF ToSet
  <2> QED BY <2>1, <2>2, <2>3
<1> QED BY <1>1, <1>3, <1>4 DEF r

\* Contains is membership in the set of elements.
LEMMA ContainsIsMember ==
  ASSUME NEW S, NEW s \in Seq(S), NEW c
  PROVE  Contains(s, c) <=> c \in ToSet(s)
<1>1. DOMAIN s = 1 .. Len(s)
  OBVIOUS
<1> QED BY <1>1 DEF Contains, ToSet
----------------------------------------------------------------------------
(* The invariant                                                           *)

\* The invariant is inductive.
LEMMA Inductive == IInv /\ [Next]_vars => IInv'
<1> SUFFICES ASSUME IInv, [Next]_vars PROVE IInv'
  OBVIOUS
<1> USE ChannelAssumption
<1> USE DEF IInv, At, Goto, table, loop, Threads, AppPoints, AcceptorPoints, Locked
<1>1. ASSUME NEW a \in Apps, NEW q \in Queues, NEW c \in Comms, CallSubscribe(a, q, c)
     PROVE  IInv'
  <2>1. TypeOK' /\ ArgsInv'
    BY <1>1 DEF CallSubscribe, TypeOK, ArgsInv
  <2>2. MutexInv'
    BY <1>1 DEF CallSubscribe, TypeOK, MutexInv
  <2>3. TableInv'
    BY <1>1 DEF CallSubscribe, TypeOK, ArgsInv, MutexInv, TableInv
  <2>4. NoDuplicateSubscription' /\ OneConsumerPerQueue' /\ CalleeIsListed'
    BY <1>1 DEF CallSubscribe, TypeOK, ArgsInv, MutexInv, TableInv,
       NoDuplicateSubscription, OneConsumerPerQueue, CalleeIsListed
  <2> QED BY <2>1, <2>2, <2>3, <2>4
<1>2. ASSUME NEW a \in Apps, SubscribeLock(a)
     PROVE  IInv'
  <2>1. TypeOK' /\ ArgsInv'
    BY <1>2 DEF SubscribeLock, Acquire, TypeOK, ArgsInv
  <2>2. MutexInv'
    BY <1>2 DEF SubscribeLock, Acquire, TypeOK, MutexInv
  <2>3. TableInv'
    BY <1>2 DEF SubscribeLock, Acquire, TypeOK, ArgsInv, MutexInv, TableInv
  <2>4. NoDuplicateSubscription' /\ OneConsumerPerQueue' /\ CalleeIsListed'
    BY <1>2 DEF SubscribeLock, Acquire, TypeOK, ArgsInv, MutexInv, TableInv,
       NoDuplicateSubscription, OneConsumerPerQueue, CalleeIsListed
  <2> QED BY <2>1, <2>2, <2>3, <2>4
<1>3. ASSUME NEW a \in Apps, SubscribeRefused(a)
     PROVE  IInv'
  <2>1. TypeOK' /\ ArgsInv'
    BY <1>3 DEF SubscribeRefused, Return, IsSubscribed, TypeOK, ArgsInv
  <2>2. MutexInv'
    BY <1>3 DEF SubscribeRefused, Return, IsSubscribed, TypeOK, MutexInv
  <2>3. TableInv'
    BY <1>3 DEF SubscribeRefused, Return, IsSubscribed, TypeOK, ArgsInv, MutexInv, TableInv
  <2>4. NoDuplicateSubscription' /\ OneConsumerPerQueue' /\ CalleeIsListed'
    BY <1>3 DEF SubscribeRefused, Return, IsSubscribed, TypeOK, ArgsInv, MutexInv, TableInv,
       NoDuplicateSubscription, OneConsumerPerQueue, CalleeIsListed
  <2> QED BY <2>1, <2>2, <2>3, <2>4
<1>4. ASSUME NEW a \in Apps, FindQueue(a)
     PROVE  IInv'
  <2>1. TypeOK' /\ ArgsInv'
    BY <1>4 DEF FindQueue, IsSubscribed, TypeOK, ArgsInv
  <2>2. MutexInv'
    BY <1>4 DEF FindQueue, IsSubscribed, TypeOK, MutexInv
  <2>3. TableInv'
    <3>1. \A b \in Apps : pc'[b] \in {"accept", "push"} => b = a
      BY <1>4 DEF FindQueue, TypeOK, MutexInv
    <3>2. \A q \in Queues : q \notin keys' => subscribers'[q] = <<>>
      BY <1>4 DEF FindQueue, TableInv
    <3>3. queue[a] \in keys' /\ ~Contains(subscribers[queue[a]], comm[a])
      <4>1. queue[a] \in Queues
        BY <1>4 DEF FindQueue, ArgsInv
      <4>2. CASE queue[a] \in keys
        BY <4>2, <1>4 DEF FindQueue, IsSubscribed
      <4>3. CASE queue[a] \notin keys
        <5>1. subscribers[queue[a]] = <<>>
          BY <4>1, <4>3 DEF TableInv
        <5> QED BY <5>1, <4>1, <1>4, EmptySeq DEF FindQueue, Contains
      <4> QED BY <4>2, <4>3
    <3>4. \A t \in Acceptors :
            pc'[a] = "accept" /\ pc'[t] # "unborn" => queue'[t] # queue'[a]
      BY <1>4, ChannelAssumption DEF FindQueue, TypeOK, ArgsInv
    <3> QED BY <3>1, <3>2, <3>3, <3>4, <1>4 DEF FindQueue, TableInv
  <2>4. NoDuplicateSubscription' /\ OneConsumerPerQueue' /\ CalleeIsListed'
    BY <1>4 DEF FindQueue, IsSubscribed, TypeOK, ArgsInv, MutexInv, TableInv,
       NoDuplicateSubscription, OneConsumerPerQueue, CalleeIsListed
  <2> QED BY <2>1, <2>2, <2>3, <2>4
<1>5. ASSUME NEW a \in Apps, AcceptStarts(a)
     PROVE  IInv'
  <2> PICK t \in Acceptors :
        /\ pc[t] = "unborn"
        /\ pc' = [pc EXCEPT ![t] = "setup", ![a] = "push"]
        /\ queue' = [queue EXCEPT ![t] = queue[a]]
    BY <1>5 DEF AcceptStarts
  <2> a # t /\ queue[a] \in keys /\ queue'[a] = queue[a]
    BY <1>5 DEF AcceptStarts, TypeOK, TableInv
  <2>1. TypeOK' /\ ArgsInv'
    <3>1. TypeOK'
      BY <1>5 DEF AcceptStarts, TypeOK
    <3>2. ArgsInv'
      BY <1>5 DEF AcceptStarts, TypeOK, ArgsInv
    <3> QED BY <3>1, <3>2
  <2>2. MutexInv'
    BY <1>5 DEF AcceptStarts, TypeOK, MutexInv
  <2>3. TableInv'
    BY <1>5 DEF AcceptStarts, TypeOK, ArgsInv, MutexInv, TableInv
  <2>4. NoDuplicateSubscription' /\ OneConsumerPerQueue' /\ CalleeIsListed'
    BY <1>5 DEF AcceptStarts, TypeOK, ArgsInv, TableInv, NoDuplicateSubscription,
       OneConsumerPerQueue, CalleeIsListed
  <2> QED BY <2>1, <2>2, <2>3, <2>4
<1>6. ASSUME NEW a \in Apps, AcceptThrows(a)
     PROVE  IInv'
  <2>1. TypeOK' /\ ArgsInv'
    BY <1>6 DEF AcceptThrows, Return, TypeOK, ArgsInv
  <2>2. MutexInv'
    BY <1>6 DEF AcceptThrows, Return, TypeOK, MutexInv
  <2>3. TableInv'
    BY <1>6 DEF AcceptThrows, Return, TypeOK, ArgsInv, MutexInv, TableInv
  <2>4. NoDuplicateSubscription' /\ OneConsumerPerQueue' /\ CalleeIsListed'
    BY <1>6 DEF AcceptThrows, Return, TypeOK, ArgsInv, MutexInv, TableInv,
       NoDuplicateSubscription, OneConsumerPerQueue, CalleeIsListed
  <2> QED BY <2>1, <2>2, <2>3, <2>4
<1>7. ASSUME NEW a \in Apps, Push(a)
     PROVE  IInv'
  <2> DEFINE s == subscribers[queue[a]]
             e == Append(s, comm[a])
  <2> a \in Threads /\ comm[a] \in Comms /\ queue[a] \in Queues
    BY <1>7 DEF Push, ArgsInv
  <2>e. /\ e \in Seq(Comms)
        /\ \A i, j \in DOMAIN e : e[i] = e[j] => i = j
        /\ ToSet(e) = ToSet(s) \union {comm[a]}
    <3>1. s \in Seq(Comms) /\ ~Contains(s, comm[a]) /\ \A i, j \in DOMAIN s : s[i] = s[j] => i = j
      BY <1>7 DEF Push, TableInv, TypeOK, NoDuplicateSubscription
    <3> HIDE DEF s
    <3> QED BY <3>1, AppendedProperties
  <2> HIDE DEF e
  <2>s. subscribers' = [subscribers EXCEPT ![queue[a]] = e]
    BY <1>7 DEF Push, e
  <2>1. TypeOK' /\ ArgsInv'
    BY <1>7, <2>e, <2>s DEF Push, Return, TypeOK, ArgsInv
  <2>2. MutexInv'
    BY <1>7 DEF Push, Return, TypeOK, MutexInv
  <2>3. TableInv'
    BY <1>7, <2>s DEF Push, Return, TypeOK, ArgsInv, MutexInv,
       TableInv
  <2>4. NoDuplicateSubscription' /\ OneConsumerPerQueue' /\ CalleeIsListed'
    <3>1. NoDuplicateSubscription'
      BY <2>e, <2>s DEF TypeOK, NoDuplicateSubscription
    <3>2. OneConsumerPerQueue'
      BY <1>7 DEF Push, Return, TypeOK, OneConsumerPerQueue
    <3>3. CalleeIsListed'
      BY <1>7 DEF Push, Return, TypeOK, MutexInv, CalleeIsListed
    <3> QED BY <3>1, <3>2, <3>3
  <2> QED BY <2>1, <2>2, <2>3, <2>4
<1>8. ASSUME NEW a \in Apps, NEW q \in Queues, NEW c \in Comms, CallUnsubscribe(a, q, c)
     PROVE  IInv'
  <2>1. TypeOK' /\ ArgsInv'
    BY <1>8 DEF CallUnsubscribe, TypeOK, ArgsInv
  <2>2. MutexInv'
    BY <1>8 DEF CallUnsubscribe, TypeOK, MutexInv
  <2>3. TableInv'
    BY <1>8 DEF CallUnsubscribe, TypeOK, ArgsInv, MutexInv, TableInv
  <2>4. NoDuplicateSubscription' /\ OneConsumerPerQueue' /\ CalleeIsListed'
    BY <1>8 DEF CallUnsubscribe, TypeOK, ArgsInv, MutexInv, TableInv,
       NoDuplicateSubscription, OneConsumerPerQueue, CalleeIsListed
  <2> QED BY <2>1, <2>2, <2>3, <2>4
<1>9. ASSUME NEW a \in Apps, UnsubscribeLock(a)
     PROVE  IInv'
  <2>1. TypeOK' /\ ArgsInv'
    BY <1>9 DEF UnsubscribeLock, Acquire, TypeOK, ArgsInv
  <2>2. MutexInv'
    BY <1>9 DEF UnsubscribeLock, Acquire, TypeOK, MutexInv
  <2>3. TableInv'
    BY <1>9 DEF UnsubscribeLock, Acquire, TypeOK, ArgsInv, MutexInv, TableInv
  <2>4. NoDuplicateSubscription' /\ OneConsumerPerQueue' /\ CalleeIsListed'
    BY <1>9 DEF UnsubscribeLock, Acquire, TypeOK, ArgsInv, MutexInv, TableInv,
       NoDuplicateSubscription, OneConsumerPerQueue, CalleeIsListed
  <2> QED BY <2>1, <2>2, <2>3, <2>4
<1>10. ASSUME NEW a \in Apps, UnsubscribeRefused(a)
     PROVE  IInv'
  <2>1. TypeOK' /\ ArgsInv'
    BY <1>10 DEF UnsubscribeRefused, UnsubscribeReturns, IsSubscribed, TypeOK, ArgsInv
  <2>2. MutexInv'
    BY <1>10 DEF UnsubscribeRefused, UnsubscribeReturns, IsSubscribed, TypeOK, MutexInv
  <2>3. TableInv'
    BY <1>10 DEF UnsubscribeRefused, UnsubscribeReturns, IsSubscribed, TypeOK, ArgsInv,
       MutexInv, TableInv
  <2>4. NoDuplicateSubscription' /\ OneConsumerPerQueue' /\ CalleeIsListed'
    BY <1>10 DEF UnsubscribeRefused, UnsubscribeReturns, IsSubscribed, TypeOK, ArgsInv,
       MutexInv, TableInv,
       NoDuplicateSubscription, OneConsumerPerQueue, CalleeIsListed
  <2> QED BY <2>1, <2>2, <2>3, <2>4
<1>11. ASSUME NEW a \in Apps, Erase(a)
     PROVE  IInv'
  <2> DEFINE s == subscribers[queue[a]]
             e == Erased(s, comm[a])
  <2> a \in Threads /\ comm[a] \in Comms /\ queue[a] \in Queues
    BY <1>11 DEF Erase, ArgsInv
  <2>e. /\ e \in Seq(Comms)
        /\ \A i, j \in DOMAIN e : e[i] = e[j] => i = j
        /\ ToSet(e) = ToSet(s) \ {comm[a]}
    <3>1. s \in Seq(Comms) /\ Contains(s, comm[a]) /\ \A i, j \in DOMAIN s : s[i] = s[j] => i = j
      BY <1>11 DEF Erase, IsSubscribed, TypeOK, NoDuplicateSubscription
    <3> HIDE DEF s
    <3> QED BY <3>1, ErasedProperties
  <2> HIDE DEF e
  <2>s. subscribers' = [subscribers EXCEPT ![queue[a]] = e]
    BY <1>11 DEF Erase, e
  <2>1. TypeOK' /\ ArgsInv'
    BY <1>11, <2>e, <2>s DEF Erase, UnsubscribeReturns, IsSubscribed, TypeOK, ArgsInv
  <2>2. MutexInv'
    BY <1>11 DEF Erase, UnsubscribeReturns, TypeOK, MutexInv
  <2>3. TableInv'
    BY <1>11, <2>s DEF Erase, UnsubscribeReturns, IsSubscribed, TypeOK, ArgsInv, MutexInv,
       TableInv
  <2>4. NoDuplicateSubscription' /\ OneConsumerPerQueue' /\ CalleeIsListed'
    <3>1. NoDuplicateSubscription'
      BY <2>e, <2>s DEF TypeOK, NoDuplicateSubscription
    <3>2. OneConsumerPerQueue'
      BY <1>11 DEF Erase, UnsubscribeReturns, TypeOK, OneConsumerPerQueue
    <3>3. CalleeIsListed'
      BY <1>11 DEF Erase, UnsubscribeReturns, TypeOK, MutexInv, CalleeIsListed
    <3> QED BY <3>1, <3>2, <3>3
  <2> QED BY <2>1, <2>2, <2>3, <2>4
<1>12. ASSUME NEW a \in Apps, NEW c \in Comms, Destroy(a, c)
     PROVE  IInv'
  <2>1. TypeOK' /\ ArgsInv'
    BY <1>12 DEF Destroy, TypeOK, ArgsInv
  <2>2. MutexInv'
    BY <1>12 DEF Destroy, TypeOK, MutexInv
  <2>3. TableInv'
    BY <1>12 DEF Destroy, TypeOK, ArgsInv, MutexInv, TableInv
  <2>4. NoDuplicateSubscription' /\ OneConsumerPerQueue' /\ CalleeIsListed'
    BY <1>12 DEF Destroy, TypeOK, ArgsInv, MutexInv, TableInv,
       NoDuplicateSubscription, OneConsumerPerQueue, CalleeIsListed
  <2> QED BY <2>1, <2>2, <2>3, <2>4
<1>13. ASSUME NEW a \in Apps, Walk(a)
     PROVE  IInv'
  <2>1. TypeOK' /\ ArgsInv'
    BY <1>13 DEF Walk, TypeOK, ArgsInv
  <2>2. MutexInv'
    BY <1>13 DEF Walk, TypeOK, MutexInv
  <2>3. TableInv'
    BY <1>13 DEF Walk, TypeOK, ArgsInv, MutexInv, TableInv
  <2>4. NoDuplicateSubscription' /\ OneConsumerPerQueue' /\ CalleeIsListed'
    BY <1>13 DEF Walk, TypeOK, ArgsInv, MutexInv, TableInv,
       NoDuplicateSubscription, OneConsumerPerQueue, CalleeIsListed
  <2> QED BY <2>1, <2>2, <2>3, <2>4
<1>14. ASSUME NEW a \in Apps, WalkTorn(a)
     PROVE  IInv'
  <2>1. TypeOK' /\ ArgsInv'
    BY <1>14 DEF WalkTorn, TypeOK, ArgsInv
  <2>2. MutexInv'
    BY <1>14 DEF WalkTorn, TypeOK, MutexInv
  <2>3. TableInv'
    BY <1>14 DEF WalkTorn, TypeOK, ArgsInv, MutexInv, TableInv
  <2>4. NoDuplicateSubscription' /\ OneConsumerPerQueue' /\ CalleeIsListed'
    BY <1>14 DEF WalkTorn, TypeOK, ArgsInv, MutexInv, TableInv,
       NoDuplicateSubscription, OneConsumerPerQueue, CalleeIsListed
  <2> QED BY <2>1, <2>2, <2>3, <2>4
<1>15. ASSUME NEW a \in Apps, Destroyed(a)
     PROVE  IInv'
  <2>1. TypeOK' /\ ArgsInv'
    BY <1>15 DEF Destroyed, Return, TypeOK, ArgsInv
  <2>2. MutexInv'
    BY <1>15 DEF Destroyed, Return, TypeOK, MutexInv
  <2>3. TableInv'
    BY <1>15 DEF Destroyed, Return, TypeOK, ArgsInv, MutexInv, TableInv
  <2>4. NoDuplicateSubscription' /\ OneConsumerPerQueue' /\ CalleeIsListed'
    BY <1>15 DEF Destroyed, Return, TypeOK, ArgsInv, MutexInv, TableInv,
       NoDuplicateSubscription, OneConsumerPerQueue, CalleeIsListed
  <2> QED BY <2>1, <2>2, <2>3, <2>4
<1>16. ASSUME NEW t \in Acceptors, ConsumeStarts(t)
     PROVE  IInv'
  <2>1. TypeOK' /\ ArgsInv'
    BY <1>16 DEF ConsumeStarts, TypeOK, ArgsInv
  <2>2. MutexInv'
    BY <1>16 DEF ConsumeStarts, TypeOK, MutexInv
  <2>3. TableInv'
    BY <1>16 DEF ConsumeStarts, TypeOK, ArgsInv, MutexInv, TableInv
  <2>4. NoDuplicateSubscription' /\ OneConsumerPerQueue' /\ CalleeIsListed'
    BY <1>16 DEF ConsumeStarts, TypeOK, ArgsInv, MutexInv, TableInv,
       NoDuplicateSubscription, OneConsumerPerQueue, CalleeIsListed
  <2> QED BY <2>1, <2>2, <2>3, <2>4
<1>17. ASSUME NEW t \in Acceptors, ProcessDies(t)
     PROVE  IInv'
  <2>1. TypeOK' /\ ArgsInv'
    BY <1>17 DEF ProcessDies, TypeOK, ArgsInv
  <2>2. MutexInv'
    BY <1>17 DEF ProcessDies, TypeOK, MutexInv
  <2>3. TableInv'
    BY <1>17 DEF ProcessDies, TypeOK, ArgsInv, MutexInv, TableInv
  <2>4. NoDuplicateSubscription' /\ OneConsumerPerQueue' /\ CalleeIsListed'
    BY <1>17 DEF ProcessDies, TypeOK, ArgsInv, MutexInv, TableInv,
       NoDuplicateSubscription, OneConsumerPerQueue, CalleeIsListed
  <2> QED BY <2>1, <2>2, <2>3, <2>4
<1>18. ASSUME NEW t \in Acceptors, Receive(t)
     PROVE  IInv'
  <2>1. TypeOK' /\ ArgsInv'
    BY <1>18 DEF Receive, TypeOK, ArgsInv
  <2>2. MutexInv'
    BY <1>18 DEF Receive, TypeOK, MutexInv
  <2>3. TableInv'
    BY <1>18 DEF Receive, TypeOK, ArgsInv, MutexInv, TableInv
  <2>4. NoDuplicateSubscription' /\ OneConsumerPerQueue' /\ CalleeIsListed'
    BY <1>18 DEF Receive, TypeOK, ArgsInv, MutexInv, TableInv,
       NoDuplicateSubscription, OneConsumerPerQueue, CalleeIsListed
  <2> QED BY <2>1, <2>2, <2>3, <2>4
<1>19. ASSUME NEW t \in Acceptors, ConnectionLost(t)
     PROVE  IInv'
  <2>1. TypeOK' /\ ArgsInv'
    BY <1>19 DEF ConnectionLost, TypeOK, ArgsInv
  <2>2. MutexInv'
    BY <1>19 DEF ConnectionLost, TypeOK, MutexInv
  <2>3. TableInv'
    BY <1>19 DEF ConnectionLost, TypeOK, ArgsInv, MutexInv, TableInv
  <2>4. NoDuplicateSubscription' /\ OneConsumerPerQueue' /\ CalleeIsListed'
    BY <1>19 DEF ConnectionLost, TypeOK, ArgsInv, MutexInv, TableInv,
       NoDuplicateSubscription, OneConsumerPerQueue, CalleeIsListed
  <2> QED BY <2>1, <2>2, <2>3, <2>4
<1>20. ASSUME NEW t \in Acceptors, DispatchLock(t)
     PROVE  IInv'
  <2>1. TypeOK' /\ ArgsInv'
    BY <1>20 DEF DispatchLock, Acquire, TypeOK, ArgsInv
  <2>2. MutexInv'
    BY <1>20 DEF DispatchLock, Acquire, TypeOK, MutexInv
  <2>3. TableInv'
    BY <1>20 DEF DispatchLock, Acquire, TypeOK, ArgsInv, MutexInv, TableInv
  <2>4. NoDuplicateSubscription' /\ OneConsumerPerQueue' /\ CalleeIsListed'
    BY <1>20 DEF DispatchLock, Acquire, TypeOK, ArgsInv, MutexInv, TableInv,
       NoDuplicateSubscription, OneConsumerPerQueue, CalleeIsListed
  <2> QED BY <2>1, <2>2, <2>3, <2>4
<1>21. ASSUME NEW t \in Acceptors, CallHandler(t)
     PROVE  IInv'
  <2>1. TypeOK' /\ ArgsInv'
    BY <1>21 DEF CallHandler, TypeOK, ArgsInv
  <2>2. MutexInv'
    BY <1>21 DEF CallHandler, TypeOK, MutexInv
  <2>3. TableInv'
    BY <1>21 DEF CallHandler, TypeOK, ArgsInv, MutexInv, TableInv
  <2>4. NoDuplicateSubscription' /\ OneConsumerPerQueue' /\ CalleeIsListed'
    BY <1>21 DEF CallHandler, TypeOK, ArgsInv, MutexInv, TableInv,
       NoDuplicateSubscription, OneConsumerPerQueue, CalleeIsListed
  <2> QED BY <2>1, <2>2, <2>3, <2>4
<1>22. ASSUME NEW t \in Acceptors, HandlerReturns(t)
     PROVE  IInv'
  <2>1. TypeOK' /\ ArgsInv'
    BY <1>22 DEF HandlerReturns, TypeOK, ArgsInv
  <2>2. MutexInv'
    BY <1>22 DEF HandlerReturns, TypeOK, MutexInv
  <2>3. TableInv'
    BY <1>22 DEF HandlerReturns, TypeOK, ArgsInv, MutexInv, TableInv
  <2>4. NoDuplicateSubscription' /\ OneConsumerPerQueue' /\ CalleeIsListed'
    BY <1>22 DEF HandlerReturns, TypeOK, ArgsInv, MutexInv, TableInv,
       NoDuplicateSubscription, OneConsumerPerQueue, CalleeIsListed
  <2> QED BY <2>1, <2>2, <2>3, <2>4
<1>23. ASSUME NEW t \in Acceptors, HandlerReenters(t)
     PROVE  IInv'
  <2>1. TypeOK' /\ ArgsInv'
    BY <1>23 DEF HandlerReenters, TypeOK, ArgsInv
  <2>2. MutexInv'
    BY <1>23 DEF HandlerReenters, TypeOK, MutexInv
  <2>3. TableInv'
    BY <1>23 DEF HandlerReenters, TypeOK, ArgsInv, MutexInv, TableInv
  <2>4. NoDuplicateSubscription' /\ OneConsumerPerQueue' /\ CalleeIsListed'
    BY <1>23 DEF HandlerReenters, TypeOK, ArgsInv, MutexInv, TableInv,
       NoDuplicateSubscription, OneConsumerPerQueue, CalleeIsListed
  <2> QED BY <2>1, <2>2, <2>3, <2>4
<1>24. ASSUME NEW t \in Acceptors, DispatchEnds(t)
     PROVE  IInv'
  <2>1. TypeOK' /\ ArgsInv'
    BY <1>24 DEF DispatchEnds, TypeOK, ArgsInv
  <2>2. MutexInv'
    BY <1>24 DEF DispatchEnds, TypeOK, MutexInv
  <2>3. TableInv'
    BY <1>24 DEF DispatchEnds, TypeOK, ArgsInv, MutexInv, TableInv
  <2>4. NoDuplicateSubscription' /\ OneConsumerPerQueue' /\ CalleeIsListed'
    BY <1>24 DEF DispatchEnds, TypeOK, ArgsInv, MutexInv, TableInv,
       NoDuplicateSubscription, OneConsumerPerQueue, CalleeIsListed
  <2> QED BY <2>1, <2>2, <2>3, <2>4
<1>25. CASE UNCHANGED vars
  BY <1>25 DEF vars, TypeOK, ArgsInv, MutexInv, TableInv, NoDuplicateSubscription,
     OneConsumerPerQueue, CalleeIsListed
<1> QED
  BY <1>1, <1>2, <1>3, <1>4, <1>5, <1>6, <1>7, <1>8, <1>9, <1>10, <1>11, <1>12, <1>13,
      <1>14, <1>15, <1>16, <1>17, <1>18, <1>19, <1>20, <1>21, <1>22, <1>23, <1>24,
      <1>25
  DEF Next, Call, AppStep, AcceptorStep, Broker

\* The invariant holds of every behaviour of the channel.
THEOREM Invariance == Spec => []IInv
<1>1. Init => IInv
  <2> SUFFICES ASSUME Init PROVE IInv
    OBVIOUS
  <2>1. TypeOK /\ ArgsInv
    BY ChannelAssumption DEF Init, TypeOK, ArgsInv, Threads, AppPoints, AcceptorPoints
  <2>2. MutexInv /\ OneConsumerPerQueue /\ CalleeIsListed
    BY ChannelAssumption DEF Init, MutexInv, OneConsumerPerQueue, CalleeIsListed, Threads, Locked
  <2>3. TableInv /\ NoDuplicateSubscription
    BY ChannelAssumption DEF Init, TableInv, NoDuplicateSubscription, Threads
  <2> QED BY <2>1, <2>2, <2>3 DEF IInv
<1>2. IInv /\ [Next]_vars => IInv'
  BY Inductive
<1> QED BY <1>1, <1>2, PTL DEF Spec

\* The variables keep their types.
THEOREM TypeCorrect == Spec => []TypeOK
<1>1. IInv => TypeOK
  BY DEF IInv
<1> QED BY <1>1, Invariance, PTL

\* subscription_mtx_ is held exactly inside the critical sections.
THEOREM MutualExclusion == Spec => []MutexInv
<1>1. IInv => MutexInv
  BY DEF IInv
<1> QED BY <1>1, Invariance, PTL

\* No list ever names a communicator twice.
THEOREM SubscribedOnce == Spec => []NoDuplicateSubscription
<1>1. IInv => NoDuplicateSubscription
  BY DEF IInv
<1> QED BY <1>1, Invariance, PTL

\* No queue ever gets a second consumer.
THEOREM ConsumedOnce == Spec => []OneConsumerPerQueue
<1>1. IInv => OneConsumerPerQueue
  BY DEF IInv
<1> QED BY <1>1, Invariance, PTL

\* The loop of dispatch never stands on an element that has been erased.
THEOREM IteratorValid == Spec => []CalleeIsListed
<1>1. IInv => CalleeIsListed
  BY DEF IInv
<1> QED BY <1>1, Invariance, PTL

----------------------------------------------------------------------------
(* unsubscribe                                                             *)

\* A return from unsubscribe finds no consumer inside any handler: the mutex
\* it held kept all of them out, and the list no longer names the communicator.
THEOREM Silence == Spec => UnsubscribedIsSilent
<1> DEFINE Silent ==
      \A a \in Apps :
        pc[a] = "unsubscribing" /\ pc'[a] # "unsubscribing" =>
          /\ ~Contains(subscribers'[queue[a]], comm[a])
          /\ \A t \in Acceptors : queue[t] = queue[a] => callee'[t] # comm[a]
<1>1. ASSUME IInv, [Next]_vars PROVE Silent
  <2> SUFFICES ASSUME NEW a \in Apps, pc[a] = "unsubscribing", pc'[a] # "unsubscribing"
               PROVE  /\ ~Contains(subscribers'[queue[a]], comm[a])
                      /\ \A t \in Acceptors : callee'[t] # comm[a]
    OBVIOUS
  <2> USE ChannelAssumption
  <2>1. /\ comm[a] \in Comms /\ queue[a] \in Queues /\ comm[a] # None
        /\ subscribers[queue[a]] \in Seq(Comms)
    BY <1>1 DEF IInv, TypeOK, ArgsInv
  <2>2. \A t \in Acceptors : callee[t] = None
    BY <1>1 DEF IInv, ArgsInv, MutexInv, Threads, Locked
  <2>3. UnsubscribeRefused(a) \/ Erase(a)
    <3>1. a \in Threads /\ pc \in [Threads -> AppPoints \union AcceptorPoints]
      BY <1>1 DEF IInv, TypeOK, Threads
    <3>2. ASSUME NEW t \in Acceptors, DispatchLock(t) \/ AcceptorStep(t) \/ Broker(t)
          PROVE  pc'[a] = pc[a]
      BY <3>1, <3>2 DEF AcceptorStep, Broker, ConsumeStarts, ProcessDies, Receive,
         ConnectionLost, DispatchLock, Acquire, CallHandler, HandlerReturns, HandlerReenters,
         DispatchEnds, Goto
    <3>3. ASSUME NEW b \in Apps, Call(b)
          PROVE  pc'[a] = pc[a]
      BY <3>1, <3>3 DEF Call, CallSubscribe, CallUnsubscribe, Destroy, At, Goto
    <3>4. ASSUME NEW b \in Apps, SubscribeLock(b) \/ UnsubscribeLock(b) \/ AppStep(b),
                 ~UnsubscribeRefused(b), ~Erase(b)
          PROVE  pc'[a] = pc[a]
      <4>1. ASSUME AcceptStarts(b) PROVE pc'[a] = pc[a]
        BY <3>1, <4>1 DEF AcceptStarts, At
      <4>2. ASSUME Return(b), pc[b] # "unsubscribing" PROVE pc'[a] = pc[a]
        BY <3>1, <4>2 DEF Return, Goto
      <4>3. ASSUME SubscribeRefused(b) \/ AcceptThrows(b) \/ Push(b) \/ Destroyed(b)
            PROVE  pc'[a] = pc[a]
        BY <4>2, <4>3 DEF SubscribeRefused, AcceptThrows, Push, Destroyed, At
      <4>4. ASSUME SubscribeLock(b) \/ UnsubscribeLock(b) \/ FindQueue(b) \/ Walk(b) \/ WalkTorn(b)
            PROVE  pc'[a] = pc[a]
        BY <3>1, <4>4 DEF SubscribeLock, UnsubscribeLock, Acquire, FindQueue, Walk, WalkTorn, At,
           Goto
      <4> QED BY <3>4, <4>1, <4>3, <4>4 DEF AppStep
    <3>5. ASSUME NEW b \in Apps, UnsubscribeRefused(b) \/ Erase(b), b # a
          PROVE  pc'[a] = pc[a]
      BY <3>1, <3>5 DEF UnsubscribeRefused, Erase, UnsubscribeReturns, Goto
    <3>6. pc' # pc
      OBVIOUS
    <3> QED BY <1>1, <3>2, <3>3, <3>4, <3>5, <3>6 DEF Next, vars
  <2>4. callee' = callee
    BY <2>3 DEF UnsubscribeRefused, Erase, loop
  <2>5. CASE UnsubscribeRefused(a)
    <3>1. ~Contains(subscribers[queue[a]], comm[a])
      <4>1. CASE queue[a] \in keys
        BY <4>1, <2>5 DEF UnsubscribeRefused, IsSubscribed
      <4>2. CASE queue[a] \notin keys
        <5>1. subscribers[queue[a]] = <<>>
          BY <4>2, <2>1, <1>1 DEF IInv, TableInv
        <5> QED BY <5>1, EmptySeq DEF Contains
      <4> QED BY <4>1, <4>2
    <3> QED BY <3>1, <2>1, <2>2, <2>4, <2>5 DEF UnsubscribeRefused, table
  <2>6. CASE Erase(a)
    <3> DEFINE s == subscribers[queue[a]]
               e == Erased(s, comm[a])
    <3>1. s \in Seq(Comms) /\ Contains(s, comm[a]) /\ \A i, j \in DOMAIN s : s[i] = s[j] => i = j
      BY <1>1, <2>1, <2>6 DEF Erase, IsSubscribed, IInv, NoDuplicateSubscription
    <3> HIDE DEF s
    <3>2. e \in Seq(Comms) /\ comm[a] \notin ToSet(e)
      BY <3>1, ErasedProperties
    <3>3. ~Contains(e, comm[a])
      BY <3>2, ContainsIsMember
    <3>4. subscribers'[queue[a]] = e
      BY <1>1, <2>1, <2>6 DEF Erase, IInv, TypeOK, s
    <3> QED BY <3>3, <3>4, <2>1, <2>2, <2>4
  <2> QED BY <2>3, <2>5, <2>6
<1>2. ASSUME IInv, [Next]_vars PROVE [Silent]_vars
  BY <1>1, <1>2
<1> QED BY <1>2, Invariance, PTL DEF Spec, UnsubscribedIsSilent

-----------------------------------------------------------------------------
(***************************************************************************)
(* Proof that Channel implements PubSub: pushing and erasing a communicator*)
(* are the abstract Join and Leave, taking the mutex to dispatch is Deliver*)
(* and a handler's return is Notify; every other step leaves the lists and *)
(* the part of them still to be told unchanged.                            *)
(***************************************************************************)
\* A step that changes no list, and no loop of dispatch, is a stutter.
LEMMA Stutters ==
  ASSUME subscribers' = subscribers,
         \A t \in Acceptors : Owed(t)' = Owed(t)
  PROVE  UNCHANGED Abstract!vars
BY DEF Abstract!vars

\* So is a step that leaves every running loop where it is.
LEMMA SameLoops ==
  ASSUME UNCHANGED <<subscribers, cursor>>,
         \A t \in Acceptors :
           /\ Iterating(t)' = Iterating(t)
           /\ Iterating(t) => queue'[t] = queue[t]
  PROVE  UNCHANGED Abstract!vars
<1>1. \A t \in Acceptors : Owed(t)' = Owed(t)
  BY DEF Owed
<1> QED BY <1>1, Stutters

\* A thread inside another critical section keeps every loop out.
LEMMA NothingOwed ==
  ASSUME IInv, NEW s \in Threads, mutex = s \/ mutex = None, s \in Apps \/ mutex = None
  PROVE  \A t \in Acceptors : ~Iterating(t) /\ Owed(t) = {}
BY ChannelAssumption DEF IInv, MutexInv, Threads, Locked, Iterating, Owed

\* The steps of the application that touch no list.
LEMMA AppStutters ==
  ASSUME IInv, NEW a \in Apps,
         \/ Call(a) \/ SubscribeLock(a) \/ UnsubscribeLock(a)
         \/ AppStep(a) /\ ~Push(a) /\ ~Erase(a)
  PROVE  UNCHANGED Abstract!vars
<1> USE ChannelAssumption DEF IInv, TypeOK, At, Goto, table, loop, Threads, Iterating
<1>0. a \in Threads /\ a \notin Acceptors /\ pc[a] \in AppPoints
  OBVIOUS
<1>1. CASE Call(a)
  <2>1. subscribers' = subscribers /\ cursor' = cursor
    BY <1>1 DEF Call, CallSubscribe, CallUnsubscribe, Destroy
  <2>2. \A t \in Acceptors : pc'[t] = pc[t] /\ queue'[t] = queue[t]
    BY <1>0, <1>1 DEF Call, CallSubscribe, CallUnsubscribe, Destroy
  <2> QED BY <2>1, <2>2, SameLoops
<1>2. CASE SubscribeLock(a) \/ UnsubscribeLock(a)
  <2>1. subscribers' = subscribers /\ cursor' = cursor
    BY <1>2 DEF SubscribeLock, UnsubscribeLock, Acquire
  <2>2. \A t \in Acceptors : pc'[t] = pc[t] /\ queue'[t] = queue[t]
    BY <1>0, <1>2 DEF SubscribeLock, UnsubscribeLock, Acquire
  <2> QED BY <2>1, <2>2, SameLoops
<1>3. CASE SubscribeRefused(a) \/ FindQueue(a) \/ AcceptThrows(a)
  <2>1. subscribers' = subscribers /\ cursor' = cursor
    BY <1>3 DEF SubscribeRefused, FindQueue, AcceptThrows
  <2>2. \A t \in Acceptors : pc'[t] = pc[t] /\ queue'[t] = queue[t]
    BY <1>0, <1>3 DEF SubscribeRefused, FindQueue, AcceptThrows, Return
  <2> QED BY <2>1, <2>2, SameLoops
<1>4. CASE AcceptStarts(a)
  <2>1. subscribers' = subscribers /\ cursor' = cursor
    BY <1>4 DEF AcceptStarts
  <2>2. \A t \in Acceptors : Iterating(t)' = Iterating(t) /\ (Iterating(t) => queue'[t] = queue[t])
    BY <1>0, <1>4 DEF AcceptStarts
  <2> QED BY <2>1, <2>2, SameLoops
<1>5. CASE UnsubscribeRefused(a)
  <2>1. subscribers' = subscribers /\ cursor' = cursor
    BY <1>5 DEF UnsubscribeRefused
  <2>2. \A t \in Acceptors : pc'[t] = pc[t] /\ queue'[t] = queue[t]
    BY <1>0, <1>5 DEF UnsubscribeRefused, UnsubscribeReturns
  <2> QED BY <2>1, <2>2, SameLoops
<1>6. CASE Walk(a) \/ WalkTorn(a) \/ Destroyed(a)
  <2>1. subscribers' = subscribers /\ cursor' = cursor
    BY <1>6 DEF Walk, WalkTorn, Destroyed
  <2>2. \A t \in Acceptors : pc'[t] = pc[t] /\ queue'[t] = queue[t]
    BY <1>0, <1>6 DEF Walk, WalkTorn, Destroyed, Return
  <2> QED BY <2>1, <2>2, SameLoops
<1> QED BY <1>1, <1>2, <1>3, <1>4, <1>5, <1>6 DEF AppStep

\* The steps of a consumer's thread outside the loop of dispatch, and those in
\* it that pass no element of the list.
LEMMA AcceptorStutters ==
  ASSUME IInv, NEW t \in Acceptors,
         Broker(t) \/ (AcceptorStep(t) /\ ~HandlerReturns(t))
  PROVE  UNCHANGED Abstract!vars
<1> USE ChannelAssumption DEF IInv, TypeOK, At, Goto, table, loop, Threads, Iterating
<1>1. CASE Broker(t) \/ ConsumeStarts(t)
  <2>1. UNCHANGED <<subscribers, queue, cursor>>
    BY <1>1 DEF Broker, Receive, ConnectionLost, ConsumeStarts, ProcessDies
  <2>2. \A u \in Acceptors : Iterating(u)' = Iterating(u)
    BY <1>1 DEF Broker, Receive, ConnectionLost, ConsumeStarts, ProcessDies
  <2> QED BY <2>1, <2>2, SameLoops
<1>2. CASE CallHandler(t) \/ HandlerReenters(t)
  <2>1. UNCHANGED <<subscribers, queue, cursor>>
    BY <1>2 DEF CallHandler, HandlerReenters
  <2>2. \A u \in Acceptors : Iterating(u)' = Iterating(u)
    BY <1>2 DEF CallHandler, HandlerReenters
  <2> QED BY <2>1, <2>2, SameLoops
<1>3. CASE DispatchEnds(t)
  <2>1. UNCHANGED <<subscribers, queue>>
    BY <1>3 DEF DispatchEnds
  <2>2. Owed(t) = {} /\ Owed(t)' = {}
    <3>1. queue[t] \in Queues /\ subscribers[queue[t]] \in Seq(Comms) /\ cursor[t] \in Nat
      BY <1>3 DEF DispatchEnds, ArgsInv
    <3>2. cursor[t] .. Len(subscribers[queue[t]]) = {}
      BY <3>1, <1>3 DEF DispatchEnds
    <3> QED BY <3>2, <1>3 DEF DispatchEnds, Owed
  <2>3. \A u \in Acceptors \ {t} : Owed(u)' = Owed(u)
    BY <2>1, <1>3 DEF DispatchEnds, Owed
  <2> QED BY <2>1, <2>2, <2>3, Stutters
<1> QED BY <1>1, <1>2, <1>3 DEF AcceptorStep

\* Push is Join.
LEMMA PushJoins ==
  ASSUME IInv, NEW a \in Apps, Push(a)
  PROVE  Abstract!Join(queue[a], comm[a]) /\ queue[a] \in Queues /\ comm[a] \in Comms
<1> DEFINE q == queue[a]
           c == comm[a]
<1>1. /\ q \in Queues /\ c \in Comms /\ mutex = a /\ a \in Threads
      /\ subscribers[q] \in Seq(Comms) /\ ~Contains(subscribers[q], c)
      /\ \A i, j \in DOMAIN subscribers[q] : subscribers[q][i] = subscribers[q][j] => i = j
  BY DEF Push, At, IInv, TypeOK, ArgsInv, MutexInv, TableInv, NoDuplicateSubscription, Threads,
     Locked
<1>2. \A t \in Acceptors : ~Iterating(t) /\ Owed(t) = {}
  BY <1>1, NothingOwed
<1>3. \A t \in Acceptors : Owed(t)' = {}
  BY <1>2, ChannelAssumption DEF Push, Return, Goto, Owed, Iterating, IInv, TypeOK, Threads
<1>4. c \notin ToSet(subscribers[q])
  BY <1>1, ContainsIsMember
<1>5. ToSet(Append(subscribers[q], c)) = ToSet(subscribers[q]) \union {c}
  BY <1>1, AppendedProperties
<1>6. subscribers' = [subscribers EXCEPT ![q] = Append(subscribers[q], c)]
  BY DEF Push
<1>7. [p \in Queues |-> ToSet(subscribers'[p])]
        = [[p \in Queues |-> ToSet(subscribers[p])] EXCEPT ![q] = @ \union {c}]
  BY <1>1, <1>5, <1>6 DEF IInv, TypeOK
<1>8. [t \in Acceptors |-> Owed(t)]' = [t \in Acceptors |-> Owed(t)]
  BY <1>2, <1>3
<1>9. c \notin [p \in Queues |-> ToSet(subscribers[p])][q]
  BY <1>1, <1>4
<1>10. \A t \in Acceptors : [u \in Acceptors |-> Owed(u)][t] = {}
  BY <1>2
<1> QED BY <1>1, <1>7, <1>8, <1>9, <1>10 DEF Abstract!Join, Abstract!Quiet

\* Erase is Leave.
LEMMA EraseLeaves ==
  ASSUME IInv, NEW a \in Apps, Erase(a)
  PROVE  Abstract!Leave(queue[a], comm[a]) /\ queue[a] \in Queues /\ comm[a] \in Comms
<1> DEFINE q == queue[a]
           c == comm[a]
<1>1. /\ q \in Queues /\ c \in Comms /\ mutex = a /\ a \in Threads
      /\ subscribers[q] \in Seq(Comms) /\ Contains(subscribers[q], c)
      /\ \A i, j \in DOMAIN subscribers[q] : subscribers[q][i] = subscribers[q][j] => i = j
  BY DEF Erase, IsSubscribed, At, IInv, TypeOK, ArgsInv, MutexInv, NoDuplicateSubscription,
     Threads, Locked
<1>2. \A t \in Acceptors : ~Iterating(t) /\ Owed(t) = {}
  BY <1>1, NothingOwed
<1>3. \A t \in Acceptors : Owed(t)' = {}
  BY <1>2, ChannelAssumption DEF Erase, UnsubscribeReturns, Goto, Owed, Iterating, IInv, TypeOK,
     Threads
<1>4. c \in ToSet(subscribers[q])
  BY <1>1, ContainsIsMember
<1>5. ToSet(Erased(subscribers[q], c)) = ToSet(subscribers[q]) \ {c}
  BY <1>1, ErasedProperties
<1>6. subscribers' = [subscribers EXCEPT ![q] = Erased(subscribers[q], c)]
  BY DEF Erase
<1>7. [p \in Queues |-> ToSet(subscribers'[p])]
        = [[p \in Queues |-> ToSet(subscribers[p])] EXCEPT ![q] = @ \ {c}]
  BY <1>1, <1>5, <1>6 DEF IInv, TypeOK
<1> QED BY <1>1, <1>2, <1>3, <1>4, <1>7 DEF Abstract!Leave, Abstract!Quiet

\* Taking the mutex to dispatch is Deliver: the whole list is owed.
LEMMA DispatchDelivers ==
  ASSUME IInv, NEW t \in Acceptors, DispatchLock(t)
  PROVE  Abstract!Deliver(t, queue[t]) /\ queue[t] \in Queues
<1> DEFINE q == queue[t]
<1>1. q \in Queues /\ mutex = None /\ t \in Threads /\ subscribers[q] \in Seq(Comms)
  BY DEF DispatchLock, Acquire, IInv, TypeOK, Threads
<1>2. \A u \in Acceptors : ~Iterating(u) /\ Owed(u) = {}
  BY <1>1, NothingOwed
<1>3. UNCHANGED <<subscribers, queue>> /\ pc'[t] = "iterate" /\ cursor'[t] = 1
  BY <1>1 DEF DispatchLock, Acquire, Goto, table, IInv, TypeOK
<1>4. Owed(t)' = ToSet(subscribers[q])
  <2>1. DOMAIN subscribers[q] = 1 .. Len(subscribers[q])
    BY <1>1
  <2> QED BY <1>3, <2>1 DEF Owed, Iterating, ToSet
<1>5. \A u \in Acceptors \ {t} : Owed(u)' = {}
  BY <1>1, <1>2 DEF DispatchLock, Acquire, Goto, Owed, Iterating, IInv, TypeOK
<1>6. [u \in Acceptors |-> Owed(u)']
        = [[u \in Acceptors |-> Owed(u)] EXCEPT ![t] = ToSet(subscribers[q])]
  BY <1>2, <1>4, <1>5
<1> QED BY <1>1, <1>2, <1>3, <1>6 DEF Abstract!Deliver, Abstract!Quiet

\* A handler's return is Notify: the list has no duplicates, so the communicator
\* just called is owed nothing more.
LEMMA ReturnNotifies ==
  ASSUME IInv, NEW t \in Acceptors, HandlerReturns(t)
  PROVE  Abstract!Notify(t, callee[t]) /\ callee[t] \in Comms
<1> DEFINE q == queue[t]
           s == subscribers[q]
           k == cursor[t]
<1>1. /\ q \in Queues /\ s \in Seq(Comms) /\ t \in Threads /\ pc[t] = "handler"
      /\ \A i, j \in DOMAIN s : s[i] = s[j] => i = j
      /\ k \in DOMAIN s /\ callee[t] = s[k]
  BY DEF HandlerReturns, At, IInv, TypeOK, ArgsInv, NoDuplicateSubscription, CalleeIsListed,
     Threads
<1>2. /\ UNCHANGED <<subscribers, queue>> /\ pc'[t] = "iterate" /\ cursor'[t] = k + 1
      /\ \A u \in Acceptors \ {t} : pc'[u] = pc[u] /\ cursor'[u] = cursor[u]
  BY <1>1 DEF HandlerReturns, Goto, table, IInv, TypeOK
<1>3. Owed(t) = {s[i] : i \in k .. Len(s)} /\ Owed(t)' = {s[i] : i \in k + 1 .. Len(s)}
  BY <1>1, <1>2 DEF Owed, Iterating
<1>4. Owed(t)' = Owed(t) \ {s[k]} /\ s[k] \in Owed(t) /\ s[k] \in Comms
  <2> HIDE DEF s, k
  <2>1. DOMAIN s = 1 .. Len(s) /\ Len(s) \in Nat /\ k \in 1 .. Len(s) /\ s[k] \in Comms
    BY <1>1
  <2>2. k .. Len(s) = {k} \union (k + 1 .. Len(s)) /\ k \notin k + 1 .. Len(s)
    BY <2>1
  <2>3. \A i \in k + 1 .. Len(s) : i \in DOMAIN s /\ s[i] # s[k]
    BY <1>1, <2>1
  <2> QED BY <1>3, <2>1, <2>2, <2>3
<1>5. \A u \in Acceptors \ {t} : Owed(u)' = Owed(u)
  BY <1>2 DEF Owed, Iterating
<1>6. [u \in Acceptors |-> Owed(u)']
        = [[u \in Acceptors |-> Owed(u)] EXCEPT ![t] = @ \ {callee[t]}]
  BY <1>1, <1>4, <1>5
<1> QED BY <1>1, <1>2, <1>4, <1>6 DEF Abstract!Notify

\* Every behaviour of the channel is one of PubSub.
THEOREM Implementation == Spec => ImplementsPubSub
<1>1. Init => Abstract!Init
  BY ChannelAssumption DEF Init, Abstract!Init, Owed, Iterating, Threads, ToSet
<1>2. ASSUME IInv, [Next]_vars PROVE [Abstract!Next]_(Abstract!vars)
  <2>1. CASE UNCHANGED vars
    <3>1. subscribers' = subscribers /\ \A t \in Acceptors : Owed(t)' = Owed(t)
      BY <2>1 DEF vars, Owed, Iterating
    <3> QED BY <3>1, Stutters
  <2>2. ASSUME NEW a \in Apps, Call(a) \/ SubscribeLock(a) \/ UnsubscribeLock(a) \/ AppStep(a)
        PROVE  [Abstract!Next]_(Abstract!vars)
    <3>1. CASE Push(a)
      BY <3>1, <1>2, PushJoins DEF Abstract!Next
    <3>2. CASE Erase(a)
      BY <3>2, <1>2, EraseLeaves DEF Abstract!Next
    <3> QED BY <2>2, <3>1, <3>2, <1>2, AppStutters
  <2>3. ASSUME NEW t \in Acceptors, DispatchLock(t) \/ AcceptorStep(t) \/ Broker(t)
        PROVE  [Abstract!Next]_(Abstract!vars)
    <3>1. CASE DispatchLock(t)
      BY <3>1, <1>2, DispatchDelivers DEF Abstract!Next
    <3>2. CASE HandlerReturns(t)
      BY <3>2, <1>2, ReturnNotifies DEF Abstract!Next
    <3> QED BY <2>3, <3>1, <3>2, <1>2, AcceptorStutters
  <2> QED BY <1>2, <2>1, <2>2, <2>3 DEF Next
<1> QED BY <1>1, <1>2, Invariance, PTL DEF Spec, ImplementsPubSub, Abstract!Spec

-----------------------------------------------------------------------------
(***************************************************************************)
(* Proof that a destroyed communicator is never called again, when a single*)
(* application thread uses the channel.  With two, another thread may be   *)
(* inserting a key while unsubscribe_all walks the table (WalkTorn).       *)
(***************************************************************************)
SingleApp == \A a, b \in Apps : a = b

\* The queues whose list names c.
Lists(c) == {q \in Queues : Contains(subscribers[q], c)}

\* A call is made on a living communicator, or by the walk of its destructor,
\* which has then left or is about to leave every queue it has passed.
WalkInv ==
  /\ \A a \in Apps : pc[a] \in {"subscribe", "subscribing", "accept", "push"} =>
       life[comm[a]] = "alive"
  /\ \A a \in Apps : pc[a] \in {"unsubscribe", "unsubscribing"} => life[comm[a]] # "dead"
  /\ \A a \in Apps : pc[a] = "walk" => life[comm[a]] = "dying"
  /\ \A a \in Apps : pc[a] = "walk" => Lists(comm[a]) \subseteq todo[a]
  /\ \A a \in Apps : pc[a] \in {"unsubscribe", "unsubscribing"} /\ life[comm[a]] = "dying" =>
       Lists(comm[a]) \subseteq todo[a] \union {queue[a]}
  /\ \A c \in Comms : life[c] = "dead" => Lists(c) = {}

\* A list names somebody only under a key of the table.
LEMMA ListsAreKeys ==
  ASSUME IInv, NEW c
  PROVE  Lists(c) \subseteq keys
<1> SUFFICES ASSUME NEW q \in Queues, Contains(subscribers[q], c), q \notin keys PROVE FALSE
  BY DEF Lists
<1>1. subscribers[q] = <<>>
  BY DEF IInv, TableInv
<1> QED BY <1>1, EmptySeq DEF Contains

\* Pushing comm[a] names nobody else anywhere.
LEMMA PushLists ==
  ASSUME IInv, NEW a \in Apps, Push(a), NEW c \in Comms, c # comm[a]
  PROVE  Lists(c)' = Lists(c)
<1>1. queue[a] \in Queues /\ comm[a] \in Comms
  BY DEF Push, At, IInv, ArgsInv
<1>2. ASSUME NEW q \in Queues
      PROVE  Contains(subscribers'[q], c) <=> Contains(subscribers[q], c)
  <2>1. CASE q # queue[a]
    BY <2>1, <1>1 DEF Push, IInv, TypeOK
  <2>2. CASE q = queue[a]
    <3> DEFINE s == subscribers[q]
    <3>1. s \in Seq(Comms) /\ ~Contains(s, comm[a]) /\ \A i, j \in DOMAIN s : s[i] = s[j] => i = j
      BY <2>2 DEF Push, At, IInv, TypeOK, TableInv, NoDuplicateSubscription
    <3>2. subscribers'[q] = Append(s, comm[a])
      BY <2>2, <1>1 DEF Push, IInv, TypeOK
    <3> HIDE DEF s
    <3>3. /\ Append(s, comm[a]) \in Seq(Comms)
          /\ ToSet(Append(s, comm[a])) = ToSet(s) \union {comm[a]}
      BY <3>1, <1>1, AppendedProperties
    <3>4. Contains(Append(s, comm[a]), c) <=> Contains(s, c)
      <4>1. Contains(Append(s, comm[a]), c) <=> c \in ToSet(Append(s, comm[a]))
        BY <3>3, ContainsIsMember
      <4>2. Contains(s, c) <=> c \in ToSet(s)
        BY <3>1, ContainsIsMember
      <4> QED BY <4>1, <4>2, <3>3
    <3> QED BY <3>2, <3>4 DEF s
  <2> QED BY <2>1, <2>2
<1> QED BY <1>2 DEF Lists

\* Erasing comm[a] takes its queue off the communicator's lists, and changes
\* nobody else's.
LEMMA EraseLists ==
  ASSUME IInv, NEW a \in Apps, Erase(a), NEW c \in Comms
  PROVE  Lists(c)' = IF c = comm[a] THEN Lists(c) \ {queue[a]} ELSE Lists(c)
<1>1. queue[a] \in Queues /\ comm[a] \in Comms
  BY DEF Erase, At, IInv, ArgsInv
<1>2. ASSUME NEW q \in Queues, q # queue[a]
      PROVE  Contains(subscribers'[q], c) <=> Contains(subscribers[q], c)
  BY <1>1, <1>2 DEF Erase, IInv, TypeOK
<1>3. Contains(subscribers'[queue[a]], c) <=> Contains(subscribers[queue[a]], c) /\ c # comm[a]
  <2> DEFINE s == subscribers[queue[a]]
  <2>1. s \in Seq(Comms) /\ Contains(s, comm[a]) /\ \A i, j \in DOMAIN s : s[i] = s[j] => i = j
    BY <1>1 DEF Erase, IsSubscribed, IInv, TypeOK, NoDuplicateSubscription
  <2>2. subscribers'[queue[a]] = Erased(s, comm[a])
    BY <1>1 DEF Erase, IInv, TypeOK
  <2> HIDE DEF s
  <2>3. /\ Erased(s, comm[a]) \in Seq(Comms)
        /\ ToSet(Erased(s, comm[a])) = ToSet(s) \ {comm[a]}
    BY <2>1, ErasedProperties
  <2>4. Contains(Erased(s, comm[a]), c) <=> c \in ToSet(Erased(s, comm[a]))
    BY <2>3, ContainsIsMember
  <2>5. Contains(s, c) <=> c \in ToSet(s)
    BY <2>1, ContainsIsMember
  <2> QED BY <2>2, <2>3, <2>4, <2>5 DEF s
<1> QED BY <1>1, <1>2, <1>3 DEF Lists

\* The steps of the single application thread preserve WalkInv.
LEMMA AppKeepsWalkInv ==
  ASSUME SingleApp, IInv, WalkInv, NEW a \in Apps,
         Call(a) \/ SubscribeLock(a) \/ UnsubscribeLock(a) \/ AppStep(a)
  PROVE  WalkInv'
<1> USE ChannelAssumption DEF At, Goto, table, loop, Threads
<1>0. /\ \A b \in Apps : b = a
      /\ a \in Threads
      /\ pc \in [Threads -> AppPoints \union AcceptorPoints]
      /\ comm \in [Apps -> Comms \union {None}] /\ queue \in [Threads -> Queues \union {None}]
      /\ todo \in [Apps -> SUBSET Queues]
      /\ life \in [Comms -> {"alive", "dying", "dead"}]
      /\ pc[a] # "idle" => comm[a] \in Comms
  BY DEF SingleApp, IInv, TypeOK, ArgsInv
<1>1. CASE Call(a)
  <2>1. ASSUME NEW q \in Queues, NEW c \in Comms, CallSubscribe(a, q, c) \/ CallUnsubscribe(a, q, c)
        PROVE  WalkInv'
    BY <2>1, <1>0 DEF CallSubscribe, CallUnsubscribe, WalkInv, Lists
  <2>2. ASSUME NEW c \in Comms, Destroy(a, c)
        PROVE  WalkInv'
    BY <2>2, <1>0, ListsAreKeys DEF Destroy, WalkInv, Lists
  <2> QED BY <1>1, <2>1, <2>2 DEF Call
<1>2. CASE SubscribeLock(a) \/ UnsubscribeLock(a)
  BY <1>2, <1>0 DEF SubscribeLock, UnsubscribeLock, Acquire, WalkInv, Lists
<1>3. CASE SubscribeRefused(a) \/ FindQueue(a) \/ AcceptThrows(a)
  BY <1>3, <1>0 DEF SubscribeRefused, FindQueue, AcceptThrows, Return, WalkInv, Lists
<1>4. CASE AcceptStarts(a)
  <2>1. PICK t \in Acceptors :
          /\ pc' = [pc EXCEPT ![t] = "setup", ![a] = "push"]
          /\ queue' = [queue EXCEPT ![t] = queue[a]]
    BY <1>4 DEF AcceptStarts
  <2>2. a # t /\ pc'[a] = "push" /\ pc[a] = "accept"
    BY <2>1, <1>0, <1>4 DEF AcceptStarts
  <2> QED BY <2>2, <1>0, <1>4 DEF AcceptStarts, WalkInv, Lists
<1>5. CASE Push(a)
  <2>1. comm[a] \in Comms /\ life[comm[a]] = "alive"
    BY <1>0, <1>5 DEF Push, WalkInv
  <2>2. pc'[a] = "idle" /\ life' = life
    BY <1>0, <1>5 DEF Push, Return
  <2>3. \A c \in Comms : life[c] = "dead" => Lists(c)' = {}
    BY <2>1, <1>5, PushLists DEF WalkInv
  <2> QED BY <1>0, <2>2, <2>3 DEF WalkInv
<1>6. CASE UnsubscribeRefused(a)
  <2>1. queue[a] \notin Lists(comm[a])
    BY <1>6, ListsAreKeys DEF UnsubscribeRefused, IsSubscribed, Lists
  <2>2. UNCHANGED <<subscribers, todo, life>> /\ pc[a] = "unsubscribing"
    BY <1>6 DEF UnsubscribeRefused
  <2> QED BY <2>1, <2>2, <1>0, <1>6 DEF UnsubscribeRefused, UnsubscribeReturns, WalkInv, Lists
<1>7. CASE Erase(a)
  <2>1. comm[a] \in Comms /\ pc[a] = "unsubscribing" /\ UNCHANGED <<todo, life>>
    BY <1>0, <1>7 DEF Erase
  <2>2. \A c \in Comms : Lists(c)' = IF c = comm[a] THEN Lists(c) \ {queue[a]} ELSE Lists(c)
    BY <1>7, EraseLists
  <2>3. CASE life[comm[a]] = "dying"
    <3>1. PICK c \in Comms : c = comm[a]
      BY <2>1
    <3>2. pc'[a] = "walk" /\ comm'[a] = c
      BY <2>3, <3>1, <1>0, <1>7 DEF Erase, UnsubscribeReturns
    <3>3. Lists(c) \subseteq todo[a] \union {queue[a]}
      BY <2>1, <2>3, <3>1 DEF WalkInv
    <3>4. Lists(c)' \subseteq todo[a]
      BY <2>2, <3>1, <3>3
    <3>5. \A d \in Comms : life[d] = "dead" => Lists(d)' = {}
      BY <2>2 DEF WalkInv
    <3> QED BY <1>0, <2>1, <2>3, <3>1, <3>2, <3>4, <3>5 DEF WalkInv, Lists
  <2>4. CASE life[comm[a]] # "dying"
    <3>1. pc'[a] = "idle"
      BY <2>4, <1>0, <1>7 DEF Erase, UnsubscribeReturns
    <3>2. \A c \in Comms : life[c] = "dead" => Lists(c)' = {}
      BY <2>2 DEF WalkInv
    <3> QED BY <1>0, <2>1, <3>1, <3>2 DEF WalkInv
  <2> QED BY <2>3, <2>4
<1>8. CASE Walk(a)
  BY <1>8, <1>0 DEF Walk, WalkInv, Lists
<1>9. CASE WalkTorn(a)
  BY <1>9, <1>0 DEF WalkTorn
<1>10. CASE Destroyed(a)
  BY <1>10, <1>0 DEF Destroyed, Return, WalkInv, Lists
<1> QED
  BY <1>1, <1>2, <1>3, <1>4, <1>5, <1>6, <1>7, <1>8, <1>9, <1>10 DEF AppStep

\* The consumers' steps do not touch what WalkInv is about.
LEMMA AcceptorKeepsWalkInv ==
  ASSUME IInv, WalkInv, NEW t \in Acceptors,
         DispatchLock(t) \/ AcceptorStep(t) \/ Broker(t)
  PROVE  WalkInv'
<1>1. /\ UNCHANGED <<subscribers, queue, comm, todo, life>>
      /\ \A a \in Apps : pc'[a] = pc[a]
  BY ChannelAssumption DEF IInv, TypeOK, Threads, AcceptorStep, Broker, ConsumeStarts,
     ProcessDies, Receive, ConnectionLost, DispatchLock, Acquire, CallHandler,
     HandlerReturns, HandlerReenters, DispatchEnds, Goto, table, loop
<1> QED BY <1>1 DEF WalkInv, Lists

\* A communicator whose destructor has finished is on no list and is never
\* called again, if one application thread uses the channel.
THEOREM Destruction ==
  ASSUME SingleApp
  PROVE  Spec => []NoCallAfterDestruction
<1>1. Init => WalkInv
  <2> SUFFICES ASSUME Init PROVE WalkInv
    OBVIOUS
  <2>1. \A a \in Apps : pc[a] = "idle"
    BY DEF Init, Threads
  <2>2. \A c \in Comms : life[c] = "alive"
    BY DEF Init
  <2> QED BY <2>1, <2>2 DEF WalkInv
<1>2. ASSUME IInv, WalkInv, [Next]_vars PROVE WalkInv'
  <2>1. CASE UNCHANGED vars
    BY <2>1, <1>2 DEF vars, WalkInv, Lists
  <2>2. ASSUME NEW a \in Apps, Call(a) \/ SubscribeLock(a) \/ UnsubscribeLock(a) \/ AppStep(a)
        PROVE  WalkInv'
    BY <2>2, <1>2, AppKeepsWalkInv
  <2>3. ASSUME NEW t \in Acceptors, DispatchLock(t) \/ AcceptorStep(t) \/ Broker(t)
        PROVE  WalkInv'
    BY <2>3, <1>2, AcceptorKeepsWalkInv
  <2> QED BY <1>2, <2>1, <2>2, <2>3 DEF Next
<1>3. ASSUME IInv, WalkInv PROVE NoCallAfterDestruction
  <2> SUFFICES ASSUME NEW c \in Comms, life[c] = "dead"
               PROVE  /\ \A q \in Queues : ~Contains(subscribers[q], c)
                      /\ \A t \in Acceptors : callee[t] # c
    BY DEF NoCallAfterDestruction
  <2>1. \A q \in Queues : ~Contains(subscribers[q], c)
    BY <1>3 DEF WalkInv, Lists
  <2>2. ASSUME NEW t \in Acceptors, callee[t] = c PROVE FALSE
    <3>1. pc[t] \in {"handler", "stuck"}
      BY <1>3, <2>2, ChannelAssumption DEF IInv, ArgsInv
    <3>2. /\ cursor[t] \in DOMAIN subscribers[queue[t]]
          /\ subscribers[queue[t]][cursor[t]] = c
      BY <1>3, <2>2, <3>1 DEF IInv, CalleeIsListed
    <3>3. queue[t] \in Queues /\ subscribers[queue[t]] \in Seq(Comms)
      BY <1>3, <3>1 DEF IInv, TypeOK, ArgsInv
    <3> QED BY <3>2, <3>3, <2>1 DEF Contains
  <2> QED BY <2>1, <2>2
<1> QED BY <1>1, <1>2, <1>3, Invariance, PTL DEF Spec
=================================================================================
