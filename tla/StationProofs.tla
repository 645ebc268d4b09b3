------------------------------ MODULE StationProofs ------------------------------
(***************************************************************************)
(* The table of channels, for any number of threads, identifiers and       *)
(* channel objects: whoever publishes does so alone and over a channel that*)
(* exists, callers of an identifier meet on the registered channel, and a  *)
(* consumer that was freed has lost its thread.                            *)
(***************************************************************************)
EXTENDS Station, TLAPS

\* What a thread is doing, by where it is: only the Closer closes and shuts down.
CallsAreUnderWay ==
  \A t \in Threads :
    /\ pc[t] \in {"get", "connect", "insert"} => op[t] \in Calls /\ id[t] \in Ids
    /\ pc[t] \in {"stop", "join", "sweep", "ended"} => t = Closer
    /\ pc[t] \in {"stop", "join"} => op[t] \in {"close", "shutdown"}
    /\ pc[t] = "sweep" => op[t] = "shutdown"

\* The shutdown is under way, or over.
ShutsDown ==
  \/ pc[Closer] \in {"sweep", "ended"}
  \/ pc[Closer] \in {"stop", "join"} /\ op[Closer] = "shutdown"

\* Nobody else is in a call by then, what is left to visit is registered, and no
\* channel is deleted before.
ShutdownIsAlone ==
  /\ ShutsDown => \A t \in Threads \ {Closer} : pc[t] = "idle"
  /\ ShutsDown => \A i \in sweep : channels[i] # None
  /\ ~ShutsDown => \A o \in Objects : state[o] # "deleted"

\* Who writes to a connection holds its mutex.
WritersHoldTheLock == \A t \in Threads : pc[t] = "writing" => publisher[got[t]] = t

\* A channel that is connecting is known to the thread that made it, and to no other.
NewIsPrivate ==
  \A t \in Threads : pc[t] = "connect" =>
    /\ state[got[t]] = "new"
    /\ \A u \in Threads \ {t} : pc[u] = "connect" => got[u] # got[t]

\* What is registered, or is about to be, was connected.
Connected == {"open", "closed", "deleted"}

RegisteredWasOpen ==
  /\ \A i \in Ids : channels[i] # None => state[channels[i]] \in Connected
  /\ \A t \in Threads : pc[t] = "insert" => state[got[t]] \in Connected

\* What the Closer closes is open until it is done.
ClosingIsOpen == pc[Closer] \in {"stop", "join"} => state[got[Closer]] = "open"

\* A thread that did not race has the registered object in hand, or is the only one
\* that is creating a channel and will register it.
UnracedAgree ==
  \A t \in Threads \ raced :
    /\ pc[t] = "connect" => channels[id[t]] = None
    /\ pc[t] = "insert" => channels[id[t]] \in {None, got[t]}
    /\ Using(t) => id[t] \in Ids /\ got[t] = channels[id[t]]
    /\ t \in Creating => Creating = {t}

IInv ==
  /\ TypeOK
  /\ CallsAreUnderWay
  /\ ShutdownIsAlone
  /\ WritersHoldTheLock
  /\ NewIsPrivate
  /\ RegisteredWasOpen
  /\ ClosingIsOpen
  /\ StoppedThreadIsGone
  /\ UnracedAgree

-----------------------------------------------------------------------------
\* Each step of the station keeps the invariant.
THEOREM IInvStep == IInv /\ [Next]_vars => IInv'
<1> SUFFICES ASSUME IInv, [Next]_vars PROVE IInv'
  OBVIOUS
<1> USE StationAssumption DEF IInv
<1>1. ASSUME NEW t \in Threads, NEW what \in Calls, NEW i \in Ids, Call(t, what, i) PROVE IInv'
  <2>1. TypeOK'
    BY <1>1 DEF Call, Serving, At, Goto, Return, call, links, TypeOK, States, Consumers,
       Acceptors, Points, Calls, Ops, CallsAreUnderWay
  <2>2. CallsAreUnderWay'
    BY <1>1 DEF Call, Serving, At, Goto, Return, call, links, TypeOK, CallsAreUnderWay
  <2>3. ShutdownIsAlone'
    BY <1>1 DEF Call, Serving, At, Goto, Return, call, links, TypeOK, CallsAreUnderWay,
       ShutdownIsAlone, ShutsDown
  <2>4. WritersHoldTheLock' /\ NewIsPrivate' /\ RegisteredWasOpen' /\ ClosingIsOpen' /\
     StoppedThreadIsGone'
    BY <1>1 DEF Call, Serving, At, Goto, Return, call, links, TypeOK,
       WritersHoldTheLock, CallsAreUnderWay, NewIsPrivate, ClosingIsOpen,
       RegisteredWasOpen, Connected, StoppedThreadIsGone
  <2>5. UnracedAgree'
    BY <1>1 DEF Call, At, Goto, Return, call, links, TypeOK, CallsAreUnderWay,
       UnracedAgree, Using, Creating
  <2> QED BY <2>1, <2>2, <2>3, <2>4, <2>5
<1>2. ASSUME NEW t \in Threads, Found(t) PROVE IInv'
  <2>1. TypeOK'
    BY <1>2 DEF Found, At, Goto, Return, call, links, TypeOK, States, Consumers,
       Acceptors, Points, Calls, Ops, CallsAreUnderWay
  <2>2. CallsAreUnderWay'
    BY <1>2 DEF Found, At, Goto, Return, call, links, TypeOK, CallsAreUnderWay
  <2>3. ShutdownIsAlone'
    BY <1>2 DEF Found, At, Goto, Return, call, links, TypeOK, CallsAreUnderWay,
       ShutdownIsAlone, ShutsDown
  <2>4. NewIsPrivate'
    BY <1>2 DEF Found, At, Goto, Return, call, links, TypeOK, CallsAreUnderWay,
       NewIsPrivate, ClosingIsOpen
  <2>5. RegisteredWasOpen'
    BY <1>2 DEF Found, At, Goto, Return, call, links, TypeOK, CallsAreUnderWay,
       NewIsPrivate, RegisteredWasOpen, Connected
  <2>6. WritersHoldTheLock' /\ ClosingIsOpen' /\ StoppedThreadIsGone'
    BY <1>2 DEF Found, At, Goto, Return, call, links, TypeOK, WritersHoldTheLock,
       CallsAreUnderWay, NewIsPrivate, ClosingIsOpen, RegisteredWasOpen, Connected,
       StoppedThreadIsGone
  <2>7. UnracedAgree'
    BY <1>2 DEF Found, At, Goto, Return, call, links, TypeOK, CallsAreUnderWay,
       UnracedAgree, Using, Creating
  <2> QED BY <2>1, <2>2, <2>3, <2>4, <2>5, <2>6, <2>7
<1>3. ASSUME NEW t \in Threads, Create(t) PROVE IInv'
  <2>1. TypeOK'
    BY <1>3 DEF Create, Creating, At, Goto, Return, call, links, TypeOK, States, Consumers,
       Acceptors, Points, Calls, Ops, CallsAreUnderWay
  <2>2. CallsAreUnderWay'
    BY <1>3 DEF Create, At, Goto, Return, call, links, TypeOK, CallsAreUnderWay
  <2>3. ShutdownIsAlone'
    BY <1>3 DEF Create, At, Goto, Return, call, links, TypeOK, CallsAreUnderWay,
       ShutdownIsAlone, ShutsDown
  <2>4. NewIsPrivate'
    BY <1>3 DEF Create, At, Goto, Return, call, links, TypeOK, CallsAreUnderWay,
       NewIsPrivate, ClosingIsOpen
  <2>5. RegisteredWasOpen'
    BY <1>3 DEF Create, At, Goto, Return, call, links, TypeOK, CallsAreUnderWay,
       NewIsPrivate, RegisteredWasOpen, Connected
  <2>6. StoppedThreadIsGone'
    BY <1>3 DEF Create, At, Goto, Return, call, links, TypeOK, CallsAreUnderWay,
       RegisteredWasOpen, Connected, NewIsPrivate, ClosingIsOpen, StoppedThreadIsGone
  <2>7. WritersHoldTheLock' /\ ClosingIsOpen'
    BY <1>3 DEF Create, At, Goto, Return, call, links, TypeOK, WritersHoldTheLock,
       CallsAreUnderWay, NewIsPrivate, ClosingIsOpen
  <2>8. UnracedAgree'
    BY <1>3 DEF Create, Relinking, At, Goto, Return, call, links, TypeOK, CallsAreUnderWay,
       UnracedAgree, Using, Creating
  <2> QED BY <2>1, <2>2, <2>3, <2>4, <2>5, <2>6, <2>7, <2>8
<1>4. ASSUME NEW t \in Threads, Connects(t) PROVE IInv'
  <2>1. TypeOK'
    BY <1>4 DEF Connects, At, Goto, Return, call, links, TypeOK, States, Consumers,
       Acceptors, Points, Calls, Ops, CallsAreUnderWay
  <2>2. CallsAreUnderWay'
    BY <1>4 DEF Connects, At, Goto, Return, call, links, TypeOK, CallsAreUnderWay
  <2>3. ShutdownIsAlone'
    BY <1>4 DEF Connects, At, Goto, Return, call, links, TypeOK, CallsAreUnderWay,
       ShutdownIsAlone, ShutsDown
  <2>4. NewIsPrivate'
    BY <1>4 DEF Connects, At, Goto, Return, call, links, TypeOK, CallsAreUnderWay,
       NewIsPrivate, ClosingIsOpen
  <2>5. RegisteredWasOpen'
    BY <1>4 DEF Connects, At, Goto, Return, call, links, TypeOK, CallsAreUnderWay,
       NewIsPrivate, RegisteredWasOpen, Connected
  <2>6. StoppedThreadIsGone'
    BY <1>4 DEF Connects, At, Goto, Return, call, links, TypeOK, CallsAreUnderWay,
       RegisteredWasOpen, Connected, NewIsPrivate, ClosingIsOpen, StoppedThreadIsGone
  <2>7. WritersHoldTheLock' /\ ClosingIsOpen'
    BY <1>4 DEF Connects, At, Goto, Return, call, links, TypeOK, WritersHoldTheLock,
       CallsAreUnderWay, NewIsPrivate, ClosingIsOpen
  <2>8. UnracedAgree'
    BY <1>4 DEF Connects, At, Goto, Return, call, links, TypeOK, CallsAreUnderWay,
       UnracedAgree, Using, Creating
  <2> QED BY <2>1, <2>2, <2>3, <2>4, <2>5, <2>6, <2>7, <2>8
<1>5. ASSUME NEW t \in Threads, ConnectThrows(t) PROVE IInv'
  <2>1. TypeOK'
    BY <1>5 DEF ConnectThrows, At, Goto, Return, call, links, TypeOK, States, Consumers,
       Acceptors, Points, Calls, Ops, CallsAreUnderWay
  <2>2. CallsAreUnderWay'
    BY <1>5 DEF ConnectThrows, At, Goto, Return, call, links, TypeOK, CallsAreUnderWay
  <2>3. ShutdownIsAlone'
    BY <1>5 DEF ConnectThrows, At, Goto, Return, call, links, TypeOK, CallsAreUnderWay,
       ShutdownIsAlone, ShutsDown
  <2>4. WritersHoldTheLock' /\ NewIsPrivate' /\ RegisteredWasOpen' /\ ClosingIsOpen' /\
     StoppedThreadIsGone'
    BY <1>5 DEF ConnectThrows, At, Goto, Return, call, links, TypeOK,
       WritersHoldTheLock, CallsAreUnderWay, NewIsPrivate, ClosingIsOpen,
       RegisteredWasOpen, Connected, StoppedThreadIsGone
  <2>5. UnracedAgree'
    BY <1>5 DEF ConnectThrows, At, Goto, Return, call, links, TypeOK, CallsAreUnderWay,
       UnracedAgree, Using, Creating
  <2> QED BY <2>1, <2>2, <2>3, <2>4, <2>5
<1>6. ASSUME NEW t \in Threads, Insert(t) PROVE IInv'
  <2>1. TypeOK'
    BY <1>6 DEF Insert, Registered, At, Goto, Return, call, links, TypeOK, States,
       Consumers, Acceptors, Points, Calls, Ops, CallsAreUnderWay
  <2>2. CallsAreUnderWay'
    BY <1>6 DEF Insert, Registered, At, Goto, Return, call, links, TypeOK,
       CallsAreUnderWay
  <2>3. ShutdownIsAlone'
    BY <1>6 DEF Insert, Registered, At, Goto, Return, call, links, TypeOK,
       CallsAreUnderWay, ShutdownIsAlone, ShutsDown
  <2>4. RegisteredWasOpen'
    BY <1>6 DEF Insert, Registered, At, Goto, Return, call, links, TypeOK,
       CallsAreUnderWay, NewIsPrivate, RegisteredWasOpen, Connected
  <2>5. WritersHoldTheLock' /\ NewIsPrivate' /\ ClosingIsOpen' /\ StoppedThreadIsGone'
    BY <1>6 DEF Insert, Registered, At, Goto, Return, call, links, TypeOK,
       WritersHoldTheLock, CallsAreUnderWay, NewIsPrivate, ClosingIsOpen,
       RegisteredWasOpen, Connected, StoppedThreadIsGone
  <2>6. UnracedAgree'
    <3>1. /\ At(t, "insert") /\ id[t] \in Ids /\ got[t] \in Objects
          /\ channels' = Registered(t) \/ (Relinking(t) /\ channels' = channels)
          /\ pc'[t] \in {"publish", "attach", "idle"}
          /\ pc'[t] # "idle" => op'[t] = op[t] /\ id'[t] = id[t] /\ got'[t] = got[t]
          /\ raced' \in {raced, raced \ {t}} /\ (pc'[t] # "idle" => raced' = raced)
          /\ \A u \in Threads \ {t} :
               pc'[u] = pc[u] /\ op'[u] = op[u] /\ id'[u] = id[u] /\ got'[u] = got[u]
      BY <1>6 DEF Insert, At, Goto, Return, call, TypeOK, CallsAreUnderWay
    <3>2. \A i \in Ids : channels'[i] # channels[i] =>
             i = id[t] /\ channels[i] = None /\ channels'[i] = got[t]
      BY <3>1 DEF Registered, TypeOK
    <3>3. Creating' \subseteq Creating \ {t}
      BY <3>1, <3>2 DEF Creating, CallsAreUnderWay, At
    <3>4. t \notin raced /\ pc'[t] # "idle" => got'[t] = channels'[id'[t]]
      <4>1. SUFFICES ASSUME t \notin raced, pc'[t] # "idle" PROVE got[t] = channels'[id[t]]
        BY <3>1
      <4>2. CASE channels[id[t]] = None
        <5>1. Creating = {t}
          BY <3>1, <4>1, <4>2 DEF UnracedAgree, Using, Creating, At
        <5>2. ~Relinking(t)
          BY <5>1 DEF Relinking, Creating
        <5> QED BY <3>1, <4>2, <5>2 DEF Registered, TypeOK
      <4>3. CASE channels[id[t]] # None
        BY <3>1, <3>2, <4>1, <4>3 DEF UnracedAgree, At
      <4> QED BY <4>2, <4>3
    <3>5. ASSUME NEW u \in Threads \ raced', u # t
          PROVE  /\ pc'[u] = "connect" => channels'[id'[u]] = None
                 /\ pc'[u] = "insert" => channels'[id'[u]] \in {None, got'[u]}
                 /\ Using(u)' => id'[u] \in Ids /\ got'[u] = channels'[id'[u]]
                 /\ u \in Creating' => Creating' = {u}
      <4>1. u \in Threads \ raced
        BY <3>1, <3>5
      <4>2. u \in Creating => Creating = {u} /\ t \notin Creating
        BY <3>5, <4>1 DEF UnracedAgree
      <4>3. ASSUME u \in Creating PROVE channels' = channels
        <5>1. channels[id[t]] # None
          BY <3>1, <4>2, <4>3 DEF Creating, At
        <5>2. Registered(t) = channels
          BY <3>1, <5>1 DEF Registered, TypeOK
        <5> QED BY <3>1, <5>2
      <4>4. ASSUME u \notin Creating, pc[u] \in {"connect", "insert"}
            PROVE  channels[id[u]] # None /\ channels'[id[u]] = channels[id[u]]
        BY <3>2, <4>4 DEF Creating, CallsAreUnderWay
      <4>5. u \in Creating' => Creating' = {u}
        BY <3>3, <4>2
      <4>6. ASSUME Using(u) PROVE id[u] \in Ids /\ got[u] = channels'[id[u]]
        <5>1. id[u] \in Ids /\ got[u] = channels[id[u]] /\ got[u] # None
          BY <4>1, <4>6 DEF UnracedAgree, Using, TypeOK
        <5> QED BY <3>2, <5>1
      <4> QED BY <3>1, <3>5, <4>1, <4>3, <4>4, <4>5, <4>6 DEF UnracedAgree, Using
    <3> QED BY <3>1, <3>3, <3>4, <3>5 DEF UnracedAgree, Using
  <2> QED BY <2>1, <2>2, <2>3, <2>4, <2>5, <2>6
<1>7. ASSUME NEW t \in Threads, PublishLock(t) PROVE IInv'
  <2>1. TypeOK'
    BY <1>7 DEF PublishLock, At, Goto, Return, call, links, TypeOK, States, Consumers,
       Acceptors, Points, Calls, Ops, CallsAreUnderWay
  <2>2. CallsAreUnderWay'
    BY <1>7 DEF PublishLock, At, Goto, Return, call, links, TypeOK, CallsAreUnderWay
  <2>3. WritersHoldTheLock'
    BY <1>7 DEF PublishLock, At, Goto, Return, call, links, TypeOK, WritersHoldTheLock
  <2>4. ShutdownIsAlone' /\ NewIsPrivate' /\ RegisteredWasOpen' /\ ClosingIsOpen' /\
     StoppedThreadIsGone'
    BY <1>7 DEF PublishLock, At, Goto, Return, call, links, TypeOK, CallsAreUnderWay,
       ShutdownIsAlone, ShutsDown, NewIsPrivate, ClosingIsOpen, RegisteredWasOpen,
       Connected, StoppedThreadIsGone
  <2>5. UnracedAgree'
    BY <1>7 DEF PublishLock, At, Goto, Return, call, links, TypeOK, CallsAreUnderWay,
       UnracedAgree, Using, Creating
  <2> QED BY <2>1, <2>2, <2>3, <2>4, <2>5
<1>8. ASSUME NEW t \in Threads, PublishEnds(t) PROVE IInv'
  <2>1. TypeOK'
    BY <1>8 DEF PublishEnds, At, Goto, Return, call, links, TypeOK, States, Consumers,
       Acceptors, Points, Calls, Ops, CallsAreUnderWay
  <2>2. CallsAreUnderWay'
    BY <1>8 DEF PublishEnds, At, Goto, Return, call, links, TypeOK, CallsAreUnderWay
  <2>3. WritersHoldTheLock'
    BY <1>8 DEF PublishEnds, At, Goto, Return, call, links, TypeOK, WritersHoldTheLock
  <2>4. ShutdownIsAlone' /\ NewIsPrivate' /\ RegisteredWasOpen' /\ ClosingIsOpen' /\
     StoppedThreadIsGone'
    BY <1>8 DEF PublishEnds, At, Goto, Return, call, links, TypeOK, CallsAreUnderWay,
       ShutdownIsAlone, ShutsDown, NewIsPrivate, ClosingIsOpen, RegisteredWasOpen,
       Connected, StoppedThreadIsGone
  <2>5. UnracedAgree'
    BY <1>8 DEF PublishEnds, At, Goto, Return, call, links, TypeOK, CallsAreUnderWay,
       UnracedAgree, Using, Creating
  <2> QED BY <2>1, <2>2, <2>3, <2>4, <2>5
<1>9. ASSUME NEW t \in Threads, Attach(t) PROVE IInv'
  <2>1. TypeOK'
    BY <1>9 DEF Attach, At, Goto, Return, call, links, TypeOK, States, Consumers,
       Acceptors, Points, Calls, Ops, CallsAreUnderWay
  <2>2. CallsAreUnderWay'
    BY <1>9 DEF Attach, At, Goto, Return, call, links, TypeOK, CallsAreUnderWay
  <2>3. StoppedThreadIsGone'
    BY <1>9 DEF Attach, At, Goto, Return, call, links, TypeOK, CallsAreUnderWay,
       RegisteredWasOpen, Connected, NewIsPrivate, ClosingIsOpen, StoppedThreadIsGone
  <2>4. ShutdownIsAlone' /\ WritersHoldTheLock' /\ NewIsPrivate' /\ RegisteredWasOpen'
     /\ ClosingIsOpen'
    BY <1>9 DEF Attach, At, Goto, Return, call, links, TypeOK, CallsAreUnderWay,
       ShutdownIsAlone, ShutsDown, WritersHoldTheLock, NewIsPrivate, ClosingIsOpen,
       RegisteredWasOpen, Connected
  <2>5. UnracedAgree'
    BY <1>9 DEF Attach, At, Goto, Return, call, links, TypeOK, CallsAreUnderWay,
       UnracedAgree, Using, Creating
  <2> QED BY <2>1, <2>2, <2>3, <2>4, <2>5
<1>10. ASSUME NEW t \in Threads, UseClosed(t) PROVE IInv'
  <2>1. TypeOK'
    BY <1>10 DEF UseClosed, At, Goto, Return, call, links, TypeOK, States, Consumers,
       Acceptors, Points, Calls, Ops, CallsAreUnderWay
  <2>2. CallsAreUnderWay'
    BY <1>10 DEF UseClosed, At, Goto, Return, call, links, TypeOK, CallsAreUnderWay
  <2>3. ShutdownIsAlone' /\ WritersHoldTheLock' /\ NewIsPrivate' /\ RegisteredWasOpen'
     /\ ClosingIsOpen' /\ StoppedThreadIsGone'
    BY <1>10 DEF UseClosed, At, Goto, Return, call, links, TypeOK, CallsAreUnderWay,
       ShutdownIsAlone, ShutsDown, WritersHoldTheLock, NewIsPrivate, ClosingIsOpen,
       RegisteredWasOpen, Connected, StoppedThreadIsGone
  <2>4. UnracedAgree'
    BY <1>10 DEF UseClosed, At, Goto, Return, call, links, TypeOK, CallsAreUnderWay,
       UnracedAgree, Using, Creating
  <2> QED BY <2>1, <2>2, <2>3, <2>4
<1>11. ASSUME NEW o \in Objects, Receive(o) PROVE IInv'
  <2>1. TypeOK'
    BY <1>11 DEF Receive, At, Goto, Return, call, links, TypeOK, States, Consumers,
       Acceptors, Points, Calls, Ops, CallsAreUnderWay
  <2>2. StoppedThreadIsGone'
    BY <1>11 DEF Receive, At, Goto, Return, call, links, TypeOK, CallsAreUnderWay,
       RegisteredWasOpen, Connected, NewIsPrivate, ClosingIsOpen, StoppedThreadIsGone
  <2>3. CallsAreUnderWay' /\ ShutdownIsAlone' /\ WritersHoldTheLock' /\ NewIsPrivate' /\
     RegisteredWasOpen' /\ ClosingIsOpen'
    BY <1>11 DEF Receive, At, Goto, Return, call, links, TypeOK, CallsAreUnderWay,
       ShutdownIsAlone, ShutsDown, WritersHoldTheLock, NewIsPrivate, ClosingIsOpen,
       RegisteredWasOpen, Connected
  <2>4. UnracedAgree'
    BY <1>11 DEF Receive, At, Goto, Return, call, links, TypeOK, CallsAreUnderWay,
       UnracedAgree, Using, Creating
  <2> QED BY <2>1, <2>2, <2>3, <2>4
<1>12. ASSUME NEW o \in Objects, Dispatched(o) PROVE IInv'
  <2>1. TypeOK'
    BY <1>12 DEF Dispatched, At, Goto, Return, call, links, TypeOK, States, Consumers,
       Acceptors, Points, Calls, Ops, CallsAreUnderWay
  <2>2. StoppedThreadIsGone'
    BY <1>12 DEF Dispatched, At, Goto, Return, call, links, TypeOK, CallsAreUnderWay,
       RegisteredWasOpen, Connected, NewIsPrivate, ClosingIsOpen, StoppedThreadIsGone
  <2>3. CallsAreUnderWay' /\ ShutdownIsAlone' /\ WritersHoldTheLock' /\ NewIsPrivate' /\
     RegisteredWasOpen' /\ ClosingIsOpen'
    BY <1>12 DEF Dispatched, At, Goto, Return, call, links, TypeOK, CallsAreUnderWay,
       ShutdownIsAlone, ShutsDown, WritersHoldTheLock, NewIsPrivate, ClosingIsOpen,
       RegisteredWasOpen, Connected
  <2>4. UnracedAgree'
    BY <1>12 DEF Dispatched, At, Goto, Return, call, links, TypeOK, CallsAreUnderWay,
       UnracedAgree, Using, Creating
  <2> QED BY <2>1, <2>2, <2>3, <2>4
<1>13. ASSUME NEW o \in Objects, AcceptorEnds(o) PROVE IInv'
  <2>1. TypeOK'
    BY <1>13 DEF AcceptorEnds, At, Goto, Return, call, links, TypeOK, States, Consumers,
       Acceptors, Points, Calls, Ops, CallsAreUnderWay
  <2>2. StoppedThreadIsGone'
    BY <1>13 DEF AcceptorEnds, At, Goto, Return, call, links, TypeOK, CallsAreUnderWay,
       RegisteredWasOpen, Connected, NewIsPrivate, ClosingIsOpen, StoppedThreadIsGone
  <2>3. CallsAreUnderWay' /\ ShutdownIsAlone' /\ WritersHoldTheLock' /\ NewIsPrivate' /\
     RegisteredWasOpen' /\ ClosingIsOpen'
    BY <1>13 DEF AcceptorEnds, At, Goto, Return, call, links, TypeOK, CallsAreUnderWay,
       ShutdownIsAlone, ShutsDown, WritersHoldTheLock, NewIsPrivate, ClosingIsOpen,
       RegisteredWasOpen, Connected
  <2>4. UnracedAgree'
    BY <1>13 DEF AcceptorEnds, At, Goto, Return, call, links, TypeOK, CallsAreUnderWay,
       UnracedAgree, Using, Creating
  <2> QED BY <2>1, <2>2, <2>3, <2>4
<1>14. ASSUME NEW t \in Threads, NEW i \in Ids, CallClose(t, i) PROVE IInv'
  <2>1. TypeOK'
    BY <1>14 DEF CallClose, At, Goto, Return, call, links, TypeOK, States, Consumers,
       Acceptors, Points, Calls, Ops, CallsAreUnderWay
  <2>2. CallsAreUnderWay'
    BY <1>14 DEF CallClose, At, Goto, Return, call, links, TypeOK, CallsAreUnderWay
  <2>3. ClosingIsOpen'
    BY <1>14 DEF CallClose, At, Goto, Return, call, links, TypeOK, CallsAreUnderWay,
       NewIsPrivate, ClosingIsOpen
  <2>4. ShutdownIsAlone' /\ WritersHoldTheLock' /\ NewIsPrivate' /\ RegisteredWasOpen'
     /\ StoppedThreadIsGone'
    BY <1>14 DEF CallClose, At, Goto, Return, call, links, TypeOK, CallsAreUnderWay,
       ShutdownIsAlone, ShutsDown, WritersHoldTheLock, NewIsPrivate, ClosingIsOpen,
       RegisteredWasOpen, Connected, StoppedThreadIsGone
  <2>5. UnracedAgree'
    BY <1>14 DEF CallClose, At, Goto, Return, call, links, TypeOK, CallsAreUnderWay,
       UnracedAgree, Using, Creating
  <2> QED BY <2>1, <2>2, <2>3, <2>4, <2>5
<1>15. ASSUME NEW t \in Threads, StopConsumer(t) PROVE IInv'
  <2>1. TypeOK'
    BY <1>15 DEF StopConsumer, At, Goto, Return, call, links, TypeOK, States, Consumers,
       Acceptors, Points, Calls, Ops, CallsAreUnderWay
  <2>2. CallsAreUnderWay'
    BY <1>15 DEF StopConsumer, At, Goto, Return, call, links, TypeOK, CallsAreUnderWay
  <2>3. StoppedThreadIsGone'
    BY <1>15 DEF StopConsumer, At, Goto, Return, call, links, TypeOK, CallsAreUnderWay,
       RegisteredWasOpen, Connected, NewIsPrivate, ClosingIsOpen, StoppedThreadIsGone
  <2>4. ShutdownIsAlone' /\ WritersHoldTheLock' /\ NewIsPrivate' /\ RegisteredWasOpen'
     /\ ClosingIsOpen'
    BY <1>15 DEF StopConsumer, At, Goto, Return, call, links, TypeOK, CallsAreUnderWay,
       ShutdownIsAlone, ShutsDown, WritersHoldTheLock, NewIsPrivate, ClosingIsOpen,
       RegisteredWasOpen, Connected
  <2>5. UnracedAgree'
    BY <1>15 DEF StopConsumer, At, Goto, Return, call, links, TypeOK, CallsAreUnderWay,
       UnracedAgree, Using, Creating
  <2> QED BY <2>1, <2>2, <2>3, <2>4, <2>5
<1>16. ASSUME NEW t \in Threads, Join(t) PROVE IInv'
  <2>1. TypeOK'
    <3>1. /\ state' \in [Objects -> States] /\ running' \in BOOLEAN
          /\ UNCHANGED <<channels, publisher, consumer, acceptor, sweep>>
      BY <1>16 DEF Join, links, TypeOK, States
    <3>2. /\ pc' \in [Threads -> Points] /\ op' \in [Threads -> Ops \union {None}]
          /\ id' \in [Threads -> Ids \union {None}]
          /\ got' \in [Threads -> Objects \union {None}]
      BY <1>16 DEF Join, Goto, Return, call, TypeOK, Points
    <3>3. \A u \in Threads : pc'[u] \in {"idle", "get", "sweep", "ended"} <=> got'[u] = None
      BY <1>16 DEF Join, Goto, Return, TypeOK
    <3>4. raced' \subseteq Threads
      BY <1>16 DEF Join, Return, TypeOK
    <3> QED BY <3>1, <3>2, <3>3, <3>4 DEF TypeOK
  <2>2. CallsAreUnderWay'
    BY <1>16 DEF Join, At, Goto, Return, call, links, TypeOK, CallsAreUnderWay
  <2>3. ShutdownIsAlone'
    BY <1>16 DEF Join, At, Goto, Return, call, links, TypeOK, CallsAreUnderWay,
       ShutdownIsAlone, ShutsDown
  <2>4. RegisteredWasOpen'
    BY <1>16 DEF Join, At, Goto, Return, call, links, TypeOK, CallsAreUnderWay,
       NewIsPrivate, RegisteredWasOpen, Connected
  <2>5. NewIsPrivate'
    BY <1>16 DEF Join, At, Goto, Return, call, links, TypeOK, CallsAreUnderWay,
       NewIsPrivate, ClosingIsOpen
  <2>6. ClosingIsOpen'
    BY <1>16 DEF Join, At, Goto, Return, call, links, TypeOK, CallsAreUnderWay,
       NewIsPrivate, ClosingIsOpen
  <2>7. StoppedThreadIsGone'
    BY <1>16 DEF Join, At, Goto, Return, call, links, TypeOK, CallsAreUnderWay,
       RegisteredWasOpen, Connected, NewIsPrivate, ClosingIsOpen, StoppedThreadIsGone
  <2>8. WritersHoldTheLock'
    BY <1>16 DEF Join, At, Goto, Return, call, links, TypeOK, WritersHoldTheLock
  <2>9. UnracedAgree'
    BY <1>16 DEF Join, At, Goto, Return, call, links, TypeOK, CallsAreUnderWay,
       UnracedAgree, Using, Creating
  <2> QED BY <2>1, <2>2, <2>3, <2>4, <2>5, <2>6, <2>7, <2>8, <2>9
<1>17. ASSUME NEW t \in Threads, CallShutdown(t) PROVE IInv'
  <2>1. TypeOK'
    BY <1>17 DEF CallShutdown, At, Goto, Return, call, links, TypeOK, States, Consumers,
       Acceptors, Points, Calls, Ops, CallsAreUnderWay
  <2>2. CallsAreUnderWay'
    BY <1>17 DEF CallShutdown, At, Goto, Return, call, links, TypeOK, CallsAreUnderWay
  <2>3. ShutdownIsAlone'
    BY <1>17 DEF CallShutdown, At, Goto, Return, call, links, TypeOK, CallsAreUnderWay,
       ShutdownIsAlone, ShutsDown
  <2>4. WritersHoldTheLock' /\ NewIsPrivate' /\ RegisteredWasOpen' /\ ClosingIsOpen' /\
     StoppedThreadIsGone'
    BY <1>17 DEF CallShutdown, At, Goto, Return, call, links, TypeOK,
       WritersHoldTheLock, CallsAreUnderWay, NewIsPrivate, ClosingIsOpen,
       RegisteredWasOpen, Connected, StoppedThreadIsGone
  <2>5. UnracedAgree'
    BY <1>17 DEF CallShutdown, At, Goto, Return, call, links, TypeOK, CallsAreUnderWay,
       UnracedAgree, Using, Creating
  <2> QED BY <2>1, <2>2, <2>3, <2>4, <2>5
<1>18. ASSUME NEW t \in Threads, Sweep(t) PROVE IInv'
  <2>1. TypeOK'
    <3>1. PICK i \in sweep :
            /\ sweep' = sweep \ {i}
            /\ IF state[channels[i]] = "open"
               THEN /\ got' = [got EXCEPT ![t] = channels[i]]
                    /\ Goto(t, "stop") /\ UNCHANGED state
               ELSE /\ state' = [state EXCEPT ![channels[i]] = "deleted"]
                    /\ UNCHANGED <<got, pc>>
      BY <1>18 DEF Sweep
    <3>2. i \in Ids /\ channels[i] \in Objects
      BY <1>18 DEF Sweep, At, TypeOK, CallsAreUnderWay, ShutdownIsAlone, ShutsDown
    <3>3. CASE state[channels[i]] = "open"
      BY <1>18, <3>1, <3>2, <3>3 DEF Sweep, At, Goto, call, links, TypeOK, Points
    <3>4. CASE state[channels[i]] # "open"
      BY <1>18, <3>1, <3>2, <3>4 DEF Sweep, At, call, links, TypeOK, States
    <3> QED BY <3>3, <3>4
  <2>2. CallsAreUnderWay'
    BY <1>18 DEF Sweep, At, Goto, Return, call, links, TypeOK, CallsAreUnderWay
  <2>3. ShutdownIsAlone'
    BY <1>18 DEF Sweep, At, Goto, Return, call, links, TypeOK, CallsAreUnderWay,
       ShutdownIsAlone, ShutsDown
  <2>4. RegisteredWasOpen'
    BY <1>18 DEF Sweep, At, Goto, Return, call, links, TypeOK, CallsAreUnderWay,
       NewIsPrivate, RegisteredWasOpen, Connected
  <2>5. NewIsPrivate'
    BY <1>18 DEF Sweep, At, Goto, call, TypeOK, CallsAreUnderWay, ShutdownIsAlone,
       ShutsDown, NewIsPrivate
  <2>6. ClosingIsOpen'
    BY <1>18 DEF Sweep, At, Goto, Return, call, links, TypeOK, CallsAreUnderWay,
       NewIsPrivate, ClosingIsOpen
  <2>7. StoppedThreadIsGone'
    BY <1>18 DEF Sweep, At, Goto, Return, call, links, TypeOK, CallsAreUnderWay,
       RegisteredWasOpen, Connected, NewIsPrivate, ClosingIsOpen, StoppedThreadIsGone
  <2>8. WritersHoldTheLock'
    BY <1>18 DEF Sweep, At, Goto, Return, call, links, TypeOK, WritersHoldTheLock
  <2>9. UnracedAgree'
    BY <1>18 DEF Sweep, At, Goto, Return, call, links, TypeOK, CallsAreUnderWay,
       UnracedAgree, Using, Creating
  <2> QED BY <2>1, <2>2, <2>3, <2>4, <2>5, <2>6, <2>7, <2>8, <2>9
<1>19. ASSUME NEW t \in Threads, ShutdownEnds(t) PROVE IInv'
  <2>1. TypeOK'
    BY <1>19 DEF ShutdownEnds, At, Goto, Return, call, links, TypeOK, States, Consumers,
       Acceptors, Points, Calls, Ops, CallsAreUnderWay
  <2>2. CallsAreUnderWay'
    BY <1>19 DEF ShutdownEnds, At, Goto, Return, call, links, TypeOK, CallsAreUnderWay
  <2>3. ShutdownIsAlone'
    BY <1>19 DEF ShutdownEnds, At, Goto, Return, call, links, TypeOK, CallsAreUnderWay,
       ShutdownIsAlone, ShutsDown
  <2>4. RegisteredWasOpen'
    BY <1>19 DEF ShutdownEnds, At, Goto, Return, call, links, TypeOK, CallsAreUnderWay,
       NewIsPrivate, RegisteredWasOpen, Connected
  <2>5. WritersHoldTheLock' /\ NewIsPrivate' /\ ClosingIsOpen' /\ StoppedThreadIsGone'
    BY <1>19 DEF ShutdownEnds, At, Goto, Return, call, links, TypeOK,
       WritersHoldTheLock, CallsAreUnderWay, NewIsPrivate, ClosingIsOpen,
       RegisteredWasOpen, Connected, StoppedThreadIsGone
  <2>6. UnracedAgree'
    <3>1. \A u \in Threads : pc'[u] \in {"idle", "ended"}
      BY <1>19 DEF ShutdownEnds, At, Goto, TypeOK, CallsAreUnderWay, ShutdownIsAlone, ShutsDown
    <3> QED BY <3>1 DEF UnracedAgree, Using, Creating
  <2> QED BY <2>1, <2>2, <2>3, <2>4, <2>5, <2>6
<1>20. CASE UNCHANGED vars
  BY <1>20 DEF vars, call, links, TypeOK, CallsAreUnderWay, ShutdownIsAlone, ShutsDown,
     WritersHoldTheLock, NewIsPrivate, RegisteredWasOpen, ClosingIsOpen,
     StoppedThreadIsGone, UnracedAgree, Using, Creating
<1> QED
  BY <1>1, <1>2, <1>3, <1>4, <1>5, <1>6, <1>7, <1>8, <1>9, <1>10, <1>11, <1>12, <1>13,
     <1>14, <1>15, <1>16, <1>17, <1>18, <1>19, <1>20 DEF Next

LEMMA InitIInv == Init => IInv
BY StationAssumption
   DEF Init, IInv, TypeOK, CallsAreUnderWay, ShutdownIsAlone, ShutsDown, WritersHoldTheLock,
       NewIsPrivate, RegisteredWasOpen, Connected, ClosingIsOpen, StoppedThreadIsGone,
       UnracedAgree, Using, Creating, States, Consumers, Acceptors, Points, Ops

\* The invariant holds throughout.
THEOREM Invariance == Spec => []IInv
<1>1. IInv /\ [Next]_vars => IInv'
  BY IInvStep
<1> QED
  BY <1>1, InitIInv, PTL DEF Spec

\* Whoever publishes does so alone, over a channel that exists, although nothing
\* synchronises close, shutdown and the lookups in the table.  (station.cpp:77-125)
THEOREM PublishingIsSafe == Spec => []PublishIsSafe
<1>1. IInv => TypeOK /\ PublishSerialised
  BY StationAssumption DEF IInv, TypeOK, WritersHoldTheLock, PublishSerialised
<1>2. IInv => LookupIsSafe
  <2> SUFFICES ASSUME IInv, NEW t \in Threads \ {Closer}, got[t] # None
               PROVE  state[got[t]] # "deleted"
    BY DEF LookupIsSafe
  <2>1. got[t] \in Objects /\ pc[t] # "idle"
    BY DEF IInv, TypeOK
  <2> QED
    BY <2>1 DEF IInv, ShutdownIsAlone
<1> QED
  BY <1>1, <1>2, Invariance, PTL DEF PublishIsSafe

\* No thread runs on a consumer that was freed, once the close has gone through.
\* (channel.cpp:100-132)
THEOREM FreedConsumersAreStill == Spec => []StoppedThreadIsGone
<1>1. IInv => StoppedThreadIsGone
  BY DEF IInv
<1> QED
  BY <1>1, Invariance, PTL

\* Senders, consumers and closers of an identifier meet on the registered channel,
\* unless they created theirs while another thread was creating one, however many
\* threads and channels there are.  (station.cpp:76-93, 104-114)
THEOREM CallersMeet == Spec => []AnswersAgree
<1>1. IInv => AnswersAgree
  BY DEF IInv, UnracedAgree, AnswersAgree, Using
<1> QED
  BY <1>1, Invariance, PTL
=================================================================================
