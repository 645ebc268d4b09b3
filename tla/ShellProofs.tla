-------------------------------- MODULE ShellProofs --------------------------------
(***************************************************************************)
(* The shell, for any plugins and any number of commands: whatever races   *)
(* the handlers were dispatched in, the answers that are shown are in the  *)
(* order of the commands; and whenever it ends, the plugins are shut down  *)
(* and uninstalled in the reverse of the order in which they came.         *)
(*                                                                         *)
(* From the user and back a message goes through four queues, none of      *)
(* which lets one pass another.  What was called of the plugins is at all  *)
(* times the history of the libraries that are loaded.                     *)
(***************************************************************************)
EXTENDS Shell, TLAPS, SequenceTheorems, FiniteSetTheorems

Rising(s) == \A i, j \in 1..Len(s) : i < j => s[i] < s[j]

Below(s, t) == \A x \in ToSet(s), y \in ToSet(t) : x < y

\* What was shown, h, was asked before what is on its way: the events e, the answers a,
\* the requests r and the posted do_sends q, each of them and all of them in order.
LineOf(h, e, a, r, q) ==
  /\ h \in Seq(Messages) /\ Rising(h)
  /\ e \in Seq(Messages) /\ Rising(e)
  /\ a \in Seq(Messages) /\ Rising(a)
  /\ r \in Seq(Messages) /\ Rising(r)
  /\ q \in Seq(Messages) /\ Rising(q)
  /\ Below(h, e) /\ Below(h, a) /\ Below(h, r) /\ Below(h, q)
  /\ Below(e, a) /\ Below(e, r) /\ Below(e, q)
  /\ Below(a, r) /\ Below(a, q)
  /\ Below(r, q)

\* What is on its way to the dispatcher.
Coming(e, a, r, q) == ToSet(e) \union ToSet(a) \union ToSet(r) \union ToSet(q)

Line == LineOf(shown, events, answers, requests, queue)

\* Nothing is on its way that was not asked.
Asked == \A x \in ToSet(shown) \union Coming(events, answers, requests, queue) : x <= asked

Dispatches == io \in {"first", "second"}

\* The event that is dispatched comes before what is on its way, and as long as it may
\* still be shown it comes after what was shown.
Current ==
  /\ Dispatches => /\ evt <= asked
                   /\ \A x \in Coming(events, answers, requests, queue) : evt < x
  /\ io = "first" \/ (io = "second" /\ "respond" \in ToSet(todo)) =>
       \A x \in ToSet(shown) : x < evt

Once(s) == \A i, j \in 1..Len(s) : s[i] = "respond" /\ s[j] = "respond" => i = j

\* The delegate binds itself once.
BoundOnce ==
  /\ Once(handlers["Unassigned"])
  /\ io = "second" => Once(todo)
  /\ feeder \in {"none", "run", "help", "bind"} =>
       "respond" \notin ToSet(handlers["Unassigned"])

\* The request for help is the first message.
NothingYet ==
  feeder \in {"none", "run", "help"} =>
    /\ asked = 0 /\ ~ Dispatches
    /\ shown = <<>> /\ events = <<>> /\ answers = <<>> /\ requests = <<>> /\ queue = <<>>

LineInv == Line /\ Asked /\ Current /\ BoundOnce /\ NothingYet

-----------------------------------------------------------------------------
(***************************************************************************)
(* Queues                                                                  *)
(***************************************************************************)
LEMMA MessagesAreNumbers == Messages = 0..MaxFeeds
BY ShellAssumption DEF Messages, Help

\* What is taken from a queue comes before what stays.
LEMMA Taken ==
  ASSUME NEW s \in Seq(Messages), Rising(s), s # <<>>
  PROVE  /\ Tail(s) \in Seq(Messages) /\ Rising(Tail(s))
         /\ Head(s) \in Messages /\ Head(s) \in ToSet(s)
         /\ ToSet(Tail(s)) \subseteq ToSet(s)
         /\ \A x \in ToSet(Tail(s)) : Head(s) < x
<1> DEFINE t == Tail(s)
<1>1. /\ Head(s) \in Messages /\ t \in Seq(Messages) /\ Len(t) = Len(s) - 1
      /\ \A i \in 1..Len(t) : t[i] = s[i + 1]
  BY HeadTailProperties
<1>2. Len(s) \in Nat \ {0} /\ DOMAIN s = 1..Len(s) /\ DOMAIN t = 1..Len(t)
  BY <1>1, EmptySeq, LenProperties
<1>3. 1 \in 1..Len(s) /\ Head(s) = s[1]
  BY <1>2
<1> HIDE DEF t
<1>4. \A i \in 1..Len(t) : i + 1 \in 1..Len(s)
  BY <1>1, <1>2
<1>5. ToSet(t) \subseteq ToSet(s) /\ Head(s) \in ToSet(s)
  BY <1>1, <1>2, <1>3, <1>4 DEF ToSet
<1>6. Rising(t)
  <2> SUFFICES ASSUME NEW i \in 1..Len(t), NEW j \in 1..Len(t), i < j PROVE t[i] < t[j]
    BY DEF Rising
  <2>1. i + 1 < j + 1
    OBVIOUS
  <2> QED BY <1>1, <1>4, <2>1 DEF Rising
<1>7. \A x \in ToSet(t) : Head(s) < x
  <2> SUFFICES ASSUME NEW i \in 1..Len(t) PROVE s[1] < t[i]
    BY <1>2, <1>3 DEF ToSet
  <2>1. 1 < i + 1
    OBVIOUS
  <2> QED BY <1>1, <1>3, <1>4, <2>1 DEF Rising
<1> QED BY <1>1, <1>5, <1>6, <1>7 DEF t

\* A message that comes after all those of a queue is put behind them.
LEMMA Put ==
  ASSUME NEW s \in Seq(Messages), Rising(s), NEW v \in Messages, \A x \in ToSet(s) : x < v
  PROVE  /\ Append(s, v) \in Seq(Messages) /\ Rising(Append(s, v))
         /\ ToSet(Append(s, v)) = ToSet(s) \union {v}
<1> DEFINE t == Append(s, v)
<1>1. /\ t \in Seq(Messages) /\ Len(t) = Len(s) + 1
      /\ \A i \in 1..Len(s) : t[i] = s[i]
      /\ t[Len(s) + 1] = v
  BY AppendProperties
<1>2. Len(s) \in Nat /\ DOMAIN s = 1..Len(s) /\ DOMAIN t = 1..Len(t)
  BY <1>1, LenProperties
<1> HIDE DEF t
<1>3. \A i \in 1..Len(t) : i \in 1..Len(s) \/ i = Len(s) + 1
  BY <1>1, <1>2
<1>4. ToSet(t) = ToSet(s) \union {v}
  <2>1. Len(s) + 1 \in 1..Len(t) /\ \A i \in 1..Len(s) : i \in 1..Len(t)
    BY <1>1, <1>2
  <2> QED BY <1>1, <1>2, <1>3, <2>1 DEF ToSet
<1>5. Rising(t)
  <2> SUFFICES ASSUME NEW i \in 1..Len(t), NEW j \in 1..Len(t), i < j PROVE t[i] < t[j]
    BY DEF Rising
  <2>1. i \in 1..Len(s)
    BY <1>1, <1>2
  <2>2. CASE j \in 1..Len(s)
    BY <1>1, <2>1, <2>2 DEF Rising
  <2>3. CASE j = Len(s) + 1
    BY <1>1, <1>2, <2>1, <2>3 DEF ToSet
  <2> QED BY <1>3, <2>2, <2>3
<1> QED BY <1>1, <1>4, <1>5 DEF t

LEMMA EmptySet == ToSet(<<>>) = {}
BY DEF ToSet

\* A command that is fed comes after all messages.
LEMMA LineFeed ==
  ASSUME NEW h, NEW e, NEW a, NEW r, NEW q, LineOf(h, e, a, r, q), NEW v \in Messages,
         \A x \in ToSet(h) \union Coming(e, a, r, q) : x < v
  PROVE  /\ LineOf(h, e, a, r, Append(q, v))
         /\ Coming(e, a, r, Append(q, v)) = Coming(e, a, r, q) \union {v}
<1>1. /\ Append(q, v) \in Seq(Messages) /\ Rising(Append(q, v))
      /\ ToSet(Append(q, v)) = ToSet(q) \union {v}
  BY Put DEF LineOf, Coming
<1> QED BY <1>1 DEF LineOf, Coming, Below

\* The next do_send drops its message, or passes it on.
LEMMA LineSend ==
  ASSUME NEW h, NEW e, NEW a, NEW r, NEW q, LineOf(h, e, a, r, q), q # <<>>,
         NEW s \in {r, Append(r, Head(q))}
  PROVE  /\ LineOf(h, e, a, s, Tail(q))
         /\ Coming(e, a, s, Tail(q)) \subseteq Coming(e, a, r, q)
<1>1. /\ Tail(q) \in Seq(Messages) /\ Rising(Tail(q))
      /\ Head(q) \in Messages /\ Head(q) \in ToSet(q)
      /\ ToSet(Tail(q)) \subseteq ToSet(q)
      /\ \A x \in ToSet(Tail(q)) : Head(q) < x
  BY Taken DEF LineOf
<1>2. CASE s = r
  BY <1>1, <1>2 DEF LineOf, Coming, Below
<1>3. CASE s = Append(r, Head(q))
  <2>1. s \in Seq(Messages) /\ Rising(s) /\ ToSet(s) = ToSet(r) \union {Head(q)}
    BY <1>1, <1>3, Put DEF LineOf, Below
  <2> QED BY <1>1, <2>1 DEF LineOf, Coming, Below
<1> QED BY <1>2, <1>3

\* The server drops a request, or answers it.
LEMMA LineServe ==
  ASSUME NEW h, NEW e, NEW a, NEW r, NEW q, LineOf(h, e, a, r, q), r # <<>>,
         NEW s \in {a, Append(a, Head(r))}
  PROVE  /\ LineOf(h, e, s, Tail(r), q)
         /\ Coming(e, s, Tail(r), q) \subseteq Coming(e, a, r, q)
<1>1. /\ Tail(r) \in Seq(Messages) /\ Rising(Tail(r))
      /\ Head(r) \in Messages /\ Head(r) \in ToSet(r)
      /\ ToSet(Tail(r)) \subseteq ToSet(r)
      /\ \A x \in ToSet(Tail(r)) : Head(r) < x
  BY Taken DEF LineOf
<1>2. CASE s = a
  BY <1>1, <1>2 DEF LineOf, Coming, Below
<1>3. CASE s = Append(a, Head(r))
  <2>1. s \in Seq(Messages) /\ Rising(s) /\ ToSet(s) = ToSet(a) \union {Head(r)}
    BY <1>1, <1>3, Put DEF LineOf, Below
  <2> QED BY <1>1, <2>1 DEF LineOf, Coming, Below
<1> QED BY <1>2, <1>3

\* An answer becomes an event.
LEMMA LineRead ==
  ASSUME NEW h, NEW e, NEW a, NEW r, NEW q, LineOf(h, e, a, r, q), a # <<>>
  PROVE  /\ LineOf(h, Append(e, Head(a)), Tail(a), r, q)
         /\ Coming(Append(e, Head(a)), Tail(a), r, q) \subseteq Coming(e, a, r, q)
<1> DEFINE s == Append(e, Head(a))
<1>1. /\ Tail(a) \in Seq(Messages) /\ Rising(Tail(a))
      /\ Head(a) \in Messages /\ Head(a) \in ToSet(a)
      /\ ToSet(Tail(a)) \subseteq ToSet(a)
      /\ \A x \in ToSet(Tail(a)) : Head(a) < x
  BY Taken DEF LineOf
<1>2. s \in Seq(Messages) /\ Rising(s) /\ ToSet(s) = ToSet(e) \union {Head(a)}
  BY <1>1, Put DEF LineOf, Below
<1> QED BY <1>1, <1>2 DEF LineOf, Coming, Below

\* An event is taken.
LEMMA LineDispatch ==
  ASSUME NEW h, NEW e, NEW a, NEW r, NEW q, LineOf(h, e, a, r, q), e # <<>>
  PROVE  /\ LineOf(h, Tail(e), a, r, q)
         /\ Coming(Tail(e), a, r, q) \subseteq Coming(e, a, r, q)
         /\ Head(e) \in Messages /\ Head(e) \in Coming(e, a, r, q)
         /\ \A x \in Coming(Tail(e), a, r, q) : Head(e) < x
         /\ \A x \in ToSet(h) : x < Head(e)
<1>1. /\ Tail(e) \in Seq(Messages) /\ Rising(Tail(e))
      /\ Head(e) \in Messages /\ Head(e) \in ToSet(e)
      /\ ToSet(Tail(e)) \subseteq ToSet(e)
      /\ \A x \in ToSet(Tail(e)) : Head(e) < x
  BY Taken DEF LineOf
<1> QED BY <1>1 DEF LineOf, Coming, Below

\* What comes after all that was shown, and before all that is on its way, is shown.
LEMMA LineShow ==
  ASSUME NEW h, NEW e, NEW a, NEW r, NEW q, LineOf(h, e, a, r, q), NEW v \in Messages,
         \A x \in Coming(e, a, r, q) : v < x,
         \A x \in ToSet(h) : x < v
  PROVE  /\ LineOf(Append(h, v), e, a, r, q)
         /\ ToSet(Append(h, v)) = ToSet(h) \union {v}
<1>1. /\ Append(h, v) \in Seq(Messages) /\ Rising(Append(h, v))
      /\ ToSet(Append(h, v)) = ToSet(h) \union {v}
  BY Put DEF LineOf
<1> QED BY <1>1 DEF LineOf, Coming, Below

-----------------------------------------------------------------------------
(***************************************************************************)
(* Handlers                                                                *)
(***************************************************************************)
Callbacks == {"eval", "respond", "refresh"}

LEMMA OneMore ==
  ASSUME NEW s \in Seq(Callbacks), NEW t \in Seq(Callbacks),
         Once(s), Once(t), "respond" \in ToSet(s) => "respond" \notin ToSet(t)
  PROVE  /\ s \o t \in Seq(Callbacks) /\ Once(s \o t)
         /\ "respond" \in ToSet(s \o t) => "respond" \in ToSet(s) \union ToSet(t)
<1> DEFINE u == s \o t
<1>1. /\ u \in Seq(Callbacks) /\ Len(u) = Len(s) + Len(t)
      /\ \A i \in 1..Len(s) + Len(t) : u[i] = IF i <= Len(s) THEN s[i] ELSE t[i - Len(s)]
  BY ConcatProperties
<1>2. /\ Len(s) \in Nat /\ Len(t) \in Nat
      /\ DOMAIN s = 1..Len(s) /\ DOMAIN t = 1..Len(t) /\ DOMAIN u = 1..Len(u)
  BY <1>1, LenProperties
<1> HIDE DEF u
<1>3. \A i \in 1..Len(u) : \/ i \in 1..Len(s) /\ u[i] = s[i]
                           \/ i - Len(s) \in 1..Len(t) /\ u[i] = t[i - Len(s)]
  BY <1>1, <1>2
<1>4. "respond" \in ToSet(u) => "respond" \in ToSet(s) \union ToSet(t)
  BY <1>2, <1>3 DEF ToSet
<1>5. Once(u)
  <2> SUFFICES ASSUME NEW i \in 1..Len(u), NEW j \in 1..Len(u),
                      u[i] = "respond", u[j] = "respond"
               PROVE  i = j
    BY DEF Once
  <2>1. \A k \in 1..Len(u) : u[k] = "respond" =>
          \/ k \in 1..Len(s) /\ s[k] = "respond" /\ "respond" \in ToSet(s)
          \/ /\ k - Len(s) \in 1..Len(t) /\ t[k - Len(s)] = "respond"
             /\ "respond" \in ToSet(t)
    BY <1>2, <1>3 DEF ToSet
  <2>2. CASE "respond" \in ToSet(s)
    BY <2>1, <2>2 DEF Once
  <2>3. CASE "respond" \notin ToSet(s)
    <3>1. /\ i - Len(s) \in 1..Len(t) /\ t[i - Len(s)] = "respond"
          /\ j - Len(s) \in 1..Len(t) /\ t[j - Len(s)] = "respond"
      BY <2>1, <2>3
    <3>2. i - Len(s) = j - Len(s)
      BY <3>1 DEF Once
    <3> QED BY <3>2, <1>2
  <2> QED BY <2>2, <2>3
<1> QED BY <1>1, <1>4, <1>5 DEF u

LEMMA Bound ==
  /\ <<"respond">> \in Seq(Callbacks) /\ Once(<<"respond">>)
  /\ <<"eval", "respond">> \in Seq(Callbacks) /\ Once(<<"eval", "respond">>)
  /\ <<"refresh">> \in Seq(Callbacks) /\ Once(<<"refresh">>)
  /\ "respond" \notin ToSet(<<"refresh">>)
BY DEF Callbacks, Once, ToSet

\* After the delegate has responded it is not called for the same event again.
LEMMA RestOf ==
  ASSUME NEW s \in Seq(Callbacks), Once(s), s # <<>>
  PROVE  /\ Tail(s) \in Seq(Callbacks) /\ Once(Tail(s))
         /\ Head(s) \in Callbacks /\ Head(s) \in ToSet(s)
         /\ "respond" \in ToSet(Tail(s)) => "respond" \in ToSet(s) /\ Head(s) # "respond"
<1> DEFINE t == Tail(s)
<1>1. /\ Head(s) \in Callbacks /\ t \in Seq(Callbacks) /\ Len(t) = Len(s) - 1
      /\ \A i \in 1..Len(t) : t[i] = s[i + 1]
  BY HeadTailProperties
<1>2. Len(s) \in Nat \ {0} /\ DOMAIN s = 1..Len(s) /\ DOMAIN t = 1..Len(t)
  BY <1>1, EmptySeq, LenProperties
<1>3. 1 \in 1..Len(s) /\ Head(s) = s[1]
  BY <1>2
<1> HIDE DEF t
<1>4. \A i \in 1..Len(t) : i + 1 \in 1..Len(s) /\ i + 1 # 1
  BY <1>1, <1>2
<1>5. Once(t)
  <2> SUFFICES ASSUME NEW i \in 1..Len(t), NEW j \in 1..Len(t),
                      t[i] = "respond", t[j] = "respond"
               PROVE  i = j
    BY DEF Once
  <2>1. i + 1 = j + 1
    BY <1>1, <1>4 DEF Once
  <2> QED BY <2>1
<1>6. "respond" \in ToSet(t) => "respond" \in ToSet(s) /\ Head(s) # "respond"
  BY <1>1, <1>2, <1>3, <1>4 DEF Once, ToSet
<1>7. Head(s) \in ToSet(s)
  BY <1>2, <1>3 DEF ToSet
<1> QED BY <1>1, <1>5, <1>6, <1>7 DEF t

-----------------------------------------------------------------------------
(***************************************************************************)
(* The steps, and the messages                                             *)
(***************************************************************************)
LineTypeOK ==
  /\ asked \in 0..MaxFeeds
  /\ feeder \in {"none", "run", "help", "bind", "bound", "prompt", "ended"}
  /\ io \in {"none", "idle", "first", "second", "ended"}
  /\ todo \in Seq({"help", "eval", "respond", "refresh"})
  /\ io = "second" => todo \in Seq(Callbacks)
  /\ evt \in Messages
  /\ DOMAIN handlers = Uids
  /\ handlers["help"] \in Seq({"help"})
  /\ handlers["Unassigned"] \in Seq(Callbacks)

lineVars == <<shown, events, answers, requests, queue, asked, io, evt, todo, handlers, feeder>>

LEMMA LineStays ==
  ASSUME LineTypeOK, LineInv, UNCHANGED lineVars
  PROVE  LineTypeOK' /\ LineInv'
BY DEF lineVars, LineTypeOK, LineInv, Line, Asked, Current, Dispatches, BoundOnce, NothingYet

LEMMA SpawnLine ==
  ASSUME LineTypeOK, LineInv, main = "load" => feeder = "none" /\ io = "none", Spawn
  PROVE  LineTypeOK' /\ LineInv'
<1>1. /\ UNCHANGED <<shown, events, answers, requests, queue, asked, evt, todo, handlers>>
      /\ io' = "idle" /\ feeder' = "run" /\ feeder = "none"
  BY DEF Spawn, serverVars
<1> QED BY <1>1 DEF LineTypeOK, LineInv, Line, Asked, Current, Dispatches, BoundOnce, NothingYet

LEMMA RunLine ==
  ASSUME LineTypeOK, LineInv, Run \/ Quit
  PROVE  LineTypeOK' /\ LineInv'
<1>1. /\ UNCHANGED <<shown, events, answers, requests, queue, asked, io, evt, todo, handlers>>
      /\ \/ feeder = "run" /\ feeder' \in {"help", "bind"}
         \/ feeder = "prompt" /\ feeder' = "ended"
  BY DEF Run, Quit, serverVars, ioVars
<1> QED BY <1>1 DEF LineTypeOK, LineInv, Line, Asked, Current, Dispatches, BoundOnce, NothingYet

\* A command is numbered after those before it.
LEMMA FeedLine ==
  ASSUME LineTypeOK, LineInv, asked < MaxFeeds, asked' = asked + 1,
         queue' = Append(queue, asked + 1),
         UNCHANGED <<shown, events, answers, requests, io, evt, todo>>
  PROVE  asked' \in 0..MaxFeeds /\ Line' /\ Asked' /\ Current'
<1> DEFINE v == asked + 1
<1>1. v \in 0..MaxFeeds /\ asked < v /\ asked \in Int
  BY ShellAssumption DEF LineTypeOK
<1>2. v \in Messages
  BY <1>1, MessagesAreNumbers
<1>3. ToSet(shown) \union Coming(events, answers, requests, queue) \subseteq Messages
  <2>1. \A s \in Seq(Messages) : ToSet(s) \subseteq Messages
    BY LenProperties, ElementOfSeq DEF ToSet
  <2> QED BY <2>1 DEF LineInv, Line, LineOf, Coming
<1>4. \A x \in ToSet(shown) \union Coming(events, answers, requests, queue) : x < v
  BY <1>1, <1>3, MessagesAreNumbers DEF LineInv, Asked
<1> HIDE DEF v
<1>5. /\ LineOf(shown, events, answers, requests, Append(queue, v))
      /\ Coming(events, answers, requests, Append(queue, v)) =
           Coming(events, answers, requests, queue) \union {v}
  BY <1>2, <1>4, LineFeed DEF LineInv, Line
<1>6. queue' = Append(queue, v) /\ asked' = v
  BY DEF v
<1>7. Line'
  BY <1>5, <1>6 DEF Line
<1>8. Asked'
  <2>1. \A x \in ToSet(shown) \union Coming(events, answers, requests, queue) : x <= v
    BY <1>1, <1>3, <1>4, MessagesAreNumbers
  <2> QED BY <1>1, <1>5, <1>6, <2>1 DEF Asked
<1>9. Current'
  <2>1. Dispatches => evt <= v /\ evt < v
    BY <1>1, MessagesAreNumbers DEF LineInv, Current, LineTypeOK
  <2> QED BY <1>5, <1>6, <2>1 DEF LineInv, Current, Dispatches
<1> QED BY <1>1, <1>6, <1>7, <1>8, <1>9

LEMMA PlainFeedLine ==
  ASSUME LineTypeOK, LineInv, Feed
  PROVE  LineTypeOK' /\ LineInv'
<1>1. /\ asked < MaxFeeds /\ asked' = asked + 1 /\ queue' = Append(queue, asked + 1)
      /\ UNCHANGED <<shown, events, answers, requests, io, evt, todo, handlers, feeder>>
      /\ feeder = "prompt"
  BY DEF Feed, serverVars, ioVars
<1>2. asked' \in 0..MaxFeeds /\ Line' /\ Asked' /\ Current'
  BY <1>1, FeedLine
<1> QED BY <1>1, <1>2 DEF LineTypeOK, LineInv, BoundOnce, NothingYet

LEMMA Binds ==
  ASSUME LineTypeOK, BoundOnce, NEW hs \in Seq(Callbacks), Once(hs),
         "respond" \in ToSet(handlers["Unassigned"]) => "respond" \notin ToSet(hs),
         handlers' = [handlers EXCEPT !["Unassigned"] = @ \o hs]
  PROVE  /\ DOMAIN handlers' = Uids /\ handlers'["help"] = handlers["help"]
         /\ handlers'["Unassigned"] \in Seq(Callbacks) /\ Once(handlers'["Unassigned"])
<1> DEFINE s == handlers["Unassigned"]
<1>1. /\ DOMAIN handlers' = Uids /\ handlers'["help"] = handlers["help"]
      /\ handlers'["Unassigned"] = s \o hs
  BY DEF LineTypeOK, Uids
<1>2. s \in Seq(Callbacks) /\ Once(s) /\ ("respond" \in ToSet(s) => "respond" \notin ToSet(hs))
  BY DEF LineTypeOK, BoundOnce
<1> HIDE DEF s
<1>3. s \o hs \in Seq(Callbacks) /\ Once(s \o hs)
  BY <1>2, OneMore
<1> QED BY <1>1, <1>3

LEMMA EvalCommandLine ==
  ASSUME LineTypeOK, LineInv, EvalCommand
  PROVE  LineTypeOK' /\ LineInv'
<1>1. /\ asked < MaxFeeds /\ asked' = asked + 1 /\ queue' = Append(queue, asked + 1)
      /\ UNCHANGED <<shown, events, answers, requests, io, evt, todo>>
      /\ handlers' = [handlers EXCEPT !["Unassigned"] = @ \o <<"eval", "respond">>]
      /\ feeder = "bind" /\ feeder' = "ended"
  BY DEF EvalCommand, Bind, serverVars, ioVars
<1>2. asked' \in 0..MaxFeeds /\ Line' /\ Asked' /\ Current'
  BY <1>1, FeedLine
<1>3. /\ DOMAIN handlers' = Uids /\ handlers'["help"] = handlers["help"]
      /\ handlers'["Unassigned"] \in Seq(Callbacks) /\ Once(handlers'["Unassigned"])
  <2>1. "respond" \notin ToSet(handlers["Unassigned"])
    BY <1>1 DEF LineInv, BoundOnce
  <2> QED BY <1>1, <2>1, Bound, Binds DEF LineInv
<1> QED BY <1>1, <1>2, <1>3 DEF LineTypeOK, LineInv, BoundOnce, NothingYet

LEMMA BindDelegateLine ==
  ASSUME LineTypeOK, LineInv, BindDelegate \/ BindRefresh
  PROVE  LineTypeOK' /\ LineInv'
<1>1. /\ UNCHANGED <<shown, events, answers, requests, queue, asked, io, evt, todo>>
      /\ \/ /\ handlers' = [handlers EXCEPT !["Unassigned"] = @ \o <<"respond">>]
            /\ feeder = "bind" /\ feeder' = "bound"
         \/ /\ handlers' = [handlers EXCEPT !["Unassigned"] = @ \o <<"refresh">>]
            /\ feeder = "bound" /\ feeder' = "prompt"
  BY DEF BindDelegate, BindRefresh, Bind, serverVars, ioVars
<1>2. /\ DOMAIN handlers' = Uids /\ handlers'["help"] = handlers["help"]
      /\ handlers'["Unassigned"] \in Seq(Callbacks) /\ Once(handlers'["Unassigned"])
  <2>1. CASE feeder = "bind"
    <3>1. handlers' = [handlers EXCEPT !["Unassigned"] = @ \o <<"respond">>]
      BY <1>1, <2>1
    <3>2. "respond" \notin ToSet(handlers["Unassigned"])
      BY <2>1 DEF LineInv, BoundOnce
    <3> QED BY <3>1, <3>2, Bound, Binds DEF LineInv
  <2>2. CASE feeder = "bound"
    <3>1. handlers' = [handlers EXCEPT !["Unassigned"] = @ \o <<"refresh">>]
      BY <1>1, <2>2
    <3> QED BY <3>1, Bound, Binds DEF LineInv
  <2> QED BY <1>1, <2>1, <2>2
<1> QED BY <1>1, <1>2 DEF LineTypeOK, LineInv, Line, Asked, Current, Dispatches, BoundOnce, NothingYet

\* The request for help is put into empty queues.
LEMMA AskHelpLine ==
  ASSUME LineTypeOK, LineInv, AskHelp
  PROVE  LineTypeOK' /\ LineInv'
<1>1. /\ handlers' = [handlers EXCEPT !["help"] = @ \o <<"help">>]
      /\ queue' = Append(queue, Help) /\ feeder = "help" /\ feeder' = "bind"
      /\ UNCHANGED <<shown, events, answers, requests, asked, io, evt, todo>>
  BY DEF AskHelp, Bind, serverVars, ioVars
<1>2. /\ asked = 0 /\ ~ Dispatches
      /\ shown = <<>> /\ events = <<>> /\ answers = <<>> /\ requests = <<>> /\ queue = <<>>
  BY <1>1 DEF LineInv, NothingYet
<1>3. Help \in Messages /\ Help = 0
  BY DEF Messages, Help
<1>4. ToSet(shown) = {} /\ Coming(events, answers, requests, queue) = {}
  BY <1>2, EmptySet DEF Coming
<1>5. /\ LineOf(shown, events, answers, requests, Append(queue, Help))
      /\ Coming(events, answers, requests, Append(queue, Help)) = {Help}
  <2>1. \A x \in ToSet(shown) \union Coming(events, answers, requests, queue) : x < Help
    BY <1>4
  <2>2. LineOf(shown, events, answers, requests, queue)
    BY DEF LineInv, Line
  <2> QED BY <1>3, <1>4, <2>1, <2>2, LineFeed
<1>6. Line' /\ Asked'
  BY <1>1, <1>2, <1>3, <1>4, <1>5 DEF Line, Asked
<1>7. Current'
  BY <1>1, <1>2 DEF Current, Dispatches
<1>8. /\ DOMAIN handlers' = Uids /\ handlers'["Unassigned"] = handlers["Unassigned"]
      /\ handlers'["help"] \in Seq({"help"})
  <2>1. handlers["help"] \o <<"help">> \in Seq({"help"})
    BY ConcatProperties DEF LineTypeOK
  <2> QED BY <1>1, <2>1 DEF LineTypeOK, Uids
<1> QED BY <1>1, <1>6, <1>7, <1>8 DEF LineTypeOK, LineInv, BoundOnce, NothingYet

\* A step of a message between queues keeps them in order.
LEMMA MoveLine ==
  ASSUME LineTypeOK, LineInv, Line',
         Coming(events, answers, requests, queue)' \subseteq Coming(events, answers, requests, queue),
         \/ queue # <<>> \/ requests # <<>> \/ answers # <<>>,
         UNCHANGED <<shown, asked, io, evt, todo, handlers, feeder>>
  PROVE  LineTypeOK' /\ LineInv'
<1>1. feeder \notin {"none", "run", "help"}
  BY DEF LineInv, NothingYet
<1>2. Asked' /\ Current'
  BY DEF LineInv, Asked, Current, Dispatches
<1> QED BY <1>1, <1>2 DEF LineTypeOK, LineInv, BoundOnce, NothingYet

LEMMA SendLine ==
  ASSUME LineTypeOK, LineInv, Send
  PROVE  LineTypeOK' /\ LineInv'
<1>1. /\ queue # <<>> /\ queue' = Tail(queue)
      /\ requests' \in {requests, Append(requests, Head(queue))}
      /\ UNCHANGED <<shown, events, answers, asked, io, evt, todo, handlers, feeder>>
  BY DEF Send, feedVars, ioVars
<1>2. /\ LineOf(shown, events, answers, requests', Tail(queue))
      /\ Coming(events, answers, requests', Tail(queue))
           \subseteq Coming(events, answers, requests, queue)
  BY <1>1, LineSend DEF LineInv, Line
<1>3. /\ Line'
      /\ Coming(events, answers, requests, queue)' \subseteq Coming(events, answers, requests, queue)
  BY <1>1, <1>2 DEF Line
<1> QED BY <1>1, <1>3, MoveLine

LEMMA ServeLine ==
  ASSUME LineTypeOK, LineInv, Serve
  PROVE  LineTypeOK' /\ LineInv'
<1>1. /\ requests # <<>> /\ requests' = Tail(requests)
      /\ answers' \in {answers, Append(answers, Head(requests))}
      /\ UNCHANGED <<shown, events, queue, asked, io, evt, todo, handlers, feeder>>
  BY DEF Serve, feedVars, ioVars
<1>2. /\ LineOf(shown, events, answers', Tail(requests), queue)
      /\ Coming(events, answers', Tail(requests), queue)
           \subseteq Coming(events, answers, requests, queue)
  BY <1>1, LineServe DEF LineInv, Line
<1>3. /\ Line'
      /\ Coming(events, answers, requests, queue)' \subseteq Coming(events, answers, requests, queue)
  BY <1>1, <1>2 DEF Line
<1> QED BY <1>1, <1>3, MoveLine

LEMMA ReadLine ==
  ASSUME LineTypeOK, LineInv, Read
  PROVE  LineTypeOK' /\ LineInv'
<1>1. /\ answers # <<>> /\ answers' = Tail(answers)
      /\ events' = Append(events, Head(answers))
      /\ UNCHANGED <<shown, requests, queue, asked, io, evt, todo, handlers, feeder>>
  BY DEF Read, feedVars
<1>2. /\ LineOf(shown, Append(events, Head(answers)), Tail(answers), requests, queue)
      /\ Coming(Append(events, Head(answers)), Tail(answers), requests, queue)
           \subseteq Coming(events, answers, requests, queue)
  BY <1>1, LineRead DEF LineInv, Line
<1>3. /\ Line'
      /\ Coming(events, answers, requests, queue)' \subseteq Coming(events, answers, requests, queue)
  BY <1>1, <1>2 DEF Line
<1> QED BY <1>1, <1>3, MoveLine

LEMMA DispatchLine ==
  ASSUME LineTypeOK, LineInv, Dispatch
  PROVE  LineTypeOK' /\ LineInv'
<1>1. /\ events # <<>> /\ evt' = Head(events) /\ events' = Tail(events)
      /\ todo' = IF Head(events) = Help THEN handlers["help"] ELSE <<>>
      /\ io' = "first"
      /\ UNCHANGED <<shown, answers, requests, queue, asked, handlers, feeder>>
  BY DEF Dispatch, feedVars, serverVars
<1>2. /\ LineOf(shown, Tail(events), answers, requests, queue)
      /\ Coming(Tail(events), answers, requests, queue)
           \subseteq Coming(events, answers, requests, queue)
      /\ Head(events) \in Messages /\ Head(events) \in Coming(events, answers, requests, queue)
      /\ \A x \in Coming(Tail(events), answers, requests, queue) : Head(events) < x
      /\ \A x \in ToSet(shown) : x < Head(events)
  BY <1>1, LineDispatch DEF LineInv, Line
<1>3. Line' /\ Asked' /\ Current'
  BY <1>1, <1>2 DEF LineInv, Line, Asked, Current, Dispatches
<1>4. todo' \in Seq({"help", "eval", "respond", "refresh"})
  <2>1. handlers["help"] \in Seq({"help", "eval", "respond", "refresh"})
    BY SeqMonotonic DEF LineTypeOK
  <2> QED BY <1>1, <2>1
<1>5. feeder \notin {"none", "run", "help"}
  BY <1>1 DEF LineInv, NothingYet
<1> QED BY <1>1, <1>2, <1>3, <1>4, <1>5 DEF LineTypeOK, LineInv, BoundOnce, NothingYet

LEMMA HandleHelpLine ==
  ASSUME LineTypeOK, LineInv, HandleHelp
  PROVE  LineTypeOK' /\ LineInv'
<1>1. /\ handlers' = [u \in Uids |-> <<>>] /\ todo' = <<>> /\ io = "first"
      /\ UNCHANGED <<shown, events, answers, requests, queue, asked, io, evt, feeder>>
  BY DEF HandleHelp, feedVars, serverVars
<1>2. /\ DOMAIN handlers' = Uids /\ handlers'["help"] = <<>>
      /\ handlers'["Unassigned"] = <<>>
  BY <1>1 DEF Uids
<1>3. Once(<<>>) /\ "respond" \notin ToSet(<<>>)
  BY EmptySet DEF Once
<1>4. BoundOnce' /\ NothingYet' /\ Current'
  BY <1>1, <1>2, <1>3 DEF LineInv, BoundOnce, NothingYet, Current, Dispatches
<1>5. LineTypeOK'
  BY <1>1, <1>2, EmptySeq DEF LineTypeOK
<1> QED BY <1>1, <1>4, <1>5 DEF LineInv, Line, Asked

LEMMA FindUnassignedLine ==
  ASSUME LineTypeOK, LineInv, FindUnassigned
  PROVE  LineTypeOK' /\ LineInv'
<1>1. /\ io = "first" /\ io' = "second" /\ todo' = handlers["Unassigned"]
      /\ UNCHANGED <<shown, events, answers, requests, queue, asked, evt, handlers, feeder>>
  BY DEF FindUnassigned, feedVars, serverVars
<1>2. handlers["Unassigned"] \in Seq({"help", "eval", "respond", "refresh"})
  BY SeqMonotonic DEF LineTypeOK, Callbacks
<1> QED BY <1>1, <1>2
        DEF LineTypeOK, LineInv, Line, Asked, Current, Dispatches, BoundOnce, NothingYet

LEMMA HandleNextLine ==
  ASSUME LineTypeOK, LineInv, HandleNext
  PROVE  LineTypeOK' /\ LineInv'
<1>1. /\ io = "second" /\ todo # <<>> /\ todo' = Tail(todo)
      /\ shown' = IF Head(todo) = "respond" THEN Append(shown, evt) ELSE shown
      /\ UNCHANGED <<events, answers, requests, queue, asked, io, evt, handlers, feeder>>
  BY DEF HandleNext, feedVars, serverVars
<1>2. /\ Tail(todo) \in Seq(Callbacks) /\ Once(Tail(todo))
      /\ Head(todo) \in ToSet(todo)
      /\ "respond" \in ToSet(Tail(todo)) => "respond" \in ToSet(todo) /\ Head(todo) # "respond"
  BY <1>1, RestOf DEF LineTypeOK, LineInv, BoundOnce
<1>3. Tail(todo) \in Seq({"help", "eval", "respond", "refresh"})
  BY <1>2, SeqMonotonic DEF Callbacks
<1>4. LineTypeOK' /\ BoundOnce' /\ NothingYet'
  BY <1>1, <1>2, <1>3 DEF LineTypeOK, LineInv, BoundOnce, NothingYet, Dispatches
<1>5. CASE Head(todo) = "respond"
  <2>1. /\ \A x \in ToSet(shown) : x < evt
        /\ \A x \in Coming(events, answers, requests, queue) : evt < x
        /\ evt <= asked /\ evt \in Messages
    BY <1>1, <1>2, <1>5 DEF LineInv, Current, Dispatches, LineTypeOK
  <2>2. /\ LineOf(Append(shown, evt), events, answers, requests, queue)
        /\ ToSet(Append(shown, evt)) = ToSet(shown) \union {evt}
    BY <2>1, LineShow DEF LineInv, Line
  <2>3. "respond" \notin ToSet(todo')
    BY <1>1, <1>2, <1>5
  <2>4. shown' = Append(shown, evt)
    BY <1>1, <1>5
  <2>5. Line' /\ Asked'
    BY <1>1, <2>1, <2>2, <2>4 DEF LineInv, Line, Asked
  <2>6. Current'
    BY <1>1, <2>1, <2>3 DEF Current, Dispatches
  <2> QED BY <1>4, <2>5, <2>6 DEF LineInv
<1>6. CASE Head(todo) # "respond"
  <2>1. Line' /\ Asked' /\ Current'
    BY <1>1, <1>2, <1>6 DEF LineInv, Line, Asked, Current, Dispatches
  <2> QED BY <1>4, <2>1 DEF LineInv
<1> QED BY <1>5, <1>6

LEMMA DispatchedLine ==
  ASSUME LineTypeOK, LineInv, Dispatched \/ UseFreed \/ IoEnds
  PROVE  LineTypeOK' /\ LineInv'
<1>1. /\ UNCHANGED <<shown, events, answers, requests, queue, asked, evt, handlers, feeder>>
      /\ io' \in {"idle", "ended"} /\ todo' \in {todo, <<>>}
  BY DEF Dispatched, UseFreed, IoEnds, feedVars, serverVars
<1>2. LineTypeOK'
  <2>1. todo' \in Seq({"help", "eval", "respond", "refresh"})
    BY <1>1, EmptySeq DEF LineTypeOK
  <2> QED BY <1>1, <2>1 DEF LineTypeOK
<1>3. io' # "first" /\ io' # "second"
  BY <1>1
<1> QED BY <1>1, <1>2, <1>3
        DEF LineInv, Line, Asked, Current, Dispatches, BoundOnce, NothingYet

-----------------------------------------------------------------------------
(***************************************************************************)
(* What is called of the plugins                                           *)
(***************************************************************************)
CallsType == [of : Libs, what : Methods]

LEMMA CallsOfOne ==
  ASSUME NEW ps \in Seq(Libs), NEW m \in Methods
  PROVE  /\ Calls(ps, <<m>>) \in Seq(CallsType) /\ Len(Calls(ps, <<m>>)) = Len(ps)
         /\ \A k \in 1..Len(ps) : Calls(ps, <<m>>)[k] = [of |-> ps[k], what |-> m]
<1> DEFINE cs == [k \in 1..Len(ps) |-> [of |-> ps[k], what |-> m]]
<1>1. Len(ps) \in Nat /\ \A k \in 1..Len(ps) : ps[k] \in Libs
  BY LenProperties, ElementOfSeq
<1>2. Calls(ps, <<m>>) = cs
  <2>1. Len(<<m>>) = 1 /\ <<m>>[1] = m
    OBVIOUS
  <2>2. \A i \in 1..Len(ps) : ((i - 1) \div 1) + 1 = i /\ ((i - 1) % 1) + 1 = 1
    BY <1>1
  <2>3. Len(ps) * 1 = Len(ps)
    BY <1>1
  <2> QED BY <2>1, <2>2, <2>3 DEF Calls
<1>3. cs \in [1..Len(ps) -> CallsType]
  BY <1>1 DEF CallsType
<1>4. cs \in Seq(CallsType)
  BY <1>1, <1>3, SeqDef
<1>5. Len(cs) = Len(ps)
  BY <1>1, <1>4, LenProperties
<1> QED BY <1>2, <1>4, <1>5

LEMMA CallsOfTwo ==
  ASSUME NEW ps \in Seq(Libs), NEW m \in Methods, NEW n \in Methods
  PROVE  /\ Calls(ps, <<m, n>>) \in Seq(CallsType) /\ Len(Calls(ps, <<m, n>>)) = 2 * Len(ps)
         /\ \A k \in 1..Len(ps) :
              /\ Calls(ps, <<m, n>>)[2 * k - 1] = [of |-> ps[k], what |-> m]
              /\ Calls(ps, <<m, n>>)[2 * k] = [of |-> ps[k], what |-> n]
<1> DEFINE cs == [i \in 1..(2 * Len(ps)) |->
                    [of |-> ps[((i - 1) \div 2) + 1], what |-> <<m, n>>[((i - 1) % 2) + 1]]]
<1>1. Len(ps) \in Nat /\ \A k \in 1..Len(ps) : ps[k] \in Libs
  BY LenProperties, ElementOfSeq
<1>2. Calls(ps, <<m, n>>) = cs
  <2>1. Len(<<m, n>>) = 2
    OBVIOUS
  <2>2. Len(ps) * 2 = 2 * Len(ps)
    BY <1>1
  <2> QED BY <2>1, <2>2 DEF Calls
<1>3. \A i \in 1..(2 * Len(ps)) :
        ((i - 1) \div 2) + 1 \in 1..Len(ps) /\ ((i - 1) % 2) + 1 \in {1, 2}
  BY <1>1
<1>4. <<m, n>>[1] = m /\ <<m, n>>[2] = n
  OBVIOUS
<1>5. cs \in [1..(2 * Len(ps)) -> CallsType]
  BY <1>1, <1>3, <1>4 DEF CallsType
<1>6. cs \in Seq(CallsType)
  <2>1. 2 * Len(ps) \in Nat
    BY <1>1
  <2> HIDE DEF cs
  <2> QED BY <1>5, <2>1, SeqDef
<1>7. Len(cs) = 2 * Len(ps)
  BY <1>1, <1>6, LenProperties
<1>8. ASSUME NEW k \in 1..Len(ps)
      PROVE  /\ cs[2 * k - 1] = [of |-> ps[k], what |-> m]
             /\ cs[2 * k] = [of |-> ps[k], what |-> n]
  <2>1. /\ 2 * k - 1 \in 1..(2 * Len(ps)) /\ 2 * k \in 1..(2 * Len(ps))
        /\ ((2 * k - 2) \div 2) + 1 = k /\ ((2 * k - 2) % 2) + 1 = 1
        /\ ((2 * k - 1) \div 2) + 1 = k /\ ((2 * k - 1) % 2) + 1 = 2
        /\ (2 * k - 1) - 1 = 2 * k - 2
    BY <1>1
  <2> QED BY <1>4, <2>1
<1> QED BY <1>2, <1>6, <1>7, <1>8

LEMMA Reversed ==
  ASSUME NEW ps \in Seq(Libs)
  PROVE  /\ Reverse(ps) \in Seq(Libs) /\ Len(Reverse(ps)) = Len(ps)
         /\ \A k \in 1..Len(ps) : Reverse(ps)[k] = ps[Len(ps) + 1 - k]
<1>1. Len(ps) \in Nat /\ \A k \in 1..Len(ps) : ps[k] \in Libs
  BY LenProperties, ElementOfSeq
<1>2. \A k \in 1..Len(ps) : Len(ps) - k + 1 = Len(ps) + 1 - k /\ Len(ps) + 1 - k \in 1..Len(ps)
  BY <1>1
<1>3. Reverse(ps) = [k \in 1..Len(ps) |-> ps[Len(ps) + 1 - k]]
  BY <1>2 DEF Reverse
<1>4. Reverse(ps) \in [1..Len(ps) -> Libs]
  BY <1>1, <1>2, <1>3
<1>5. Reverse(ps) \in Seq(Libs)
  BY <1>1, <1>4, SeqDef
<1>6. Len(Reverse(ps)) = Len(ps)
  BY <1>1, <1>4, <1>5, LenProperties
<1> QED BY <1>3, <1>5, <1>6

\* One more plugin is loaded.
LEMMA CallsOfMore ==
  ASSUME NEW ps \in Seq(Libs), NEW l \in Libs, NEW m \in Methods, NEW n \in Methods
  PROVE  Calls(Append(ps, l), <<m, n>>) = Calls(ps, <<m, n>>) \o Calls(<<l>>, <<m, n>>)
<1> DEFINE qs == Append(ps, l)
           a == Calls(ps, <<m, n>>)
           b == Calls(<<l>>, <<m, n>>)
           c == Calls(qs, <<m, n>>)
<1>1. /\ qs \in Seq(Libs) /\ Len(qs) = Len(ps) + 1 /\ Len(ps) \in Nat
      /\ \A k \in 1..Len(ps) : qs[k] = ps[k]
      /\ qs[Len(ps) + 1] = l
  BY AppendProperties, LenProperties
<1>2. <<l>> \in Seq(Libs) /\ Len(<<l>>) = 1 /\ <<l>>[1] = l
  OBVIOUS
<1>3. /\ a \in Seq(CallsType) /\ Len(a) = 2 * Len(ps)
      /\ \A k \in 1..Len(ps) : /\ a[2 * k - 1] = [of |-> ps[k], what |-> m]
                               /\ a[2 * k] = [of |-> ps[k], what |-> n]
  BY CallsOfTwo
<1>4. /\ b \in Seq(CallsType) /\ Len(b) = 2
      /\ b[1] = [of |-> l, what |-> m] /\ b[2] = [of |-> l, what |-> n]
  <2>1. /\ b \in Seq(CallsType) /\ Len(b) = 2 * Len(<<l>>)
        /\ \A k \in 1..Len(<<l>>) : /\ b[2 * k - 1] = [of |-> <<l>>[k], what |-> m]
                                    /\ b[2 * k] = [of |-> <<l>>[k], what |-> n]
    BY ZenonT(60), <1>2, CallsOfTwo
  <2>2. 1 \in 1..Len(<<l>>) /\ 2 * 1 - 1 = 1 /\ 2 * 1 = 2
    BY <1>2
  <2> QED BY <1>2, <2>1, <2>2
<1> HIDE DEF qs, a, b
<1>5. /\ c \in Seq(CallsType) /\ Len(c) = 2 * Len(qs)
      /\ \A k \in 1..Len(qs) : /\ c[2 * k - 1] = [of |-> qs[k], what |-> m]
                               /\ c[2 * k] = [of |-> qs[k], what |-> n]
  BY ZenonT(60), <1>1, CallsOfTwo
<1> HIDE DEF c
<1>6. /\ a \o b \in Seq(CallsType) /\ Len(a \o b) = Len(a) + Len(b)
      /\ \A i \in 1..Len(a) + Len(b) :
           (a \o b)[i] = IF i <= Len(a) THEN a[i] ELSE b[i - Len(a)]
  BY <1>3, <1>4, ConcatProperties
<1>7. ASSUME NEW i \in 1..Len(c) PROVE c[i] = (a \o b)[i]
  <2>1. i \in 1..Len(a) + Len(b) /\ Len(a) = 2 * Len(ps) /\ Len(c) = 2 * Len(ps) + 2
    BY <1>1, <1>3, <1>4, <1>5
  <2>2. PICK k \in 1..Len(qs) : i = 2 * k - 1 \/ i = 2 * k
    <3>1. (i + 1) \div 2 \in 1..Len(qs)
          /\ (i = 2 * ((i + 1) \div 2) - 1 \/ i = 2 * ((i + 1) \div 2))
      BY <1>1, <2>1
    <3> QED BY <3>1
  <2>3. CASE k \in 1..Len(ps)
    <3>1. i <= Len(a)
      BY <1>1, <2>1, <2>2, <2>3
    <3>2. (a \o b)[i] = a[i]
      BY <1>6, <2>1, <3>1
    <3>3. CASE i = 2 * k - 1
      BY <1>1, <1>3, <1>5, <2>3, <3>2, <3>3
    <3>4. CASE i = 2 * k
      BY <1>1, <1>3, <1>5, <2>3, <3>2, <3>4
    <3> QED BY <2>2, <3>3, <3>4
  <2>4. CASE k = Len(ps) + 1
    <3>1. ~(i <= Len(a)) /\ (i = 2 * k - 1 => i - Len(a) = 1) /\ (i = 2 * k => i - Len(a) = 2)
      BY <1>1, <2>1, <2>2, <2>4
    <3> QED BY <1>1, <1>4, <1>5, <1>6, <2>1, <2>2, <2>4, <3>1
  <2>5. k \in 1..Len(ps) \/ k = Len(ps) + 1
    BY <1>1
  <2> QED BY <2>3, <2>4, <2>5
<1>8. Len(c) = Len(a \o b)
  BY <1>1, <1>3, <1>4, <1>5, <1>6
<1> QED BY <1>5, <1>6, <1>7, <1>8, SeqEqual DEF a, b, c, qs

-----------------------------------------------------------------------------
(***************************************************************************)
(* The history of the plugins                                              *)
(***************************************************************************)
Distinct(ps) == \A k, l \in 1..Len(ps) : ps[k] = ps[l] => k = l

When(b, cs) == IF b THEN cs ELSE <<>>

\* The plugins ps are loaded, perhaps initialised again, perhaps shut down, and perhaps
\* unloaded.
History(ps, again, down, over) ==
  Calls(ps, <<"install", "initialise">>)
    \o When(again, Calls(ps, <<"initialise">>))
    \o When(down, Calls(Reverse(ps), <<"shutdown">>))
    \o When(over, Calls(Reverse(ps), <<"shutdown", "uninstall">>))

\* The i-th call is the k-th plugin's; b, c and d are the calls after each of the
\* last three parts.
Place(cs, ps, b, c, d, i, k) ==
  \/ i = 2 * k - 1 /\ cs[i] = [of |-> ps[k], what |-> "install"]
  \/ i = 2 * k /\ cs[i] = [of |-> ps[k], what |-> "initialise"]
  \/ /\ i = 2 * Len(ps) + k /\ b = 3 * Len(ps)
     /\ cs[i] = [of |-> ps[k], what |-> "initialise"]
  \/ /\ i = b + Len(ps) + 1 - k /\ c = b + Len(ps)
     /\ cs[i] = [of |-> ps[k], what |-> "shutdown"]
  \/ /\ i = c + 2 * (Len(ps) - k) + 1 /\ d = c + 2 * Len(ps)
     /\ cs[i] = [of |-> ps[k], what |-> "shutdown"]
  \/ /\ i = c + 2 * (Len(ps) - k) + 2 /\ d = c + 2 * Len(ps)
     /\ cs[i] = [of |-> ps[k], what |-> "uninstall"]

Told(cs, ps, b, c, d) ==
  /\ b \in {2 * Len(ps), 3 * Len(ps)} /\ c \in {b, b + Len(ps)} /\ d \in {c, c + 2 * Len(ps)}
  /\ DOMAIN cs = 1..d
  /\ \A i \in 1..d : \E k \in 1..Len(ps) : Place(cs, ps, b, c, d, i, k)
  /\ \A k \in 1..Len(ps) :
       /\ cs[2 * k - 1] = [of |-> ps[k], what |-> "install"]
       /\ c = b + Len(ps) => cs[b + Len(ps) + 1 - k] = [of |-> ps[k], what |-> "shutdown"]
       /\ d = c + 2 * Len(ps) =>
            /\ cs[c + 2 * (Len(ps) - k) + 1] = [of |-> ps[k], what |-> "shutdown"]
            /\ cs[c + 2 * (Len(ps) - k) + 2] = [of |-> ps[k], what |-> "uninstall"]

IsTold(cs, ps, over) ==
  \E b, c, d \in Nat : Told(cs, ps, b, c, d) /\ (over => d = c + 2 * Len(ps))

LEMMA HistoryIsTold ==
  ASSUME NEW ps \in Seq(Libs), NEW again \in BOOLEAN, NEW down \in BOOLEAN, NEW over \in BOOLEAN
  PROVE  /\ History(ps, again, down, over) \in Seq(CallsType)
         /\ IsTold(History(ps, again, down, over), ps, over)
<1> DEFINE n == Len(ps)
           s1 == Calls(ps, <<"install", "initialise">>)
           s2 == When(again, Calls(ps, <<"initialise">>))
           s3 == When(down, Calls(Reverse(ps), <<"shutdown">>))
           s4 == When(over, Calls(Reverse(ps), <<"shutdown", "uninstall">>))
           b == Len(s1) + Len(s2)
           c == b + Len(s3)
           d == c + Len(s4)
           t2 == s1 \o s2
           t3 == t2 \o s3
           cs == t3 \o s4
<1>1. n \in Nat /\ Reverse(ps) \in Seq(Libs) /\ Len(Reverse(ps)) = n
      /\ \A k \in 1..n : Reverse(ps)[k] = ps[n + 1 - k]
  BY Reversed, LenProperties
<1>2. {"install", "initialise", "shutdown", "uninstall"} \subseteq Methods
  BY DEF Methods
<1>3. /\ s1 \in Seq(CallsType) /\ Len(s1) = 2 * n
      /\ \A k \in 1..n : /\ s1[2 * k - 1] = [of |-> ps[k], what |-> "install"]
                         /\ s1[2 * k] = [of |-> ps[k], what |-> "initialise"]
  BY <1>2, CallsOfTwo
<1>4. /\ s2 \in Seq(CallsType) /\ Len(s2) = IF again THEN n ELSE 0
      /\ again => \A k \in 1..n : s2[k] = [of |-> ps[k], what |-> "initialise"]
  BY <1>2, CallsOfOne DEF When
<1>5. /\ s3 \in Seq(CallsType) /\ Len(s3) = IF down THEN n ELSE 0
      /\ down => \A k \in 1..n : s3[k] = [of |-> ps[n + 1 - k], what |-> "shutdown"]
  <2>1. /\ Calls(Reverse(ps), <<"shutdown">>) \in Seq(CallsType)
        /\ Len(Calls(Reverse(ps), <<"shutdown">>)) = n
        /\ \A k \in 1..n : Calls(Reverse(ps), <<"shutdown">>)[k] =
                             [of |-> Reverse(ps)[k], what |-> "shutdown"]
    BY <1>1, <1>2, CallsOfOne
  <2> QED BY <1>1, <2>1 DEF When
<1>6. /\ s4 \in Seq(CallsType) /\ Len(s4) = IF over THEN 2 * n ELSE 0
      /\ over => \A k \in 1..n : /\ s4[2 * k - 1] = [of |-> ps[n + 1 - k], what |-> "shutdown"]
                                 /\ s4[2 * k] = [of |-> ps[n + 1 - k], what |-> "uninstall"]
  <2> DEFINE u == Calls(Reverse(ps), <<"shutdown", "uninstall">>)
  <2>1. /\ u \in Seq(CallsType) /\ Len(u) = 2 * n
        /\ \A k \in 1..n : /\ u[2 * k - 1] = [of |-> Reverse(ps)[k], what |-> "shutdown"]
                           /\ u[2 * k] = [of |-> Reverse(ps)[k], what |-> "uninstall"]
    BY <1>1, <1>2, CallsOfTwo
  <2> HIDE DEF u
  <2>2. CASE over
    <3>1. s4 = u
      BY <2>2 DEF When, u
    <3> HIDE DEF s4
    <3> QED BY <1>1, <2>1, <2>2, <3>1
  <2>3. CASE ~ over
    <3>1. s4 = <<>>
      BY <2>3 DEF When
    <3> QED BY <2>3, <3>1, EmptySeq
  <2> QED BY <2>2, <2>3
<1> HIDE DEF n, s1, s2, s3, s4
<1>7. b \in Nat /\ c \in Nat /\ d \in Nat
      /\ b = 2 * n + Len(s2) /\ Len(s1) = 2 * n
      /\ b \in {2 * n, 3 * n} /\ c \in {b, b + n} /\ d \in {c, c + 2 * n}
      /\ (over => d = c + 2 * n)
  BY <1>1, <1>3, <1>4, <1>5, <1>6
<1>8. /\ t2 \in Seq(CallsType) /\ Len(t2) = b
      /\ \A i \in 1..b : t2[i] = IF i <= 2 * n THEN s1[i] ELSE s2[i - 2 * n]
  <2>1. /\ t2 \in Seq(CallsType) /\ Len(t2) = Len(s1) + Len(s2)
        /\ \A i \in 1..Len(s1) + Len(s2) : t2[i] = IF i <= Len(s1) THEN s1[i] ELSE s2[i - Len(s1)]
    BY <1>3, <1>4, ConcatProperties
  <2> QED BY <1>7, <2>1
<1> HIDE DEF b, t2
<1>9. /\ t3 \in Seq(CallsType) /\ Len(t3) = c
      /\ \A i \in 1..c : t3[i] = IF i <= b THEN t2[i] ELSE s3[i - b]
  BY <1>5, <1>8, ConcatProperties
<1> HIDE DEF c, t3
<1>10. /\ cs \in Seq(CallsType) /\ Len(cs) = d
       /\ \A i \in 1..d : cs[i] = IF i <= c THEN t3[i] ELSE s4[i - c]
  BY <1>6, <1>9, ConcatProperties
<1>11. DOMAIN cs = 1..d
  BY <1>10, LenProperties
<1> HIDE DEF d, cs
<1>12. ASSUME NEW i \in 1..d
       PROVE  /\ i <= 2 * n => cs[i] = s1[i]
              /\ i > 2 * n /\ i <= b => cs[i] = s2[i - 2 * n]
              /\ i > b /\ i <= c => cs[i] = s3[i - b]
              /\ i > c => cs[i] = s4[i - c]
  <2>1. 2 * n <= b /\ b <= c /\ c <= d
    BY <1>1, <1>7
  <2>2. i <= c => i \in 1..c
    BY <1>7
  <2>3. i <= b => i \in 1..b
    BY <1>7
  <2> QED BY <1>1, <1>7, <1>8, <1>9, <1>10, <2>1, <2>2, <2>3
<1>13. \A m \in Nat : \A j \in 1..(2 * m) : \E k \in 1..m : j = 2 * k - 1 \/ j = 2 * k
  <2> SUFFICES ASSUME NEW m \in Nat, NEW j \in 1..(2 * m)
               PROVE  \E k \in 1..m : j = 2 * k - 1 \/ j = 2 * k
    OBVIOUS
  <2>1. (j + 1) \div 2 \in 1..m /\ (j = 2 * ((j + 1) \div 2) - 1 \/ j = 2 * ((j + 1) \div 2))
    OBVIOUS
  <2> QED BY <2>1
<1>14. ASSUME NEW i \in 1..d PROVE \E k \in 1..n : Place(cs, ps, b, c, d, i, k)
  <2>1. CASE i <= 2 * n
    <3>0. i \in 1..(2 * n)
      BY <1>1, <2>1
    <3>1. PICK k \in 1..n : i = 2 * k - 1 \/ i = 2 * k
      BY <1>1, <1>13, <3>0
    <3>2. cs[i] = s1[i]
      BY <1>12, <2>1
    <3>3. Place(cs, ps, b, c, d, i, k)
      BY <1>3, <3>1, <3>2 DEF Place
    <3> QED BY <3>3
  <2>2. CASE i > 2 * n /\ i <= b
    <3> DEFINE k == i - 2 * n
    <3>1. k \in 1..n /\ i = 2 * n + k /\ b = 3 * n /\ again
      BY <1>1, <1>4, <1>7, <2>2
    <3>2. cs[i] = s2[k]
      BY <1>12, <2>2
    <3> HIDE DEF k
    <3>3. Place(cs, ps, b, c, d, i, k)
      BY <1>4, <3>1, <3>2 DEF Place, n
    <3> QED BY <3>1, <3>3
  <2>3. CASE i > b /\ i <= c
    <3> DEFINE k == n + 1 - (i - b)
    <3>1. /\ k \in 1..n /\ i = b + n + 1 - k /\ c = b + n /\ down
          /\ i - b \in 1..n /\ n + 1 - (i - b) = k
      BY <1>1, <1>5, <1>7, <2>3 DEF c
    <3>2. cs[i] = s3[i - b]
      BY <1>12, <2>3
    <3> HIDE DEF k
    <3>3. cs[i] = [of |-> ps[k], what |-> "shutdown"]
      BY <1>5, <3>1, <3>2
    <3>4. Place(cs, ps, b, c, d, i, k)
      BY <3>1, <3>3 DEF Place, n
    <3> QED BY <3>1, <3>4
  <2>4. CASE i > c
    <3>0. d # c /\ Len(s4) # 0
      BY <1>7, <2>4 DEF d
    <3>1. d = c + 2 * n /\ over /\ i - c \in 1..(2 * n)
      <4>1. over
        BY <1>6, <3>0
      <4>2. d = c + 2 * n
        BY <1>7, <4>1
      <4> QED BY <1>1, <1>7, <2>4, <4>1, <4>2
    <3>2. PICK l \in 1..n : i - c = 2 * l - 1 \/ i - c = 2 * l
      BY <1>1, <1>13, <3>1
    <3> DEFINE k == n + 1 - l
    <3>3. /\ k \in 1..n
          /\ \/ i - c = 2 * l - 1 /\ i = c + 2 * (n - k) + 1
             \/ i - c = 2 * l /\ i = c + 2 * (n - k) + 2
      BY <1>1, <1>7, <3>2
    <3>4. cs[i] = s4[i - c]
      BY <1>12, <2>4
    <3>5. /\ s4[2 * l - 1] = [of |-> ps[k], what |-> "shutdown"]
          /\ s4[2 * l] = [of |-> ps[k], what |-> "uninstall"]
      BY <1>6, <3>1
    <3> HIDE DEF k
    <3>6. Place(cs, ps, b, c, d, i, k)
      BY <3>1, <3>3, <3>4, <3>5 DEF Place, n
    <3> QED BY <3>3, <3>6
  <2> QED BY SMTT(30), <1>1, <1>7, <2>1, <2>2, <2>3, <2>4
<1>15. ASSUME NEW k \in 1..n
       PROVE  cs[2 * k - 1] = [of |-> ps[k], what |-> "install"]
  <2>1. 2 * k - 1 \in 1..d /\ 2 * k - 1 <= 2 * n
    BY <1>1, <1>7
  <2> QED BY <1>3, <1>12, <2>1
<1>16. ASSUME NEW k \in 1..n, c = b + n
       PROVE  cs[b + n + 1 - k] = [of |-> ps[k], what |-> "shutdown"]
  <2> DEFINE i == b + n + 1 - k
  <2>1. /\ i \in 1..d /\ i > b /\ i <= c /\ down
        /\ i - b \in 1..n /\ n + 1 - (i - b) = k
    BY <1>1, <1>5, <1>7, <1>16 DEF c
  <2> HIDE DEF i
  <2>2. cs[i] = s3[i - b]
    BY <1>12, <2>1
  <2>3. cs[i] = [of |-> ps[k], what |-> "shutdown"]
    BY <1>5, <2>1, <2>2
  <2> QED BY <2>3 DEF i
<1>17. ASSUME NEW k \in 1..n, d = c + 2 * n
       PROVE  /\ cs[c + 2 * (n - k) + 1] = [of |-> ps[k], what |-> "shutdown"]
              /\ cs[c + 2 * (n - k) + 2] = [of |-> ps[k], what |-> "uninstall"]
  <2> DEFINE l == n + 1 - k
             i == c + 2 * (n - k) + 1
             j == c + 2 * (n - k) + 2
  <2>1. /\ l \in 1..n /\ n + 1 - l = k /\ over
        /\ i \in 1..d /\ i > c /\ i - c = 2 * l - 1
        /\ j \in 1..d /\ j > c /\ j - c = 2 * l
    BY <1>1, <1>6, <1>7, <1>17 DEF d
  <2> HIDE DEF i, j, l
  <2>2. cs[i] = s4[2 * l - 1] /\ cs[j] = s4[2 * l]
    BY <1>12, <2>1
  <2>3. /\ s4[2 * l - 1] = [of |-> ps[k], what |-> "shutdown"]
        /\ s4[2 * l] = [of |-> ps[k], what |-> "uninstall"]
    BY <1>6, <2>1
  <2> QED BY <2>2, <2>3 DEF i, j
<1>18. Told(cs, ps, b, c, d)
  BY <1>7, <1>11, <1>14, <1>15, <1>16, <1>17 DEF Told, n
<1>19. cs = History(ps, again, down, over)
  BY DEF cs, t3, t2, s1, s2, s3, s4, History
<1>20. IsTold(cs, ps, over)
  BY <1>7, <1>18 DEF IsTold, n
<1> QED BY <1>10, <1>19, <1>20

\* Two calls of one plugin are at places of the same k, in the order of their ranks.
LEMMA ToldIsLifeCycle ==
  ASSUME NEW ps \in Seq(Libs), Distinct(ps), NEW b \in Nat, NEW c \in Nat, NEW d \in Nat,
         Told(calls, ps, b, c, d)
  PROVE  LifeCycle
<1> DEFINE n == Len(ps)
<1>1. n \in Nat /\ DOMAIN calls = 1..d
      /\ b \in {2 * n, 3 * n} /\ c \in {b, b + n} /\ d \in {c, c + 2 * n}
  BY LenProperties DEF Told
<1>2. ASSUME NEW i \in DOMAIN calls, NEW j \in DOMAIN calls, i < j, calls[i].of = calls[j].of
      PROVE  /\ Rank(calls[i].what) =< Rank(calls[j].what)
             /\ calls[i].what \in {"install", "uninstall"} => calls[i] # calls[j]
  <2>1. PICK k \in 1..n : Place(calls, ps, b, c, d, i, k)
    BY <1>1 DEF Told
  <2>2. PICK l \in 1..n : Place(calls, ps, b, c, d, j, l)
    BY <1>1 DEF Told
  <2>3. k = l
    <3>1. calls[i].of = ps[k] /\ calls[j].of = ps[l]
      BY <2>1, <2>2 DEF Place
    <3> QED BY <3>1, <1>2 DEF Distinct
  <2>4. /\ Rank("install") = 1 /\ Rank("initialise") = 2
        /\ Rank("shutdown") = 3 /\ Rank("uninstall") = 4
    BY DEF Rank
  <2>5. \/ i = 2 * k - 1 /\ calls[i].what = "install"
        \/ i = 2 * k /\ calls[i].what = "initialise"
        \/ i = 2 * n + k /\ b = 3 * n /\ calls[i].what = "initialise"
        \/ i = b + n + 1 - k /\ c = b + n /\ calls[i].what = "shutdown"
        \/ i = c + 2 * (n - k) + 1 /\ calls[i].what = "shutdown"
        \/ i = c + 2 * (n - k) + 2 /\ calls[i].what = "uninstall"
    BY <2>1 DEF Place
  <2>6. \/ j = 2 * k - 1 /\ calls[j].what = "install"
        \/ j = 2 * k /\ calls[j].what = "initialise"
        \/ j = 2 * n + k /\ b = 3 * n /\ calls[j].what = "initialise"
        \/ j = b + n + 1 - k /\ c = b + n /\ calls[j].what = "shutdown"
        \/ j = c + 2 * (n - k) + 1 /\ calls[j].what = "shutdown"
        \/ j = c + 2 * (n - k) + 2 /\ calls[j].what = "uninstall"
    BY <2>2, <2>3 DEF Place
  <2>7. CASE calls[i].what = "install"
    <3>1. i = 2 * k - 1 \/ i = 0
      BY <2>5, <2>7
    <3>2. calls[j].what # "install"
      BY <1>1, <1>2, <2>5, <2>6, <2>7
    <3> QED BY <2>4, <2>6, <2>7, <3>2
  <2>8. CASE calls[i].what = "initialise"
    <3>1. calls[j].what # "install"
      BY <1>1, <1>2, <2>5, <2>6, <2>8
    <3> QED BY <2>4, <2>6, <2>8, <3>1
  <2>9. CASE calls[i].what = "shutdown"
    <3>1. calls[j].what \notin {"install", "initialise"}
      BY SMTT(30), <1>1, <1>2, <2>5, <2>6, <2>9
    <3> QED BY <2>4, <2>6, <2>9, <3>1
  <2>10. CASE calls[i].what = "uninstall"
    <3>1. FALSE
      BY SMTT(30), <1>1, <1>2, <2>5, <2>6, <2>10
    <3> QED BY <3>1
  <2> QED BY <2>5, <2>7, <2>8, <2>9, <2>10
<1>3. ASSUME NEW p \in Libs, At(p, "uninstall") # {} PROVE At(p, "shutdown") # {}
  <2>1. PICK i \in DOMAIN calls : calls[i] = [of |-> p, what |-> "uninstall"]
    BY <1>3 DEF At
  <2>2. PICK k \in 1..n : Place(calls, ps, b, c, d, i, k)
    BY <1>1 DEF Told
  <2>3. /\ i = c + 2 * (n - k) + 2 /\ d = c + 2 * n
        /\ calls[i] = [of |-> ps[k], what |-> "uninstall"]
    BY <2>1, <2>2 DEF Place
  <2>4. ps[k] = p
    BY <2>1, <2>3
  <2>5. calls[c + 2 * (n - k) + 1] = [of |-> p, what |-> "shutdown"]
    BY <2>3, <2>4 DEF Told
  <2>6. c + 2 * (n - k) + 1 \in DOMAIN calls
    BY SMTT(30), <1>1, <2>3
  <2> QED BY <2>5, <2>6 DEF At
<1> QED BY <1>2, <1>3 DEF LifeCycle

\* To every time that the plugin loaded first is shut down or uninstalled, one of the
\* other is before.
LEMMA ToldIsUnwound ==
  ASSUME NEW ps \in Seq(Libs), Distinct(ps), NEW b \in Nat, NEW c \in Nat, NEW d \in Nat,
         Told(calls, ps, b, c, d)
  PROVE  UnwoundInReverse
<1> DEFINE n == Len(ps)
<1>1. n \in Nat /\ DOMAIN calls = 1..d
      /\ b \in {2 * n, 3 * n} /\ c \in {b, b + n} /\ d \in {c, c + 2 * n}
  BY LenProperties DEF Told
<1>2. ASSUME NEW p \in Libs, NEW i \in At(p, "install")
      PROVE  \E k \in 1..n : i = 2 * k - 1 /\ ps[k] = p
  <2>1. i \in 1..d /\ calls[i] = [of |-> p, what |-> "install"]
    BY <1>1 DEF At
  <2>2. PICK k \in 1..n : Place(calls, ps, b, c, d, i, k)
    BY <2>1 DEF Told
  <2>3. i = 2 * k - 1 /\ ps[k] = p
    BY <2>1, <2>2 DEF Place
  <2> QED BY <2>3
<1>3. ASSUME NEW p \in Libs, NEW q \in Libs,
             NEW i \in At(p, "install"), NEW j \in At(q, "install"), i < j,
             NEW m \in {"shutdown", "uninstall"}, NEW x \in DOMAIN calls, x \in At(p, m)
      PROVE  Cardinality({y \in At(p, m) : y =< x}) =< Cardinality({y \in At(q, m) : y < x})
  <2>1. PICK k \in 1..n : i = 2 * k - 1 /\ ps[k] = p
    BY <1>2
  <2>2. PICK l \in 1..n : j = 2 * l - 1 /\ ps[l] = q
    BY <1>2
  <2>3. k < l
    BY <1>1, <1>3, <2>1, <2>2
  <2> DEFINE S == {y \in At(p, m) : y =< x}
             T == {y \in At(q, m) : y < x}
             f == [y \in S |-> IF y <= c THEN y - (l - k) ELSE y - 2 * (l - k)]
  <2>4. ASSUME NEW y \in S
        PROVE  /\ y \in 1..d /\ y <= x
               /\ \/ y <= c /\ y - (l - k) \in At(q, m)
                  \/ y > c /\ y - 2 * (l - k) > c /\ y - 2 * (l - k) \in At(q, m)
    <3>1. y \in 1..d /\ calls[y] = [of |-> p, what |-> m] /\ y <= x
      BY <1>1 DEF At
    <3>2. PICK h \in 1..n : Place(calls, ps, b, c, d, y, h)
      BY <3>1 DEF Told
    <3>3. h = k
      <4>1. ps[h] = p
        BY <3>1, <3>2 DEF Place
      <4> QED BY <2>1, <4>1 DEF Distinct
    <3>4. CASE m = "shutdown" /\ y = b + n + 1 - k /\ c = b + n
      <4>1. calls[b + n + 1 - l] = [of |-> q, what |-> "shutdown"]
        BY <2>2, <3>4 DEF Told
      <4>2. b + n + 1 - l = y - (l - k) /\ y <= c /\ y - (l - k) \in 1..d
        <5>1. y = b + n + 1 - k /\ c = b + n /\ y \in 1..d
          BY <3>1, <3>4
        <5>2. y - (l - k) = b + n + 1 - l /\ y - (l - k) < y /\ y <= c
          BY <1>1, <2>3, <5>1
        <5>3. b + n + 1 - l >= 1
          BY <1>1
        <5> QED BY <1>1, <5>1, <5>2, <5>3
      <4>3. y - (l - k) \in At(q, m)
        BY <1>1, <3>4, <4>1, <4>2 DEF At
      <4> QED BY <3>1, <4>2, <4>3
    <3>5. CASE m = "shutdown" /\ y = c + 2 * (n - k) + 1 /\ d = c + 2 * n
      <4>1. calls[c + 2 * (n - l) + 1] = [of |-> q, what |-> "shutdown"]
        BY <2>2, <3>5 DEF Told
      <4>2. /\ c + 2 * (n - l) + 1 = y - 2 * (l - k) /\ y > c
            /\ y - 2 * (l - k) > c /\ y - 2 * (l - k) \in 1..d
        BY SMTT(30), <1>1, <2>3, <3>1, <3>5
      <4>3. y - 2 * (l - k) \in At(q, m)
        BY <1>1, <3>5, <4>1, <4>2 DEF At
      <4> QED BY <3>1, <4>2, <4>3
    <3>6. CASE m = "uninstall" /\ y = c + 2 * (n - k) + 2 /\ d = c + 2 * n
      <4>1. calls[c + 2 * (n - l) + 2] = [of |-> q, what |-> "uninstall"]
        BY <2>2, <3>6 DEF Told
      <4>2. /\ c + 2 * (n - l) + 2 = y - 2 * (l - k) /\ y > c
            /\ y - 2 * (l - k) > c /\ y - 2 * (l - k) \in 1..d
        BY <1>1, <2>3, <3>1, <3>6
      <4>3. y - 2 * (l - k) \in At(q, m)
        BY <1>1, <3>6, <4>1, <4>2 DEF At
      <4> QED BY <3>1, <4>2, <4>3
    <3> QED BY <3>1, <3>2, <3>3, <3>4, <3>5, <3>6 DEF Place
  <2>5. \A y \in S : f[y] = IF y <= c THEN y - (l - k) ELSE y - 2 * (l - k)
    OBVIOUS
  <2>6. x \in 1..d
    BY <1>1
  <2>7. f \in [S -> T]
    <3> SUFFICES ASSUME NEW y \in S PROVE f[y] \in T
      OBVIOUS
    <3> HIDE DEF f, S
    <3>1. f[y] \in At(q, m)
      BY <1>1, <2>4, <2>5
    <3>2. f[y] < x
      BY <1>1, <2>3, <2>4, <2>5, <2>6
    <3> QED BY <3>1, <3>2
  <2>8. \A y, z \in S : f[y] = f[z] => y = z
    <3> SUFFICES ASSUME NEW y \in S, NEW z \in S, f[y] = f[z] PROVE y = z
      OBVIOUS
    <3> HIDE DEF f, S
    <3>1. f[y] > c <=> y > c
      BY <1>1, <2>3, <2>4, <2>5
    <3>2. f[z] > c <=> z > c
      BY <1>1, <2>3, <2>4, <2>5
    <3> QED BY SMTT(30), <1>1, <2>4, <2>5, <3>1, <3>2
  <2>9. IsFiniteSet(T)
    <3>1. IsFiniteSet(1..d)
      BY FS_Interval
    <3>2. T \in SUBSET (1..d)
      BY <1>1 DEF At
    <3> QED BY <3>1, <3>2, FS_Subset
  <2> HIDE DEF S, T, f
  <2>10. f \in Injection(S, T)
    BY <2>7, <2>8 DEF Injection, IsInjective
  <2>11. Cardinality(S) <= Cardinality(T)
    BY <2>9, <2>10, FS_Injection
  <2> QED BY <2>11 DEF S, T
<1> QED BY <1>3, ToldIsLifeCycle DEF UnwoundInReverse

\* Whoever was installed is uninstalled in the end.
LEMMA ToldIsOver ==
  ASSUME NEW ps \in Seq(Libs), NEW b \in Nat, NEW c \in Nat, NEW d \in Nat,
         Told(calls, ps, b, c, d), d = c + 2 * Len(ps),
         NEW p \in Libs, At(p, "install") # {}
  PROVE  At(p, "uninstall") # {}
<1> DEFINE n == Len(ps)
<1>1. n \in Nat /\ DOMAIN calls = 1..d
  BY LenProperties DEF Told
<1>2. PICK i \in DOMAIN calls : calls[i] = [of |-> p, what |-> "install"]
  BY DEF At
<1>3. PICK k \in 1..n : Place(calls, ps, b, c, d, i, k)
  BY <1>1 DEF Told
<1>4. ps[k] = p
  BY <1>2, <1>3 DEF Place
<1>5. calls[c + 2 * (n - k) + 2] = [of |-> p, what |-> "uninstall"]
  BY <1>4 DEF Told
<1>6. c + 2 * (n - k) + 2 \in DOMAIN calls
  BY <1>1
<1> QED BY <1>5, <1>6 DEF At

\* What each operation of the manager adds to the history.
LEMMA HistoryGrows ==
  ASSUME NEW ps \in Seq(Libs)
  PROVE  /\ History(<<>>, FALSE, FALSE, FALSE) = <<>>
         /\ \A l \in Libs :
              History(Append(ps, l), FALSE, FALSE, FALSE) =
                History(ps, FALSE, FALSE, FALSE) \o Calls(<<l>>, <<"install", "initialise">>)
         /\ History(ps, TRUE, FALSE, FALSE) =
              History(ps, FALSE, FALSE, FALSE) \o Calls(ps, <<"initialise">>)
         /\ History(ps, TRUE, TRUE, FALSE) =
              History(ps, TRUE, FALSE, FALSE) \o Calls(Reverse(ps), <<"shutdown">>)
         /\ \A down \in BOOLEAN :
              History(ps, TRUE, down, TRUE) =
                History(ps, TRUE, down, FALSE)
                  \o Calls(Reverse(ps), <<"shutdown", "uninstall">>)
<1> DEFINE a(qs) == Calls(qs, <<"install", "initialise">>)
           s2 == Calls(ps, <<"initialise">>)
           s3 == Calls(Reverse(ps), <<"shutdown">>)
           s4 == Calls(Reverse(ps), <<"shutdown", "uninstall">>)
<1>1. {"install", "initialise", "shutdown", "uninstall"} \subseteq Methods
  BY DEF Methods
<1>2. \A qs \in Seq(Libs) : a(qs) \in Seq(CallsType) /\ Len(a(qs)) = 2 * Len(qs)
  BY <1>1, CallsOfTwo
<1>3. s2 \in Seq(CallsType) /\ s3 \in Seq(CallsType) /\ s4 \in Seq(CallsType)
  BY <1>1, Reversed, CallsOfOne, CallsOfTwo
<1>4. \A l \in Libs : Append(ps, l) \in Seq(Libs) /\ <<l>> \in Seq(Libs)
                      /\ a(Append(ps, l)) = a(ps) \o a(<<l>>)
  BY SMTT(30), <1>1, CallsOfMore
<1>5. \A t \in Seq(CallsType) : t \o <<>> = t
  BY ConcatEmptySeq
<1>6. a(ps) \in Seq(CallsType) /\ a(ps) \o s2 \in Seq(CallsType)
      /\ (a(ps) \o s2) \o s3 \in Seq(CallsType)
  BY <1>2, <1>3, ConcatProperties
<1>7. <<>> \in Seq(Libs) /\ Len(<<>>) = 0
  BY EmptySeq
<1>8. a(<<>>) = <<>>
  <2>1. a(<<>>) \in Seq(CallsType) /\ Len(a(<<>>)) = 0
    <3> HIDE DEF a
    <3>1. a(<<>>) \in Seq(CallsType) /\ Len(a(<<>>)) = 2 * Len(<<>>)
      BY <1>2, <1>7
    <3> QED BY <1>7, <3>1
  <2> HIDE DEF a
  <2> QED BY <2>1, EmptySeq
<1>9. \A qs, b1, b2, b3 :
        History(qs, b1, b2, b3) =
          a(qs) \o When(b1, Calls(qs, <<"initialise">>))
                \o When(b2, Calls(Reverse(qs), <<"shutdown">>))
                \o When(b3, Calls(Reverse(qs), <<"shutdown", "uninstall">>))
  BY DEF History
<1>10. \A cs : When(TRUE, cs) = cs /\ When(FALSE, cs) = <<>>
  BY DEF When
<1>11. \A qs \in Seq(Libs) : History(qs, FALSE, FALSE, FALSE) = a(qs)
  <2> SUFFICES ASSUME NEW qs \in Seq(Libs) PROVE History(qs, FALSE, FALSE, FALSE) = a(qs)
    OBVIOUS
  <2> HIDE DEF a
  <2>1. a(qs) \o <<>> = a(qs)
    BY <1>2, <1>5
  <2>2. History(qs, FALSE, FALSE, FALSE) = a(qs) \o <<>> \o <<>> \o <<>>
    BY <1>9, <1>10, Zenon
  <2> QED BY <2>1, <2>2
<1> HIDE DEF a, s2, s3, s4
<1>12. History(ps, TRUE, FALSE, FALSE) = a(ps) \o s2
  <2>1. History(ps, TRUE, FALSE, FALSE) = a(ps) \o s2 \o <<>> \o <<>>
    BY <1>9, <1>10, Zenon DEF s2
  <2> QED BY <1>5, <1>6, <2>1
<1>13. History(ps, TRUE, TRUE, FALSE) = a(ps) \o s2 \o s3
  <2>1. History(ps, TRUE, TRUE, FALSE) = a(ps) \o s2 \o s3 \o <<>>
    BY <1>9, <1>10, Zenon DEF s2, s3
  <2> QED BY <1>5, <1>6, <2>1
<1>14. History(ps, TRUE, TRUE, TRUE) = a(ps) \o s2 \o s3 \o s4
  BY <1>9, <1>10, Zenon DEF s2, s3, s4
<1>15. History(ps, TRUE, FALSE, TRUE) = a(ps) \o s2 \o s4
  <2>1. History(ps, TRUE, FALSE, TRUE) = a(ps) \o s2 \o <<>> \o s4
    BY <1>9, <1>10, Zenon DEF s2, s4
  <2> QED BY <1>5, <1>6, <2>1
<1>16. ASSUME NEW l \in Libs
       PROVE  History(Append(ps, l), FALSE, FALSE, FALSE) =
                History(ps, FALSE, FALSE, FALSE) \o a(<<l>>)
  BY <1>4, <1>11
<1>17. History(<<>>, FALSE, FALSE, FALSE) = <<>>
  BY <1>7, <1>8, <1>11
<1>18. History(ps, FALSE, FALSE, FALSE) = a(ps)
  BY <1>11
<1> QED BY <1>12, <1>13, <1>14, <1>15, <1>16, <1>17, <1>18 DEF a, s2, s3, s4

-----------------------------------------------------------------------------
(***************************************************************************)
(* The steps, and the plugins                                              *)
(***************************************************************************)
OtherTypeOK ==
  /\ PluginsTypeOK
  /\ alive \in BOOLEAN /\ interactive \in BOOLEAN /\ ioRuns \in BOOLEAN
  /\ helped \in BOOLEAN /\ signal \in BOOLEAN
  /\ target \in Targets /\ delegate \in Targets
  /\ main \in {"connect", "load", "wait", "join", "destroy", "unload", "end", "failed"}
  /\ file \in Seq(Libs)
  /\ delegates \subseteq Targets
  /\ conn \in {"none", "up", "stopped", "deleted"}
  /\ server \in {"open", "closed"}

\* How far the main thread is, and the thread in run.
Threads ==
  /\ main \in {"connect", "load", "failed"} => feeder = "none" /\ io = "none"
  /\ main \notin {"connect", "load", "failed"} => feeder # "none"
  /\ main \in {"destroy", "unload", "end"} => feeder = "ended"
  /\ feeder \in {"help", "bound", "prompt"} => interactive

Ran     == feeder \notin {"none", "run"}
HasQuit == feeder = "ended" /\ interactive
Over    == main \in {"failed", "end"}

\* The manager's lists are in step, and what was called of the plugins is their history.
Unwinding ==
  /\ ~ Over => /\ libs = plugins /\ mapped = ToSet(plugins) /\ Distinct(plugins)
               /\ calls = History(plugins, Ran, HasQuit, FALSE)
  /\ Over => \E ps \in Seq(Libs) :
               Distinct(ps) /\ calls = History(ps, Ran, HasQuit, main = "end")
  /\ ~ Over /\ main # "connect" => init
  /\ main = "end" => libs = <<>> /\ plugins = <<>> /\ mapped = {}

IInv == LineTypeOK /\ LineInv /\ OtherTypeOK /\ Threads /\ Unwinding

\* Calls that end a part of the history.
LEMMA CallsStayTyped ==
  ASSUME calls \in Seq(CallsType), NEW cs \in Seq(CallsType)
  PROVE  calls \o cs \in Seq(CallsType)
BY ConcatProperties

\* Steps that have nothing to do with the plugins.
LEMMA UnwindingStays ==
  ASSUME Unwinding, UNCHANGED pluginVars, Ran' = Ran, HasQuit' = HasQuit,
         main' = main \/ (main \notin {"connect"} /\ ~ Over /\ ~ Over')
  PROVE  Unwinding'
BY DEF Unwinding, Over, pluginVars

LEMMA PluginTypes == PluginsTypeOK <=>
  /\ init \in BOOLEAN /\ mapped \subseteq Libs /\ libs \in Seq(Libs) /\ plugins \in Seq(Libs)
  /\ calls \in Seq(CallsType)
BY DEF PluginsTypeOK, CallsType

LEMMA ConnectUnwinds ==
  ASSUME IInv, Connect
  PROVE  OtherTypeOK' /\ Threads' /\ Unwinding'
<1> USE DEF IInv
<1>1. /\ UNCHANGED <<mapped, libs, plugins, calls>> /\ main = "connect"
      /\ UNCHANGED <<alive, interactive, file, delegates, signal, feeder, delegate, target,
                     ioRuns, io, helped, server>>
      /\ \/ main' = "load" /\ conn' = "up" /\ init' = TRUE
         \/ main' = "failed" /\ conn' = conn /\ init' = init
  BY DEF Connect, SetInit, pluginVars, feedVars, ioVars, serverVars
<1>2. OtherTypeOK'
  BY <1>1 DEF OtherTypeOK, PluginsTypeOK
<1>3. Threads'
  BY <1>1 DEF Threads
<1>4. Unwinding'
  <2>1. plugins \in Seq(Libs) /\ Distinct(plugins) /\ calls = History(plugins, Ran, HasQuit, FALSE)
        /\ libs = plugins /\ mapped = ToSet(plugins)
    BY <1>1 DEF Unwinding, Over, OtherTypeOK, PluginsTypeOK
  <2>2. Ran' = Ran /\ HasQuit' = HasQuit
    BY <1>1 DEF Ran, HasQuit
  <2>3. CASE main' = "load"
    BY <1>1, <2>1, <2>2, <2>3 DEF Unwinding, Over
  <2>4. CASE main' = "failed"
    <3>1. calls' = History(plugins, Ran', HasQuit', main' = "end")
      BY <1>1, <2>1, <2>2, <2>4
    <3> QED BY <2>1, <2>4, <3>1 DEF Unwinding, Over
  <2> QED BY <1>1, <2>3, <2>4
<1> QED BY <1>2, <1>3, <1>4

\* Another plugin of the file is loaded, or is not.
LEMMA LoadNextUnwinds ==
  ASSUME IInv, LoadNext
  PROVE  OtherTypeOK' /\ Threads' /\ Unwinding'
<1> USE DEF IInv
<1> DEFINE l == Head(file)
<1>1. /\ main = "load" /\ l \in Libs /\ file' \in Seq(Libs)
      /\ UNCHANGED <<alive, interactive, signal, feeder, delegate, target,
                     ioRuns, io, helped, server>>
  BY HeadTailProperties DEF LoadNext, OtherTypeOK, feedVars, ioVars, serverVars
<1>2. /\ Ran = FALSE /\ HasQuit = FALSE /\ Ran' = FALSE /\ HasQuit' = FALSE
  BY <1>1 DEF Threads, Ran, HasQuit
<1>3. /\ plugins \in Seq(Libs) /\ libs = plugins /\ mapped = ToSet(plugins) /\ Distinct(plugins)
      /\ calls = History(plugins, FALSE, FALSE, FALSE) /\ init = TRUE
      /\ calls \in Seq(CallsType)
  BY <1>1, <1>2, PluginTypes DEF Unwinding, Over, OtherTypeOK, PluginsTypeOK
<1> HIDE DEF l
<1>4. CASE UNCHANGED <<pluginVars, main, conn, delegates>>
  <2>1. Unwinding'
    BY <1>2, <1>4, UnwindingStays
  <2> QED BY <1>1, <1>4, <2>1 DEF OtherTypeOK, PluginsTypeOK, pluginVars, Threads
<1>5. CASE /\ Load(l) /\ delegates' = delegates \union {l} /\ UNCHANGED <<main, conn>>
  <2> DEFINE ps == Append(plugins, l)
             add == Calls(<<l>>, <<"install", "initialise">>)
  <2>1. /\ l \notin ToSet(plugins) /\ mapped' = mapped \union {l}
        /\ libs' = ps /\ plugins' = ps /\ calls' = calls \o add /\ init' = init
    BY <1>3, <1>5 DEF Load
  <2>2. /\ ps \in Seq(Libs) /\ Len(ps) = Len(plugins) + 1
        /\ \A k \in 1..Len(plugins) : ps[k] = plugins[k]
        /\ ps[Len(plugins) + 1] = l
    BY <1>1, <1>3, AppendProperties
  <2>3. /\ Len(plugins) \in Nat /\ DOMAIN plugins = 1..Len(plugins)
        /\ DOMAIN ps = 1..Len(plugins) + 1
    BY <1>3, <2>2, LenProperties
  <2>4. add \in Seq(CallsType)
    <3>1. <<l>> \in Seq(Libs) /\ {"install", "initialise"} \subseteq Methods
      BY <1>1 DEF Methods
    <3> QED BY <3>1, CallsOfTwo
  <2> HIDE DEF ps
  <2>5. \A k \in 1..Len(ps) : k \in 1..Len(plugins) \/ k = Len(plugins) + 1
    BY <2>2, <2>3
  <2>6. \A k \in 1..Len(plugins) : k \in 1..Len(ps) /\ plugins[k] # l
    BY <2>1, <2>2, <2>3 DEF ToSet
  <2>7. Distinct(ps)
    BY <1>3, <2>2, <2>5, <2>6 DEF Distinct
  <2>8. ToSet(ps) = ToSet(plugins) \union {l}
    <3>1. Len(plugins) + 1 \in 1..Len(plugins) + 1
      BY <2>3
    <3> QED BY <2>2, <2>3, <2>5, <2>6, <3>1 DEF ToSet
  <2>9. calls' = History(ps, FALSE, FALSE, FALSE)
    BY <1>1, <1>3, <2>1, HistoryGrows DEF ps
  <2>10. calls' \in Seq(CallsType)
    BY <1>3, <2>1, <2>4, CallsStayTyped
  <2> HIDE DEF add
  <2>11. Unwinding'
    BY <1>1, <1>2, <1>3, <1>5, <2>1, <2>7, <2>8, <2>9 DEF Unwinding, Over
  <2>12. PluginsTypeOK'
    <3>1. mapped' \subseteq Libs
      BY <1>1, <2>1 DEF OtherTypeOK, PluginsTypeOK
    <3>2. calls' \in Seq([of : Libs, what : Methods])
      BY <2>10 DEF CallsType
    <3> QED BY <1>3, <2>1, <2>2, <3>1, <3>2 DEF PluginsTypeOK
  <2>13. delegates' \subseteq Targets
    BY <1>1, <1>5 DEF OtherTypeOK, Targets
  <2> QED BY <1>1, <1>5, <2>11, <2>12, <2>13 DEF OtherTypeOK, Threads
<1>6. CASE /\ LoadThrows(l) /\ main' = "failed" /\ conn' = "deleted" /\ UNCHANGED delegates
  <2>1. /\ UNCHANGED <<init, plugins, calls>>
        /\ mapped' \subseteq Libs /\ libs' \in Seq(Libs)
    <3>1. Append(libs, l) \in Seq(Libs)
      BY <1>1, <1>3, AppendProperties
    <3> QED BY <1>1, <1>3, <1>6, <3>1 DEF LoadThrows, OtherTypeOK, PluginsTypeOK
  <2>2. calls' = History(plugins, Ran', HasQuit', main' = "end")
    BY <1>2, <1>3, <1>6, <2>1
  <2>3. Unwinding'
    BY <1>3, <1>6, <2>2 DEF Unwinding, Over
  <2>4. OtherTypeOK'
    BY <1>1, <1>6, <2>1 DEF OtherTypeOK, PluginsTypeOK
  <2> QED BY <1>1, <1>6, <2>3, <2>4 DEF Threads
<1> QED BY <1>4, <1>5, <1>6 DEF LoadNext, Loaded, l

\* The main thread goes on, or the user and the server act.
LEMMA MainUnwinds ==
  ASSUME IInv, Spawn \/ Interrupt \/ StopIo \/ Join \/ DropConnection \/ Hangup
  PROVE  OtherTypeOK' /\ Threads' /\ Unwinding'
<1> USE DEF IInv
<1>1. /\ UNCHANGED <<pluginVars, alive, interactive, delegates, delegate, target, helped>>
      /\ signal' \in BOOLEAN /\ ioRuns' \in BOOLEAN /\ file' = file
      /\ conn' \in {conn, "deleted"} /\ server' \in {server, "closed"}
  BY DEF Spawn, Interrupt, StopIo, Join, DropConnection, Hangup, OtherTypeOK,
         mainVars, feedVars, ioVars, serverVars
<1>2. \/ main = "load" /\ main' = "wait" /\ io' = "idle" /\ feeder' = "run"
      \/ main' = main /\ UNCHANGED <<io, feeder>>
      \/ main = "wait" /\ main' = "join" /\ UNCHANGED <<io, feeder>>
      \/ main = "join" /\ main' = "destroy" /\ feeder = "ended" /\ UNCHANGED <<io, feeder>>
      \/ main = "destroy" /\ main' = "unload" /\ UNCHANGED <<io, feeder>>
  BY DEF Spawn, Interrupt, StopIo, Join, DropConnection, Hangup, mainVars, feedVars, ioVars
<1>3. OtherTypeOK'
  BY <1>1, <1>2 DEF OtherTypeOK, PluginsTypeOK, pluginVars
<1>4. Threads'
  BY <1>1, <1>2 DEF Threads
<1>5. Ran' = Ran /\ HasQuit' = HasQuit
  BY <1>1, <1>2 DEF Threads, Ran, HasQuit
<1>6. main' = main \/ (main # "connect" /\ ~ Over /\ ~ Over')
  BY <1>2 DEF Over
<1> QED BY <1>1, <1>3, <1>4, <1>5, <1>6, UnwindingStays

\* What is loaded is unloaded, last to first.
LEMMA UnloadAllUnwinds ==
  ASSUME IInv, UnloadAll
  PROVE  OtherTypeOK' /\ Threads' /\ Unwinding'
<1> USE DEF IInv
<1>1. /\ main = "unload" /\ main' = "end" /\ init' = FALSE /\ delegates' = {}
      /\ libs' = <<>> /\ plugins' = <<>> /\ mapped' = mapped \ ToSet(libs)
      /\ calls' = calls \o Calls(Reverse(libs),
                    IF init THEN <<"shutdown", "uninstall">> ELSE <<"uninstall">>)
      /\ UNCHANGED <<alive, interactive, file, signal, feeder, delegate, target, ioRuns, io,
                     helped, conn, server>>
  BY DEF UnloadAll, UnloadPlugins, feedVars, ioVars, serverVars
<1>2. feeder = "ended" /\ Ran = TRUE /\ Ran' = TRUE /\ HasQuit' = HasQuit /\ HasQuit \in BOOLEAN
  BY <1>1 DEF Threads, Ran, HasQuit, OtherTypeOK
<1>3. /\ plugins \in Seq(Libs) /\ libs = plugins /\ mapped = ToSet(plugins) /\ Distinct(plugins)
      /\ calls = History(plugins, TRUE, HasQuit, FALSE) /\ init = TRUE
      /\ calls \in Seq(CallsType)
  BY <1>1, <1>2, PluginTypes DEF Unwinding, Over, OtherTypeOK, PluginsTypeOK
<1> DEFINE add == Calls(Reverse(plugins), <<"shutdown", "uninstall">>)
<1>4. calls' = calls \o add
  BY <1>1, <1>3
<1>5. add \in Seq(CallsType)
  <2>1. Reverse(plugins) \in Seq(Libs) /\ {"shutdown", "uninstall"} \subseteq Methods
    BY <1>3, Reversed DEF Methods
  <2> QED BY <2>1, CallsOfTwo
<1>6. calls' = History(plugins, TRUE, HasQuit, TRUE)
  BY <1>2, <1>3, <1>4, HistoryGrows
<1>7. calls' \in Seq(CallsType)
  BY <1>3, <1>4, <1>5, CallsStayTyped
<1> HIDE DEF add
<1>8. PluginsTypeOK'
  BY <1>1, <1>3, <1>7, EmptySeq DEF PluginsTypeOK, CallsType
<1>9. OtherTypeOK'
  BY <1>1, <1>8 DEF OtherTypeOK
<1>10. calls' = History(plugins, Ran', HasQuit', main' = "end")
  BY <1>1, <1>2, <1>6
<1>11. Unwinding'
  BY <1>1, <1>3, <1>10 DEF Unwinding, Over
<1> QED BY <1>1, <1>2, <1>9, <1>11 DEF Threads

LEMMA RunUnwinds ==
  ASSUME IInv, Run
  PROVE  OtherTypeOK' /\ Threads' /\ Unwinding'
<1> USE DEF IInv
<1>1. /\ feeder = "run" /\ feeder' = IF interactive THEN "help" ELSE "bind"
      /\ calls' = calls \o Calls(plugins, <<"initialise">>)
      /\ target' = IF target \in delegates THEN target ELSE Generic
      /\ UNCHANGED <<init, mapped, libs, plugins, alive, interactive, main, file, delegates,
                     signal, delegate, ioRuns, io, helped, conn, server>>
  BY DEF Run, InitialisePlugins, mainVars, ioVars, serverVars
<1>2. /\ ~ Over /\ Ran = FALSE /\ HasQuit = FALSE /\ Ran' = TRUE /\ HasQuit' = FALSE /\ ~ Over'
  BY <1>1 DEF Threads, Ran, HasQuit, Over
<1>3. /\ plugins \in Seq(Libs) /\ calls = History(plugins, FALSE, FALSE, FALSE)
      /\ calls \in Seq(CallsType)
  BY <1>2, PluginTypes DEF Unwinding, OtherTypeOK, PluginsTypeOK
<1>4. calls' = History(plugins, TRUE, FALSE, FALSE)
  BY <1>1, <1>3, HistoryGrows
<1>5. calls' \in Seq(CallsType)
  <2>1. Calls(plugins, <<"initialise">>) \in Seq(CallsType)
    BY <1>3, CallsOfOne DEF Methods
  <2> QED BY <1>1, <1>3, <2>1, CallsStayTyped
<1>6. PluginsTypeOK'
  BY <1>1, <1>5 DEF PluginsTypeOK, CallsType, OtherTypeOK
<1>7. OtherTypeOK'
  BY <1>1, <1>6 DEF OtherTypeOK, Targets
<1>8. Unwinding'
  BY <1>1, <1>2, <1>4 DEF Unwinding, Over
<1> QED BY <1>1, <1>7, <1>8 DEF Threads

\* The thread in run binds and asks.
LEMMA BindUnwinds ==
  ASSUME IInv, EvalCommand \/ AskHelp \/ BindDelegate \/ BindRefresh \/ Feed
  PROVE  OtherTypeOK' /\ Threads' /\ Unwinding'
<1> USE DEF IInv
<1>1. /\ UNCHANGED <<pluginVars, interactive, main, file, delegates, signal, target, ioRuns, io,
                     helped, conn, server>>
      /\ alive' \in BOOLEAN /\ delegate' \in {delegate, target}
  BY DEF EvalCommand, AskHelp, BindDelegate, BindRefresh, Feed, Bind, mainVars, ioVars, serverVars,
         OtherTypeOK
<1>2. \/ feeder = "bind" /\ ~ interactive /\ feeder' = "ended"
      \/ feeder = "help" /\ feeder' = "bind"
      \/ feeder = "bind" /\ interactive /\ feeder' = "bound"
      \/ feeder = "bound" /\ feeder' = "prompt"
      \/ feeder = "prompt" /\ feeder' = "prompt"
  BY DEF EvalCommand, AskHelp, BindDelegate, BindRefresh, Feed
<1>3. OtherTypeOK'
  BY <1>1 DEF OtherTypeOK, PluginsTypeOK, pluginVars
<1>4. Threads'
  BY <1>1, <1>2 DEF Threads
<1>5. Ran' = Ran /\ HasQuit' = HasQuit
  BY <1>1, <1>2 DEF Ran, HasQuit
<1> QED BY <1>1, <1>3, <1>4, <1>5, UnwindingStays

LEMMA QuitUnwinds ==
  ASSUME IInv, Quit
  PROVE  OtherTypeOK' /\ Threads' /\ Unwinding'
<1> USE DEF IInv
<1>1. /\ feeder = "prompt" /\ feeder' = "ended" /\ signal' = TRUE
      /\ calls' = calls \o Calls(Reverse(plugins), <<"shutdown">>)
      /\ UNCHANGED <<init, mapped, libs, plugins, alive, interactive, main, file, delegates,
                     delegate, target, ioRuns, io, helped, conn, server>>
  BY DEF Quit, ShutdownPlugins, ioVars, serverVars
<1>2. /\ ~ Over /\ Ran = TRUE /\ HasQuit = FALSE /\ Ran' = TRUE /\ HasQuit' = TRUE /\ ~ Over'
  BY <1>1 DEF Threads, Ran, HasQuit, Over, OtherTypeOK
<1>3. /\ plugins \in Seq(Libs) /\ calls = History(plugins, TRUE, FALSE, FALSE)
      /\ calls \in Seq(CallsType)
  BY <1>2, PluginTypes DEF Unwinding, OtherTypeOK, PluginsTypeOK
<1>4. calls' = History(plugins, TRUE, TRUE, FALSE)
  BY <1>1, <1>3, HistoryGrows
<1>5. calls' \in Seq(CallsType)
  <2>1. Reverse(plugins) \in Seq(Libs) /\ "shutdown" \in Methods
    BY <1>3, Reversed DEF Methods
  <2>2. Calls(Reverse(plugins), <<"shutdown">>) \in Seq(CallsType)
    BY <2>1, CallsOfOne
  <2> QED BY <1>1, <1>3, <2>2, CallsStayTyped
<1>6. PluginsTypeOK'
  BY <1>1, <1>5 DEF PluginsTypeOK, CallsType, OtherTypeOK
<1>7. OtherTypeOK'
  BY <1>1, <1>6 DEF OtherTypeOK
<1>8. Unwinding'
  BY <1>1, <1>2, <1>4 DEF Unwinding, Over
<1> QED BY <1>1, <1>7, <1>8 DEF Threads

LEMMA IoUnwinds ==
  ASSUME IInv,
         \/ Send \/ Read \/ ReadError \/ Dispatch \/ HandleHelp \/ FindUnassigned \/ HandleNext
         \/ Dispatched \/ UseFreed \/ IoEnds \/ Serve
  PROVE  OtherTypeOK' /\ Threads' /\ Unwinding'
<1> USE DEF IInv
<1>1. /\ UNCHANGED <<pluginVars, interactive, main, file, delegates, feeder, delegate, target,
                     ioRuns, server>>
      /\ alive' \in BOOLEAN /\ helped' \in BOOLEAN /\ signal' \in BOOLEAN
      /\ conn' \in {conn, "stopped"}
      /\ io = "none" => io' = "none"
  BY DEF Send, Read, ReadError, Dispatch, HandleHelp, FindUnassigned, HandleNext, Dispatched,
         UseFreed, IoEnds, Serve, Idle, mainVars, feedVars, ioVars, serverVars, OtherTypeOK
<1>2. OtherTypeOK'
  BY <1>1 DEF OtherTypeOK, PluginsTypeOK, pluginVars
<1>3. Threads'
  BY <1>1 DEF Threads
<1>4. Ran' = Ran /\ HasQuit' = HasQuit
  BY <1>1 DEF Ran, HasQuit
<1> QED BY <1>1, <1>2, <1>3, <1>4, UnwindingStays

-----------------------------------------------------------------------------
LEMMA InitIInv == Init => IInv
<1> SUFFICES ASSUME Init PROVE IInv
  OBVIOUS
<1>1. LineTypeOK
  <2>1. DOMAIN handlers = Uids /\ handlers["help"] = <<>> /\ handlers["Unassigned"] = <<>>
    BY DEF Init, Uids
  <2>2. <<>> \in Seq({"help"}) /\ <<>> \in Seq(Callbacks)
        /\ <<>> \in Seq({"help", "eval", "respond", "refresh"})
    BY EmptySeq
  <2>3. 0 \in 0..MaxFeeds /\ Help \in Messages
    BY ShellAssumption DEF Messages
  <2> QED BY <2>1, <2>2, <2>3 DEF Init, LineTypeOK
<1>2. LineInv
  <2>1. Line
    BY EmptySet, EmptySeq DEF Init, Line, LineOf, Rising, Below
  <2>2. Asked /\ Current /\ NothingYet
    BY EmptySet DEF Init, Asked, Coming, Current, Dispatches, NothingYet
  <2>3. handlers["Unassigned"] = <<>>
    BY DEF Init, Uids
  <2>4. BoundOnce
    BY <2>3, EmptySet DEF Init, BoundOnce, Once
  <2> QED BY <2>1, <2>2, <2>4 DEF LineInv
<1>3. OtherTypeOK
  <2>1. file \in Seq(Libs)
    <3>1. PICK n \in 0..MaxFile : file \in [1..n -> Libs]
      BY DEF Init
    <3>2. n \in Nat
      BY <3>1, ShellAssumption
    <3> QED BY <3>1, <3>2, SeqDef
  <2>2. PluginsTypeOK
    BY EmptySeq DEF Init, PluginsInit, PluginsTypeOK
  <2> QED BY <2>1, <2>2 DEF Init, OtherTypeOK, Targets
<1>4. Threads
  BY DEF Init, Threads
<1>5. Unwinding
  <2>1. Ran = FALSE /\ HasQuit = FALSE /\ ~ Over
    BY DEF Init, Ran, HasQuit, Over
  <2>2. Distinct(<<>>)
    BY DEF Distinct
  <2>3. History(<<>>, FALSE, FALSE, FALSE) = <<>>
    BY EmptySeq, HistoryGrows
  <2> QED BY <2>1, <2>2, <2>3, EmptySet DEF Init, PluginsInit, Unwinding, Over
<1> QED BY <1>1, <1>2, <1>3, <1>4, <1>5 DEF IInv

LEMMA IInvStep == IInv /\ [Next]_vars => IInv'
<1> SUFFICES ASSUME IInv, [Next]_vars PROVE IInv'
  OBVIOUS
<1> USE DEF IInv
<1>1. CASE Connect \/ LoadNext \/ UnloadAll
  <2>1. UNCHANGED lineVars
    BY <1>1 DEF Connect, LoadNext, UnloadAll, lineVars, feedVars, ioVars, serverVars
  <2> QED BY <1>1, <2>1, LineStays, ConnectUnwinds, LoadNextUnwinds, UnloadAllUnwinds
<1>2. CASE Interrupt \/ StopIo \/ Join \/ DropConnection \/ Hangup
  <2>1. UNCHANGED lineVars
    BY <1>2 DEF Interrupt, StopIo, Join, DropConnection, Hangup, lineVars, feedVars, ioVars,
                serverVars
  <2> QED BY <1>2, <2>1, LineStays, MainUnwinds
<1>3. CASE Spawn
  <2>1. main = "load" => feeder = "none" /\ io = "none"
    BY DEF Threads
  <2> QED BY <1>3, <2>1, SpawnLine, MainUnwinds
<1>4. CASE Run
  BY <1>4, RunLine, RunUnwinds
<1>5. CASE Quit
  BY <1>5, RunLine, QuitUnwinds
<1>6. CASE EvalCommand \/ AskHelp \/ BindDelegate \/ BindRefresh \/ Feed
  BY <1>6, EvalCommandLine, AskHelpLine, BindDelegateLine, PlainFeedLine, BindUnwinds
<1>7. CASE ReadError
  <2>1. UNCHANGED lineVars
    BY <1>7 DEF ReadError, lineVars, feedVars, ioVars, serverVars
  <2> QED BY <1>7, <2>1, LineStays, IoUnwinds
<1>8. CASE \/ Send \/ Read \/ Dispatch \/ HandleHelp \/ FindUnassigned \/ HandleNext
           \/ Dispatched \/ UseFreed \/ IoEnds \/ Serve
  BY <1>8, SendLine, ReadLine, DispatchLine, HandleHelpLine, FindUnassignedLine, HandleNextLine,
     DispatchedLine, ServeLine, IoUnwinds
<1>9. CASE UNCHANGED vars
  <2>1. UNCHANGED lineVars /\ UNCHANGED pluginVars /\ Ran' = Ran /\ HasQuit' = HasQuit
    BY <1>9 DEF vars, lineVars, feedVars, ioVars, serverVars, Ran, HasQuit
  <2>2. OtherTypeOK' /\ Threads'
    BY <1>9 DEF vars, mainVars, pluginVars, feedVars, ioVars, serverVars, OtherTypeOK,
                PluginsTypeOK, Threads
  <2>3. main' = main
    BY <1>9 DEF vars, mainVars
  <2> QED BY <2>1, <2>2, <2>3, LineStays, UnwindingStays
<1> QED BY <1>1, <1>2, <1>3, <1>4, <1>5, <1>6, <1>7, <1>8, <1>9
        DEF Next, MainStep, FeederStep, IoStep

\* The inductive invariant of the shell holds in every state.
THEOREM Invariance == Spec => []IInv
BY InitIInv, IInvStep, PTL DEF Spec

\* For any number of commands and whatever the threads do between two steps of a
\* dispatch: the answers a delegate is given are of messages that were fed, each of
\* them once and in their order (algolsh.cpp, dispatcher.cpp).
THEOREM AnswersComeInOrder == Spec => []ShownInOrder
<1>1. IInv => ShownInOrder
  <2> SUFFICES ASSUME IInv, NEW i \in DOMAIN shown
               PROVE  shown[i] =< asked /\ \A j \in 1..(i - 1) : shown[j] < shown[i]
    BY DEF ShownInOrder
  <2>1. shown \in Seq(Messages) /\ Rising(shown)
    BY DEF IInv, LineInv, Line, LineOf
  <2>2. DOMAIN shown = 1..Len(shown) /\ Len(shown) \in Nat
    BY <2>1, LenProperties
  <2>3. shown[i] =< asked
    BY DEF IInv, LineInv, Asked, ToSet
  <2>4. ASSUME NEW j \in 1..(i - 1) PROVE shown[j] < shown[i]
    <3>1. j \in 1..Len(shown) /\ j < i /\ i \in 1..Len(shown)
      BY <2>2
    <3> QED BY <2>1, <3>1 DEF Rising
  <2> QED BY <2>3, <2>4
<1> QED BY <1>1, Invariance, PTL

\* For any plugins: they are shut down and uninstalled in the reverse of the order in
\* which they were loaded, after they were installed and initialised, and when the
\* shell has ended in order none is left (plugin_manager.cpp, algolsh.cpp).
THEOREM PluginsAreAlwaysUnwound == Spec => []PluginsAreUnwound
<1>1. IInv => TypeOK
  BY DEF IInv, LineTypeOK, Callbacks, LineInv, Line, LineOf, OtherTypeOK, TypeOK
<1>2. ASSUME IInv
      PROVE  \E ps \in Seq(Libs) :
               /\ Distinct(ps)
               /\ \E b, c, d \in Nat : /\ Told(calls, ps, b, c, d)
                                       /\ main = "end" => d = c + 2 * Len(ps)
  <2>1. /\ Ran \in BOOLEAN /\ HasQuit \in BOOLEAN /\ (main = "end") \in BOOLEAN
        /\ (~ Over => ~ (main = "end"))
    BY <1>2 DEF IInv, OtherTypeOK, Ran, HasQuit, Over
  <2>2. PICK ps \in Seq(Libs) : Distinct(ps) /\ calls = History(ps, Ran, HasQuit, main = "end")
    <3>1. CASE Over
      BY <1>2, <3>1 DEF IInv, Unwinding
    <3>2. CASE ~ Over
      <4>1. plugins \in Seq(Libs) /\ Distinct(plugins)
            /\ calls = History(plugins, Ran, HasQuit, FALSE)
        BY <1>2, <3>2 DEF IInv, Unwinding, OtherTypeOK, PluginsTypeOK
      <4>2. (main = "end") = FALSE
        BY <3>2 DEF Over
      <4>3. calls = History(plugins, Ran, HasQuit, main = "end")
        BY <4>1, <4>2
      <4> QED BY <4>1, <4>3
    <3> QED BY <3>1, <3>2
  <2>3. PICK again \in BOOLEAN, down \in BOOLEAN, over \in BOOLEAN :
          calls = History(ps, again, down, over) /\ (main = "end" => over)
    BY <2>1, <2>2, Zenon
  <2>4. IsTold(calls, ps, over)
    BY <2>3, HistoryIsTold
  <2>5. \E b, c, d \in Nat : Told(calls, ps, b, c, d) /\ (main = "end" => d = c + 2 * Len(ps))
    <3>1. PICK b \in Nat, c \in Nat, d \in Nat :
            Told(calls, ps, b, c, d) /\ (over => d = c + 2 * Len(ps))
      BY <2>4 DEF IsTold
    <3> QED BY <2>3, <3>1
  <2> QED BY <2>2, <2>5
<1>3. IInv => UnwoundInReverse
  BY <1>2, ToldIsUnwound
<1>4. IInv => NothingIsLeft
  <2> SUFFICES ASSUME IInv, main = "end"
               PROVE  /\ mapped = {} /\ libs = <<>> /\ plugins = <<>>
                      /\ \A p \in Libs : At(p, "install") # {} => At(p, "uninstall") # {}
    BY <1>1 DEF NothingIsLeft
  <2>1. mapped = {} /\ libs = <<>> /\ plugins = <<>>
    BY DEF IInv, Unwinding
  <2>2. PICK ps \in Seq(Libs), b \in Nat, c \in Nat, d \in Nat :
          Told(calls, ps, b, c, d) /\ d = c + 2 * Len(ps)
    BY <1>2
  <2> QED BY <2>1, <2>2, ToldIsOver
<1>5. IInv => PluginsAreUnwound
  BY <1>3, <1>4 DEF PluginsAreUnwound
<1> QED BY <1>5, Invariance, PTL
=============================================================================
