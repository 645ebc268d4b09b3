------------------------------ MODULE Configurator ------------------------------
(***************************************************************************)
(* The configurator (src/src/configurator.cpp) and the configurables that  *)
(* subscribe to it (src/src/configurable.cpp).  A sheet is read by a       *)
(* parser, whose handlers call the subscribers of the current context; a   *)
(* sheet that includes another one starts a parser inside a handler of its *)
(* own, so that the parsers form a stack.                                  *)
(*                                                                         *)
(* A sheet is any well-formed JSON map, or a prefix of one (run never asks *)
(* yajl to complete the parse), token by token: what is not well-formed is *)
(* refused by validate before a handler is called.                         *)
(***************************************************************************)
EXTENDS Integers, Sequences, FiniteSets, SequencesExt

CONSTANTS
  Objects,     \* the configurables
  Contexts,    \* the contexts one may subscribe to
  Unknown,     \* a key that is never one
  MaxListed,   \* bounds the entries of all the subscriber lists together
  MaxOpen,     \* bounds the maps and arrays open in all the sheets, and the sheets
  MaxParsers,  \* bounds the sheets that include one another
  MaxFiles     \* bounds the files that an include finds

VARIABLES
  subs,      \* subs_: the subscribers of each context that ever had one
  life,      \* of each object: "none", "alive" or "dead"
  contexts,  \* cfg_contexts_ of each object
  strayed,   \* the objects whose subscriptions their destructor cannot undo
  parsers,   \* the configurators that run, the innermost last
  calls      \* the calls to configurables that the last token led to

objectVars == <<subs, life, contexts, strayed>>
vars == <<objectVars, parsers, calls>>

None     == "none"
NoKey    == ""
Reserved == {"include"}   \* or "include all"

ASSUME ConfiguratorAssumption ==
  /\ ({Unknown, None, NoKey} \union Reserved) \intersect Contexts = {}
  /\ {MaxListed, MaxOpen, MaxFiles} \subseteq Nat
  /\ MaxParsers \in Nat \ {0}

Keys     == Contexts \union {Unknown} \union Reserved
Listing  == UNION {[1..n -> Contexts] : n \in 0..MaxListed}

\* The maps and arrays of the sheet that are open.  A map wants a key or the
\* value of its last key; an array wants values, and "rest" says that a map
\* or an array was the last one.
MapFrame   == [kind |-> "map", key |-> NoKey, want |-> "key"]
ArrayFrame == [kind |-> "array", key |-> NoKey, want |-> "value"]
Frames ==
  [kind : {"map"}, key : Keys \union {NoKey}, want : {"key", "value"}]
    \union [kind : {"array"}, key : {NoKey}, want : {"value", "rest"}]

Fresh == [depth |-> 0, key |-> NoKey, subs |-> None, files |-> 0,
          open |-> <<>>, done |-> FALSE, tidy |-> TRUE]

TypeOK ==
  /\ DOMAIN subs \subseteq Contexts
  /\ \A c \in DOMAIN subs : subs[c] \in Seq(Objects)
  /\ life \in [Objects -> {"none", "alive", "dead"}]
  /\ contexts \in [Objects -> Listing]
  /\ strayed \subseteq Objects
  /\ Len(parsers) <= MaxParsers
  /\ \A i \in 1..Len(parsers) :
       LET p == parsers[i]
       IN  /\ p.depth \in Nat
           /\ p.key \in Keys \union {NoKey}
           /\ p.subs \in DOMAIN subs \union {None}
           /\ p.files \in 0..MaxFiles
           /\ p.open \in Seq(Frames)
           /\ {p.done, p.tidy} \subseteq BOOLEAN
  /\ \A i \in 1..Len(calls) : calls[i].to \in Objects

Init ==
  /\ subs = <<>>
  /\ life = [o \in Objects |-> "none"]
  /\ contexts = [o \in Objects |-> <<>>]
  /\ strayed = {}
  /\ parsers = <<>>
  /\ calls = <<>>

-----------------------------------------------------------------------------
(***************************************************************************)
(* Configurables come and go while no sheet is read.                       *)
(***************************************************************************)
Idle == parsers = <<>> /\ UNCHANGED parsers /\ calls' = <<>>

SumOver(f, S) == FoldFunctionOnSet(LAMBDA x, y : x + y, 0, f, S)

Free == MaxListed - SumOver([c \in DOMAIN subs |-> Len(subs[c])], DOMAIN subs)

\* o subscribes to each of the contexts cs, in turn
Subscribed(table, o, cs) ==
  [c \in DOMAIN table \union Range(cs) |->
     (IF c \in DOMAIN table THEN table[c] ELSE <<>>)
       \o [i \in 1..Cardinality({j \in DOMAIN cs : cs[j] = c}) |-> o]]

\* std::list::remove
Without(list, o) ==
  LET kept[n \in 0..Len(list)] ==
        IF n = 0 THEN <<>>
        ELSE IF list[n] = o THEN kept[n - 1] ELSE Append(kept[n - 1], list[n])
  IN  kept[Len(list)]

Unsubscribed(table, o, cs) ==
  [c \in DOMAIN table |-> IF c \in Range(cs) THEN Without(table[c], o) ELSE table[c]]

\* configurable(contexts), and a destructor that undoes it
Construct(o) ==
  /\ Idle /\ life[o] = "none"
  /\ \E cs \in Listing :
       /\ Len(cs) <= Free
       /\ subs' = Subscribed(subs, o, cs)
       /\ contexts' = [contexts EXCEPT ![o] = cs]
  /\ life' = [life EXCEPT ![o] = "alive"]
  /\ UNCHANGED strayed

\* Mutant of Destroy: cfg_contexts_ is cleared before the loop.
Destroy_ClearsFirst(o) ==
  /\ Idle /\ life[o] = "alive"
  /\ contexts' = [contexts EXCEPT ![o] = <<>>]
  /\ life' = [life EXCEPT ![o] = "dead"]
  /\ UNCHANGED <<subs, strayed>>

Destroy(o) ==
  /\ Idle /\ life[o] = "alive"
  /\ subs' = Unsubscribed(subs, o, contexts[o])
  /\ contexts' = [contexts EXCEPT ![o] = <<>>]
  /\ life' = [life EXCEPT ![o] = "dead"]
  /\ UNCHANGED strayed

\* configurator::subscribe called directly, as algol_init does for the log
\* manager: the object does not know of it
SubscribeDirectly(o, c) ==
  /\ Idle /\ life[o] = "alive"
  /\ Free > 0
  /\ subs' = Subscribed(subs, o, <<c>>)
  /\ strayed' = strayed \union {o}
  /\ UNCHANGED <<life, contexts>>

\* copy: the contexts are copied, and nothing is subscribed or unsubscribed
CopyFrom(o, src) ==
  /\ contexts' = [contexts EXCEPT ![o] = contexts[src]]
  /\ UNCHANGED subs

CopyConstruct(o, src) ==
  /\ Idle /\ life[o] = "none" /\ life[src] = "alive"
  /\ CopyFrom(o, src)
  /\ life' = [life EXCEPT ![o] = "alive"]
  /\ UNCHANGED strayed

Assign(o, src) ==
  /\ Idle /\ o # src /\ life[o] = "alive" /\ life[src] = "alive"
  /\ CopyFrom(o, src)
  /\ strayed' = strayed \union {o}
  /\ UNCHANGED life

-----------------------------------------------------------------------------
(***************************************************************************)
(* A parser takes a token.  The next three operators are the sheet's own   *)
(* structure; the handlers do not see it.                                  *)
(***************************************************************************)
KeyTaken(open, k) ==
  [open EXCEPT ![Len(open)] = [kind |-> "map", key |-> k, want |-> "value"]]

ValueTaken(open) ==
  IF Last(open).kind = "map" THEN Append(Front(open), MapFrame) ELSE open

Closed(open) ==
  IF Len(open) = 1 THEN <<>>
  ELSE IF open[Len(open) - 1].kind = "map" THEN ValueTaken(Front(open))
  ELSE [Front(open) EXCEPT ![Len(open) - 1].want = "rest"]

MayOpen ==
  SumOver([i \in 1..Len(parsers) |-> Len(parsers[i].open)], 1..Len(parsers))
    + Len(parsers) < MaxOpen

Top        == Last(parsers)
Inner      == Last(Top.open)
Reads      == parsers # <<>> /\ ~Top.done /\ Top.files = 0
WantsValue == Reads /\ Top.open # <<>> /\ Inner.want # "key"
WantsKey   == Reads /\ Top.open # <<>> /\ Inner.want = "key"

\* the key of the sheet's top-level map whose value is being read
Known(c) == c \in DOMAIN subs

\* A map or an array ended in an array that is still open: the handlers have
\* cleared the key.
KeyIsLost(open) ==
  \E i \in 1..Len(open) :
    open[i].want = "rest" /\ \A j \in i..Len(open) : open[j].kind = "array"

\* The value at the top of the sheet, of a context somebody subscribes to,
\* is not a map.
PlainContext == Len(Top.open) = 1 /\ Known(Inner.key)

Listeners(name) == IF name = None THEN <<>> ELSE subs[name]

Told(call, key, name) ==
  LET to == Listeners(name)
  IN  [i \in 1..Len(to) |-> [call |-> call, key |-> key, to |-> to[i]]]

Take(p) ==
  /\ parsers' = [parsers EXCEPT ![Len(parsers)] = p]
  /\ UNCHANGED objectVars

MapStart ==
  /\ WantsValue \/ (Reads /\ Top.open = <<>>)
  /\ MayOpen
  /\ Take([Top EXCEPT !.depth = @ + 1, !.open = Append(@, MapFrame)])
  /\ calls' = Told("on_map_start", NoKey, Top.subs)

MapKey(k) ==
  /\ WantsKey
  /\ LET named == k \notin Reserved /\ Top.subs = None /\ Known(k)
         name  == IF named THEN k ELSE Top.subs
     IN  /\ Take([Top EXCEPT !.key = k, !.subs = name, !.open = KeyTaken(@, k),
                             !.tidy = @ /\ (named => Len(Top.open) = 1)])
         /\ calls' = IF k \in Reserved THEN <<>> ELSE Told("on_map_key", k, name)

AfterString ==
  [Top EXCEPT !.open = ValueTaken(@),
              !.tidy = @ /\ ~PlainContext /\ ~KeyIsLost(Top.open)]

\* A string, as it is or as the content of the file it names by %include%.
Option ==
  /\ WantsValue /\ Top.key \notin Reserved
  /\ Take(AfterString)
  /\ calls' = Told("set_option", Top.key, Top.subs)

\* %include% of a file that cannot be read
OptionIsMissing ==
  /\ WantsValue /\ Top.key \notin Reserved
  /\ Take(AfterString)
  /\ calls' = <<>>

\* include and include all, which differ in the number of files that are found
\* and can be read.  The sheets are read one after the other before the handler
\* returns.
Include(n) ==
  /\ WantsValue /\ Top.key \in Reserved
  /\ Len(parsers) < MaxParsers
  /\ Take([AfterString EXCEPT !.files = n])
  /\ calls' = <<>>

ParseString ==
  /\ parsers # <<>> /\ Top.files > 0
  /\ parsers' = Append([parsers EXCEPT ![Len(parsers)].files = @ - 1], Fresh)
  /\ calls' = <<>>
  /\ UNCHANGED objectVars

\* a number, a boolean or null, which no handler is called for
Scalar ==
  /\ WantsValue
  /\ Take([Top EXCEPT !.open = ValueTaken(@), !.tidy = @ /\ ~PlainContext])
  /\ calls' = <<>>

\* Mutants of MapEnd: the subscribers are kept; every map that ends makes them
\* configure themselves.
MapEnd_KeepsSubscribers ==
  /\ WantsKey
  /\ Take([Top EXCEPT !.depth = @ - 1, !.key = NoKey,
                      !.open = Closed(@), !.done = Len(Top.open) = 1])
  /\ calls' = Told("on_map_end", NoKey, Top.subs)
                \o (IF Top.depth = 2 THEN Told("configure", NoKey, Top.subs) ELSE <<>>)

MapEnd_ConfiguresOften ==
  /\ WantsKey
  /\ LET ends == Top.depth = 2 /\ Top.subs # None
     IN  /\ Take([Top EXCEPT !.depth = @ - 1, !.key = NoKey,
                             !.subs = IF ends THEN None ELSE @,
                             !.open = Closed(@), !.done = Len(Top.open) = 1])
         /\ calls' = Told("on_map_end", NoKey, Top.subs)
                       \o Told("configure", NoKey, Top.subs)

MapEnd ==
  /\ WantsKey
  /\ LET ends == Top.depth = 2 /\ Top.subs # None
     IN  /\ Take([Top EXCEPT !.depth = @ - 1, !.key = NoKey,
                                  !.subs = IF ends THEN None ELSE @,
                                  !.open = Closed(@), !.done = Len(Top.open) = 1])
         /\ calls' = Told("on_map_end", NoKey, Top.subs)
                       \o (IF ends THEN Told("configure", NoKey, Top.subs) ELSE <<>>)

ArrayStart ==
  /\ WantsValue /\ MayOpen
  /\ Take([Top EXCEPT !.open = Append(@, ArrayFrame), !.tidy = @ /\ ~PlainContext])
  /\ calls' = Told("on_array_start", NoKey, Top.subs)

ArrayEnd ==
  /\ Reads /\ Top.open # <<>> /\ Inner.kind = "array"
  /\ Take([Top EXCEPT !.key = NoKey, !.open = Closed(@)])
  /\ calls' = Told("on_array_end", NoKey, Top.subs)

-----------------------------------------------------------------------------
Run ==
  /\ parsers = <<>>
  /\ parsers' = <<Fresh>>
  /\ calls' = <<>>
  /\ UNCHANGED objectVars

\* The data ends, whether or not the sheet does.
Return ==
  /\ parsers # <<>> /\ Top.files = 0
  /\ parsers' = Front(parsers)
  /\ calls' = <<>>
  /\ UNCHANGED objectVars

Configure ==
  \/ MapStart \/ Option \/ OptionIsMissing \/ ParseString \/ Scalar \/ MapEnd
  \/ ArrayStart \/ ArrayEnd \/ Run \/ Return
  \/ \E k \in Keys : MapKey(k)
  \/ \E n \in 0..MaxFiles : Include(n)

Next ==
  \/ Configure
  \/ \E o \in Objects : Construct(o) \/ Destroy(o)
  \/ \E o \in Objects, c \in Contexts : SubscribeDirectly(o, c)
  \/ \E o, src \in Objects : CopyConstruct(o, src) \/ Assign(o, src)

Spec == Init /\ [][Next]_vars

-----------------------------------------------------------------------------
(***************************************************************************)
(* What the sheet says.  The context in force is the key of its top-level  *)
(* map whose value is being read, if somebody ever subscribed to it.       *)
(***************************************************************************)
Enclosing(p) ==
  IF p.open # <<>> /\ Known(p.open[1].key) THEN p.open[1].key ELSE None

Maps(open) == {i \in 1..Len(open) : open[i].kind = "map"}

\* the key that a string read next belongs to
Owner(open) == open[Max(Maps(open))].key

\* The parser's depth counts the open maps, and it is in step with a tidy sheet:
\* the subscribers it calls are those of the context in force, and the key is
\* that of the value.  A sheet is tidy as long as every context that is known
\* has a map for its value, no key inside of an unknown one names a known one,
\* and no string follows a map or an array in an array.
\* (configurator.cpp:208-378)
InStep ==
  /\ TypeOK
  /\ \A i \in 1..Len(parsers) :
    LET p == parsers[i]
    IN  /\ p.depth = Cardinality(Maps(p.open))
        /\ p.tidy =>
             /\ p.subs = Enclosing(p)
             /\ (p.open # <<>> /\ Last(p.open).want # "key" /\ ~KeyIsLost(p.open))
                  => p.key = Owner(p.open)

\* whom an option and the end of a map are told to, on a sheet that is tidy
TellsInTurn ==
  LET to == Listeners(Enclosing(Top))
      Each(call, key) ==
        [i \in 1..Len(to) |-> [call |-> call, key |-> key, to |-> to[i]]]
  IN  /\ (Option /\ Top'.tidy) => calls' = Each("set_option", Owner(Top.open))
      /\ (MapEnd /\ Top'.tidy) =>
           calls' = Each("on_map_end", NoKey)
                      \o (IF Len(Top.open) = 2 THEN Each("configure", NoKey) ELSE <<>>)

\* On a tidy sheet a token leads to just the calls that are due: an option is
\* told to the subscribers of the context it is in, in the order in which they
\* subscribed and with its own key, and the end of the context's map makes
\* each of them configure itself, once, after all its options.
\* (configurator.cpp:250-357)
ToldInTurn == [][TellsInTurn]_<<parsers, calls>>

\* "Once that context is encountered in a configuration file, the object will be
\* passed the options to handle them" (configurator.hpp:66): the options in a
\* context are told to those who subscribed to it, whatever else the sheet says.  Not
\* so: a context with a plain value keeps its subscribers current, and they are told
\* the options of the next one.  (configurator.cpp:219-248, 308-357)
ContextIsHeeded ==
  [][ (Option /\ Len(Top.open) = 2 /\ Inner.kind = "map") =>
        \A o \in Range(Listeners(Enclosing(Top))) :
          \E i \in 1..Len(calls') : calls'[i].to = o /\ calls'[i].key = Inner.key
    ]_<<parsers, calls>>

\* No configurable is called after its destruction, unless it was assigned over
\* or was subscribed behind its back.  (configurable.cpp:45-51)
NoneIsCalledDead ==
  \A i \in 1..Len(calls) : life[calls[i].to] = "dead" => calls[i].to \in strayed
=============================================================================
