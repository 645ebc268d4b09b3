----------------------------- MODULE WrapperProofs -----------------------------
(***************************************************************************)
(* Proofs about the parts that keep what they know of by pointers: the     *)
(* Lua engine, the log manager with the loggers, the objects that hand     *)
(* down a UUID, and the sheets that trackers share.  They have nothing in  *)
(* common, and each has an inductive invariant of its own: EngineInv,      *)
(* LoggingInv, IdentityInv and AnalyticsInv.                               *)
(***************************************************************************)
EXTENDS Engine, Logging, Identifiable, Analytics, TLAPS, SequenceTheorems, WellFoundedInduction

(***************************************************************************)
(* The engine: which method calls which, and how deep, bounds the call     *)
(* stack as long as no Algol.stop fails.                                   *)
(***************************************************************************)
\* The methods that a client calls, by where they are.
Entries == {"start", "run", "lookup", "started", "failed", "stop", "close", "restart",
            "restarting", "restarted", "invoke", "destroyed"}

\* A method that waits, and the one that it waits for.
Nesting ==
  {"restarted"} \X {"start", "run", "lookup", "started", "failed"}
  \union {"restarting", "destroyed", "caught"} \X {"stop", "close"}
  \union {"started"} \X {"invoke", "failed"}
  \union {"failed"} \X {"error", "caught"}
  \union {"close"} \X {"invoke_stop", "failed"}

\* How deep a method can be unless an Algol.stop fails.
Level(f) ==
  IF f \in {"restart", "restarting", "restarted", "destroyed"} THEN 1
  ELSE IF f \in {"start", "run", "lookup", "started"} THEN 2
  ELSE IF f \in {"invoke", "failed"} THEN 3
  ELSE IF f \in {"error", "caught"} THEN 4
  ELSE IF f \in {"stop", "close"} THEN 5
  ELSE 6

Nested(s) ==
  /\ s # <<>> => s[1] \in Entries
  /\ \A i \in 1..(Len(s) - 1) : <<s[i], s[i + 1]>> \in Nesting

Shallow(s) ==
  /\ \A i \in 1..Len(s) : i <= Level(s[i])
  /\ \A i \in 1..(Len(s) - 1) : s[i] = "close" => s[i + 1] # "failed"

\* An engine that handled an error is off, and one that is being stopped is on.
StateIsKept ==
  /\ corrupt => lua = "null"
  /\ At("caught") => lua = "null"
  /\ At("close") \/ At("invoke_stop") => lua = "open" \/ unstoppable

\* An error that is not handled yet has its handler on the stack.
ErrorIsHandled ==
  met /\ throws /\ fault = None =>
    IF stack = <<>> THEN outcome = "exception"
    ELSE \E i \in 1..Len(stack) : stack[i] \in {"error", "caught"}

Shape ==
  /\ stack \in Seq(Frames) /\ Len(stack) <= MaxCalls
  /\ Nested(stack)
  /\ Shallow(stack) \/ unstoppable

EngineInv ==
  /\ TypeOK
  /\ opened = closed + IF lua = "open" THEN 1 ELSE 0
  /\ fault # None => stack = <<>>
  /\ fault \in {"closed_null", "overflow"} => unstoppable
  /\ Shape
  /\ StateIsKept
  /\ ErrorIsHandled

-----------------------------------------------------------------------------
(***************************************************************************)
(* What the steps make of the call stack.                                  *)
(***************************************************************************)
LEMMA StackFacts ==
  ASSUME stack \in Seq(Frames), stack # <<>>
  PROVE  /\ Len(stack) \in Nat \ {0}
         /\ \A i \in 1..Len(stack) : stack[i] \in Frames
BY EmptySeq, LenProperties, ElementOfSeq

Outermost(n) == SubSeq(stack, 1, n)

LEMMA OutermostFacts ==
  ASSUME stack \in Seq(Frames), stack # <<>>, NEW n \in 0..Len(stack)
  PROVE  /\ Outermost(n) \in Seq(Frames) /\ Len(Outermost(n)) = n
         /\ \A i \in 1..n : Outermost(n)[i] = stack[i]
<1>1. n \in Nat /\ \A i \in 1..n : stack[i] \in Frames
  BY StackFacts
<1>2. /\ SubSeq(stack, 1, n) \in Seq(Frames)
      /\ Len(SubSeq(stack, 1, n)) = (IF 1 <= n THEN n - 1 + 1 ELSE 0)
      /\ \A i \in 1..(n - 1 + 1) : SubSeq(stack, 1, n)[i] = stack[1 + i - 1]
  BY <1>1, SubSeqProperties
<1>3. ASSUME NEW i \in 1..n PROVE SubSeq(stack, 1, n)[i] = stack[i]
  <2>1. i \in 1..(n - 1 + 1) /\ 1 + i - 1 = i
    BY <1>1
  <2> QED BY <1>2, <2>1
<1> QED BY <1>1, <1>2, <1>3 DEF Outermost

LEMMA BelowFacts ==
  ASSUME stack \in Seq(Frames), stack # <<>>
  PROVE  /\ Below \in Seq(Frames) /\ Len(Below) = Len(stack) - 1
         /\ \A i \in 1..(Len(stack) - 1) : Below[i] = stack[i]
<1> DEFINE n == Len(stack) - 1
<1>1. n \in 0..Len(stack)
  BY StackFacts
<1> HIDE DEF n
<1>2. Outermost(n) \in Seq(Frames) /\ Len(Outermost(n)) = n
      /\ \A i \in 1..n : Outermost(n)[i] = stack[i]
  BY <1>1, OutermostFacts
<1> QED BY <1>2 DEF Outermost, Below, n

\* Goto and Call
With(f)      == Append(Below, f)
Under(f, c)  == Below \o <<f, c>>

LEMMA WithFacts ==
  ASSUME stack \in Seq(Frames), stack # <<>>, NEW f \in Frames
  PROVE  /\ With(f) \in Seq(Frames) /\ With(f) # <<>> /\ Len(With(f)) = Len(stack)
         /\ \A i \in 1..(Len(stack) - 1) : With(f)[i] = stack[i]
         /\ With(f)[Len(stack)] = f
<1>1. /\ With(f) \in Seq(Frames) /\ With(f) # <<>>
      /\ Len(With(f)) = Len(Below) + 1
      /\ \A i \in 1..Len(Below) : With(f)[i] = Below[i]
      /\ With(f)[Len(Below) + 1] = f
  BY BelowFacts, AppendProperties DEF With
<1> QED BY <1>1, BelowFacts, StackFacts

LEMMA UnderFacts ==
  ASSUME stack \in Seq(Frames), stack # <<>>, NEW f \in Frames, NEW c \in Frames
  PROVE  /\ Under(f, c) \in Seq(Frames) /\ Under(f, c) # <<>>
         /\ Len(Under(f, c)) = Len(stack) + 1
         /\ \A i \in 1..(Len(stack) - 1) : Under(f, c)[i] = stack[i]
         /\ Under(f, c)[Len(stack)] = f /\ Under(f, c)[Len(stack) + 1] = c
<1> DEFINE two == <<f, c>>
<1>1. two \in Seq(Frames) /\ Len(two) = 2 /\ two[1] = f /\ two[2] = c
  OBVIOUS
<1> HIDE DEF two
<1>2. /\ Below \o two \in Seq(Frames) /\ Len(Below \o two) = Len(Below) + 2
      /\ \A i \in 1..(Len(Below) + 2) :
           (Below \o two)[i] = IF i <= Len(Below) THEN Below[i] ELSE two[i - Len(Below)]
  <2>1. Below \in Seq(Frames)
    BY BelowFacts
  <2>2. /\ Below \o two \in Seq(Frames) /\ Len(Below \o two) = Len(Below) + Len(two)
        /\ \A i \in 1..(Len(Below) + Len(two)) :
             (Below \o two)[i] = IF i <= Len(Below) THEN Below[i] ELSE two[i - Len(Below)]
    <3> HIDE DEF two
    <3> QED BY <1>1, <2>1, ConcatProperties
  <2> QED BY <1>1, <2>2
<1>3. Len(stack) \in Nat \ {0} /\ Len(Below) = Len(stack) - 1
  BY BelowFacts, StackFacts
<1>4. /\ \A i \in 1..(Len(stack) - 1) : (Below \o two)[i] = stack[i]
      /\ (Below \o two)[Len(stack)] = f /\ (Below \o two)[Len(stack) + 1] = c
  BY <1>1, <1>2, <1>3, BelowFacts
<1>5. Below \o two # <<>>
  BY <1>2, <1>3, EmptySeq
<1>6. Len(Below \o two) = Len(stack) + 1
  BY <1>2, <1>3
<1> QED BY <1>2, <1>4, <1>5, <1>6 DEF Under, two

-----------------------------------------------------------------------------
\* f may be where the innermost method is.
Fits(f) ==
  /\ f \in Frames
  /\ Len(stack) = 1 => f \in Entries
  /\ Len(stack) > 1 => <<stack[Len(stack) - 1], f>> \in Nesting

\* And it is not too deep there.
FitsAt(f) ==
  /\ Len(stack) <= Level(f)
  /\ Len(stack) > 1 /\ stack[Len(stack) - 1] = "close" => f # "failed"

LEMMA OutermostKeeps ==
  ASSUME stack \in Seq(Frames), stack # <<>>, Nested(stack), NEW n \in 0..Len(stack)
  PROVE  Nested(Outermost(n)) /\ (Shallow(stack) => Shallow(Outermost(n)))
<1>1. /\ Len(stack) \in Nat \ {0} /\ n \in Nat /\ n <= Len(stack)
      /\ Outermost(n) \in Seq(Frames) /\ Len(Outermost(n)) = n
      /\ \A i \in 1..n : Outermost(n)[i] = stack[i]
  BY StackFacts, OutermostFacts
<1>2. Outermost(n) # <<>> => Outermost(n)[1] = stack[1]
  BY <1>1, EmptySeq
<1>3. \A i \in 1..(n - 1) : Outermost(n)[i] = stack[i] /\ Outermost(n)[i + 1] = stack[i + 1]
  BY <1>1
<1> QED BY SMTT(30), <1>1, <1>2, <1>3 DEF Nested, Shallow

LEMMA WithKeeps ==
  ASSUME stack \in Seq(Frames), stack # <<>>, Nested(stack), NEW f, Fits(f)
  PROVE  Nested(With(f)) /\ (Shallow(stack) /\ FitsAt(f) => Shallow(With(f)))
<1>1. /\ Len(stack) \in Nat \ {0}
      /\ Len(With(f)) = Len(stack)
      /\ \A i \in 1..(Len(stack) - 1) : With(f)[i] = stack[i]
      /\ With(f)[Len(stack)] = f
  BY StackFacts, WithFacts DEF Fits
<1>2. ASSUME NEW i \in 1..(Len(stack) - 1)
      PROVE  /\ <<With(f)[i], With(f)[i + 1]>> \in Nesting
             /\ Shallow(stack) /\ FitsAt(f) /\ With(f)[i] = "close" => With(f)[i + 1] # "failed"
  <2>1. CASE i = Len(stack) - 1
    BY <1>1, <2>1 DEF Fits, FitsAt
  <2>2. CASE i # Len(stack) - 1
    <3>1. i + 1 \in 1..(Len(stack) - 1) /\ i \in 1..(Len(stack) - 1)
      BY <1>1, <2>2
    <3> QED BY <1>1, <3>1 DEF Nested, Shallow
  <2> QED BY <2>1, <2>2
<1>3. With(f)[1] \in Entries
  BY <1>1 DEF Fits, Nested
<1>4. Shallow(stack) /\ FitsAt(f) => \A i \in 1..Len(stack) : i <= Level(With(f)[i])
  BY <1>1 DEF Shallow, FitsAt
<1> QED BY <1>1, <1>2, <1>3, <1>4 DEF Nested, Shallow

LEMMA UnderKeeps ==
  ASSUME stack \in Seq(Frames), stack # <<>>, Nested(stack),
         NEW f, NEW c \in Frames, Fits(f), <<f, c>> \in Nesting
  PROVE  /\ Nested(Under(f, c))
         /\ Shallow(stack) /\ FitsAt(f) /\ Len(stack) < Level(c) /\ (f = "close" => c # "failed")
              => Shallow(Under(f, c))
<1> DEFINE Ok == Shallow(stack) /\ FitsAt(f) /\ Len(stack) < Level(c) /\ (f = "close" => c # "failed")
<1>1. /\ Len(stack) \in Nat \ {0}
      /\ Len(Under(f, c)) = Len(stack) + 1
      /\ \A i \in 1..(Len(stack) - 1) : Under(f, c)[i] = stack[i]
      /\ Under(f, c)[Len(stack)] = f /\ Under(f, c)[Len(stack) + 1] = c
  BY StackFacts, UnderFacts DEF Fits
<1>2. ASSUME NEW i \in 1..Len(stack)
      PROVE  /\ <<Under(f, c)[i], Under(f, c)[i + 1]>> \in Nesting
             /\ Ok /\ Under(f, c)[i] = "close" => Under(f, c)[i + 1] # "failed"
  <2>1. CASE i = Len(stack)
    BY <1>1, <2>1
  <2>2. CASE i = Len(stack) - 1
    <3>1. Under(f, c)[i] = stack[Len(stack) - 1] /\ Under(f, c)[i + 1] = f
      BY <1>1, <2>2
    <3> QED BY <1>1, <2>2, <3>1 DEF Fits, FitsAt
  <2>3. CASE i < Len(stack) - 1
    <3>1. i + 1 \in 1..(Len(stack) - 1) /\ i \in 1..(Len(stack) - 1)
      BY <1>1, <2>3
    <3> QED BY <1>1, <3>1 DEF Nested, Shallow
  <2> QED BY <1>1, <2>1, <2>2, <2>3
<1>3. Under(f, c)[1] \in Entries
  <2>1. CASE ~(Len(stack) > 1)
    <3>1. \A n \in Nat \ {0} : n > 1 \/ n = 1
      OBVIOUS
    <3> QED BY <1>1, <2>1, <3>1 DEF Fits
  <2>2. CASE Len(stack) > 1
    BY <1>1, <2>2 DEF Nested
  <2> QED BY <2>1, <2>2
<1>4. ASSUME Ok, NEW i \in 1..(Len(stack) + 1) PROVE i <= Level(Under(f, c)[i])
  <2>1. CASE i < Len(stack)
    BY <1>1, <1>4, <2>1 DEF Shallow
  <2>2. CASE i = Len(stack)
    BY <1>1, <1>4, <2>2 DEF FitsAt
  <2>3. CASE i = Len(stack) + 1
    <3>1. Level(c) \in 1..6
      BY DEF Level
    <3> QED BY <1>1, <1>4, <2>3, <3>1
  <2> QED BY <1>1, <2>1, <2>2, <2>3
<1>5. Nested(Under(f, c))
  BY <1>1, <1>2, <1>3 DEF Nested
<1>6. Ok => Shallow(Under(f, c))
  <2>1. Len(Under(f, c)) - 1 = Len(stack)
    BY <1>1
  <2> HIDE DEF Ok
  <2>2. SUFFICES ASSUME Ok PROVE Shallow(Under(f, c))
    OBVIOUS
  <2>3. Ok => Shallow(stack) /\ FitsAt(f)
    BY DEF Ok
  <2> QED BY <1>1, <1>2, <1>4, <2>1, <2>2, <2>3 DEF Shallow
<1> QED BY <1>5, <1>6

-----------------------------------------------------------------------------
Innermost == stack[Len(stack)]

LEMMA Levels ==
  /\ Level("restart") = 1 /\ Level("restarting") = 1 /\ Level("restarted") = 1
  /\ Level("start") = 2 /\ Level("lookup") = 2 /\ Level("started") = 2
  /\ Level("invoke") = 3 /\ Level("failed") = 3
  /\ Level("error") = 4 /\ Level("caught") = 4
  /\ Level("stop") = 5 /\ Level("close") = 5 /\ Level("invoke_stop") = 6
BY DEF Level

LEMMA EmptyShape ==
  ASSUME stack' = <<>> PROVE Shape'
BY EmptySeq, EngineAssumption DEF Shape, Nested, Shallow

LEMMA ClientShape ==
  ASSUME stack' \in {<<"start">>, <<"stop">>, <<"restart">>, <<"invoke">>, <<"destroyed", "stop">>}
  PROVE  Shape' /\ stack' # <<>> /\ Innermost' \in {"start", "stop", "restart", "invoke"}
<1>1. CASE stack' = <<"destroyed", "stop">>
  BY <1>1, EngineAssumption, Levels
     DEF Shape, Nested, Shallow, Innermost, Frames, Entries, Nesting, Level
<1>2. ASSUME NEW f \in {"start", "stop", "restart", "invoke"}, stack' = <<f>> PROVE
        Shape' /\ stack' # <<>> /\ Innermost' = f
  BY <1>2, EngineAssumption DEF Shape, Nested, Shallow, Innermost, Frames, Entries, Level
<1> QED BY <1>1, <1>2

\* A set of numbers that is not empty and has a bound has a last one.
LEMMA LastOne ==
  ASSUME NEW S \in SUBSET Int, NEW m \in Int, S # {}, \A j \in S : j <= m
  PROVE  \E i \in S : \A j \in S : j <= i
<1>1. PICK k \in S : TRUE
  OBVIOUS
<1> DEFINE D == {d \in Nat : m - d \in S}
<1>2. m - k \in D
  <2>1. m - k \in Nat /\ m - (m - k) = k
    BY <1>1
  <2> QED BY <1>1, <2>1
<1>3. PICK d \in D : \A e \in D : ~ (<<e, d>> \in OpToRel(<, Nat))
  <2> HIDE DEF D
  <2>1. D \subseteq Nat /\ D # {}
    BY <1>2 DEF D
  <2> QED BY <2>1, NatLessThanWellFounded, WFMin
<1>4. ASSUME NEW e \in D PROVE d <= e
  <2>1. ~ (e < d)
    BY <1>3 DEF OpToRel
  <2> QED BY <2>1
<1>5. ASSUME NEW j \in S PROVE j <= m - d
  <2>1. m - j \in D
    <3>1. m - j \in Nat /\ m - (m - j) = j
      OBVIOUS
    <3> QED BY <3>1
  <2>2. d \in Nat /\ d <= m - j
    BY <1>4, <2>1
  <2> QED BY <2>2
<1> QED BY <1>5

LEMMA InnermostFits ==
  ASSUME Shape, stack # <<>>
  PROVE  Fits(Innermost) /\ (Shallow(stack) => FitsAt(Innermost))
<1>1. Len(stack) \in Nat \ {0} /\ \A i \in 1..Len(stack) : stack[i] \in Frames
  BY StackFacts DEF Shape
<1>2. Len(stack) > 1 => Len(stack) - 1 \in 1..(Len(stack) - 1) /\ (Len(stack) - 1) + 1 = Len(stack)
  BY <1>1
<1>3. Fits(Innermost)
  BY <1>1, <1>2 DEF Fits, Innermost, Shape, Nested
<1>4. Shallow(stack) => FitsAt(Innermost)
  BY <1>1, <1>2 DEF FitsAt, Innermost, Shallow
<1> QED BY <1>3, <1>4

LEMMA GotoEffect ==
  ASSUME Shape, stack # <<>>, NEW f, Fits(f), FitsAt(f) \/ unstoppable', Goto(f),
         unstoppable => unstoppable'
  PROVE  /\ Shape' /\ stack' # <<>> /\ Innermost' = f
         /\ Len(stack') = Len(stack) /\ Len(stack) \in Nat \ {0}
         /\ \A i \in 1..(Len(stack) - 1) : stack'[i] = stack[i]
         /\ UNCHANGED <<outcome, fault>>
<1>1. stack' = With(f) /\ UNCHANGED <<outcome, fault>>
  BY DEF Goto, With
<1>2. /\ With(f) \in Seq(Frames) /\ With(f) # <<>> /\ Len(With(f)) = Len(stack)
      /\ \A i \in 1..(Len(stack) - 1) : With(f)[i] = stack[i]
      /\ With(f)[Len(stack)] = f /\ Len(stack) \in Nat \ {0}
  BY WithFacts, StackFacts DEF Shape, Fits
<1>3. Nested(With(f)) /\ (Shallow(stack) /\ FitsAt(f) => Shallow(With(f)))
  BY WithKeeps DEF Shape
<1> QED BY <1>1, <1>2, <1>3 DEF Shape, Innermost

LEMMA CallEffect ==
  ASSUME Shape, stack # <<>>, NEW f, NEW c \in Frames, Fits(f), <<f, c>> \in Nesting,
         \/ FitsAt(f) /\ Len(stack) < Level(c) /\ (f = "close" => c # "failed")
         \/ unstoppable',
         Call(c, f), unstoppable => unstoppable'
  PROVE  /\ Shape'
         /\ \/ /\ stack' # <<>> /\ Innermost' = c
               /\ Len(stack') = Len(stack) + 1 /\ Len(stack) \in Nat \ {0}
               /\ stack'[Len(stack)] = f
               /\ \A i \in 1..(Len(stack) - 1) : stack'[i] = stack[i]
               /\ UNCHANGED <<outcome, fault>>
            \/ /\ stack' = <<>> /\ fault' = "overflow" /\ outcome' = outcome
               /\ Len(stack) >= MaxCalls
<1>1. Len(stack) \in Nat \ {0} /\ Len(stack) <= MaxCalls
  BY StackFacts DEF Shape
<1>2. CASE Len(stack) < MaxCalls
  <2>1. stack' = Under(f, c) /\ UNCHANGED <<outcome, fault>>
    BY <1>2 DEF Call, Under
  <2>2. /\ Under(f, c) \in Seq(Frames) /\ Under(f, c) # <<>>
        /\ Len(Under(f, c)) = Len(stack) + 1
        /\ \A i \in 1..(Len(stack) - 1) : Under(f, c)[i] = stack[i]
        /\ Under(f, c)[Len(stack)] = f /\ Under(f, c)[Len(stack) + 1] = c
    BY UnderFacts DEF Shape, Fits
  <2>3. /\ Nested(Under(f, c))
        /\ Shallow(stack) /\ FitsAt(f) /\ Len(stack) < Level(c) /\ (f = "close" => c # "failed")
             => Shallow(Under(f, c))
    BY UnderKeeps DEF Shape
  <2>4. Len(stack) + 1 <= MaxCalls
    BY <1>1, <1>2, EngineAssumption
  <2> QED BY <1>1, <2>1, <2>2, <2>3, <2>4 DEF Shape, Innermost
<1>3. CASE ~(Len(stack) < MaxCalls)
  <2>1. stack' = <<>> /\ fault' = "overflow" /\ outcome' = outcome
    BY <1>3 DEF Call, Fault
  <2>2. Shape'
    BY <2>1, EmptySeq, EngineAssumption DEF Shape, Nested, Shallow
  <2> QED BY <1>1, <1>3, <2>1, <2>2, EngineAssumption
<1> QED BY <1>2, <1>3

LEMMA ReturnEffect ==
  ASSUME Shape, stack # <<>>, NEW v, Return(v), unstoppable => unstoppable'
  PROVE  /\ Shape' /\ fault' = fault
         /\ Len(stack') = Len(stack) - 1 /\ Len(stack) \in Nat \ {0}
         /\ \A i \in 1..(Len(stack) - 1) : stack'[i] = stack[i]
         /\ \/ stack' = <<>> /\ outcome' = v
            \/ /\ stack' # <<>> /\ outcome' = outcome
               /\ <<Innermost', Innermost>> \in Nesting
               /\ Len(stack) > 1 /\ Innermost' = stack[Len(stack) - 1]
<1> DEFINE n == Len(stack) - 1
<1>1. Len(stack) \in Nat \ {0} /\ n \in 0..Len(stack)
  BY StackFacts DEF Shape
<1>2. stack' = Outermost(n) /\ fault' = fault /\ outcome' = IF stack' = <<>> THEN v ELSE outcome
  BY DEF Return, Below, Outermost
<1>3. /\ Outermost(n) \in Seq(Frames) /\ Len(Outermost(n)) = n
      /\ \A i \in 1..n : Outermost(n)[i] = stack[i]
      /\ Nested(Outermost(n)) /\ (Shallow(stack) => Shallow(Outermost(n)))
  <2> HIDE DEF n
  <2> QED BY <1>1, OutermostFacts, OutermostKeeps DEF Shape
<1>4. Shape'
  BY <1>1, <1>2, <1>3, EngineAssumption DEF Shape
<1>5. stack' # <<>> => n >= 1
  BY <1>1, <1>2, <1>3, EmptySeq
<1>6. stack' # <<>> => /\ <<Innermost', Innermost>> \in Nesting
                        /\ Len(stack) > 1 /\ Innermost' = stack[n]
  <2>1. SUFFICES ASSUME stack' # <<>>
                 PROVE  /\ <<Innermost', Innermost>> \in Nesting
                        /\ Len(stack) > 1 /\ Innermost' = stack[n]
    OBVIOUS
  <2>2. n \in 1..(Len(stack) - 1) /\ n + 1 = Len(stack)
    BY <1>1, <1>5, <2>1
  <2>3. Innermost' = stack[n] /\ Innermost = stack[n + 1]
    BY <1>2, <1>3, <2>2 DEF Innermost
  <2> QED BY <1>1, <2>2, <2>3 DEF Shape, Nested
<1> QED BY <1>1, <1>2, <1>3, <1>4, <1>6

LEMMA ThrowEffect ==
  ASSUME Shape, stack # <<>>, Throw, unstoppable => unstoppable'
  PROVE  /\ Shape'
         /\ \/ /\ stack' # <<>> /\ Innermost' = "caught" /\ Len(stack') \in Nat \ {0}
               /\ UNCHANGED <<outcome, fault>>
               /\ \E i \in 1..(Len(stack) - 1) : stack[i] = "caught"
            \/ stack' = <<>> /\ fault' = "terminate" /\ outcome' = outcome /\ stack[1] = "destroyed"
            \/ stack' = <<>> /\ fault' = fault /\ outcome' = "exception"
<1>1. Len(stack) \in Nat \ {0} /\ Handlers = {i \in 1..(Len(stack) - 1) : stack[i] = "caught"}
  BY StackFacts, BelowFacts DEF Shape, Handlers
<1>2. CASE Handlers # {}
  <2> DEFINE n == CHOOSE i \in Handlers : \A j \in Handlers : j <= i
  <2>1. stack' = Outermost(n) /\ UNCHANGED <<outcome, fault>>
    BY <1>2 DEF Throw, Outermost
  <2>2. \E i \in Handlers : \A j \in Handlers : j <= i
    <3>1. /\ Handlers \in SUBSET Int /\ Len(stack) \in Int
          /\ \A j \in Handlers : j <= Len(stack)
      BY <1>1
    <3> DEFINE S == Handlers  m == Len(stack)
    <3>2. S \in SUBSET Int /\ m \in Int /\ S # {} /\ \A j \in S : j <= m
      BY <1>2, <3>1
    <3> HIDE DEF S, m
    <3>3. \E i \in S : \A j \in S : j <= i
      BY <3>2, LastOne
    <3> QED BY <3>3 DEF S
  <2>3. n \in Handlers
    BY <2>2
  <2> HIDE DEF n
  <2>4. n \in 0..Len(stack) /\ n >= 1 /\ n \in 1..(Len(stack) - 1) /\ stack[n] = "caught"
    BY <1>1, <2>3
  <2>5. /\ Outermost(n) \in Seq(Frames) /\ Len(Outermost(n)) = n
        /\ \A i \in 1..n : Outermost(n)[i] = stack[i]
        /\ Nested(Outermost(n)) /\ (Shallow(stack) => Shallow(Outermost(n)))
    BY <2>4, OutermostFacts, OutermostKeeps DEF Shape
  <2>6. Outermost(n) # <<>> /\ n <= MaxCalls
    BY <1>1, <2>4, <2>5, EmptySeq, EngineAssumption DEF Shape
  <2>7. Shape'
    BY <2>1, <2>5, <2>6 DEF Shape
  <2>8. Innermost' = "caught" /\ Len(stack') \in Nat \ {0} /\ stack' # <<>>
    BY <1>1, <2>1, <2>4, <2>5, <2>6 DEF Innermost
  <2> QED BY <2>1, <2>4, <2>7, <2>8
<1>3. CASE Handlers = {}
  <2>1. stack' = <<>>
    BY <1>3 DEF Throw, Fault
  <2>2. Shape'
    BY <2>1, EmptySeq, EngineAssumption DEF Shape, Nested, Shallow
  <2> QED BY <1>3, <2>1, <2>2 DEF Throw, Fault
<1> QED BY <1>2, <1>3

-----------------------------------------------------------------------------
\* Each part of the invariant, in the state after a step.
Balance == opened = closed + IF lua = "open" THEN 1 ELSE 0

FaultIsExplained ==
  /\ fault # None => stack = <<>>
  /\ fault \in {"closed_null", "overflow"} => unstoppable

LEMMA EngineInvParts ==
  EngineInv <=> TypeOK /\ Balance /\ FaultIsExplained /\ Shape /\ StateIsKept /\ ErrorIsHandled
BY DEF EngineInv, Balance, FaultIsExplained

\* At where the call stack is, and what is known there.
LEMMA Here ==
  ASSUME EngineInv, NEW f \in Frames, At(f)
  PROVE  /\ fault = None /\ stack # <<>> /\ Innermost = f /\ stack[Len(stack)] = f
         /\ Shape /\ Fits(f) /\ (FitsAt(f) \/ unstoppable)
         /\ Len(stack) \in Nat \ {0}
BY InnermostFits, StackFacts DEF At, Innermost, EngineInv, Shape

\* An error that is not handled yet stays so when another method returns or goes on.
LEMMA HandlerStays ==
  ASSUME EngineInv, stack # <<>>, Innermost \notin {"error", "caught"},
         met' = met, throws' = throws, fault = None, Len(stack) \in Nat \ {0},
         Len(stack') \in Nat, Len(stack') >= Len(stack) - 1,
         \A i \in 1..(Len(stack) - 1) : stack'[i] = stack[i]
  PROVE  ErrorIsHandled'
<1>1. SUFFICES ASSUME met, throws
               PROVE  stack' # <<>> /\ \E i \in 1..Len(stack') : stack'[i] \in {"error", "caught"}
  BY DEF ErrorIsHandled
<1>2. PICK i \in 1..Len(stack) : stack[i] \in {"error", "caught"}
  BY <1>1 DEF EngineInv, ErrorIsHandled
<1>3. i \in 1..(Len(stack) - 1)
  BY <1>2 DEF Innermost
<1>4. i \in 1..Len(stack') /\ stack'[i] \in {"error", "caught"}
  BY <1>2, <1>3
<1>5. stack' # <<>>
  BY <1>4, EmptySeq
<1> QED BY <1>4, <1>5

-----------------------------------------------------------------------------
\* Each step of the engine keeps the invariant.
THEOREM EngineInvStep == EngineInv /\ [Next]_vars => EngineInv'
<1> SUFFICES ASSUME EngineInv, [Next]_vars PROVE EngineInv'
  OBVIOUS
<1> USE EngineAssumption
<1>1. CASE StartOn /\ UNCHANGED config
  <2>1. /\ Shape /\ fault = None /\ stack # <<>> /\ Len(stack) \in Nat \ {0}
        /\ Innermost = "start" /\ Fits("start") /\ (FitsAt("start") \/ unstoppable)
    BY <1>1, Here DEF StartOn, Frames
  <2>2. /\ Shape' /\ fault' = fault
        /\ Len(stack') = Len(stack) - 1
        /\ \A i \in 1..(Len(stack) - 1) : stack'[i] = stack[i]
        /\ \/ stack' = <<>> /\ outcome' = "true"
           \/ /\ stack' # <<>> /\ outcome' = outcome
              /\ Len(stack) > 1 /\ Innermost' = stack[Len(stack) - 1]
              /\ Innermost' \in {"restarted"}
    BY <1>1, <2>1, ReturnEffect DEF StartOn, Nesting
  <2>4. TypeOK'
    BY <1>1, <2>2 DEF StartOn, EngineInv, Shape, TypeOK, Outcomes, Faults, config,
       scripts, accounts
  <2>5. StateIsKept'
    BY <1>1, <2>1, <2>2 DEF StartOn, EngineInv, StateIsKept, At, Innermost, accounts
  <2>6. ErrorIsHandled'
    <3>1. met' = met /\ throws' = throws
      BY <1>1 DEF StartOn, config
    <3> QED BY <2>1, <2>2, <3>1, HandlerStays
  <2> QED
    BY <1>1, <2>1, <2>2, <2>4, <2>5, <2>6 DEF StartOn, EngineInv, accounts
<1>2. CASE StartOff /\ UNCHANGED config
  <2>1. /\ Shape /\ fault = None /\ stack # <<>> /\ Len(stack) \in Nat \ {0}
        /\ Innermost = "start" /\ Fits("start") /\ (FitsAt("start") \/ unstoppable)
    BY <1>2, Here DEF StartOff, Frames
  <2>2. /\ Shape' /\ stack' # <<>> /\ Innermost' = "run" /\ Len(stack') = Len(stack)
        /\ \A i \in 1..(Len(stack) - 1) : stack'[i] = stack[i]
        /\ UNCHANGED <<outcome, fault>>
    <3>1. Fits("run") /\ (FitsAt("run") \/ unstoppable')
      BY <1>2, <2>1 DEF StartOff, Fits, FitsAt, Level, Frames, Entries, Nesting
    <3> QED
      BY <1>2, <2>1, <3>1, GotoEffect DEF StartOff
  <2>3. opened = closed /\ opened' \in 0..MaxStates /\ opened' = closed' + 1 /\ lua' = "open"
    <3>1. opened \in 0..MaxStates /\ closed \in 0..MaxStates
      BY DEF EngineInv, TypeOK
    <3>2. opened = closed + 0
      BY <1>2 DEF StartOff, EngineInv
    <3>3. lua' = "open" /\ opened' = opened + 1 /\ opened < MaxStates /\ closed' = closed
      BY <1>2 DEF StartOff
    <3> QED BY <3>1, <3>2, <3>3
  <2>4. TypeOK'
    BY <1>2, <2>2, <2>3 DEF StartOff, EngineInv, Shape, TypeOK, Outcomes, Faults, config,
       scripts, accounts
  <2>5. StateIsKept'
    BY <1>2, <2>1, <2>2 DEF StartOff, EngineInv, StateIsKept, At, Innermost, scripts,
       accounts
  <2>6. ErrorIsHandled'
    BY <1>2, <2>1, <2>2, HandlerStays DEF StartOff, config
  <2> QED
    BY <1>2, <2>3, <2>1, <2>2, <2>4, <2>5, <2>6 DEF StartOff, EngineInv, accounts
<1>3. CASE RunLoads /\ UNCHANGED config
  <2>1. /\ Shape /\ fault = None /\ stack # <<>> /\ Len(stack) \in Nat \ {0}
        /\ Innermost = "run" /\ Fits("run") /\ (FitsAt("run") \/ unstoppable)
    BY <1>3, Here DEF RunLoads, Frames
  <2>2. /\ Shape' /\ stack' # <<>> /\ Innermost' = "lookup" /\ Len(stack') = Len(stack)
        /\ \A i \in 1..(Len(stack) - 1) : stack'[i] = stack[i]
        /\ UNCHANGED <<outcome, fault>>
    <3>1. Fits("lookup") /\ (FitsAt("lookup") \/ unstoppable')
      BY <1>3, <2>1 DEF RunLoads, Fits, FitsAt, Level, Frames, Entries, Nesting
    <3> QED
      BY <1>3, <2>1, <3>1, GotoEffect DEF RunLoads
  <2>4. TypeOK'
    BY <1>3, <2>2 DEF RunLoads, EngineInv, Shape, TypeOK, Outcomes, Faults, config,
       scripts, accounts
  <2>5. StateIsKept'
    BY <1>3, <2>1, <2>2 DEF RunLoads, EngineInv, StateIsKept, At, Innermost, scripts,
       accounts
  <2>6. ErrorIsHandled'
    BY <1>3, <2>1, <2>2, HandlerStays DEF RunLoads, config
  <2> QED
    BY <1>3, <2>1, <2>2, <2>4, <2>5, <2>6 DEF RunLoads, EngineInv, accounts
<1>4. CASE Started /\ UNCHANGED config
  <2>1. /\ Shape /\ fault = None /\ stack # <<>> /\ Len(stack) \in Nat \ {0}
        /\ Innermost = "started" /\ Fits("started") /\ (FitsAt("started") \/ unstoppable)
    BY <1>4, Here DEF Started, Frames
  <2>2. /\ Shape' /\ fault' = fault
        /\ Len(stack') = Len(stack) - 1
        /\ \A i \in 1..(Len(stack) - 1) : stack'[i] = stack[i]
        /\ \/ stack' = <<>> /\ outcome' \in Outcomes
           \/ /\ stack' # <<>> /\ outcome' = outcome
              /\ Len(stack) > 1 /\ Innermost' = stack[Len(stack) - 1]
              /\ Innermost' \in {"restarted"}
    BY <1>4, <2>1, ReturnEffect DEF Started, Nesting, Outcomes
  <2>4. TypeOK'
    BY <1>4, <2>2 DEF Started, EngineInv, Shape, TypeOK, Outcomes, Faults, config,
       scripts, accounts
  <2>5. StateIsKept'
    BY <1>4, <2>1, <2>2 DEF Started, EngineInv, StateIsKept, At, Innermost, accounts
  <2>6. ErrorIsHandled'
    <3>1. met' = met /\ throws' = throws
      BY <1>4 DEF Started, config
    <3> QED BY <2>1, <2>2, <3>1, HandlerStays
  <2> QED
    BY <1>4, <2>1, <2>2, <2>4, <2>5, <2>6 DEF Started, EngineInv, accounts
<1>5. CASE Failed /\ UNCHANGED config
  <2>1. /\ Shape /\ fault = None /\ stack # <<>> /\ Len(stack) \in Nat \ {0}
        /\ Innermost = "failed" /\ Fits("failed") /\ (FitsAt("failed") \/ unstoppable)
    BY <1>5, Here DEF Failed, Frames
  <2>2. /\ Shape' /\ fault' = fault
        /\ Len(stack') = Len(stack) - 1
        /\ \A i \in 1..(Len(stack) - 1) : stack'[i] = stack[i]
        /\ \/ stack' = <<>> /\ outcome' = "false"
           \/ /\ stack' # <<>> /\ outcome' = outcome
              /\ Len(stack) > 1 /\ Innermost' = stack[Len(stack) - 1]
              /\ Innermost' \in {"restarted", "started", "close"}
    BY <1>5, <2>1, ReturnEffect DEF Failed, Nesting
  <2>4. TypeOK'
    BY <1>5, <2>2 DEF Failed, EngineInv, Shape, TypeOK, Outcomes, Faults, config,
       scripts, accounts
  <2>3. stack' # <<>> /\ Innermost' = "close" => unstoppable
    BY <2>1, <2>2 DEF FitsAt
  <2>5. StateIsKept'
    BY <1>5, <2>1, <2>2, <2>3 DEF Failed, EngineInv, StateIsKept, At, Innermost,
       accounts
  <2>6. ErrorIsHandled'
    <3>1. met' = met /\ throws' = throws
      BY <1>5 DEF Failed, config
    <3> QED BY <2>1, <2>2, <3>1, HandlerStays
  <2> QED
    BY <1>5, <2>1, <2>2, <2>4, <2>5, <2>6 DEF Failed, EngineInv, accounts
<1>6. CASE StopOff /\ UNCHANGED config
  <2>1. /\ Shape /\ fault = None /\ stack # <<>> /\ Len(stack) \in Nat \ {0}
        /\ Innermost = "stop" /\ Fits("stop") /\ (FitsAt("stop") \/ unstoppable)
    BY <1>6, Here DEF StopOff, Frames
  <2>2. /\ Shape' /\ fault' = fault
        /\ Len(stack') = Len(stack) - 1
        /\ \A i \in 1..(Len(stack) - 1) : stack'[i] = stack[i]
        /\ \/ stack' = <<>> /\ outcome' = "true"
           \/ /\ stack' # <<>> /\ outcome' = outcome
              /\ Len(stack) > 1 /\ Innermost' = stack[Len(stack) - 1]
              /\ Innermost' \in {"restarting", "destroyed", "caught"}
    BY <1>6, <2>1, ReturnEffect DEF StopOff, Nesting
  <2>4. TypeOK'
    BY <1>6, <2>2 DEF StopOff, EngineInv, Shape, TypeOK, Outcomes, Faults, config,
       scripts, accounts
  <2>5. StateIsKept'
    BY <1>6, <2>1, <2>2 DEF StopOff, EngineInv, StateIsKept, At, Innermost, accounts
  <2>6. ErrorIsHandled'
    <3>1. met' = met /\ throws' = throws
      BY <1>6 DEF StopOff, config
    <3> QED BY <2>1, <2>2, <3>1, HandlerStays
  <2> QED
    BY <1>6, <2>1, <2>2, <2>4, <2>5, <2>6 DEF StopOff, EngineInv, accounts
<1>7. CASE RunFails /\ UNCHANGED config
  <2>1. /\ Shape /\ fault = None /\ stack # <<>> /\ Len(stack) \in Nat \ {0}
        /\ Innermost = "run" /\ Fits("run") /\ (FitsAt("run") \/ unstoppable)
    BY <1>7, Here DEF RunFails, Frames
  <2>2. stack[1] \in {"run", "restarted"} /\ \A i \in 1..(Len(stack) - 1) : stack[i] # "caught"
    <3>1. CASE ~(Len(stack) > 1)
      BY <2>1, <3>1, EngineInvParts DEF Innermost
    <3>2. CASE Len(stack) > 1
      <4>1. stack[Len(stack) - 1] = "restarted"
        BY <2>1, <3>2 DEF Fits, Nesting
      <4>2. ~(Len(stack) > 2)
        <5>1. SUFFICES ASSUME Len(stack) > 2 PROVE FALSE
          OBVIOUS
        <5>2. /\ Len(stack) - 2 \in 1..(Len(stack) - 1)
              /\ (Len(stack) - 2) + 1 = Len(stack) - 1
          BY <2>1, <5>1
        <5>3. <<stack[Len(stack) - 2], "restarted">> \in Nesting
          BY <2>1, <4>1, <5>2 DEF Shape, Nested
        <5> QED BY <5>3 DEF Nesting
      <4>3. Len(stack) = 2
        BY <2>1, <3>2, <4>2
      <4>4. stack[1] = "restarted"
        BY <4>1, <4>3
      <4>5. \A i \in 1..(Len(stack) - 1) : i = 1
        BY <4>3
      <4> QED BY <4>4, <4>5
    <3> QED BY <3>1, <3>2
  <2>3. Shape' /\ stack' = <<>> /\ fault' = fault /\ outcome' = "exception"
    BY <1>7, <2>1, <2>2, ThrowEffect DEF RunFails
  <2>4. TypeOK'
    BY <1>7, <2>3 DEF RunFails, EngineInv, Shape, TypeOK, Outcomes, Faults, config,
       scripts, accounts
  <2>5. StateIsKept' /\ ErrorIsHandled'
    BY <1>7, <2>3 DEF RunFails, EngineInv, StateIsKept, ErrorIsHandled, At
  <2> QED
    BY <1>7, <2>1, <2>3, <2>4, <2>5 DEF RunFails, EngineInv, accounts
<1>8. CASE StartLookup /\ arb /\ UNCHANGED config
  <2>1. /\ Shape /\ fault = None /\ stack # <<>> /\ Len(stack) \in Nat \ {0}
        /\ Innermost = "lookup" /\ Fits("lookup") /\ (FitsAt("lookup") \/ unstoppable)
    BY <1>8, Here DEF StartLookup, Frames
  <2>2. /\ Shape'
       /\ \/ /\ stack' # <<>> /\ Innermost' = "invoke" /\ Len(stack') = Len(stack) + 1
             /\ stack'[Len(stack)] = "started"
             /\ \A i \in 1..(Len(stack) - 1) : stack'[i] = stack[i]
             /\ UNCHANGED <<outcome, fault>>
          \/ /\ stack' = <<>> /\ fault' = "overflow" /\ outcome' = outcome
             /\ unstoppable'
    <3>1. /\ Fits("started") /\ "invoke" \in Frames /\ <<"started", "invoke">> \in Nesting
      BY <1>8, <2>1 DEF StartLookup, Fits, Frames, Entries, Nesting
    <3>2. \/ /\ FitsAt("started") /\ Len(stack) < Level("invoke") /\ ("started" = "close" => "invoke" # "failed")
             /\ Len(stack) < 6
          \/ unstoppable'
      <4>1. FitsAt("lookup") => Len(stack) <= 2
        BY Levels DEF FitsAt
      <4>2. FitsAt("lookup") => FitsAt("started")
        BY <2>1, Levels DEF FitsAt, Fits, Nesting
      <4>3. unstoppable => unstoppable'
        BY <1>8 DEF StartLookup
      <4> QED BY <2>1, <4>1, <4>2, <4>3, Levels
    <3>3. Call("invoke", "started") /\ (unstoppable => unstoppable')
      BY <1>8, <2>1 DEF StartLookup
    <3>4. /\ Shape'
          /\ \/ /\ stack' # <<>> /\ Innermost' = "invoke" /\ Len(stack') = Len(stack) + 1
                /\ stack'[Len(stack)] = "started"
                /\ \A i \in 1..(Len(stack) - 1) : stack'[i] = stack[i]
                /\ UNCHANGED <<outcome, fault>>
             \/ /\ stack' = <<>> /\ fault' = "overflow" /\ outcome' = outcome
                /\ Len(stack) >= MaxCalls
      BY <2>1, <3>1, <3>2, <3>3, CallEffect
    <3>5. Len(stack) >= MaxCalls => unstoppable'
      BY <2>1, <3>2
    <3> QED BY <3>4, <3>5
  <2>4. TypeOK'
    BY <1>8, <2>2 DEF StartLookup, Pushed, EngineInv, Shape, TypeOK, Outcomes, Faults,
       config, scripts, accounts
  <2>5. StateIsKept'
    BY <1>8, <2>1, <2>2 DEF StartLookup, EngineInv, StateIsKept, At, Innermost, scripts,
       accounts
  <2>6. ErrorIsHandled'
    <3>1. CASE stack' # <<>>
      <4>1. Len(stack') \in Nat /\ Len(stack') >= Len(stack) - 1
        BY <2>1, <2>2, <3>1
      <4> QED
        BY <1>8, <2>1, <2>2, <3>1, <4>1, HandlerStays DEF StartLookup, config
    <3>2. CASE stack' = <<>>
      BY <2>2, <3>2 DEF ErrorIsHandled, None
    <3> QED BY <3>1, <3>2
  <2> QED
    BY <1>8, <2>1, <2>2, <2>4, <2>5, <2>6 DEF StartLookup, EngineInv, accounts
<1>9. CASE StartLookup /\ ~arb /\ UNCHANGED config
  <2>1. /\ Shape /\ fault = None /\ stack # <<>> /\ Len(stack) \in Nat \ {0}
        /\ Innermost = "lookup" /\ Fits("lookup") /\ (FitsAt("lookup") \/ unstoppable)
    BY <1>9, Here DEF StartLookup, Frames
  <2>2. /\ Shape'
       /\ \/ /\ stack' # <<>> /\ Innermost' = "error" /\ Len(stack') = Len(stack) + 1
             /\ stack'[Len(stack)] = "failed"
             /\ \A i \in 1..(Len(stack) - 1) : stack'[i] = stack[i]
             /\ UNCHANGED <<outcome, fault>>
          \/ /\ stack' = <<>> /\ fault' = "overflow" /\ outcome' = outcome
             /\ unstoppable'
    <3>1. /\ Fits("failed") /\ "error" \in Frames /\ <<"failed", "error">> \in Nesting
      BY <1>9, <2>1 DEF StartLookup, Fits, Frames, Entries, Nesting
    <3>2. \/ /\ FitsAt("failed") /\ Len(stack) < Level("error") /\ ("failed" = "close" => "error" # "failed")
             /\ Len(stack) < 6
          \/ unstoppable'
      <4>1. FitsAt("lookup") => Len(stack) <= 2
        BY Levels DEF FitsAt
      <4>2. FitsAt("lookup") => FitsAt("failed")
        BY <2>1, Levels DEF FitsAt, Fits, Nesting
      <4>3. unstoppable => unstoppable'
        BY <1>9 DEF StartLookup
      <4> QED BY <2>1, <4>1, <4>2, <4>3, Levels
    <3>3. Call("error", "failed") /\ (unstoppable => unstoppable')
      BY <1>9, <2>1 DEF StartLookup
    <3>4. /\ Shape'
          /\ \/ /\ stack' # <<>> /\ Innermost' = "error" /\ Len(stack') = Len(stack) + 1
                /\ stack'[Len(stack)] = "failed"
                /\ \A i \in 1..(Len(stack) - 1) : stack'[i] = stack[i]
                /\ UNCHANGED <<outcome, fault>>
             \/ /\ stack' = <<>> /\ fault' = "overflow" /\ outcome' = outcome
                /\ Len(stack) >= MaxCalls
      BY <2>1, <3>1, <3>2, <3>3, CallEffect
    <3>5. Len(stack) >= MaxCalls => unstoppable'
      BY <2>1, <3>2
    <3> QED BY <3>4, <3>5
  <2>4. TypeOK'
    BY <1>9, <2>2 DEF StartLookup, Pushed, EngineInv, Shape, TypeOK, Outcomes, Faults,
       config, scripts, accounts
  <2>5. StateIsKept'
    BY <1>9, <2>1, <2>2 DEF StartLookup, EngineInv, StateIsKept, At, Innermost, scripts,
       accounts
  <2>6. ErrorIsHandled'
    <3>1. Len(stack') = Len(stack) + 1 => Len(stack') \in 1..Len(stack')
      BY <2>1
    <3> QED
      BY <2>2, <3>1 DEF ErrorIsHandled, Innermost, None
  <2> QED
    BY <1>9, <2>1, <2>2, <2>4, <2>5, <2>6 DEF StartLookup, EngineInv, accounts
<1>10. CASE StopOn /\ arb /\ UNCHANGED config
  <2>1. /\ Shape /\ fault = None /\ stack # <<>> /\ Len(stack) \in Nat \ {0}
        /\ Innermost = "stop" /\ Fits("stop") /\ (FitsAt("stop") \/ unstoppable)
    BY <1>10, Here DEF StopOn, Frames
  <2>2. /\ Shape'
       /\ \/ /\ stack' # <<>> /\ Innermost' = "invoke_stop" /\ Len(stack') = Len(stack) + 1
             /\ stack'[Len(stack)] = "close"
             /\ \A i \in 1..(Len(stack) - 1) : stack'[i] = stack[i]
             /\ UNCHANGED <<outcome, fault>>
          \/ /\ stack' = <<>> /\ fault' = "overflow" /\ outcome' = outcome
             /\ unstoppable'
    <3>1. /\ Fits("close") /\ "invoke_stop" \in Frames /\ <<"close", "invoke_stop">> \in Nesting
      BY <1>10, <2>1 DEF StopOn, Fits, Frames, Entries, Nesting
    <3>2. \/ /\ FitsAt("close") /\ Len(stack) < Level("invoke_stop") /\ ("close" = "close" => "invoke_stop" # "failed")
             /\ Len(stack) < 6
          \/ unstoppable'
      <4>1. FitsAt("stop") => Len(stack) <= 5
        BY Levels DEF FitsAt
      <4>2. FitsAt("stop") => FitsAt("close")
        BY <2>1, Levels DEF FitsAt, Fits, Nesting
      <4>3. unstoppable => unstoppable'
        BY <1>10 DEF StopOn
      <4> QED BY <2>1, <4>1, <4>2, <4>3, Levels
    <3>3. Call("invoke_stop", "close") /\ (unstoppable => unstoppable')
      BY <1>10, <2>1 DEF StopOn
    <3>4. /\ Shape'
          /\ \/ /\ stack' # <<>> /\ Innermost' = "invoke_stop" /\ Len(stack') = Len(stack) + 1
                /\ stack'[Len(stack)] = "close"
                /\ \A i \in 1..(Len(stack) - 1) : stack'[i] = stack[i]
                /\ UNCHANGED <<outcome, fault>>
             \/ /\ stack' = <<>> /\ fault' = "overflow" /\ outcome' = outcome
                /\ Len(stack) >= MaxCalls
      BY <2>1, <3>1, <3>2, <3>3, CallEffect
    <3>5. Len(stack) >= MaxCalls => unstoppable'
      BY <2>1, <3>2
    <3> QED BY <3>4, <3>5
  <2>4. TypeOK'
    BY <1>10, <2>2 DEF StopOn, Pushed, EngineInv, Shape, TypeOK, Outcomes, Faults,
       config, scripts, accounts
  <2>5. StateIsKept'
    BY <1>10, <2>1, <2>2 DEF StopOn, EngineInv, StateIsKept, At, Innermost, scripts,
       accounts
  <2>6. ErrorIsHandled'
    <3>1. CASE stack' # <<>>
      <4>1. Len(stack') \in Nat /\ Len(stack') >= Len(stack) - 1
        BY <2>1, <2>2, <3>1
      <4> QED
        BY <1>10, <2>1, <2>2, <3>1, <4>1, HandlerStays DEF StopOn, config
    <3>2. CASE stack' = <<>>
      BY <2>2, <3>2 DEF ErrorIsHandled, None
    <3> QED BY <3>1, <3>2
  <2> QED
    BY <1>10, <2>1, <2>2, <2>4, <2>5, <2>6 DEF StopOn, EngineInv, accounts
<1>11. CASE StopOn /\ ~arb /\ UNCHANGED config
  <2>1. /\ Shape /\ fault = None /\ stack # <<>> /\ Len(stack) \in Nat \ {0}
        /\ Innermost = "stop" /\ Fits("stop") /\ (FitsAt("stop") \/ unstoppable)
    BY <1>11, Here DEF StopOn, Frames
  <2>2. /\ Shape' /\ stack' # <<>> /\ Innermost' = "close" /\ Len(stack') = Len(stack)
        /\ \A i \in 1..(Len(stack) - 1) : stack'[i] = stack[i]
        /\ UNCHANGED <<outcome, fault>>
    <3>1. Fits("close") /\ (FitsAt("close") \/ unstoppable')
      BY <1>11, <2>1 DEF StopOn, Fits, FitsAt, Level, Frames, Entries, Nesting
    <3> QED
      BY <1>11, <2>1, <3>1, GotoEffect DEF StopOn
  <2>4. TypeOK'
    BY <1>11, <2>2 DEF StopOn, Pushed, EngineInv, Shape, TypeOK, Outcomes, Faults, config,
       scripts, accounts
  <2>5. StateIsKept'
    BY <1>11, <2>1, <2>2 DEF StopOn, EngineInv, StateIsKept, At, Innermost, scripts,
       accounts
  <2>6. ErrorIsHandled'
    BY <1>11, <2>1, <2>2, HandlerStays DEF StopOn, config
  <2> QED
    BY <1>11, <2>1, <2>2, <2>4, <2>5, <2>6 DEF StopOn, EngineInv, accounts
<1>12. CASE Close /\ lua = "open" /\ UNCHANGED config
  <2>1. /\ Shape /\ fault = None /\ stack # <<>> /\ Len(stack) \in Nat \ {0}
        /\ Innermost = "close" /\ Fits("close") /\ (FitsAt("close") \/ unstoppable)
    BY <1>12, Here DEF Close, Frames
  <2>2. /\ Shape' /\ fault' = fault
        /\ Len(stack') = Len(stack) - 1
        /\ \A i \in 1..(Len(stack) - 1) : stack'[i] = stack[i]
        /\ \/ stack' = <<>> /\ outcome' = "true"
           \/ /\ stack' # <<>> /\ outcome' = outcome
              /\ Len(stack) > 1 /\ Innermost' = stack[Len(stack) - 1]
              /\ Innermost' \in {"restarting", "destroyed", "caught"}
    BY <1>12, <2>1, ReturnEffect DEF Close, Nesting
  <2>3. /\ lua' = "null" /\ opened = closed + 1 /\ closed' = closed + 1 /\ opened' = opened
        /\ opened \in 0..MaxStates /\ closed' \in 0..MaxStates
    <3>1. opened \in 0..MaxStates /\ closed \in 0..MaxStates
      BY DEF EngineInv, TypeOK
    <3>2. opened = closed + 1 /\ closed' = closed + 1 /\ lua' = "null" /\ opened' = opened
      BY <1>12 DEF Close, EngineInv
    <3> QED BY <3>1, <3>2
  <2>4. TypeOK'
    BY <1>12, <2>2, <2>3 DEF Close, EngineInv, Shape, TypeOK, Outcomes, Faults, config,
       scripts, accounts
  <2>5. StateIsKept'
    BY <1>12, <2>1, <2>2 DEF Close, EngineInv, StateIsKept, At, Innermost, accounts
  <2>6. ErrorIsHandled'
    <3>1. met' = met /\ throws' = throws
      BY <1>12 DEF Close, config
    <3> QED BY <2>1, <2>2, <3>1, HandlerStays
  <2>7. Balance'
    <3>1. opened \in Int /\ opened' = closed' + 0
      BY <2>3
    <3> QED BY <2>3, <3>1 DEF Balance
  <2> QED
    BY <1>12, <2>7, EngineInvParts, <2>1, <2>2, <2>4, <2>5, <2>6 DEF Close, EngineInv, FaultIsExplained, accounts
<1>13. CASE Close /\ lua # "open" /\ UNCHANGED config
  <2>2. stack' = <<>> /\ fault' = "closed_null" /\ outcome' = outcome /\ unstoppable'
    BY <1>13 DEF Close, Fault, At, EngineInv, StateIsKept
  <2>3. Shape'
    BY <2>2, EmptyShape
  <2>4. TypeOK'
    BY <1>13, <2>2, <2>3 DEF Close, EngineInv, Shape, TypeOK, Outcomes, Faults, config,
       scripts, accounts
  <2>5. StateIsKept' /\ ErrorIsHandled'
    BY <1>13, <2>2 DEF Close, EngineInv, StateIsKept, ErrorIsHandled, At, None
  <2> QED
    BY <1>13, <2>2, <2>3, <2>4, <2>5 DEF Close, EngineInv, accounts
<1>14. CASE Restart /\ At("restart") /\ Return("void") /\ UNCHANGED config
  <2>1. /\ Shape /\ fault = None /\ stack # <<>> /\ Len(stack) \in Nat \ {0}
        /\ Innermost = "restart" /\ Fits("restart") /\ (FitsAt("restart") \/ unstoppable)
    BY <1>14, Here DEF Restart, Frames
  <2>2. /\ Shape' /\ fault' = fault
        /\ Len(stack') = Len(stack) - 1
        /\ \A i \in 1..(Len(stack) - 1) : stack'[i] = stack[i]
        /\ \/ stack' = <<>> /\ outcome' = "void"
           \/ /\ stack' # <<>> /\ outcome' = outcome
              /\ Len(stack) > 1 /\ Innermost' = stack[Len(stack) - 1]
              /\ Innermost' \in {"none"}
    BY <1>14, <2>1, ReturnEffect DEF Restart, Nesting
  <2>4. TypeOK'
    BY <1>14, <2>2 DEF Restart, EngineInv, Shape, TypeOK, Outcomes, Faults, config,
       scripts, accounts
  <2>5. StateIsKept'
    BY <1>14, <2>1, <2>2 DEF Restart, EngineInv, StateIsKept, At, Innermost, accounts
  <2>6. ErrorIsHandled'
    <3>1. met' = met /\ throws' = throws
      BY <1>14 DEF Restart, config
    <3> QED BY <2>1, <2>2, <3>1, HandlerStays
  <2> QED
    BY <1>14, <2>1, <2>2, <2>4, <2>5, <2>6 DEF Restart, EngineInv, accounts
<1>15. CASE Restart /\ At("restart") /\ Call("stop", "restarting") /\ UNCHANGED config
  <2>1. /\ Shape /\ fault = None /\ stack # <<>> /\ Len(stack) \in Nat \ {0}
        /\ Innermost = "restart" /\ Fits("restart") /\ (FitsAt("restart") \/ unstoppable)
    BY <1>15, Here DEF Restart, Frames
  <2>2. /\ Shape'
       /\ \/ /\ stack' # <<>> /\ Innermost' = "stop" /\ Len(stack') = Len(stack) + 1
             /\ stack'[Len(stack)] = "restarting"
             /\ \A i \in 1..(Len(stack) - 1) : stack'[i] = stack[i]
             /\ UNCHANGED <<outcome, fault>>
          \/ /\ stack' = <<>> /\ fault' = "overflow" /\ outcome' = outcome
             /\ unstoppable'
    <3>1. /\ Fits("restarting") /\ "stop" \in Frames /\ <<"restarting", "stop">> \in Nesting
      BY <1>15, <2>1 DEF Restart, Fits, Frames, Entries, Nesting
    <3>2. \/ /\ FitsAt("restarting") /\ Len(stack) < Level("stop") /\ ("restarting" = "close" => "stop" # "failed")
             /\ Len(stack) < 6
          \/ unstoppable'
      <4>1. FitsAt("restart") => Len(stack) <= 1
        BY Levels DEF FitsAt
      <4>2. FitsAt("restart") => FitsAt("restarting")
        BY <2>1, Levels DEF FitsAt, Fits, Nesting
      <4>3. unstoppable => unstoppable'
        BY <1>15 DEF Restart
      <4> QED BY <2>1, <4>1, <4>2, <4>3, Levels
    <3>3. Call("stop", "restarting") /\ (unstoppable => unstoppable')
      BY <1>15, <2>1 DEF Restart
    <3>4. /\ Shape'
          /\ \/ /\ stack' # <<>> /\ Innermost' = "stop" /\ Len(stack') = Len(stack) + 1
                /\ stack'[Len(stack)] = "restarting"
                /\ \A i \in 1..(Len(stack) - 1) : stack'[i] = stack[i]
                /\ UNCHANGED <<outcome, fault>>
             \/ /\ stack' = <<>> /\ fault' = "overflow" /\ outcome' = outcome
                /\ Len(stack) >= MaxCalls
      BY <2>1, <3>1, <3>2, <3>3, CallEffect
    <3>5. Len(stack) >= MaxCalls => unstoppable'
      BY <2>1, <3>2
    <3> QED BY <3>4, <3>5
  <2>4. TypeOK'
    BY <1>15, <2>2 DEF Restart, Pushed, EngineInv, Shape, TypeOK, Outcomes, Faults,
       config, scripts, accounts
  <2>5. StateIsKept'
    BY <1>15, <2>1, <2>2 DEF Restart, EngineInv, StateIsKept, At, Innermost, scripts,
       accounts
  <2>6. ErrorIsHandled'
    <3>1. CASE stack' # <<>>
      <4>1. Len(stack') \in Nat /\ Len(stack') >= Len(stack) - 1
        BY <2>1, <2>2, <3>1
      <4> QED
        BY <1>15, <2>1, <2>2, <3>1, <4>1, HandlerStays DEF Restart, config
    <3>2. CASE stack' = <<>>
      BY <2>2, <3>2 DEF ErrorIsHandled, None
    <3> QED BY <3>1, <3>2
  <2> QED
    BY <1>15, <2>1, <2>2, <2>4, <2>5, <2>6 DEF Restart, EngineInv, accounts
<1>16. CASE Restart /\ At("restarting") /\ Call("start", "restarted") /\ UNCHANGED config
  <2>1. /\ Shape /\ fault = None /\ stack # <<>> /\ Len(stack) \in Nat \ {0}
        /\ Innermost = "restarting" /\ Fits("restarting") /\ (FitsAt("restarting") \/ unstoppable)
    BY <1>16, Here DEF Restart, Frames
  <2>2. /\ Shape'
       /\ \/ /\ stack' # <<>> /\ Innermost' = "start" /\ Len(stack') = Len(stack) + 1
             /\ stack'[Len(stack)] = "restarted"
             /\ \A i \in 1..(Len(stack) - 1) : stack'[i] = stack[i]
             /\ UNCHANGED <<outcome, fault>>
          \/ /\ stack' = <<>> /\ fault' = "overflow" /\ outcome' = outcome
             /\ unstoppable'
    <3>1. /\ Fits("restarted") /\ "start" \in Frames /\ <<"restarted", "start">> \in Nesting
      BY <1>16, <2>1 DEF Restart, Fits, Frames, Entries, Nesting
    <3>2. \/ /\ FitsAt("restarted") /\ Len(stack) < Level("start") /\ ("restarted" = "close" => "start" # "failed")
             /\ Len(stack) < 6
          \/ unstoppable'
      <4>1. FitsAt("restarting") => Len(stack) <= 1
        BY Levels DEF FitsAt
      <4>2. FitsAt("restarting") => FitsAt("restarted")
        BY <2>1, Levels DEF FitsAt, Fits, Nesting
      <4>3. unstoppable => unstoppable'
        BY <1>16 DEF Restart
      <4> QED BY <2>1, <4>1, <4>2, <4>3, Levels
    <3>3. Call("start", "restarted") /\ (unstoppable => unstoppable')
      BY <1>16, <2>1 DEF Restart
    <3>4. /\ Shape'
          /\ \/ /\ stack' # <<>> /\ Innermost' = "start" /\ Len(stack') = Len(stack) + 1
                /\ stack'[Len(stack)] = "restarted"
                /\ \A i \in 1..(Len(stack) - 1) : stack'[i] = stack[i]
                /\ UNCHANGED <<outcome, fault>>
             \/ /\ stack' = <<>> /\ fault' = "overflow" /\ outcome' = outcome
                /\ Len(stack) >= MaxCalls
      BY <2>1, <3>1, <3>2, <3>3, CallEffect
    <3>5. Len(stack) >= MaxCalls => unstoppable'
      BY <2>1, <3>2
    <3> QED BY <3>4, <3>5
  <2>4. TypeOK'
    BY <1>16, <2>2 DEF Restart, Pushed, EngineInv, Shape, TypeOK, Outcomes, Faults,
       config, scripts, accounts
  <2>5. StateIsKept'
    BY <1>16, <2>1, <2>2 DEF Restart, EngineInv, StateIsKept, At, Innermost, scripts,
       accounts
  <2>6. ErrorIsHandled'
    <3>1. CASE stack' # <<>>
      <4>1. Len(stack') \in Nat /\ Len(stack') >= Len(stack) - 1
        BY <2>1, <2>2, <3>1
      <4> QED
        BY <1>16, <2>1, <2>2, <3>1, <4>1, HandlerStays DEF Restart, config
    <3>2. CASE stack' = <<>>
      BY <2>2, <3>2 DEF ErrorIsHandled, None
    <3> QED BY <3>1, <3>2
  <2> QED
    BY <1>16, <2>1, <2>2, <2>4, <2>5, <2>6 DEF Restart, EngineInv, accounts
<1>17. CASE Restart /\ At("restarted") /\ Return("void") /\ UNCHANGED config
  <2>1. /\ Shape /\ fault = None /\ stack # <<>> /\ Len(stack) \in Nat \ {0}
        /\ Innermost = "restarted" /\ Fits("restarted") /\ (FitsAt("restarted") \/ unstoppable)
    BY <1>17, Here DEF Restart, Frames
  <2>2. /\ Shape' /\ fault' = fault
        /\ Len(stack') = Len(stack) - 1
        /\ \A i \in 1..(Len(stack) - 1) : stack'[i] = stack[i]
        /\ \/ stack' = <<>> /\ outcome' = "void"
           \/ /\ stack' # <<>> /\ outcome' = outcome
              /\ Len(stack) > 1 /\ Innermost' = stack[Len(stack) - 1]
              /\ Innermost' \in {"none"}
    BY <1>17, <2>1, ReturnEffect DEF Restart, Nesting
  <2>4. TypeOK'
    BY <1>17, <2>2 DEF Restart, EngineInv, Shape, TypeOK, Outcomes, Faults, config,
       scripts, accounts
  <2>5. StateIsKept'
    BY <1>17, <2>1, <2>2 DEF Restart, EngineInv, StateIsKept, At, Innermost, accounts
  <2>6. ErrorIsHandled'
    <3>1. met' = met /\ throws' = throws
      BY <1>17 DEF Restart, config
    <3> QED BY <2>1, <2>2, <3>1, HandlerStays
  <2> QED
    BY <1>17, <2>1, <2>2, <2>4, <2>5, <2>6 DEF Restart, EngineInv, accounts
<1>18. CASE InvokeCorrupt /\ At("invoke") /\ UNCHANGED config
  <2>1. /\ Shape /\ fault = None /\ stack # <<>> /\ Len(stack) \in Nat \ {0}
        /\ Innermost = "invoke" /\ Fits("invoke") /\ (FitsAt("invoke") \/ unstoppable)
    BY <1>18, Here DEF InvokeCorrupt, Frames
  <2>2. /\ Shape' /\ fault' = fault
        /\ Len(stack') = Len(stack) - 1
        /\ \A i \in 1..(Len(stack) - 1) : stack'[i] = stack[i]
        /\ \/ stack' = <<>> /\ outcome' = "false"
           \/ /\ stack' # <<>> /\ outcome' = outcome
              /\ Len(stack) > 1 /\ Innermost' = stack[Len(stack) - 1]
              /\ Innermost' \in {"started"}
    BY <1>18, <2>1, ReturnEffect DEF InvokeCorrupt, Nesting
  <2>4. TypeOK'
    BY <1>18, <2>2 DEF InvokeCorrupt, EngineInv, Shape, TypeOK, Outcomes, Faults,
       config, scripts, accounts
  <2>5. StateIsKept'
    BY <1>18, <2>1, <2>2 DEF InvokeCorrupt, EngineInv, StateIsKept, At, Innermost,
       accounts
  <2>6. ErrorIsHandled'
    <3>1. met' = met /\ throws' = throws
      BY <1>18 DEF InvokeCorrupt, config
    <3> QED BY <2>1, <2>2, <3>1, HandlerStays
  <2> QED
    BY <1>18, <2>1, <2>2, <2>4, <2>5, <2>6 DEF InvokeCorrupt, EngineInv, accounts
<1>19. CASE InvokeCorrupt /\ At("invoke_stop") /\ UNCHANGED config
  <2>1. /\ Shape /\ fault = None /\ stack # <<>> /\ Len(stack) \in Nat \ {0}
        /\ Innermost = "invoke_stop" /\ Fits("invoke_stop") /\ (FitsAt("invoke_stop") \/ unstoppable)
    BY <1>19, Here DEF InvokeCorrupt, Frames
  <2>2. /\ Shape' /\ fault' = fault
        /\ Len(stack') = Len(stack) - 1
        /\ \A i \in 1..(Len(stack) - 1) : stack'[i] = stack[i]
        /\ \/ stack' = <<>> /\ outcome' = "false"
           \/ /\ stack' # <<>> /\ outcome' = outcome
              /\ Len(stack) > 1 /\ Innermost' = stack[Len(stack) - 1]
              /\ Innermost' \in {"close"}
    BY <1>19, <2>1, ReturnEffect DEF InvokeCorrupt, Nesting
  <2>4. TypeOK'
    BY <1>19, <2>2 DEF InvokeCorrupt, EngineInv, Shape, TypeOK, Outcomes, Faults,
       config, scripts, accounts
  <2>5. StateIsKept'
    BY <1>19, <2>1, <2>2 DEF InvokeCorrupt, EngineInv, StateIsKept, At, Innermost,
       accounts
  <2>6. ErrorIsHandled'
    <3>1. met' = met /\ throws' = throws
      BY <1>19 DEF InvokeCorrupt, config
    <3> QED BY <2>1, <2>2, <3>1, HandlerStays
  <2> QED
    BY <1>19, <2>1, <2>2, <2>4, <2>5, <2>6 DEF InvokeCorrupt, EngineInv, accounts
<1>20. CASE InvokeNull /\ UNCHANGED config
  <2>2. stack' = <<>> /\ fault' = "null_state" /\ outcome' = outcome
    BY <1>20 DEF InvokeNull, Fault, At
  <2>3. Shape'
    BY <2>2, EmptyShape
  <2>4. TypeOK'
    BY <1>20, <2>2, <2>3 DEF InvokeNull, EngineInv, Shape, TypeOK, Outcomes, Faults,
       config, scripts, accounts
  <2>5. StateIsKept' /\ ErrorIsHandled'
    BY <1>20, <2>2 DEF InvokeNull, EngineInv, StateIsKept, ErrorIsHandled, At, None
  <2> QED
    BY <1>20, <2>2, <2>3, <2>4, <2>5 DEF InvokeNull, EngineInv, accounts
<1>21. CASE InvokeSucceeds /\ At("invoke") /\ UNCHANGED config
  <2>1. /\ Shape /\ fault = None /\ stack # <<>> /\ Len(stack) \in Nat \ {0}
        /\ Innermost = "invoke" /\ Fits("invoke") /\ (FitsAt("invoke") \/ unstoppable)
    BY <1>21, Here DEF InvokeSucceeds, Frames
  <2>2. /\ Shape' /\ fault' = fault
        /\ Len(stack') = Len(stack) - 1
        /\ \A i \in 1..(Len(stack) - 1) : stack'[i] = stack[i]
        /\ \/ stack' = <<>> /\ outcome' \in {"true", "false"}
           \/ /\ stack' # <<>> /\ outcome' = outcome
              /\ Len(stack) > 1 /\ Innermost' = stack[Len(stack) - 1]
              /\ Innermost' \in {"started"}
    BY <1>21, <2>1, ReturnEffect DEF InvokeSucceeds, Nesting
  <2>4. TypeOK'
    BY <1>21, <2>2 DEF InvokeSucceeds, EngineInv, Shape, TypeOK, Outcomes, Faults,
       config, scripts, accounts
  <2>5. StateIsKept'
    BY <1>21, <2>1, <2>2 DEF InvokeSucceeds, EngineInv, StateIsKept, At, Innermost,
       accounts
  <2>6. ErrorIsHandled'
    <3>1. met' = met /\ throws' = throws
      BY <1>21 DEF InvokeSucceeds, config
    <3> QED BY <2>1, <2>2, <3>1, HandlerStays
  <2> QED
    BY <1>21, <2>1, <2>2, <2>4, <2>5, <2>6 DEF InvokeSucceeds, EngineInv, accounts
<1>22. CASE InvokeSucceeds /\ At("invoke_stop") /\ UNCHANGED config
  <2>1. /\ Shape /\ fault = None /\ stack # <<>> /\ Len(stack) \in Nat \ {0}
        /\ Innermost = "invoke_stop" /\ Fits("invoke_stop") /\ (FitsAt("invoke_stop") \/ unstoppable)
    BY <1>22, Here DEF InvokeSucceeds, Frames
  <2>2. /\ Shape' /\ fault' = fault
        /\ Len(stack') = Len(stack) - 1
        /\ \A i \in 1..(Len(stack) - 1) : stack'[i] = stack[i]
        /\ \/ stack' = <<>> /\ outcome' \in {"true", "false"}
           \/ /\ stack' # <<>> /\ outcome' = outcome
              /\ Len(stack) > 1 /\ Innermost' = stack[Len(stack) - 1]
              /\ Innermost' \in {"close"}
    BY <1>22, <2>1, ReturnEffect DEF InvokeSucceeds, Nesting
  <2>4. TypeOK'
    BY <1>22, <2>2 DEF InvokeSucceeds, EngineInv, Shape, TypeOK, Outcomes, Faults,
       config, scripts, accounts
  <2>5. StateIsKept'
    BY <1>22, <2>1, <2>2 DEF InvokeSucceeds, EngineInv, StateIsKept, At, Innermost,
       accounts
  <2>6. ErrorIsHandled'
    <3>1. met' = met /\ throws' = throws
      BY <1>22 DEF InvokeSucceeds, config
    <3> QED BY <2>1, <2>2, <3>1, HandlerStays
  <2> QED
    BY <1>22, <2>1, <2>2, <2>4, <2>5, <2>6 DEF InvokeSucceeds, EngineInv, accounts
<1>23. CASE InvokeFails /\ At("invoke") /\ UNCHANGED config
  <2>1. /\ Shape /\ fault = None /\ stack # <<>> /\ Len(stack) \in Nat \ {0}
        /\ Innermost = "invoke" /\ Fits("invoke") /\ (FitsAt("invoke") \/ unstoppable)
    BY <1>23, Here DEF InvokeFails, Frames
  <2>2. /\ Shape'
       /\ \/ /\ stack' # <<>> /\ Innermost' = "error" /\ Len(stack') = Len(stack) + 1
             /\ stack'[Len(stack)] = "failed"
             /\ \A i \in 1..(Len(stack) - 1) : stack'[i] = stack[i]
             /\ UNCHANGED <<outcome, fault>>
          \/ /\ stack' = <<>> /\ fault' = "overflow" /\ outcome' = outcome
             /\ unstoppable'
    <3>1. /\ Fits("failed") /\ "error" \in Frames /\ <<"failed", "error">> \in Nesting
      BY <1>23, <2>1 DEF InvokeFails, Fits, Frames, Entries, Nesting
    <3>2. \/ /\ FitsAt("failed") /\ Len(stack) < Level("error") /\ ("failed" = "close" => "error" # "failed")
             /\ Len(stack) < 6
          \/ unstoppable'
      <4>1. FitsAt("invoke") => Len(stack) <= 3
        BY Levels DEF FitsAt
      <4>2. FitsAt("invoke") => FitsAt("failed")
        BY <2>1, Levels DEF FitsAt, Fits, Nesting
      <4>3. unstoppable => unstoppable'
        BY <1>23 DEF InvokeFails
      <4> QED BY <2>1, <4>1, <4>2, <4>3, Levels
    <3>3. Call("error", "failed") /\ (unstoppable => unstoppable')
      BY <1>23, <2>1 DEF InvokeFails
    <3>4. /\ Shape'
          /\ \/ /\ stack' # <<>> /\ Innermost' = "error" /\ Len(stack') = Len(stack) + 1
                /\ stack'[Len(stack)] = "failed"
                /\ \A i \in 1..(Len(stack) - 1) : stack'[i] = stack[i]
                /\ UNCHANGED <<outcome, fault>>
             \/ /\ stack' = <<>> /\ fault' = "overflow" /\ outcome' = outcome
                /\ Len(stack) >= MaxCalls
      BY <2>1, <3>1, <3>2, <3>3, CallEffect
    <3>5. Len(stack) >= MaxCalls => unstoppable'
      BY <2>1, <3>2
    <3> QED BY <3>4, <3>5
  <2>4. TypeOK'
    BY <1>23, <2>2 DEF InvokeFails, Pushed, EngineInv, Shape, TypeOK, Outcomes, Faults,
       config, scripts, accounts
  <2>5. StateIsKept'
    BY <1>23, <2>1, <2>2 DEF InvokeFails, EngineInv, StateIsKept, At, Innermost,
       scripts, accounts
  <2>6. ErrorIsHandled'
    <3>1. Len(stack') = Len(stack) + 1 => Len(stack') \in 1..Len(stack')
      BY <2>1
    <3> QED
      BY <2>2, <3>1 DEF ErrorIsHandled, Innermost, None
  <2> QED
    BY <1>23, <2>1, <2>2, <2>4, <2>5, <2>6 DEF InvokeFails, EngineInv, accounts
<1>24. CASE InvokeFails /\ At("invoke_stop") /\ UNCHANGED config
  <2>1. /\ Shape /\ fault = None /\ stack # <<>> /\ Len(stack) \in Nat \ {0}
        /\ Innermost = "invoke_stop" /\ Fits("invoke_stop") /\ (FitsAt("invoke_stop") \/ unstoppable)
    BY <1>24, Here DEF InvokeFails, Frames
  <2>2. /\ Shape'
       /\ \/ /\ stack' # <<>> /\ Innermost' = "error" /\ Len(stack') = Len(stack) + 1
             /\ stack'[Len(stack)] = "failed"
             /\ \A i \in 1..(Len(stack) - 1) : stack'[i] = stack[i]
             /\ UNCHANGED <<outcome, fault>>
          \/ /\ stack' = <<>> /\ fault' = "overflow" /\ outcome' = outcome
             /\ unstoppable'
    <3>1. /\ Fits("failed") /\ "error" \in Frames /\ <<"failed", "error">> \in Nesting
      BY <1>24, <2>1 DEF InvokeFails, Fits, Frames, Entries, Nesting
    <3>2. \/ /\ FitsAt("failed") /\ Len(stack) < Level("error") /\ ("failed" = "close" => "error" # "failed")
             /\ Len(stack) < 6
          \/ unstoppable'
      BY <1>24, <2>1 DEF InvokeFails, At, Innermost
    <3>3. Call("error", "failed") /\ (unstoppable => unstoppable')
      BY <1>24, <2>1 DEF InvokeFails
    <3>4. /\ Shape'
          /\ \/ /\ stack' # <<>> /\ Innermost' = "error" /\ Len(stack') = Len(stack) + 1
                /\ stack'[Len(stack)] = "failed"
                /\ \A i \in 1..(Len(stack) - 1) : stack'[i] = stack[i]
                /\ UNCHANGED <<outcome, fault>>
             \/ /\ stack' = <<>> /\ fault' = "overflow" /\ outcome' = outcome
                /\ Len(stack) >= MaxCalls
      BY <2>1, <3>1, <3>2, <3>3, CallEffect
    <3>5. Len(stack) >= MaxCalls => unstoppable'
      BY <2>1, <3>2
    <3> QED BY <3>4, <3>5
  <2>4. TypeOK'
    BY <1>24, <2>2 DEF InvokeFails, Pushed, EngineInv, Shape, TypeOK, Outcomes, Faults,
       config, scripts, accounts
  <2>5. StateIsKept'
    BY <1>24, <2>1, <2>2 DEF InvokeFails, EngineInv, StateIsKept, At, Innermost,
       scripts, accounts
  <2>6. ErrorIsHandled'
    <3>1. Len(stack') = Len(stack) + 1 => Len(stack') \in 1..Len(stack')
      BY <2>1
    <3> QED
      BY <2>2, <3>1 DEF ErrorIsHandled, Innermost, None
  <2> QED
    BY <1>24, <2>1, <2>2, <2>4, <2>5, <2>6 DEF InvokeFails, EngineInv, accounts
<1>25. CASE OnError /\ UNCHANGED config
  <2>1. /\ Shape /\ fault = None /\ stack # <<>> /\ Len(stack) \in Nat \ {0}
        /\ Innermost = "error" /\ Fits("error") /\ (FitsAt("error") \/ unstoppable)
    BY <1>25, Here DEF OnError, Frames
  <2>2. /\ Shape'
       /\ \/ /\ stack' # <<>> /\ Innermost' = "stop" /\ Len(stack') = Len(stack) + 1
             /\ stack'[Len(stack)] = "caught"
             /\ \A i \in 1..(Len(stack) - 1) : stack'[i] = stack[i]
             /\ UNCHANGED <<outcome, fault>>
          \/ /\ stack' = <<>> /\ fault' = "overflow" /\ outcome' = outcome
             /\ unstoppable'
    <3>1. /\ Fits("caught") /\ "stop" \in Frames /\ <<"caught", "stop">> \in Nesting
      BY <1>25, <2>1 DEF OnError, Fits, Frames, Entries, Nesting
    <3>2. \/ /\ FitsAt("caught") /\ Len(stack) < Level("stop") /\ ("caught" = "close" => "stop" # "failed")
             /\ Len(stack) < 6
          \/ unstoppable'
      <4>1. FitsAt("error") => Len(stack) <= 4
        BY Levels DEF FitsAt
      <4>2. FitsAt("error") => FitsAt("caught")
        BY <2>1, Levels DEF FitsAt, Fits, Nesting
      <4>3. unstoppable => unstoppable'
        BY <1>25 DEF OnError
      <4> QED BY <2>1, <4>1, <4>2, <4>3, Levels
    <3>3. Call("stop", "caught") /\ (unstoppable => unstoppable')
      BY <1>25, <2>1 DEF OnError
    <3>4. /\ Shape'
          /\ \/ /\ stack' # <<>> /\ Innermost' = "stop" /\ Len(stack') = Len(stack) + 1
                /\ stack'[Len(stack)] = "caught"
                /\ \A i \in 1..(Len(stack) - 1) : stack'[i] = stack[i]
                /\ UNCHANGED <<outcome, fault>>
             \/ /\ stack' = <<>> /\ fault' = "overflow" /\ outcome' = outcome
                /\ Len(stack) >= MaxCalls
      BY <2>1, <3>1, <3>2, <3>3, CallEffect
    <3>5. Len(stack) >= MaxCalls => unstoppable'
      BY <2>1, <3>2
    <3> QED BY <3>4, <3>5
  <2>4. TypeOK'
    BY <1>25, <2>2 DEF OnError, Pushed, EngineInv, Shape, TypeOK, Outcomes, Faults,
       config, scripts, accounts
  <2>5. StateIsKept'
    BY <1>25, <2>1, <2>2 DEF OnError, EngineInv, StateIsKept, At, Innermost, scripts,
       accounts
  <2>6. ErrorIsHandled'
    <3>1. Len(stack') = Len(stack) + 1 => Len(stack) \in 1..Len(stack')
      BY <2>1
    <3> QED
      BY <1>25, <2>2, <3>1 DEF OnError, ErrorIsHandled, None
  <2> QED
    BY <1>25, <2>1, <2>2, <2>4, <2>5, <2>6 DEF OnError, EngineInv, accounts
<1>26. CASE Caught /\ throws /\ UNCHANGED config
  <2>1. /\ Shape /\ fault = None /\ stack # <<>> /\ Len(stack) \in Nat \ {0}
        /\ Innermost = "caught" /\ Fits("caught") /\ (FitsAt("caught") \/ unstoppable)
    BY <1>26, Here DEF Caught, Frames
  <2>2. lua = "null" /\ Throw
    BY <1>26 DEF Caught, EngineInv, StateIsKept
  <2>3. /\ Shape'
        /\ \/ /\ stack' # <<>> /\ Innermost' = "caught" /\ Len(stack') \in Nat \ {0}
              /\ UNCHANGED <<outcome, fault>>
           \/ stack' = <<>> /\ fault' = "terminate" /\ outcome' = outcome
           \/ stack' = <<>> /\ fault' = fault /\ outcome' = "exception"
    <3>1. unstoppable => unstoppable'
      BY <1>26 DEF Caught
    <3> QED BY <2>1, <2>2, <3>1, ThrowEffect
  <2>4. TypeOK'
    BY <1>26, <2>3 DEF Caught, EngineInv, Shape, TypeOK, Outcomes, Faults, config,
       scripts, accounts
  <2>5. StateIsKept'
    BY <1>26, <2>2, <2>3 DEF Caught, StateIsKept, At, Innermost
  <2>6. ErrorIsHandled'
    <3>1. Len(stack') \in Nat \ {0} => Len(stack') \in 1..Len(stack')
      OBVIOUS
    <3> QED
      BY <2>1, <2>3, <3>1 DEF ErrorIsHandled, Innermost, None
  <2> QED
    BY <1>26, <2>1, <2>3, <2>4, <2>5, <2>6 DEF Caught, EngineInv, accounts
<1>27. CASE Caught /\ ~throws /\ asserts /\ UNCHANGED config
  <2>2. stack' = <<>> /\ fault' = "assertion" /\ outcome' = outcome
    BY <1>27 DEF Caught, Fault, At
  <2>3. Shape'
    BY <2>2, EmptyShape
  <2>4. TypeOK'
    BY <1>27, <2>2, <2>3 DEF Caught, EngineInv, Shape, TypeOK, Outcomes, Faults, config,
       scripts, accounts
  <2>5. StateIsKept' /\ ErrorIsHandled'
    BY <1>27, <2>2 DEF Caught, EngineInv, StateIsKept, ErrorIsHandled, At, None
  <2> QED
    BY <1>27, <2>2, <2>3, <2>4, <2>5 DEF Caught, EngineInv, accounts
<1>28. CASE Caught /\ ~throws /\ ~asserts /\ UNCHANGED config
  <2>1. /\ Shape /\ fault = None /\ stack # <<>> /\ Len(stack) \in Nat \ {0}
        /\ Innermost = "caught" /\ Fits("caught") /\ (FitsAt("caught") \/ unstoppable)
    BY <1>28, Here DEF Caught, Frames
  <2>2. /\ Shape' /\ fault' = fault
        /\ Len(stack') = Len(stack) - 1
        /\ \A i \in 1..(Len(stack) - 1) : stack'[i] = stack[i]
        /\ \/ stack' = <<>> /\ outcome' = "void"
           \/ /\ stack' # <<>> /\ outcome' = outcome
              /\ Len(stack) > 1 /\ Innermost' = stack[Len(stack) - 1]
              /\ Innermost' \in {"failed"}
    BY <1>28, <2>1, ReturnEffect DEF Caught, Nesting
  <2>4. TypeOK'
    BY <1>28, <2>2 DEF Caught, EngineInv, Shape, TypeOK, Outcomes, Faults, config,
       scripts, accounts
  <2>5. StateIsKept'
    BY <1>28, <2>1, <2>2 DEF Caught, EngineInv, StateIsKept, At, Innermost, accounts
  <2>6. ErrorIsHandled'
    BY <1>28 DEF Caught, ErrorIsHandled, config
  <2> QED
    BY <1>28, <2>1, <2>2, <2>4, <2>5, <2>6 DEF Caught, EngineInv, accounts
<1>29. CASE Client /\ UNCHANGED config
  <2>1. PICK frames \in {<<"start">>, <<"stop">>, <<"restart">>, <<"invoke">>, <<"destroyed", "stop">>} :
          ClientCalls(frames)
    BY <1>29 DEF Client
  <2>2. /\ fault = None /\ fault' = fault /\ stack' = frames /\ outcome' = None /\ met' = FALSE
        /\ UNCHANGED <<lua, corrupt, scripts, bottom, ran, unstoppable, accounts, config>>
    BY <1>29, <2>1 DEF ClientCalls, Idle
  <2>3. Shape' /\ stack' # <<>> /\ Innermost' \in {"start", "stop", "restart", "invoke"}
    BY <2>1, <2>2, ClientShape
  <2>4. TypeOK'
    BY <2>2, <2>3 DEF EngineInv, Shape, TypeOK, Outcomes, Faults, config, scripts,
       accounts
  <2>5. StateIsKept' /\ ErrorIsHandled'
    BY <2>2, <2>3 DEF EngineInv, StateIsKept, ErrorIsHandled, At, Innermost, scripts,
       accounts
  <2> QED
    BY <2>2, <2>3, <2>4, <2>5 DEF EngineInv, None, accounts
<1>30. CASE SetOption
  <2>1. Shape'
    BY <1>30 DEF SetOption, EngineInv, Shape
  <2>2. TypeOK'
    BY <1>30, <2>1 DEF SetOption, EngineInv, Shape, TypeOK, Outcomes, Faults, config,
       scripts, accounts
  <2>3. StateIsKept' /\ ErrorIsHandled'
    BY <1>30 DEF SetOption, EngineInv, StateIsKept, ErrorIsHandled, At
  <2> QED
    BY <1>30, <2>1, <2>2, <2>3 DEF SetOption, EngineInv, accounts
<1>31. CASE UNCHANGED vars
  BY <1>31 DEF vars, config, scripts, clientVars, accounts, EngineInv, TypeOK, Shape,
     StateIsKept, ErrorIsHandled, At
<1>32. Step /\ UNCHANGED config => EngineInv'
  <2>1. RunFails \/ RunLoads \/ StartOn \/ StartOff \/ StartLookup \/ Started \/ Failed =>
          (UNCHANGED config => EngineInv')
    BY <1>1, <1>2, <1>3, <1>4, <1>5, <1>7, <1>8, <1>9
  <2>2. StopOff \/ StopOn \/ Close \/ OnError \/ Caught => (UNCHANGED config => EngineInv')
    BY <1>6, <1>10, <1>11, <1>12, <1>13, <1>25, <1>26, <1>27, <1>28
  <2>3. Restart => (UNCHANGED config => EngineInv')
    BY <1>14, <1>15, <1>16, <1>17 DEF Restart
  <2>4. InvokeCorrupt \/ InvokeNull \/ InvokeSucceeds \/ InvokeFails =>
          (UNCHANGED config => EngineInv')
    <3>1. InvokeCorrupt \/ InvokeSucceeds \/ InvokeFails => At("invoke") \/ At("invoke_stop")
      BY DEF InvokeCorrupt, InvokeSucceeds, InvokeFails, Invoking
    <3> QED BY <1>18, <1>19, <1>20, <1>21, <1>22, <1>23, <1>24, <3>1
  <2> QED BY <2>1, <2>2, <2>3, <2>4 DEF Step
<1> QED
  BY <1>29, <1>30, <1>31, <1>32 DEF Next

LEMMA EngineInvInit == Init => EngineInv
<1> SUFFICES ASSUME Init PROVE EngineInv
  OBVIOUS
<1>1. Shape
  BY EmptySeq, EngineAssumption DEF Init, Shape, Nested, Shallow
<1>2. opened \in 0..MaxStates /\ closed \in 0..MaxStates
  BY EngineAssumption DEF Init
<1>3. TypeOK
  BY <1>1, <1>2 DEF Init, TypeOK, Shape, None, Outcomes, Faults
<1>4. opened = closed + IF lua = "open" THEN 1 ELSE 0
  BY DEF Init
<1> QED
  BY <1>1, <1>3, <1>4 DEF Init, EngineInv, StateIsKept, ErrorIsHandled, At, None

\* The invariant holds throughout.
THEOREM EngineInvariance == Spec => []EngineInv
BY EngineInvInit, EngineInvStep, PTL DEF Spec

\* Every Lua state that was opened is closed once, or is the one that is open, and an
\* engine found corrupt is off when its client gets it back, whatever failed on the way.
\* (engine.cpp:122, 162, 252-281)
THEOREM EveryStateIsClosedOnce == Spec => []ClosedOnce
<1>1. EngineInv => ClosedOnce
  BY DEF EngineInv, StateIsKept, ClosedOnce
<1> QED
  BY <1>1, EngineInvariance, PTL

\* With exceptions an error reaches the client, and unless an Algol.stop fails the
\* handling of errors comes to an end, no deeper than six calls.  (engine.cpp:149-168)
THEOREM ErrorsComeOut == Spec => []ErrorsEnd
<1>1. EngineInv => ErrorsEnd
  BY DEF EngineInv, ErrorIsHandled, ErrorsEnd, Idle
<1> QED
  BY <1>1, EngineInvariance, PTL

-----------------------------------------------------------------------------
(***************************************************************************)
(* Logging: what can go wrong has a name in blame.  Without copies every   *)
(* logger has a category object of its own; without a second name there is *)
(* one category, whose only appender is the one in place.                  *)
(***************************************************************************)
\* The appender in place was made, and is not freed.
AppendersAreMade ==
  /\ mgr.appender \in 0..made /\ mgr.appender \notin freed
  /\ \A c \in Categories : attached[c] \subseteq 1..made
  /\ mgr.up => mgr.category \in Categories

\* Without copies, every logger that exists has a category object of its own.
LogsAreTheirOwn ==
  /\ \A l \in Loggers : log[l] \in 0..Len(heap)
  /\ "copied" \notin blame =>
       \A l \in Loggers : log[l] # 0 =>
         heap[log[l]] # "deleted" /\ \A m \in Loggers \ {l} : log[m] # log[l]

\* With init's default there is one category, and the appender in place is its only one.
OneCategory ==
  "renamed" \notin blame =>
    /\ mgr.name = Algol /\ mgr.category \in {Algol, NoCategory}
    /\ attached[Algol] = {mgr.appender} \ {0}
    /\ \A i \in 1..Len(heap) : heap[i] \in {Algol, "deleted"}

LoggingInv ==
  /\ LoggingTypeOK
  /\ AppendersAreMade
  /\ LogsAreTheirOwn
  /\ OneCategory
  /\ WrittenOnce
  /\ ~sound => blame \ {"renamed"} # {}

-----------------------------------------------------------------------------
\* A category object that is made is the last one.
LEMMA NewObject ==
  ASSUME heap \in Seq(Categories \union {"deleted"}), NEW c \in Categories
  PROVE  /\ Append(heap, c) \in Seq(Categories \union {"deleted"})
         /\ Len(Append(heap, c)) = Len(heap) + 1 /\ Len(heap) \in Nat
         /\ \A i \in 1..Len(heap) : Append(heap, c)[i] = heap[i]
         /\ Append(heap, c)[Len(heap) + 1] = c
<1> DEFINE S == Categories \union {"deleted"}
<1>1. heap \in Seq(S) /\ c \in S
  OBVIOUS
<1> HIDE DEF S
<1>2. /\ Append(heap, c) \in Seq(S)
      /\ Len(Append(heap, c)) = Len(heap) + 1 /\ Len(heap) \in Nat
      /\ \A i \in 1..Len(heap) : Append(heap, c)[i] = heap[i]
      /\ Append(heap, c)[Len(heap) + 1] = c
  BY <1>1, AppendProperties, LenProperties
<1> QED BY <1>2 DEF S

\* Each step of logging keeps the invariant.
THEOREM LoggingInvStep == LoggingInv /\ [LoggingNext]_logVars => LoggingInv'
<1> SUFFICES ASSUME LoggingInv, [LoggingNext]_logVars PROVE LoggingInv'
  OBVIOUS
<1> USE LoggingAssumption DEF LoggingInv, NoCategory
<1>1. ASSUME NEW c \in Categories, InitManager(c) PROVE LoggingInv'
  <2>1. LoggingTypeOK'
    BY <1>1 DEF InitManager, Silently, NoMessage, appenderVars, loggerVars,
       LoggingTypeOK, Manager, Blames, AppendersAreMade, LogsAreTheirOwn
  <2>2. AppendersAreMade'
    BY <1>1 DEF InitManager, appenderVars, LoggingTypeOK, Manager, AppendersAreMade
  <2>3. LogsAreTheirOwn'
    BY <1>1 DEF InitManager, loggerVars, LogsAreTheirOwn
  <2>4. OneCategory'
    BY <1>1 DEF InitManager, appenderVars, loggerVars, LoggingTypeOK, Manager,
       AppendersAreMade, OneCategory
  <2>5. WrittenOnce'
    BY <1>1 DEF InitManager, Silently, NoMessage, appenderVars, loggerVars,
       LoggingTypeOK, Manager, AppendersAreMade, LogsAreTheirOwn, OneCategory,
       WrittenOnce
  <2>6. ~sound' => blame' \ {"renamed"} # {}
    BY <1>1 DEF InitManager, LoggingTypeOK, AppendersAreMade
  <2> QED BY <2>1, <2>2, <2>3, <2>4, <2>5, <2>6
<1>2. ASSUME NEW d \in Devices \union {"other"}, SetDevice(d) PROVE LoggingInv'
  <2>1. LoggingTypeOK'
    BY <1>2 DEF SetDevice, Goes, Silently, NoMessage, appenderVars, loggerVars, Devices,
       LoggingTypeOK, Manager, Blames, AppendersAreMade, LogsAreTheirOwn
  <2>2. AppendersAreMade'
    BY <1>2 DEF SetDevice, appenderVars, LoggingTypeOK, Manager, AppendersAreMade
  <2>3. LogsAreTheirOwn'
    BY <1>2 DEF SetDevice, Goes, loggerVars, LogsAreTheirOwn
  <2>4. OneCategory'
    BY <1>2 DEF SetDevice, Goes, appenderVars, loggerVars, LoggingTypeOK, Manager,
       AppendersAreMade, OneCategory
  <2>5. WrittenOnce'
    BY <1>2 DEF SetDevice, Goes, Silently, NoMessage, appenderVars, loggerVars,
       LoggingTypeOK, Manager, AppendersAreMade, LogsAreTheirOwn, OneCategory,
       WrittenOnce
  <2>6. ~sound' => blame' \ {"renamed"} # {}
    <3>1. ~sound' => "late" \in blame'
      BY <1>2 DEF SetDevice, Goes
    <3> QED BY <3>1
  <2> QED BY <2>1, <2>2, <2>3, <2>4, <2>5, <2>6
<1>3. ASSUME NEW b \in BOOLEAN, SetHeader(b) PROVE LoggingInv'
  <2>1. LoggingTypeOK'
    BY <1>3 DEF SetHeader, Silently, NoMessage, appenderVars, loggerVars, LoggingTypeOK,
       Manager, Blames, AppendersAreMade, LogsAreTheirOwn
  <2>2. AppendersAreMade'
    BY <1>3 DEF SetHeader, appenderVars, LoggingTypeOK, Manager, AppendersAreMade
  <2>3. LogsAreTheirOwn'
    BY <1>3 DEF SetHeader, loggerVars, LogsAreTheirOwn
  <2>4. OneCategory'
    BY <1>3 DEF SetHeader, appenderVars, loggerVars, LoggingTypeOK, Manager,
       AppendersAreMade, OneCategory
  <2>5. WrittenOnce'
    BY <1>3 DEF SetHeader, Silently, NoMessage, appenderVars, loggerVars, LoggingTypeOK,
       Manager, AppendersAreMade, LogsAreTheirOwn, OneCategory, WrittenOnce
  <2>6. ~sound' => blame' \ {"renamed"} # {}
    BY <1>3 DEF SetHeader, LoggingTypeOK, AppendersAreMade
  <2> QED BY <2>1, <2>2, <2>3, <2>4, <2>5, <2>6
<1>4. CASE ConfigureFails
  <2>1. LoggingTypeOK'
    BY SMTT(30), <1>4 DEF ConfigureFails, Configuring, Replaced, Goes, Silently, NoMessage,
       loggerVars, LoggingTypeOK, Manager, Blames, AppendersAreMade, LogsAreTheirOwn
  <2>2. AppendersAreMade'
    BY <1>4 DEF ConfigureFails, Configuring, Replaced, LoggingTypeOK, Manager,
       AppendersAreMade
  <2>3. LogsAreTheirOwn'
    BY <1>4 DEF ConfigureFails, Configuring, Goes, loggerVars, LogsAreTheirOwn
  <2>4. OneCategory'
    BY <1>4 DEF ConfigureFails, Configuring, Replaced, Goes, loggerVars, LoggingTypeOK,
       Manager, AppendersAreMade, OneCategory
  <2>5. WrittenOnce'
    BY <1>4 DEF ConfigureFails, Configuring, Replaced, Goes, Silently, NoMessage,
       loggerVars, LoggingTypeOK, Manager, AppendersAreMade, LogsAreTheirOwn,
       OneCategory, WrittenOnce
  <2>6. ~sound' => blame' \ {"renamed"} # {}
    BY <1>4 DEF ConfigureFails, Configuring, Goes, LoggingTypeOK, AppendersAreMade
  <2> QED BY <2>1, <2>2, <2>3, <2>4, <2>5, <2>6
<1>5. CASE Configure
  <2>1. LoggingTypeOK'
    <3>1. /\ made \in Nat /\ MaxAppenders \in Nat /\ made' = made + 1 /\ made < MaxAppenders
          /\ mgr.appender \in 0..made
      BY <1>5 DEF Configure, LoggingTypeOK, AppendersAreMade
    <3>2. mgr' \in Manager /\ made' \in 0..MaxAppenders
      <4>1. made + 1 \in 0..MaxAppenders
        BY <3>1
      <4>2. mgr \in Manager /\ mgr' = [mgr EXCEPT !.appender = made + 1]
        BY <1>5 DEF Configure, LoggingTypeOK
      <4> QED BY <4>1, <4>2, <3>1 DEF Manager
    <3>3. attached' \in [Categories -> SUBSET (1..MaxAppenders)]
      <4> DEFINE A == (attached[mgr.category] \ {mgr.appender}) \union {made + 1}
      <4>1. made + 1 \in 1..MaxAppenders
        BY <3>1
      <4>2. mgr.category \in Categories
        BY <1>5, LoggingAssumption DEF Configure, Configuring, LoggingTypeOK, Manager
      <4>3. attached \in [Categories -> SUBSET (1..MaxAppenders)]
        BY DEF LoggingTypeOK
      <4>4. A \in SUBSET (1..MaxAppenders)
        BY <4>1, <4>2, <4>3
      <4>5. attached' = [attached EXCEPT ![mgr.category] = A]
        BY <1>5 DEF Configure, Replaced
      <4> HIDE DEF A
      <4> QED BY <4>3, <4>4, <4>5
    <3>4. freed' \subseteq 1..made'
      BY <1>5, <3>1 DEF Configure, Replaced, LoggingTypeOK
    <3>5. blame' \subseteq Blames /\ sound' \in BOOLEAN
      BY <1>5 DEF Configure, Goes, LoggingTypeOK, Blames
    <3> QED
      BY <1>5, <3>2, <3>3, <3>4, <3>5
         DEF Configure, Configuring, Silently, NoMessage, loggerVars, LoggingTypeOK
  <2>2. AppendersAreMade'
    BY <1>5 DEF Configure, Configuring, Replaced, LoggingTypeOK, Manager,
       AppendersAreMade
  <2>3. LogsAreTheirOwn'
    BY <1>5 DEF Configure, Configuring, Goes, loggerVars, LogsAreTheirOwn
  <2>4. OneCategory'
    BY <1>5 DEF Configure, Configuring, Replaced, Goes, loggerVars, LoggingTypeOK,
       Manager, AppendersAreMade, OneCategory
  <2>5. WrittenOnce'
    BY <1>5 DEF Configure, Configuring, Replaced, Goes, Silently, NoMessage, loggerVars,
       LoggingTypeOK, Manager, AppendersAreMade, LogsAreTheirOwn, OneCategory,
       WrittenOnce
  <2>6. ~sound' => blame' \ {"renamed"} # {}
    <3>1. ~sound' => "header" \in blame'
      BY <1>5 DEF Configure, Configuring, Goes, AppendersAreMade
    <3> QED BY <3>1
  <2> QED BY <2>1, <2>2, <2>3, <2>4, <2>5, <2>6
<1>6. CASE Cleanup
  <2>1. LoggingTypeOK'
    <3>1. UNION {attached[c] : c \in Categories} \subseteq 1..made
      BY DEF AppendersAreMade
    <3>2. mgr.appender \in 1..made
      BY <1>6 DEF Cleanup, LoggingTypeOK, AppendersAreMade
    <3>3. freed' \subseteq 1..made' /\ made' \in 0..MaxAppenders
      BY <1>6, <3>1, <3>2 DEF Cleanup, LoggingTypeOK
    <3>4. mgr' \in Manager
      <4>1. /\ mgr \in Manager
            /\ mgr' = [mgr EXCEPT !.up = FALSE, !.category = NoCategory, !.appender = 0]
        BY <1>6 DEF Cleanup, LoggingTypeOK
      <4>2. 0 \in 0..MaxAppenders
        BY LoggingAssumption
      <4> QED BY <4>1, <4>2 DEF Manager
    <3>5. attached' \in [Categories -> SUBSET (1..MaxAppenders)]
      BY <1>6 DEF Cleanup
    <3> QED
      BY <1>6, <3>3, <3>4, <3>5
         DEF Cleanup, Goes, Silently, NoMessage, loggerVars, LoggingTypeOK, Blames
  <2>2. AppendersAreMade'
    <3>1. made \in Nat /\ 0 \notin freed'
      BY <2>1, <1>6 DEF LoggingTypeOK, Cleanup
    <3> QED
      BY <1>6, <3>1 DEF Cleanup, LoggingTypeOK, Manager, AppendersAreMade
  <2>3. LogsAreTheirOwn'
    BY <1>6 DEF Cleanup, Goes, loggerVars, LogsAreTheirOwn
  <2>4. OneCategory'
    BY <1>6 DEF Cleanup, Goes, loggerVars, LoggingTypeOK, Manager, AppendersAreMade,
       OneCategory
  <2>5. WrittenOnce'
    BY <1>6 DEF Cleanup, Goes, Silently, NoMessage, loggerVars, LoggingTypeOK, Manager,
       AppendersAreMade, LogsAreTheirOwn, OneCategory, WrittenOnce
  <2>6. ~sound' => blame' \ {"renamed"} # {}
    BY <1>6 DEF Cleanup, Goes, LoggingTypeOK, AppendersAreMade
  <2> QED BY <2>1, <2>2, <2>3, <2>4, <2>5, <2>6
<1>7. CASE UseManager
  <2>1. LoggingTypeOK'
    BY <1>7 DEF UseManager, Goes, NoMessage, appenderVars, loggerVars, LoggingTypeOK,
       Manager, Blames, AppendersAreMade, LogsAreTheirOwn
  <2>2. AppendersAreMade'
    BY <1>7 DEF UseManager, appenderVars, LoggingTypeOK, Manager, AppendersAreMade
  <2>3. LogsAreTheirOwn'
    BY <1>7 DEF UseManager, Goes, loggerVars, LogsAreTheirOwn
  <2>4. OneCategory'
    BY <1>7 DEF UseManager, Goes, appenderVars, loggerVars, LoggingTypeOK, Manager,
       AppendersAreMade, OneCategory
  <2>5. WrittenOnce'
    BY <1>7 DEF UseManager, Goes, NoMessage, appenderVars, loggerVars, LoggingTypeOK,
       Manager, AppendersAreMade, LogsAreTheirOwn, OneCategory, WrittenOnce
  <2>6. ~sound' => blame' \ {"renamed"} # {}
    <3>1. ~sound' => "late" \in blame'
      BY <1>7 DEF UseManager, Goes
    <3> QED BY <3>1
  <2> QED BY <2>1, <2>2, <2>3, <2>4, <2>5, <2>6
<1>8. CASE ConfigureTooLate
  <2>1. LoggingTypeOK'
    BY <1>8 DEF ConfigureTooLate, Goes, Silently, NoMessage, appenderVars, loggerVars,
       LoggingTypeOK, Manager, Blames, AppendersAreMade, LogsAreTheirOwn
  <2>2. AppendersAreMade'
    BY <1>8 DEF ConfigureTooLate, appenderVars, LoggingTypeOK, Manager, AppendersAreMade
  <2>3. LogsAreTheirOwn'
    BY <1>8 DEF ConfigureTooLate, Goes, loggerVars, LogsAreTheirOwn
  <2>4. OneCategory'
    BY <1>8 DEF ConfigureTooLate, Goes, appenderVars, loggerVars, LoggingTypeOK,
       Manager, AppendersAreMade, OneCategory
  <2>5. WrittenOnce'
    BY <1>8 DEF ConfigureTooLate, Goes, Silently, NoMessage, appenderVars, loggerVars,
       LoggingTypeOK, Manager, AppendersAreMade, LogsAreTheirOwn, OneCategory,
       WrittenOnce
  <2>6. ~sound' => blame' \ {"renamed"} # {}
    <3>1. ~sound' => "late" \in blame'
      BY <1>8 DEF ConfigureTooLate, Goes
    <3> QED BY <3>1
  <2> QED BY <2>1, <2>2, <2>3, <2>4, <2>5, <2>6
<1>9. CASE CleanupTooSoon
  <2>1. LoggingTypeOK'
    BY <1>9 DEF CleanupTooSoon, Goes, Silently, NoMessage, appenderVars, loggerVars,
       LoggingTypeOK, Manager, Blames, AppendersAreMade, LogsAreTheirOwn
  <2>2. AppendersAreMade'
    BY <1>9 DEF CleanupTooSoon, appenderVars, LoggingTypeOK, Manager, AppendersAreMade
  <2>3. LogsAreTheirOwn'
    BY <1>9 DEF CleanupTooSoon, Goes, loggerVars, LogsAreTheirOwn
  <2>4. OneCategory'
    BY <1>9 DEF CleanupTooSoon, Goes, appenderVars, loggerVars, LoggingTypeOK, Manager,
       AppendersAreMade, OneCategory
  <2>5. WrittenOnce'
    BY <1>9 DEF CleanupTooSoon, Goes, Silently, NoMessage, appenderVars, loggerVars,
       LoggingTypeOK, Manager, AppendersAreMade, LogsAreTheirOwn, OneCategory,
       WrittenOnce
  <2>6. ~sound' => blame' \ {"renamed"} # {}
    <3>1. ~sound' => "unconfigured" \in blame'
      BY <1>9 DEF CleanupTooSoon, Goes
    <3> QED BY <3>1
  <2> QED BY <2>1, <2>2, <2>3, <2>4, <2>5, <2>6
<1>10. ASSUME NEW l \in Loggers, ConstructLogger(l) PROVE LoggingInv'
  <2>1. LoggingTypeOK'
    <3>1. CASE UNCHANGED <<heap, log>>
      BY <1>10, <3>1 DEF ConstructLogger, Silently, NoMessage, appenderVars, LoggingTypeOK
    <3>2. CASE /\ Len(heap) < MaxObjects
               /\ heap' = Append(heap, mgr.name) /\ log' = [log EXCEPT ![l] = Len(heap')]
      <4>1. /\ heap' \in Seq(Categories \union {"deleted"}) /\ Len(heap') = Len(heap) + 1
            /\ Len(heap) \in Nat
        BY <3>2, NewObject DEF LoggingTypeOK, Manager
      <4>2. Len(heap') \in 0..MaxObjects
        BY <3>2, <4>1
      <4>3. log' \in [Loggers -> 0..MaxObjects]
        BY <3>2, <4>2 DEF LoggingTypeOK
      <4> QED
        BY <1>10, <4>1, <4>2, <4>3
           DEF ConstructLogger, Silently, NoMessage, appenderVars, LoggingTypeOK
    <3> QED BY <1>10, <3>1, <3>2 DEF ConstructLogger
  <2>2. AppendersAreMade'
    BY <1>10 DEF ConstructLogger, appenderVars, LoggingTypeOK, Manager, AppendersAreMade
  <2>3. LogsAreTheirOwn'
    <3>1. CASE UNCHANGED <<heap, log>>
      BY <1>10, <3>1 DEF ConstructLogger, LogsAreTheirOwn
    <3>2. CASE heap' = Append(heap, mgr.name) /\ log' = [log EXCEPT ![l] = Len(heap')]
      <4>1. /\ Len(heap') = Len(heap) + 1 /\ Len(heap) \in Nat
            /\ \A i \in 1..Len(heap) : heap'[i] = heap[i]
            /\ heap'[Len(heap')] = mgr.name
        BY <3>2, NewObject DEF LoggingTypeOK, Manager
      <4>2. mgr.name # "deleted"
        BY DEF LoggingTypeOK, Manager
      <4> QED
        BY <1>10, <3>2, <4>1, <4>2 DEF ConstructLogger, LoggingTypeOK, LogsAreTheirOwn
    <3> QED BY <1>10, <3>1, <3>2 DEF ConstructLogger
  <2>4. OneCategory'
    BY <1>10 DEF ConstructLogger, appenderVars, LoggingTypeOK, Manager,
       AppendersAreMade, OneCategory
  <2>5. WrittenOnce'
    BY <1>10 DEF ConstructLogger, Silently, NoMessage, appenderVars, LoggingTypeOK,
       Manager, AppendersAreMade, LogsAreTheirOwn, OneCategory, WrittenOnce
  <2>6. ~sound' => blame' \ {"renamed"} # {}
    BY <1>10 DEF ConstructLogger, LoggingTypeOK, AppendersAreMade
  <2> QED BY <2>1, <2>2, <2>3, <2>4, <2>5, <2>6
<1>11. ASSUME NEW l \in Loggers, NEW src \in Loggers, CopyLogger(l, src) PROVE LoggingInv'
  <2>1. LoggingTypeOK'
    BY <1>11 DEF CopyLogger, Silently, NoMessage, appenderVars, LoggingTypeOK, Manager,
       Blames, AppendersAreMade, LogsAreTheirOwn
  <2>2. AppendersAreMade'
    BY <1>11 DEF CopyLogger, appenderVars, LoggingTypeOK, Manager, AppendersAreMade
  <2>3. LogsAreTheirOwn'
    BY <1>11 DEF CopyLogger, LogsAreTheirOwn
  <2>4. OneCategory'
    BY <1>11 DEF CopyLogger, appenderVars, LoggingTypeOK, Manager, AppendersAreMade,
       OneCategory
  <2>5. WrittenOnce'
    BY <1>11 DEF CopyLogger, Silently, NoMessage, appenderVars, LoggingTypeOK, Manager,
       AppendersAreMade, LogsAreTheirOwn, OneCategory, WrittenOnce
  <2>6. ~sound' => blame' \ {"renamed"} # {}
    BY <1>11 DEF CopyLogger, LoggingTypeOK, AppendersAreMade
  <2> QED BY <2>1, <2>2, <2>3, <2>4, <2>5, <2>6
<1>12. ASSUME NEW l \in Loggers, AssignUuid(l) PROVE LoggingInv'
  <2>1. LoggingTypeOK'
    BY <1>12 DEF AssignUuid, Goes, Silently, NoMessage, appenderVars, loggerVars,
       Usable, LoggingTypeOK, Manager, Blames, AppendersAreMade, LogsAreTheirOwn
  <2>2. AppendersAreMade'
    BY <1>12 DEF AssignUuid, appenderVars, LoggingTypeOK, Manager, AppendersAreMade
  <2>3. LogsAreTheirOwn'
    BY <1>12 DEF AssignUuid, Goes, loggerVars, LogsAreTheirOwn
  <2>4. OneCategory'
    BY <1>12 DEF AssignUuid, Goes, appenderVars, loggerVars, LoggingTypeOK, Manager,
       AppendersAreMade, OneCategory
  <2>5. WrittenOnce'
    BY <1>12 DEF AssignUuid, Goes, Silently, NoMessage, appenderVars, loggerVars,
       Usable, LoggingTypeOK, Manager, AppendersAreMade, LogsAreTheirOwn,
       OneCategory, WrittenOnce
  <2>6. ~sound' => blame' \ {"renamed"} # {}
    <3>1. log[l] # 0 /\ heap[log[l]] = "deleted" => "copied" \in blame
      BY DEF LogsAreTheirOwn
    <3>2. Usable(l) \/ log[l] = 0 \/ "copied" \in blame
      BY <3>1 DEF Usable
    <3>3. CASE Usable(l)
      BY <1>12, <3>3 DEF AssignUuid, Goes
    <3>4. CASE ~Usable(l) /\ log[l] = 0
      <4>1. "contextless" \in blame'
        BY <1>12, <3>4 DEF AssignUuid, Goes
      <4> QED BY <4>1
    <3>5. CASE "copied" \in blame
      <4>1. "copied" \in blame'
        BY <1>12, <3>5 DEF AssignUuid, Goes
      <4> QED BY <4>1
    <3> QED BY <3>2, <3>3, <3>4, <3>5
  <2> QED BY <2>1, <2>2, <2>3, <2>4, <2>5, <2>6
<1>13. ASSUME NEW l \in Loggers, Write(l) PROVE LoggingInv'
  <2>1. LoggingTypeOK'
    <3>1. wrote' \in [sent : BOOLEAN, to : SUBSET (1..MaxAppenders)]
      <4>1. CASE Usable(l)
        <5>1. heap[log[l]] \in Categories
          BY <4>1, ElementOfSeq DEF Usable, LoggingTypeOK, LogsAreTheirOwn
        <5> QED BY <1>13, <4>1, <5>1 DEF Write, LoggingTypeOK
      <4>2. CASE ~Usable(l)
        BY <1>13, <4>2 DEF Write, NoMessage
      <4> QED BY <4>1, <4>2
    <3> QED
      BY <1>13, <3>1 DEF Write, Goes, appenderVars, loggerVars, LoggingTypeOK, Blames
  <2>2. AppendersAreMade'
    BY <1>13 DEF Write, appenderVars, LoggingTypeOK, Manager, AppendersAreMade
  <2>3. LogsAreTheirOwn'
    BY <1>13 DEF Write, Goes, loggerVars, LogsAreTheirOwn
  <2>4. OneCategory'
    BY <1>13 DEF Write, Goes, appenderVars, loggerVars, LoggingTypeOK, Manager,
       AppendersAreMade, OneCategory
  <2>5. WrittenOnce'
    BY <1>13 DEF Write, Goes, NoMessage, appenderVars, loggerVars, Usable,
       LoggingTypeOK, Manager, AppendersAreMade, LogsAreTheirOwn, OneCategory,
       WrittenOnce
  <2>6. ~sound' => blame' \ {"renamed"} # {}
    <3>1. log[l] # 0 /\ heap[log[l]] = "deleted" => "copied" \in blame
      BY DEF LogsAreTheirOwn
    <3>2. Usable(l) \/ log[l] = 0 \/ "copied" \in blame
      BY <3>1 DEF Usable
    <3>3. CASE Usable(l)
      BY <1>13, <3>3 DEF Write, Goes
    <3>4. CASE ~Usable(l) /\ log[l] = 0
      <4>1. "contextless" \in blame'
        BY <1>13, <3>4 DEF Write, Goes
      <4> QED BY <4>1
    <3>5. CASE "copied" \in blame
      <4>1. "copied" \in blame'
        BY <1>13, <3>5 DEF Write, Goes
      <4> QED BY <4>1
    <3> QED BY <3>2, <3>3, <3>4, <3>5
  <2> QED BY <2>1, <2>2, <2>3, <2>4, <2>5, <2>6
<1>14. ASSUME NEW l \in Loggers, DestroyLogger(l) PROVE LoggingInv'
  <2>1. CASE log[l] = 0
    <3>1. LoggingTypeOK'
      BY <1>14, <2>1 DEF DestroyLogger, Silently, NoMessage, appenderVars, LoggingTypeOK
    <3>2. UNCHANGED <<log, heap, mgr, attached, made, freed, blame, sound>> /\ ~wrote'.sent
      BY <1>14, <2>1 DEF DestroyLogger, Silently, NoMessage, appenderVars, LoggingTypeOK
    <3> QED
      BY <3>1, <3>2 DEF AppendersAreMade, LogsAreTheirOwn, OneCategory, WrittenOnce
  <2>2. CASE log[l] # 0
    <3>1. /\ heap' \in Seq(Categories \union {"deleted"}) /\ Len(heap') = Len(heap)
          /\ log[l] \in 1..Len(heap) /\ Len(heap) \in Nat
          /\ \A i \in 1..Len(heap) : heap'[i] = IF i = log[l] THEN "deleted" ELSE heap[i]
      <4>1. heap' = [heap EXCEPT ![log[l]] = "deleted"]
        BY <1>14, <2>2 DEF DestroyLogger
      <4>2. log[l] \in 1..Len(heap) /\ Len(heap) \in Nat
        BY <2>2, LenProperties DEF LoggingTypeOK, LogsAreTheirOwn
      <4> QED BY <4>1, <4>2, ExceptSeq DEF LoggingTypeOK
    <3>2. /\ log' = [log EXCEPT ![l] = 0] /\ exists' = [exists EXCEPT ![l] = "destroyed"]
          /\ UNCHANGED <<mgr, attached, made, freed, blame>> /\ wrote' = NoMessage
          /\ sound' \in BOOLEAN /\ (sound' = sound \/ ~Usable(l)) /\ sound
      BY <1>14, <2>2 DEF DestroyLogger, Goes, Silently, appenderVars
    <3>3. LoggingTypeOK'
      BY <3>1, <3>2 DEF NoMessage, LoggingTypeOK
    <3>4. LogsAreTheirOwn'
      BY <3>1, <3>2 DEF LogsAreTheirOwn, LoggingTypeOK
    <3>5. AppendersAreMade' /\ OneCategory' /\ WrittenOnce'
      BY <3>1, <3>2 DEF AppendersAreMade, OneCategory, WrittenOnce, NoMessage
    <3>6. ~sound' => "copied" \in blame'
      BY <2>2, <3>2 DEF LogsAreTheirOwn, Usable
    <3> QED BY <3>3, <3>4, <3>5, <3>6
  <2> QED BY <2>1, <2>2
<1>15. CASE UNCHANGED logVars
  BY <1>15 DEF logVars, appenderVars, loggerVars, LoggingTypeOK, AppendersAreMade,
     LogsAreTheirOwn, OneCategory, WrittenOnce
<1> QED
  BY <1>1, <1>2, <1>3, <1>4, <1>5, <1>6, <1>7, <1>8, <1>9, <1>10, <1>11, <1>12, <1>13, <1>14, <1>15 DEF LoggingNext

LEMMA LoggingInvInit == LoggingInit => LoggingInv
BY LoggingAssumption, EmptySeq
   DEF LoggingInit, LoggingInv, LoggingTypeOK, Manager, Devices, NoCategory, NoMessage,
       AppendersAreMade, LogsAreTheirOwn, OneCategory, WrittenOnce

\* The invariant holds throughout.
THEOREM LoggingInvariance == LoggingSpec => []LoggingInv
BY LoggingInvInit, LoggingInvStep, PTL DEF LoggingSpec

\* Whatever the order of configurations, failures and cleanups, a message is written
\* once to the appender in place, and nothing undefined happens but for the reasons
\* that are named.  (log_manager.cpp:84-290, logger.cpp:36-68)
THEOREM LoggingIsSoundAlways == LoggingSpec => []LoggingIsSound
<1>1. LoggingInv => LoggingIsSound
  BY DEF LoggingInv, LoggingIsSound, LoggingIsDefined
<1> QED
  BY <1>1, LoggingInvariance, PTL

-----------------------------------------------------------------------------
(***************************************************************************)
(* Handing down a UUID comes to an end in every graph of children, for any *)
(* number of objects.                                                      *)
(***************************************************************************)
\* The calls under way hand down one UUID; those that look at children have given it to
\* their object; and those are different objects.
CallsOf(s, ids) ==
  /\ \A i \in 1..(Len(s) - 1) : s[i].next # 0
  /\ \A i \in 1..Len(s) : s[i].uuid = s[1].uuid
  /\ \A i \in 1..Len(s) : s[i].next # 0 => ids[s[i].of] = s[i].uuid
  /\ s # <<>> /\ s[1].uuid # Unassigned =>
       \A i, j \in 1..Len(s) :
         s[i].next # 0 /\ s[j].next # 0 /\ s[i].of = s[j].of => i = j

CallsInv == CallsOf(calls, uuid)

IdentityInv == IdentityTypeOK /\ CallsInv

Us == Uuids \union {Unassigned}

-----------------------------------------------------------------------------
\* The calls without the innermost.
LEMMA OuterCalls ==
  ASSUME calls \in Seq(Frame), calls # <<>>
  PROVE  /\ Len(calls) \in Nat \ {0} /\ Top \in Frame
         /\ Outer \in Seq(Frame) /\ Len(Outer) = Len(calls) - 1
         /\ \A i \in 1..(Len(calls) - 1) : Outer[i] = calls[i]
<1>1. Len(calls) \in Nat \ {0} /\ \A i \in 1..Len(calls) : calls[i] \in Frame
  BY EmptySeq, LenProperties, ElementOfSeq
<1>2. /\ SubSeq(calls, 1, Len(calls) - 1) \in Seq(Frame)
      /\ Len(SubSeq(calls, 1, Len(calls) - 1)) = Len(calls) - 1
      /\ \A i \in 1..(Len(calls) - 1) : SubSeq(calls, 1, Len(calls) - 1)[i] = calls[i]
  <2> DEFINE n == Len(calls) - 1
  <2>1. n \in Nat /\ \A i \in 1..n : calls[i] \in Frame
    BY <1>1
  <2> HIDE DEF n
  <2>2. /\ SubSeq(calls, 1, n) \in Seq(Frame)
        /\ Len(SubSeq(calls, 1, n)) = (IF 1 <= n THEN n - 1 + 1 ELSE 0)
        /\ \A i \in 1..(n - 1 + 1) : SubSeq(calls, 1, n)[i] = calls[1 + i - 1]
    BY <2>1, SubSeqProperties
  <2>3. Len(SubSeq(calls, 1, n)) = n
    BY <2>1, <2>2
  <2>4. ASSUME NEW i \in 1..n PROVE SubSeq(calls, 1, n)[i] = calls[i]
    <3>1. i \in 1..(n - 1 + 1) /\ 1 + i - 1 = i
      BY <2>1
    <3> QED BY <2>2, <3>1
  <2> QED BY <2>2, <2>3, <2>4 DEF n
<1> QED BY <1>1, <1>2 DEF Outer, Top

\* The innermost call goes on to the child at n.
GoingOn(n) == Append(Outer, [Top EXCEPT !.next = n])

LEMMA TopGoesOn ==
  ASSUME calls \in Seq(Frame), calls # <<>>, NEW n \in Nat
  PROVE  /\ GoingOn(n) \in Seq(Frame) /\ Len(GoingOn(n)) = Len(calls)
         /\ \A i \in 1..(Len(calls) - 1) : GoingOn(n)[i] = calls[i]
         /\ GoingOn(n)[Len(calls)].of = Top.of
         /\ GoingOn(n)[Len(calls)].uuid = Top.uuid
         /\ GoingOn(n)[Len(calls)].next = n
<1> DEFINE t == [Top EXCEPT !.next = n]
<1>1. t \in Frame /\ t.of = Top.of /\ t.uuid = Top.uuid /\ t.next = n
  BY OuterCalls DEF Frame
<1> HIDE DEF t
<1> DEFINE s == GoingOn(n)
<1>2. s = Append(Outer, t)
  BY DEF t, GoingOn
<1> HIDE DEF s
<1>3. /\ s \in Seq(Frame) /\ Len(s) = Len(Outer) + 1 /\ s[Len(Outer) + 1] = t
      /\ \A i \in 1..Len(Outer) : s[i] = Outer[i]
  BY <1>1, <1>2, OuterCalls, AppendProperties
<1>4. /\ Len(calls) \in Nat /\ Len(Outer) = Len(calls) - 1 /\ Len(Outer) + 1 = Len(calls)
      /\ \A i \in 1..(Len(calls) - 1) : Outer[i] = calls[i]
  BY OuterCalls
<1> QED BY <1>1, <1>3, <1>4 DEF s

-----------------------------------------------------------------------------
LEMMA InitIdentityInv == IdentityInit => IdentityInv
<1> SUFFICES ASSUME IdentityInit PROVE IdentityInv
  OBVIOUS
<1>1. Len(calls) = 0
  BY DEF IdentityInit
<1> QED BY <1>1 DEF IdentityInit, IdentityInv, IdentityTypeOK, CallsInv, CallsOf

\* What objects do between calls.
LEMMA ObjectStep ==
  ASSUME IdentityInv, NEW o \in Objects, NEW p \in Objects,
         Construct(o) \/ ConstructUnder(o, p) \/ Copy(o, p) \/ Assign(o, p)
           \/ AddChild(o, p) \/ Destroy(o)
  PROVE  IdentityInv'
<1>1. \A q, c \in Objects : Added(q, c) \in [Objects -> Seq(Objects)]
  BY DEF IdentityInv, IdentityTypeOK, Added
<1>2. IdentityTypeOK'
  <2>1. CASE Construct(o)
    BY <2>1 DEF Construct, Begins, IdentityInv, IdentityTypeOK
  <2>2. CASE ConstructUnder(o, p)
    BY <1>1, <2>2 DEF ConstructUnder, Begins, IdentityInv, IdentityTypeOK
  <2>3. CASE Copy(o, p)
    BY <2>3 DEF Copy, Begins, IdentityInv, IdentityTypeOK
  <2>4. CASE Assign(o, p)
    BY <2>4 DEF Assign, IdentityInv, IdentityTypeOK
  <2>5. CASE AddChild(o, p)
    BY <1>1, <2>5 DEF AddChild, IdentityInv, IdentityTypeOK
  <2>6. CASE Destroy(o)
    BY <2>6 DEF Destroy, IdentityInv, IdentityTypeOK
  <2> QED BY <2>1, <2>2, <2>3, <2>4, <2>5, <2>6
<1>3. calls' = <<>>
  BY DEF Construct, ConstructUnder, Copy, Assign, AddChild, Destroy, Begins, Between
<1>4. Len(calls') = 0
  BY <1>3
<1>5. CallsInv'
  BY <1>3, <1>4 DEF CallsInv, CallsOf
<1> QED BY <1>2, <1>5 DEF IdentityInv

\* A call that is made.
LEMMA CallStep ==
  ASSUME IdentityInv, NEW o \in Objects, NEW u \in Us, SetUuid(o, u)
  PROVE  IdentityInv'
<1> DEFINE f == NewFrame(o, u)
<1>1. f \in Frame /\ f.next = 0
  BY DEF NewFrame, Frame, Us
<1>2. calls' = <<f>>
  BY DEF SetUuid
<1> HIDE DEF f
<1>3. calls' \in Seq(Frame) /\ Len(calls') = 1 /\ calls'[1] = f
  BY <1>1, <1>2
<1>4. IdentityTypeOK'
  BY <1>3 DEF SetUuid, IdentityInv, IdentityTypeOK
<1>5. CallsInv'
  BY <1>1, <1>3 DEF CallsInv, CallsOf
<1> QED BY <1>4, <1>5 DEF IdentityInv

\* A call that is left, or all: those further out go on as they were.
LEMMA LeftStep ==
  ASSUME IdentityInv, calls # <<>>, calls' = <<>> \/ calls' = Outer,
         UNCHANGED <<life, uuid, children>>,
         ended' \in {"none", "returned", "thrown", "died"}
  PROVE  IdentityInv'
<1>1. calls \in Seq(Frame)
  BY DEF IdentityInv, IdentityTypeOK
<1>2. /\ calls' \in Seq(Frame) /\ Len(calls') \in Nat /\ Len(calls') < Len(calls)
      /\ Len(calls) \in Nat
      /\ \A i \in 1..Len(calls') : calls'[i] = calls[i]
  <2>1. Len(calls) \in Nat /\ Len(calls) > 0
    BY <1>1, OuterCalls
  <2>2. CASE calls' = <<>>
    <3>1. calls' \in Seq(Frame) /\ Len(calls') = 0
      BY <2>2
    <3> QED BY <2>1, <3>1
  <2>3. CASE calls' = Outer
    <3>1. /\ Outer \in Seq(Frame) /\ Len(Outer) = Len(calls) - 1
          /\ \A i \in 1..(Len(calls) - 1) : Outer[i] = calls[i]
      BY <1>1, OuterCalls
    <3> QED BY <2>1, <2>3, <3>1
  <2> QED BY <2>2, <2>3
<1>3. IdentityTypeOK'
  BY <1>2 DEF IdentityInv, IdentityTypeOK
<1>4. \A i \in 1..Len(calls') : i \in 1..Len(calls) /\ 1 \in 1..Len(calls')
  BY <1>2
<1>5. calls' # <<>> => calls # <<>> /\ calls'[1] = calls[1]
  <2>1. calls' # <<>> => Len(calls') # 0
    BY <1>2, EmptySeq
  <2> QED BY <1>2, <2>1
<1>6. CallsInv'
  <2>1. \A i \in 1..(Len(calls') - 1) : calls'[i].next # 0
    <3>1. \A i \in 1..(Len(calls') - 1) : i \in 1..Len(calls') /\ i \in 1..(Len(calls) - 1)
      BY <1>2
    <3> QED BY <1>2, <3>1 DEF IdentityInv, CallsInv, CallsOf
  <2>2. \A i \in 1..Len(calls') : calls'[i].uuid = calls'[1].uuid
    BY <1>2, <1>4 DEF IdentityInv, CallsInv, CallsOf
  <2>3. \A i \in 1..Len(calls') : calls'[i].next # 0 => uuid'[calls'[i].of] = calls'[i].uuid
    BY <1>2, <1>4 DEF IdentityInv, CallsInv, CallsOf
  <2>4. calls' # <<>> /\ calls'[1].uuid # Unassigned =>
          \A i, j \in 1..Len(calls') :
            calls'[i].next # 0 /\ calls'[j].next # 0 /\ calls'[i].of = calls'[j].of => i = j
    BY <1>2, <1>4, <1>5 DEF IdentityInv, CallsInv, CallsOf
  <2> QED BY <2>1, <2>2, <2>3, <2>4 DEF CallsInv, CallsOf
<1> QED BY <1>3, <1>6 DEF IdentityInv

\* The innermost call has given its object the UUID.
LEMMA GivenStep ==
  ASSUME IdentityInv, Given
  PROVE  IdentityInv'
<1>1. calls \in Seq(Frame) /\ calls # <<>> /\ Top.next = 0 /\ uuid[Top.of] = Unassigned
  BY DEF Given, IdentityInv, IdentityTypeOK
<1>2. Len(calls) \in Nat \ {0} /\ Top \in Frame
  BY <1>1, OuterCalls
<1>3. /\ calls' \in Seq(Frame) /\ Len(calls') = Len(calls) /\ calls' # <<>>
      /\ \A i \in 1..(Len(calls) - 1) : calls'[i] = calls[i]
      /\ calls'[Len(calls)].of = Top.of /\ calls'[Len(calls)].uuid = Top.uuid
      /\ calls'[Len(calls)].next = 1
  <2>1. calls' = GoingOn(1)
    BY DEF Given, GoingOn
  <2>2. /\ calls' \in Seq(Frame) /\ Len(calls') = Len(calls)
        /\ \A i \in 1..(Len(calls) - 1) : calls'[i] = calls[i]
        /\ calls'[Len(calls)].of = Top.of /\ calls'[Len(calls)].uuid = Top.uuid
        /\ calls'[Len(calls)].next = 1
    BY <1>1, <2>1, TopGoesOn
  <2>3. calls' # <<>>
    BY <1>2, <2>2, EmptySeq
  <2> QED BY <2>2, <2>3
<1>4. uuid' = [uuid EXCEPT ![Top.of] = Top.uuid] /\ uuid' \in [Objects -> Us] /\ Top.of \in Objects
  BY <1>2 DEF Given, IdentityInv, IdentityTypeOK, Frame, Us
<1>5. IdentityTypeOK'
  BY <1>3, <1>4 DEF Given, IdentityInv, IdentityTypeOK, Us
<1>6. \A i \in 1..Len(calls) : i \in 1..(Len(calls) - 1) \/ i = Len(calls)
  BY <1>2
<1>7. Top = calls[Len(calls)] /\ Len(calls) \in 1..Len(calls) /\ 1 \in 1..Len(calls)
  BY <1>2 DEF Top
<1>8. \A i \in 1..Len(calls) :
        /\ calls'[i].of = calls[i].of /\ calls'[i].uuid = calls[i].uuid /\ calls'[i].next # 0
        /\ calls[i].of \in Objects
  <2>1. \A i \in 1..Len(calls) : calls[i].of \in Objects
    <3>1. \A i \in 1..Len(calls) : calls[i] \in Frame
      BY <1>1, ElementOfSeq
    <3> QED BY <3>1 DEF Frame
  <2>2. \A i \in 1..(Len(calls) - 1) : calls[i].next # 0
    BY DEF IdentityInv, CallsInv, CallsOf
  <2> QED BY <1>3, <1>6, <1>7, <2>1, <2>2
<1>9. \A i \in 1..(Len(calls) - 1) :
        i \in 1..Len(calls) /\ calls[i].next # 0 /\ uuid[calls[i].of] = calls[1].uuid
  <2>1. \A i \in 1..(Len(calls) - 1) : i \in 1..Len(calls)
    BY <1>2
  <2> QED BY <2>1 DEF IdentityInv, CallsInv, CallsOf
<1>10. Top.uuid = calls[1].uuid
  BY <1>7 DEF IdentityInv, CallsInv, CallsOf
<1>11. CallsOf(calls', uuid')
  <2>1. \A i \in 1..Len(calls') : calls'[i].uuid = calls'[1].uuid
    BY <1>3, <1>7, <1>8 DEF IdentityInv, CallsInv, CallsOf
  <2>2. \A i \in 1..Len(calls) : uuid'[calls[i].of] = calls[1].uuid
    <3>1. uuid \in [Objects -> Us]
      BY DEF IdentityInv, IdentityTypeOK, Us
    <3> QED BY <1>4, <1>6, <1>7, <1>8, <1>9, <1>10, <3>1
  <2>3. \A i \in 1..Len(calls') : uuid'[calls'[i].of] = calls'[i].uuid
    BY <1>3, <1>7, <1>8, <2>1, <2>2
  <2>4. ASSUME calls[1].uuid # Unassigned,
               NEW i \in 1..Len(calls), NEW j \in 1..Len(calls), calls[i].of = calls[j].of
        PROVE  i = j
    <3>1. \A k \in 1..(Len(calls) - 1) : calls[k].of # Top.of
      BY <1>1, <1>9, <2>4
    <3>2. CASE i \in 1..(Len(calls) - 1) /\ j \in 1..(Len(calls) - 1)
      BY <1>1, <1>9, <2>4, <3>2 DEF IdentityInv, CallsInv, CallsOf
    <3> QED BY <1>6, <1>7, <2>4, <3>1, <3>2
  <2>5. calls'[1].uuid # Unassigned =>
          \A i, j \in 1..Len(calls') : calls'[i].of = calls'[j].of => i = j
    BY <1>3, <1>7, <1>8, <2>4
  <2>6. \A i \in 1..(Len(calls') - 1) : i \in 1..Len(calls)
    BY <1>2, <1>3
  <2> QED BY <1>8, <2>1, <2>3, <2>5, <2>6 DEF CallsOf
<1> QED BY <1>5, <1>11 DEF IdentityInv, CallsInv

\* The innermost call goes on to its next child.
LEMMA GoesOnCalls ==
  ASSUME IdentityInv, calls # <<>>, Top.next # 0
  PROVE  /\ GoesOn \in Seq(Frame) /\ Len(GoesOn) = Len(calls) /\ Len(calls) \in Nat \ {0}
         /\ CallsOf(GoesOn, uuid) /\ \A i \in 1..Len(GoesOn) : GoesOn[i].next # 0
         /\ GoesOn[1].uuid = calls[1].uuid /\ Top.uuid = calls[1].uuid
         /\ uuid[Top.of] = Top.uuid /\ Top \in Frame
<1>1. calls \in Seq(Frame)
  BY DEF IdentityInv, IdentityTypeOK
<1>2. Len(calls) \in Nat \ {0} /\ Top \in Frame
  BY <1>1, OuterCalls
<1> DEFINE g == GoesOn
<1>3. /\ g \in Seq(Frame) /\ Len(g) = Len(calls)
      /\ \A i \in 1..(Len(calls) - 1) : g[i] = calls[i]
      /\ g[Len(calls)].of = Top.of /\ g[Len(calls)].uuid = Top.uuid
      /\ g[Len(calls)].next = Top.next + 1
  <2>1. Top.next + 1 \in Nat
    BY <1>2 DEF Frame
  <2>2. g = GoingOn(Top.next + 1)
    BY DEF GoesOn, GoingOn
  <2> QED BY <1>1, <2>1, <2>2, TopGoesOn
<1> HIDE DEF g
<1>4. Top.next \in Nat /\ Top.next + 1 # 0
  BY <1>2 DEF Frame
<1>5. Top = calls[Len(calls)] /\ Len(calls) \in 1..Len(calls) /\ 1 \in 1..Len(calls)
  BY <1>2 DEF Top
<1>6. \A i \in 1..Len(calls) : i \in 1..(Len(calls) - 1) \/ i = Len(calls)
  BY <1>2
<1>7. \A i \in 1..Len(calls) :
        g[i].of = calls[i].of /\ g[i].uuid = calls[i].uuid /\ g[i].next # 0 /\ calls[i].next # 0
  <2>1. \A i \in 1..(Len(calls) - 1) : calls[i].next # 0
    BY DEF IdentityInv, CallsInv, CallsOf
  <2> QED BY <1>3, <1>4, <1>5, <1>6, <2>1
<1>8. /\ \A i \in 1..Len(calls) : calls[i].uuid = calls[1].uuid /\ uuid[calls[i].of] = calls[i].uuid
      /\ calls[1].uuid # Unassigned =>
           \A i, j \in 1..Len(calls) : calls[i].of = calls[j].of => i = j
  BY <1>7 DEF IdentityInv, CallsInv, CallsOf
<1>9. \A i \in 1..(Len(calls) - 1) : i \in 1..Len(calls)
  BY <1>2
<1>10. CallsOf(g, uuid)
  BY <1>3, <1>5, <1>7, <1>8, <1>9 DEF CallsOf
<1> QED BY <1>2, <1>3, <1>5, <1>7, <1>8, <1>10 DEF g

\* The UUID is handed to a child.
LEMMA HandDownStep ==
  ASSUME IdentityInv, HandDown
  PROVE  IdentityInv'
<1>1. /\ calls # <<>> /\ Top.next # 0 /\ calls \in Seq(Frame)
      /\ Top.next \in 1..Len(children[Top.of])
  BY DEF HandDown, Handing, IdentityInv, IdentityTypeOK
<1> DEFINE g == GoesOn
           f == NewFrame(Child, uuid[Top.of])
<1>2. /\ g \in Seq(Frame) /\ Len(g) \in Nat \ {0} /\ CallsOf(g, uuid)
      /\ \A i \in 1..Len(g) : g[i].next # 0
      /\ g[1].uuid = Top.uuid /\ uuid[Top.of] = Top.uuid /\ Top \in Frame
  BY <1>1, GoesOnCalls
<1>3. f \in Frame /\ f.next = 0 /\ f.uuid = Top.uuid
  <2>1. Top.of \in Objects /\ children[Top.of] \in Seq(Objects)
    BY <1>2 DEF Frame, IdentityInv, IdentityTypeOK
  <2>2. Child \in Objects
    BY <1>1, <2>1, ElementOfSeq DEF Child
  <2>3. Top.uuid \in Uuids \union {Unassigned}
    BY <1>2 DEF Frame
  <2> QED BY <1>2, <2>2, <2>3 DEF NewFrame, Frame
<1>4. calls' = Append(g, f)
  BY DEF HandDown
<1> HIDE DEF g, f
<1>5. /\ calls' \in Seq(Frame) /\ Len(calls') = Len(g) + 1
      /\ \A i \in 1..Len(g) : calls'[i] = g[i]
      /\ calls'[Len(g) + 1] = f /\ calls' # <<>>
  BY <1>2, <1>3, <1>4, AppendProperties
<1>6. IdentityTypeOK'
  BY <1>5 DEF HandDown, IdentityInv, IdentityTypeOK
<1>7. \A i \in 1..Len(calls') : i \in 1..Len(g) \/ i = Len(g) + 1
  BY <1>2, <1>5
<1>8. 1 \in 1..Len(g) /\ Len(calls') - 1 = Len(g)
  BY <1>2, <1>5
<1>9. g # <<>>
  BY <1>2, EmptySeq
<1>10. CallsOf(calls', uuid)
  <2>1. \A i \in 1..Len(calls') : calls'[i].uuid = calls'[1].uuid
    BY <1>2, <1>3, <1>5, <1>7, <1>8 DEF CallsOf
  <2>2. \A i \in 1..Len(calls') : calls'[i].next # 0 => i \in 1..Len(g)
    BY <1>3, <1>5, <1>7
  <2>3. \A i \in 1..(Len(calls') - 1) : calls'[i].next # 0
    BY <1>2, <1>5, <1>8
  <2>4. calls'[1].uuid # Unassigned => g # <<>> /\ g[1].uuid # Unassigned
    BY <1>5, <1>8, <1>9
  <2> QED BY <1>2, <1>5, <2>1, <2>2, <2>3, <2>4 DEF CallsOf
<1>11. uuid' = uuid
  BY DEF HandDown
<1> QED BY <1>6, <1>10, <1>11 DEF IdentityInv, CallsInv

LEMMA NextIdentityInv == IdentityInv /\ [IdentityNext]_identityVars => IdentityInv'
<1> SUFFICES ASSUME IdentityInv, [IdentityNext]_identityVars PROVE IdentityInv'
  OBVIOUS
<1>1. CASE UNCHANGED identityVars
  BY <1>1 DEF identityVars, IdentityInv, IdentityTypeOK, CallsInv, CallsOf
<1>2. ASSUME NEW o \in Objects, Construct(o) \/ Destroy(o) PROVE IdentityInv'
  BY <1>2, ObjectStep
<1>3. ASSUME NEW o \in Objects, NEW p \in Objects,
             ConstructUnder(o, p) \/ Copy(o, p) \/ Assign(o, p) \/ AddChild(o, p)
      PROVE  IdentityInv'
  BY <1>3, ObjectStep
<1>4. ASSUME NEW o \in Objects, NEW u \in Uuids \union {Unassigned}, SetUuid(o, u) PROVE IdentityInv'
  BY <1>4, CallStep DEF Us
<1>5. CASE Refused \/ Overflows \/ Returns
  <2>1. ended \in {"none", "returned", "thrown", "died"}
    BY DEF IdentityInv, IdentityTypeOK
  <2>2. /\ calls # <<>> /\ (calls' = <<>> \/ calls' = Outer) /\ UNCHANGED <<life, uuid, children>>
        /\ ended' \in {"none", "returned", "thrown", "died"}
    BY <1>5, <2>1 DEF Refused, Throws, Overflows, Handing, Dies, Returns
  <2> QED BY <2>2, LeftStep
<1>6. CASE Given
  BY <1>6, GivenStep
<1>7. CASE HandDown
  BY <1>7, HandDownStep
<1>8. CASE HandDownToDestroyed
  <2>1. calls # <<>> /\ Top.next # 0
    BY <1>8 DEF HandDownToDestroyed, Handing
  <2>2. CASE Throws \/ Dies
    <3>1. /\ calls' = <<>> /\ UNCHANGED <<life, uuid, children>>
          /\ ended' \in {"none", "returned", "thrown", "died"}
      BY <2>2 DEF Throws, Dies
    <3> QED BY <2>1, <3>1, LeftStep
  <2>3. CASE calls' = GoesOn /\ UNCHANGED <<life, uuid, children, ended>>
    <3>1. GoesOn \in Seq(Frame) /\ CallsOf(GoesOn, uuid)
      BY <2>1, GoesOnCalls
    <3>2. IdentityTypeOK'
      BY <2>3, <3>1 DEF IdentityInv, IdentityTypeOK
    <3>3. CallsOf(calls', uuid')
      BY <2>3, <3>1
    <3> QED BY <3>2, <3>3 DEF IdentityInv, CallsInv
  <2> QED BY <1>8, <2>2, <2>3 DEF HandDownToDestroyed
<1> QED BY <1>1, <1>2, <1>3, <1>4, <1>5, <1>6, <1>7, <1>8 DEF IdentityNext

-----------------------------------------------------------------------------
\* Handing down a UUID comes to an end, whatever the graph of the children: it meets no
\* object twice without throwing (identifiable.cpp:59-75).
THEOREM HandingDownEnds == IdentitySpec => []SettingEnds
<1>1. IdentityInv => SettingEnds
  <2> SUFFICES ASSUME IdentityInv PROVE SettingEnds
    OBVIOUS
  <2>1. \A i \in 1..(Len(calls) - 1) : calls[i].next # 0
    BY DEF IdentityInv, CallsInv, CallsOf
  <2>2. \A i \in 1..(Len(calls) - 1) : i \in 1..Len(calls)
    <3>1. Len(calls) \in Nat
      BY LenProperties DEF IdentityInv, IdentityTypeOK
    <3> QED BY <3>1
  <2> QED BY <2>1, <2>2 DEF IdentityInv, CallsInv, CallsOf, SettingEnds
<1> QED BY <1>1, InitIdentityInv, NextIdentityInv, PTL DEF IdentitySpec

-----------------------------------------------------------------------------
(***************************************************************************)
(* Who is told.  V are the objects that were given the UUID by the calls   *)
(* under way or by calls that these made.  The children that a call has    *)
(* passed were reached: they are of V, or no longer alive, or it is their  *)
(* turn.  Only an object whose call is under way has others.               *)
(***************************************************************************)
Coming(cs) == IF cs[Len(cs)].next = 0 THEN {cs[Len(cs)].of} ELSE {}

Reached(cs, V) == V \union Coming(cs) \union {o \in Objects : ~Alive(o)}

Visits(cs, V) ==
  /\ \A i \in 1..Len(cs) :
       /\ cs[i].next # 0 => cs[i].of \in V
       /\ \A j \in 1..Len(children[cs[i].of]) :
            j < cs[i].next => children[cs[i].of][j] \in Reached(cs, V)
  /\ \A d \in V : \/ \A j \in 1..Len(children[d]) : children[d][j] \in Reached(cs, V)
                  \/ \E i \in 1..Len(cs) : cs[i].next # 0 /\ cs[i].of = d

FamilyInv ==
  /\ \A o \in Objects : ~Alive(o) => children[o] = <<>>
  /\ calls # <<>> =>
       /\ ended = "none"
       /\ \E V \in SUBSET Objects : Visits(calls, V) /\ \A d \in V : uuid[d] = calls[1].uuid

LEMMA InitFamilyInv == IdentityInit => FamilyInv
BY DEF IdentityInit, FamilyInv

\* Between calls: what is not alive has no children.
LEMMA ObjectKeepsFamily ==
  ASSUME IdentityInv, FamilyInv, NEW o \in Objects, NEW p \in Objects,
         Construct(o) \/ ConstructUnder(o, p) \/ Copy(o, p) \/ Assign(o, p)
           \/ AddChild(o, p) \/ Destroy(o)
  PROVE  FamilyInv'
<1>1. calls' = <<>>
  BY DEF Construct, ConstructUnder, Copy, Assign, AddChild, Destroy, Begins, Between
<1>2. /\ life \in [Objects -> {"unborn", "alive", "destroyed"}]
      /\ children \in [Objects -> Seq(Objects)]
      /\ \A q \in Objects : ~Alive(q) => children[q] = <<>>
  BY DEF IdentityInv, IdentityTypeOK, FamilyInv
<1>3. ASSUME NEW q \in Objects, ~Alive(q)' PROVE children'[q] = <<>>
  <2>1. CASE Construct(o) \/ Copy(o, p)
    BY <1>2, <1>3, <2>1 DEF Construct, Copy, Begins, Alive
  <2>2. CASE ConstructUnder(o, p)
    BY <1>2, <1>3, <2>2 DEF ConstructUnder, Begins, Added, Alive
  <2>3. CASE Assign(o, p)
    BY <1>2, <1>3, <2>3 DEF Assign, Alive
  <2>4. CASE AddChild(o, p)
    BY <1>2, <1>3, <2>4 DEF AddChild, Added, Alive
  <2>5. CASE Destroy(o)
    BY <1>2, <1>3, <2>5 DEF Destroy, Alive
  <2> QED BY <2>1, <2>2, <2>3, <2>4, <2>5
<1> QED BY <1>1, <1>3 DEF FamilyInv

\* While the calls go on, what lives and who has which children stay as they are.
LEMMA CallKeepsFamily ==
  ASSUME FamilyInv, UNCHANGED <<life, children>>, calls' # <<>> => ended' = "none",
         calls' # <<>> =>
           \E V \in SUBSET Objects : Visits(calls', V) /\ \A d \in V : uuid'[d] = calls'[1].uuid
  PROVE  FamilyInv'
<1>1. \A V : Visits(calls', V) => Visits(calls, V)'
  BY DEF Visits, Reached, Alive, Coming
<1>2. \A o \in Objects : ~Alive(o)' => children'[o] = <<>>
  BY DEF FamilyInv, Alive
<1> QED BY <1>1, <1>2 DEF FamilyInv

LEMMA SetUuidKeepsFamily ==
  ASSUME FamilyInv, NEW o \in Objects, NEW u \in Us, SetUuid(o, u) PROVE FamilyInv'
<1> DEFINE f == NewFrame(o, u)
<1>1. f.next = 0 /\ f.of = o
  BY DEF NewFrame
<1>2. calls' = <<f>>
  BY DEF SetUuid
<1> HIDE DEF f
<1>3. Len(calls') = 1 /\ calls'[1] = f /\ \A i \in 1..1 : i = 1
  BY <1>2
<1>4. \A j \in 1..Len(children[o]) : ~(j < f.next)
  BY <1>1
<1>5. Visits(calls', {})
  BY <1>1, <1>3, <1>4 DEF Visits
<1>6. UNCHANGED <<life, children>> /\ ended' = "none"
  BY DEF SetUuid
<1> QED BY <1>5, <1>6, CallKeepsFamily

LEMMA GivenKeepsFamily ==
  ASSUME IdentityInv, FamilyInv, Given PROVE FamilyInv'
<1>1. /\ calls \in Seq(Frame) /\ calls # <<>> /\ Top.next = 0
      /\ uuid' = [uuid EXCEPT ![Top.of] = Top.uuid] /\ UNCHANGED <<life, children, ended>>
      /\ uuid \in [Objects -> Uuids \union {Unassigned}]
      /\ calls' = GoingOn(1)
  BY DEF Given, GoingOn, IdentityInv, IdentityTypeOK
<1>2. Len(calls) \in Nat \ {0} /\ Top \in Frame /\ Top = calls[Len(calls)] /\ Top.of \in Objects
  BY <1>1, OuterCalls DEF Top, Frame
<1>3. /\ Len(calls') = Len(calls)
      /\ \A i \in 1..(Len(calls) - 1) : calls'[i] = calls[i]
      /\ calls'[Len(calls)].of = Top.of /\ calls'[Len(calls)].uuid = Top.uuid
      /\ calls'[Len(calls)].next = 1
  BY <1>1, TopGoesOn
<1>4. /\ \A i \in 1..Len(calls) : i \in 1..(Len(calls) - 1) \/ i = Len(calls)
      /\ Len(calls) \in 1..Len(calls) /\ 1 \in 1..Len(calls)
  BY <1>2
<1>5. PICK V \in SUBSET Objects : Visits(calls, V) /\ \A d \in V : uuid[d] = calls[1].uuid
  BY <1>1 DEF FamilyInv
<1> DEFINE W == V \union {Top.of}
<1>6. Top.uuid = calls[1].uuid /\ calls'[1].uuid = calls[1].uuid
  <2>1. Top.uuid = calls[1].uuid
    BY <1>2, <1>4 DEF IdentityInv, CallsInv, CallsOf
  <2> QED BY <1>3, <1>4, <2>1
<1>7. \A d \in W : uuid'[d] = calls'[1].uuid
  BY <1>1, <1>2, <1>5, <1>6
<1>8. Reached(calls', W) = Reached(calls, V)
  BY <1>1, <1>2, <1>3 DEF Reached, Coming
<1>9. Visits(calls', W)
  <2>1. ASSUME NEW i \in 1..Len(calls')
        PROVE  /\ calls'[i].next # 0 => calls'[i].of \in W
               /\ \A j \in 1..Len(children[calls'[i].of]) :
                    j < calls'[i].next => children[calls'[i].of][j] \in Reached(calls', W)
    <3>1. CASE i = Len(calls)
      <4>1. \A j \in 1..Len(children[Top.of]) : ~(j < 1)
        OBVIOUS
      <4> QED BY <1>3, <3>1, <4>1
    <3>2. CASE i \in 1..(Len(calls) - 1)
      <4>1. calls'[i] = calls[i] /\ i \in 1..Len(calls)
        BY <1>3, <2>1, <3>2
      <4> QED BY <1>5, <1>8, <4>1 DEF Visits
    <3> QED BY <1>3, <1>4, <2>1, <3>1, <3>2
  <2>2. ASSUME NEW d \in W
        PROVE  \/ \A j \in 1..Len(children[d]) : children[d][j] \in Reached(calls', W)
               \/ \E i \in 1..Len(calls') : calls'[i].next # 0 /\ calls'[i].of = d
    <3>1. CASE d = Top.of
      BY <1>3, <1>4, <3>1
    <3>2. CASE d \in V
      <4>1. CASE \A j \in 1..Len(children[d]) : children[d][j] \in Reached(calls, V)
        BY <1>8, <4>1
      <4>2. CASE \E i \in 1..Len(calls) : calls[i].next # 0 /\ calls[i].of = d
        <5>1. PICK i \in 1..Len(calls) : calls[i].next # 0 /\ calls[i].of = d
          BY <4>2
        <5>2. i \in 1..(Len(calls) - 1)
          BY <1>1, <1>2, <1>4, <5>1
        <5>3. calls'[i] = calls[i] /\ i \in 1..Len(calls')
          BY <1>3, <5>1, <5>2
        <5> QED BY <5>1, <5>3
      <4> QED BY <1>5, <3>2, <4>1, <4>2 DEF Visits
    <3> QED BY <3>1, <3>2
  <2> HIDE DEF W
  <2> QED BY <2>1, <2>2 DEF Visits
<1>10. W \in SUBSET Objects /\ ended' = "none"
  BY <1>1, <1>2 DEF FamilyInv
<1> HIDE DEF W
<1> QED BY <1>1, <1>7, <1>9, <1>10, CallKeepsFamily

\* The innermost call has passed its child.
LEMMA GoesOnVisits ==
  ASSUME IdentityInv, calls # <<>>, Handing, NEW V, Visits(calls, V), NEW R,
         Reached(calls, V) \subseteq R, Child \in R
  PROVE  /\ \A i \in 1..Len(GoesOn) :
              /\ GoesOn[i].next # 0 /\ GoesOn[i].of \in V
              /\ \A j \in 1..Len(children[GoesOn[i].of]) :
                   j < GoesOn[i].next => children[GoesOn[i].of][j] \in R
         /\ \A d \in V : \/ \A j \in 1..Len(children[d]) : children[d][j] \in R
                         \/ \E i \in 1..Len(GoesOn) : GoesOn[i].of = d
<1> DEFINE g == GoesOn
<1>1. calls \in Seq(Frame) /\ Top.next # 0
  BY DEF IdentityInv, IdentityTypeOK, Handing
<1>2. Len(calls) \in Nat \ {0} /\ Top \in Frame /\ Top = calls[Len(calls)] /\ Top.next \in Nat
  BY <1>1, OuterCalls DEF Top, Frame
<1>3. /\ Len(g) = Len(calls) /\ \A i \in 1..(Len(calls) - 1) : g[i] = calls[i]
      /\ g[Len(calls)].of = Top.of /\ g[Len(calls)].next = Top.next + 1
  <2>1. g = GoingOn(Top.next + 1) /\ Top.next + 1 \in Nat
    BY <1>2 DEF GoesOn, GoingOn
  <2> QED BY <1>1, <2>1, TopGoesOn
<1>4. /\ \A i \in 1..Len(calls) : i \in 1..(Len(calls) - 1) \/ i = Len(calls)
      /\ Len(calls) \in 1..Len(calls) /\ \A i \in 1..(Len(calls) - 1) : i \in 1..Len(calls)
  BY <1>2
<1> HIDE DEF g
<1>5. \A i \in 1..Len(calls) : calls[i].next # 0 /\ calls[i].of \in V /\ g[i].of = calls[i].of
  <2>1. \A i \in 1..Len(calls) : calls[i].next # 0
    BY <1>1, <1>2, <1>4 DEF IdentityInv, CallsInv, CallsOf
  <2> QED BY <1>2, <1>3, <1>4, <2>1 DEF Visits
<1>6. ASSUME NEW i \in 1..Len(g)
      PROVE  /\ g[i].next # 0
             /\ \A j \in 1..Len(children[g[i].of]) :
                  j < g[i].next => children[g[i].of][j] \in R
  <2>1. CASE i = Len(calls)
    <3>1. g[i].next = Top.next + 1 /\ g[i].of = Top.of /\ Top.next + 1 # 0
      BY <1>2, <1>3, <2>1
    <3>2. ASSUME NEW j \in 1..Len(children[Top.of]), j < Top.next + 1
          PROVE  children[Top.of][j] \in R
      <4>1. j = Top.next \/ j < Top.next
        BY <1>2, <3>2
      <4>2. CASE j = Top.next
        BY <4>2 DEF Child
      <4>3. CASE j < Top.next
        <5>1. children[Top.of][j] \in Reached(calls, V)
          BY <1>2, <1>4, <4>3 DEF Visits
        <5> QED BY <5>1
      <4> QED BY <4>1, <4>2, <4>3
    <3> QED BY <3>1, <3>2
  <2>2. CASE i \in 1..(Len(calls) - 1)
    <3>1. g[i] = calls[i] /\ i \in 1..Len(calls)
      BY <1>3, <1>4, <2>2
    <3>2. \A j \in 1..Len(children[calls[i].of]) :
            j < calls[i].next => children[calls[i].of][j] \in Reached(calls, V)
      BY <3>1 DEF Visits
    <3> QED BY <1>5, <3>1, <3>2
  <2> QED BY <1>3, <1>4, <2>1, <2>2
<1>7. ASSUME NEW d \in V
      PROVE  \/ \A j \in 1..Len(children[d]) : children[d][j] \in R
             \/ \E i \in 1..Len(g) : g[i].of = d
  BY <1>3, <1>5 DEF Visits
<1> QED BY <1>3, <1>5, <1>6, <1>7 DEF g

LEMMA HandingKeepsFamily ==
  ASSUME IdentityInv, FamilyInv, HandDown \/ HandDownToDestroyed PROVE FamilyInv'
<1>1. Handing /\ calls # <<>> /\ UNCHANGED <<life, children, uuid>>
  BY DEF HandDown, HandDownToDestroyed, Handing, Throws, Dies
<1>2. PICK V \in SUBSET Objects : Visits(calls, V) /\ \A d \in V : uuid[d] = calls[1].uuid
  BY <1>1 DEF FamilyInv
<1>3. /\ GoesOn \in Seq(Frame) /\ Len(GoesOn) \in Nat \ {0}
      /\ GoesOn[1].uuid = calls[1].uuid /\ Top \in Frame
  BY <1>1, GoesOnCalls DEF Handing
<1>4. Child \in Objects
  <2>1. children[Top.of] \in Seq(Objects)
    BY <1>3 DEF Frame, IdentityInv, IdentityTypeOK
  <2> QED BY <1>1, <2>1, ElementOfSeq DEF Handing, Child
<1>5. Coming(calls) = {}
  BY <1>1 DEF Coming, Handing, Top
<1>6. CASE HandDown
  <2> DEFINE f == NewFrame(Child, uuid[Top.of])
             s == Append(GoesOn, f)
             R == V \union {Child} \union {o \in Objects : ~Alive(o)}
  <2>1. f.next = 0 /\ f.of = Child
    BY DEF NewFrame
  <2>2. calls' = s
    BY <1>6 DEF HandDown
  <2> HIDE DEF f
  <2>3. /\ Len(s) = Len(GoesOn) + 1 /\ s[Len(GoesOn) + 1] = f
        /\ \A i \in 1..Len(GoesOn) : s[i] = GoesOn[i]
    <3>1. GoesOn \in Seq(Frame \union {f}) /\ f \in Frame \union {f}
      BY <1>3, SeqMonotonic
    <3> QED BY <3>1, AppendProperties
  <2>4. /\ Len(s) \in Nat /\ 1 \in 1..Len(GoesOn)
        /\ \A i \in 1..Len(s) : i \in 1..Len(GoesOn) \/ i = Len(GoesOn) + 1
        /\ \A i \in 1..Len(GoesOn) : i \in 1..Len(s)
    BY <1>3, <2>3
  <2> HIDE DEF s
  <2>5. Reached(s, V) = R /\ Reached(calls, V) \subseteq R /\ Child \in R
    BY <1>5, <2>1, <2>3 DEF Reached, Coming
  <2> HIDE DEF R
  <2>6. /\ \A i \in 1..Len(GoesOn) :
             /\ GoesOn[i].next # 0 /\ GoesOn[i].of \in V
             /\ \A j \in 1..Len(children[GoesOn[i].of]) :
                  j < GoesOn[i].next => children[GoesOn[i].of][j] \in R
        /\ \A d \in V : \/ \A j \in 1..Len(children[d]) : children[d][j] \in R
                        \/ \E i \in 1..Len(GoesOn) : GoesOn[i].of = d
    BY <1>1, <1>2, <2>5, GoesOnVisits
  <2>7. \A j \in 1..Len(children[f.of]) : ~(j < f.next)
    BY <2>1
  <2>8. Visits(s, V)
    <3>1. ASSUME NEW i \in 1..Len(s)
          PROVE  /\ s[i].next # 0 => s[i].of \in V
                 /\ \A j \in 1..Len(children[s[i].of]) :
                      j < s[i].next => children[s[i].of][j] \in R
      BY <2>1, <2>3, <2>4, <2>6, <2>7
    <3>2. ASSUME NEW d \in V
          PROVE  \/ \A j \in 1..Len(children[d]) : children[d][j] \in R
                 \/ \E i \in 1..Len(s) : s[i].next # 0 /\ s[i].of = d
      BY <2>3, <2>4, <2>6
    <3> QED BY <2>5, <3>1, <3>2 DEF Visits
  <2>9. calls'[1].uuid = calls[1].uuid
    BY <1>3, <2>2, <2>3, <2>4
  <2>10. ended' = "none"
    BY <1>1, <1>6 DEF HandDown, FamilyInv
  <2> QED BY <1>1, <1>2, <2>2, <2>8, <2>9, <2>10, CallKeepsFamily
<1>7. CASE HandDownToDestroyed
  <2>1. CASE calls' = <<>>
    BY <1>1, <2>1, CallKeepsFamily
  <2>2. CASE calls' # <<>>
    <3>1. calls' = GoesOn /\ ended' = ended /\ ~Alive(Child)
      BY <1>7, <2>2 DEF HandDownToDestroyed, Throws, Dies
    <3> DEFINE R == V \union {o \in Objects : ~Alive(o)}
    <3>2. Reached(calls, V) = R /\ Child \in R
      BY <1>4, <1>5, <3>1 DEF Reached
    <3>3. R \subseteq Reached(GoesOn, V)
      BY DEF Reached
    <3> HIDE DEF R
    <3>4. /\ \A i \in 1..Len(GoesOn) :
               /\ GoesOn[i].next # 0 /\ GoesOn[i].of \in V
               /\ \A j \in 1..Len(children[GoesOn[i].of]) :
                    j < GoesOn[i].next => children[GoesOn[i].of][j] \in R
          /\ \A d \in V : \/ \A j \in 1..Len(children[d]) : children[d][j] \in R
                          \/ \E i \in 1..Len(GoesOn) : GoesOn[i].of = d
      BY <1>1, <1>2, <3>2, GoesOnVisits
    <3>5. Visits(GoesOn, V)
      BY <3>3, <3>4 DEF Visits
    <3>6. ended' = "none"
      BY <1>1, <3>1 DEF FamilyInv
    <3> QED BY <1>1, <1>2, <1>3, <3>1, <3>5, <3>6, CallKeepsFamily
  <2> QED BY <2>1, <2>2
<1> QED BY <1>6, <1>7

\* The innermost call has passed all of its children, so that of those it was for all the
\* children were reached.
LEMMA ReturningVisits ==
  ASSUME IdentityInv, Returns, NEW V, Visits(calls, V)
  PROVE  LET R == V \union {o \in Objects : ~Alive(o)}
         IN  /\ Reached(calls, V) = R
             /\ \A d \in V : \/ \A j \in 1..Len(children[d]) : children[d][j] \in R
                             \/ \E i \in 1..(Len(calls) - 1) : calls[i].next # 0 /\ calls[i].of = d
<1> DEFINE R == V \union {o \in Objects : ~Alive(o)}
<1>1. /\ calls \in Seq(Frame) /\ calls # <<>> /\ Top.next > Len(children[Top.of])
      /\ children \in [Objects -> Seq(Objects)]
  BY DEF Returns, IdentityInv, IdentityTypeOK
<1>2. Len(calls) \in Nat \ {0} /\ Top \in Frame /\ Top = calls[Len(calls)]
  BY <1>1, OuterCalls DEF Top
<1>3. Len(children[Top.of]) \in Nat /\ Top.next \in Nat /\ Top.next # 0
  BY <1>1, <1>2, LenProperties DEF Frame
<1>4. Reached(calls, V) = R
  BY <1>2, <1>3 DEF Reached, Coming
<1> HIDE DEF R
<1>5. ASSUME NEW d \in V
      PROVE  \/ \A j \in 1..Len(children[d]) : children[d][j] \in R
             \/ \E i \in 1..(Len(calls) - 1) : calls[i].next # 0 /\ calls[i].of = d
  <2>1. CASE \A j \in 1..Len(children[d]) : children[d][j] \in Reached(calls, V)
    BY <1>4, <2>1
  <2>2. CASE \E i \in 1..Len(calls) : calls[i].next # 0 /\ calls[i].of = d
    <3>1. PICK i \in 1..Len(calls) : calls[i].next # 0 /\ calls[i].of = d
      BY <2>2
    <3>2. CASE i \in 1..(Len(calls) - 1)
      BY <3>1, <3>2
    <3>3. CASE i = Len(calls)
      <4>1. d = Top.of /\ Len(calls) \in 1..Len(calls)
        BY <1>2, <3>1, <3>3
      <4>2. \A j \in 1..Len(children[Top.of]) : j < Top.next
        BY <1>1, <1>3
      <4>3. \A j \in 1..Len(children[d]) : children[d][j] \in Reached(calls, V)
        BY <1>2, <4>1, <4>2 DEF Visits
      <4> QED BY <1>4, <4>3
    <3> QED BY <1>2, <3>2, <3>3
  <2> QED BY <2>1, <2>2 DEF Visits
<1> QED BY <1>4, <1>5 DEF R

LEMMA ReturnsKeepsFamily ==
  ASSUME IdentityInv, FamilyInv, Returns PROVE FamilyInv'
<1>1. calls \in Seq(Frame) /\ calls # <<>> /\ calls' = Outer /\ UNCHANGED <<life, children, uuid>>
  BY DEF Returns, IdentityInv, IdentityTypeOK
<1>2. CASE calls' = <<>>
  BY <1>1, <1>2, CallKeepsFamily
<1>3. CASE calls' # <<>>
  <2>1. PICK V \in SUBSET Objects : Visits(calls, V) /\ \A d \in V : uuid[d] = calls[1].uuid
    BY <1>1 DEF FamilyInv
  <2>2. /\ Outer \in Seq(Frame) /\ Len(Outer) = Len(calls) - 1 /\ Len(calls) \in Nat
        /\ \A i \in 1..(Len(calls) - 1) : Outer[i] = calls[i]
    BY <1>1, OuterCalls
  <2>3. Len(Outer) \in Nat \ {0} /\ \A i \in 1..Len(Outer) : i \in 1..Len(calls)
    <3>1. Len(Outer) \in Nat \ {0}
      BY <1>1, <1>3, <2>2, EmptySeq
    <3> QED BY <2>2, <3>1
  <2> DEFINE R == V \union {o \in Objects : ~Alive(o)}
  <2>4. /\ Reached(calls, V) = R
        /\ \A d \in V : \/ \A j \in 1..Len(children[d]) : children[d][j] \in R
                        \/ \E i \in 1..(Len(calls) - 1) : calls[i].next # 0 /\ calls[i].of = d
    BY <2>1, ReturningVisits
  <2>5. R \subseteq Reached(Outer, V)
    BY DEF Reached
  <2> HIDE DEF R
  <2>6. Visits(Outer, V)
    <3>1. ASSUME NEW i \in 1..Len(Outer)
          PROVE  /\ Outer[i].next # 0 => Outer[i].of \in V
                 /\ \A j \in 1..Len(children[Outer[i].of]) :
                      j < Outer[i].next => children[Outer[i].of][j] \in R
      BY <2>1, <2>2, <2>3, <2>4 DEF Visits
    <3>2. ASSUME NEW d \in V
          PROVE  \/ \A j \in 1..Len(children[d]) : children[d][j] \in R
                 \/ \E i \in 1..Len(Outer) : Outer[i].next # 0 /\ Outer[i].of = d
      BY <2>2, <2>4
    <3> QED BY <2>5, <3>1, <3>2 DEF Visits
  <2>7. Outer[1].uuid = calls[1].uuid
    BY <2>2, <2>3
  <2>8. ended' = "none"
    BY <1>1, <1>3 DEF Returns, FamilyInv
  <2> QED BY <1>1, <2>1, <2>6, <2>7, <2>8, CallKeepsFamily
<1> QED BY <1>2, <1>3

LEMMA NextFamilyInv == IdentityInv /\ FamilyInv /\ [IdentityNext]_identityVars => FamilyInv'
<1> SUFFICES ASSUME IdentityInv, FamilyInv, [IdentityNext]_identityVars PROVE FamilyInv'
  OBVIOUS
<1>1. CASE UNCHANGED identityVars
  <2>1. UNCHANGED <<life, uuid, children, calls, ended>>
    BY <1>1 DEF identityVars
  <2>2. CASE calls' = <<>>
    BY <2>1, <2>2, CallKeepsFamily
  <2>3. CASE calls' # <<>>
    <3>1. PICK V \in SUBSET Objects : Visits(calls, V) /\ \A d \in V : uuid[d] = calls[1].uuid
      BY <2>1, <2>3 DEF FamilyInv
    <3>2. Visits(calls', V) /\ calls'[1].uuid = calls[1].uuid /\ ended' = "none"
      BY <2>1, <2>3, <3>1 DEF FamilyInv
    <3> QED BY <2>1, <3>1, <3>2, CallKeepsFamily
  <2> QED BY <2>2, <2>3
<1>2. ASSUME NEW o \in Objects, Construct(o) \/ Destroy(o) PROVE FamilyInv'
  BY <1>2, ObjectKeepsFamily
<1>3. ASSUME NEW o \in Objects, NEW p \in Objects,
             ConstructUnder(o, p) \/ Copy(o, p) \/ Assign(o, p) \/ AddChild(o, p)
      PROVE  FamilyInv'
  BY <1>3, ObjectKeepsFamily
<1>4. ASSUME NEW o \in Objects, NEW u \in Uuids \union {Unassigned}, SetUuid(o, u) PROVE FamilyInv'
  BY <1>4, SetUuidKeepsFamily DEF Us
<1>5. CASE Refused \/ Overflows
  <2>1. calls' = <<>> /\ UNCHANGED <<life, children>>
    BY <1>5 DEF Refused, Throws, Overflows, Dies
  <2> QED BY <2>1, CallKeepsFamily
<1>6. CASE Given
  BY <1>6, GivenKeepsFamily
<1>7. CASE HandDown \/ HandDownToDestroyed
  BY <1>7, HandingKeepsFamily
<1>8. CASE Returns
  BY <1>8, ReturnsKeepsFamily
<1> QED BY <1>1, <1>2, <1>3, <1>4, <1>5, <1>6, <1>7, <1>8 DEF IdentityNext

\* When the outermost call returns, what it was reached by has no other children.
LEMMA TheFamilyHasIt ==
  ASSUME IdentityInv, FamilyInv, IdentityNext, calls # <<>>, ended' = "returned",
         NEW d \in Family(calls[1].of), Alive(d)
  PROVE  uuid'[d] = calls[1].uuid
<1>1. Returns /\ Outer = <<>>
  <2>1. ended = "none"
    BY DEF FamilyInv
  <2>2. "none" # "returned" /\ "died" # "returned" /\ "thrown" # "returned"
    OBVIOUS
  <2>3. Returns
    BY <2>1, <2>2 DEF IdentityNext, Construct, ConstructUnder, Copy, Assign, AddChild, Destroy,
              Begins, Between, SetUuid, Refused, Given, HandDown, Overflows, HandDownToDestroyed,
              Throws, Dies
  <2> QED BY <2>1, <2>2, <2>3 DEF Returns
<1>2. PICK V \in SUBSET Objects : Visits(calls, V) /\ \A e \in V : uuid[e] = calls[1].uuid
  BY DEF FamilyInv
<1> DEFINE R == V \union {o \in Objects : ~Alive(o)}
<1>3. /\ calls \in Seq(Frame) /\ Len(calls) = 1 /\ Top = calls[1] /\ Top \in Frame
      /\ Top.next # 0 /\ children \in [Objects -> Seq(Objects)]
  <2>1. calls \in Seq(Frame) /\ children \in [Objects -> Seq(Objects)]
    BY DEF IdentityInv, IdentityTypeOK
  <2>2. Len(calls) \in Nat \ {0} /\ Top \in Frame /\ Len(Outer) = Len(calls) - 1 /\ Len(Outer) = 0
    BY <1>1, <2>1, OuterCalls, EmptySeq
  <2>3. Len(calls) = 1
    BY <2>2
  <2>4. Len(children[Top.of]) \in Nat /\ Top.next > Len(children[Top.of]) /\ Top.next \in Nat
    BY <1>1, <2>1, <2>2, LenProperties DEF Returns, Frame
  <2> QED BY <2>1, <2>2, <2>3, <2>4 DEF Top
<1>4. \A e \in V : \A j \in 1..Len(children[e]) : children[e][j] \in R
  <2>1. \A i \in 1..(Len(calls) - 1) : FALSE
    BY <1>3
  <2> QED BY <1>1, <1>2, <2>1, ReturningVisits
<1>5. calls[1].of \in R
  BY <1>2, <1>3 DEF Visits
<1>6. ASSUME NEW p \in R PROVE ToSet(children[p]) \subseteq R
  <2>1. CASE p \in V
    <3>1. DOMAIN children[p] = 1..Len(children[p])
      BY <1>3, <2>1, LenProperties
    <3> QED BY <1>4, <2>1, <3>1 DEF ToSet
  <2>2. CASE p \in Objects /\ ~Alive(p)
    <3>1. children[p] = <<>>
      BY <2>2 DEF FamilyInv
    <3> QED BY <3>1 DEF ToSet
  <2> QED BY <2>1, <2>2
<1>7. R \in SUBSET Objects
  BY <1>2
<1> HIDE DEF R
<1>8. d \in R
  BY <1>5, <1>6, <1>7 DEF Family
<1>9. uuid[d] = calls[1].uuid
  BY <1>2, <1>8 DEF R
<1> QED BY <1>1, <1>9 DEF Returns

\* When a call of __set_uuid returns, the whole family has the UUID, whatever the graph
\* (identifiable.cpp:59-75).
THEOREM TheFamilyIsTold == IdentitySpec => FamilyIsTold
<1> DEFINE Inv == IdentityInv /\ FamilyInv
           Tells == calls # <<>> /\ ended' = "returned" =>
                      \A d \in Family(calls[1].of) : Alive(d) => uuid'[d] = calls[1].uuid
<1>1. IdentityInit => Inv
  BY InitIdentityInv, InitFamilyInv
<1>2. Inv /\ [IdentityNext]_identityVars => Inv'
  BY NextIdentityInv, NextFamilyInv
<1>3. Inv /\ [IdentityNext]_identityVars => [Tells]_identityVars
  <2>1. SUFFICES ASSUME IdentityInv, FamilyInv, IdentityNext PROVE Tells
    OBVIOUS
  <2> QED BY <2>1, TheFamilyHasIt
<1> QED BY <1>1, <1>2, <1>3, PTL DEF IdentitySpec, FamilyIsTold

-----------------------------------------------------------------------------
(***************************************************************************)
(* The sheets.  Parents and nested sheets know each other as long as       *)
(* set_parent is not called; a sheet and its trackers do as long as no     *)
(* tracker is copied, except that it may not know of a tracker's death.    *)
(***************************************************************************)
\* What is not there points to nothing.
GoneIsBare ==
  /\ \A s \in Sheets : ~Live(s) => nested[s] = {} /\ trackers[s] = {} /\ parent[s] = Null
  /\ \A t \in Trackers : ~Live(t) => ss[t] = Null
  /\ \A t \in Trackers, s \in Sheets : existence[t] = "none" => t \notin trackers[s]

\* A sheet is nested in one other at most, which is its parent.
NestedAreOwn ==
  "reparented" \notin causes =>
    /\ \A p \in Sheets : \A c \in nested[p] : Live(c) /\ parent[c] = p
    /\ \A c \in Sheets : parent[c] # Null => c \in nested[parent[c]]

\* A tracker is known to one sheet at most, which is its own.
TrackersAreOwn ==
  /\ "copied" \notin causes =>
       \A s \in Sheets : \A t \in trackers[s] : Live(t) => ss[t] = s
  /\ causes = {} => \A s \in Sheets : \A t \in trackers[s] : Live(t)

\* s is in the tree of a sheet that a tracker will delete.
IsHeld(s) ==
  \E t \in Trackers : Live(t) /\ ss[t] # Null /\ parent[ss[t]] = Null /\ s \in Tree(ss[t])

AllAreHeld ==
  (running /\ causes \intersect {"copied", "reparented"} = {}) =>
    \A s \in Sheets : Live(s) => IsHeld(s)

AnalyticsInv ==
  /\ PointersAreSound /\ GoneIsBare /\ NestedAreOwn /\ TrackersAreOwn /\ AllAreHeld
  /\ CommitIsComplete

LEMMA LiveSheets ==
  ASSUME AnalyticsTypeOK, NEW s \in Sheets \union Trackers
  PROVE  Live(s) <=> existence[s] = "alive"
BY AnalyticsAssumption DEF Live

\* A tree has its sheet and what is nested in a sheet of it.
LEMMA TreeIs ==
  ASSUME AnalyticsTypeOK, NEW s \in Sheets
  PROVE  /\ s \in Tree(s) /\ Tree(s) \in SUBSET Sheets
         /\ \A p \in Tree(s) : NestedIn(p) \subseteq Tree(s)
<1>1. s \in Tree(s) /\ Tree(s) \in SUBSET Sheets
  BY DEF Tree
<1>2. ASSUME NEW p \in Tree(s), NEW c \in NestedIn(p) PROVE c \in Tree(s)
  <2>1. c \in Sheets
    BY <1>1, <1>2 DEF NestedIn, AnalyticsTypeOK
  <2>2. ASSUME NEW S \in SUBSET Sheets, s \in S, \A q \in S : NestedIn(q) \subseteq S PROVE c \in S
    <3>1. p \in S
      BY <2>2 DEF Tree
    <3> QED BY <1>2, <2>2, <3>1
  <2> QED BY <2>1, <2>2 DEF Tree
<1> QED BY <1>1, <1>2

\* Nothing else is in it.
LEMMA TreeLeast ==
  ASSUME NEW s \in Sheets, NEW S \in SUBSET Sheets, s \in S,
         \A p \in S : NestedIn(p) \subseteq S
  PROVE  Tree(s) \subseteq S
BY DEF Tree

LEMMA TreeMember ==
  ASSUME AnalyticsTypeOK, NEW s \in Sheets, NEW x \in Tree(s), x # s
  PROVE  \E p \in Tree(s) : x \in nested[p]
<1>1. SUFFICES ASSUME \A p \in Tree(s) : x \notin nested[p] PROVE FALSE
  OBVIOUS
<1> DEFINE S == Tree(s) \ {x}
<1>2. S \in SUBSET Sheets /\ s \in S
  BY TreeIs
<1>3. \A p \in S : NestedIn(p) \subseteq S
  BY <1>1, TreeIs DEF NestedIn
<1>4. Tree(s) \subseteq S
  <2> HIDE DEF S
  <2> QED BY <1>2, <1>3, TreeLeast
<1> QED BY <1>4

\* A sheet that is nested in none is in no tree but its own.
LEMMA RootIsAlone ==
  ASSUME AnalyticsTypeOK, NestedAreOwn, "reparented" \notin causes,
         NEW s \in Sheets, NEW r \in Tree(s), parent[r] = Null
  PROVE  r = s
<1>1. SUFFICES ASSUME r # s PROVE FALSE
  OBVIOUS
<1>2. PICK p \in Tree(s) : r \in nested[p]
  BY <1>1, TreeMember
<1>3. p \in Sheets /\ Null \notin Sheets
  BY TreeIs, AnalyticsAssumption
<1>4. parent[r] = p
  BY <1>2, <1>3 DEF NestedAreOwn
<1> QED BY <1>3, <1>4

\* Trees only grow with what is nested.
LEMMA TreesGrow ==
  ASSUME NEW s \in Sheets, \A p \in Sheets : NestedIn(p) \subseteq NestedIn(p)'
  PROVE  Tree(s) \subseteq Tree(s)'
<1>1. ASSUME NEW x \in Tree(s), NEW S \in SUBSET Sheets, s \in S,
             \A p \in S : NestedIn(p)' \subseteq S
      PROVE  x \in S
  <2>1. \A p \in S : NestedIn(p) \subseteq S
    BY <1>1
  <2> QED BY <1>1, <2>1 DEF Tree
<1>2. Tree(s) \subseteq Sheets
  BY DEF Tree
<1> QED BY <1>1, <1>2 DEF Tree

\* Deleting a tree does not disturb the others.
LEMMA TreesRemain ==
  ASSUME AnalyticsTypeOK, NEW s \in Sheets, NEW r \in Sheets, NEW x \in Tree(r), r \notin Tree(s), x \notin Tree(s),
         \A p \in Sheets \ Tree(s) : NestedIn(p) \ Tree(s) \subseteq NestedIn(p)'
  PROVE  x \in Tree(r)'
<1>1. ASSUME NEW S \in SUBSET Sheets, r \in S, \A p \in S : NestedIn(p)' \subseteq S
      PROVE  x \in S
  <2> DEFINE W == S \union Tree(s)
  <2>1. W \in SUBSET Sheets /\ r \in W
    BY <1>1, TreeIs
  <2>2. ASSUME NEW p \in W PROVE NestedIn(p) \subseteq W
    <3>1. CASE p \in Tree(s)
      BY <3>1, TreeIs
    <3>2. CASE p \in S /\ p \notin Tree(s)
      BY <1>1, <3>2
    <3> QED BY <3>1, <3>2
  <2>3. Tree(r) \subseteq W
    <3> HIDE DEF W
    <3> QED BY <2>1, <2>2, TreeLeast
  <2> QED BY <2>3
<1>2. x \in Sheets
  BY TreeIs
<1> QED BY <1>1, <1>2 DEF Tree

\* Who is held is so by an ancestor.
LEMMA AncestorsOfTree ==
  ASSUME AnalyticsTypeOK, NestedAreOwn, "reparented" \notin causes,
         NEW r \in Sheets, NEW x \in Tree(r)
  PROVE  r \in Ancestors(x)
<1> DEFINE S == {y \in Sheets : r \in Ancestors(y)}
<1>1. S \in SUBSET Sheets /\ r \in S
  BY DEF Ancestors
<1>2. ASSUME NEW p \in S, NEW c \in NestedIn(p) PROVE c \in S
  <2>1. c \in Sheets /\ parent[c] = p /\ p # Null
    BY <1>2, AnalyticsAssumption DEF NestedIn, NestedAreOwn, AnalyticsTypeOK
  <2>2. ASSUME NEW T \in SUBSET Sheets, c \in T, \A y \in T : parent[y] # Null => parent[y] \in T
        PROVE  r \in T
    <3>1. p \in T
      BY <2>1, <2>2
    <3> QED BY <2>2, <3>1 DEF Ancestors
  <2> QED BY <2>1, <2>2 DEF Ancestors
<1>3. Tree(r) \subseteq S
  <2> HIDE DEF S
  <2> QED BY <1>1, <1>2, TreeLeast
<1> QED BY <1>3

LEMMA TreeOfAncestor ==
  ASSUME AnalyticsTypeOK, NestedAreOwn, GoneIsBare, "reparented" \notin causes,
         NEW x \in Sheets, Live(x), NEW r \in Ancestors(x)
  PROVE  x \in Tree(r)
<1> DEFINE S == {y \in Sheets : Live(y) /\ x \in Tree(y)}
<1>1. S \in SUBSET Sheets /\ x \in S
  BY TreeIs
<1>2. ASSUME NEW y \in S, parent[y] # Null PROVE parent[y] \in S
  <2> DEFINE p == parent[y]
  <2>1. p \in Sheets /\ y \in nested[p] /\ Live(y)
    BY <1>2 DEF NestedAreOwn, AnalyticsTypeOK
  <2>2. Live(p)
    BY <2>1 DEF GoneIsBare
  <2>3. y \in Tree(p)
    <3> HIDE DEF p
    <3> QED BY <2>1, TreeIs DEF NestedIn
  <2>4. Tree(y) \subseteq Tree(p)
    <3> HIDE DEF p
    <3>1. Tree(p) \in SUBSET Sheets /\ \A q \in Tree(p) : NestedIn(q) \subseteq Tree(p)
      BY <2>1, TreeIs
    <3> QED BY <1>2, <2>3, <3>1, TreeLeast
  <2> QED BY <1>2, <2>1, <2>2, <2>4
<1>3. r \in S
  <2> HIDE DEF S
  <2> QED BY <1>1, <1>2 DEF Ancestors
<1> QED BY <1>3

-----------------------------------------------------------------------------
LEMMA InitAnalyticsInv == AnalyticsInit => AnalyticsInv
<1> SUFFICES ASSUME AnalyticsInit PROVE AnalyticsInv
  OBVIOUS
<1>1. \A x \in Sheets \union Trackers : ~Live(x)
  BY DEF AnalyticsInit, Live
<1>2. AnalyticsTypeOK
  BY DEF AnalyticsInit, AnalyticsTypeOK
<1>3. PointersAreSound
  BY <1>2 DEF AnalyticsInit, PointersAreSound, TrackersAreLinked, UndefinedHasCause
<1>4. GoneIsBare /\ NestedAreOwn /\ TrackersAreOwn
  BY DEF AnalyticsInit, GoneIsBare, NestedAreOwn, TrackersAreOwn
<1>5. AllAreHeld
  BY <1>1 DEF AllAreHeld
<1>6. CommitIsComplete
  BY DEF AnalyticsInit, CommitIsComplete
<1> QED BY <1>3, <1>4, <1>5, <1>6 DEF AnalyticsInv

\* A step that only adds: what is held stays so.
LEMMA AddingHolds ==
  ASSUME AnalyticsTypeOK, NEW s \in Sheets, IsHeld(s),
         \A p \in Sheets : NestedIn(p) \subseteq NestedIn(p)',
         \A t \in Trackers : Live(t) /\ ss[t] # Null =>
            Live(t)' /\ ss'[t] = ss[t] /\ (parent[ss[t]] = Null => parent'[ss[t]] = Null)
  PROVE  IsHeld(s)'
<1>1. PICK t \in Trackers : Live(t) /\ ss[t] # Null /\ parent[ss[t]] = Null /\ s \in Tree(ss[t])
  BY DEF IsHeld
<1>2. ss[t] \in Sheets
  BY <1>1 DEF AnalyticsTypeOK
<1>3. s \in Tree(ss[t])'
  <2> DEFINE r == ss[t]
  <2>1. r' = r
    BY <1>1
  <2>2. \A q \in Sheets : Tree(q) \subseteq Tree(q)'
    BY TreesGrow
  <2>3. \A q \in Sheets : s \in Tree(q) => s \in Tree(q)'
    BY <2>2
  <2> QED BY <1>1, <1>2, <2>1, <2>3 DEF Tree, NestedIn, Live
<1> QED BY <1>1, <1>3 DEF IsHeld

\* The steps that make or attach something and delete nothing.
LEMMA ConstructTrackerKeeps ==
  ASSUME AnalyticsInv, NEW t \in Trackers, ConstructTracker(t) PROVE AnalyticsInv'
<1>1. /\ AnalyticsTypeOK /\ TrackersAreLinked /\ UndefinedHasCause /\ GoneIsBare /\ NestedAreOwn
      /\ TrackersAreOwn /\ AllAreHeld
  BY DEF AnalyticsInv, PointersAreSound
<1>2. /\ running /\ existence[t] = "none" /\ existence' = [existence EXCEPT ![t] = "alive"]
      /\ committed' = Null /\ sent' = {}
      /\ UNCHANGED <<title, parent, nested, trackers, full, ss, causes, running>>
  BY DEF ConstructTracker, Quiet, links
<1>3. /\ \A s \in Sheets : s # t /\ (Live(s)' <=> Live(s))
      /\ \A u \in Trackers : Live(u) => Live(u)'
      /\ \A u \in Trackers : u # t => (Live(u)' <=> Live(u))
      /\ ~Live(t)
  BY <1>1, <1>2, AnalyticsAssumption DEF Live, AnalyticsTypeOK
<1>4. AnalyticsTypeOK'
  BY <1>1, <1>2 DEF AnalyticsTypeOK
<1>5. TrackersAreLinked'
  <2>1. ss[t] = Null
    BY <1>1, <1>3 DEF GoneIsBare
  <2> QED BY <1>1, <1>2, <1>3, <2>1 DEF TrackersAreLinked, AnalyticsTypeOK
<1>6. UndefinedHasCause'
  BY <1>1, <1>2 DEF UndefinedHasCause
<1>7. GoneIsBare'
  BY <1>1, <1>2, <1>3 DEF GoneIsBare, AnalyticsTypeOK
<1>8. NestedAreOwn'
  BY <1>1, <1>2, <1>3 DEF NestedAreOwn, AnalyticsTypeOK
<1>9. TrackersAreOwn'
  <2>1. \A s \in Sheets : t \notin trackers[s] /\ trackers[s] \subseteq Trackers
    BY <1>1, <1>2 DEF GoneIsBare, AnalyticsTypeOK
  <2> QED BY <1>1, <1>2, <1>3, <2>1 DEF TrackersAreOwn
<1>10. AllAreHeld'
  <2>1. \A p \in Sheets : NestedIn(p) \subseteq NestedIn(p)'
    BY <1>1, <1>2, <1>3 DEF NestedIn, AnalyticsTypeOK
  <2>2. \A s \in Sheets : IsHeld(s) => IsHeld(s)'
    BY <1>1, <1>2, <1>3, <2>1, AddingHolds
  <2> QED BY <1>1, <1>2, <1>3, <2>2 DEF AllAreHeld
<1>11. CommitIsComplete'
  BY <1>2 DEF CommitIsComplete
<1> QED BY <1>4, <1>5, <1>6, <1>7, <1>8, <1>9, <1>10, <1>11 DEF AnalyticsInv, PointersAreSound

LEMMA BuildSheetKeeps ==
  ASSUME AnalyticsInv, NEW t \in Trackers, NEW s \in Sheets, NEW name \in Titles,
         BuildSheet(t, s, name)
  PROVE  AnalyticsInv'
<1>1. /\ AnalyticsTypeOK /\ TrackersAreLinked /\ UndefinedHasCause /\ GoneIsBare /\ NestedAreOwn
      /\ TrackersAreOwn /\ AllAreHeld
  BY DEF AnalyticsInv, PointersAreSound
<1>2. /\ running /\ Live(t) /\ ss[t] = Null /\ existence[s] = "none"
      /\ existence' = [existence EXCEPT ![s] = "alive"] /\ title' = [title EXCEPT ![s] = name]
      /\ ss' = [ss EXCEPT ![t] = s] /\ trackers' = [trackers EXCEPT ![s] = @ \union {t}]
      /\ committed' = Null /\ sent' = {}
      /\ UNCHANGED <<parent, nested, full, causes, running>>
  BY DEF BuildSheet, Attached, Quiet
<1>3. /\ \A x \in Sheets : x # s => (Live(x)' <=> Live(x))
      /\ \A x \in Sheets : Live(x) => Live(x)'
      /\ \A u \in Trackers : Live(u)' <=> Live(u)
      /\ ~Live(s) /\ Live(s)' /\ s # Null /\ t # Null
  BY <1>1, <1>2, AnalyticsAssumption DEF Live, AnalyticsTypeOK
<1>4. nested[s] = {} /\ trackers[s] = {} /\ parent[s] = Null
  BY <1>1, <1>3 DEF GoneIsBare
<1>5. /\ \A x \in Sheets : x # s => trackers'[x] = trackers[x]
      /\ trackers'[s] = {t} /\ ss'[t] = s /\ \A u \in Trackers : u # t => ss'[u] = ss[u]
  BY <1>1, <1>2, <1>4 DEF AnalyticsTypeOK
<1>6. AnalyticsTypeOK'
  BY <1>1, <1>2 DEF AnalyticsTypeOK
<1>7. TrackersAreLinked'
  BY <1>1, <1>2, <1>3, <1>5 DEF TrackersAreLinked, AnalyticsTypeOK
<1>8. UndefinedHasCause'
  BY <1>1, <1>2 DEF UndefinedHasCause
<1>9. GoneIsBare'
  <2>1. \A u \in Trackers : existence'[u] = existence[u]
    BY <1>1, <1>2, AnalyticsAssumption DEF AnalyticsTypeOK
  <2>2. existence[t] # "none"
    BY <1>2 DEF Live
  <2> QED BY <1>1, <1>2, <1>3, <1>5, <2>1, <2>2 DEF GoneIsBare
<1>10. NestedAreOwn'
  BY <1>1, <1>2, <1>3 DEF NestedAreOwn, AnalyticsTypeOK
<1>11. TrackersAreOwn'
  <2>1. "copied" \notin causes => \A x \in Sheets : x # s => t \notin trackers[x]
    BY <1>1, <1>2, AnalyticsAssumption DEF TrackersAreOwn
  <2>2. \A x \in Sheets : trackers[x] \subseteq Trackers
    BY <1>1 DEF AnalyticsTypeOK
  <2>3. ASSUME "copied" \notin causes', NEW x \in Sheets, NEW u \in trackers'[x], Live(u)'
        PROVE  ss'[u] = x
    BY <1>1, <1>2, <1>3, <1>5, <2>1, <2>2, <2>3 DEF TrackersAreOwn
  <2>4. ASSUME causes' = {}, NEW x \in Sheets, NEW u \in trackers'[x] PROVE Live(u)'
    BY <1>1, <1>2, <1>3, <1>5, <2>2, <2>4 DEF TrackersAreOwn
  <2> QED BY <2>3, <2>4 DEF TrackersAreOwn
<1>12. AllAreHeld'
  <2>1. \A p \in Sheets : NestedIn(p) \subseteq NestedIn(p)'
    BY <1>1, <1>2, <1>3 DEF NestedIn, AnalyticsTypeOK
  <2>2. \A x \in Sheets : IsHeld(x) => IsHeld(x)'
    BY <1>1, <1>2, <1>3, <1>5, <2>1, AddingHolds
  <2>3. IsHeld(s)'
    <3>1. s \in Tree(s)'
      BY DEF Tree
    <3> QED BY <1>2, <1>3, <1>4, <1>5, <3>1 DEF IsHeld, Tree
  <2> QED BY <1>1, <1>2, <1>3, <2>2, <2>3 DEF AllAreHeld
<1>13. CommitIsComplete'
  BY <1>2 DEF CommitIsComplete
<1> QED BY <1>6, <1>7, <1>8, <1>9, <1>10, <1>11, <1>12, <1>13 DEF AnalyticsInv, PointersAreSound

LEMMA AttachSheetKeeps ==
  ASSUME AnalyticsInv, NEW t \in Trackers, NEW s \in Sheets, AttachSheet(t, s)
  PROVE  AnalyticsInv'
<1>1. /\ AnalyticsTypeOK /\ TrackersAreLinked /\ UndefinedHasCause /\ GoneIsBare /\ NestedAreOwn
      /\ TrackersAreOwn /\ AllAreHeld
  BY DEF AnalyticsInv, PointersAreSound
<1>2. /\ running /\ Live(t) /\ ss[t] = Null /\ Live(s)
      /\ ss' = [ss EXCEPT ![t] = s] /\ trackers' = [trackers EXCEPT ![s] = @ \union {t}]
      /\ committed' = Null /\ sent' = {}
      /\ UNCHANGED <<existence, title, parent, nested, full, causes, running>>
  BY DEF AttachSheet, Attached, Quiet, links
<1>3. \A x : Live(x)' <=> Live(x)
  BY <1>2 DEF Live
<1>4. /\ \A x \in Sheets : x # s => trackers'[x] = trackers[x]
      /\ trackers'[s] = trackers[s] \union {t} /\ ss'[t] = s
      /\ \A u \in Trackers : u # t => ss'[u] = ss[u]
  BY <1>1, <1>2 DEF AnalyticsTypeOK
<1>5. AnalyticsTypeOK'
  BY <1>1, <1>2 DEF AnalyticsTypeOK
<1>6. TrackersAreLinked'
  BY <1>1, <1>2, <1>3, <1>4 DEF TrackersAreLinked, AnalyticsTypeOK
<1>7. UndefinedHasCause'
  BY <1>1, <1>2 DEF UndefinedHasCause
<1>8. GoneIsBare'
  <2>1. existence[t] # "none"
    BY <1>2 DEF Live
  <2> QED BY <1>1, <1>2, <1>3, <1>4, <2>1 DEF GoneIsBare
<1>9. NestedAreOwn'
  BY <1>1, <1>2, <1>3 DEF NestedAreOwn
<1>10. TrackersAreOwn'
  <2>1. "copied" \notin causes => \A x \in Sheets : t \notin trackers[x]
    BY <1>1, <1>2, AnalyticsAssumption DEF TrackersAreOwn
  <2>2. \A x \in Sheets : trackers[x] \subseteq Trackers
    BY <1>1 DEF AnalyticsTypeOK
  <2>3. ASSUME "copied" \notin causes', NEW x \in Sheets, NEW u \in trackers'[x], Live(u)'
        PROVE  ss'[u] = x
    BY <1>1, <1>2, <1>3, <1>4, <2>1, <2>2, <2>3 DEF TrackersAreOwn
  <2>4. ASSUME causes' = {}, NEW x \in Sheets, NEW u \in trackers'[x] PROVE Live(u)'
    BY <1>1, <1>2, <1>3, <1>4, <2>2, <2>4 DEF TrackersAreOwn
  <2> QED BY <2>3, <2>4 DEF TrackersAreOwn
<1>11. AllAreHeld'
  <2>1. \A p \in Sheets : NestedIn(p) \subseteq NestedIn(p)'
    BY <1>2, <1>3 DEF NestedIn
  <2>2. \A x \in Sheets : IsHeld(x) => IsHeld(x)'
    BY <1>1, <1>2, <1>3, <1>4, <2>1, AddingHolds
  <2> QED BY <1>1, <1>2, <1>3, <2>2 DEF AllAreHeld
<1>12. CommitIsComplete'
  BY <1>2 DEF CommitIsComplete
<1> QED BY <1>5, <1>6, <1>7, <1>8, <1>9, <1>10, <1>11, <1>12 DEF AnalyticsInv, PointersAreSound

LEMMA NestKeeps ==
  ASSUME AnalyticsInv, NEW s \in Sheets, NEW c \in Sheets, NEW name \in Titles, Nest(s, name, c)
  PROVE  AnalyticsInv'
<1>1. /\ AnalyticsTypeOK /\ TrackersAreLinked /\ UndefinedHasCause /\ GoneIsBare /\ NestedAreOwn
      /\ TrackersAreOwn /\ AllAreHeld
  BY DEF AnalyticsInv, PointersAreSound
<1>2. /\ running /\ Live(s) /\ existence[c] = "none"
      /\ existence' = [existence EXCEPT ![c] = "alive"] /\ title' = [title EXCEPT ![c] = name]
      /\ parent' = [parent EXCEPT ![c] = s] /\ nested' = [nested EXCEPT ![s] = @ \union {c}]
      /\ committed' = Null /\ sent' = {}
      /\ UNCHANGED <<trackers, full, ss, causes, running>>
  BY DEF Nest, Quiet
<1>3. /\ \A x \in Sheets : x # c => (Live(x)' <=> Live(x))
      /\ \A x \in Sheets : Live(x) => Live(x)'
      /\ \A u \in Trackers : Live(u)' <=> Live(u)
      /\ ~Live(c) /\ Live(c)' /\ s # c /\ s # Null
  BY <1>1, <1>2, AnalyticsAssumption DEF Live, AnalyticsTypeOK
<1>4. nested[c] = {} /\ trackers[c] = {} /\ parent[c] = Null
  BY <1>1, <1>3 DEF GoneIsBare
<1>5. /\ \A x \in Sheets : x # s => nested'[x] = nested[x]
      /\ nested'[s] = nested[s] \union {c} /\ parent'[c] = s
      /\ \A x \in Sheets : x # c => parent'[x] = parent[x]
  BY <1>1, <1>2 DEF AnalyticsTypeOK
<1>6. AnalyticsTypeOK'
  BY <1>1, <1>2 DEF AnalyticsTypeOK
<1>7. TrackersAreLinked'
  BY <1>1, <1>2, <1>3 DEF TrackersAreLinked, AnalyticsTypeOK
<1>8. UndefinedHasCause'
  BY <1>1, <1>2 DEF UndefinedHasCause
<1>9. GoneIsBare'
  <2>1. \A u \in Trackers : existence'[u] = existence[u]
    BY <1>1, <1>2, AnalyticsAssumption DEF AnalyticsTypeOK
  <2> QED BY <1>1, <1>2, <1>3, <1>5, <2>1 DEF GoneIsBare
<1>10. NestedAreOwn'
  <2>1. \A p \in Sheets : nested[p] \subseteq Sheets
    BY <1>1 DEF AnalyticsTypeOK
  <2>2. ASSUME "reparented" \notin causes', NEW p \in Sheets, NEW x \in nested'[p]
        PROVE  Live(x)' /\ parent'[x] = p
    <3>1. CASE x \in nested[p]
      <4>1. Live(x) /\ parent[x] = p
        BY <1>1, <1>2, <2>2, <3>1 DEF NestedAreOwn
      <4> QED BY <1>3, <1>5, <2>1, <3>1, <4>1
    <3>2. CASE p = s /\ x = c
      BY <1>3, <1>5, <3>2
    <3> QED BY <1>5, <2>2, <3>1, <3>2
  <2>3. ASSUME "reparented" \notin causes', NEW x \in Sheets, parent'[x] # Null
        PROVE  x \in nested'[parent'[x]]
    <3>1. CASE x = c
      BY <1>5, <3>1
    <3>2. CASE x # c
      <4>1. x \in nested[parent[x]] /\ parent'[x] = parent[x] /\ parent[x] \in Sheets
        BY <1>1, <1>2, <1>5, <2>3, <3>2 DEF NestedAreOwn, AnalyticsTypeOK
      <4> QED BY <1>5, <4>1
    <3> QED BY <3>1, <3>2
  <2> QED BY <2>2, <2>3 DEF NestedAreOwn
<1>11. TrackersAreOwn'
  <2>1. \A x \in Sheets : trackers[x] \subseteq Trackers
    BY <1>1 DEF AnalyticsTypeOK
  <2> QED BY <1>1, <1>2, <1>3, <2>1 DEF TrackersAreOwn
<1>12. AllAreHeld'
  <2>1. \A p \in Sheets : NestedIn(p) \subseteq NestedIn(p)'
    BY <1>1, <1>3, <1>5 DEF NestedIn, AnalyticsTypeOK
  <2>2. SUFFICES ASSUME running', causes' \intersect {"copied", "reparented"} = {},
                        NEW x \in Sheets, Live(x)'
                 PROVE  IsHeld(x)'
    BY DEF AllAreHeld
  <2>3. ASSUME NEW u \in Trackers, Live(u), ss[u] # Null
        PROVE  ss[u] \in Sheets /\ Live(ss[u]) /\ ss[u] # c
    BY <1>1, <1>2, <1>3, <2>2, <2>3 DEF TrackersAreLinked, AnalyticsTypeOK
  <2>4. \A y \in Sheets : IsHeld(y) => IsHeld(y)'
    BY <1>1, <1>2, <1>3, <1>5, <2>1, <2>3, AddingHolds
  <2>5. \A y \in Sheets : Live(y) => IsHeld(y)
    BY <1>1, <1>2, <2>2 DEF AllAreHeld
  <2>6. CASE x # c
    BY <1>3, <2>2, <2>4, <2>5, <2>6
  <2>7. CASE x = c
    <3>1. PICK t \in Trackers : Live(t)' /\ ss'[t] # Null /\ parent'[ss'[t]] = Null
                                /\ (s \in Tree(ss[t]))'
      BY <1>2, <2>4, <2>5 DEF IsHeld
    <3>2. c \in NestedIn(s)'
      BY <1>3, <1>5 DEF NestedIn
    <3>3. \A r \in Sheets : s \in Tree(r)' => c \in Tree(r)'
      BY <3>2 DEF Tree
    <3>4. ss'[t] \in Sheets
      BY <1>6, <3>1 DEF AnalyticsTypeOK
    <3>5. (c \in Tree(ss[t]))'
      BY <3>1, <3>2, <3>4 DEF Tree
    <3> QED BY <2>7, <3>1, <3>5 DEF IsHeld
  <2> QED BY <2>6, <2>7
<1>13. CommitIsComplete'
  BY <1>2 DEF CommitIsComplete
<1> QED BY <1>6, <1>7, <1>8, <1>9, <1>10, <1>11, <1>12, <1>13 DEF AnalyticsInv, PointersAreSound

\* The steps that no pointer is kept right for.
LEMMA CopyTrackerKeeps ==
  ASSUME AnalyticsInv, NEW t \in Trackers, NEW src \in Trackers, CopyTracker(t, src)
  PROVE  AnalyticsInv'
<1>1. /\ AnalyticsTypeOK /\ GoneIsBare /\ NestedAreOwn
  BY DEF AnalyticsInv, PointersAreSound
<1>2. /\ running /\ existence[t] # "dead"
      /\ existence' = [existence EXCEPT ![t] = "alive"] /\ ss' = [ss EXCEPT ![t] = ss[src]]
      /\ causes' = causes \union {"copied"} /\ committed' = Null /\ sent' = {}
      /\ UNCHANGED <<title, parent, nested, trackers, full, running>>
  BY DEF CopyTracker, Quiet, links
<1>3. /\ \A s \in Sheets : Live(s)' <=> Live(s)
      /\ \A u \in Trackers : u # t => (Live(u)' <=> Live(u))
      /\ Live(t)'
  BY <1>1, <1>2, AnalyticsAssumption DEF Live, AnalyticsTypeOK
<1>4. AnalyticsTypeOK'
  BY <1>1, <1>2 DEF AnalyticsTypeOK, Causes
<1>5. "copied" \in causes'
  BY <1>2
<1>6. PointersAreSound'
  BY <1>4, <1>5 DEF PointersAreSound, TrackersAreLinked, UndefinedHasCause
<1>7. GoneIsBare'
  BY <1>1, <1>2, <1>3 DEF GoneIsBare, AnalyticsTypeOK
<1>8. NestedAreOwn'
  <2>1. \A p \in Sheets : nested[p] \subseteq Sheets
    BY <1>1 DEF AnalyticsTypeOK
  <2> QED BY <1>1, <1>2, <1>3, <2>1 DEF NestedAreOwn
<1>9. TrackersAreOwn'
  BY <1>5 DEF TrackersAreOwn
<1>10. AllAreHeld'
  BY <1>5 DEF AllAreHeld
<1>11. CommitIsComplete'
  BY <1>2 DEF CommitIsComplete
<1> QED BY <1>6, <1>7, <1>8, <1>9, <1>10, <1>11 DEF AnalyticsInv

LEMMA SetParentKeeps ==
  ASSUME AnalyticsInv, NEW s \in Sheets, NEW p \in Sheets \union {Null}, SetParent(s, p)
  PROVE  AnalyticsInv'
<1>1. /\ AnalyticsTypeOK /\ TrackersAreLinked /\ GoneIsBare /\ TrackersAreOwn
  BY DEF AnalyticsInv, PointersAreSound
<1>2. /\ running /\ Live(s) /\ parent' = [parent EXCEPT ![s] = p]
      /\ causes' = causes \union {"reparented"} /\ committed' = Null /\ sent' = {}
      /\ UNCHANGED <<existence, title, nested, trackers, full, ss, running>>
  BY DEF SetParent, Quiet
<1>3. \A x : Live(x)' <=> Live(x)
  BY <1>2 DEF Live
<1>4. AnalyticsTypeOK'
  BY <1>1, <1>2 DEF AnalyticsTypeOK, Causes
<1>5. "reparented" \in causes' /\ ("copied" \in causes' <=> "copied" \in causes)
  BY <1>2
<1>6. PointersAreSound'
  BY <1>1, <1>2, <1>3, <1>4, <1>5 DEF PointersAreSound, TrackersAreLinked, UndefinedHasCause
<1>7. GoneIsBare'
  BY <1>1, <1>2, <1>3 DEF GoneIsBare, AnalyticsTypeOK
<1>8. NestedAreOwn' /\ AllAreHeld'
  BY <1>5 DEF NestedAreOwn, AllAreHeld
<1>9. TrackersAreOwn'
  BY <1>1, <1>2, <1>3, <1>5 DEF TrackersAreOwn
<1>10. CommitIsComplete'
  BY <1>2 DEF CommitIsComplete
<1> QED BY <1>6, <1>7, <1>8, <1>9, <1>10 DEF AnalyticsInv

\* The steps that touch no pointer.
LEMMA PointersKeep ==
  ASSUME AnalyticsInv, UNCHANGED <<existence, title, parent, nested, trackers, ss, causes>>,
         AnalyticsTypeOK', UndefinedHasCause', running, CommitIsComplete'
  PROVE  AnalyticsInv'
<1>1. /\ TrackersAreLinked /\ GoneIsBare /\ NestedAreOwn /\ TrackersAreOwn /\ AllAreHeld
  BY DEF AnalyticsInv, PointersAreSound
<1>2. TrackersAreLinked' /\ GoneIsBare' /\ NestedAreOwn' /\ TrackersAreOwn'
  BY <1>1 DEF TrackersAreLinked, GoneIsBare, NestedAreOwn, TrackersAreOwn, Live
<1>3. AllAreHeld'
  <2>1. \A s \in Sheets : IsHeld(s) <=> IsHeld(s)'
    BY DEF IsHeld, Live, Tree, NestedIn
  <2> QED BY <1>1, <2>1 DEF AllAreHeld, Live
<1> QED BY <1>2, <1>3 DEF AnalyticsInv, PointersAreSound

LEMMA AddStatKeeps ==
  ASSUME AnalyticsInv, NEW s \in Sheets, AddStat(s) PROVE AnalyticsInv'
<1>1. AnalyticsTypeOK /\ UndefinedHasCause
  BY DEF AnalyticsInv, PointersAreSound
<1>2. /\ running /\ full' = [full EXCEPT ![s] = TRUE] /\ committed' = Null /\ sent' = {}
      /\ UNCHANGED <<existence, title, parent, nested, trackers, ss, causes, running>>
  BY DEF AddStat, Quiet, links
<1>3. AnalyticsTypeOK' /\ UndefinedHasCause' /\ CommitIsComplete'
  BY <1>1, <1>2 DEF AnalyticsTypeOK, UndefinedHasCause, CommitIsComplete
<1> QED BY <1>2, <1>3, PointersKeep

\* What is nested in a sheet is what has it for an ancestor.
LEMMA CommitKeeps ==
  ASSUME AnalyticsInv, NEW s \in Sheets, Commit(s) PROVE AnalyticsInv'
<1>1. AnalyticsTypeOK /\ UndefinedHasCause /\ NestedAreOwn /\ GoneIsBare
  BY DEF AnalyticsInv, PointersAreSound
<1>2. /\ running /\ Live(s) /\ sent' = {x \in Tree(s) : full[x]} /\ committed' = s
      /\ UNCHANGED <<existence, title, parent, nested, trackers, full, ss, causes>>
  BY DEF Commit, IsEmpty, links
<1>3. running' \in BOOLEAN /\ (running' \/ ~(\A x \in Tree(s), c \in Sheets : c \in nested[x] => Live(c)))
  BY DEF Commit, Proceed
<1>4. AnalyticsTypeOK'
  BY <1>1, <1>2, <1>3, TreeIs DEF AnalyticsTypeOK
<1>5. UndefinedHasCause'
  <2>1. CASE causes = {}
    <3>1. \A x \in Tree(s), c \in Sheets : c \in nested[x] => Live(c)
      BY <1>1, <2>1, TreeIs DEF NestedAreOwn
    <3> QED BY <1>3, <3>1 DEF UndefinedHasCause
  <2>2. CASE causes # {}
    BY <1>2, <2>2 DEF UndefinedHasCause
  <2> QED BY <2>1, <2>2
<1>6. CommitIsComplete'
  <2>1. SUFFICES ASSUME "reparented" \notin causes
                 PROVE  {x \in Tree(s) : full[x]} = {x \in Sheets : Live(x) /\ full[x] /\ s \in Ancestors(x)}
    BY <1>2 DEF CommitIsComplete, Live, Ancestors
  <2>2. ASSUME NEW x \in Tree(s) PROVE x \in Sheets /\ Live(x) /\ s \in Ancestors(x)
    <3>1. x \in Sheets /\ s \in Ancestors(x)
      BY <1>1, <2>1, TreeIs, AncestorsOfTree
    <3>2. CASE x = s
      BY <1>2, <3>1, <3>2
    <3>3. CASE x # s
      <4>1. PICK p \in Tree(s) : x \in nested[p]
        BY <1>1, <3>3, TreeMember
      <4> QED BY <1>1, <2>1, <3>1, <4>1, TreeIs DEF NestedAreOwn
    <3> QED BY <3>2, <3>3
  <2>3. ASSUME NEW x \in Sheets, Live(x), s \in Ancestors(x) PROVE x \in Tree(s)
    BY <1>1, <2>1, <2>3, TreeOfAncestor
  <2> QED BY <2>2, <2>3
<1> QED BY <1>2, <1>4, <1>5, <1>6, PointersKeep

\* Deleting the sheets D with a tracker.
LEMMA DeleteIs ==
  ASSUME AnalyticsTypeOK, NEW D \in SUBSET Sheets, NEW t \in Trackers, Delete(D, {t})
  PROVE  /\ \A x \in D : /\ ~Live(x)' /\ nested'[x] = {} /\ trackers'[x] = {}
                         /\ parent'[x] = Null
         /\ \A x \in Sheets \ D : /\ Live(x)' <=> Live(x)
                                  /\ nested'[x] = nested[x] /\ trackers'[x] = trackers[x]
                                  /\ parent'[x] = parent[x]
         /\ ~Live(t)' /\ ss'[t] = Null
         /\ \A u \in Trackers \ {t} : /\ Live(u)' <=> Live(u)
                                      /\ u \in Touched(D) => ss'[u] = Null
                                      /\ u \notin Touched(D) => ss'[u] = ss[u]
         /\ \A u \in Trackers : existence'[u] = "none" => existence[u] = "none"
BY AnalyticsAssumption DEF Delete, Live, AnalyticsTypeOK

\* Whatever D is, as long as it is whole: a sheet is in it just if its nested sheets are.
LEMMA DeleteKeeps ==
  ASSUME AnalyticsInv, NEW D \in SUBSET Sheets, NEW t \in Trackers, Delete(D, {t}), Quiet,
         causes \subseteq causes', causes' \subseteq Causes, "copied" \in causes' => "copied" \in causes,
         running' \in BOOLEAN, UndefinedHasCause',
         causes' = {} => ss[t] \in D \union {Null},
         "reparented" \notin causes => \A p \in Sheets : \A c \in nested[p] : p \in D <=> c \in D,
         AllAreHeld'
  PROVE  AnalyticsInv'
<1>1. AnalyticsTypeOK /\ TrackersAreLinked /\ GoneIsBare /\ NestedAreOwn /\ TrackersAreOwn
  BY DEF AnalyticsInv, PointersAreSound
<1>2. /\ \A x \in D : /\ ~Live(x)' /\ nested'[x] = {} /\ trackers'[x] = {}
                      /\ parent'[x] = Null
      /\ \A x \in Sheets \ D : /\ Live(x)' <=> Live(x)
                               /\ nested'[x] = nested[x] /\ trackers'[x] = trackers[x]
                               /\ parent'[x] = parent[x]
      /\ ~Live(t)' /\ ss'[t] = Null
      /\ \A u \in Trackers \ {t} : /\ Live(u)' <=> Live(u)
                                   /\ u \in Touched(D) => ss'[u] = Null
                                   /\ u \notin Touched(D) => ss'[u] = ss[u]
      /\ \A u \in Trackers : existence'[u] = "none" => existence[u] = "none"
  BY <1>1, DeleteIs
<1>3. /\ \A x \in Sheets : nested[x] \subseteq Sheets /\ trackers[x] \subseteq Trackers
      /\ \A u \in Trackers : ss[u] \in Sheets \union {Null}
      /\ \A x \in Sheets : parent[x] \in Sheets \union {Null}
      /\ Null \notin Sheets
  BY <1>1, AnalyticsAssumption DEF AnalyticsTypeOK
<1>4. \A x \in D : trackers[x] \subseteq Touched(D)
  BY DEF Touched
<1>5. AnalyticsTypeOK'
  BY <1>1 DEF AnalyticsTypeOK, Delete, Quiet
<1>6. TrackersAreLinked'
  <2>1. SUFFICES ASSUME "copied" \notin causes', NEW u \in Trackers, Live(u)', ss'[u] # Null
                 PROVE  existence'[ss'[u]] = "alive" /\ u \in trackers'[ss'[u]]
    BY DEF TrackersAreLinked, Live
  <2>2. u # t /\ u \notin Touched(D) /\ Live(u) /\ ss'[u] = ss[u] /\ ss[u] \in Sheets
    BY <1>2, <1>3, <2>1
  <2>3. Live(ss[u]) /\ u \in trackers[ss[u]]
    BY <1>1, <2>1, <2>2 DEF TrackersAreLinked
  <2>4. ss[u] \notin D
    BY <1>4, <2>2, <2>3
  <2>5. \A x \in Sheets \ D : Live(x) => existence'[x] = "alive" /\ trackers'[x] = trackers[x]
    BY <1>2 DEF Live
  <2> QED BY <2>2, <2>3, <2>4, <2>5
<1>7. GoneIsBare'
  <2>1. ASSUME NEW u \in Trackers, ~Live(u)' PROVE ss'[u] = Null
    BY <1>1, <1>2, <2>1 DEF GoneIsBare
  <2> QED BY <1>1, <1>2, <2>1 DEF GoneIsBare
<1>8. NestedAreOwn'
  <2>1. ASSUME "reparented" \notin causes', NEW p \in Sheets, NEW c \in nested'[p]
        PROVE  Live(c)' /\ parent'[c] = p
    <3>1. p \notin D /\ c \in nested[p] /\ c \in Sheets
      BY <1>2, <1>3, <2>1
    <3>2. c \notin D
      BY <2>1, <3>1
    <3> QED BY <1>1, <1>2, <2>1, <3>1, <3>2 DEF NestedAreOwn
  <2>2. ASSUME "reparented" \notin causes', NEW c \in Sheets, parent'[c] # Null
        PROVE  c \in nested'[parent'[c]]
    <3>1. c \notin D /\ parent'[c] = parent[c] /\ parent[c] \in Sheets
      BY <1>2, <1>3, <2>2
    <3>2. c \in nested[parent[c]]
      BY <1>1, <2>2, <3>1 DEF NestedAreOwn
    <3>3. parent[c] \notin D
      BY <2>2, <3>1, <3>2
    <3> QED BY <1>2, <3>1, <3>2, <3>3
  <2> QED BY <2>1, <2>2 DEF NestedAreOwn
<1>9. TrackersAreOwn'
  <2>1. ASSUME "copied" \notin causes', NEW x \in Sheets, NEW u \in trackers'[x], Live(u)'
        PROVE  ss'[u] = x
    <3>1. x \notin D /\ u \in trackers[x] /\ u \in Trackers /\ u # t /\ Live(u)
      BY <1>2, <1>3, <2>1
    <3>2. \A y \in Sheets : u \in trackers[y] => ss[u] = y
      BY <1>1, <2>1, <3>1 DEF TrackersAreOwn
    <3>3. u \notin Touched(D)
      BY <3>1, <3>2 DEF Touched
    <3> QED BY <1>2, <3>1, <3>2, <3>3
  <2>2. ASSUME causes' = {}, NEW x \in Sheets, NEW u \in trackers'[x] PROVE Live(u)'
    <3>1. x \notin D /\ u \in trackers[x] /\ u \in Trackers
      BY <1>2, <1>3, <2>2
    <3>2. causes = {}
      BY <2>2
    <3>3. Live(u) /\ ss[u] = x
      BY <1>1, <3>1, <3>2 DEF TrackersAreOwn
    <3>4. u # t
      BY <1>3, <2>2, <3>1, <3>3
    <3> QED BY <1>2, <3>1, <3>3, <3>4
  <2> QED BY <2>1, <2>2 DEF TrackersAreOwn
<1>10. CommitIsComplete'
  BY DEF Quiet, CommitIsComplete
<1> QED BY <1>5, <1>6, <1>7, <1>8, <1>9, <1>10 DEF AnalyticsInv, PointersAreSound

\* The last tracker's sheet goes with it, and with those nested in it.
LEMMA DestroyWithSheetKeeps ==
  ASSUME AnalyticsInv, NEW t \in Trackers, DestroyTracker(t), ss[t] # Null, parent[ss[t]] = Null
  PROVE  AnalyticsInv'
<1> DEFINE s == ss[t]
           D == Tree(s)
<1>1. /\ AnalyticsTypeOK /\ TrackersAreLinked /\ GoneIsBare /\ NestedAreOwn /\ TrackersAreOwn
      /\ AllAreHeld /\ UndefinedHasCause
  BY DEF AnalyticsInv, PointersAreSound
<1>2. /\ running /\ Live(t) /\ Delete(D, {t}) /\ causes' = causes /\ Quiet
      /\ running' \in IF Live(s) /\ IsDefined(D) THEN {TRUE} ELSE BOOLEAN
  BY DEF DestroyTracker, Proceed
<1>3. s \in Sheets /\ parent[s] = Null /\ Null \notin Sheets
  BY <1>1, AnalyticsAssumption DEF AnalyticsTypeOK
<1>4. \A u \in Trackers : ss[u] = s \/ ss[u] # s
  OBVIOUS
<1>5. /\ s \in D /\ D \in SUBSET Sheets /\ \A p \in D : NestedIn(p) \subseteq D
  <2> HIDE DEF s
  <2> QED BY <1>1, <1>3, TreeIs
<1>6. "reparented" \notin causes => \A p \in Sheets : \A c \in nested[p] : p \in D <=> c \in D
  <2>1. SUFFICES ASSUME "reparented" \notin causes, NEW p \in Sheets, NEW c \in nested[p]
                 PROVE  p \in D <=> c \in D
    OBVIOUS
  <2>2. Live(c) /\ parent[c] = p /\ c \in Sheets
    BY <1>1, <2>1 DEF NestedAreOwn, AnalyticsTypeOK
  <2>3. p \in D => c \in D
    BY <1>5, <2>2 DEF NestedIn
  <2>4. ASSUME c \in D PROVE p \in D
    <3>1. c # s
      BY <1>3, <2>2
    <3>2. PICK q \in D : c \in nested[q]
      <4> HIDE DEF s
      <4> QED BY <1>1, <1>3, <2>4, <3>1, TreeMember
    <3>3. q \in Sheets
      BY <1>5
    <3>4. parent[c] = q
      BY <1>1, <2>1, <3>2, <3>3 DEF NestedAreOwn
    <3> QED BY <2>2, <3>2, <3>4
  <2> QED BY <2>3, <2>4
<1>7. UndefinedHasCause'
  <2>1. CASE causes = {}
    <3>1. Live(s)
      BY <1>1, <1>2, <2>1 DEF TrackersAreLinked
    <3>2. IsDefined(D)
      <4>1. \A u \in Touched(D) : Live(u)
        BY <1>1, <1>5, <2>1 DEF TrackersAreOwn, Touched
      <4>2. \A x \in D : \A c \in nested[x] : Live(c)
        BY <1>1, <1>5, <2>1 DEF NestedAreOwn
      <4> QED BY <4>1, <4>2 DEF IsDefined
    <3>3. running' = TRUE
      <4> HIDE DEF s, D
      <4> QED BY <1>2, <3>1, <3>2
    <3> QED BY <3>3 DEF UndefinedHasCause
  <2>2. CASE causes # {}
    BY <1>2, <2>2 DEF UndefinedHasCause
  <2> QED BY <2>1, <2>2
<1>8. AllAreHeld'
  <2>1. SUFFICES ASSUME causes \intersect {"copied", "reparented"} = {}, NEW x \in Sheets, Live(x)'
                 PROVE  IsHeld(x)'
    BY <1>2 DEF AllAreHeld
  <2> HIDE DEF D
  <2>2. /\ \A y \in D : ~Live(y)'
        /\ \A y \in Sheets \ D : /\ Live(y)' <=> Live(y)
                                 /\ nested'[y] = nested[y] /\ parent'[y] = parent[y]
        /\ \A u \in Trackers \ {t} : /\ Live(u)' <=> Live(u)
                                     /\ u \notin Touched(D) => ss'[u] = ss[u]
    BY <1>1, <1>2, <1>5, DeleteIs
  <2>3. x \notin D /\ Live(x)
    BY <2>1, <2>2
  <2>4. PICK u \in Trackers : Live(u) /\ ss[u] # Null /\ parent[ss[u]] = Null /\ x \in Tree(ss[u])
    BY <1>1, <1>2, <2>1, <2>3 DEF AllAreHeld, IsHeld
  <2> DEFINE r == ss[u]
  <2>5. r \in Sheets /\ parent[r] = Null /\ x \in Tree(r)
    BY <1>1, <2>4 DEF AnalyticsTypeOK
  <2>6. r \notin D
    <3>1. SUFFICES ASSUME r \in D PROVE FALSE
      OBVIOUS
    <3>2. r = s
      <4> HIDE DEF r, s
      <4> QED BY <1>1, <1>3, <2>1, <2>5, <3>1, RootIsAlone DEF D
    <3> QED BY <2>3, <2>5, <3>2 DEF D
  <2>7. u # t
    BY <1>5, <2>6
  <2>8. u \notin Touched(D)
    <3>1. \A y \in D : u \in trackers[y] => ss[u] = y
      BY <1>1, <1>5, <2>1, <2>4 DEF TrackersAreOwn
    <3> QED BY <2>6, <3>1 DEF Touched
  <2>9. Live(u)' /\ ss'[u] = r /\ parent'[r] = Null /\ r # Null
    BY <1>3, <2>2, <2>4, <2>5, <2>6, <2>7, <2>8
  <2>10. \A q \in Sheets \ D : NestedIn(q) \ D \subseteq NestedIn(q)'
    <3>1. \A q \in Sheets : nested[q] \subseteq Sheets
      BY <1>1 DEF AnalyticsTypeOK
    <3> QED BY <2>2, <3>1 DEF NestedIn
  <2>11. \A q \in Sheets : q \notin D /\ x \in Tree(q) => x \in Tree(q)'
    <3> HIDE DEF s, r
    <3> QED BY <1>1, <1>3, <2>3, <2>10, TreesRemain DEF D
  <2>12. (x \in Tree(ss[u]))'
    <3>1. \A S \in SUBSET Sheets : r \in S /\ (\A p \in S : NestedIn(p)' \subseteq S) => x \in S
      BY <2>5, <2>6, <2>11 DEF Tree
    <3> QED BY <2>9, <3>1 DEF Tree
  <2> QED BY <2>9, <2>12 DEF IsHeld
<1>9. causes' = {} => ss[t] \in D \union {Null}
  BY <1>5
<1>10. causes' \subseteq Causes
  BY <1>1, <1>2 DEF AnalyticsTypeOK
<1>11. running' \in BOOLEAN
  BY <1>2
<1> HIDE DEF D
<1> QED BY <1>2, <1>5, <1>6, <1>7, <1>8, <1>9, <1>10, <1>11, DeleteKeeps

\* A tracker without a sheet of its own to delete: a sheet nested in another still has it
\* in its list.
LEMMA DestroyAloneKeeps ==
  ASSUME AnalyticsInv, NEW t \in Trackers, DestroyTracker(t), ss[t] = Null \/ parent[ss[t]] # Null
  PROVE  AnalyticsInv'
<1>1. /\ AnalyticsTypeOK /\ TrackersAreLinked /\ GoneIsBare /\ AllAreHeld
  BY DEF AnalyticsInv, PointersAreSound
<1>2. /\ running /\ Live(t) /\ Delete({}, {t}) /\ Quiet
      /\ running' \in IF ss[t] = Null \/ Live(ss[t]) THEN {TRUE} ELSE BOOLEAN
      /\ causes' = causes \union (IF ss[t] = Null THEN {} ELSE {"outlived"})
  BY DEF DestroyTracker, Proceed
<1>3. /\ \A x \in Sheets : Live(x)' <=> Live(x)
      /\ \A x \in Sheets : nested'[x] = nested[x] /\ parent'[x] = parent[x]
      /\ \A u \in Trackers \ {t} : (Live(u)' <=> Live(u)) /\ ss'[u] = ss[u]
  <2>1. Touched({}) = {}
    BY DEF Touched
  <2>2. {} \in SUBSET Sheets /\ \A x \in Sheets : x \in Sheets \ {}
    OBVIOUS
  <2> QED BY <1>1, <1>2, <2>1, <2>2, DeleteIs
<1>4. UndefinedHasCause'
  <2>1. CASE ss[t] = Null
    BY <1>2, <2>1 DEF UndefinedHasCause
  <2>2. CASE ss[t] # Null
    BY <1>2, <2>2 DEF UndefinedHasCause
  <2> QED BY <2>1, <2>2
<1>5. AllAreHeld'
  <2>1. SUFFICES ASSUME causes \intersect {"copied", "reparented"} = {}, NEW x \in Sheets, Live(x)'
                 PROVE  IsHeld(x)'
    BY <1>2 DEF AllAreHeld
  <2>2. PICK u \in Trackers : Live(u) /\ ss[u] # Null /\ parent[ss[u]] = Null /\ x \in Tree(ss[u])
    BY <1>1, <1>2, <1>3, <2>1 DEF AllAreHeld, IsHeld
  <2>3. u # t /\ ss[u] \in Sheets
    BY <1>1, <2>2 DEF AnalyticsTypeOK
  <2>4. Live(u)' /\ ss'[u] = ss[u] /\ parent'[ss[u]] = Null
    BY <1>3, <2>2, <2>3
  <2>5. \A p \in Sheets : NestedIn(p) \subseteq NestedIn(p)'
    <3>1. \A q \in Sheets : nested[q] \subseteq Sheets
      BY <1>1 DEF AnalyticsTypeOK
    <3> QED BY <1>3, <3>1 DEF NestedIn
  <2>6. \A q \in Sheets : x \in Tree(q) => x \in Tree(q)'
    BY <2>5, TreesGrow
  <2>7. (x \in Tree(ss[u]))'
    BY <2>2, <2>3, <2>4, <2>6 DEF Tree
  <2> QED BY <2>2, <2>4, <2>7 DEF IsHeld
<1>6. causes \subseteq causes' /\ causes' \subseteq Causes /\ ("copied" \in causes' => "copied" \in causes)
  BY <1>1, <1>2 DEF AnalyticsTypeOK, Causes
<1>7. causes' = {} => ss[t] \in {} \union {Null}
  BY <1>2
<1>8. running' \in BOOLEAN /\ {} \in SUBSET Sheets
  BY <1>2
<1>9. "reparented" \notin causes => \A p \in Sheets : \A c \in nested[p] : p \in {} <=> c \in {}
  OBVIOUS
<1> QED BY <1>2, <1>4, <1>5, <1>6, <1>7, <1>8, <1>9, DeleteKeeps

LEMMA NextAnalyticsInv == AnalyticsInv /\ [AnalyticsNext]_analyticsVars => AnalyticsInv'
<1> SUFFICES ASSUME AnalyticsInv, [AnalyticsNext]_analyticsVars PROVE AnalyticsInv'
  OBVIOUS
<1>1. CASE UNCHANGED analyticsVars
  <2>1. UNCHANGED <<existence, title, parent, nested, trackers, ss, causes, full, sent, committed, running>>
    BY <1>1 DEF analyticsVars, links
  <2>2. AnalyticsTypeOK /\ UndefinedHasCause /\ CommitIsComplete
    BY DEF AnalyticsInv, PointersAreSound
  <2>3. AnalyticsTypeOK' /\ UndefinedHasCause' /\ CommitIsComplete'
    BY <2>1, <2>2 DEF AnalyticsTypeOK, UndefinedHasCause, CommitIsComplete, Live, Ancestors
  <2>4. PointersAreSound' /\ GoneIsBare' /\ NestedAreOwn' /\ TrackersAreOwn' /\ AllAreHeld'
    BY <2>1, <2>3 DEF AnalyticsInv, PointersAreSound, TrackersAreLinked, GoneIsBare, NestedAreOwn,
                      TrackersAreOwn, AllAreHeld, IsHeld, Tree, NestedIn, Live
  <2> QED BY <2>3, <2>4 DEF AnalyticsInv
<1>2. ASSUME NEW t \in Trackers, ConstructTracker(t) PROVE AnalyticsInv'
  BY <1>2, ConstructTrackerKeeps
<1>3. ASSUME NEW t \in Trackers, DestroyTracker(t) PROVE AnalyticsInv'
  BY <1>3, DestroyWithSheetKeeps, DestroyAloneKeeps
<1>4. ASSUME NEW t \in Trackers, NEW s \in Sheets, AttachSheet(t, s) PROVE AnalyticsInv'
  BY <1>4, AttachSheetKeeps
<1>5. ASSUME NEW t \in Trackers, NEW s \in Sheets, NEW name \in Titles, BuildSheet(t, s, name)
      PROVE  AnalyticsInv'
  BY <1>5, BuildSheetKeeps
<1>6. ASSUME NEW t \in Trackers, NEW src \in Trackers, CopyTracker(t, src) PROVE AnalyticsInv'
  BY <1>6, CopyTrackerKeeps
<1>7. ASSUME NEW s \in Sheets, NEW c \in Sheets, NEW name \in Titles, Nest(s, name, c)
      PROVE  AnalyticsInv'
  BY <1>7, NestKeeps
<1>8. ASSUME NEW s \in Sheets, NEW p \in Sheets \union {Null}, SetParent(s, p) PROVE AnalyticsInv'
  BY <1>8, SetParentKeeps
<1>9. ASSUME NEW s \in Sheets, AddStat(s) \/ Commit(s) PROVE AnalyticsInv'
  BY <1>9, AddStatKeeps, CommitKeeps
<1> QED BY <1>1, <1>2, <1>3, <1>4, <1>5, <1>6, <1>7, <1>8, <1>9 DEF AnalyticsNext

LEMMA InvariantOfAnalytics == AnalyticsSpec => []AnalyticsInv
BY InitAnalyticsInv, NextAnalyticsInv, PTL DEF AnalyticsSpec

\* What a tracker points to exists and knows of it as long as no tracker is copied, and
\* nothing is undefined without a cause (tracker.cpp:46-84, sheet.cpp:36-51).
THEOREM PointersAreAlwaysSound == AnalyticsSpec => []PointersAreSound
<1>1. AnalyticsInv => PointersAreSound
  BY DEF AnalyticsInv
<1> QED BY <1>1, InvariantOfAnalytics, PTL

\* Above every sheet is one that a tracker will delete, whatever is nested in whatever
\* (tracker.cpp:46-54, 70-76).
THEOREM EverySheetIsHeld == AnalyticsSpec => []NoSheetIsLost
<1>1. AnalyticsInv => NoSheetIsLost
  <2>1. SUFFICES ASSUME AnalyticsInv, running, causes \intersect {"copied", "reparented"} = {},
                        NEW s \in Sheets, Live(s)
                 PROVE  \E t \in Trackers : /\ Live(t) /\ ss[t] # Null /\ parent[ss[t]] = Null
                                            /\ ss[t] \in Ancestors(s)
    BY DEF NoSheetIsLost
  <2>2. PICK t \in Trackers : Live(t) /\ ss[t] # Null /\ parent[ss[t]] = Null /\ s \in Tree(ss[t])
    BY <2>1 DEF AnalyticsInv, AllAreHeld, IsHeld
  <2>3. AnalyticsTypeOK /\ NestedAreOwn /\ "reparented" \notin causes
    BY <2>1 DEF AnalyticsInv, PointersAreSound
  <2>4. ss[t] \in Sheets
    BY <2>2, <2>3 DEF AnalyticsTypeOK
  <2>5. ss[t] \in Ancestors(s)
    BY <2>2, <2>3, <2>4, AncestorsOfTree
  <2> QED BY <2>2, <2>5
<1> QED BY <1>1, InvariantOfAnalytics, PTL

\* What is sent are the stats of all that is nested in the committed sheet, at any depth
\* (sheet.cpp:181-214).
THEOREM CommitsAreComplete == AnalyticsSpec => []CommitIsComplete
<1>1. AnalyticsInv => CommitIsComplete
  BY DEF AnalyticsInv
<1> QED BY <1>1, InvariantOfAnalytics, PTL
================================================================================
