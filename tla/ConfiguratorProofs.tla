---------------------------- MODULE ConfiguratorProofs ----------------------------
(***************************************************************************)
(* The configurator, for any configurables and contexts and for sheets of  *)
(* any depth that include any number of others: the parser stays in step   *)
(* with what the sheet says, whoever is subscribed is told of what         *)
(* concerns him and in turn, and nobody is called after his destruction.   *)
(***************************************************************************)
EXTENDS Configurator, TLAPS, SequenceTheorems, FiniteSetTheorems, NaturalsInduction,
        WellFoundedInduction

-----------------------------------------------------------------------------
(***************************************************************************)
(* The open maps and arrays of a sheet.  A map that wants a key is the     *)
(* innermost of them, and its last key is forgotten.                       *)
(***************************************************************************)
WellFormed(open) ==
  /\ open \in Seq(Frames)
  /\ open # <<>> => open[1].kind = "map"
  /\ \A i \in 1..Len(open) : open[i].want = "key" => i = Len(open) /\ open[i].key = NoKey

LEMMA FrameFacts ==
  /\ MapFrame \in Frames /\ ArrayFrame \in Frames
  /\ MapFrame.kind = "map" /\ MapFrame.key = NoKey /\ MapFrame.want = "key"
  /\ ArrayFrame.kind = "array" /\ ArrayFrame.want = "value"
  /\ \A f \in Frames :
       /\ f.kind \in {"map", "array"}
       /\ f.kind = "array" => f.want \in {"value", "rest"}
BY DEF MapFrame, ArrayFrame, Frames

LEMMA ArrayRests ==
  ASSUME NEW f \in Frames, f.kind = "array"
  PROVE  LET g == [f EXCEPT !.want = "rest"]
         IN  g \in Frames /\ g.kind = "array" /\ g.key = f.key /\ g.want = "rest"
BY DEF Frames

LEMMA OpenFacts ==
  ASSUME NEW open, WellFormed(open), open # <<>>
  PROVE  /\ Len(open) \in Nat \ {0} /\ DOMAIN open = 1..Len(open)
         /\ \A i \in 1..Len(open) : open[i] \in Frames
         /\ open[1].kind = "map"
         /\ Last(open) = open[Len(open)]
         /\ Last(open).want = "key" => Last(open).kind = "map" /\ Last(open).key = NoKey
<1>1. Len(open) \in Nat \ {0} /\ DOMAIN open = 1..Len(open)
  BY EmptySeq, LenProperties DEF WellFormed
<1>2. \A i \in 1..Len(open) : open[i] \in Frames
  BY ElementOfSeq DEF WellFormed
<1>3. Last(open) = open[Len(open)] /\ Len(open) \in 1..Len(open)
  BY <1>1 DEF Last
<1> QED BY <1>1, <1>2, <1>3, FrameFacts DEF WellFormed

\* One more is open.
LEMMA Opened ==
  ASSUME NEW open, WellFormed(open), NEW f \in {MapFrame, ArrayFrame},
         IF open = <<>> THEN f = MapFrame ELSE Last(open).want # "key"
  PROVE  LET new == Append(open, f)
         IN  /\ WellFormed(new) /\ new # <<>> /\ Len(new) = Len(open) + 1
             /\ \A i \in 1..Len(open) : new[i] = open[i]
             /\ new[Len(new)] = f /\ Last(new) = f
             /\ Maps(new) = IF f.kind = "map" THEN Maps(open) \union {Len(new)} ELSE Maps(open)
<1> DEFINE new == Append(open, f)
<1>1. f \in Frames /\ open \in Seq(Frames)
  BY FrameFacts DEF WellFormed
<1>2. /\ new \in Seq(Frames) /\ Len(new) = Len(open) + 1
      /\ \A i \in 1..Len(open) : new[i] = open[i]
      /\ new[Len(open) + 1] = f
  BY <1>1, AppendProperties
<1>3. Len(open) \in Nat /\ new # <<>> /\ Last(new) = f
  BY <1>1, <1>2, EmptySeq, LenProperties DEF Last
<1> HIDE DEF new
<1>4. new[1].kind = "map"
  <2>1. CASE open = <<>>
    BY <1>2, <2>1, EmptySeq, FrameFacts
  <2>2. CASE open # <<>>
    BY <1>2, <2>2, OpenFacts
  <2> QED BY <2>1, <2>2
<1>5. ASSUME NEW i \in 1..Len(new), new[i].want = "key"
      PROVE  i = Len(new) /\ new[i].key = NoKey
  <2>1. CASE i = Len(new)
    BY <1>2, <1>5, <2>1, FrameFacts
  <2>2. CASE i \in 1..Len(open)
    <3>1. new[i] = open[i] /\ open # <<>>
      BY <1>2, <2>2, EmptySeq
    <3>2. i = Len(open) /\ Last(open).want # "key"
      BY <1>5, <2>2, <3>1 DEF WellFormed
    <3> QED BY <1>5, <3>1, <3>2 DEF Last
  <2> QED BY <1>2, <1>3, <2>1, <2>2
<1>6. Maps(new) = IF f.kind = "map" THEN Maps(open) \union {Len(new)} ELSE Maps(open)
  <2>1. \A i \in Nat : i \in 1..Len(new) <=> i \in 1..Len(open) \/ i = Len(new)
    BY <1>2, <1>3
  <2>2. \A i \in Nat : i \in Maps(new) <=> i \in Maps(open) \/ (i = Len(new) /\ f.kind = "map")
    BY <1>2, <2>1 DEF Maps
  <2>3. Maps(new) \subseteq Nat /\ Maps(open) \subseteq Nat /\ Len(new) \in Nat
    BY <1>2, <1>3 DEF Maps
  <2> QED BY <2>2, <2>3
<1>7. WellFormed(new)
  BY <1>2, <1>4, <1>5 DEF WellFormed
<1> QED BY <1>2, <1>3, <1>6, <1>7 DEF new

\* Two that are alike in what is a map.
LEMMA SameMaps ==
  ASSUME NEW open, NEW new, Len(new) = Len(open),
         \A i \in 1..Len(open) : new[i].kind = "map" <=> open[i].kind = "map"
  PROVE  Maps(new) = Maps(open)
BY DEF Maps

\* The key, or the value, of the innermost was read.
LEMMA Replaced ==
  ASSUME NEW open, WellFormed(open), open # <<>>,
         NEW g \in Frames, g.kind = Last(open).kind,
         g.want = "key" => g.key = NoKey
  PROVE  LET new == [open EXCEPT ![Len(open)] = g]
         IN  /\ WellFormed(new) /\ new # <<>> /\ Len(new) = Len(open)
             /\ \A i \in 1..(Len(open) - 1) : new[i] = open[i]
             /\ new[Len(new)] = g /\ Last(new) = g
             /\ Maps(new) = Maps(open)
<1> DEFINE new == [open EXCEPT ![Len(open)] = g]
<1>1. /\ Len(open) \in Nat \ {0} /\ DOMAIN open = 1..Len(open)
      /\ \A i \in 1..Len(open) : open[i] \in Frames
      /\ open[1].kind = "map" /\ Last(open) = open[Len(open)]
      /\ open \in Seq(Frames)
  BY OpenFacts DEF WellFormed
<1>2. /\ new \in Seq(Frames) /\ Len(new) = Len(open) /\ new # <<>>
      /\ \A i \in 1..(Len(open) - 1) : new[i] = open[i]
      /\ new[Len(open)] = g
  BY <1>1
<1> HIDE DEF new
<1>3. \A i \in 1..Len(open) : new[i].kind = open[i].kind
  BY <1>1, <1>2
<1>4. Maps(new) = Maps(open)
  BY <1>2, <1>3, SameMaps
<1>5. ASSUME NEW i \in 1..Len(new), new[i].want = "key"
      PROVE  i = Len(new) /\ new[i].key = NoKey
  <2>1. Len(open) \in Nat /\ Len(open) >= 1 /\ Len(new) = Len(open)
    BY <1>1, <1>2
  <2>2. CASE i = Len(new)
    BY <1>2, <1>5, <2>2
  <2>3. CASE i \in 1..(Len(open) - 1)
    <3>1. i \in 1..Len(open) /\ i # Len(open)
      BY <2>1, <2>3
    <3>2. new[i] = open[i]
      BY <1>2, <2>3
    <3> QED BY <1>5, <3>1, <3>2 DEF WellFormed
  <2> QED BY <2>1, <2>2, <2>3
<1>6. WellFormed(new)
  <2>1. new[1].kind = "map"
    BY <1>1, <1>3
  <2> QED BY <1>2, <1>5, <2>1 DEF WellFormed
<1> QED BY <1>1, <1>2, <1>4, <1>6 DEF Last, new

LEMMA FrontFacts ==
  ASSUME NEW S, NEW s \in Seq(S), s # <<>>
  PROVE  /\ Front(s) \in Seq(S) /\ Len(Front(s)) = Len(s) - 1 /\ Len(s) \in Nat \ {0}
         /\ \A i \in 1..(Len(s) - 1) : Front(s)[i] = s[i]
<1>1. Len(s) \in Nat \ {0} /\ \A i \in 1..Len(s) : s[i] \in S
  BY EmptySeq, LenProperties, ElementOfSeq
<1>2. \A i \in 1..(Len(s) - 1) : s[i] \in S
  BY <1>1
<1>3. 1 \in Int /\ Len(s) - 1 \in Int /\ Len(s) - 1 \in Nat
  BY <1>1
<1>4. /\ SubSeq(s, 1, Len(s) - 1) \in Seq(S)
      /\ Len(SubSeq(s, 1, Len(s) - 1)) = (IF 1 <= Len(s) - 1 THEN (Len(s) - 1) - 1 + 1 ELSE 0)
      /\ \A i \in 1..((Len(s) - 1) - 1 + 1) : SubSeq(s, 1, Len(s) - 1)[i] = s[1 + i - 1]
  BY <1>2, <1>3, SubSeqProperties
<1>5. Front(s) = SubSeq(s, 1, Len(s) - 1)
  BY DEF Front
<1> DEFINE f == SubSeq(s, 1, Len(s) - 1)
<1> HIDE DEF f
<1>6. Len(f) = Len(s) - 1 /\ f \in Seq(S)
  <2>1. f \in Seq(S) /\ Len(f) = (IF 1 <= Len(s) - 1 THEN (Len(s) - 1) - 1 + 1 ELSE 0)
    BY <1>4 DEF f
  <2> QED BY <1>1, <2>1
<1>7. ASSUME NEW i \in 1..(Len(s) - 1) PROVE f[i] = s[i]
  <2>1. i \in 1..((Len(s) - 1) - 1 + 1) /\ 1 + i - 1 = i
    BY <1>1
  <2> QED BY <1>4, <2>1 DEF f
<1> QED BY <1>1, <1>5, <1>6, <1>7 DEF f

\* A value of the innermost map was read.
LEMMA ValueIsTaken ==
  ASSUME NEW open, WellFormed(open), open # <<>>
  PROVE  ValueTaken(open) =
           IF Last(open).kind = "map" THEN [open EXCEPT ![Len(open)] = MapFrame] ELSE open
<1> SUFFICES ASSUME Last(open).kind = "map"
             PROVE  Append(Front(open), MapFrame) = [open EXCEPT ![Len(open)] = MapFrame]
  BY DEF ValueTaken
<1>1. open \in Seq(Frames) /\ MapFrame \in Frames
  BY FrameFacts DEF WellFormed
<1>2. /\ Front(open) \in Seq(Frames) /\ Len(Front(open)) = Len(open) - 1
      /\ Len(open) \in Nat \ {0}
      /\ \A i \in 1..(Len(open) - 1) : Front(open)[i] = open[i]
  BY <1>1, FrontFacts
<1> DEFINE a == Append(Front(open), MapFrame)
           b == [open EXCEPT ![Len(open)] = MapFrame]
<1>3. /\ a \in Seq(Frames) /\ Len(a) = Len(open)
      /\ \A i \in 1..(Len(open) - 1) : a[i] = open[i]
      /\ a[Len(open)] = MapFrame
  <2>1. /\ a \in Seq(Frames) /\ Len(a) = Len(Front(open)) + 1
        /\ \A i \in 1..Len(Front(open)) : a[i] = Front(open)[i]
        /\ a[Len(Front(open)) + 1] = MapFrame
    BY <1>1, <1>2, AppendProperties
  <2> HIDE DEF a
  <2> QED BY <1>2, <2>1
<1>4. /\ b \in Seq(Frames) /\ Len(b) = Len(open)
      /\ \A i \in 1..(Len(open) - 1) : b[i] = open[i]
      /\ b[Len(open)] = MapFrame
  BY <1>1, <1>2
<1> HIDE DEF a, b
<1>5. \A i \in 1..Len(open) : a[i] = b[i]
  BY <1>2, <1>3, <1>4
<1>6. a = b
  BY <1>3, <1>4, <1>5, SeqEqual
<1> QED BY <1>6 DEF a, b

\* What is around the innermost.
LEMMA FrontIsWellFormed ==
  ASSUME NEW open, WellFormed(open), Len(open) > 1
  PROVE  LET new == Front(open)
         IN  /\ WellFormed(new) /\ new # <<>> /\ Len(new) = Len(open) - 1
             /\ \A i \in 1..Len(new) : new[i] = open[i] /\ new[i].want # "key"
             /\ Last(new) = open[Len(open) - 1]
             /\ Maps(new) = Maps(open) \ {Len(open)}
<1> DEFINE new == Front(open)
<1>1. open \in Seq(Frames) /\ open # <<>>
  BY EmptySeq DEF WellFormed
<1>2. /\ new \in Seq(Frames) /\ Len(new) = Len(open) - 1
      /\ \A i \in 1..(Len(open) - 1) : new[i] = open[i]
  BY <1>1, FrontFacts
<1>3. Len(open) \in Nat /\ Len(new) \in Nat /\ Len(new) >= 1
  <2>1. Len(open) \in Nat
    BY <1>1, LenProperties
  <2> QED BY <1>2, <2>1
<1> HIDE DEF new
<1>4. \A i \in 1..Len(new) : new[i] = open[i] /\ i \in 1..Len(open) /\ i # Len(open)
  BY <1>2, <1>3
<1>5. \A i \in 1..Len(new) : new[i].want # "key"
  BY <1>4 DEF WellFormed
<1>6. 1 \in 1..Len(new) /\ Len(new) \in 1..Len(new)
  BY <1>3
<1>7. new # <<>> /\ Last(new) = open[Len(open) - 1]
  BY <1>2, <1>3, <1>4, <1>6, EmptySeq DEF Last
<1>8. WellFormed(new)
  BY <1>1, <1>2, <1>4, <1>5, <1>6 DEF WellFormed
<1>9. Maps(new) = Maps(open) \ {Len(open)}
  <2>1. \A i \in Nat : i \in 1..Len(new) <=> i \in 1..Len(open) /\ i # Len(open)
    BY <1>2, <1>3
  <2>2. \A i \in Nat : i \in Maps(new) <=> i \in Maps(open) /\ i # Len(open)
    BY <1>4, <2>1 DEF Maps
  <2>3. Maps(new) \subseteq Nat /\ Maps(open) \subseteq Nat
    BY DEF Maps
  <2> QED BY <2>2, <2>3
<1> QED BY <1>2, <1>4, <1>5, <1>7, <1>8, <1>9 DEF new

\* The innermost ended: a map around it wants a key again, and an array rests.
ClosesTo(open, new) ==
  /\ WellFormed(new) /\ Len(new) = Len(open) - 1
  /\ \A i \in 1..(Len(new) - 1) : new[i] = open[i]
  /\ new # <<>> => /\ new[Len(new)].kind = open[Len(new)].kind
                   /\ new[Len(new)].kind = "map" => new[Len(new)] = MapFrame
                   /\ new[Len(new)].kind = "array" => new[Len(new)].want = "rest"
  /\ Maps(new) = Maps(open) \ {Len(open)}

LEMMA ClosedFacts ==
  ASSUME NEW open, WellFormed(open), open # <<>>
  PROVE  ClosesTo(open, Closed(open))
<1> DEFINE new == Closed(open)
           n == Len(open) - 1
           front == Front(open)
<1> SUFFICES ClosesTo(open, new)
  OBVIOUS
<1>1. Len(open) \in Nat /\ Len(open) >= 1
  BY OpenFacts
<1>2. CASE Len(open) = 1
  <2>1. new = <<>> /\ n = 0
    BY <1>2 DEF Closed
  <2>2. WellFormed(new)
    BY <2>1, EmptySeq DEF WellFormed
  <2>3. Len(new) = 0 /\ Maps(new) = {}
    BY <2>1, EmptySeq DEF Maps
  <2>4. Maps(open) \ {Len(open)} = {}
    BY <1>2 DEF Maps
  <2> HIDE DEF new
  <2>5. \A i \in 1..(Len(new) - 1) : FALSE
    BY <2>3
  <2> QED BY <1>2, <2>1, <2>2, <2>3, <2>4, <2>5 DEF ClosesTo
<1>3. CASE Len(open) > 1
  <2>1. /\ WellFormed(front) /\ front # <<>> /\ Len(front) = n
        /\ \A i \in 1..n : front[i] = open[i]
        /\ Last(front) = open[n] /\ Last(front) \in Frames
        /\ Maps(front) = Maps(open) \ {Len(open)}
    <3>1. /\ WellFormed(front) /\ front # <<>> /\ Len(front) = n
          /\ \A i \in 1..n : front[i] = open[i]
          /\ Last(front) = open[n]
          /\ Maps(front) = Maps(open) \ {Len(open)}
      BY <1>3, FrontIsWellFormed
    <3>2. n \in 1..Len(open)
      BY <1>1, <1>3
    <3>3. open[n] \in Frames
      BY <3>2, OpenFacts
    <3> QED BY <3>1, <3>3
  <2>2. PICK g \in Frames :
          /\ g.kind = Last(front).kind
          /\ g.kind = "map" => g = MapFrame
          /\ g.kind = "array" => g.want = "rest"
          /\ new = [front EXCEPT ![Len(front)] = g]
    <3>1. CASE Last(front).kind = "map"
      <4>1. new = ValueTaken(front)
        BY <1>3, <2>1, <3>1 DEF Closed
      <4>2. new = [front EXCEPT ![Len(front)] = MapFrame]
        BY <2>1, <3>1, <4>1, ValueIsTaken
      <4> QED BY <3>1, <4>2, FrameFacts
    <3>2. CASE Last(front).kind # "map"
      <4> DEFINE g == [Last(front) EXCEPT !.want = "rest"]
      <4>1. Last(front).kind = "array"
        BY <2>1, <3>2, FrameFacts
      <4>2. g \in Frames /\ g.kind = "array" /\ g.want = "rest"
        BY <2>1, <4>1, ArrayRests
      <4>3. new = [front EXCEPT ![n].want = "rest"]
        BY <1>3, <2>1, <3>2 DEF Closed
      <4>4. front[n] = Last(front)
        BY <2>1 DEF Last
      <4>5. new = [front EXCEPT ![n] = g]
        BY <4>3, <4>4
      <4> HIDE DEF g
      <4> QED BY <2>1, <4>1, <4>2, <4>5
    <3> QED BY <3>1, <3>2
  <2>3. g.want = "key" => g.key = NoKey
    BY <2>2, FrameFacts
  <2> HIDE DEF new, front, n
  <2>4. /\ WellFormed(new) /\ new # <<>> /\ Len(new) = Len(front)
        /\ \A i \in 1..(Len(front) - 1) : new[i] = front[i]
        /\ new[Len(new)] = g /\ Last(new) = g
        /\ Maps(new) = Maps(front)
    <3> DEFINE r == [front EXCEPT ![Len(front)] = g]
    <3>1. /\ WellFormed(r) /\ r # <<>> /\ Len(r) = Len(front)
          /\ \A i \in 1..(Len(front) - 1) : r[i] = front[i]
          /\ r[Len(r)] = g /\ Last(r) = g
          /\ Maps(r) = Maps(front)
      BY <2>1, <2>2, <2>3, Replaced
    <3>2. new = r
      BY <2>2
    <3> HIDE DEF r
    <3> QED BY <3>1, <3>2
  <2>5. n \in Nat /\ n > 0
    BY <1>1, <1>3 DEF n
  <2>6. \A i \in 1..(n - 1) : new[i] = open[i]
    BY <2>1, <2>4, <2>5
  <2>7. /\ new[n].kind = open[n].kind
        /\ new[n].kind = "map" => new[n] = MapFrame
        /\ new[n].kind = "array" => new[n].want = "rest"
    BY <2>1, <2>2, <2>4
  <2>8. Len(new) = n /\ Maps(new) = Maps(open) \ {Len(open)} /\ n # 0
    BY <2>1, <2>4, <2>5
  <2>9. Len(new) = Len(open) - 1
    BY <2>8 DEF n
  <2> QED BY <2>4, <2>6, <2>7, <2>8, <2>9 DEF ClosesTo
<1> QED BY <1>1, <1>2, <1>3

-----------------------------------------------------------------------------
(***************************************************************************)
(* Which of them are maps.                                                 *)
(***************************************************************************)
LEMMA MapsAreFinite ==
  ASSUME NEW open \in Seq(Frames)
  PROVE  /\ IsFiniteSet(Maps(open)) /\ Maps(open) \subseteq 1..Len(open)
         /\ Cardinality(Maps(open)) \in Nat
<1>1. Len(open) \in Nat /\ IsFiniteSet(1..Len(open)) /\ Maps(open) \subseteq 1..Len(open)
  BY LenProperties, FS_Interval DEF Maps
<1> QED BY <1>1, FS_Subset, FS_CardinalityType

\* The greatest is the one that is.
LEMMA GreatestIs ==
  ASSUME NEW S, S \subseteq Nat, NEW n \in S, \A k \in S : n >= k
  PROVE  Max(S) = n
<1> DEFINE m == Max(S)
<1>1. m \in S /\ \A k \in S : m >= k
  BY DEF Max
<1> HIDE DEF m
<1>2. m \in Nat /\ n \in Nat /\ m >= n /\ n >= m
  BY <1>1
<1>3. m = n
  BY <1>2
<1> QED BY <1>3 DEF m

\* A nonempty set of positions has a least, and a greatest.
LEMMA HasLeast ==
  ASSUME NEW n \in Nat, NEW T, T \subseteq 0..n, T # {}
  PROVE  \E t \in T : \A s \in T : s >= t
<1> DEFINE R == OpToRel(<, Nat)
<1>1. T \subseteq Nat
  OBVIOUS
<1>2. IsWellFoundedOn(R, Nat)
  BY NatLessThanWellFounded
<1>3. PICK t \in T : \A y \in T : ~ (<<y, t>> \in R)
  BY <1>1, <1>2, WFMin
<1>4. \A y \in T : ~(y < t)
  BY <1>1, <1>3 DEF OpToRel
<1>5. \A y \in T : y \in Nat /\ t \in Nat
  BY <1>1
<1>6. \A y \in T : y >= t
  BY <1>4, <1>5
<1> QED BY <1>6

LEMMA MaxOfMaps ==
  ASSUME NEW open \in Seq(Frames), Maps(open) # {}
  PROVE  Max(Maps(open)) \in Maps(open)
<1> DEFINE n == Len(open)
           T == {k \in 0..n : n - k \in Maps(open)}
<1>1. n \in Nat /\ \A k \in Maps(open) : k \in Nat /\ k <= n
  BY LenProperties DEF Maps
<1> HIDE DEF n
<1>2. T \subseteq 0..n /\ T # {}
  <2>1. PICK k \in Maps(open) : TRUE
    OBVIOUS
  <2>2. n - k \in T
    BY <1>1, <2>1
  <2> QED BY <2>2
<1>3. PICK t \in T : \A y \in T : y >= t
  BY <1>1, <1>2, HasLeast
<1>4. n - t \in Maps(open) /\ t \in Nat
  OBVIOUS
<1>5. ASSUME NEW s \in Maps(open) PROVE n - t >= s
  <2>1. n - s \in T
    BY <1>1
  <2>2. n - s >= t
    BY <1>3, <2>1
  <2> QED BY <1>1, <1>4, <2>2
<1> QED BY <1>4, <1>5 DEF Max

\* A map that is innermost owns what comes next.
LEMMA InnermostOwns ==
  ASSUME NEW open, WellFormed(open), open # <<>>, Last(open).kind = "map"
  PROVE  Owner(open) = Last(open).key
<1>1. Len(open) \in Nat \ {0} /\ Last(open) = open[Len(open)]
  BY OpenFacts
<1>2. Len(open) \in Maps(open) /\ Maps(open) \subseteq Nat /\ \A k \in Maps(open) : Len(open) >= k
  BY <1>1 DEF Maps
<1>3. Max(Maps(open)) = Len(open)
  BY <1>2, GreatestIs
<1> QED BY <1>1, <1>3 DEF Owner

LEMMA OpenedCount ==
  ASSUME NEW open, WellFormed(open), NEW f \in {MapFrame, ArrayFrame},
         IF open = <<>> THEN f = MapFrame ELSE Last(open).want # "key"
  PROVE  Cardinality(Maps(Append(open, f))) =
           IF f.kind = "map" THEN Cardinality(Maps(open)) + 1 ELSE Cardinality(Maps(open))
<1> DEFINE n == Len(Append(open, f))
<1>1. Maps(Append(open, f)) = (IF f.kind = "map" THEN Maps(open) \union {n} ELSE Maps(open))
      /\ n = Len(open) + 1
  BY Opened
<1>2. open \in Seq(Frames) /\ Len(open) \in Nat
  BY LenProperties DEF WellFormed
<1>3. IsFiniteSet(Maps(open)) /\ Maps(open) \subseteq 1..Len(open)
  BY <1>2, MapsAreFinite
<1> HIDE DEF n
<1>4. n \notin Maps(open)
  BY <1>1, <1>2, <1>3
<1>5. Cardinality(Maps(open) \union {n}) = Cardinality(Maps(open)) + 1
  BY <1>3, <1>4, FS_AddElement
<1> QED BY <1>1, <1>5

LEMMA ClosedCount ==
  ASSUME NEW open, WellFormed(open), open # <<>>
  PROVE  /\ Last(open).kind = "map" =>
              Cardinality(Maps(Closed(open))) = Cardinality(Maps(open)) - 1
         /\ Last(open).kind = "array" =>
              Cardinality(Maps(Closed(open))) = Cardinality(Maps(open))
<1>1. Maps(Closed(open)) = Maps(open) \ {Len(open)}
  BY ClosedFacts DEF ClosesTo
<1>2. open \in Seq(Frames) /\ Len(open) \in Nat \ {0} /\ Last(open) = open[Len(open)]
  BY OpenFacts DEF WellFormed
<1>3. IsFiniteSet(Maps(open))
  BY <1>2, MapsAreFinite
<1>4. Len(open) \in Maps(open) <=> Last(open).kind = "map"
  BY <1>2 DEF Maps
<1>5. CASE Last(open).kind = "map"
  BY <1>1, <1>3, <1>4, <1>5, FS_RemoveElement
<1>6. CASE Last(open).kind = "array"
  BY <1>1, <1>4, <1>6
<1> QED BY <1>5, <1>6

LEMMA One == ASSUME NEW a PROVE IsFiniteSet({a}) /\ Cardinality({a}) = 1
BY FS_Singleton

LEMMA Two ==
  ASSUME NEW a, NEW b, a # b
  PROVE  IsFiniteSet({a} \union {b}) /\ Cardinality({a} \union {b}) = 2
<1>1. IsFiniteSet({a}) /\ Cardinality({a}) = 1 /\ b \notin {a}
  BY One
<1> QED BY <1>1, FS_AddElement

LEMMA Three ==
  ASSUME NEW S, IsFiniteSet(S), NEW a \in S, NEW b \in S, NEW c \in S, a # b, a # c, b # c
  PROVE  Cardinality(S) >= 3
<1> DEFINE T == {a} \union {b}
<1>1. IsFiniteSet(T) /\ Cardinality(T) = 2
  BY Two
<1>2. c \notin T /\ (T \union {c}) \in SUBSET S
  OBVIOUS
<1> HIDE DEF T
<1>3. Cardinality(T \union {c}) = 3
  BY <1>1, <1>2, FS_AddElement
<1>4. Cardinality(T \union {c}) <= Cardinality(S) /\ Cardinality(S) \in Nat
  BY <1>2, FS_Subset, FS_CardinalityType
<1> QED BY <1>3, <1>4

\* The map of a context is at depth two, and is the only one there.
LEMMA DepthOfContext ==
  ASSUME NEW open, WellFormed(open), open # <<>>, Last(open).kind = "map",
         Len(open) > 2 => open[2].kind = "map"
  PROVE  Cardinality(Maps(open)) = 2 <=> Len(open) = 2
<1>1. /\ open \in Seq(Frames) /\ Len(open) \in Nat /\ Len(open) >= 1
      /\ open[Len(open)].kind = "map" /\ open[1].kind = "map"
  BY OpenFacts DEF WellFormed
<1>2. IsFiniteSet(Maps(open)) /\ Cardinality(Maps(open)) \in Nat
  BY <1>1, MapsAreFinite
<1>3. CASE Len(open) = 1
  <2>1. Maps(open) = {1}
    BY <1>1, <1>3 DEF Maps
  <2>2. Cardinality(Maps(open)) = 1
    BY <2>1, One, Zenon
  <2> QED BY <1>3, <2>2
<1>4. CASE Len(open) = 2
  <2>1. Maps(open) = {1} \union {2} /\ 1 # 2
    BY <1>1, <1>4 DEF Maps
  <2>2. Cardinality({1} \union {2}) = 2
    BY <2>1, Two
  <2> QED BY <1>4, <2>1, <2>2
<1>5. CASE Len(open) > 2
  <2>1. /\ 1 \in Maps(open) /\ 2 \in Maps(open) /\ Len(open) \in Maps(open)
        /\ 1 # 2 /\ 1 # Len(open) /\ 2 # Len(open)
    BY <1>1, <1>5 DEF Maps
  <2>2. Cardinality(Maps(open)) >= 3
    BY <1>2, <2>1, Three, Zenon
  <2>3. Cardinality(Maps(open)) # 2 /\ Len(open) # 2
    BY <1>1, <1>2, <1>5, <2>2
  <2> QED BY <2>3
<1>6. Len(open) = 1 \/ Len(open) = 2 \/ Len(open) > 2
  <2>1. Len(open) \in Nat /\ Len(open) >= 1
    BY <1>1
  <2>2. \A n \in Nat : n >= 1 => n = 1 \/ n = 2 \/ n > 2
    OBVIOUS
  <2> QED BY <2>1, <2>2
<1> QED BY <1>3, <1>4, <1>5, <1>6

-----------------------------------------------------------------------------
(***************************************************************************)
(* A parser.  What d says is which contexts somebody ever subscribed to.   *)
(***************************************************************************)
Parsers ==
  [depth : Nat, key : Keys \union {NoKey}, subs : Contexts \union {None},
   files : 0..MaxFiles, open : Seq(Frames), done : BOOLEAN, tidy : BOOLEAN]

InForce(d, open) == IF open # <<>> /\ open[1].key \in d THEN open[1].key ELSE None

\* A tidy sheet: and the value of a context in force is a map.
Follows(d, p) ==
  /\ p.subs = InForce(d, p.open)
  /\ p.open # <<>> /\ Last(p.open).want # "key" /\ ~KeyIsLost(p.open) => p.key = Owner(p.open)
  /\ Len(p.open) > 1 /\ p.subs # None => p.open[2].kind = "map"

ParserInv(d, p) ==
  /\ p \in Parsers /\ p.subs \in d \union {None}
  /\ WellFormed(p.open)
  /\ p.depth = Cardinality(Maps(p.open))
  /\ p.tidy => Follows(d, p)

\* A key that is no context is not in force, and so is the key of a map that wants one.
LEMMA NotInForce ==
  ASSUME NEW d \in SUBSET Contexts, NEW open, WellFormed(open)
  PROVE  /\ open # <<>> /\ open[1].key \in {NoKey, Unknown} \union Reserved =>
              InForce(d, open) = None
         /\ open # <<>> /\ Len(open) = 1 /\ Last(open).want = "key" => InForce(d, open) = None
<1>1. open # <<>> /\ Len(open) = 1 /\ Last(open).want = "key" => open[1].key = NoKey
  BY OpenFacts
<1> QED BY <1>1, ConfiguratorAssumption DEF InForce

LEMMA ParserFields ==
  ASSUME NEW d \in SUBSET Contexts, NEW p, ParserInv(d, p)
  PROVE  /\ p \in Parsers /\ p.open \in Seq(Frames) /\ p.tidy \in BOOLEAN
         /\ p.depth \in Nat /\ Cardinality(Maps(p.open)) \in Nat
         /\ p.subs \in Contexts \union {None}
         /\ None \notin Contexts
BY MapsAreFinite, ConfiguratorAssumption DEF ParserInv, Parsers

\* A map or an array is opened.
LEMMA AfterOpening ==
  ASSUME NEW d \in SUBSET Contexts, NEW p, ParserInv(d, p), NEW f \in {MapFrame, ArrayFrame},
         IF p.open = <<>> THEN f = MapFrame ELSE Last(p.open).want # "key",
         NEW q \in Parsers, q.subs = p.subs, q.key = p.key, q.open = Append(p.open, f),
         q.depth = (IF f = MapFrame THEN p.depth + 1 ELSE p.depth),
         q.tidy => p.tidy,
         q.tidy /\ f = ArrayFrame => ~(Len(p.open) = 1 /\ Last(p.open).key \in d)
  PROVE  ParserInv(d, q)
<1> DEFINE new == Append(p.open, f)
<1>1. /\ WellFormed(p.open) /\ p \in Parsers /\ p.subs \in d \union {None}
      /\ p.depth \in Nat /\ p.depth = Cardinality(Maps(p.open))
      /\ p.tidy => Follows(d, p)
  BY ParserFields DEF ParserInv
<1>2. /\ WellFormed(new) /\ new # <<>> /\ Len(new) = Len(p.open) + 1
      /\ \A i \in 1..Len(p.open) : new[i] = p.open[i]
      /\ new[Len(new)] = f /\ Last(new) = f
      /\ Maps(new) = IF f.kind = "map" THEN Maps(p.open) \union {Len(new)} ELSE Maps(p.open)
  BY <1>1, Opened
<1>3. f.kind = "map" <=> f = MapFrame
  BY FrameFacts
<1>4. Cardinality(Maps(new)) = IF f = MapFrame THEN p.depth + 1 ELSE p.depth
  BY <1>1, <1>3, OpenedCount
<1>6. q.open = new
  OBVIOUS
<1> HIDE DEF new
<1>7. ASSUME q.tidy PROVE Follows(d, q)
  <2>1. Follows(d, p)
    BY <1>1, <1>7
  <2>2. CASE p.open = <<>>
    <3>1. Len(new) = 1 /\ Last(new).want = "key" /\ Len(p.open) = 0
      BY <1>2, <2>2, EmptySeq, FrameFacts
    <3>2. InForce(d, new) = None /\ p.subs = None
      BY <1>2, <2>1, <2>2, <3>1, NotInForce DEF Follows, InForce
    <3> QED BY <1>6, <3>1, <3>2 DEF Follows
  <2>3. CASE p.open # <<>>
    <3>1. Len(p.open) \in Nat /\ Len(p.open) >= 1 /\ new[1] = p.open[1]
      BY <1>1, <1>2, <2>3, OpenFacts
    <3>2. InForce(d, new) = InForce(d, p.open)
      BY <1>2, <2>3, <3>1 DEF InForce
    <3>3. ASSUME Last(new).want # "key", ~KeyIsLost(new) PROVE p.key = Owner(new)
      <4>1. f = ArrayFrame
        BY <1>2, <3>3, FrameFacts
      <4>2. ~KeyIsLost(p.open)
        <5>1. SUFFICES ASSUME NEW i \in 1..Len(p.open), p.open[i].want = "rest",
                              \A j \in i..Len(p.open) : p.open[j].kind = "array"
                       PROVE  FALSE
          BY DEF KeyIsLost
        <5>2. i \in 1..Len(new) /\ new[i].want = "rest"
          BY <1>2, <3>1, <5>1
        <5>3. ASSUME NEW j \in i..Len(new) PROVE new[j].kind = "array"
          <6>1. CASE j = Len(new)
            BY <1>2, <4>1, <6>1, FrameFacts
          <6>2. CASE j # Len(new)
            <7>1. j \in i..Len(p.open) /\ j \in 1..Len(p.open)
              BY <1>2, <3>1, <5>3, <6>2
            <7> QED BY <1>2, <5>1, <7>1
          <6> QED BY <6>1, <6>2
        <5> QED BY <3>3, <5>2, <5>3 DEF KeyIsLost
      <4>3. p.key = Owner(p.open)
        BY <2>1, <2>3, <4>1, <4>2, FrameFacts DEF Follows
      <4>4. Maps(new) = Maps(p.open)
        BY <1>2, <4>1, FrameFacts
      <4>5. Max(Maps(p.open)) \in 1..Len(p.open)
        <5>1. 1 \in Maps(p.open) /\ p.open \in Seq(Frames)
          BY <1>1, <2>3, <3>1, OpenFacts DEF Maps, WellFormed
        <5>2. Max(Maps(p.open)) \in Maps(p.open)
          BY <5>1, MaxOfMaps
        <5> QED BY <5>2 DEF Maps
      <4> QED BY <1>2, <4>3, <4>4, <4>5 DEF Owner
    <3>4. ASSUME Len(new) > 1, p.subs # None PROVE new[2].kind = "map"
      <4>1. CASE Len(p.open) > 1
        <5>1. p.open[2].kind = "map" /\ 2 \in 1..Len(p.open)
          BY <2>1, <3>1, <3>4, <4>1 DEF Follows
        <5> QED BY <1>2, <5>1
      <4>2. CASE Len(p.open) = 1
        <5>1. Last(p.open) = p.open[1] /\ p.open[1].key \in d
          BY <2>1, <2>3, <3>4, <4>2 DEF Follows, InForce, Last
        <5>2. f = MapFrame
          BY <1>7, <4>2, <5>1
        <5> QED BY <1>2, <4>2, <5>2, FrameFacts
      <4>3. \A n \in Nat : n >= 1 => n = 1 \/ n > 1
        OBVIOUS
      <4> QED BY <3>1, <4>1, <4>2, <4>3
    <3> QED BY <1>6, <2>1, <3>2, <3>3, <3>4 DEF Follows
  <2> QED BY <2>2, <2>3
<1> QED BY <1>1, <1>2, <1>4, <1>6, <1>7 DEF ParserInv

\* A key is read.  It may be the context whose map comes next.
LEMMA AfterKey ==
  ASSUME NEW d \in SUBSET Contexts, NEW p, ParserInv(d, p), NEW k \in Keys,
         p.open # <<>>, Last(p.open).want = "key",
         NEW named \in BOOLEAN, named <=> k \notin Reserved /\ p.subs = None /\ k \in d,
         NEW q \in Parsers, q.subs = (IF named THEN k ELSE p.subs), q.key = k,
         q.open = KeyTaken(p.open, k), q.depth = p.depth,
         q.tidy => p.tidy /\ (named => Len(p.open) = 1)
  PROVE  ParserInv(d, q)
<1> DEFINE g == [kind |-> "map", key |-> k, want |-> "value"]
           new == [p.open EXCEPT ![Len(p.open)] = g]
<1>1. /\ WellFormed(p.open) /\ p.subs \in d \union {None}
      /\ p.depth = Cardinality(Maps(p.open))
      /\ p.tidy => Follows(d, p)
  BY DEF ParserInv
<1>2. /\ g \in Frames /\ g.kind = "map" /\ g.want = "value" /\ g.key = k
      /\ Last(p.open).kind = "map"
  BY <1>1, OpenFacts DEF Frames
<1> HIDE DEF g
<1>3. /\ WellFormed(new) /\ new # <<>> /\ Len(new) = Len(p.open)
      /\ \A i \in 1..(Len(p.open) - 1) : new[i] = p.open[i]
      /\ new[Len(new)] = g /\ Last(new) = g /\ Maps(new) = Maps(p.open)
  BY <1>1, <1>2, Replaced
<1>4. q.open = new
  BY DEF KeyTaken, g
<1> HIDE DEF new
<1>5. q.subs \in d \union {None}
  BY <1>1
<1>6. ASSUME q.tidy PROVE Follows(d, q)
  <2>1. Follows(d, p) /\ p.subs = InForce(d, p.open)
    BY <1>1, <1>6 DEF Follows
  <2>2. q.key = Owner(new)
    BY <1>2, <1>3, InnermostOwns
  <2>3. Len(p.open) \in Nat /\ Len(p.open) >= 1
    BY <1>1, OpenFacts
  <2>4. CASE Len(p.open) = 1
    <3>1. p.subs = None /\ new[1] = g /\ Len(new) = 1
      BY <1>1, <1>3, <2>1, <2>4, NotInForce
    <3>2. k \in d => k \notin Reserved
      BY ConfiguratorAssumption
    <3>3. q.subs = InForce(d, new)
      BY <1>2, <1>3, <3>1, <3>2 DEF InForce
    <3> QED BY <1>4, <2>2, <3>1, <3>3 DEF Follows
  <2>5. CASE Len(p.open) > 1
    <3>1. new[1] = p.open[1] /\ q.subs = p.subs
      BY <1>3, <1>6, <2>3, <2>5
    <3>2. q.subs = InForce(d, new)
      BY <1>3, <2>1, <3>1 DEF InForce
    <3>3. ASSUME q.subs # None PROVE new[2].kind = "map"
      <4>1. p.open[2].kind = "map" /\ 2 \in 1..Len(p.open)
        BY <2>1, <2>3, <2>5, <3>1, <3>3 DEF Follows
      <4>2. 2 \in Maps(new)
        BY <1>3, <4>1 DEF Maps
      <4> QED BY <4>2 DEF Maps
    <3> QED BY <1>4, <2>2, <3>2, <3>3 DEF Follows
  <2>6. \A n \in Nat : n >= 1 => n = 1 \/ n > 1
    OBVIOUS
  <2> QED BY <2>3, <2>4, <2>5, <2>6
<1> QED BY <1>1, <1>3, <1>4, <1>5, <1>6 DEF ParserInv

\* A value that is neither a map nor an array is read.
LEMMA AfterValue ==
  ASSUME NEW d \in SUBSET Contexts, NEW p, ParserInv(d, p),
         p.open # <<>>, Last(p.open).want # "key",
         NEW q \in Parsers, q.subs = p.subs, q.key = p.key,
         q.open = ValueTaken(p.open), q.depth = p.depth,
         q.tidy => p.tidy /\ ~(Len(p.open) = 1 /\ Last(p.open).key \in d)
  PROVE  ParserInv(d, q)
<1> DEFINE new == [p.open EXCEPT ![Len(p.open)] = MapFrame]
<1>1. /\ WellFormed(p.open) /\ p.subs \in d \union {None}
      /\ p.depth = Cardinality(Maps(p.open))
      /\ p.tidy => Follows(d, p)
  BY DEF ParserInv
<1>2. q.open = IF Last(p.open).kind = "map" THEN new ELSE p.open
  BY <1>1, ValueIsTaken
<1>3. CASE Last(p.open).kind # "map"
  <2>1. q.open = p.open
    BY <1>2, <1>3
  <2> QED BY <1>1, <2>1 DEF ParserInv, Follows
<1>4. CASE Last(p.open).kind = "map"
  <2>1. /\ WellFormed(new) /\ new # <<>> /\ Len(new) = Len(p.open)
        /\ \A i \in 1..(Len(p.open) - 1) : new[i] = p.open[i]
        /\ new[Len(new)] = MapFrame /\ Last(new) = MapFrame /\ Maps(new) = Maps(p.open)
    BY <1>1, <1>4, FrameFacts, Replaced
  <2>2. q.open = new
    BY <1>2, <1>4
  <2> HIDE DEF new
  <2>3. ASSUME q.tidy PROVE Follows(d, q)
    <3>1. Follows(d, p) /\ p.subs = InForce(d, p.open)
      BY <1>1, <2>3 DEF Follows
    <3>2. Last(new).want = "key"
      BY <2>1, FrameFacts
    <3>3. Len(p.open) \in Nat /\ Len(p.open) >= 1
      BY <1>1, OpenFacts
    <3>4. CASE Len(p.open) = 1
      <4>1. p.open[1].key \notin d
        BY <2>3, <3>4 DEF Last
      <4>2. p.subs = None
        BY <3>1, <4>1 DEF InForce
      <4>3. InForce(d, new) = None
        BY <2>1, <3>2, <3>4, NotInForce
      <4> QED BY <2>1, <2>2, <3>2, <3>4, <4>2, <4>3 DEF Follows
    <3>5. CASE Len(p.open) > 1
      <4>1. new[1] = p.open[1]
        BY <2>1, <3>3, <3>5
      <4>2. q.subs = InForce(d, new)
        BY <2>1, <3>1, <4>1 DEF InForce
      <4>3. ASSUME q.subs # None PROVE new[2].kind = "map"
        <5>1. p.open[2].kind = "map" /\ 2 \in 1..Len(p.open)
          BY <3>1, <3>3, <3>5, <4>3 DEF Follows
        <5>2. 2 \in Maps(new)
          BY <2>1, <5>1 DEF Maps
        <5> QED BY <5>2 DEF Maps
      <4> QED BY <2>2, <3>2, <4>2, <4>3 DEF Follows
    <3>6. \A n \in Nat : n >= 1 => n = 1 \/ n > 1
      OBVIOUS
    <3> QED BY <3>3, <3>4, <3>5, <3>6
  <2> QED BY <1>1, <2>1, <2>2, <2>3 DEF ParserInv
<1> QED BY <1>3, <1>4

\* The map of a context that ends, or a map around it, leaves none in force.
LEMMA ClosingFollows ==
  ASSUME NEW d \in SUBSET Contexts, NEW p, WellFormed(p.open), p.open # <<>>, Follows(d, p),
         Last(p.open).want = "key" \/ Last(p.open).kind = "array",
         NEW q, q.open = Closed(p.open),
         q.subs = IF Len(p.open) <= 2 /\ Last(p.open).kind = "map" THEN None ELSE p.subs
  PROVE  Follows(d, q)
<1> DEFINE new == Closed(p.open)
<1>1. /\ WellFormed(new) /\ Len(new) = Len(p.open) - 1
      /\ \A i \in 1..(Len(new) - 1) : new[i] = p.open[i]
      /\ new # <<>> => /\ new[Len(new)].kind = p.open[Len(new)].kind
                       /\ new[Len(new)].kind = "map" => new[Len(new)] = MapFrame
                       /\ new[Len(new)].kind = "array" => new[Len(new)].want = "rest"
  BY ClosedFacts DEF ClosesTo
<1>2. q.open = new
  OBVIOUS
<1> HIDE DEF new
<1>3. /\ Len(p.open) \in Nat /\ Len(p.open) >= 1 /\ p.open[1].kind = "map"
      /\ Last(p.open) = p.open[Len(p.open)] /\ p.subs = InForce(d, p.open)
  BY OpenFacts DEF Follows
<1>4. Len(new) = Len(p.open) - 1 /\ Len(new) \in Nat
  BY <1>1, <1>3
<1>5. new # <<>> => Last(new) = new[Len(new)] /\ Len(new) \in 1..Len(new) /\ Last(new) \in Frames
  BY <1>1, <1>4, OpenFacts
<1>6. ~(new # <<>> /\ Last(new).want # "key" /\ ~KeyIsLost(new))
  <2>1. SUFFICES ASSUME new # <<>>, Last(new).want # "key" PROVE KeyIsLost(new)
    OBVIOUS
  <2>2. Last(new).kind = "array"
    BY <1>1, <1>5, <2>1, FrameFacts
  <2>3. new[Len(new)].want = "rest" /\ new[Len(new)].kind = "array"
    BY <1>1, <1>5, <2>1, <2>2
  <2>4. \A j \in Len(new)..Len(new) : j = Len(new)
    BY <1>4
  <2> QED BY <1>5, <2>1, <2>3, <2>4 DEF KeyIsLost
<1>7. CASE Len(p.open) = 1
  <2>1. new = <<>> /\ Len(new) = 0
    BY <1>1, <1>4, <1>7, EmptySeq DEF WellFormed
  <2>2. q.subs = None
    BY <1>3, <1>7
  <2> QED BY <1>2, <2>1, <2>2 DEF Follows, InForce
<1>8. CASE Len(p.open) = 2
  <2>1. Len(new) = 1 /\ new # <<>>
    BY <1>4, <1>8, EmptySeq
  <2>2. Last(new) = MapFrame /\ new[1] = MapFrame
    BY <1>1, <1>3, <1>5, <2>1
  <2>3. InForce(d, new) = None
    BY <1>1, <2>1, <2>2, FrameFacts, NotInForce
  <2>4. q.subs = None
    <3>1. CASE Last(p.open).kind = "map"
      BY <1>8, <3>1
    <3>2. CASE Last(p.open).kind # "map"
      <4>1. p.subs = None
        BY <1>3, <1>8, <3>2 DEF Follows
      <4> QED BY <3>2, <4>1
    <3> QED BY <3>1, <3>2
  <2> QED BY <1>2, <1>6, <2>1, <2>3, <2>4 DEF Follows
<1>9. CASE Len(p.open) > 2
  <2>1. q.subs = p.subs
    BY <1>3, <1>9
  <2>2. Len(new) >= 2 /\ new # <<>> /\ new[1] = p.open[1]
    <3>1. Len(new) >= 2 /\ 1 \in 1..(Len(new) - 1)
      BY <1>3, <1>4, <1>9
    <3> QED BY <1>1, <3>1, EmptySeq
  <2>3. q.subs = InForce(d, new)
    BY <1>3, <2>1, <2>2 DEF InForce
  <2>4. ASSUME q.subs # None PROVE new[2].kind = "map"
    <3>1. p.open[2].kind = "map"
      BY <1>3, <1>9, <2>1, <2>4 DEF Follows
    <3>2. CASE Len(new) = 2
      BY <1>1, <2>2, <3>1, <3>2
    <3>3. CASE Len(new) > 2
      <4>1. 2 \in 1..(Len(new) - 1)
        BY <1>4, <3>3
      <4> QED BY <1>1, <3>1, <4>1
    <3>4. \A n \in Nat : n >= 2 => n = 2 \/ n > 2
      OBVIOUS
    <3> QED BY <1>4, <2>2, <3>2, <3>3, <3>4
  <2> QED BY <1>2, <1>6, <2>3, <2>4 DEF Follows
<1>10. \A n \in Nat : n >= 1 => n = 1 \/ n = 2 \/ n > 2
  OBVIOUS
<1> QED BY <1>3, <1>7, <1>8, <1>9, <1>10

\* A map at depth two that ends is the one of the context in force.
LEMMA EndOfContext ==
  ASSUME NEW d, NEW p, WellFormed(p.open), p.depth = Cardinality(Maps(p.open)), Follows(d, p),
         p.open # <<>>, Last(p.open).want = "key", p.subs # None
  PROVE  p.depth = 2 <=> Len(p.open) = 2
<1>1. Last(p.open).kind = "map" /\ Len(p.open) \in Nat
  BY OpenFacts
<1>2. Len(p.open) > 2 => p.open[2].kind = "map"
  BY <1>1 DEF Follows
<1> QED BY <1>1, <1>2, DepthOfContext

\* A map ends.
LEMMA AfterMapEnd ==
  ASSUME NEW d \in SUBSET Contexts, NEW p, ParserInv(d, p),
         p.open # <<>>, Last(p.open).want = "key",
         NEW q \in Parsers,
         q.subs = (IF p.depth = 2 /\ p.subs # None THEN None ELSE p.subs),
         q.open = Closed(p.open), q.depth = p.depth - 1, q.tidy => p.tidy
  PROVE  ParserInv(d, q)
<1>1. /\ WellFormed(p.open) /\ p.subs \in d \union {None}
      /\ p.depth = Cardinality(Maps(p.open))
      /\ p.tidy => Follows(d, p)
      /\ Last(p.open).kind = "map"
  BY OpenFacts DEF ParserInv
<1>2. WellFormed(q.open)
  BY <1>1, ClosedFacts DEF ClosesTo
<1>3. q.depth = Cardinality(Maps(q.open))
  BY <1>1, ClosedCount
<1>4. ASSUME q.tidy PROVE Follows(d, q)
  <2>1. Follows(d, p) /\ p.subs = InForce(d, p.open)
    BY <1>1, <1>4 DEF Follows
  <2>2. Len(p.open) \in Nat /\ Len(p.open) >= 1
    BY <1>1, OpenFacts
  <2>3. p.subs # None => (p.depth = 2 <=> Len(p.open) = 2)
    BY <1>1, <2>1, EndOfContext
  <2>4. Len(p.open) = 1 => p.subs = None
    BY <1>1, <2>1, NotInForce
  <2>5. q.subs = IF Len(p.open) <= 2 /\ Last(p.open).kind = "map" THEN None ELSE p.subs
    <3>1. CASE p.subs = None
      BY <3>1
    <3>2. CASE p.subs # None
      <4>1. Len(p.open) <= 2 <=> p.depth = 2
        <5>1. \A n \in Nat : n >= 1 /\ n # 1 => (n <= 2 <=> n = 2)
          OBVIOUS
        <5>2. Len(p.open) <= 2 <=> Len(p.open) = 2
          BY <2>2, <2>4, <3>2, <5>1
        <5> QED BY <2>3, <3>2, <5>2
      <4> QED BY <1>1, <3>2, <4>1
    <3> QED BY <3>1, <3>2
  <2> QED BY <1>1, <2>1, <2>5, ClosingFollows
<1> QED BY <1>1, <1>2, <1>3, <1>4 DEF ParserInv

\* An array ends.
LEMMA AfterArrayEnd ==
  ASSUME NEW d \in SUBSET Contexts, NEW p, ParserInv(d, p),
         p.open # <<>>, Last(p.open).kind = "array",
         NEW q \in Parsers, q.subs = p.subs,
         q.open = Closed(p.open), q.depth = p.depth, q.tidy => p.tidy
  PROVE  ParserInv(d, q)
<1>1. /\ WellFormed(p.open) /\ p.subs \in d \union {None}
      /\ p.depth = Cardinality(Maps(p.open))
      /\ p.tidy => Follows(d, p)
  BY DEF ParserInv
<1>2. WellFormed(q.open)
  BY <1>1, ClosedFacts DEF ClosesTo
<1>3. q.depth = Cardinality(Maps(q.open))
  BY <1>1, ClosedCount
<1>4. q.tidy => Follows(d, q)
  BY <1>1, ClosingFollows
<1> QED BY <1>1, <1>2, <1>3, <1>4 DEF ParserInv

-----------------------------------------------------------------------------
(***************************************************************************)
(* The parsers.  One that reads the sheets of an include has room for one  *)
(* more above it.                                                          *)
(***************************************************************************)
StackInv ==
  /\ parsers \in Seq(Parsers) /\ Len(parsers) <= MaxParsers
  /\ \A i \in 1..Len(parsers) :
       /\ ParserInv(DOMAIN subs, parsers[i])
       /\ parsers[i].files > 0 => i < MaxParsers

LEMMA FreshFacts ==
  ASSUME NEW d
  PROVE  Fresh \in Parsers /\ ParserInv(d, Fresh) /\ ~(Fresh.files > 0)
<1>1. <<>> \in Seq(Frames) /\ Len(<<>>) = 0
  BY EmptySeq
<1>2. 0 \in 0..MaxFiles
  BY ConfiguratorAssumption
<1>3. /\ Fresh \in Parsers /\ Fresh.open = <<>> /\ Fresh.subs = None /\ Fresh.depth = 0
      /\ Fresh.files = 0
  BY <1>1, <1>2 DEF Fresh, Parsers
<1>4. Maps(<<>>) = {} /\ Cardinality({}) = 0
  BY FS_EmptySet DEF Maps
<1>5. WellFormed(<<>>)
  BY <1>1 DEF WellFormed
<1> HIDE DEF Fresh
<1>6. Follows(d, Fresh)
  BY <1>1, <1>3 DEF Follows, InForce
<1>7. Fresh.depth = Cardinality(Maps(Fresh.open)) /\ WellFormed(Fresh.open)
  BY <1>3, <1>4, <1>5
<1>8. ~(Fresh.files > 0)
  BY <1>3
<1> QED BY <1>3, <1>6, <1>7, <1>8 DEF ParserInv

LEMMA TopFacts ==
  ASSUME StackInv, parsers # <<>>
  PROVE  /\ Len(parsers) \in Nat /\ Len(parsers) >= 1 /\ Len(parsers) \in 1..Len(parsers)
         /\ Top = parsers[Len(parsers)] /\ Top \in Parsers
         /\ ParserInv(DOMAIN subs, Top) /\ WellFormed(Top.open)
         /\ Top.files > 0 => Len(parsers) < MaxParsers
<1>1. Len(parsers) \in Nat /\ Len(parsers) >= 1
  BY EmptySeq, LenProperties DEF StackInv
<1>2. Len(parsers) \in 1..Len(parsers)
  BY <1>1
<1>3. Top = parsers[Len(parsers)]
  BY DEF Top, Last
<1> QED BY <1>1, <1>2, <1>3 DEF StackInv, ParserInv

\* The innermost parser takes a token.
LEMMA TakenFacts ==
  ASSUME StackInv, parsers # <<>>, NEW q, Take(q), ParserInv(DOMAIN subs, q),
         q.files > 0 => Len(parsers) < MaxParsers
  PROVE  StackInv'
<1>1. /\ Len(parsers) \in Nat /\ Len(parsers) >= 1 /\ Len(parsers) \in 1..Len(parsers)
      /\ parsers \in Seq(Parsers) /\ q \in Parsers
  BY TopFacts DEF StackInv, ParserInv
<1>2. parsers' = [parsers EXCEPT ![Len(parsers)] = q] /\ subs' = subs
  BY DEF Take, objectVars
<1>3. /\ parsers' \in Seq(Parsers) /\ Len(parsers') = Len(parsers)
      /\ parsers'[Len(parsers)] = q
      /\ \A i \in 1..Len(parsers) : i # Len(parsers) => parsers'[i] = parsers[i]
  BY <1>1, <1>2
<1> QED BY <1>2, <1>3 DEF StackInv

LEMMA TakenTop ==
  ASSUME StackInv, parsers # <<>>, NEW q, Take(q) PROVE Top' = q
<1> DEFINE S == Parsers \union {q}
<1>1. /\ Len(parsers) \in Nat /\ Len(parsers) >= 1 /\ Len(parsers) \in 1..Len(parsers)
      /\ parsers' = [parsers EXCEPT ![Len(parsers)] = q]
  BY TopFacts DEF Take
<1>2. parsers \in Seq(S) /\ q \in S
  BY SeqMonotonic DEF StackInv
<1> HIDE DEF S
<1>3. Len(parsers') = Len(parsers) /\ parsers'[Len(parsers)] = q
  BY <1>1, <1>2, ExceptSeq
<1> QED BY <1>3 DEF Top, Last

\* Each token that a parser takes.
LEMMA MapStartKeeps ==
  ASSUME StackInv, DOMAIN subs \subseteq Contexts, MapStart PROVE StackInv'
<1> DEFINE q == [Top EXCEPT !.depth = @ + 1, !.open = Append(@, MapFrame)]
<1>1. /\ parsers # <<>> /\ Top.files = 0 /\ Take(q)
      /\ Top.open # <<>> => Last(Top.open).want # "key"
  BY DEF MapStart, WantsValue, Reads, Inner
<1>2. Top \in Parsers /\ ParserInv(DOMAIN subs, Top) /\ WellFormed(Top.open)
  BY <1>1, TopFacts
<1>3. Append(Top.open, MapFrame) \in Seq(Frames) /\ Top.depth + 1 \in Nat
  BY <1>2, FrameFacts DEF Parsers
<1>4. /\ q \in Parsers /\ q.subs = Top.subs /\ q.key = Top.key /\ q.tidy = Top.tidy
      /\ q.open = Append(Top.open, MapFrame) /\ q.depth = Top.depth + 1 /\ q.files = Top.files
  BY <1>2, <1>3 DEF Parsers
<1> HIDE DEF q
<1>5. MapFrame # ArrayFrame
  BY DEF MapFrame, ArrayFrame
<1>6. ParserInv(DOMAIN subs, q)
  BY <1>1, <1>2, <1>4, <1>5, AfterOpening
<1> QED BY <1>1, <1>4, <1>6, TakenFacts

LEMMA ArrayStartKeeps ==
  ASSUME StackInv, DOMAIN subs \subseteq Contexts, ArrayStart PROVE StackInv'
<1> DEFINE tidy == Top.tidy /\ ~PlainContext
           q == [Top EXCEPT !.open = Append(@, ArrayFrame), !.tidy = @ /\ ~PlainContext]
<1>1. /\ parsers # <<>> /\ Top.files = 0 /\ Take(q)
      /\ Top.open # <<>> /\ Last(Top.open).want # "key"
  BY DEF ArrayStart, WantsValue, Reads, Inner
<1>2. Top \in Parsers /\ ParserInv(DOMAIN subs, Top) /\ WellFormed(Top.open)
  BY <1>1, TopFacts
<1>3. Append(Top.open, ArrayFrame) \in Seq(Frames) /\ tidy \in BOOLEAN
  BY <1>2, FrameFacts DEF Parsers
<1>4. tidy => Top.tidy /\ ~(Len(Top.open) = 1 /\ Last(Top.open).key \in DOMAIN subs)
  BY DEF PlainContext, Known, Inner
<1>5. q = [Top EXCEPT !.open = Append(@, ArrayFrame), !.tidy = tidy]
  OBVIOUS
<1> HIDE DEF tidy
<1>6. /\ q \in Parsers /\ q.subs = Top.subs /\ q.key = Top.key /\ q.tidy = tidy
      /\ q.open = Append(Top.open, ArrayFrame) /\ q.depth = Top.depth /\ q.files = Top.files
  BY <1>2, <1>3, <1>5 DEF Parsers
<1> HIDE DEF q
<1>7. MapFrame # ArrayFrame
  BY DEF MapFrame, ArrayFrame
<1>8. ParserInv(DOMAIN subs, q)
  BY <1>1, <1>2, <1>4, <1>6, <1>7, AfterOpening
<1> QED BY <1>1, <1>6, <1>8, TakenFacts

LEMMA MapKeyKeeps ==
  ASSUME StackInv, DOMAIN subs \subseteq Contexts, NEW k \in Keys, MapKey(k) PROVE StackInv'
<1> DEFINE named == k \notin Reserved /\ Top.subs = None /\ Known(k)
           name  == IF named THEN k ELSE Top.subs
           tidy  == Top.tidy /\ (named => Len(Top.open) = 1)
           q == [Top EXCEPT !.key = k, !.subs = name, !.open = KeyTaken(@, k),
                            !.tidy = @ /\ (named => Len(Top.open) = 1)]
<1>1. /\ parsers # <<>> /\ Top.files = 0 /\ Take(q)
      /\ Top.open # <<>> /\ Last(Top.open).want = "key"
  BY DEF MapKey, WantsKey, Reads, Inner
<1>2. Top \in Parsers /\ ParserInv(DOMAIN subs, Top) /\ WellFormed(Top.open)
  BY <1>1, TopFacts
<1>3. KeyTaken(Top.open, k) \in Seq(Frames)
  <2>1. [kind |-> "map", key |-> k, want |-> "value"] \in Frames
    BY DEF Frames
  <2> QED BY <1>1, <1>2, <2>1 DEF KeyTaken, WellFormed
<1>4. /\ tidy \in BOOLEAN /\ named \in BOOLEAN
      /\ named <=> k \notin Reserved /\ Top.subs = None /\ k \in DOMAIN subs
      /\ tidy => Top.tidy /\ (named => Len(Top.open) = 1)
  BY <1>2 DEF Parsers, Known
<1>5. name = (IF named THEN k ELSE Top.subs) /\ name \in Contexts \union {None}
  BY <1>2 DEF Parsers, Known
<1>6. q = [Top EXCEPT !.key = k, !.subs = name, !.open = KeyTaken(@, k), !.tidy = tidy]
  OBVIOUS
<1> HIDE DEF tidy, named, name
<1>7. /\ q \in Parsers /\ q.subs = name /\ q.key = k /\ q.tidy = tidy
      /\ q.open = KeyTaken(Top.open, k) /\ q.depth = Top.depth /\ q.files = Top.files
  BY <1>2, <1>3, <1>4, <1>5, <1>6 DEF Parsers
<1> HIDE DEF q
<1>8. ParserInv(DOMAIN subs, q)
  BY <1>1, <1>2, <1>4, <1>5, <1>7, AfterKey
<1> QED BY <1>1, <1>7, <1>8, TakenFacts

LEMMA MapEndKeeps ==
  ASSUME StackInv, DOMAIN subs \subseteq Contexts, MapEnd PROVE StackInv'
<1> DEFINE ends == Top.depth = 2 /\ Top.subs # None
           name == IF ends THEN None ELSE Top.subs
           done == Len(Top.open) = 1
           q == [Top EXCEPT !.depth = @ - 1, !.key = NoKey, !.subs = IF ends THEN None ELSE @,
                            !.open = Closed(@), !.done = Len(Top.open) = 1]
<1>1. /\ parsers # <<>> /\ Top.files = 0 /\ Take(q)
      /\ Top.open # <<>> /\ Last(Top.open).want = "key"
  BY DEF MapEnd, WantsKey, Reads, Inner
<1>2. Top \in Parsers /\ ParserInv(DOMAIN subs, Top) /\ WellFormed(Top.open)
  BY <1>1, TopFacts
<1>3. Closed(Top.open) \in Seq(Frames) /\ Top.depth - 1 \in Nat
  <2>1. WellFormed(Closed(Top.open)) /\ Last(Top.open).kind = "map"
    BY <1>1, <1>2, ClosedFacts, OpenFacts DEF ClosesTo
  <2>2. Closed(Top.open) \in Seq(Frames)
    BY <2>1 DEF WellFormed
  <2>3. Cardinality(Maps(Closed(Top.open))) \in Nat
    BY <2>2, MapsAreFinite
  <2>4. Cardinality(Maps(Closed(Top.open))) = Cardinality(Maps(Top.open)) - 1
    BY <1>1, <1>2, <2>1, ClosedCount
  <2>5. Top.depth = Cardinality(Maps(Top.open))
    BY <1>2 DEF ParserInv
  <2> QED BY <2>2, <2>3, <2>4, <2>5
<1>4. done \in BOOLEAN /\ name \in Contexts \union {None} /\ NoKey \in Keys \union {NoKey}
  BY <1>2 DEF Parsers
<1>5. name = IF Top.depth = 2 /\ Top.subs # None THEN None ELSE Top.subs
  OBVIOUS
<1>6. q = [Top EXCEPT !.depth = @ - 1, !.key = NoKey, !.subs = name,
                      !.open = Closed(@), !.done = done]
  OBVIOUS
<1> HIDE DEF done, ends, name
<1>7. /\ q \in Parsers /\ q.subs = name /\ q.key = NoKey /\ q.tidy = Top.tidy
      /\ q.open = Closed(Top.open) /\ q.depth = Top.depth - 1 /\ q.files = Top.files
  BY <1>2, <1>3, <1>4, <1>6 DEF Parsers
<1> HIDE DEF q
<1>8. ParserInv(DOMAIN subs, q)
  BY <1>1, <1>2, <1>5, <1>7, AfterMapEnd
<1> QED BY <1>1, <1>7, <1>8, TakenFacts

LEMMA ArrayEndKeeps ==
  ASSUME StackInv, DOMAIN subs \subseteq Contexts, ArrayEnd PROVE StackInv'
<1> DEFINE q == [Top EXCEPT !.key = NoKey, !.open = Closed(@)]
<1>1. /\ parsers # <<>> /\ Top.files = 0 /\ Take(q)
      /\ Top.open # <<>> /\ Last(Top.open).kind = "array"
  BY DEF ArrayEnd, Reads, Inner
<1>2. Top \in Parsers /\ ParserInv(DOMAIN subs, Top) /\ WellFormed(Top.open)
  BY <1>1, TopFacts
<1>3. Closed(Top.open) \in Seq(Frames)
  BY <1>1, <1>2, ClosedFacts DEF ClosesTo, WellFormed
<1>4. /\ q \in Parsers /\ q.subs = Top.subs /\ q.key = NoKey /\ q.tidy = Top.tidy
      /\ q.open = Closed(Top.open) /\ q.depth = Top.depth /\ q.files = Top.files
  BY <1>2, <1>3 DEF Parsers
<1> HIDE DEF q
<1>5. ParserInv(DOMAIN subs, q)
  BY <1>1, <1>2, <1>4, AfterArrayEnd
<1> QED BY <1>1, <1>4, <1>5, TakenFacts

\* A value that is no map and no array, whether or not it is to be heeded, and an
\* include that found n files.
LEMMA ValueKeeps ==
  ASSUME StackInv, DOMAIN subs \subseteq Contexts, WantsValue,
         NEW tidy \in BOOLEAN, tidy => Top.tidy /\ ~PlainContext,
         NEW n \in 0..MaxFiles, n > 0 => Len(parsers) < MaxParsers,
         Take([Top EXCEPT !.open = ValueTaken(@), !.tidy = tidy, !.files = n])
  PROVE  StackInv'
<1> DEFINE q == [Top EXCEPT !.open = ValueTaken(@), !.tidy = tidy, !.files = n]
<1>1. parsers # <<>> /\ Take(q) /\ Top.open # <<>> /\ Last(Top.open).want # "key"
  BY DEF WantsValue, Reads, Inner
<1>2. Top \in Parsers /\ ParserInv(DOMAIN subs, Top) /\ WellFormed(Top.open)
  BY <1>1, TopFacts
<1>3. ValueTaken(Top.open) \in Seq(Frames)
  BY <1>1, <1>2, ValueIsTaken, FrameFacts DEF WellFormed
<1>4. /\ q \in Parsers /\ q.subs = Top.subs /\ q.key = Top.key /\ q.tidy = tidy
      /\ q.open = ValueTaken(Top.open) /\ q.depth = Top.depth /\ q.files = n
  BY <1>2, <1>3 DEF Parsers
<1>5. tidy => Top.tidy /\ ~(Len(Top.open) = 1 /\ Last(Top.open).key \in DOMAIN subs)
  BY DEF PlainContext, Known, Inner
<1> HIDE DEF q
<1>6. ParserInv(DOMAIN subs, q)
  BY <1>1, <1>2, <1>4, <1>5, AfterValue
<1> QED BY <1>1, <1>4, <1>6, TakenFacts

LEMMA StringOrScalarKeeps ==
  ASSUME StackInv, DOMAIN subs \subseteq Contexts, Option \/ OptionIsMissing \/ Scalar
  PROVE  StackInv'
<1>1. WantsValue /\ Top \in Parsers /\ Top.files = 0 /\ Top.files \in 0..MaxFiles
  BY TopFacts DEF Option, OptionIsMissing, Scalar, WantsValue, Reads, Parsers
<1>2. PICK tidy \in BOOLEAN :
        /\ tidy => Top.tidy /\ ~PlainContext
        /\ Take([Top EXCEPT !.open = ValueTaken(@), !.tidy = tidy])
  <2> DEFINE heeded == Top.tidy /\ ~PlainContext /\ ~KeyIsLost(Top.open)
             taken == Top.tidy /\ ~PlainContext
  <2>1. heeded \in BOOLEAN /\ taken \in BOOLEAN
    BY <1>1 DEF Parsers
  <2>2. CASE Option \/ OptionIsMissing
    <3>1. Take([Top EXCEPT !.open = ValueTaken(@), !.tidy = heeded])
      BY <2>2 DEF Option, OptionIsMissing, AfterString
    <3> QED BY <2>1, <3>1
  <2>3. CASE Scalar
    <3>1. Take([Top EXCEPT !.open = ValueTaken(@), !.tidy = taken])
      BY <2>3 DEF Scalar
    <3> QED BY <2>1, <3>1
  <2> QED BY <2>2, <2>3
<1>3. [Top EXCEPT !.open = ValueTaken(@), !.tidy = tidy]
        = [Top EXCEPT !.open = ValueTaken(@), !.tidy = tidy, !.files = Top.files]
  BY <1>1 DEF Parsers
<1>4. Take([Top EXCEPT !.open = ValueTaken(@), !.tidy = tidy, !.files = Top.files])
  BY <1>2, <1>3
<1>5. ~(Top.files > 0)
  BY <1>1
<1> QED BY <1>1, <1>2, <1>4, <1>5, ValueKeeps

LEMMA IncludeKeeps ==
  ASSUME StackInv, DOMAIN subs \subseteq Contexts, NEW n \in 0..MaxFiles, Include(n)
  PROVE  StackInv'
<1> DEFINE tidy == Top.tidy /\ ~PlainContext /\ ~KeyIsLost(Top.open)
<1>1. /\ WantsValue /\ Len(parsers) < MaxParsers /\ Top \in Parsers
      /\ Take([AfterString EXCEPT !.files = n])
  BY TopFacts DEF Include, WantsValue, Reads
<1>2. tidy \in BOOLEAN /\ (tidy => Top.tidy /\ ~PlainContext)
  BY <1>1 DEF Parsers
<1>3. [AfterString EXCEPT !.files = n]
        = [Top EXCEPT !.open = ValueTaken(@), !.tidy = tidy, !.files = n]
  BY <1>1 DEF AfterString, Parsers
<1> HIDE DEF tidy
<1> QED BY <1>1, <1>2, <1>3, ValueKeeps

\* An included sheet is read, or the sheet of the run; and one ends.
LEMMA ParseStringKeeps ==
  ASSUME StackInv, ParseString PROVE StackInv'
<1> DEFINE q == [Top EXCEPT !.files = @ - 1]
           below == [parsers EXCEPT ![Len(parsers)] = q]
<1>1. /\ parsers # <<>> /\ Top.files > 0 /\ subs' = subs
      /\ parsers' = Append([parsers EXCEPT ![Len(parsers)].files = @ - 1], Fresh)
  BY DEF ParseString, objectVars
<1>2. /\ Len(parsers) \in Nat /\ Len(parsers) >= 1 /\ Len(parsers) \in 1..Len(parsers)
      /\ Top = parsers[Len(parsers)] /\ Top \in Parsers
      /\ ParserInv(DOMAIN subs, Top) /\ Len(parsers) < MaxParsers
      /\ parsers \in Seq(Parsers)
  BY <1>1, TopFacts DEF StackInv
<1>3. Top.files - 1 \in 0..MaxFiles
  <2>1. \A n \in 0..MaxFiles : n > 0 => n - 1 \in 0..MaxFiles
    BY ConfiguratorAssumption
  <2> QED BY <1>1, <1>2, <2>1 DEF Parsers
<1>4. /\ q \in Parsers /\ q.subs = Top.subs /\ q.key = Top.key /\ q.tidy = Top.tidy
      /\ q.open = Top.open /\ q.depth = Top.depth
  BY <1>2, <1>3 DEF Parsers
<1>5. parsers' = Append(below, Fresh)
  BY <1>1, <1>2
<1> HIDE DEF q
<1>6. ParserInv(DOMAIN subs, q)
  BY <1>2, <1>4 DEF ParserInv, Follows
<1>7. /\ below \in Seq(Parsers) /\ Len(below) = Len(parsers)
      /\ below[Len(parsers)] = q
      /\ \A i \in 1..Len(parsers) : i # Len(parsers) => below[i] = parsers[i]
  BY <1>2, <1>4
<1> HIDE DEF below
<1>8. /\ parsers' \in Seq(Parsers) /\ Len(parsers') = Len(below) + 1
      /\ \A i \in 1..Len(below) : parsers'[i] = below[i]
      /\ parsers'[Len(below) + 1] = Fresh
  BY <1>5, <1>7, FreshFacts, AppendProperties
<1>9. ASSUME NEW i \in 1..Len(parsers')
      PROVE  ParserInv(DOMAIN subs', parsers'[i]) /\ (parsers'[i].files > 0 => i < MaxParsers)
  <2>1. CASE i = Len(parsers')
    BY <1>1, <1>8, <2>1, FreshFacts
  <2>2. CASE i \in 1..Len(parsers)
    <3>1. i < MaxParsers
      BY <1>2, <2>2, ConfiguratorAssumption
    <3> QED BY <1>1, <1>6, <1>7, <1>8, <2>2, <3>1 DEF StackInv
  <2> QED BY <1>2, <1>7, <1>8, <2>1, <2>2
<1>10. Len(parsers') <= MaxParsers
  BY <1>2, <1>7, <1>8, ConfiguratorAssumption
<1> QED BY <1>8, <1>9, <1>10 DEF StackInv

LEMMA RunKeeps ==
  ASSUME Run PROVE StackInv'
<1>1. Fresh \in Parsers /\ ParserInv(DOMAIN subs', Fresh) /\ ~(Fresh.files > 0)
  BY FreshFacts
<1>2. parsers' = <<Fresh>>
  BY DEF Run
<1>3. parsers' \in Seq(Parsers) /\ Len(parsers') = 1 /\ parsers'[1] = Fresh
  BY <1>1, <1>2
<1> QED BY <1>1, <1>3, ConfiguratorAssumption DEF StackInv

LEMMA ReturnKeeps ==
  ASSUME StackInv, Return PROVE StackInv'
<1>1. parsers # <<>> /\ parsers' = Front(parsers) /\ subs' = subs /\ parsers \in Seq(Parsers)
  BY DEF Return, objectVars, StackInv
<1>2. /\ parsers' \in Seq(Parsers) /\ Len(parsers') = Len(parsers) - 1
      /\ Len(parsers) \in Nat /\ Len(parsers) >= 1
      /\ \A i \in 1..(Len(parsers) - 1) : parsers'[i] = parsers[i]
  <2> DEFINE f == Front(parsers)
  <2>1. /\ f \in Seq(Parsers) /\ Len(f) = Len(parsers) - 1 /\ Len(parsers) \in Nat \ {0}
        /\ \A i \in 1..(Len(parsers) - 1) : f[i] = parsers[i]
    BY <1>1, FrontFacts
  <2>2. parsers' = f
    BY <1>1
  <2> HIDE DEF f
  <2> QED BY <2>1, <2>2
<1>3. ASSUME NEW i \in 1..Len(parsers')
      PROVE  ParserInv(DOMAIN subs', parsers'[i]) /\ (parsers'[i].files > 0 => i < MaxParsers)
  <2>1. i \in 1..Len(parsers) /\ i \in 1..(Len(parsers) - 1)
    BY <1>2
  <2> QED BY <1>1, <1>2, <2>1 DEF StackInv
<1>4. Len(parsers') <= MaxParsers
  BY <1>2, ConfiguratorAssumption DEF StackInv
<1> QED BY <1>2, <1>3, <1>4 DEF StackInv

LEMMA ConfigureKeeps ==
  ASSUME StackInv, DOMAIN subs \subseteq Contexts, Configure
  PROVE  StackInv' /\ UNCHANGED objectVars
<1>1. UNCHANGED objectVars
  BY DEF Configure, MapStart, Option, OptionIsMissing, ParseString, Scalar, MapEnd,
         ArrayStart, ArrayEnd, Run, Return, MapKey, Include, Take
<1>2. CASE MapStart BY <1>1, <1>2, MapStartKeeps
<1>3. CASE Option \/ OptionIsMissing \/ Scalar BY <1>1, <1>3, StringOrScalarKeeps
<1>4. CASE ParseString BY <1>1, <1>4, ParseStringKeeps
<1>5. CASE MapEnd BY <1>1, <1>5, MapEndKeeps
<1>6. CASE ArrayStart BY <1>1, <1>6, ArrayStartKeeps
<1>7. CASE ArrayEnd BY <1>1, <1>7, ArrayEndKeeps
<1>8. CASE Run BY <1>1, <1>8, RunKeeps
<1>9. CASE Return BY <1>1, <1>9, ReturnKeeps
<1>10. CASE \E k \in Keys : MapKey(k) BY <1>1, <1>10, MapKeyKeeps
<1>11. CASE \E n \in 0..MaxFiles : Include(n) BY <1>1, <1>11, IncludeKeeps
<1> QED BY <1>1, <1>2, <1>3, <1>4, <1>5, <1>6, <1>7, <1>8, <1>9, <1>10, <1>11 DEF Configure

-----------------------------------------------------------------------------
(***************************************************************************)
(* The subscriber lists.  What is taken out of one is not in it, and       *)
(* nothing else comes in: the lists are as long as one likes, and the      *)
(* function that says what is left after each of their entries exists      *)
(* because there is no first entry at which it would stop.                 *)
(***************************************************************************)
LEMMA WithoutIt ==
  ASSUME NEW S, NEW list \in Seq(S), NEW o
  PROVE  Without(list, o) \in Seq(S \ {o})
<1> DEFINE len == Len(list)
           R == Seq(S \ {o})
           Then(f, n) == IF n = 0 THEN <<>>
                         ELSE IF list[n] = o THEN f[n - 1] ELSE Append(f[n - 1], list[n])
           Fits(m) == {f \in [0..m -> R] : \A n \in 0..m : f[n] = Then(f, n)}
           K == CHOOSE f : f = [n \in 0..len |-> Then(f, n)]
<1>1. len \in Nat /\ \A i \in 1..len : list[i] \in S
  BY LenProperties, ElementOfSeq
<1>2. <<>> \in R /\ \A r \in R, x \in S \ {o} : Append(r, x) \in R
  BY EmptySeq
<1>3. Without(list, o) = K[len]
  BY DEF Without
<1> HIDE DEF len, R, K
<1>4. \A m \in 0..len : Fits(m) # {}
  <2> DEFINE T == {m \in 0..len : Fits(m) = {}}
  <2>1. SUFFICES ASSUME T # {} PROVE FALSE
    OBVIOUS
  <2>2. PICK t \in T : \A m \in T : m >= t
    BY <1>1, <2>1, HasLeast
  <2>3. t \in 0..len /\ Fits(t) = {}
    OBVIOUS
  <2>4. CASE t = 0
    <3> DEFINE f == [n \in 0..0 |-> <<>>]
    <3>1. f \in [0..0 -> R] /\ \A n \in 0..0 : n = 0 /\ f[n] = <<>>
      BY <1>2
    <3> HIDE DEF f
    <3>2. f \in Fits(0)
      BY <3>1
    <3> QED BY <2>3, <2>4, <3>2
  <2>5. CASE t # 0
    <3>1. t - 1 \in 0..len /\ t - 1 \in Nat /\ ~(t - 1 >= t) /\ t \in 1..len
      BY <1>1, <2>3, <2>5
    <3>2. t - 1 \notin T
      BY <2>2, <3>1
    <3>3. PICK g \in Fits(t - 1) : TRUE
      BY <3>1, <3>2
    <3>4. g \in [0..(t - 1) -> R] /\ \A n \in 0..(t - 1) : g[n] = Then(g, n)
      BY <3>3
    <3> DEFINE x == IF list[t] = o THEN g[t - 1] ELSE Append(g[t - 1], list[t])
               f == [n \in 0..t |-> IF n = t THEN x ELSE g[n]]
    <3>5. x \in R
      <4>1. g[t - 1] \in R
        BY <3>1, <3>4
      <4>2. list[t] \in S
        BY <1>1, <3>1
      <4> QED BY <1>2, <4>1, <4>2
    <3>6. \A n \in 0..t : n = t \/ n \in 0..(t - 1)
      BY <3>1
    <3>7. f \in [0..t -> R]
      BY <3>4, <3>5, <3>6
    <3>8. \A n \in 0..(t - 1) : n \in 0..t /\ n # t /\ f[n] = g[n]
      BY <3>1
    <3>9. f[t] = x
      BY <3>1
    <3>10. ASSUME NEW n \in 0..t PROVE f[n] = Then(f, n)
      <4> HIDE DEF f
      <4>1. CASE n = t
        BY <2>5, <3>1, <3>8, <3>9, <4>1
      <4>2. CASE n \in 0..(t - 1)
        <5>1. n # 0 => n - 1 \in 0..(t - 1)
          BY <3>1, <4>2
        <5>2. g[n] = Then(g, n)
          BY <3>4, <4>2
        <5>3. f[n] = g[n] /\ (n # 0 => f[n - 1] = g[n - 1])
          BY <3>8, <4>2, <5>1
        <5> QED BY <5>2, <5>3
      <4> QED BY <3>6, <4>1, <4>2
    <3> HIDE DEF f
    <3>11. f \in Fits(t)
      BY <3>7, <3>10
    <3> QED BY <2>3, <3>11
  <2> QED BY <2>4, <2>5
<1>5. PICK f \in Fits(len) : TRUE
  BY <1>1, <1>4
<1>6. f \in [0..len -> R] /\ \A n \in 0..len : f[n] = Then(f, n)
  BY <1>5
<1>7. f = [n \in 0..len |-> Then(f, n)]
  BY <1>6
<1>8. K = [n \in 0..len |-> Then(K, n)]
  BY <1>7 DEF K
<1>9. \A n \in 0..len : K[n] = Then(K, n)
  BY <1>8
<1>10. \A m \in 0..len : K[m] = f[m]
  <2> DEFINE T == {m \in 0..len : K[m] # f[m]}
  <2>1. SUFFICES ASSUME T # {} PROVE FALSE
    OBVIOUS
  <2>2. PICK t \in T : \A m \in T : m >= t
    BY <1>1, <2>1, HasLeast
  <2>3. t \in 0..len /\ K[t] # f[t]
    OBVIOUS
  <2>4. CASE t = 0
    BY <1>6, <1>9, <2>3, <2>4
  <2>5. CASE t # 0
    <3>1. t - 1 \in 0..len /\ ~(t - 1 >= t)
      BY <1>1, <2>3, <2>5
    <3>2. K[t - 1] = f[t - 1]
      BY <2>2, <3>1
    <3> QED BY <1>6, <1>9, <2>3, <2>5, <3>2
  <2> QED BY <2>4, <2>5
<1>11. K[len] \in R
  BY <1>1, <1>6, <1>10
<1> QED BY <1>3, <1>11 DEF R

\* n entries of one object.
LEMMA Repeated ==
  ASSUME NEW S, NEW n \in Nat, NEW o, n # 0 => o \in S
  PROVE  [i \in 1..n |-> o] \in Seq(S)
<1>1. \A i \in 1..n : o \in S
  OBVIOUS
<1> QED BY <1>1

\* What a list holds after subscribing: what it held, and the object if the list is of
\* one of the contexts.
LEMMA SubscribedFacts ==
  ASSUME NEW table, NEW o, NEW n \in Nat, NEW cs \in [1..n -> Contexts],
         NEW c \in DOMAIN Subscribed(table, o, cs),
         NEW S, c \in DOMAIN table => table[c] \in Seq(S), c \in Range(cs) => o \in S
  PROVE  Subscribed(table, o, cs)[c] \in Seq(S)
<1> DEFINE J == {j \in DOMAIN cs : cs[j] = c}
           old == IF c \in DOMAIN table THEN table[c] ELSE <<>>
           new == [i \in 1..Cardinality(J) |-> o]
<1>1. IsFiniteSet(1..n) /\ J \subseteq 1..n
  BY FS_Interval
<1>2. IsFiniteSet(J)
  BY <1>1, FS_Subset
<1>3. Cardinality(J) \in Nat /\ (Cardinality(J) = 0 <=> J = {})
  BY <1>2, FS_CardinalityType, FS_EmptySet
<1>4. Cardinality(J) # 0 => o \in S
  BY <1>3 DEF Range
<1>5. Subscribed(table, o, cs)[c] = old \o new
  BY DEF Subscribed
<1> HIDE DEF J
<1>6. new \in Seq(S)
  BY <1>3, <1>4, Repeated
<1>7. old \in Seq(S)
  BY EmptySeq
<1> HIDE DEF old, new
<1> QED BY <1>5, <1>6, <1>7, ConcatProperties

-----------------------------------------------------------------------------
(***************************************************************************)
(* The configurables.  Whoever is in a list was constructed, and lives and *)
(* knows of the context unless his subscriptions went astray; so what his  *)
(* destructor takes him out of is every list that he is in.                *)
(***************************************************************************)
Due(c) ==
  {o \in Objects : /\ life[o] # "none"
                   /\ o \notin strayed => life[o] = "alive" /\ c \in Range(contexts[o])}

ObjectInv ==
  /\ DOMAIN subs \subseteq Contexts
  /\ \A c \in DOMAIN subs : subs[c] \in Seq(Due(c))
  /\ life \in [Objects -> {"none", "alive", "dead"}]
  /\ contexts \in [Objects -> Listing]
  /\ strayed \subseteq Objects

LEMMA ListingFacts ==
  /\ <<>> \in Listing
  /\ \A cs \in Listing : \E n \in Nat : cs \in [1..n -> Contexts]
  /\ \A cs \in Listing : Range(cs) \subseteq Contexts
<1>1. MaxListed \in Nat /\ 0 \in 0..MaxListed
  BY ConfiguratorAssumption
<1>2. <<>> \in [1..0 -> Contexts]
  OBVIOUS
<1>3. <<>> \in Listing
  BY <1>1, <1>2 DEF Listing
<1>4. \A cs \in Listing : \E n \in Nat : cs \in [1..n -> Contexts]
  BY <1>1 DEF Listing
<1> QED BY <1>3, <1>4 DEF Range

LEMMA ConstructKeeps ==
  ASSUME ObjectInv, NEW o \in Objects, Construct(o) PROVE ObjectInv'
<1>1. PICK cs \in Listing :
        subs' = Subscribed(subs, o, cs) /\ contexts' = [contexts EXCEPT ![o] = cs]
  BY DEF Construct
<1>2. /\ life[o] = "none" /\ life' = [life EXCEPT ![o] = "alive"] /\ strayed' = strayed
  BY DEF Construct
<1>3. DOMAIN subs' = DOMAIN subs \union Range(cs) /\ Range(cs) \subseteq Contexts
  BY <1>1, ListingFacts DEF Subscribed
<1>4. ASSUME NEW c \in DOMAIN subs' PROVE subs'[c] \in Seq(Due(c)')
  <2>1. ASSUME c \in DOMAIN subs PROVE subs[c] \in Seq(Due(c)')
    <3>1. Due(c) \subseteq Due(c)'
      BY <1>1, <1>2 DEF ObjectInv, Due
    <3>2. subs[c] \in Seq(Due(c))
      BY <2>1 DEF ObjectInv
    <3> QED BY <3>1, <3>2, SeqMonotonic
  <2>2. c \in Range(cs) => o \in Due(c)'
    BY <1>1, <1>2 DEF ObjectInv, Due
  <2>3. PICK n \in Nat : cs \in [1..n -> Contexts]
    BY ListingFacts
  <2>4. c \in DOMAIN Subscribed(subs, o, cs)
    BY <1>1
  <2>5. Subscribed(subs, o, cs)[c] \in Seq(Due(c)')
    BY <2>1, <2>2, <2>3, <2>4, SubscribedFacts
  <2> QED BY <1>1, <2>5
<1> QED BY <1>1, <1>2, <1>3, <1>4 DEF ObjectInv

LEMMA DestroyKeeps ==
  ASSUME ObjectInv, NEW o \in Objects, Destroy(o) PROVE ObjectInv'
<1>1. /\ life[o] = "alive" /\ life' = [life EXCEPT ![o] = "dead"] /\ strayed' = strayed
      /\ contexts' = [contexts EXCEPT ![o] = <<>>]
      /\ subs' = Unsubscribed(subs, o, contexts[o])
  BY DEF Destroy
<1>2. DOMAIN subs' = DOMAIN subs
  BY <1>1 DEF Unsubscribed
<1>3. ASSUME NEW c \in DOMAIN subs' PROVE subs'[c] \in Seq(Due(c)')
  <2>1. c \in DOMAIN subs /\ subs[c] \in Seq(Due(c))
    BY <1>2 DEF ObjectInv
  <2>2. Due(c) \ {o} \subseteq Due(c)'
    BY <1>1 DEF ObjectInv, Due
  <2>3. CASE c \in Range(contexts[o])
    <3>1. subs'[c] = Without(subs[c], o)
      BY <1>1, <2>1, <2>3 DEF Unsubscribed
    <3>2. Without(subs[c], o) \in Seq(Due(c) \ {o})
      BY <2>1, WithoutIt
    <3> QED BY <2>2, <3>1, <3>2, SeqMonotonic
  <2>4. CASE c \notin Range(contexts[o])
    <3>1. subs'[c] = subs[c]
      BY <1>1, <2>1, <2>4 DEF Unsubscribed
    <3>2. o \in Due(c) => o \in Due(c)'
      BY <1>1, <2>4 DEF ObjectInv, Due
    <3>3. Due(c) \subseteq Due(c)'
      BY <2>2, <3>2
    <3> QED BY <2>1, <3>1, <3>3, SeqMonotonic
  <2> QED BY <2>3, <2>4
<1>4. /\ life' \in [Objects -> {"none", "alive", "dead"}]
      /\ contexts' \in [Objects -> Listing] /\ strayed' \subseteq Objects
  BY <1>1, ListingFacts DEF ObjectInv
<1>5. DOMAIN subs' \subseteq Contexts
  BY <1>2 DEF ObjectInv
<1> QED BY <1>3, <1>4, <1>5 DEF ObjectInv

LEMMA SubscribeDirectlyKeeps ==
  ASSUME ObjectInv, NEW o \in Objects, NEW b \in Contexts, SubscribeDirectly(o, b)
  PROVE  ObjectInv'
<1>1. /\ life[o] = "alive" /\ strayed' = strayed \union {o} /\ life' = life
      /\ contexts' = contexts /\ subs' = Subscribed(subs, o, <<b>>)
  BY DEF SubscribeDirectly
<1>2. <<b>> \in [1..1 -> Contexts] /\ Range(<<b>>) = {b}
  BY DEF Range
<1>3. DOMAIN subs' = DOMAIN subs \union {b}
  BY <1>1, <1>2 DEF Subscribed
<1>4. ASSUME NEW c \in DOMAIN subs' PROVE subs'[c] \in Seq(Due(c)')
  <2>1. ASSUME c \in DOMAIN subs PROVE subs[c] \in Seq(Due(c)')
    <3>1. Due(c) \subseteq Due(c)'
      BY <1>1 DEF ObjectInv, Due
    <3>2. subs[c] \in Seq(Due(c))
      BY <2>1 DEF ObjectInv
    <3> QED BY <3>1, <3>2, SeqMonotonic
  <2>2. o \in Due(c)'
    BY <1>1 DEF ObjectInv, Due
  <2>3. c \in DOMAIN Subscribed(subs, o, <<b>>)
    BY <1>1
  <2>4. Subscribed(subs, o, <<b>>)[c] \in Seq(Due(c)')
    BY <1>2, <2>1, <2>2, <2>3, SubscribedFacts
  <2> QED BY <1>1, <2>4
<1> QED BY <1>1, <1>3, <1>4 DEF ObjectInv

\* A copy is in no list yet, and what is assigned over goes astray.
LEMMA CopiedKeeps ==
  ASSUME ObjectInv, NEW o \in Objects, NEW src \in Objects,
         CopyConstruct(o, src) \/ Assign(o, src)
  PROVE  ObjectInv'
<1>1. /\ subs' = subs /\ contexts' = [contexts EXCEPT ![o] = contexts[src]]
      /\ \/ life[o] = "none" /\ life' = [life EXCEPT ![o] = "alive"] /\ strayed' = strayed
         \/ life[o] = "alive" /\ life' = life /\ strayed' = strayed \union {o}
  BY DEF CopyConstruct, Assign, CopyFrom
<1>2. ASSUME NEW c \in DOMAIN subs PROVE subs[c] \in Seq(Due(c)')
  <2>1. Due(c) \subseteq Due(c)'
    BY <1>1 DEF ObjectInv, Due
  <2>2. subs[c] \in Seq(Due(c))
    BY DEF ObjectInv
  <2> QED BY <2>1, <2>2, SeqMonotonic
<1>3. /\ life' \in [Objects -> {"none", "alive", "dead"}]
      /\ contexts' \in [Objects -> Listing] /\ strayed' \subseteq Objects
  BY <1>1 DEF ObjectInv
<1> QED BY <1>1, <1>2, <1>3 DEF ObjectInv

-----------------------------------------------------------------------------
(***************************************************************************)
(* The calls that a token leads to.                                        *)
(***************************************************************************)
Callable == {o \in Objects : life[o] = "dead" => o \in strayed}

Handlers == {"on_map_start", "on_map_key", "set_option", "on_map_end", "configure",
             "on_array_start", "on_array_end"}

CallsInv == calls \in Seq([call : Handlers, key : Keys \union {NoKey}, to : Callable])

LEMMA ToldFacts ==
  ASSUME ObjectInv, NEW call \in Handlers, NEW key \in Keys \union {NoKey},
         NEW name, name \in DOMAIN subs \union {None}
  PROVE  Told(call, key, name) \in Seq([call : Handlers, key : Keys \union {NoKey}, to : Callable])
<1> DEFINE to == Listeners(name)
           S == [call : Handlers, key : Keys \union {NoKey}, to : Callable]
           told == [i \in 1..Len(to) |-> [call |-> call, key |-> key, to |-> to[i]]]
<1>1. to \in Seq(Callable)
  <2>1. CASE name = None
    BY <2>1, EmptySeq DEF Listeners
  <2>2. CASE name # None
    <3>1. subs[name] \in Seq(Due(name))
      BY <2>2 DEF ObjectInv
    <3>2. Due(name) \subseteq Callable
      BY DEF Due, Callable
    <3> QED BY <2>2, <3>1, <3>2, SeqMonotonic DEF Listeners
  <2> QED BY <2>1, <2>2
<1>2. Told(call, key, name) = told
  BY DEF Told
<1> HIDE DEF to
<1>3. Len(to) \in Nat /\ \A i \in 1..Len(to) : to[i] \in Callable
  BY <1>1, LenProperties, ElementOfSeq
<1>4. \A i \in 1..Len(to) : [call |-> call, key |-> key, to |-> to[i]] \in S
  BY <1>3
<1> HIDE DEF S
<1>5. told \in Seq(S)
  BY <1>3, <1>4
<1> QED BY <1>2, <1>5 DEF S

LEMMA CalledFacts ==
  ASSUME CallsInv PROVE \A i \in 1..Len(calls) : calls[i].to \in Callable
<1> DEFINE S == [call : Handlers, key : Keys \union {NoKey}, to : Callable]
<1>1. \A c \in S : c.to \in Callable
  OBVIOUS
<1>2. calls \in Seq(S)
  BY DEF CallsInv
<1> HIDE DEF S
<1>3. \A i \in 1..Len(calls) : calls[i] \in S
  BY <1>2, ElementOfSeq
<1> QED BY <1>1, <1>3

LEMMA CallsAreKept ==
  ASSUME ObjectInv, StackInv, Configure PROVE CallsInv'
<1> DEFINE S == [call : Handlers, key : Keys \union {NoKey}, to : Callable]
<1>1. Callable' = Callable
  BY ConfigureKeeps DEF ObjectInv, objectVars, Callable
<1>2. calls' \in Seq(S) => CallsInv'
  BY <1>1 DEF CallsInv
<1>3. <<>> \in Seq(S)
  BY EmptySeq
<1>4. parsers # <<>> => /\ Top.subs \in DOMAIN subs \union {None}
                        /\ Top.key \in Keys \union {NoKey}
  BY TopFacts DEF ParserInv, Parsers
<1>5. \A call \in Handlers, key \in Keys \union {NoKey}, name \in DOMAIN subs \union {None} :
         Told(call, key, name) \in Seq(S)
  BY ToldFacts
<1> HIDE DEF S
<1>6. NoKey \in Keys \union {NoKey} /\ None \in DOMAIN subs \union {None}
  OBVIOUS
<1>7. CASE MapStart
  <2>1. "on_map_start" \in Handlers
    BY DEF Handlers
  <2> QED BY <1>2, <1>4, <1>5, <1>6, <1>7, <2>1 DEF MapStart, WantsValue, Reads
<1>8. CASE Option
  <2>1. "set_option" \in Handlers
    BY DEF Handlers
  <2> QED BY <1>2, <1>4, <1>5, <1>8, <2>1 DEF Option, WantsValue, Reads
<1>9. CASE MapEnd
  <2>1. "on_map_end" \in Handlers /\ "configure" \in Handlers
    BY DEF Handlers
  <2>2. Top.subs \in DOMAIN subs \union {None}
    BY <1>4, <1>9 DEF MapEnd, WantsKey, Reads
  <2>3. /\ Told("on_map_end", NoKey, Top.subs) \in Seq(S)
        /\ Told("configure", NoKey, Top.subs) \in Seq(S)
    BY <1>5, <1>6, <2>1, <2>2
  <2>4. PICK more \in Seq(S) : calls' = Told("on_map_end", NoKey, Top.subs) \o more
    BY <1>3, <1>9, <2>3 DEF MapEnd
  <2> QED BY <1>2, <2>3, <2>4, ConcatProperties
<1>10. CASE ArrayStart
  <2>1. "on_array_start" \in Handlers
    BY DEF Handlers
  <2> QED BY <1>2, <1>4, <1>5, <1>6, <1>10, <2>1 DEF ArrayStart, WantsValue, Reads
<1>11. CASE ArrayEnd
  <2>1. "on_array_end" \in Handlers
    BY DEF Handlers
  <2> QED BY <1>2, <1>4, <1>5, <1>6, <1>11, <2>1 DEF ArrayEnd, Reads
<1>12. CASE \E k \in Keys : MapKey(k)
  <2>1. "on_map_key" \in Handlers
    BY DEF Handlers
  <2>2. PICK k \in Keys : MapKey(k)
    BY <1>12
  <2> DEFINE named == k \notin Reserved /\ Top.subs = None /\ Known(k)
             name == IF named THEN k ELSE Top.subs
  <2>3. name \in DOMAIN subs \union {None}
    BY <1>4, <2>2 DEF MapKey, WantsKey, Reads, Known
  <2>4. calls' = IF k \in Reserved THEN <<>> ELSE Told("on_map_key", k, name)
    BY <2>2 DEF MapKey
  <2> HIDE DEF name
  <2> QED BY <1>2, <1>3, <1>5, <2>1, <2>3, <2>4
<1>13. CASE OptionIsMissing \/ ParseString \/ Scalar \/ Run \/ Return
            \/ \E n \in 0..MaxFiles : Include(n)
  BY <1>2, <1>3, <1>13 DEF OptionIsMissing, ParseString, Scalar, Run, Return, Include
<1> QED BY <1>7, <1>8, <1>9, <1>10, <1>11, <1>12, <1>13 DEF Configure

-----------------------------------------------------------------------------
(***************************************************************************)
(* All of it.                                                              *)
(***************************************************************************)
ConfiguratorInv == ObjectInv /\ StackInv /\ CallsInv

LEMMA InitiallyInv ==
  ASSUME Init PROVE ConfiguratorInv
<1>1. ObjectInv
  <2>1. DOMAIN subs = {} /\ life = [o \in Objects |-> "none"]
        /\ contexts = [o \in Objects |-> <<>>] /\ strayed = {}
    BY DEF Init
  <2> QED BY <2>1, ListingFacts DEF ObjectInv
<1>2. parsers = <<>> /\ calls = <<>> /\ Len(<<>>) = 0
  BY EmptySeq DEF Init
<1>3. StackInv
  BY <1>2, EmptySeq, ConfiguratorAssumption DEF StackInv
<1>4. CallsInv
  BY <1>2, EmptySeq DEF CallsInv
<1> QED BY <1>1, <1>3, <1>4 DEF ConfiguratorInv

LEMMA EveryStepKeepsInv ==
  ASSUME ConfiguratorInv, [Next]_vars PROVE ConfiguratorInv'
<1>1. ObjectInv /\ StackInv /\ CallsInv
  BY DEF ConfiguratorInv
<1>2. CASE Configure
  <2>1. StackInv' /\ CallsInv' /\ UNCHANGED objectVars
    BY <1>1, <1>2, ConfigureKeeps, CallsAreKept DEF ObjectInv
  <2>2. ObjectInv'
    BY <1>1, <2>1 DEF ObjectInv, objectVars, Due
  <2> QED BY <2>1, <2>2 DEF ConfiguratorInv
<1>3. Idle => StackInv' /\ CallsInv'
  <2>1. ASSUME Idle PROVE parsers' = <<>> /\ calls' = <<>> /\ Len(<<>>) = 0
    BY <2>1, EmptySeq DEF Idle
  <2>2. Idle => StackInv'
    BY <2>1, EmptySeq, ConfiguratorAssumption DEF StackInv
  <2>3. Idle => CallsInv'
    BY <2>1, EmptySeq DEF CallsInv
  <2> QED BY <2>2, <2>3
<1>4. CASE \E o \in Objects : Construct(o) \/ Destroy(o)
  <2>1. Idle
    BY <1>4 DEF Construct, Destroy
  <2> QED BY <1>1, <1>3, <1>4, <2>1, ConstructKeeps, DestroyKeeps DEF ConfiguratorInv
<1>5. CASE \E o \in Objects, c \in Contexts : SubscribeDirectly(o, c)
  <2>1. Idle
    BY <1>5 DEF SubscribeDirectly
  <2> QED BY <1>1, <1>3, <1>5, <2>1, SubscribeDirectlyKeeps DEF ConfiguratorInv
<1>6. CASE \E o, src \in Objects : CopyConstruct(o, src) \/ Assign(o, src)
  <2>1. Idle
    BY <1>6 DEF CopyConstruct, Assign
  <2> QED BY <1>1, <1>3, <1>6, <2>1, CopiedKeeps DEF ConfiguratorInv
<1>7. CASE UNCHANGED vars
  <2>1. UNCHANGED <<subs, life, contexts, strayed, parsers, calls>>
    BY <1>7 DEF vars, objectVars
  <2>2. ObjectInv'
    BY <1>1, <2>1 DEF ObjectInv, Due
  <2>3. StackInv'
    BY <1>1, <2>1 DEF StackInv
  <2>4. CallsInv'
    BY <1>1, <2>1 DEF CallsInv, Callable
  <2> QED BY <2>2, <2>3, <2>4 DEF ConfiguratorInv
<1> QED BY <1>2, <1>4, <1>5, <1>6, <1>7 DEF Next

LEMMA AlwaysInv == Spec => []ConfiguratorInv
<1>1. Init => ConfiguratorInv
  BY InitiallyInv
<1>2. ConfiguratorInv /\ [Next]_vars => ConfiguratorInv'
  BY EveryStepKeepsInv
<1> QED BY <1>1, <1>2, PTL DEF Spec

\* The depth counts the open maps, and on a tidy sheet the subscribers that are current
\* are those of the context in force and the key is that of the value, whatever sheets
\* include one another.  (configurator.cpp:208-378)
THEOREM TheParserIsInStep == Spec => []InStep
<1>1. ConfiguratorInv => InStep
  <2>1. SUFFICES ASSUME ConfiguratorInv PROVE InStep
    OBVIOUS
  <2>2. ObjectInv /\ StackInv /\ CallsInv
    BY <2>1 DEF ConfiguratorInv
  <2>3. Len(parsers) \in Nat /\ \A i \in 1..Len(parsers) : parsers[i] \in Parsers
    BY <2>2, LenProperties, ElementOfSeq DEF StackInv
  <2>4. TypeOK
    <3>1. \A c \in DOMAIN subs : subs[c] \in Seq(Objects)
      <4>1. \A c \in DOMAIN subs : Due(c) \subseteq Objects /\ subs[c] \in Seq(Due(c))
        BY <2>2 DEF ObjectInv, Due
      <4> QED BY <4>1, SeqMonotonic
    <3>2. ASSUME NEW i \in 1..Len(parsers)
          PROVE  LET p == parsers[i]
                 IN  /\ p.depth \in Nat
                     /\ p.key \in Keys \union {NoKey}
                     /\ p.subs \in DOMAIN subs \union {None}
                     /\ p.files \in 0..MaxFiles
                     /\ p.open \in Seq(Frames)
                     /\ {p.done, p.tidy} \subseteq BOOLEAN
      BY <2>2, <2>3 DEF StackInv, ParserInv, Parsers
    <3>3. \A i \in 1..Len(calls) : calls[i].to \in Objects
      BY <2>2, CalledFacts DEF Callable
    <3> QED BY <2>2, <3>1, <3>2, <3>3 DEF TypeOK, ObjectInv, StackInv
  <2>5. ASSUME NEW i \in 1..Len(parsers)
        PROVE  LET p == parsers[i]
               IN  /\ p.depth = Cardinality(Maps(p.open))
                   /\ p.tidy =>
                        /\ p.subs = Enclosing(p)
                        /\ (p.open # <<>> /\ Last(p.open).want # "key" /\ ~KeyIsLost(p.open))
                             => p.key = Owner(p.open)
    BY <2>2 DEF StackInv, ParserInv, Follows, InForce, Enclosing, Known
  <2> QED BY <2>4, <2>5 DEF InStep
<1> QED BY <1>1, AlwaysInv, PTL

\* Nobody is called after his destruction, unless he was assigned over or was
\* subscribed behind his back.  (configurable.cpp:45-51)
THEOREM TheDeadAreLeftAlone == Spec => []NoneIsCalledDead
<1>1. ConfiguratorInv => NoneIsCalledDead
  BY CalledFacts DEF ConfiguratorInv, Callable, NoneIsCalledDead
<1> QED BY <1>1, AlwaysInv, PTL

\* On a tidy sheet a token leads to just the calls that are due.
\* (configurator.cpp:250-357)
THEOREM WhoIsDueIsTold == Spec => ToldInTurn
<1>1. ConfiguratorInv => TellsInTurn
  <2>1. SUFFICES ASSUME ConfiguratorInv PROVE TellsInTurn
    OBVIOUS
  <2> DEFINE to == Listeners(Enclosing(Top))
             Each(call, key) == [i \in 1..Len(to) |-> [call |-> call, key |-> key, to |-> to[i]]]
             Due1 == (Option /\ Top'.tidy) => calls' = Each("set_option", Owner(Top.open))
             Due2 == (MapEnd /\ Top'.tidy) =>
                       calls' = Each("on_map_end", NoKey)
                                  \o (IF Len(Top.open) = 2 THEN Each("configure", NoKey) ELSE <<>>)
  <2>2. StackInv /\ ObjectInv
    BY <2>1 DEF ConfiguratorInv
  <2>3. ASSUME parsers # <<>>, Top.tidy
        PROVE  /\ Follows(DOMAIN subs, Top) /\ Top.subs = Enclosing(Top)
               /\ \A call, key : Told(call, key, Top.subs) = Each(call, key)
    <3>1. Follows(DOMAIN subs, Top)
      BY <2>2, <2>3, TopFacts DEF ParserInv
    <3>2. Top.subs = Enclosing(Top)
      BY <3>1 DEF Follows, InForce, Enclosing, Known
    <3> QED BY <3>1, <3>2 DEF Told
  <2>4. Due1
    <3>1. SUFFICES ASSUME Option, Top'.tidy
                   PROVE  calls' = Each("set_option", Owner(Top.open))
      OBVIOUS
    <3>2. /\ parsers # <<>> /\ Top.open # <<>> /\ Last(Top.open).want # "key"
          /\ Take(AfterString) /\ calls' = Told("set_option", Top.key, Top.subs)
      BY <3>1 DEF Option, WantsValue, Reads, Inner
    <3>3. Top' = AfterString
      BY <2>2, <3>2, TakenTop
    <3>4. Top.tidy /\ ~KeyIsLost(Top.open)
      BY <2>2, <3>1, <3>2, <3>3, TopFacts DEF AfterString, Parsers
    <3>5. Top.key = Owner(Top.open)
      BY <2>3, <3>2, <3>4 DEF Follows
    <3> QED BY <2>3, <3>2, <3>4, <3>5
  <2>5. Due2
    <3>1. SUFFICES ASSUME MapEnd, Top'.tidy
                   PROVE  calls' = Each("on_map_end", NoKey)
                                \o (IF Len(Top.open) = 2 THEN Each("configure", NoKey) ELSE <<>>)
      OBVIOUS
    <3> DEFINE ends == Top.depth = 2 /\ Top.subs # None
               q == [Top EXCEPT !.depth = @ - 1, !.key = NoKey, !.subs = IF ends THEN None ELSE @,
                                !.open = Closed(@), !.done = Len(Top.open) = 1]
               told == Told("configure", NoKey, Top.subs)
    <3>2. /\ parsers # <<>> /\ Top.open # <<>> /\ Last(Top.open).want = "key" /\ Take(q)
          /\ calls' = Told("on_map_end", NoKey, Top.subs) \o (IF ends THEN told ELSE <<>>)
      BY <3>1 DEF MapEnd, WantsKey, Reads, Inner
    <3>3. Top' = q
      BY <2>2, <3>2, TakenTop
    <3>4. Top.tidy
      BY <2>2, <3>1, <3>2, <3>3, TopFacts DEF Parsers
    <3>5. /\ Each("on_map_end", NoKey) = Told("on_map_end", NoKey, Top.subs)
          /\ Each("configure", NoKey) = told
      BY <2>3, <3>2, <3>4
    <3>6. CASE Top.subs = None
      <4>1. Listeners(None) = <<>> /\ Len(<<>>) = 0
        BY EmptySeq DEF Listeners
      <4>2. told = <<>>
        BY <3>6, <4>1 DEF Told
      <4>3. ~ends
        BY <3>6
      <4> HIDE DEF told, ends, Each
      <4> QED BY <3>2, <3>5, <4>2, <4>3
    <3>7. CASE Top.subs # None
      <4>1. ends <=> Len(Top.open) = 2
        BY <2>2, <2>3, <3>2, <3>4, <3>7, TopFacts, EndOfContext DEF ParserInv
      <4> HIDE DEF told, ends, Each
      <4> QED BY <3>2, <3>5, <4>1
    <3> QED BY <3>6, <3>7
  <2> QED BY <2>4, <2>5 DEF TellsInTurn
<1> QED BY <1>1, AlwaysInv, PTL DEF ToldInTurn
================================================================================
