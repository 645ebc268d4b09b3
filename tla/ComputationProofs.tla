----------------------------- MODULE ComputationProofs -----------------------------
(***************************************************************************)
(* Parts that only compute.  The averages of the monitor stay correct, for *)
(* every number of identifiers and every width of the values: the check in *)
(* avg_stat is enough, and what is rounded off never takes an average out  *)
(* of range.  The buffer that html_encode allocates has room for every     *)
(* text, of any length: the estimate counts enough.  MD5 transforms the    *)
(* blocks of the padded message, whichever way it is cut into chunks.  And *)
(* from_stream reads back what to_stream writes, of any length.            *)
(***************************************************************************)
EXTENDS Monitor, Html, Digest, AdminMessage, TLAPS, FiniteSetTheorems, SequenceTheorems,
        WellFoundedInduction

\* Division rounds down.
LEMMA DivBound ==
  ASSUME NEW x \in Nat, NEW n \in Nat \ {0}
  PROVE  /\ x \div n \in Nat
         /\ (x \div n) * n <= x
         /\ x < (x \div n) * n + n
  OBVIOUS

\* The quotient is the greatest such factor.
LEMMA DivGreatest ==
  ASSUME NEW x \in Nat, NEW n \in Nat \ {0}, NEW m \in Nat, m * n <= x
  PROVE  m <= x \div n
<1> DEFINE q == x \div n
<1>1. q \in Nat /\ x < q * n + n
  BY DivBound
<1>2. SUFFICES ASSUME q + 1 <= m PROVE FALSE
  BY <1>1
<1>3. (q + 1) * n <= m * n
  BY <1>1, <1>2
<1>4. (q + 1) * n = q * n + n
  BY <1>1
<1> HIDE DEF q
<1> QED
  BY <1>1, <1>3, <1>4

-----------------------------------------------------------------------------
(***************************************************************************)
(* One average and one entry.  A sound average fits, product included, and *)
(* has lost nothing of its population but what was rounded off.            *)
(***************************************************************************)
Sound(a) ==
  /\ a.val * a.pop < ValSize
  /\ a.val * a.pop <= a.sum
  /\ 2 * (a.sum - a.val * a.pop) <= a.pop * (a.pop - 1)
  /\ a.pop > 0 => a.least <= a.val

\* The sum that a step of the average forms is exact if the check lets it pass.
LEMMA SumIsExact ==
  ASSUME NEW a \in Average, NEW e \in Values, Sound(a), ~Overflows(a, e)
  PROVE  /\ Plus(Product(a), e) = a.val * a.pop + e
         /\ a.val * a.pop + e < ValSize
<1> DEFINE p == a.val * a.pop
<1>1. p \in Nat /\ p < ValSize
  BY MonitorAssumption DEF Sound, Average, Values
<1> HIDE DEF p
<1>2. Product(a) = p
  <2>1. p % ValSize = p
    BY <1>1, MonitorAssumption
  <2> QED BY <2>1 DEF Product, p
<1>3. e \in Nat /\ e < ValSize
  BY MonitorAssumption DEF Values
<1>4. (p + e) % ValSize >= p
  <2>1. (p + e) % ValSize \in Int
    BY <1>1, <1>3, MonitorAssumption
  <2> QED BY <1>1, <1>2, <2>1 DEF Overflows, Plus
<1>5. p + e < ValSize
  <2>1. SUFFICES ASSUME p + e >= ValSize PROVE FALSE
    BY <1>1, <1>3, MonitorAssumption
  <2>2. (p + e) % ValSize = p + e - ValSize
    BY <1>1, <1>3, <2>1, MonitorAssumption
  <2> QED BY <1>1, <1>3, <1>4, <2>2, MonitorAssumption
<1>6. (p + e) % ValSize = p + e
  BY <1>1, <1>3, <1>5, MonitorAssumption
<1> QED BY <1>2, <1>5, <1>6 DEF Plus, p

\* The check stops no sum that fits.
LEMMA OverflowIsReal ==
  ASSUME NEW a \in Average, NEW e \in Values, Sound(a), Overflows(a, e)
  PROVE  a.val * a.pop + e >= ValSize
<1> DEFINE p == a.val * a.pop
<1>1. p \in Nat /\ p < ValSize
  BY MonitorAssumption DEF Sound, Average, Values
<1> HIDE DEF p
<1>2. Product(a) = p
  <2>1. p % ValSize = p
    BY <1>1, MonitorAssumption
  <2> QED BY <2>1 DEF Product, p
<1>3. e \in Nat /\ (p + e) % ValSize < p
  BY <1>2, MonitorAssumption DEF Overflows, Plus, Values
<1>4. SUFFICES ASSUME p + e < ValSize PROVE FALSE
  BY <1>1, <1>3, MonitorAssumption DEF p
<1>5. (p + e) % ValSize = p + e
  BY <1>1, <1>3, <1>4, MonitorAssumption
<1> QED BY <1>1, <1>3, <1>5

\* An entry adds less than one unit of each entry before it to what is rounded off.
LEMMA RoundingGrows ==
  ASSUME NEW v \in Nat, NEW p \in Nat, NEW s \in Nat, NEW e \in Nat, NEW q \in Nat,
         2 * (s - v * p) <= p * (p - 1),
         v * p + e < q * (p + 1) + (p + 1)
  PROVE  2 * ((s + e) - q * (p + 1)) <= (p + 1) * p
<1> DEFINE old == v * p
           new == q * (p + 1)
<1>1. old \in Nat /\ new \in Nat
  OBVIOUS
<1>2. p * (p - 1) = p * p - p /\ (p + 1) * p = p * p + p /\ p * p \in Nat
  OBVIOUS
<1>3. e - new <= p - old
  <2> HIDE DEF old, new
  <2> QED BY <1>1 DEF old, new
<1> HIDE DEF old, new
<1>4. 2 * (s - old) <= p * p - p
  BY <1>2 DEF old
<1>5. 2 * ((s + e) - new) <= p * p + p
  BY <1>1, <1>2, <1>3, <1>4
<1> QED BY <1>2, <1>5 DEF new

\* A sound average of a population that may grow stays one.
LEMMA EnteredIsSound ==
  ASSUME NEW a \in Average, NEW e \in Values, Sound(a), ~Overflows(a, e),
         a.pop < MaxUpdates
  PROVE  /\ Entered(a, e) \in Average
         /\ Sound(Entered(a, e))
         /\ Entered(a, e).pop = a.pop + 1
<1> DEFINE x == a.val * a.pop + e
           n == a.pop + 1
           q == x \div n
           m == IF e < a.least THEN e ELSE a.least
<1>1. /\ a.pop \in Nat /\ a.val \in Nat /\ a.sum \in Nat /\ a.least \in Values
      /\ e \in Nat /\ e \in Values
  BY MonitorAssumption DEF Average, Values
<1>2. x \in Nat /\ n \in Nat \ {0} /\ n \in 0..MaxUpdates /\ x < ValSize
  <2>1. a.val * a.pop \in Nat
    BY <1>1
  <2> QED BY <1>1, <2>1, SumIsExact, MonitorAssumption
<1>3. Entered(a, e) = [pop |-> n, val |-> q, sum |-> a.sum + e, least |-> m]
  BY SumIsExact DEF Entered
<1>4. q \in Nat /\ q * n <= x /\ x < q * n + n
  <2> HIDE DEF x, n
  <2> QED BY <1>2, DivBound
<1>5. q \in Values
  <2>1. q <= q * n
    <3> HIDE DEF q, n, x
    <3>1. n >= 1
      BY <1>2
    <3> QED BY <1>2, <1>4, <3>1
  <2> HIDE DEF q, n, x
  <2> QED BY <1>2, <1>4, <2>1, MonitorAssumption DEF Values
<1>6. m \in Values
  BY <1>1
<1>7. Entered(a, e) \in Average
  BY <1>1, <1>2, <1>3, <1>5, <1>6 DEF Average
<1>8. q * n < ValSize /\ q * n <= a.sum + e
  <2>1. x <= a.sum + e
    <3>1. a.val * a.pop \in Nat /\ a.val * a.pop <= a.sum
      BY <1>1 DEF Sound
    <3> QED BY <1>1, <3>1
  <2>2. q * n \in Nat
    <3> HIDE DEF q, n
    <3> QED BY <1>2, <1>4
  <2> HIDE DEF x, q, n
  <2> QED BY <1>1, <1>2, <1>4, <2>1, <2>2, MonitorAssumption
<1>9. m <= q
  <2>1. m \in Nat
    BY <1>6, MonitorAssumption DEF Values
  <2>2. m * n <= x
    <3>1. m <= e
      BY <1>1, MonitorAssumption DEF Values
    <3>2. m * a.pop <= a.val * a.pop
      <4>1. CASE a.pop = 0
        BY <1>1, <2>1, <4>1
      <4>2. CASE a.pop > 0
        <5>1. m <= a.val
          BY <1>1, <4>2, MonitorAssumption DEF Sound, Values
        <5> HIDE DEF m
        <5> QED BY <1>1, <2>1, <5>1
      <4> QED BY <1>1, <4>1, <4>2
    <3>3. m * n = m * a.pop + m
      <4> HIDE DEF m
      <4> QED BY <1>1, <2>1
    <3>4. m * a.pop \in Nat /\ a.val * a.pop \in Nat
      <4> HIDE DEF m
      <4> QED BY <1>1, <2>1
    <3> HIDE DEF m
    <3> QED BY <1>1, <2>1, <3>1, <3>2, <3>3, <3>4
  <2> HIDE DEF m, x, n
  <2> QED BY <1>2, <2>1, <2>2, DivGreatest
<1>10. 2 * ((a.sum + e) - q * n) <= n * (n - 1)
  <2>1. 2 * (a.sum - a.val * a.pop) <= a.pop * (a.pop - 1)
    BY DEF Sound
  <2>2. a.val * a.pop + e < q * (a.pop + 1) + (a.pop + 1)
    <3> HIDE DEF q
    <3> QED BY <1>4
  <2>3. 2 * ((a.sum + e) - q * (a.pop + 1)) <= (a.pop + 1) * a.pop
    <3> HIDE DEF q
    <3> QED BY <1>1, <1>4, <2>1, <2>2, RoundingGrows
  <2>4. n - 1 = a.pop
    BY <1>1
  <2> HIDE DEF q
  <2> QED BY <2>3, <2>4
<1>11. Sound(Entered(a, e))
  <2> DEFINE b == Entered(a, e)
  <2>1. b.pop = n /\ b.val = q /\ b.sum = a.sum + e /\ b.least = m
    <3> HIDE DEF q, n, m
    <3> QED BY <1>3
  <2> HIDE DEF q, n, m, b
  <2>2. b.val * b.pop < ValSize /\ b.val * b.pop <= b.sum /\ b.least <= b.val
    BY <1>8, <1>9, <2>1
  <2>3. 2 * (b.sum - b.val * b.pop) <= b.pop * (b.pop - 1)
    BY <1>10, <2>1
  <2>4. Sound(b)
    BY <2>2, <2>3 DEF Sound
  <2> QED BY <2>4 DEF b
<1> QED
  BY <1>3, <1>7, <1>11

\* An average that nothing was entered into is sound, and lets any entry pass.
LEMMA FreshIsSound ==
  /\ Fresh \in Average /\ Sound(Fresh)
  /\ \A e \in Values : ~Overflows(Fresh, e)
<1>1. Fresh \in Average /\ Sound(Fresh)
  BY MonitorAssumption DEF Fresh, Average, Sound, Values
<1>2. ASSUME NEW e \in Values PROVE ~Overflows(Fresh, e)
  <2>1. Product(Fresh) = 0
    BY MonitorAssumption DEF Product, Fresh
  <2>2. e % ValSize = e /\ e \in Nat
    BY MonitorAssumption DEF Values
  <2> QED BY <2>1, <2>2 DEF Overflows, Plus
<1> QED BY <1>1, <1>2

-----------------------------------------------------------------------------
(***************************************************************************)
(* The invariant.  A population is no larger than the number of updates,   *)
(* which is what keeps it below the number of values.                      *)
(***************************************************************************)
AveragesInv ==
  \A id \in DOMAIN averages : \A i \in 1..Len(averages[id]) :
    Sound(averages[id][i]) /\ averages[id][i].pop <= updates

\* Before the identifiers wrap around, those that were handed out and those that
\* have a name are among the first guid, and 0 has a name only by to_string.
IdsInv ==
  guid < IdSize =>
    /\ DOMAIN names \subseteq 0..guid
    /\ \A id \in Ids : handed[id] # {} =>
         id \in 1..guid /\ id \in DOMAIN names /\ handed[id] = {names[id]}

IInv == TypeOK /\ AveragesInv /\ IdsInv

\* What insertion into a map finds in it afterwards.
LEMMA InsertedMap ==
  ASSUME NEW S, NEW map, IsMap(map, S), NEW id \in Ids, NEW v \in S
  PROVE  /\ IsMap(Inserted(map, id, v), S)
         /\ DOMAIN Inserted(map, id, v) = DOMAIN map \union {id}
         /\ \A k \in DOMAIN map : Inserted(map, id, v)[k] = map[k]
         /\ id \notin DOMAIN map => Inserted(map, id, v)[id] = v
  BY DEF IsMap, Inserted, Put

\* The identifiers wrap around, but not before the number of them is reached.
LEMMA NextIdRange ==
  ASSUME guid \in Nat
  PROVE  /\ NextId \in Ids
         /\ guid + 1 < IdSize => NextId = guid + 1
<1>1. (guid + 1) % IdSize \in 0..(IdSize - 1)
  BY MonitorAssumption
<1>2. ASSUME guid + 1 < IdSize PROVE (guid + 1) % IdSize = guid + 1
  BY <1>2, MonitorAssumption
<1> QED BY <1>1, <1>2 DEF NextId, Ids

\* Initially.
LEMMA InitIInv == Init => IInv
<1> SUFFICES ASSUME Init PROVE IInv
  OBVIOUS
<1>1. DOMAIN averages = {} /\ DOMAIN names = {} /\ DOMAIN stats = {}
  BY DEF Init
<1>2. TypeOK
  <2>1. IsMap(names, Names \union {Blank}) /\ IsMap(stats, Values) /\ IsMap(averages, Seq(Average))
    BY <1>1 DEF Init, IsMap
  <2> QED BY <2>1, MonitorAssumption DEF Init, TypeOK
<1> QED BY <1>1, <1>2 DEF Init, IInv, AveragesInv, IdsInv

\* The part of a registration that is the same for both kinds of statistics.
LEMMA RegisterStep ==
  ASSUME IInv, NEW n \in Names, Register(n)
  PROVE  /\ guid' \in 0..MaxTracked /\ IsMap(names', Names \union {Blank})
         /\ handed' \in [Ids -> SUBSET Names] /\ running' \in BOOLEAN
         /\ updates' = updates /\ updates' \in 0..MaxUpdates
         /\ IdsInv'
<1>1. guid \in Nat /\ guid + 1 \in 0..MaxTracked /\ NextId \in Ids
  BY NextIdRange, MonitorAssumption DEF IInv, TypeOK, Register
<1>2. IsMap(names', Names \union {Blank}) /\ handed' \in [Ids -> SUBSET Names]
  BY <1>1, InsertedMap DEF IInv, TypeOK, Register
<1>3. ASSUME guid' < IdSize PROVE IdsInv'
  <2>1. NextId = guid + 1 /\ guid' = guid + 1 /\ guid < IdSize
    BY <1>1, <1>3, NextIdRange, MonitorAssumption DEF Register
  <2>2. NextId \notin DOMAIN names /\ handed[NextId] = {}
    BY <1>1, <2>1 DEF IInv, IdsInv
  <2>3. /\ DOMAIN names' = DOMAIN names \union {NextId}
        /\ \A k \in DOMAIN names : names'[k] = names[k]
        /\ names'[NextId] = n
    <3> DEFINE S == Names \union {Blank}
    <3>1. IsMap(names, S) /\ n \in S /\ NextId \in Ids
      BY <1>1 DEF IInv, TypeOK
    <3> HIDE DEF S
    <3>2. /\ DOMAIN Inserted(names, NextId, n) = DOMAIN names \union {NextId}
          /\ \A k \in DOMAIN names : Inserted(names, NextId, n)[k] = names[k]
          /\ NextId \notin DOMAIN names => Inserted(names, NextId, n)[NextId] = n
      BY <3>1 DEF IsMap, Inserted, Put
    <3>3. names' = Inserted(names, NextId, n) /\ NextId \notin DOMAIN names
      BY <2>2 DEF Register
    <3> QED BY <3>2, <3>3
  <2>4. DOMAIN names' \subseteq 0..guid'
    BY <1>1, <2>1, <2>3 DEF IInv, IdsInv
  <2>5. ASSUME NEW id \in Ids, handed'[id] # {}
        PROVE  id \in 1..guid' /\ id \in DOMAIN names' /\ handed'[id] = {names'[id]}
    <3>1. CASE id = NextId
      <4>1. handed'[NextId] = handed[NextId] \union {n}
        BY <1>1 DEF Register, IInv, TypeOK
      <4>2. handed'[id] = {names'[id]}
        BY <2>2, <2>3, <3>1, <4>1
      <4>3. id \in 1..guid' /\ id \in DOMAIN names'
        BY <1>1, <2>1, <2>3, <3>1
      <4> QED BY <4>2, <4>3
    <3>2. CASE id # NextId
      <4>1. handed'[id] = handed[id]
        BY <3>2 DEF Register, IInv, TypeOK
      <4>2. id \in 1..guid /\ id \in DOMAIN names /\ handed[id] = {names[id]}
        BY <2>1, <2>5, <4>1 DEF IInv, IdsInv
      <4>3. names'[id] = names[id] /\ id \in DOMAIN names'
        BY <2>3, <4>2
      <4>4. id \in 1..guid'
        BY <1>1, <2>1, <4>2
      <4> QED BY <4>1, <4>2, <4>3, <4>4
    <3> QED BY <3>1, <3>2
  <2> QED BY <2>4, <2>5 DEF IdsInv
<1> QED BY <1>1, <1>2, <1>3 DEF IInv, TypeOK, Register, IdsInv

\* What only updates values leaves the identifiers as they are.
LEMMA IdsUnchanged ==
  ASSUME IInv, UNCHANGED <<guid, names, handed>>
  PROVE  IdsInv'
  BY DEF IInv, IdsInv

\* An update.
LEMMA UpdateStep ==
  ASSUME IInv, NEW id \in Ids, Update(id)
  PROVE  /\ updates' = updates + 1 /\ updates' \in 0..MaxUpdates
         /\ updates < MaxUpdates /\ updates \in Nat
         /\ guid' \in 0..MaxTracked /\ IsMap(names', Names \union {Blank})
         /\ handed' \in [Ids -> SUBSET Names]
         /\ IdsInv'
<1>1. IdsInv'
  BY IdsUnchanged DEF Update
<1> QED BY <1>1, MonitorAssumption DEF IInv, TypeOK, Update

\* Every action.
LEMMA NextIInv == IInv /\ [Next]_vars => IInv'
<1> SUFFICES ASSUME IInv, [Next]_vars PROVE IInv'
  OBVIOUS
<1>1. ASSUME NEW n \in Names, TrackStat(n) PROVE IInv'
  <2>1. IsMap(stats', Values)
    <3>1. 0 \in Values /\ NextId \in Ids
      BY NextIdRange, MonitorAssumption DEF Values, IInv, TypeOK
    <3>2. IsMap(stats, Values) /\ stats' = Inserted(stats, NextId, 0)
      BY <1>1 DEF IInv, TypeOK, TrackStat
    <3> QED BY <3>1, <3>2, InsertedMap
  <2>2. Register(n) /\ averages' = averages
    BY <1>1 DEF TrackStat
  <2>3. TypeOK'
    BY <2>1, <2>2, RegisterStep DEF IInv, TypeOK
  <2>4. AveragesInv'
    BY <2>2, RegisterStep DEF IInv, AveragesInv
  <2> QED BY <2>2, <2>3, <2>4, RegisterStep DEF IInv
<1>2. ASSUME NEW n \in Names, TrackAvgStat(n) PROVE IInv'
  <2>1. Register(n) /\ stats' = stats /\ averages' = Inserted(averages, NextId, <<Fresh>>)
    BY <1>2 DEF TrackAvgStat
  <2>2. <<Fresh>> \in Seq(Average) /\ NextId \in Ids
    BY FreshIsSound, NextIdRange, MonitorAssumption DEF IInv, TypeOK
  <2>3. IsMap(averages, Seq(Average))
    BY DEF IInv, TypeOK
  <2>4. /\ IsMap(averages', Seq(Average))
        /\ DOMAIN averages' = DOMAIN averages \union {NextId}
        /\ \A k \in DOMAIN averages : averages'[k] = averages[k]
        /\ NextId \notin DOMAIN averages => averages'[NextId] = <<Fresh>>
    <3> DEFINE S == Seq(Average)
    <3>1. <<Fresh>> \in S /\ IsMap(averages, S)
      BY <2>2, <2>3
    <3> HIDE DEF S
    <3>2. /\ IsMap(Inserted(averages, NextId, <<Fresh>>), S)
          /\ DOMAIN Inserted(averages, NextId, <<Fresh>>) = DOMAIN averages \union {NextId}
          /\ \A k \in DOMAIN averages : Inserted(averages, NextId, <<Fresh>>)[k] = averages[k]
          /\ NextId \notin DOMAIN averages =>
               Inserted(averages, NextId, <<Fresh>>)[NextId] = <<Fresh>>
      BY <2>2, <3>1, InsertedMap
    <3> QED BY <2>1, <3>2 DEF S
  <2>5. TypeOK'
    BY <2>1, <2>4, RegisterStep DEF IInv, TypeOK
  <2>6. AveragesInv'
    <3>1. Fresh.pop <= updates
      BY DEF Fresh, IInv, TypeOK
    <3> QED BY <2>1, <2>4, <3>1, RegisterStep, FreshIsSound DEF IInv, AveragesInv
  <2> QED BY <2>1, <2>5, <2>6, RegisterStep DEF IInv
<1>3. ASSUME NEW id \in Ids, NEW n \in Values, AddTo(id, n) PROVE IInv'
  <2>1. IsMap(stats', Values)
    <3> DEFINE found == Inserted(stats, id, 0)
    <3>1. 0 \in Values /\ IsMap(stats, Values)
      BY MonitorAssumption DEF Values, IInv, TypeOK
    <3>2. IsMap(found, Values) /\ id \in DOMAIN found
      BY <3>1 DEF IsMap, Inserted, Put
    <3>3. stats' = [found EXCEPT ![id] = (@ + n) % ValSize]
      BY <1>3 DEF AddTo
    <3> HIDE DEF found
    <3>4. (found[id] + n) % ValSize \in Values
      BY <3>2, MonitorAssumption DEF IsMap, Values
    <3> QED BY <3>2, <3>3, <3>4 DEF IsMap
  <2>2. Update(id) /\ averages' = averages /\ running' = running
    BY <1>3 DEF AddTo
  <2>3. TypeOK'
    BY <2>1, <2>2, UpdateStep DEF IInv, TypeOK
  <2>4. AveragesInv'
    <3> SUFFICES ASSUME NEW k \in DOMAIN averages, NEW i \in 1..Len(averages[k])
                 PROVE  Sound(averages[k][i]) /\ averages[k][i].pop <= updates'
      BY <2>2 DEF AveragesInv, Sound
    <3>1. Sound(averages[k][i]) /\ averages[k][i].pop <= updates /\ averages[k][i] \in Average
      BY DEF IInv, TypeOK, IsMap, AveragesInv
    <3>2. averages[k][i].pop \in Nat
      BY <3>1, MonitorAssumption DEF Average
    <3> QED BY <2>2, <3>1, <3>2, UpdateStep
  <2> QED BY <2>2, <2>3, <2>4, UpdateStep DEF IInv
<1>4. ASSUME NEW id \in Ids, NameOf(id) PROVE IInv'
  <2>1. /\ names' = Inserted(names, id, Blank) /\ id \in Held
        /\ UNCHANGED <<guid, stats, averages, updates, handed, running>>
    BY <1>4 DEF NameOf
  <2>2. IsMap(names, Names \union {Blank})
    BY DEF IInv, TypeOK
  <2>3. /\ IsMap(names', Names \union {Blank})
        /\ DOMAIN names' = DOMAIN names \union {id}
        /\ \A k \in DOMAIN names : names'[k] = names[k]
    BY <2>1, <2>2, InsertedMap
  <2>4. TypeOK' /\ AveragesInv'
    BY <2>1, <2>3 DEF IInv, TypeOK, AveragesInv, Sound
  <2>5. IdsInv'
    <3>1. guid \in Nat
      BY MonitorAssumption DEF IInv, TypeOK
    <3> QED BY <2>1, <2>3, <3>1 DEF IInv, IdsInv, Held
  <2> QED BY <2>4, <2>5 DEF IInv
<1>5. ASSUME NEW id \in Ids, AvgStatOfNone(id) PROVE IInv'
  <2>1. /\ Update(id) /\ averages' = Inserted(averages, id, <<>>)
        /\ stats' = stats /\ running' \in BOOLEAN
    BY <1>5 DEF AvgStatOfNone
  <2>2. IsMap(averages, Seq(Average)) /\ <<>> \in Seq(Average)
    BY DEF IInv, TypeOK
  <2>3. /\ IsMap(averages', Seq(Average))
        /\ DOMAIN averages' = DOMAIN averages \union {id}
        /\ \A k \in DOMAIN averages : averages'[k] = averages[k]
        /\ id \notin DOMAIN averages => averages'[id] = <<>>
    <3> DEFINE S == Seq(Average)
    <3>1. <<>> \in S /\ IsMap(averages, S)
      BY <2>2
    <3> HIDE DEF S
    <3>2. /\ IsMap(Inserted(averages, id, <<>>), S)
          /\ DOMAIN Inserted(averages, id, <<>>) = DOMAIN averages \union {id}
          /\ \A k \in DOMAIN averages : Inserted(averages, id, <<>>)[k] = averages[k]
          /\ id \notin DOMAIN averages => Inserted(averages, id, <<>>)[id] = <<>>
      BY <3>1, InsertedMap
    <3> QED BY <2>1, <3>2 DEF S
  <2>4. TypeOK'
    BY <2>1, <2>3, UpdateStep DEF IInv, TypeOK
  <2>5. AveragesInv'
    <3> SUFFICES ASSUME NEW k \in DOMAIN averages', NEW i \in 1..Len(averages'[k])
                 PROVE  Sound(averages'[k][i]) /\ averages'[k][i].pop <= updates'
      BY DEF AveragesInv, Sound
    <3>1. k \in DOMAIN averages /\ averages'[k] = averages[k]
      BY <2>3
    <3>2. averages[k][i] \in Average /\ Sound(averages[k][i]) /\ averages[k][i].pop <= updates
      BY <3>1 DEF IInv, TypeOK, IsMap, AveragesInv
    <3>3. averages[k][i].pop \in Nat
      BY <3>2, MonitorAssumption DEF Average
    <3> QED BY <2>1, <3>1, <3>2, <3>3, UpdateStep
  <2> QED BY <2>1, <2>4, <2>5, UpdateStep DEF IInv
<1>6. ASSUME NEW id \in Ids, NEW e \in Values, AvgStat(id, e) PROVE IInv'
  <2> DEFINE all == averages[id]
             a   == Last(all)
             new == IF Overflows(a, e) THEN Append(all, Entered(Fresh, e))
                                       ELSE [all EXCEPT ![Len(all)] = Entered(a, e)]
  <2>1. /\ Update(id) /\ stats' = stats /\ running' = running
        /\ id \in DOMAIN averages /\ all # <<>>
        /\ averages' = [averages EXCEPT ![id] = new]
    BY <1>6 DEF AvgStat, Last
  <2>2. IsMap(averages, Seq(Average)) /\ all \in Seq(Average)
    BY <2>1 DEF IInv, TypeOK, IsMap
  <2>3. Len(all) \in 1..Len(all) /\ a = all[Len(all)] /\ a \in Average
    BY <2>1, <2>2 DEF Last
  <2>4. Sound(a) /\ a.pop <= updates /\ a.pop \in Nat
    BY <2>1, <2>3, MonitorAssumption DEF IInv, AveragesInv, Average
  <2>5. /\ Entered(Fresh, e) \in Average /\ Sound(Entered(Fresh, e))
        /\ Entered(Fresh, e).pop = 1
    <3>1. Fresh.pop = 0 /\ 0 < MaxUpdates
      BY <2>1, UpdateStep, MonitorAssumption DEF Fresh
    <3> QED BY <3>1, FreshIsSound, EnteredIsSound
  <2>6. ASSUME ~Overflows(a, e)
        PROVE  /\ Entered(a, e) \in Average /\ Sound(Entered(a, e))
               /\ Entered(a, e).pop = a.pop + 1
    <3>1. a.pop < MaxUpdates
      BY <2>1, <2>4, UpdateStep, MonitorAssumption
    <3> HIDE DEF a
    <3> QED BY <2>3, <2>4, <2>6, <3>1, EnteredIsSound
  <2>7. /\ new \in Seq(Average)
        /\ \A i \in 1..Len(new) : Sound(new[i]) /\ new[i].pop <= updates + 1
    <3>0. \A i \in 1..Len(all) : Sound(all[i]) /\ all[i].pop <= updates
                                 /\ all[i] \in Average /\ all[i].pop \in Nat
      <4>1. \A i \in 1..Len(all) : Sound(all[i]) /\ all[i].pop <= updates
        BY <2>1 DEF IInv, AveragesInv
      <4>2. \A i \in 1..Len(all) : all[i] \in Average
        <5> HIDE DEF all
        <5> QED BY <2>2
      <4>3. \A x \in Average : x.pop \in Nat
        BY MonitorAssumption DEF Average
      <4> QED BY <4>1, <4>2, <4>3
    <3>1. updates \in Nat
      BY <2>1, UpdateStep
    <3>2. CASE Overflows(a, e)
      <4>1. new = Append(all, Entered(Fresh, e))
        BY <3>2
      <4> HIDE DEF new, all
      <4> QED BY <2>2, <2>5, <3>0, <3>1, <4>1
    <3>3. CASE ~Overflows(a, e)
      <4>1. new = [all EXCEPT ![Len(all)] = Entered(a, e)]
        BY <3>3
      <4>2. Entered(a, e) \in Average /\ Sound(Entered(a, e)) /\ Entered(a, e).pop <= updates + 1
        BY <2>4, <2>6, <3>1, <3>3
      <4> HIDE DEF new, all, a
      <4>3. /\ new \in Seq(Average) /\ Len(new) = Len(all)
            /\ \A i \in 1..Len(all) : new[i] = IF i = Len(all) THEN Entered(a, e) ELSE all[i]
        <5>1. Len(all) \in 1..Len(all)
          BY <2>1, <2>2
        <5>2. [all EXCEPT ![Len(all)] = Entered(a, e)] \in Seq(Average)
          BY <2>2, <4>2, <5>1
        <5> QED BY <2>2, <4>1, <5>1, <5>2
      <4>4. \A i \in 1..Len(all) : all[i].pop <= updates + 1
        BY <3>0, <3>1
      <4> QED BY <3>0, <4>2, <4>3, <4>4
    <3> QED BY <3>2, <3>3
  <2> HIDE DEF new, all, a
  <2>8. TypeOK'
    <3>1. IsMap(averages', Seq(Average))
      BY <2>1, <2>2, <2>7 DEF IsMap
    <3> QED BY <2>1, <3>1, UpdateStep DEF IInv, TypeOK
  <2>9. AveragesInv'
    <3> SUFFICES ASSUME NEW k \in DOMAIN averages', NEW i \in 1..Len(averages'[k])
                 PROVE  Sound(averages'[k][i]) /\ averages'[k][i].pop <= updates'
      BY DEF AveragesInv, Sound
    <3>1. updates' = updates + 1
      BY <2>1, UpdateStep
    <3>2. CASE k = id
      BY <2>1, <2>2, <2>7, <3>1, <3>2 DEF IsMap
    <3>3. CASE k # id
      <4>1. k \in DOMAIN averages /\ averages'[k] = averages[k]
        BY <2>1, <2>2, <3>3 DEF IsMap
      <4>2. averages[k][i] \in Average /\ Sound(averages[k][i]) /\ averages[k][i].pop <= updates
        BY <2>2, <4>1 DEF IInv, IsMap, AveragesInv
      <4>3. averages[k][i].pop \in Nat /\ updates \in Nat
        BY <2>1, <4>2, UpdateStep, MonitorAssumption DEF Average
      <4> QED BY <3>1, <4>1, <4>2, <4>3
    <3> QED BY <3>2, <3>3
  <2> QED BY <2>1, <2>8, <2>9, UpdateStep DEF IInv
<1>7. ASSUME UNCHANGED vars PROVE IInv'
  BY <1>7 DEF vars, IInv, TypeOK, AveragesInv, IdsInv, Sound
<1>8. \A id \in Ids : IncStat(id) \/ DecStat(id) => IInv'
  <2>1. ValSize - 1 \in Values
    BY MonitorAssumption DEF Values
  <2>2. ASSUME NEW id \in Ids, DecStat(id) PROVE IInv'
    BY <1>3, <2>1, <2>2 DEF DecStat
  <2>3. ASSUME NEW id \in Ids, IncStat(id) PROVE IInv'
    <3>1. CASE 1 \in Values
      BY <1>3, <2>3, <3>1 DEF IncStat
    <3>2. CASE 1 \notin Values
      <4>1. ValSize = 1
        BY <3>2, MonitorAssumption DEF Values
      <4>2. MaxUpdates = 0
        BY <4>1, MonitorAssumption
      <4>3. Update(id)
        BY <2>3 DEF IncStat, AddTo
      <4> QED BY <4>2, <4>3, UpdateStep
    <3> QED BY <3>1, <3>2
  <2> QED BY <2>2, <2>3
<1> QED
  BY <1>1, <1>2, <1>4, <1>5, <1>6, <1>7, <1>8 DEF Next

-----------------------------------------------------------------------------
\* The invariant holds throughout.
LEMMA Invariance == Spec => []IInv
  BY InitIInv, NextIInv, PTL DEF Spec

\* Whatever is in the averages of a statistic is sound.
LEMMA EntriesAreSound ==
  ASSUME IInv, NEW a \in Entries PROVE Sound(a) /\ a.pop > 0
  BY DEF IInv, AveragesInv, Entries

\* The monitor's state is well typed: values and identifiers keep their width
\* in every operation (monitor.cpp).
THEOREM TypeCorrect == Spec => []TypeOK
<1>1. IInv => TypeOK
  BY DEF IInv
<1> QED BY <1>1, Invariance, PTL

\* The exact sum of a population exceeds the average times its size by what was
\* rounded off, less than one unit of each earlier entry: none ever wrapped around
\* (monitor.cpp:140-155).
THEOREM RoundingErrorIsBounded == Spec => []RoundingIsBounded
<1>1. IInv => RoundingIsBounded
  BY EntriesAreSound DEF RoundingIsBounded, Sound
<1> QED BY <1>1, Invariance, PTL

\* A new population is begun if and only if the sum with the entry does not fit, so
\* no sum that an average is recalculated from ever wraps around
\* (monitor.cpp:140-155).
THEOREM SumsNeverWrap == Spec => OverflowIsCaught
<1> DEFINE Caught == \A id \in DOMAIN averages : averages'[id] # averages[id] =>
      LET a == Last(averages[id])
          b == Last(averages'[id])
      IN  IF Len(averages'[id]) = Len(averages[id])
          THEN a.val * a.pop + (b.sum - a.sum) < ValSize
          ELSE a.val * a.pop + b.sum >= ValSize
<1>1. ASSUME IInv, [Next]_vars, averages' # averages PROVE Caught
  <2> SUFFICES ASSUME NEW id \in DOMAIN averages, averages'[id] # averages[id]
               PROVE  LET a == Last(averages[id])
                          b == Last(averages'[id])
                      IN  IF Len(averages'[id]) = Len(averages[id])
                          THEN a.val * a.pop + (b.sum - a.sum) < ValSize
                          ELSE a.val * a.pop + b.sum >= ValSize
    OBVIOUS
  <2> USE <1>1
  <2>1. PICK e \in Values : AvgStat(id, e)
    <3>1. IsMap(averages, Seq(Average)) /\ id \in Ids
      BY DEF IInv, TypeOK, IsMap
    <3>2. ASSUME NEW k \in Ids, NEW v, averages' = Inserted(averages, k, v) PROVE FALSE
      BY <3>1, <3>2 DEF Inserted, Put
    <3>3. NextId \in Ids
      BY NextIdRange, MonitorAssumption DEF IInv, TypeOK
    <3>4. ASSUME NEW k \in Ids, NEW e \in Values, AvgStat(k, e) PROVE k = id
      BY <3>1, <3>4 DEF AvgStat, IsMap
    <3>5. \E k \in Ids, e \in Values : AvgStat(k, e)
      BY <3>2, <3>3 DEF Next, vars, TrackStat, TrackAvgStat, IncStat, DecStat, AddTo, NameOf,
         AvgStatOfNone
    <3> QED BY <3>4, <3>5
  <2> DEFINE all == averages[id]
             a   == Last(all)
             b   == Last(averages'[id])
             n   == Len(all)
  <2>2. /\ all \in Seq(Average) /\ n \in 1..n /\ n \in Nat /\ a = all[n]
        /\ averages'[id] = IF Overflows(a, e) THEN Append(all, Entered(Fresh, e))
                                              ELSE [all EXCEPT ![n] = Entered(a, e)]
    <3>1. all \in Seq(Average) /\ all # <<>>
      BY <2>1 DEF IInv, TypeOK, IsMap, AvgStat
    <3>2. averages'[id] = IF Overflows(a, e) THEN Append(all, Entered(Fresh, e))
                                             ELSE [all EXCEPT ![n] = Entered(a, e)]
      BY <2>1 DEF IInv, TypeOK, IsMap, AvgStat, Last
    <3> HIDE DEF all
    <3> QED BY <3>1, <3>2 DEF Last
  <2>3. a \in Average /\ Sound(a)
    BY <2>2 DEF IInv, AveragesInv
  <2>4. e \in Nat /\ a.sum \in Nat
    BY <2>3, MonitorAssumption DEF Average, Values
  <2> HIDE DEF all, a
  <2>5. CASE Overflows(a, e)
    <3>1. Len(averages'[id]) # n /\ b = Entered(Fresh, e)
      BY <2>2, <2>5 DEF Last
    <3>2. b.sum = e
      BY <2>4, <3>1 DEF Entered, Fresh
    <3> QED BY <2>3, <2>5, <3>1, <3>2, OverflowIsReal DEF all, a
  <2>6. CASE ~Overflows(a, e)
    <3>1. Len(averages'[id]) = n /\ b = Entered(a, e)
      BY <2>2, <2>6 DEF Last
    <3>2. b.sum - a.sum = e
      BY <2>4, <3>1 DEF Entered
    <3> QED BY <2>3, <2>6, <3>1, <3>2, SumIsExact DEF all, a
  <2> QED BY <2>5, <2>6
<1>2. IInv /\ [Next]_vars => [Caught]_averages
  BY <1>1
<1> QED BY <1>2, Invariance, PTL DEF Spec, OverflowIsCaught

\* An average is at least the least entry and at most the mean (monitor.cpp:155).
THEOREM AveragesAreInRange == Spec => []BetweenLeastAndMean
<1>1. IInv => BetweenLeastAndMean
  BY EntriesAreSound DEF BetweenLeastAndMean, Sound
<1> QED BY <1>1, Invariance, PTL

\* Identifiers name one statistic each until they wrap around (monitor.cpp:82-116).
THEOREM IdentifiersAreUnique == Spec => []IdsAreUnique
<1>1. IInv => IdsAreUnique
  BY MonitorAssumption DEF IInv, TypeOK, IdsInv, IdsAreUnique
<1> QED BY <1>1, Invariance, PTL

-----------------------------------------------------------------------------
(***************************************************************************)
(* The encoding of HTML.  What is written so far is bounded by the bytes   *)
(* it stands for: one for each of them, and six more for each that is not  *)
(* alphanumeric.                                                           *)
(***************************************************************************)
Coded(s, n) == {i \in 1..n : s[i] # "alnum"}

Results == {"idle", "running", "true", "false"}

HtmlInv ==
  /\ text \in Seq(Bytes)
  /\ processed \in 0..Len(text)
  /\ outlen \in Nat
  /\ encoding \in Results
  /\ outlen <= processed + 6 * Cardinality(Coded(text, processed))
  /\ encoding = "true" => processed = Len(text) \/ Len(Follow) < Trailing(Lead)

\* The bytes that are counted are finitely many, and more in a longer part of the text.
LEMMA CodedGrows ==
  ASSUME NEW s, NEW m \in Nat, NEW n \in Nat, m <= n
  PROVE  /\ IsFiniteSet(Coded(s, n))
         /\ Cardinality(Coded(s, m)) \in Nat
         /\ Cardinality(Coded(s, n)) \in Nat
         /\ Cardinality(Coded(s, m)) <= Cardinality(Coded(s, n))
<1>1. Coded(s, n) \in SUBSET (1..n) /\ Coded(s, m) \in SUBSET Coded(s, n)
  BY DEF Coded
<1>2. IsFiniteSet(1..n)
  BY FS_Interval
<1>3. IsFiniteSet(Coded(s, n))
  BY <1>1, <1>2, FS_Subset
<1>4. IsFiniteSet(Coded(s, m)) /\ Cardinality(Coded(s, m)) <= Cardinality(Coded(s, n))
  BY <1>1, <1>3, FS_Subset
<1> QED BY <1>3, <1>4, FS_CardinalityType

\* A byte that is not alphanumeric is one more.
LEMMA CodedNext ==
  ASSUME NEW s, NEW n \in Nat, s[n + 1] # "alnum"
  PROVE  Cardinality(Coded(s, n + 1)) = Cardinality(Coded(s, n)) + 1
<1>1. Coded(s, n + 1) = Coded(s, n) \union {n + 1}
  BY DEF Coded
<1>2. n + 1 \notin Coded(s, n)
  BY DEF Coded
<1>3. IsFiniteSet(Coded(s, n))
  BY CodedGrows
<1> QED BY <1>1, <1>2, <1>3, FS_AddElement

\* The buffer has room for whatever is bounded like this, and one byte more.
LEMMA BufferHasRoom ==
  ASSUME NEW s \in Seq(Bytes), NEW n \in 0..Len(s)
  PROVE  Outsz(s) \in Nat /\ n + 6 * Cardinality(Coded(s, n)) < Outsz(s)
<1>1. Coded(s, Len(s)) = {i \in DOMAIN s : s[i] # "alnum"}
  BY DEF Coded
<1>2. Outsz(s) = Len(s) + 6 * Cardinality(Coded(s, Len(s))) + 1
  BY <1>1 DEF Outsz
<1>3. Len(s) \in Nat /\ n \in Nat /\ n <= Len(s)
  OBVIOUS
<1>4. /\ Cardinality(Coded(s, n)) \in Nat
      /\ Cardinality(Coded(s, Len(s))) \in Nat
      /\ Cardinality(Coded(s, n)) <= Cardinality(Coded(s, Len(s)))
  BY <1>3, CodedGrows
<1> QED BY <1>2, <1>3, <1>4

\* What one character takes is bounded by its bytes, too.
LEMMA CharacterIsBounded ==
  ASSUME NEW s \in Seq(Bytes), NEW n \in Nat, n < Len(s),
         s[n + 1] \notin {"trail", "none"},
         n + 1 + Trailing(s[n + 1]) <= Len(s),
         \A i \in 1..Trailing(s[n + 1]) : s[n + 1 + i] = "trail",
         NEW size \in Taken(s[n + 1])
  PROVE  LET m == n + 1 + Trailing(s[n + 1])
         IN  n + 6 * Cardinality(Coded(s, n)) + size <= m + 6 * Cardinality(Coded(s, m))
<1> DEFINE b == s[n + 1]
           m == n + 1 + Trailing(b)
           C(k) == Cardinality(Coded(s, k))
<1> SUFFICES n + 6 * C(n) + size <= m + 6 * C(m)
  OBVIOUS
<1>1. b \in Bytes
  OBVIOUS
<1>2. Trailing(b) \in 0..3 /\ m \in Nat
  BY DEF Trailing
<1>3. C(n) \in Nat /\ C(n + 1) \in Nat /\ C(n) <= C(n + 1)
  BY CodedGrows
<1>4. CASE b = "alnum"
  <2>1. m = n + 1 /\ size = 1
    BY <1>4 DEF Trailing, Taken
  <2> QED BY <2>1, <1>3
<1>5. CASE b \in {"sign", "markup"}
  <2>1. m = n + 1 /\ size \in 1..6
    BY <1>5 DEF Trailing, Taken
  <2>2. C(n + 1) = C(n) + 1
    BY <1>5, CodedNext
  <2> QED BY SMTT(30), <2>1, <2>2, <1>3
<1>6. CASE b \in {"lead1", "lead2", "lead3"}
  <2>1. Trailing(b) >= 1 /\ size \in 1..10
    BY <1>6 DEF Trailing, Taken
  <2>2. C(n + 1) = C(n) + 1
    BY <1>6, CodedNext
  <2>3. s[n + 1 + 1] = "trail"
    BY <1>2, <2>1
  <2>4. C(n + 1 + 1) = C(n + 1) + 1
    BY <2>3, CodedNext
  <2>5. C(n + 1 + 1) <= C(m) /\ C(m) \in Nat /\ C(n + 1 + 1) \in Nat
    BY <1>2, <2>1, CodedGrows
  <2>6. C(m) >= C(n) + 2 /\ m >= n + 2
    <3> HIDE DEF C, b
    <3> QED BY SMTT(30), <2>1, <2>2, <2>4, <2>5, <1>2, <1>3
  <2>7. \A x, y, u, v \in Nat : u >= x + 2 /\ v >= y + 2 => y + 6 * x + size <= v + 6 * u
    BY <2>1
  <2> QED BY <2>5, <2>6, <2>7, <1>2, <1>3
<1> QED
  BY <1>1, <1>4, <1>5, <1>6 DEF Bytes

LEMMA HtmlInitInv == HtmlInit => HtmlInv
<1> SUFFICES ASSUME HtmlInit PROVE HtmlInv
  OBVIOUS
<1>1. text = <<>> /\ Len(text) = 0 /\ text \in Seq(Bytes)
  BY EmptySeq DEF HtmlInit
<1>2. Cardinality(Coded(text, 0)) \in Nat
  BY CodedGrows
<1> QED BY <1>1, <1>2 DEF HtmlInit, HtmlInv, Results

\* Every step of html_encode keeps to the bound; the one that encodes a character
\* never finds the buffer full.
LEMMA HtmlNextInv == HtmlInv /\ [HtmlNext]_htmlVars => HtmlInv'
<1> SUFFICES ASSUME HtmlInv, [HtmlNext]_htmlVars PROVE HtmlInv'
  OBVIOUS
<1> USE DEF HtmlInv
<1>1. ASSUME NEW s \in BoundedSeq(Bytes, MaxBytes), HtmlEncode(s) PROVE HtmlInv'
  <2>1. PICK k \in 0..MaxBytes : s \in [1..k -> Bytes]
    BY DEF BoundedSeq, SeqOf
  <2>2. s \in Seq(Bytes)
    BY <2>1, SeqDef
  <2>3. text' = s /\ processed' = 0 /\ outlen' = 0 /\ encoding' = "running"
    BY <1>1 DEF HtmlEncode
  <2>4. Cardinality(Coded(s, 0)) \in Nat
    BY CodedGrows
  <2>5. Len(s) \in Nat
    BY <2>2
  <2>6. (outlen <= processed + 6 * Cardinality(Coded(text, processed)))'
    BY <2>3, <2>4
  <2> QED BY <2>2, <2>3, <2>5, <2>6 DEF Results
<1>2. ASSUME EncodeEnd \/ EncodeCut \/ EncodeFails PROVE HtmlInv'
  <2>1. UNCHANGED <<text, processed, outlen>>
    BY <1>2 DEF EncodeEnd, EncodeCut, EncodeFails, Encoding, Return
  <2>2. encoding' \in Results
    BY <1>2 DEF EncodeEnd, EncodeCut, EncodeFails, Return, Results
  <2>3. encoding' = "true" => processed = Len(text) \/ Len(Follow) < Trailing(Lead)
    BY <1>2 DEF EncodeEnd, EncodeCut, EncodeFails, Return
  <2> QED BY <2>1, <2>2, <2>3 DEF Follow, Lead
<1>3. ASSUME NEW size \in 1..10, EncodeChar(size) PROVE HtmlInv'
  <2> DEFINE m == processed + 1 + Trailing(Lead)
             C(k) == Cardinality(Coded(text, k))
  <2>1. /\ UNCHANGED text /\ encoding = "running" /\ processed < Len(text)
        /\ Lead \notin {"trail", "none"} /\ Len(Follow) >= Trailing(Lead)
        /\ \A i \in 1..Trailing(Lead) : Follow[i] = "trail"
        /\ size \in Taken(Lead)
    BY <1>3 DEF EncodeChar, Encoding
  <2>2. processed \in Nat /\ Len(text) \in Nat /\ Trailing(Lead) \in 0..3
    BY DEF Trailing
  <2>3. /\ Len(Follow) = Len(text) - (processed + 1)
        /\ \A i \in 1..Len(Follow) : Follow[i] = text[processed + 1 + i]
    BY SMTT(30), <2>1, <2>2 DEF Follow
  <2>4. m <= Len(text) /\ m \in 0..Len(text)
    BY <2>1, <2>2, <2>3
  <2>5. \A i \in 1..Trailing(Lead) : text[processed + 1 + i] = "trail"
    BY <2>1, <2>2, <2>3
  <2>6. processed + 6 * C(processed) + size <= m + 6 * C(m)
    BY <2>1, <2>2, <2>4, <2>5, CharacterIsBounded DEF Lead
  <2>7. C(processed) \in Nat /\ C(m) \in Nat
    BY <2>2, <2>4, CodedGrows
  <2>8. Outsz(text) \in Nat /\ m + 6 * C(m) < Outsz(text)
    BY <2>4, BufferHasRoom
  <2>9. outlen <= processed + 6 * C(processed)
    OBVIOUS
  <2>10. outlen + size <= m + 6 * C(m)
    <3> HIDE DEF C, m
    <3> QED BY <2>2, <2>4, <2>6, <2>7, <2>9
  <2>11. ~(outlen + size > Outsz(text))
    <3> HIDE DEF C, m
    <3> QED BY <2>4, <2>7, <2>8, <2>10
  <2>12. processed' = m /\ outlen' = outlen + size /\ encoding' = encoding
    BY <1>3, <2>11 DEF EncodeChar
  <2>13. (outlen <= processed + 6 * Cardinality(Coded(text, processed)))'
    BY <2>1, <2>10, <2>12
  <2> HIDE DEF m, C
  <2> QED BY <2>1, <2>4, <2>12, <2>13 DEF Results
<1>4. ASSUME UNCHANGED htmlVars PROVE HtmlInv'
  BY <1>4 DEF htmlVars, Follow, Lead
<1> QED
  BY <1>1, <1>2, <1>3, <1>4 DEF HtmlNext

\* Whatever the text is and its characters become, the buffer is large enough, and
\* html_encode leaves out nothing but a character that is cut short
\* (utility.cpp:437-528).
THEOREM TheBufferIsEnough == HtmlSpec => []EncodedInFull
<1>1. HtmlInv => EncodedInFull
  <2> SUFFICES ASSUME HtmlInv PROVE EncodedInFull
    OBVIOUS
  <2>1. /\ Outsz(text) \in Nat
        /\ processed + 6 * Cardinality(Coded(text, processed)) < Outsz(text)
    BY BufferHasRoom DEF HtmlInv
  <2>2. Cardinality(Coded(text, processed)) \in Nat
    BY CodedGrows DEF HtmlInv
  <2>3. outlen <= Outsz(text)
    BY <2>1, <2>2 DEF HtmlInv
  <2> QED BY <2>3 DEF HtmlInv, EncodedInFull
<1>2. HtmlSpec => []HtmlInv
  BY HtmlInitInv, HtmlNextInv, PTL DEF HtmlSpec
<1> QED BY <1>1, <1>2, PTL
-----------------------------------------------------------------------------
(***************************************************************************)
(* The digest.  First, what division leaves, and the powers of a byte.     *)
(***************************************************************************)
LEMMA DivMod ==
  ASSUME NEW x \in Nat, NEW n \in Nat \ {0}
  PROVE  /\ x \div n \in Nat /\ x % n \in 0..(n - 1)
         /\ x = (x \div n) * n + (x % n)
  OBVIOUS

\* Quotient and rest are the only ones.
LEMMA DivModOnly ==
  ASSUME NEW x \in Nat, NEW n \in Nat \ {0}, NEW q \in Nat, NEW r \in 0..(n - 1), x = q * n + r
  PROVE  x \div n = q /\ x % n = r
<1> DEFINE p == x \div n
<1>1. /\ p \in Nat /\ x % n \in 0..(n - 1) /\ x = p * n + (x % n)
      /\ p * n \in Nat /\ q * n \in Nat
  <2>1. p \in Nat /\ x % n \in 0..(n - 1) /\ x = p * n + (x % n)
    BY DivMod
  <2> HIDE DEF p
  <2> QED BY <2>1
<1>2. q <= p
  <2>1. q * n <= x
    BY <1>1
  <2> QED BY <2>1, DivGreatest
<1> HIDE DEF p
<1>3. p <= q
  <2>1. SUFFICES ASSUME q + 1 <= p PROVE FALSE
    BY <1>1
  <2>2. (q + 1) * n <= p * n
    BY <1>1, <2>1
  <2>3. (q + 1) * n = q * n + n
    OBVIOUS
  <2> QED BY <1>1, <2>2, <2>3
<1>4. p = q
  BY <1>1, <1>2, <1>3
<1>5. x % n = r
  BY <1>1, <1>4
<1> QED BY <1>4, <1>5 DEF p

\* Multiples of n do not change the rest.
LEMMA ModOfSum ==
  ASSUME NEW x \in Nat, NEW m \in Nat, NEW n \in Nat \ {0}
  PROVE  (m * n + x) % n = x % n
<1> DEFINE q == x \div n
           r == x % n
<1>1. q \in Nat /\ r \in 0..(n - 1) /\ x = q * n + r
  BY DivMod
<1>2. m * n \in Nat /\ q * n \in Nat /\ m + q \in Nat /\ (m + q) * n = m * n + q * n
  BY <1>1
<1> HIDE DEF q, r
<1>3. m * n + x \in Nat /\ m * n + x = (m + q) * n + r
  BY <1>1, <1>2
<1>4. (m * n + x) % n = r
  BY <1>1, <1>2, <1>3, DivModOnly
<1> QED BY <1>4 DEF r

LEMMA ModOfMod ==
  ASSUME NEW x \in Nat, NEW y \in Nat, NEW n \in Nat \ {0}
  PROVE  ((x % n) + y) % n = (x + y) % n
<1> DEFINE q == x \div n
           r == x % n
<1>1. q \in Nat /\ r \in Nat /\ x = q * n + r /\ q * n \in Nat
  BY DivMod
<1> HIDE DEF q, r
<1>2. r + y \in Nat /\ x + y = q * n + (r + y)
  BY <1>1
<1>3. (q * n + (r + y)) % n = (r + y) % n
  BY <1>1, <1>2, ModOfSum
<1>4. (x + y) % n = (r + y) % n
  BY <1>2, <1>3
<1> QED BY <1>4 DEF r

\* To divide by a and by b is to divide by their product.
LEMMA DivOfDiv ==
  ASSUME NEW x \in Nat, NEW a \in Nat \ {0}, NEW b \in Nat \ {0}
  PROVE  x \div (b * a) = (x \div a) \div b
<1> DEFINE q == x \div a
           r == x % a
           p == q \div b
           s == q % b
           t == s * a + r
<1>1. q \in Nat /\ r \in 0..(a - 1) /\ x = q * a + r
  BY DivMod
<1> HIDE DEF q, r
<1>2. p \in Nat /\ s \in 0..(b - 1) /\ q = p * b + s
  BY <1>1, DivMod
<1> HIDE DEF p, s
<1>3. b * a \in Nat \ {0}
  OBVIOUS
<1>4. s * a \in Nat /\ s * a <= b * a - a
  <2>1. s + 1 \in Nat /\ s + 1 <= b
    BY <1>2
  <2>2. (s + 1) * a <= b * a
    BY <1>2, <2>1
  <2>3. (s + 1) * a = s * a + a /\ s * a \in Nat
    BY <1>2
  <2> QED BY <1>3, <2>2, <2>3
<1>5. t \in 0..(b * a - 1)
  BY <1>1, <1>3, <1>4
<1>6. x = p * (b * a) + t
  <2>1. q * a = (p * b) * a + s * a
    BY <1>2
  <2>2. (p * b) * a = p * (b * a)
    BY <1>2
  <2>3. p * (b * a) \in Nat
    BY <1>2, <1>3
  <2> QED BY <1>1, <1>4, <2>1, <2>2, <2>3
<1> HIDE DEF t
<1>7. x \div (b * a) = p
  BY <1>2, <1>3, <1>5, <1>6, DivModOnly
<1> QED BY <1>7 DEF p, q

\* What holds at 0, and with k at k + 1, holds up to n.
LEMMA UpTo ==
  ASSUME NEW n \in Nat, NEW T, 0 \in T, \A k \in 0..(n - 1) : k \in T => k + 1 \in T
  PROVE  0..n \subseteq T
<1> DEFINE R == OpToRel(<, Nat)
           F == (0..n) \ T
<1>1. SUFFICES ASSUME F # {} PROVE FALSE
  OBVIOUS
<1>2. IsWellFoundedOn(R, Nat)
  BY NatLessThanWellFounded
<1>3. F \subseteq Nat
  OBVIOUS
<1>4. PICK t \in F : \A y \in F : ~ (<<y, t>> \in R)
  BY <1>1, <1>2, <1>3, WFMin
<1>5. t \in 0..n /\ t \notin T /\ t # 0
  OBVIOUS
<1>6. t - 1 \in 0..(n - 1) /\ t - 1 \in 0..n /\ t - 1 < t /\ (t - 1) + 1 = t /\ t - 1 \in Nat /\ t \in Nat
  BY <1>5
<1>7. <<t - 1, t>> \in R
  BY <1>6 DEF OpToRel
<1>8. t - 1 \in T
  BY <1>4, <1>6, <1>7
<1> QED BY <1>5, <1>6, <1>8

\* The powers of a byte exist, since there is a table of the first ones of any length.
LEMMA PowerIs ==
  /\ Power \in [0..LengthSize -> Nat \ {0}]
  /\ Power[0] = 1
  /\ \A k \in 1..LengthSize : Power[k] = Byte * Power[k - 1]
<1> DEFINE size == LengthSize
           Then(f, k) == IF k = 0 THEN 1 ELSE Byte * f[k - 1]
           Fits(m) == {f \in [0..m -> Nat \ {0}] : \A k \in 0..m : f[k] = Then(f, k)}
           T == {m \in 0..size : Fits(m) # {}}
<1>1. size \in Nat
  BY DigestAssumption DEF LengthSize
<1>2. Power = CHOOSE f : f = [k \in 0..size |-> Then(f, k)]
  BY DEF Power
<1> HIDE DEF size
<1>3. 0 \in T
  <2> DEFINE f == [k \in 0..0 |-> 1]
  <2>1. f \in [0..0 -> Nat \ {0}] /\ \A k \in 0..0 : k = 0 /\ f[k] = 1
    OBVIOUS
  <2> HIDE DEF f
  <2>2. f \in Fits(0)
    BY <2>1
  <2> QED BY <1>1, <2>2
<1>4. ASSUME NEW m \in 0..(size - 1), m \in T PROVE m + 1 \in T
  <2>1. m + 1 \in 0..size /\ m \in Nat
    BY <1>1
  <2>2. PICK g \in Fits(m) : TRUE
    BY <1>4
  <2>3. g \in [0..m -> Nat \ {0}] /\ \A k \in 0..m : g[k] = Then(g, k)
    BY <2>2
  <2> DEFINE x == Byte * g[m]
             f == [k \in 0..(m + 1) |-> IF k = m + 1 THEN x ELSE g[k]]
  <2>4. g[m] \in Nat \ {0} /\ x \in Nat \ {0}
    BY <2>1, <2>3 DEF Byte
  <2>5. \A k \in 0..(m + 1) : k = m + 1 \/ k \in 0..m
    BY <2>1
  <2>6. f \in [0..(m + 1) -> Nat \ {0}]
    BY <2>3, <2>4, <2>5
  <2>7. /\ \A k \in 0..m : k \in 0..(m + 1) /\ k # m + 1 /\ f[k] = g[k]
        /\ f[m + 1] = x
    BY <2>1
  <2>8. ASSUME NEW k \in 0..(m + 1) PROVE f[k] = Then(f, k)
    <3> HIDE DEF f
    <3>1. CASE k = m + 1
      <4>1. m + 1 # 0 /\ (m + 1) - 1 = m /\ m \in 0..m
        BY <2>1
      <4> QED BY <2>7, <3>1, <4>1
    <3>2. CASE k \in 0..m
      <4>1. k # 0 => k - 1 \in 0..m
        BY <3>2
      <4> QED BY <2>3, <2>7, <3>2, <4>1
    <3> QED BY <2>5, <3>1, <3>2
  <2> HIDE DEF f, x
  <2>9. f \in Fits(m + 1)
    BY <2>6, <2>8
  <2> QED BY <2>1, <2>9
<1>5. 0..size \subseteq T
  <2> HIDE DEF T
  <2> QED BY <1>1, <1>3, <1>4, UpTo
<1>6. size \in 0..size
  BY <1>1
<1>7. PICK f \in Fits(size) : TRUE
  BY <1>5, <1>6
<1>8. f \in [0..size -> Nat \ {0}] /\ \A k \in 0..size : f[k] = Then(f, k)
  BY <1>7
<1>9. f = [k \in 0..size |-> Then(f, k)]
  BY <1>8
<1>10. Power = [k \in 0..size |-> Then(Power, k)]
  <2> HIDE DEF Then
  <2> QED BY <1>2, <1>9
<1>11. \A k \in 0..size : Power[k] = Then(Power, k)
  BY <1>10
<1> DEFINE U == {k \in 0..size : Power[k] \in Nat \ {0}}
<1>12. 0 \in U
  BY <1>1, <1>11
<1>13. ASSUME NEW k \in 0..(size - 1), k \in U PROVE k + 1 \in U
  <2>1. k + 1 \in 0..size /\ k + 1 # 0 /\ (k + 1) - 1 = k
    BY <1>1
  <2>2. Power[k + 1] = Byte * Power[k]
    BY <1>11, <2>1
  <2>3. Power[k] \in Nat \ {0}
    BY <1>13
  <2> QED BY <2>1, <2>2, <2>3 DEF Byte
<1>14. 0..size \subseteq U
  <2> HIDE DEF U
  <2> QED BY <1>1, <1>12, <1>13, UpTo
<1>15. \A k \in 1..size : k \in 0..size /\ k # 0
  BY <1>1
<1>16. 0 \in 0..size
  BY <1>1
<1>17. Power \in [0..size -> Nat \ {0}]
  <2>1. DOMAIN Power = 0..size /\ Power = [k \in 0..size |-> Power[k]]
    BY <1>10
  <2>2. \A k \in 0..size : Power[k] \in Nat \ {0}
    BY <1>14
  <2> QED BY <2>1, <2>2
<1> QED BY <1>11, <1>15, <1>16, <1>17 DEF size

\* A power times a power is the power of the sum.
LEMMA PowersAdd ==
  ASSUME NEW a \in 0..LengthSize, NEW b \in 0..LengthSize, a + b <= LengthSize
  PROVE  Power[a + b] = Power[b] * Power[a]
<1>1. LengthSize \in Nat
  BY DigestAssumption DEF LengthSize
<1> DEFINE T == {k \in 0..b : Power[a + k] = Power[k] * Power[a]}
<1>2. 0 \in T
  BY PowerIs
<1>3. ASSUME NEW k \in 0..(b - 1), k \in T PROVE k + 1 \in T
  <2>1. /\ k + 1 \in 0..b /\ k + 1 \in 1..LengthSize /\ a + (k + 1) \in 1..LengthSize
        /\ (k + 1) - 1 = k /\ (a + (k + 1)) - 1 = a + k /\ k \in 0..LengthSize
    BY <1>1
  <2>2. Power[a + (k + 1)] = Byte * Power[a + k] /\ Power[k + 1] = Byte * Power[k]
    BY <2>1, PowerIs
  <2>3. Power[a + k] = Power[k] * Power[a]
    BY <1>3
  <2>4. Power[k] \in Nat /\ Power[a] \in Nat
    BY <2>1, PowerIs
  <2>5. Byte * (Power[k] * Power[a]) = (Byte * Power[k]) * Power[a]
    BY <2>4 DEF Byte
  <2> QED BY <2>1, <2>2, <2>3, <2>5
<1>4. 0..b \subseteq T
  <2> HIDE DEF T
  <2> QED BY <1>2, <1>3, UpTo
<1> QED BY <1>4

LEMMA WordIs == Word \in Nat \ {0} /\ \E k \in Nat : Word = k * (8 * BlockSize) /\ k # 0
<1>1. WordBytes \in 0..LengthSize /\ BlockSize \in Nat \ {0} /\ 8 * BlockSize \in Nat \ {0}
  BY DigestAssumption DEF LengthSize
<1>2. Word \in Nat \ {0}
  BY <1>1, PowerIs DEF Word
<1> DEFINE k == Word \div (8 * BlockSize)
<1>3. k \in Nat /\ Word = k * (8 * BlockSize) + (Word % (8 * BlockSize))
  BY <1>1, <1>2, DivMod
<1>4. Word % (8 * BlockSize) = 0
  BY DigestAssumption
<1> HIDE DEF k
<1>5. Word = k * (8 * BlockSize)
  BY <1>1, <1>3, <1>4
<1>6. k # 0
  <2>1. k = 0 => k * (8 * BlockSize) = 0
    BY <1>1
  <2> QED BY <1>2, <1>5, <2>1
<1> QED BY <1>2, <1>3, <1>5, <1>6

-----------------------------------------------------------------------------
(***************************************************************************)
(* The count of bits, in two words, is that of the bytes taken.            *)
(***************************************************************************)
BitCount(n) == <<(8 * n) % Word, ((8 * n) \div Word) % Word>>

\* The carry is right: the low word comes out below what was added just when it
\* overflows.
LEMMA CountedIs ==
  ASSUME NEW t \in Nat, NEW n \in Nat
  PROVE  Counted(BitCount(t), n) = BitCount(t + n)
<1> DEFINE a == (8 * t) \div Word
           x == (8 * t) % Word
           b == (8 * n) \div Word
           y == (8 * n) % Word
           low == (x + y) % Word
           carry == IF low < y THEN 1 ELSE 0
<1>1. Word \in Nat \ {0}
  BY WordIs
<1>2. 8 * t \in Nat /\ 8 * n \in Nat
  OBVIOUS
<1>3. /\ a \in Nat /\ x \in 0..(Word - 1) /\ 8 * t = a * Word + x
      /\ b \in Nat /\ y \in 0..(Word - 1) /\ 8 * n = b * Word + y
  BY <1>1, <1>2, DivMod
<1>4. BitCount(t) = <<x, a % Word>>
  BY DEF BitCount
<1>5. Counted(BitCount(t), n) = <<low, ((a % Word) + carry + b) % Word>>
  BY <1>4 DEF Counted
<1> HIDE DEF a, b, x, y
<1>6. low \in 0..(Word - 1) /\ x + y = carry * Word + low
  <2>1. CASE x + y < Word
    <3>1. x + y = 0 * Word + (x + y) /\ x + y \in 0..(Word - 1) /\ x + y \in Nat
      BY <1>1, <1>3, <2>1
    <3>2. low = x + y
      BY <1>1, <3>1, DivModOnly
    <3>3. carry = 0
      BY <1>3, <3>2
    <3> QED BY <3>1, <3>2, <3>3
  <2>2. CASE x + y >= Word
    <3>1. x + y = 1 * Word + (x + y - Word) /\ x + y - Word \in 0..(Word - 1) /\ x + y \in Nat
      BY <1>1, <1>3, <2>2
    <3>2. low = x + y - Word
      BY <1>1, <3>1, DivModOnly
    <3>3. carry = 1
      BY <1>1, <1>3, <3>2
    <3> QED BY <3>1, <3>2, <3>3
  <2> QED BY <1>1, <1>3, <2>1, <2>2
<1>7. carry \in Nat
  OBVIOUS
<1> HIDE DEF low, carry
<1> DEFINE q == a + (carry + b)
<1>8. q \in Nat /\ 8 * (t + n) = q * Word + low /\ 8 * (t + n) \in Nat
  <2>1. q * Word = a * Word + (carry * Word + b * Word)
    BY <1>1, <1>3, <1>7
  <2>2. a * Word \in Nat /\ b * Word \in Nat /\ carry * Word \in Nat
    BY <1>1, <1>3, <1>7
  <2>3. 8 * (t + n) = 8 * t + 8 * n /\ 8 * (t + n) \in Nat
    OBVIOUS
  <2>4. q \in Nat
    BY <1>3, <1>7
  <2> DEFINE aw == a * Word
             bw == b * Word
             cw == carry * Word
             qw == q * Word
  <2>5. aw \in Nat /\ bw \in Nat /\ cw \in Nat /\ qw = aw + (cw + bw)
    BY <2>1, <2>2
  <2>6. 8 * t = aw + x /\ 8 * n = bw + y /\ x + y = cw + low
    BY <1>3, <1>6
  <2> HIDE DEF aw, bw, cw, qw
  <2>7. 8 * (t + n) = qw + low
    BY <1>1, <1>3, <1>6, <2>3, <2>5, <2>6
  <2> QED BY <2>3, <2>4, <2>7 DEF qw
<1> HIDE DEF q
<1>9. (8 * (t + n)) \div Word = q /\ (8 * (t + n)) % Word = low
  BY <1>1, <1>6, <1>8, DivModOnly
<1>10. ((a % Word) + carry + b) % Word = q % Word
  <2>1. carry + b \in Nat /\ a % Word \in Nat
    BY <1>1, <1>3, <1>7
  <2>2. ((a % Word) + (carry + b)) % Word = (a + (carry + b)) % Word
    BY <1>1, <1>3, <2>1, ModOfMod
  <2>3. (a % Word) + (carry + b) = (a % Word) + carry + b
    BY <1>3, <1>7, <2>1
  <2> QED BY <2>2, <2>3 DEF q
<1> QED BY <1>5, <1>9, <1>10 DEF BitCount

\* A word is a whole number of blocks, and so its overflow does not show.
LEMMA FilledIs ==
  ASSUME NEW t \in Nat
  PROVE  Filled(BitCount(t)) = t % BlockSize
<1>1. Word \in Nat \ {0} /\ BlockSize \in Nat \ {0}
  BY WordIs, DigestAssumption
<1>2. PICK k \in Nat : Word = k * (8 * BlockSize) /\ k # 0
  BY WordIs
<1> DEFINE a == (8 * t) \div Word
           x == (8 * t) % Word
           m == a * k
<1>3. a \in Nat /\ x \in 0..(Word - 1) /\ 8 * t = a * Word + x
  <2>1. 8 * t \in Nat
    OBVIOUS
  <2> QED BY <1>1, <2>1, DivMod
<1>4. Filled(BitCount(t)) = (x \div 8) % BlockSize
  BY DEF Filled, BitCount
<1> HIDE DEF a, x
<1>5. m \in Nat /\ m * BlockSize \in Nat /\ a * Word = 8 * (m * BlockSize)
  <2>1. m \in Nat
    BY <1>2, <1>3
  <2>2. a * (k * (8 * BlockSize)) = 8 * ((a * k) * BlockSize)
    BY <1>1, <1>2, <1>3
  <2>3. m * BlockSize \in Nat
    <3> HIDE DEF m
    <3> QED BY <1>1, <2>1
  <2> QED BY <1>2, <2>1, <2>2, <2>3
<1> HIDE DEF m
<1> DEFINE p == m * BlockSize
           z == t - p
<1>6. z \in Nat /\ x = 8 * z
  <2> HIDE DEF p
  <2>1. p \in Nat /\ 8 * t = 8 * p + x
    BY <1>3, <1>5 DEF p
  <2> QED BY <1>1, <1>3, <2>1
<1>7. x \div 8 = z
  BY <1>6
<1>8. t = m * BlockSize + z
  <2> HIDE DEF p
  <2> QED BY <1>5, <1>6 DEF p
<1>9. (m * BlockSize + z) % BlockSize = z % BlockSize
  <2> HIDE DEF z
  <2> QED BY <1>1, <1>5, <1>6, ModOfSum
<1> HIDE DEF z
<1> QED BY <1>4, <1>7, <1>8, <1>9

\* A byte of a word of z is one of z.
LEMMA ByteOfWord ==
  ASSUME NEW z \in Nat, NEW i \in 0..(WordBytes - 1)
  PROVE  ((z % Word) \div Power[i]) % Byte = (z \div Power[i]) % Byte
<1> DEFINE A == Power[i]
           C == Power[WordBytes - 1 - i]
           a == z \div Word
           x == z % Word
           y == x \div A
           r == x % A
           m == a * C
<1>1. WordBytes \in Nat \ {0} /\ LengthSize = 2 * WordBytes
  BY DigestAssumption DEF LengthSize
<1>2. /\ i \in 0..LengthSize /\ WordBytes - 1 - i \in 0..LengthSize
      /\ WordBytes - i \in 1..LengthSize /\ WordBytes - i \in 0..LengthSize
      /\ (WordBytes - i) - 1 = WordBytes - 1 - i
      /\ i + (WordBytes - i) = WordBytes /\ WordBytes <= LengthSize
  BY <1>1
<1>3. A \in Nat \ {0} /\ C \in Nat \ {0}
  BY <1>2, PowerIs
<1>4. Word = (Byte * C) * A
  <2>1. Power[WordBytes] = Power[WordBytes - i] * Power[i]
    BY <1>2, PowersAdd
  <2>2. Power[WordBytes - i] = Byte * C
    BY <1>2, PowerIs
  <2> QED BY <2>1, <2>2 DEF Word
<1>5. a \in Nat /\ x \in Nat /\ z = a * Word + x
  <2>1. a \in Nat /\ x \in 0..(Word - 1) /\ z = a * Word + x
    BY WordIs, DivMod
  <2> HIDE DEF a, x
  <2> QED BY <2>1
<1> HIDE DEF A, C, a, x
<1>6. y \in Nat /\ r \in 0..(A - 1) /\ x = y * A + r
  BY <1>3, <1>5, DivMod
<1> HIDE DEF y, r
<1>7. m \in Nat
  BY <1>3, <1>5
<1> HIDE DEF m
<1> DEFINE q == m * Byte + y
<1>8. q \in Nat /\ z = q * A + r
  <2>1. a * ((Byte * C) * A) = ((a * C) * Byte) * A
    BY <1>3, <1>5 DEF Byte
  <2>2. a * Word = (m * Byte) * A
    BY <1>4, <2>1 DEF m
  <2>3. q \in Nat /\ q * A = (m * Byte) * A + y * A
    BY <1>3, <1>6, <1>7 DEF Byte
  <2>4. (m * Byte) * A \in Nat /\ y * A \in Nat
    BY <1>3, <1>6, <1>7 DEF Byte
  <2> HIDE DEF q
  <2> QED BY <1>5, <1>6, <2>2, <2>3, <2>4
<1>9. z \div A = q
  <2> HIDE DEF q
  <2> QED BY <1>3, <1>6, <1>8, DivModOnly
<1>10. q % Byte = y % Byte
  BY <1>6, <1>7, ModOfSum DEF Byte
<1> QED BY <1>9, <1>10 DEF A, x, y

\* The bytes of the two words are those of the number of bits.
LEMMA EncodedIs ==
  ASSUME NEW n \in Nat
  PROVE  Encoded(BitCount(n)) = LengthBytes(n)
<1>1. WordBytes \in Nat \ {0} /\ LengthSize = 2 * WordBytes
  BY DigestAssumption DEF LengthSize
<1> DEFINE z == 8 * n
           c == BitCount(n)
           Digit(i) == LET w == IF i <= WordBytes THEN 1 ELSE 2
                       IN  (c[w] \div Power[(i - 1) % WordBytes]) % Byte
<1>2. z \in Nat /\ c[1] = z % Word /\ c[2] = (z \div Word) % Word
  BY DEF BitCount
<1> HIDE DEF z, c
<1>3. ASSUME NEW i \in 1..LengthSize
      PROVE  Digit(i) = (z \div Power[i - 1]) % Byte
  <2>1. CASE i <= WordBytes
    <3>1. i - 1 \in 0..(WordBytes - 1) /\ (i - 1) % WordBytes = i - 1
      <4>1. i - 1 = 0 * WordBytes + (i - 1) /\ i - 1 \in 0..(WordBytes - 1) /\ i - 1 \in Nat
        BY <1>1, <2>1
      <4> QED BY <1>1, <4>1, DivModOnly
    <3> QED BY <1>2, <2>1, <3>1, ByteOfWord
  <2>2. CASE ~(i <= WordBytes)
    <3> DEFINE j == i - 1 - WordBytes
    <3>1. j \in 0..(WordBytes - 1) /\ (i - 1) % WordBytes = j
      <4>1. i - 1 = 1 * WordBytes + j /\ j \in 0..(WordBytes - 1) /\ i - 1 \in Nat
        BY <1>1, <2>2
      <4> QED BY <1>1, <4>1, DivModOnly
    <3>2. /\ j \in 0..LengthSize /\ WordBytes \in 0..LengthSize /\ WordBytes + j = i - 1
          /\ WordBytes + j <= LengthSize
      BY <1>1, <3>1
    <3> HIDE DEF j
    <3>3. Power[i - 1] = Power[j] * Word
      BY <3>2, PowersAdd DEF Word
    <3>4. Power[j] \in Nat \ {0}
      BY <3>2, PowerIs
    <3>5. z \div (Power[j] * Word) = (z \div Word) \div Power[j]
      BY <1>2, <3>4, WordIs, DivOfDiv
    <3>6. z \div Word \in Nat
      BY <1>2, WordIs, DivMod
    <3>7. (((z \div Word) % Word) \div Power[j]) % Byte = ((z \div Word) \div Power[j]) % Byte
      BY <3>1, <3>6, ByteOfWord
    <3> QED BY <1>2, <2>2, <3>1, <3>3, <3>5, <3>7
  <2> QED BY <2>1, <2>2
<1> QED BY <1>3 DEF Encoded, LengthBytes, z, c

-----------------------------------------------------------------------------
(***************************************************************************)
(* The blocks.  A context that has taken s has transformed the whole       *)
(* blocks of s, and the rest of s begins its buffer.                       *)
(***************************************************************************)
Block == [1..BlockSize -> Nat]

Took(md, s) ==
  /\ md.count = BitCount(Len(s))
  /\ md.buffer \in Block
  /\ md.blocks = Whole(s, 0)
  /\ \A i \in 1..(Len(s) % BlockSize) : md.buffer[i] = s[(Len(s) \div BlockSize) * BlockSize + i]

LEMMA BlockSizeIs == BlockSize \in Nat \ {0}
BY DigestAssumption DEF LengthSize

\* A function on 1..n is a sequence of length n.
LEMMA FunctionIsSeq ==
  ASSUME NEW S, NEW n \in Nat, NEW f \in [1..n -> S]
  PROVE  f \in Seq(S) /\ Len(f) = n
<1>1. f \in Seq(S)
  BY SeqDef
<1>2. Len(f) \in Nat /\ 1..Len(f) = 1..n
  BY <1>1, LenProperties
<1> QED BY <1>1, <1>2

\* Block b of what follows a byte.
LEMMA WholeIs ==
  ASSUME NEW s \in Seq(Nat), NEW from \in 0..Len(s)
  PROVE  LET k == (Len(s) - from) \div BlockSize
         IN  /\ k \in Nat /\ Whole(s, from) \in Seq(Block) /\ Len(Whole(s, from)) = k
             /\ \A b \in 1..k : \A i \in 1..BlockSize :
                  /\ from + (b - 1) * BlockSize + i \in 1..Len(s)
                  /\ Whole(s, from)[b][i] = s[from + (b - 1) * BlockSize + i]
<1> DEFINE len == Len(s)
           k == (len - from) \div BlockSize
<1>1. len \in Nat /\ \A i \in 1..len : s[i] \in Nat
  BY LenProperties, ElementOfSeq
<1>2. k \in Nat /\ k * BlockSize <= len - from
  <2>1. len - from \in Nat
    BY <1>1
  <2> HIDE DEF len
  <2> QED BY <2>1, BlockSizeIs, DivBound
<1> HIDE DEF len, k
<1>3. ASSUME NEW b \in 1..k
      PROVE  /\ from + b * BlockSize <= len /\ from + (b - 1) * BlockSize \in Nat
             /\ from + (b - 1) * BlockSize + BlockSize = from + b * BlockSize
             /\ b * BlockSize \in Nat /\ (b - 1) * BlockSize \in Nat
  <2>1. b \in Nat /\ b - 1 \in Nat /\ b <= k
    BY <1>2
  <2>2. b * BlockSize <= k * BlockSize
    BY <1>2, <2>1, BlockSizeIs
  <2>3. /\ b * BlockSize = (b - 1) * BlockSize + BlockSize
        /\ b * BlockSize \in Nat /\ (b - 1) * BlockSize \in Nat /\ k * BlockSize \in Nat
    BY <1>2, <2>1, BlockSizeIs
  <2> DEFINE x == b * BlockSize
             y == (b - 1) * BlockSize
             z == k * BlockSize
  <2>4. x <= z /\ x = y + BlockSize /\ x \in Nat /\ y \in Nat /\ z \in Nat /\ z <= len - from
    BY <1>2, <2>2, <2>3
  <2> HIDE DEF x, y, z
  <2>5. /\ from + x <= len /\ from + y \in Nat /\ from + y + BlockSize = from + x
    BY <1>1, <2>4, BlockSizeIs DEF len
  <2> QED BY <2>3, <2>5 DEF x, y
<1> DEFINE Part(b) == SubSeq(s, from + (b - 1) * BlockSize + 1, from + b * BlockSize)
<1>4. ASSUME NEW b \in 1..k
      PROVE  /\ Part(b) \in Block
             /\ \A i \in 1..BlockSize : /\ from + (b - 1) * BlockSize + i \in 1..len
                                        /\ Part(b)[i] = s[from + (b - 1) * BlockSize + i]
  <2> DEFINE x == from + b * BlockSize
             y == from + (b - 1) * BlockSize
  <2>1. x \in Nat /\ y \in Nat /\ y + BlockSize = x /\ x <= len
    BY <1>3, BlockSizeIs
  <2> HIDE DEF x, y
  <2>2. /\ \A i \in (y + 1)..x : i \in 1..len /\ s[i] \in Nat
        /\ x - (y + 1) + 1 = BlockSize /\ y + 1 <= x
        /\ \A i \in 1..BlockSize : y + i \in 1..len /\ (y + 1) + i - 1 = y + i
    BY <1>1, <2>1, BlockSizeIs
  <2>3. /\ SubSeq(s, y + 1, x) \in Seq(Nat) /\ Len(SubSeq(s, y + 1, x)) = BlockSize
        /\ \A i \in 1..BlockSize : SubSeq(s, y + 1, x)[i] = s[(y + 1) + i - 1]
    <3>1. y + 1 \in Int /\ x \in Int
      BY <2>1
    <3> QED BY <2>2, <3>1, SubSeqProperties
  <2>4. SubSeq(s, y + 1, x) \in Block
    BY <2>3, LenProperties DEF Block
  <2>5. \A i \in 1..BlockSize : y + i \in 1..len /\ SubSeq(s, y + 1, x)[i] = s[y + i]
    BY <2>2, <2>3
  <2> QED BY <2>4, <2>5 DEF x, y
<1>5. Whole(s, from) = [b \in 1..k |-> Part(b)]
  BY DEF Whole, k, len
<1> HIDE DEF Part
<1>6. Whole(s, from) \in [1..k -> Block] /\ \A b \in 1..k : Whole(s, from)[b] = Part(b)
  BY <1>4, <1>5
<1>7. Whole(s, from) \in Seq(Block) /\ Len(Whole(s, from)) = k
  BY <1>2, <1>6, FunctionIsSeq
<1> QED BY <1>2, <1>4, <1>6, <1>7 DEF k, len

\* The blocks of a sequence are known by their bytes.
LEMMA SameBlocks ==
  ASSUME NEW s \in Seq(Nat), NEW x \in Seq(Block), Len(x) = Len(s) \div BlockSize,
         \A b \in 1..Len(x) : \A i \in 1..BlockSize : x[b][i] = s[(b - 1) * BlockSize + i]
  PROVE  x = Whole(s, 0)
<1> DEFINE w == Whole(s, 0)
<1>1. Len(s) \in Nat /\ 0 \in 0..Len(s) /\ Len(s) - 0 = Len(s)
  BY LenProperties
<1>2. /\ w \in Seq(Block) /\ Len(w) = Len(x)
      /\ \A b \in 1..Len(x) : \A i \in 1..BlockSize : w[b][i] = s[0 + (b - 1) * BlockSize + i]
  BY <1>1, WholeIs
<1>3. ASSUME NEW b \in 1..Len(x) PROVE x[b] = w[b]
  <2>1. x[b] \in Block /\ w[b] \in Block
    <3>1. b \in 1..Len(w)
      BY <1>2
    <3> QED BY <1>2, <3>1, ElementOfSeq
  <2>2. ASSUME NEW i \in 1..BlockSize PROVE x[b][i] = w[b][i]
    <3>1. (b - 1) * BlockSize \in Int
      <4>1. b - 1 \in Int
        BY <1>1
      <4> QED BY <4>1, BlockSizeIs
    <3>2. 0 + (b - 1) * BlockSize + i = (b - 1) * BlockSize + i
      BY <3>1
    <3> QED BY <1>2, <3>2
  <2> HIDE DEF w
  <2>3. /\ x[b] = [i \in 1..BlockSize |-> x[b][i]]
        /\ w[b] = [i \in 1..BlockSize |-> w[b][i]]
    BY <2>1 DEF Block
  <2> QED BY <2>2, <2>3
<1> HIDE DEF w
<1>4. x = w
  BY <1>2, <1>3, SeqEqual
<1> QED BY <1>4 DEF w

LEMMA CopiedIs ==
  ASSUME NEW buf \in Block, NEW at \in Nat, NEW input \in Seq(Nat)
  PROVE  Copied(buf, at, input) \in Block
<1>1. \A j \in 1..Len(input) : input[j] \in Nat
  BY ElementOfSeq
<1> QED BY <1>1 DEF Copied, Block

\* What follows the whole blocks of s.
LEMMA RestIs ==
  ASSUME NEW s \in Seq(Nat)
  PROVE  LET q == Len(s) \div BlockSize
             r == Len(s) % BlockSize
         IN  /\ Len(s) \in Nat /\ q \in Nat /\ q * BlockSize \in Nat
             /\ r \in 0..(BlockSize - 1) /\ Len(s) = q * BlockSize + r
<1> DEFINE q == Len(s) \div BlockSize
           r == Len(s) % BlockSize
<1>1. Len(s) \in Nat
  BY LenProperties
<1>2. q \in Nat /\ r \in 0..(BlockSize - 1) /\ Len(s) = q * BlockSize + r
  BY <1>1, BlockSizeIs, DivMod
<1>3. q * BlockSize \in Nat
  <2> HIDE DEF q
  <2> QED BY <1>2, BlockSizeIs
<1> QED BY <1>1, <1>2, <1>3

\* What was in the buffer and what was copied behind it are what follows the whole blocks.
LEMMA FirstIs ==
  ASSUME NEW md, NEW s \in Seq(Nat), Took(md, s), NEW input \in Seq(Nat)
  PROVE  LET q     == Len(s) \div BlockSize
             r     == Len(s) % BlockSize
             first == Copied(md.buffer, r, input)
         IN  /\ first \in Block
             /\ \A i \in 1..BlockSize : i <= r + Len(input) =>
                  first[i] = (s \o input)[q * BlockSize + i]
<1> DEFINE q     == Len(s) \div BlockSize
           r     == Len(s) % BlockSize
           first == Copied(md.buffer, r, input)
           qb    == q * BlockSize
<1>1. /\ Len(s) \in Nat /\ qb \in Nat /\ r \in 0..(BlockSize - 1) /\ Len(s) = qb + r
      /\ r \in Nat
  BY RestIs, BlockSizeIs
<1>2. first \in Block
  BY <1>1, CopiedIs DEF Took
<1>3. /\ Len(input) \in Nat
      /\ \A i \in 1..(Len(s) + Len(input)) :
           (s \o input)[i] = IF i <= Len(s) THEN s[i] ELSE input[i - Len(s)]
  BY LenProperties, ConcatProperties
<1>4. \A i \in 1..r : md.buffer[i] = s[qb + i]
  BY DEF Took
<1>5. \A i \in 1..BlockSize :
        first[i] = IF i - r \in 1..Len(input) THEN input[i - r] ELSE md.buffer[i]
  BY DEF Copied
<1> HIDE DEF first, q, r, qb
<1>6. ASSUME NEW i \in 1..BlockSize, i <= r + Len(input)
      PROVE  first[i] = (s \o input)[qb + i]
  <2>1. qb + i \in 1..(Len(s) + Len(input))
    BY <1>1, <1>3, <1>6, BlockSizeIs
  <2>2. CASE i <= r
    <3>1. ~(i - r \in 1..Len(input)) /\ i \in 1..r /\ qb + i <= Len(s)
      BY <1>1, <1>3, <2>2, BlockSizeIs
    <3> QED BY <1>3, <1>4, <1>5, <2>1, <3>1
  <2>3. CASE ~(i <= r)
    <3>1. i - r \in 1..Len(input) /\ ~(qb + i <= Len(s)) /\ (qb + i) - Len(s) = i - r
      BY <1>1, <1>3, <1>6, <2>3, BlockSizeIs
    <3> QED BY <1>3, <1>5, <2>1, <3>1
  <2> QED BY <2>2, <2>3
<1> QED BY <1>2, <1>6 DEF first, q, r, qb

\* A chunk that does not fill the buffer.
LEMMA ShortIsTaken ==
  ASSUME NEW md, NEW s \in Seq(Nat), Took(md, s), NEW input \in Seq(Nat),
         Len(input) < BlockSize - (Len(s) % BlockSize)
  PROVE  Took(Updated(md, input), s \o input)
<1> DEFINE q     == Len(s) \div BlockSize
           r     == Len(s) % BlockSize
           n     == Len(input)
           t     == s \o input
           first == Copied(md.buffer, r, input)
           u     == Updated(md, input)
<1>1. /\ Len(s) \in Nat /\ q \in Nat /\ q * BlockSize \in Nat
      /\ r \in 0..(BlockSize - 1) /\ Len(s) = q * BlockSize + r
  BY RestIs
<1>2. n \in Nat /\ t \in Seq(Nat) /\ Len(t) = Len(s) + n /\ n < BlockSize - r
  BY LenProperties, ConcatProperties
<1>3. Filled(md.count) = r
  BY <1>1, FilledIs DEF Took
<1>4. /\ u.count = Counted(md.count, n) /\ u.buffer = first /\ u.blocks = md.blocks
  <2>1. ~(n >= BlockSize - r)
    <3> HIDE DEF n, r
    <3> QED BY <1>1, <1>2, BlockSizeIs
  <2> QED BY <1>3, <2>1 DEF Updated
<1>5. u.count = BitCount(Len(t))
  BY <1>1, <1>2, <1>4, CountedIs DEF Took
<1>6. /\ first \in Block
      /\ \A i \in 1..BlockSize : i <= r + n => first[i] = t[q * BlockSize + i]
  BY FirstIs
<1> HIDE DEF q, r, n, u, first
<1>7. Len(t) \div BlockSize = q /\ Len(t) % BlockSize = r + n
  <2>1. Len(t) = q * BlockSize + (r + n) /\ r + n \in 0..(BlockSize - 1) /\ Len(t) \in Nat
    <3> HIDE DEF t
    <3> QED BY <1>1, <1>2, BlockSizeIs
  <2> DEFINE len == Len(t)
             e   == r + n
  <2>2. len = q * BlockSize + e /\ e \in 0..(BlockSize - 1) /\ len \in Nat
    BY <2>1
  <2> HIDE DEF t, len, e
  <2>3. len \div BlockSize = q /\ len % BlockSize = e
    BY <1>1, <2>2, BlockSizeIs, DivModOnly
  <2> QED BY <2>3 DEF len, e
<1>8. md.blocks = Whole(t, 0)
  <2> DEFINE w == Whole(s, 0)
  <2>1. 0 \in 0..Len(s) /\ Len(s) - 0 = Len(s)
    BY <1>1
  <2>2. /\ w \in Seq(Block) /\ Len(w) = q
        /\ \A b \in 1..q : \A i \in 1..BlockSize :
             /\ 0 + (b - 1) * BlockSize + i \in 1..Len(s)
             /\ w[b][i] = s[0 + (b - 1) * BlockSize + i]
    BY <2>1, WholeIs DEF q
  <2> HIDE DEF w
  <2>3. ASSUME NEW b \in 1..Len(w), NEW i \in 1..BlockSize
        PROVE  w[b][i] = t[(b - 1) * BlockSize + i]
    <3>1. b - 1 \in Int /\ b \in 1..q
      BY <1>1, <2>2
    <3>2. (b - 1) * BlockSize \in Int
      BY <3>1, BlockSizeIs
    <3> DEFINE j == (b - 1) * BlockSize + i
    <3>3. 0 + (b - 1) * BlockSize + i = j
      BY <3>2
    <3>4. j \in 1..Len(s) /\ w[b][i] = s[j]
      BY <2>2, <3>1, <3>3
    <3> HIDE DEF j
    <3>5. t[j] = s[j]
      <4>1. j \in 1..(Len(s) + Len(input)) /\ j <= Len(s)
        BY <1>1, <1>2, <3>4 DEF n
      <4> QED BY <4>1, ConcatProperties
    <3> QED BY <3>4, <3>5 DEF j
  <2> HIDE DEF t
  <2>4. w = Whole(t, 0)
    BY <1>2, <1>7, <2>2, <2>3, SameBlocks
  <2> QED BY <2>4 DEF w, Took
<1>9. \A i \in 1..(r + n) : u.buffer[i] = t[q * BlockSize + i]
  <2>1. \A i \in 1..(r + n) : i \in 1..BlockSize /\ i <= r + n
    BY <1>1, <1>2, BlockSizeIs
  <2> QED BY <1>4, <1>6, <2>1
<1>10. u.buffer \in Block /\ u.blocks = Whole(t, 0)
  BY <1>4, <1>6, <1>8
<1> HIDE DEF t
<1>11. Took(u, t)
  BY <1>5, <1>7, <1>9, <1>10 DEF Took
<1> QED BY <1>11 DEF t, u

\* A chunk that fills the buffer: the block in it comes next, then the whole blocks of
\* the input.
LEMMA LongIsTaken ==
  ASSUME NEW md, NEW s \in Seq(Nat), Took(md, s), NEW input \in Seq(Nat),
         Len(input) >= BlockSize - (Len(s) % BlockSize)
  PROVE  Took(Updated(md, input), s \o input)
<1> DEFINE q     == Len(s) \div BlockSize
           r     == Len(s) % BlockSize
           n     == Len(input)
           t     == s \o input
           space == BlockSize - r
           first == Copied(md.buffer, r, input)
           later == Whole(input, space)
           k     == (n - space) \div BlockSize
           e     == (n - space) % BlockSize
           rest  == SubSeq(input, space + BlockSize * Len(later) + 1, n)
           u     == Updated(md, input)
           m     == q + 1 + k
           qb    == q * BlockSize
           kb    == k * BlockSize
           mb    == m * BlockSize
<1>1. /\ Len(s) \in Nat /\ q \in Nat /\ qb \in Nat
      /\ r \in 0..(BlockSize - 1) /\ Len(s) = qb + r
  BY RestIs
<1>2. n \in Nat /\ t \in Seq(Nat) /\ Len(t) = Len(s) + n /\ n >= space
  BY LenProperties, ConcatProperties
<1>3. Filled(md.count) = r
  BY <1>1, FilledIs DEF Took
<1>4. /\ u.count = Counted(md.count, n) /\ u.buffer = Copied(first, 0, rest)
      /\ u.blocks = Append(md.blocks, first) \o later
  BY <1>2, <1>3 DEF Updated
<1>5. u.count = BitCount(Len(t))
  BY <1>1, <1>2, <1>4, CountedIs DEF Took
<1>6. /\ first \in Block
      /\ \A i \in 1..BlockSize : i <= r + n => first[i] = t[qb + i]
  BY FirstIs
<1>7. /\ \A i \in 1..Len(s) : t[i] = s[i]
      /\ \A i \in 1..n : t[Len(s) + i] = input[i] /\ input[i] \in Nat
  <2>1. /\ \A i \in 1..Len(s) : i \in 1..(Len(s) + n) /\ i <= Len(s)
        /\ \A i \in 1..n : /\ Len(s) + i \in 1..(Len(s) + n) /\ ~(Len(s) + i <= Len(s))
                           /\ (Len(s) + i) - Len(s) = i
    <3> HIDE DEF n
    <3> QED BY <1>1, <1>2
  <2> QED BY <2>1, ConcatProperties, ElementOfSeq
<1>8. space \in 1..BlockSize /\ space \in 0..n /\ Len(s) + space = qb + BlockSize
  <2> HIDE DEF n, r, qb
  <2> QED BY <1>1, <1>2, BlockSizeIs
<1>9. /\ later \in Seq(Block) /\ Len(later) = k
      /\ \A b \in 1..k : \A i \in 1..BlockSize :
           /\ space + (b - 1) * BlockSize + i \in 1..n
           /\ later[b][i] = input[space + (b - 1) * BlockSize + i]
  <2> HIDE DEF space
  <2> QED BY <1>8, WholeIs
<1> HIDE DEF q, r, n, u, first, t, space, later
<1>10. k \in Nat /\ e \in 0..(BlockSize - 1) /\ n - space = kb + e
  <2> DEFINE d == n - space
  <2>1. d \in Nat
    BY <1>2, <1>8
  <2> HIDE DEF d
  <2>2. /\ d \div BlockSize \in Nat /\ d % BlockSize \in 0..(BlockSize - 1)
        /\ d = (d \div BlockSize) * BlockSize + (d % BlockSize)
    BY <2>1, BlockSizeIs, DivMod
  <2> QED BY <2>2 DEF d
<1> HIDE DEF k, e
<1>11. m \in Nat /\ kb \in Nat /\ mb \in Nat /\ mb = qb + BlockSize + kb /\ BlockSize * k = kb
  BY <1>1, <1>10, BlockSizeIs
<1> HIDE DEF m, qb, kb, mb
<1>12. Len(t) \div BlockSize = m /\ Len(t) % BlockSize = e
  <2> DEFINE len == Len(t)
  <2>1. len = mb + e /\ len \in Nat
    BY <1>1, <1>2, <1>8, <1>10, <1>11, BlockSizeIs
  <2> HIDE DEF len
  <2>2. len = m * BlockSize + e
    BY <2>1 DEF mb
  <2>3. len \in Nat /\ m \in Nat /\ e \in 0..(BlockSize - 1)
    BY <1>10, <1>11, <2>1
  <2>4. len \div BlockSize = m /\ len % BlockSize = e
    BY <2>2, <2>3, BlockSizeIs, DivModOnly
  <2> QED BY <2>4 DEF len
<1>13. /\ rest \in Seq(Nat) /\ Len(rest) = e
       /\ \A i \in 1..e : rest[i] = t[mb + i]
  <2> DEFINE a == space + kb + 1
  <2>1. rest = SubSeq(input, a, n)
    BY <1>9, <1>11 DEF rest
  <2>2. /\ a \in Int /\ n \in Int /\ n - a + 1 = e
        /\ (a <= n => n - a + 1 = e) /\ (~(a <= n) => e = 0)
        /\ \A i \in a..n : i \in 1..n
    BY SMTT(30), <1>2, <1>8, <1>10, <1>11, BlockSizeIs
  <2>3. /\ SubSeq(input, a, n) \in Seq(Nat)
        /\ Len(SubSeq(input, a, n)) = IF a <= n THEN n - a + 1 ELSE 0
        /\ \A i \in 1..(n - a + 1) : SubSeq(input, a, n)[i] = input[a + i - 1]
    <3>1. \A i \in a..n : input[i] \in Nat
      BY <1>7, <2>2
    <3> HIDE DEF a
    <3> QED BY <2>2, <3>1, SubSeqProperties
  <2>4. ASSUME NEW i \in 1..e PROVE input[a + i - 1] = t[mb + i]
    <3>1. a + i - 1 \in 1..n /\ Len(s) + (a + i - 1) = mb + i
      BY <1>1, <1>2, <1>8, <1>10, <1>11, BlockSizeIs
    <3> HIDE DEF a
    <3> QED BY <1>7, <3>1
  <2> HIDE DEF a, rest
  <2> QED BY <2>1, <2>2, <2>3, <2>4
<1> HIDE DEF rest
<1>14. u.buffer \in Block
  BY <1>4, <1>6, <1>13, CopiedIs
<1>15. \A i \in 1..e : u.buffer[i] = t[mb + i]
  <2>1. \A i \in 1..e : i \in 1..BlockSize /\ i - 0 \in 1..e /\ i - 0 = i
    BY <1>10, BlockSizeIs
  <2> QED BY <1>4, <1>13, <2>1 DEF Copied
<1> DEFINE w == Whole(s, 0)
           x == Append(w, first)
           y == x \o later
<1>16. /\ w \in Seq(Block) /\ Len(w) = q
       /\ \A b \in 1..q : \A i \in 1..BlockSize :
            /\ 0 + (b - 1) * BlockSize + i \in 1..Len(s)
            /\ w[b][i] = s[0 + (b - 1) * BlockSize + i]
  <2>1. 0 \in 0..Len(s) /\ Len(s) - 0 = Len(s)
    BY <1>1
  <2> QED BY <2>1, WholeIs DEF q
<1>17. u.blocks = y
  BY <1>4 DEF Took
<1> HIDE DEF w
<1>18. /\ x \in Seq(Block) /\ Len(x) = q + 1 /\ x[q + 1] = first
       /\ \A b \in 1..q : x[b] = w[b]
  BY <1>6, <1>16, AppendProperties
<1> HIDE DEF x
<1>19. /\ y \in Seq(Block) /\ Len(y) = m
       /\ \A b \in 1..(q + 1) : y[b] = x[b]
       /\ \A b \in 1..k : y[q + 1 + b] = later[b]
  <2>1. /\ y \in Seq(Block) /\ Len(y) = Len(x) + Len(later)
        /\ \A b \in 1..(Len(x) + Len(later)) :
             y[b] = IF b <= Len(x) THEN x[b] ELSE later[b - Len(x)]
    <3>1. x \in Seq(Block) /\ later \in Seq(Block)
      BY <1>9, <1>18
    <3> QED BY <3>1, ConcatProperties
  <2>2. /\ y \in Seq(Block) /\ Len(y) = (q + 1) + k
        /\ \A b \in 1..((q + 1) + k) : y[b] = IF b <= q + 1 THEN x[b] ELSE later[b - (q + 1)]
    <3> HIDE DEF y
    <3> QED BY <1>9, <1>18, <2>1
  <2>3. /\ \A b \in 1..(q + 1) : b \in 1..((q + 1) + k) /\ b <= q + 1
        /\ \A b \in 1..k : /\ q + 1 + b \in 1..((q + 1) + k) /\ ~(q + 1 + b <= q + 1)
                           /\ (q + 1 + b) - (q + 1) = b
        /\ (q + 1) + k = m
    BY <1>1, <1>10 DEF m
  <2> HIDE DEF y
  <2> QED BY <2>2, <2>3
<1> HIDE DEF y
<1>20. ASSUME NEW b \in 1..m, NEW i \in 1..BlockSize
       PROVE  y[b][i] = t[(b - 1) * BlockSize + i]
  <2>1. CASE b \in 1..q
    <3> DEFINE j == (b - 1) * BlockSize
    <3>1. j \in Int
      <4>1. b - 1 \in Int
        OBVIOUS
      <4> QED BY <4>1, BlockSizeIs
    <3>2. 0 + j + i \in 1..Len(s) /\ w[b][i] = s[0 + j + i]
      BY <1>16, <2>1
    <3> HIDE DEF j
    <3>3. t[j + i] = s[j + i] /\ w[b][i] = s[j + i]
      <4>1. 0 + j + i = j + i
        BY <3>1
      <4> QED BY <1>7, <3>2, <4>1
    <3>4. y[b] = w[b]
      <4>1. b \in 1..(q + 1)
        BY <1>1, <2>1
      <4> QED BY <1>18, <1>19, <2>1, <4>1
    <3> QED BY <3>3, <3>4 DEF j
  <2>2. CASE b = q + 1
    <3>1. (b - 1) * BlockSize = qb
      <4>1. b - 1 = q
        BY <1>1, <2>2
      <4> QED BY <4>1 DEF qb
    <3>2. b \in 1..(q + 1) /\ i <= r + n
      BY <1>1, <1>2, <1>8, <2>2, BlockSizeIs DEF space
    <3>3. y[b] = first /\ first[i] = t[qb + i]
      BY <1>6, <1>18, <1>19, <2>2, <3>2
    <3> QED BY <3>1, <3>3
  <2>3. CASE b \in (q + 2)..m
    <3> DEFINE c == b - (q + 1)
               j == (c - 1) * BlockSize
    <3>1. c \in 1..k /\ q + 1 + c = b /\ b - 1 = q + 1 + (c - 1) /\ c - 1 \in Int
      BY <1>1, <1>10, <1>11, <2>3 DEF m
    <3> HIDE DEF c
    <3>2. j \in Int /\ (b - 1) * BlockSize = qb + BlockSize + j
      <4>1. (q + 1 + (c - 1)) * BlockSize = q * BlockSize + BlockSize + (c - 1) * BlockSize
        BY <1>1, <3>1, BlockSizeIs
      <4>2. (c - 1) * BlockSize \in Int
        BY <3>1, BlockSizeIs
      <4> QED BY <3>1, <4>1, <4>2 DEF qb
    <3>3. space + j + i \in 1..n /\ later[c][i] = input[space + j + i]
      BY <1>9, <3>1
    <3> HIDE DEF j
    <3>4. Len(s) + (space + j + i) = (qb + BlockSize + j) + i
      BY <1>1, <1>8, <3>2, BlockSizeIs
    <3>5. t[Len(s) + (space + j + i)] = input[space + j + i]
      BY <1>7, <3>3
    <3>6. y[b] = later[c]
      BY <1>19, <3>1
    <3> QED BY <3>2, <3>3, <3>4, <3>5, <3>6
  <2>4. b \in 1..q \/ b = q + 1 \/ b \in (q + 2)..m
    BY <1>1, <1>11
  <2> QED BY <2>1, <2>2, <2>3, <2>4
<1>21. y = Whole(t, 0)
  BY <1>2, <1>12, <1>19, <1>20, SameBlocks
<1>22. Took(u, t)
  <2>1. \A i \in 1..(Len(t) % BlockSize) :
          u.buffer[i] = t[(Len(t) \div BlockSize) * BlockSize + i]
    BY <1>12, <1>15 DEF mb
  <2> QED BY <1>5, <1>14, <1>17, <1>21, <2>1 DEF Took
<1> QED BY <1>22 DEF u, t

LEMMA UpdatedIsTaken ==
  ASSUME NEW md, NEW s \in Seq(Nat), Took(md, s), NEW input \in Seq(Nat)
  PROVE  /\ Took(Updated(md, input), s \o input) /\ s \o input \in Seq(Nat)
         /\ \E c, b, x : Updated(md, input) = [count |-> c, buffer |-> b, blocks |-> x]
<1>1. Len(input) \in Nat /\ Len(s) % BlockSize \in Int
  <2>1. Len(s) % BlockSize \in 0..(BlockSize - 1)
    BY RestIs
  <2> QED BY <2>1, LenProperties, BlockSizeIs
<1>2. s \o input \in Seq(Nat)
  BY ConcatProperties
<1>3. \E c, b, x : Updated(md, input) = [count |-> c, buffer |-> b, blocks |-> x]
  BY DEF Updated
<1>4. CASE Len(input) < BlockSize - (Len(s) % BlockSize)
  BY <1>2, <1>3, <1>4, ShortIsTaken
<1>5. CASE Len(input) >= BlockSize - (Len(s) % BlockSize)
  BY <1>2, <1>3, <1>5, LongIsTaken
<1> QED BY <1>1, <1>4, <1>5, BlockSizeIs

\* What Took says of the types.
LEMMA TookTypes ==
  ASSUME NEW md, NEW s \in Seq(Nat), Took(md, s)
  PROVE  /\ md.count \in [1..2 -> 0..(Word - 1)]
         /\ md.buffer \in Block /\ md.blocks \in Seq(Block)
<1>1. Len(s) \in Nat
  BY RestIs
<1>2. md.count \in [1..2 -> 0..(Word - 1)]
  <2> DEFINE z == 8 * Len(s)
             a == z % Word
             b == (z \div Word) % Word
  <2>1. z \in Nat
    BY <1>1
  <2>2. md.count = <<a, b>>
    BY DEF Took, BitCount
  <2> HIDE DEF z
  <2>3. a \in 0..(Word - 1) /\ z \div Word \in Nat
    BY <2>1, WordIs, DivMod
  <2>4. b \in 0..(Word - 1)
    BY <2>3, WordIs, DivMod
  <2> HIDE DEF a, b
  <2> QED BY <2>2, <2>3, <2>4
<1>3. 0 \in 0..Len(s)
  BY <1>1
<1>4. md.blocks \in Seq(Block)
  BY <1>3, WholeIs DEF Took
<1> QED BY <1>2, <1>4 DEF Took

-----------------------------------------------------------------------------
(***************************************************************************)
(* The padding.                                                            *)
(***************************************************************************)
Zeros(n) == CHOOSE z \in 0..(BlockSize - 1) : (n + 1 + z + LengthSize) % BlockSize = 0

\* One length of padding below a block's fits, and the code's is that.
LEMMA PadLengthIs ==
  ASSUME NEW n \in Nat
  PROVE  Zeros(n) \in Nat /\ PadLength(n % BlockSize) = Zeros(n) + 1
<1> DEFINE r == n % BlockSize
           q == n \div BlockSize
           z == PadLength(r) - 1
           Fits(x) == (n + 1 + x + LengthSize) % BlockSize = 0
<1>1. /\ BlockSize \in Nat \ {0} /\ LengthSize \in Nat /\ LengthSize < BlockSize
  BY DigestAssumption DEF LengthSize
<1>2. q \in Nat /\ r \in 0..(BlockSize - 1) /\ n = q * BlockSize + r
  BY <1>1, DivMod
<1> DEFINE p == q * BlockSize
<1>3. p \in Nat
  <2> HIDE DEF q
  <2> QED BY <1>1, <1>2
<1> HIDE DEF r
<1>4. /\ z \in 0..(BlockSize - 1)
      /\ \/ n + 1 + z + LengthSize = p + BlockSize
         \/ n + 1 + z + LengthSize = p + BlockSize + BlockSize
  <2> HIDE DEF p
  <2>1. n = p + r
    BY <1>2 DEF p
  <2> QED BY <1>1, <1>2, <1>3, <2>1 DEF PadLength
<1> HIDE DEF q, z
<1>5. /\ (q + 1) * BlockSize = p + BlockSize /\ (q + 2) * BlockSize = p + BlockSize + BlockSize
      /\ q + 1 \in Nat /\ q + 2 \in Nat
  BY <1>1, <1>2
<1>6. Fits(z)
  <2> DEFINE y == n + 1 + z + LengthSize
  <2>1. y \in Nat
    BY <1>1, <1>4
  <2>2. PICK m \in Nat : y = m * BlockSize
    <3> HIDE DEF p
    <3> QED BY <1>4, <1>5
  <2> HIDE DEF y
  <2>3. y = m * BlockSize + 0 /\ 0 \in 0..(BlockSize - 1)
    BY <1>1, <2>1, <2>2
  <2>4. y % BlockSize = 0
    BY <1>1, <2>1, <2>3, DivModOnly
  <2> QED BY <2>4 DEF y
<1>7. ASSUME NEW x \in 0..(BlockSize - 1), NEW y \in 0..(BlockSize - 1), Fits(x), Fits(y), x < y
      PROVE  FALSE
  <2> DEFINE a == n + 1 + x + LengthSize
             d == y - x
             c == a \div BlockSize
  <2>1. a \in Nat /\ d \in Nat /\ d \in 0..(BlockSize - 1) /\ d # 0 /\ n + 1 + y + LengthSize = a + d
    BY <1>1, <1>7
  <2>2. a % BlockSize = 0 /\ (a + d) % BlockSize = 0
    BY <1>7, <2>1
  <2> HIDE DEF a, d
  <2>3. c \in Nat /\ a = c * BlockSize + 0
    BY <1>1, <2>1, <2>2, DivMod
  <2>4. a + d = c * BlockSize + d /\ a + d \in Nat
    <3> DEFINE cb == c * BlockSize
    <3>1. a = cb + 0 /\ cb \in Int
      <4> HIDE DEF c
      <4> QED BY <1>1, <2>3
    <3> HIDE DEF cb
    <3>2. a + d = cb + d /\ a + d \in Nat
      BY <2>1, <3>1
    <3> QED BY <3>2 DEF cb
  <2> HIDE DEF c
  <2>5. (a + d) % BlockSize = d
    <3> DEFINE f == a + d
    <3>1. f \in Nat /\ f = c * BlockSize + d
      BY <2>4
    <3> HIDE DEF f
    <3>2. f % BlockSize = d
      BY <1>1, <2>1, <2>3, <3>1, DivModOnly
    <3> QED BY <3>2 DEF f
  <2> QED BY <2>1, <2>2, <2>5
<1>8. Zeros(n) \in 0..(BlockSize - 1) /\ Fits(Zeros(n))
  BY <1>4, <1>6 DEF Zeros
<1>9. Zeros(n) = z
  <2> DEFINE v == Zeros(n)
  <2>1. v \in 0..(BlockSize - 1) /\ Fits(v)
    BY <1>8
  <2> HIDE DEF v, Fits
  <2>2. v < z \/ z < v \/ v = z
    BY <1>4, <2>1
  <2>3. v = z
    BY <1>4, <1>6, <1>7, <2>1, <2>2
  <2> QED BY <2>3 DEF v
<1>10. PadLength(r) \in Int
  BY <1>1, <1>2 DEF PadLength
<1> QED BY <1>4, <1>9, <1>10 DEF z, r

LEMMA PaddingIs ==
  ASSUME NEW z \in Nat
  PROVE  /\ [i \in 1..z |-> 0] \in Seq(Nat)
         /\ Padding(z + 1) \in Seq(Nat)
         /\ Padding(z + 1) = <<128>> \o [i \in 1..z |-> 0]
<1> DEFINE f == [i \in 1..z |-> 0]
           p == Padding(z + 1)
<1>1. f \in [1..z -> Nat] /\ p \in [1..(z + 1) -> Nat] /\ z + 1 \in Nat
  BY DEF Padding
<1>2. \A i \in 1..(z + 1) : p[i] = IF i = 1 THEN 128 ELSE 0
  BY DEF Padding
<1>3. \A i \in 1..z : f[i] = 0
  OBVIOUS
<1> HIDE DEF f, p
<1>4. f \in Seq(Nat) /\ Len(f) = z /\ p \in Seq(Nat) /\ Len(p) = z + 1
  BY <1>1, FunctionIsSeq
<1>5. <<128>> \in Seq(Nat) /\ Len(<<128>>) = 1 /\ <<128>>[1] = 128
  OBVIOUS
<1>6. /\ <<128>> \o f \in Seq(Nat) /\ Len(<<128>> \o f) = 1 + z
      /\ \A i \in 1..(1 + z) : (<<128>> \o f)[i] = IF i <= 1 THEN <<128>>[i] ELSE f[i - 1]
  BY <1>4, <1>5, ConcatProperties
<1>7. ASSUME NEW i \in 1..(z + 1) PROVE p[i] = (<<128>> \o f)[i]
  <2>1. i \in 1..(1 + z) /\ (i <= 1 => i = 1) /\ (~(i <= 1) => i # 1 /\ i - 1 \in 1..z)
    OBVIOUS
  <2> QED BY <1>2, <1>3, <1>5, <1>6, <2>1
<1>8. p = <<128>> \o f
  <2> DEFINE g == <<128>> \o f
  <2>1. g \in Seq(Nat) /\ Len(g) = Len(p) /\ \A i \in 1..Len(p) : p[i] = g[i]
    BY <1>4, <1>6, <1>7
  <2> HIDE DEF g
  <2>2. p = g
    BY <1>4, <2>1, SeqEqual
  <2> QED BY <2>2 DEF g
<1> QED BY <1>4, <1>8 DEF f, p

\* What is passed in the end completes what MD5 defines.
LEMMA PaddedIs ==
  ASSUME NEW n \in 0..Len(Message)
  PROVE  LET s == SubSeq(Message, 1, n)
             p == Padding(PadLength(n % BlockSize))
         IN  /\ s \in Seq(Nat) /\ Len(s) = n /\ p \in Seq(Nat) /\ LengthBytes(n) \in Seq(Nat)
             /\ Padded(n) = (s \o p) \o LengthBytes(n)
<1> DEFINE s == SubSeq(Message, 1, n)
           z == Zeros(n)
           f == [i \in 1..z |-> 0]
           p == Padding(z + 1)
           l == LengthBytes(n)
<1>1. Message \in Seq(Nat) /\ Len(Message) \in Nat /\ n \in Nat
  BY DigestAssumption, LenProperties
<1>2. s \in Seq(Nat) /\ Len(s) = n
  <2>1. \A i \in 1..n : Message[i] \in Nat
    BY <1>1, ElementOfSeq
  <2>2. s \in Seq(Nat) /\ Len(s) = IF 1 <= n THEN n - 1 + 1 ELSE 0
    BY <1>1, <2>1, SubSeqProperties
  <2> QED BY <1>1, <2>2
<1>3. z \in Nat /\ PadLength(n % BlockSize) = z + 1
  BY <1>1, PadLengthIs
<1>4. l \in Seq(Nat)
  <2>1. LengthSize \in Nat
    BY DigestAssumption DEF LengthSize
  <2>2. ASSUME NEW i \in 1..LengthSize PROVE ((8 * n) \div Power[i - 1]) % Byte \in Nat
    <3>1. Power[i - 1] \in Nat \ {0} /\ 8 * n \in Nat
      <4>1. i - 1 \in 0..LengthSize
        BY <2>1
      <4> QED BY <1>1, <4>1, PowerIs
    <3>2. (8 * n) \div Power[i - 1] \in Nat
      BY <3>1, DivMod
    <3> QED BY <3>2 DEF Byte
  <2>3. l \in [1..LengthSize -> Nat]
    BY <2>2 DEF LengthBytes
  <2> HIDE DEF l
  <2> QED BY <2>1, <2>3, FunctionIsSeq
<1>5. Padded(n) = ((s \o <<128>>) \o f) \o l
  BY DEF Padded, Zeros
<1> HIDE DEF s, z, l
<1>6. /\ f \in Seq(Nat) /\ p \in Seq(Nat) /\ p = <<128>> \o f
  BY <1>3, PaddingIs
<1> HIDE DEF f
<1>7. <<128>> \in Seq(Nat)
  OBVIOUS
<1>8. (s \o <<128>>) \o f = s \o (<<128>> \o f)
  <2> DEFINE one == <<128>>
  <2>1. one \in Seq(Nat) /\ f \in Seq(Nat)
    BY <1>6, <1>7
  <2> HIDE DEF one
  <2>2. (s \o one) \o f = s \o (one \o f)
    BY SMTT(30), <1>2, <2>1, ConcatAssociative
  <2> QED BY <2>2 DEF one
<1> HIDE DEF p
<1>9. Padded(n) = (s \o p) \o l
  BY <1>5, <1>6, <1>8
<1> QED BY <1>2, <1>3, <1>4, <1>6, <1>9 DEF s, p, l

-----------------------------------------------------------------------------
(***************************************************************************)
(* The digest's invariant: what was passed is what was taken.              *)
(***************************************************************************)
DigestInv ==
  /\ DigestsThePadded
  /\ ~finalized => Took(context, SubSeq(Message, 1, taken))

LEMMA InitDigestInv == DigestInit => DigestInv
<1> SUFFICES ASSUME DigestInit PROVE DigestInv
  OBVIOUS
<1> DEFINE s == SubSeq(Message, 1, taken)
<1>1. Message \in Seq(Nat) /\ Len(Message) \in Nat
  BY DigestAssumption, LenProperties
<1>2. taken = 0 /\ taken \in 0..Len(Message) /\ finalized = FALSE
  BY <1>1 DEF DigestInit
<1>3. s \in Seq(Nat) /\ Len(s) = 0
  BY <1>2, PaddedIs
<1> HIDE DEF s
<1>4. 0 = 0 * BlockSize + 0 /\ 0 \in 0..(BlockSize - 1) /\ 0 = 0 * Word + 0 /\ 0 \in 0..(Word - 1)
  BY BlockSizeIs, WordIs
<1>5. 0 \div BlockSize = 0 /\ 0 % BlockSize = 0 /\ 0 \div Word = 0 /\ 0 % Word = 0
  BY <1>4, BlockSizeIs, WordIs, DivModOnly
<1>6. count = BitCount(Len(s))
  <2>1. 8 * 0 = 0
    OBVIOUS
  <2> QED BY <1>3, <1>5, <2>1 DEF BitCount, DigestInit
<1>7. buffer \in Block
  BY DEF DigestInit, Block
<1>8. blocks = Whole(s, 0)
  <2>1. /\ blocks \in Seq(Block) /\ Len(blocks) = 0 /\ \A b \in 1..Len(blocks) : FALSE
    BY EmptySeq DEF DigestInit
  <2> QED BY <1>3, <1>5, <2>1, SameBlocks
<1>9. Took(context, s)
  <2>1. \A i \in 1..(Len(s) % BlockSize) : FALSE
    BY <1>3, <1>5
  <2> QED BY <1>6, <1>7, <1>8, <2>1 DEF Took, context
<1>10. DigestTypeOK
  <2>1. /\ context.count \in [1..2 -> 0..(Word - 1)] /\ context.buffer \in Block
        /\ context.blocks \in Seq(Block)
    BY <1>3, <1>9, TookTypes
  <2> QED BY <1>2, <2>1 DEF DigestTypeOK, context, Block
<1> QED BY <1>2, <1>9, <1>10 DEF DigestInv, DigestsThePadded, s

LEMMA PassKeeps ==
  ASSUME DigestInv, NEW n \in 0..Len(Message), Pass(n) PROVE DigestInv'
<1> DEFINE s == SubSeq(Message, 1, taken)
           t == SubSeq(Message, 1, taken')
           input == SubSeq(Message, taken + 1, taken + n)
           u == Updated(context, input)
<1>1. Message \in Seq(Nat) /\ Len(Message) \in Nat
  BY DigestAssumption, LenProperties
<1>2. /\ taken \in 0..Len(Message) /\ taken' = taken + n /\ taken' \in 0..Len(Message)
      /\ finalized = FALSE /\ finalized' = FALSE /\ Took(context, s)
      /\ count' = u.count /\ buffer' = u.buffer /\ blocks' = u.blocks
  BY <1>1 DEF Pass, Becomes, DigestInv, DigestsThePadded, DigestTypeOK
<1>3. s \in Seq(Nat) /\ t \in Seq(Nat)
  BY <1>2, PaddedIs
<1>4. input \in Seq(Nat)
  <2>1. \A i \in (taken + 1)..(taken + n) : Message[i] \in Nat
    BY <1>1, <1>2, ElementOfSeq
  <2> QED BY <1>1, <1>2, <2>1, SubSeqProperties
<1>5. s \o input = t
  <2>1. 1 \in 1..(Len(Message) + 1) /\ taken \in (1 - 1)..Len(Message) /\ taken + n \in taken..Len(Message)
    BY <1>1, <1>2
  <2> QED BY <1>1, <1>2, <2>1, ConcatAdjacentSubSeq
<1> HIDE DEF s, t, input
<1>6. Took(u, t)
  BY <1>2, <1>3, <1>4, <1>5, UpdatedIsTaken
<1> HIDE DEF u
<1>7. Took(context', t)
  BY <1>2, <1>6 DEF Took, context
<1>8. DigestTypeOK'
  <2>1. u.count \in [1..2 -> 0..(Word - 1)] /\ u.buffer \in Block /\ u.blocks \in Seq(Block)
    BY <1>3, <1>6, TookTypes
  <2> QED BY <1>2, <2>1 DEF DigestTypeOK, Block
<1>9. Took(context, SubSeq(Message, 1, taken))'
  BY <1>7 DEF Took, t, context
<1> QED BY <1>2, <1>8, <1>9 DEF DigestInv, DigestsThePadded

LEMMA FinalizeKeeps ==
  ASSUME DigestInv, Finalize PROVE DigestInv'
<1> DEFINE s == SubSeq(Message, 1, taken)
           p == Padding(PadLength(taken % BlockSize))
           bits == LengthBytes(taken)
           padded == Updated(context, p)
           ended == Updated(padded, bits)
           last == [ended EXCEPT !.buffer[1] = 0]
<1>1. taken \in 0..Len(Message) /\ ~finalized /\ Took(context, s)
  BY DEF Finalize, DigestInv, DigestsThePadded, DigestTypeOK
<1>2. taken \in Nat
  <2>1. Len(Message) \in Nat
    BY DigestAssumption, LenProperties
  <2> QED BY <1>1, <2>1
<1>3. /\ s \in Seq(Nat) /\ Len(s) = taken /\ p \in Seq(Nat) /\ bits \in Seq(Nat)
      /\ Padded(taken) = (s \o p) \o bits
  BY <1>1, PaddedIs
<1>4. count = BitCount(taken)
  BY <1>1, <1>3 DEF Took, context
<1>5. Filled(count) = taken % BlockSize /\ Encoded(count) = bits
  BY <1>2, <1>4, FilledIs, EncodedIs
<1>6. /\ count' = last.count /\ buffer' = last.buffer /\ blocks' = last.blocks
      /\ finalized' = TRUE /\ taken' = taken
  BY <1>5 DEF Finalize, Becomes
<1> HIDE DEF s, p, bits
<1>7. Took(padded, s \o p) /\ s \o p \in Seq(Nat)
  BY <1>1, <1>3, UpdatedIsTaken
<1> HIDE DEF padded
<1>8. /\ Took(ended, (s \o p) \o bits) /\ (s \o p) \o bits \in Seq(Nat)
      /\ \E c, b, x : ended = [count |-> c, buffer |-> b, blocks |-> x]
  BY <1>3, <1>7, UpdatedIsTaken
<1> HIDE DEF ended
<1>9. last.count = ended.count /\ last.blocks = ended.blocks
      /\ last.buffer = [ended.buffer EXCEPT ![1] = 0]
  BY <1>8
<1>10. /\ ended.count \in [1..2 -> 0..(Word - 1)] /\ ended.buffer \in Block
       /\ ended.blocks \in Seq(Block) /\ ended.blocks = Whole(Padded(taken), 0)
  BY <1>3, <1>8, TookTypes DEF Took
<1>11. last.buffer \in Block
  <2>1. \A b \in [1..BlockSize -> Nat] : [b EXCEPT ![1] = 0] \in [1..BlockSize -> Nat]
    OBVIOUS
  <2> HIDE DEF last
  <2> QED BY <1>9, <1>10, <2>1 DEF Block
<1> HIDE DEF last
<1>12. DigestTypeOK'
  BY <1>1, <1>6, <1>9, <1>10, <1>11 DEF DigestTypeOK, Block
<1>13. blocks' = Whole(Padded(taken'), 0)
  BY <1>6, <1>9, <1>10
<1> QED BY <1>6, <1>12, <1>13 DEF DigestInv, DigestsThePadded, Padded, Whole

LEMMA NextDigestInv == DigestInv /\ [DigestNext]_digestVars => DigestInv'
<1> SUFFICES ASSUME DigestInv, [DigestNext]_digestVars PROVE DigestInv'
  OBVIOUS
<1>1. CASE UNCHANGED digestVars
  BY <1>1 DEF digestVars, DigestInv, DigestsThePadded, DigestTypeOK, Took, context
<1>2. CASE Finalize
  BY <1>2, FinalizeKeeps
<1>3. ASSUME NEW n \in 0..Len(Message), Pass(n) PROVE DigestInv'
  BY <1>3, PassKeeps
<1> QED BY <1>1, <1>2, <1>3 DEF DigestNext

\* Whichever way a message of any length is cut into chunks, for blocks and words of
\* any size, the blocks that are transformed are those of the padded message
\* (md5.cpp:72-205).
THEOREM ThePaddedIsDigested == DigestSpec => []DigestsThePadded
<1>1. DigestInv => DigestsThePadded
  BY DEF DigestInv
<1> QED BY <1>1, InitDigestInv, NextDigestInv, PTL DEF DigestSpec

-----------------------------------------------------------------------------
(***************************************************************************)
(* The format of the console's messages.  First, recursion: a function     *)
(* that refers to itself at what ranks lower exists, and what holds of an  *)
(* argument if it does of all that rank lower holds of all.                *)
(***************************************************************************)
LEMMA LeastNumber ==
  ASSUME NEW S \in SUBSET Nat, S # {}
  PROVE  \E m \in S : \A k \in S : m <= k
<1> DEFINE R == OpToRel(<, Nat)
<1>1. IsWellFoundedOn(R, Nat)
  BY NatLessThanWellFounded
<1>2. PICK m \in S : \A y \in S : ~ (<<y, m>> \in R)
  BY <1>1, WFMin
<1>3. ASSUME NEW k \in S PROVE m <= k
  <2>1. k \in Nat /\ m \in Nat
    OBVIOUS
  <2>2. SUFFICES ASSUME k < m PROVE FALSE
    BY <2>1
  <2>3. <<k, m>> \in R
    BY <2>1, <2>2 DEF OpToRel
  <2> QED BY <1>2, <2>3
<1> QED BY <1>3

LEMMA GreatestNumber ==
  ASSUME NEW n \in Nat, NEW S \in SUBSET (1..n), S # {}
  PROVE  Max(S) \in S /\ \A i \in S : i <= Max(S)
<1> DEFINE T == {n - i : i \in S}
<1>1. T \in SUBSET Nat /\ T # {}
  <2>1. \A i \in S : n - i \in Nat
    OBVIOUS
  <2> QED BY <2>1
<1>2. PICK m \in T : \A k \in T : m <= k
  BY <1>1, LeastNumber
<1>3. PICK i \in S : m = n - i
  <2>1. m \in T
    BY <1>2
  <2> QED BY <2>1
<1>4. \A j \in S : n - i <= n - j
  BY <1>2, <1>3
<1>5. \A j \in S : j <= i /\ i >= j
  BY <1>4
<1>6. Max(S) \in S /\ \A j \in S : Max(S) >= j
  BY <1>3, <1>5 DEF Max
<1> QED BY <1>6

LEMMA OfAllRanks ==
  ASSUME NEW D, NEW rank \in [D -> Nat], NEW P,
         \A x \in D : (\A y \in D : rank[y] < rank[x] => y \in P) => x \in P
  PROVE  D \subseteq P
<1> DEFINE S == {rank[x] : x \in D \ P}
<1>1. SUFFICES ASSUME D \ P # {} PROVE FALSE
  OBVIOUS
<1>2. S \in SUBSET Nat /\ S # {}
  BY <1>1
<1>3. PICK m \in S : \A k \in S : m <= k
  BY <1>2, LeastNumber
<1>4. PICK x \in D \ P : m = rank[x]
  OBVIOUS
<1>5. ASSUME NEW y \in D, rank[y] < rank[x] PROVE y \in P
  <2>1. SUFFICES ASSUME y \notin P PROVE FALSE
    OBVIOUS
  <2>2. rank[y] \in S /\ rank[y] \in Nat /\ rank[x] \in Nat
    BY <2>1
  <2> QED BY SMTT(30), <1>3, <1>4, <1>5, <2>2
<1> QED BY <1>4, <1>5

Ranked(D, V, rank, G) ==
  /\ V # {} /\ rank \in [D -> Nat] /\ G \in [D -> [[D -> V] -> V]]
  /\ \A x \in D : \A f, g \in [D -> V] :
       (\A y \in D : rank[y] < rank[x] => f[y] = g[y]) => G[x][f] = G[x][g]

LEMMA Recursion ==
  ASSUME NEW D, NEW V, NEW rank, NEW G, Ranked(D, V, rank, G)
  PROVE  \E f \in [D -> V] : \A x \in D : f[x] = G[x][f]
<1> USE DEF Ranked
<1> DEFINE Good(n) == {f \in [D -> V] : \A x \in D : rank[x] < n => f[x] = G[x][f]}
           T == {n \in Nat : Good(n) # {}}
<1>1. 0 \in T
  <2> PICK v \in V : TRUE
    OBVIOUS
  <2>1. [x \in D |-> v] \in [D -> V] /\ \A x \in D : ~(rank[x] < 0)
    OBVIOUS
  <2>2. [x \in D |-> v] \in Good(0)
    BY <2>1
  <2> QED BY <2>2
<1>2. ASSUME NEW n \in Nat, n \in T PROVE n + 1 \in T
  <2>1. PICK f \in Good(n) : TRUE
    BY <1>2
  <2>2. f \in [D -> V] /\ \A x \in D : rank[x] < n => f[x] = G[x][f]
    BY <2>1
  <2> DEFINE g == [x \in D |-> G[x][f]]
  <2>3. g \in [D -> V] /\ \A x \in D : g[x] = G[x][f]
    BY <2>2
  <2> HIDE DEF g
  <2>4. ASSUME NEW x \in D, rank[x] < n + 1 PROVE g[x] = G[x][g]
    <3>1. ASSUME NEW y \in D, rank[y] < rank[x] PROVE f[y] = g[y]
      <4>1. rank[y] \in Nat /\ rank[x] \in Nat /\ rank[y] < n
        BY <2>4, <3>1
      <4> QED BY <2>2, <2>3, <4>1
    <3>2. G[x][f] = G[x][g]
      BY <2>2, <2>3, <3>1
    <3> QED BY <2>3, <3>2
  <2>5. g \in Good(n + 1)
    BY <2>3, <2>4
  <2> QED BY <2>5
<1>3. \A n \in Nat : Good(n) # {}
  <2> HIDE DEF Good
  <2>1. SUFFICES ASSUME NEW n \in Nat PROVE n \in T
    OBVIOUS
  <2> HIDE DEF T
  <2>2. \A k \in 0..(n - 1) : k \in Nat
    OBVIOUS
  <2>3. 0..n \subseteq T
    BY <1>1, <1>2, <2>2, UpTo
  <2>4. n \in 0..n
    OBVIOUS
  <2> QED BY <2>3, <2>4
<1>4. ASSUME NEW n \in Nat, NEW k \in Nat, NEW f \in Good(n), NEW g \in Good(k)
      PROVE  \A x \in D : rank[x] < n /\ rank[x] < k => f[x] = g[x]
  <2>1. /\ f \in [D -> V] /\ \A x \in D : rank[x] < n => f[x] = G[x][f]
        /\ g \in [D -> V] /\ \A x \in D : rank[x] < k => g[x] = G[x][g]
    OBVIOUS
  <2> DEFINE P == {x \in D : rank[x] < n /\ rank[x] < k => f[x] = g[x]}
  <2>2. ASSUME NEW x \in D, \A y \in D : rank[y] < rank[x] => y \in P PROVE x \in P
    <3>1. SUFFICES ASSUME rank[x] < n, rank[x] < k PROVE f[x] = g[x]
      OBVIOUS
    <3>2. ASSUME NEW y \in D, rank[y] < rank[x] PROVE f[y] = g[y]
      <4>1. rank[y] \in Nat /\ rank[x] \in Nat /\ rank[y] < n /\ rank[y] < k
        BY <3>1, <3>2
      <4> QED BY <2>2, <3>2, <4>1
    <3>3. G[x][f] = G[x][g]
      BY <2>1, <3>2
    <3> QED BY <2>1, <3>1, <3>3
  <2>3. D \subseteq P
    <3>1. rank \in [D -> Nat]
      OBVIOUS
    <3> HIDE DEF P
    <3> QED BY ONLY <2>2, <3>1, OfAllRanks
  <2> QED BY <2>3
<1> DEFINE At(n) == CHOOSE f : f \in Good(n)
           F == [x \in D |-> At(rank[x] + 1)[x]]
<1>5. \A n \in Nat : At(n) \in Good(n)
  <2> HIDE DEF Good
  <2> QED BY <1>3
<1>6. \A n \in Nat : At(n) \in [D -> V] /\ \A x \in D : rank[x] < n => At(n)[x] = G[x][At(n)]
  <2> HIDE DEF At
  <2> QED BY <1>5
<1>7. \A x \in D : rank[x] + 1 \in Nat /\ rank[x] < rank[x] + 1 /\ rank[x] \in Nat
  OBVIOUS
<1>8. F \in [D -> V] /\ \A x \in D : F[x] = At(rank[x] + 1)[x]
  <2> HIDE DEF At
  <2>1. \A x \in D : At(rank[x] + 1)[x] \in V
    BY <1>6, <1>7
  <2> QED BY <2>1
<1>9. ASSUME NEW x \in D PROVE F[x] = G[x][F]
  <2> HIDE DEF At, F
  <2>1. ASSUME NEW y \in D, rank[y] < rank[x] PROVE At(rank[x] + 1)[y] = F[y]
    <3>1. /\ rank[y] + 1 \in Nat /\ rank[x] + 1 \in Nat
          /\ rank[y] < rank[x] + 1 /\ rank[y] < rank[y] + 1
      BY <1>7, <2>1
    <3>2. At(rank[x] + 1) \in Good(rank[x] + 1) /\ At(rank[y] + 1) \in Good(rank[y] + 1)
      BY <1>5, <3>1
    <3>3. At(rank[x] + 1)[y] = At(rank[y] + 1)[y]
      <4> HIDE DEF Good
      <4> QED BY <1>4, <3>1, <3>2
    <3> QED BY <1>8, <3>3
  <2>2. G[x][At(rank[x] + 1)] = G[x][F]
    BY <1>6, <1>7, <1>8, <2>1
  <2> QED BY <1>6, <1>7, <1>8, <2>2
<1> QED BY <1>8, <1>9

(***************************************************************************)
(* Numbers and their digits                                                *)
(***************************************************************************)
LEMMA DigitIs ==
  ASSUME NEW d \in 0..9
  PROVE  /\ Decimals[d + 1] \in Range(Decimals)
         /\ Index(Decimals, Decimals[d + 1]) = d + 1
<1>1. DOMAIN Decimals = 1..10 /\ Len(Decimals) = 10 /\ d + 1 \in 1..10
  BY DEF Decimals
<1>2. \A i \in 1..10 : Decimals[i] = Decimals[d + 1] => i = d + 1
  BY DEF Decimals
<1>3. Index(Decimals, Decimals[d + 1]) = d + 1
  BY <1>1, <1>2 DEF Index
<1> QED BY <1>1, <1>3 DEF Range

LEMMA DecimalsAre ==
  /\ Range(Decimals) \subseteq Characters
  /\ \A c \in Range(Decimals) : Index(Decimals, c) \in 1..10
  /\ " " \notin Range(Decimals) /\ "-" \notin Range(Decimals)
  /\ Comma \notin Range(Decimals) /\ "\r" \notin Range(Decimals)
<1>1. DOMAIN Decimals = 1..10 /\ Len(Decimals) = 10
  BY DEF Decimals
<1>2. ASSUME NEW c \in Range(Decimals) PROVE Index(Decimals, c) \in 1..10
  <2>1. PICK i \in 1..10 : Decimals[i] = c
    BY <1>1 DEF Range
  <2> QED BY <1>1, <2>1 DEF Index
<1>3. \A c \in Range(Decimals) : \E i \in 1..10 : c = Decimals[i]
  BY <1>1 DEF Range
<1>4. \A i \in 1..10 : /\ Decimals[i] # " " /\ Decimals[i] # "-" /\ Decimals[i] # Comma
                       /\ Decimals[i] # "\r"
  <2>1. /\ Decimals[1] = "0" /\ Decimals[2] = "1" /\ Decimals[3] = "2" /\ Decimals[4] = "3"
        /\ Decimals[5] = "4" /\ Decimals[6] = "5" /\ Decimals[7] = "6" /\ Decimals[8] = "7"
        /\ Decimals[9] = "8" /\ Decimals[10] = "9"
    BY DEF Decimals
  <2>2. \A i \in 1..10 : \/ i = 1 \/ i = 2 \/ i = 3 \/ i = 4 \/ i = 5
                       \/ i = 6 \/ i = 7 \/ i = 8 \/ i = 9 \/ i = 10
    OBVIOUS
  <2> QED BY <2>1, <2>2 DEF Comma
<1> QED BY <1>2, <1>3, <1>4, WireAssumption

LEMMA Tenth ==
  ASSUME NEW n \in Nat, ~(n < 10)
  PROVE  /\ n \div 10 \in Nat /\ n \div 10 < n
         /\ n % 10 \in 0..9
         /\ n = 10 * (n \div 10) + (n % 10)
OBVIOUS

LEMMA TextIs ==
  \A n \in Nat :
    /\ Text[n] = IF n < 10 THEN <<Decimals[n + 1]>>
                 ELSE Text[n \div 10] \o <<Decimals[(n % 10) + 1]>>
    /\ Text[n] \in Seq(Range(Decimals)) \ {<<>>}
<1> DEFINE V == Seq(Range(Decimals)) \ {<<>>}
           Then(f, n) == IF n < 10 THEN <<Decimals[n + 1]>>
                         ELSE f[n \div 10] \o <<Decimals[(n % 10) + 1]>>
           rank == [n \in Nat |-> n]
           G == [n \in Nat |-> [f \in [Nat -> V] |-> Then(f, n)]]
<1>1. \A n \in Nat : n < 10 => <<Decimals[n + 1]>> \in V
  BY DigitIs
<1>2. ASSUME NEW n \in Nat, ~(n < 10), NEW t \in V PROVE t \o <<Decimals[(n % 10) + 1]>> \in V
  <2>1. Decimals[(n % 10) + 1] \in Range(Decimals)
    BY <1>2, Tenth, DigitIs
  <2> QED BY <2>1
<1>3. \A f \in [Nat -> V], n \in Nat : Then(f, n) \in V
  BY <1>1, <1>2, Tenth
<1>4. \E f \in [Nat -> V] : \A n \in Nat : f[n] = Then(f, n)
  <2>1. G \in [Nat -> [[Nat -> V] -> V]]
    BY <1>3
  <2>2. \A n \in Nat : \A f \in [Nat -> V] : G[n][f] = Then(f, n)
    OBVIOUS
  <2>3. rank \in [Nat -> Nat] /\ \A n \in Nat : rank[n] = n
    OBVIOUS
  <2>4. \A n \in Nat : \A f, g \in [Nat -> V] :
           (\A k \in Nat : rank[k] < rank[n] => f[k] = g[k]) => G[n][f] = G[n][g]
    <3>1. SUFFICES ASSUME NEW n \in Nat, NEW f \in [Nat -> V], NEW g \in [Nat -> V],
                          \A k \in Nat : rank[k] < rank[n] => f[k] = g[k]
                   PROVE  Then(f, n) = Then(g, n)
      BY <2>2
    <3>2. ~(n < 10) => f[n \div 10] = g[n \div 10]
      BY <2>3, <3>1, Tenth
    <3> QED BY <3>2
  <2>5. V # {}
    <3>1. <<Decimals[0 + 1]>> \in V
      BY <1>1
    <3> QED BY <3>1
  <2> HIDE DEF G, V, rank, Then
  <2>6. \E f \in [Nat -> V] : \A n \in Nat : f[n] = G[n][f]
    <3>1. Ranked(Nat, V, rank, G)
      BY <2>1, <2>3, <2>4, <2>5 DEF Ranked
    <3> QED BY <3>1, Recursion
  <2> QED BY <2>2, <2>6
<1>5. Text = CHOOSE f : f = [n \in Nat |-> Then(f, n)]
  BY DEF Text
<1>6. Text = [n \in Nat |-> Then(Text, n)]
  <2> HIDE DEF Then, V
  <2>1. PICK f \in [Nat -> V] : \A n \in Nat : f[n] = Then(f, n)
    BY <1>4
  <2>2. f = [n \in Nat |-> Then(f, n)]
    BY <2>1
  <2> QED BY <1>5, <2>2
<1>7. \A n \in Nat : Text[n] = Then(Text, n)
  <2> HIDE DEF Then
  <2> QED BY <1>6
<1> DEFINE P == {n \in Nat : Text[n] \in V}
<1>8. ASSUME NEW n \in Nat, \A k \in Nat : rank[k] < rank[n] => k \in P PROVE n \in P
  <2>1. CASE n < 10
    BY <1>1, <1>7, <2>1
  <2>2. CASE ~(n < 10)
    <3>1. n \div 10 \in P
      BY <1>8, <2>2, Tenth
    <3>2. Text[n] = Text[n \div 10] \o <<Decimals[(n % 10) + 1]>>
      BY <1>7, <2>2
    <3> HIDE DEF V
    <3> QED BY <1>2, <2>2, <3>1, <3>2
  <2> QED BY <2>1, <2>2
<1>9. Nat \subseteq P
  <2>1. rank \in [Nat -> Nat]
    OBVIOUS
  <2> HIDE DEF P, rank
  <2> QED BY <1>8, <2>1, OfAllRanks
<1> QED BY <1>7, <1>9

LEMMA FrontAndLast ==
  ASSUME NEW S, NEW s \in Seq(S), s # <<>>
  PROVE  /\ Front(s) \in Seq(S) /\ Len(Front(s)) = Len(s) - 1 /\ Len(s) \in Nat \ {0}
         /\ Last(s) \in S
         /\ s = Front(s) \o <<Last(s)>>
<1>1. Len(s) \in Nat \ {0} /\ Len(s) \in 1..Len(s)
  OBVIOUS
<1>2. s[Len(s)] \in S
  BY <1>1
<1>3. Front(s) \in Seq(S) /\ Len(Front(s)) = Len(s) - 1
  <2>1. \A i \in 1..(Len(s) - 1) : s[i] \in S
    BY <1>1, ElementOfSeq
  <2> DEFINE k == Len(s) - 1
  <2>2. k \in Nat /\ k - 1 + 1 = k
    BY <1>1
  <2>3. \A i \in 1..k : s[i] \in S
    BY <2>1
  <2> HIDE DEF k
  <2>4. SubSeq(s, 1, k) \in Seq(S) /\ Len(SubSeq(s, 1, k)) = k
    BY <2>2, <2>3, SubSeqProperties
  <2> QED BY <2>4 DEF Front, k
<1>4. s = Front(s) \o <<Last(s)>>
  <2>1. SubSeq(s, 1, Len(s)) = SubSeq(s, 1, Len(s) - 1) \o <<s[Len(s)]>>
    BY <1>1, SubSeqRecursiveSecond
  <2>2. SubSeq(s, 1, Len(s)) = s
    BY SubSeqFull
  <2> QED BY <2>1, <2>2 DEF Front, Last
<1> QED BY <1>1, <1>2, <1>3, <1>4 DEF Last

LEMMA FrontOfAppended ==
  ASSUME NEW S, NEW s \in Seq(S), NEW e \in S
  PROVE  Front(s \o <<e>>) = s /\ Last(s \o <<e>>) = e /\ s \o <<e>> # <<>>
<1>1. Len(s \o <<e>>) = Len(s) + 1 /\ Len(s) \in Nat
  OBVIOUS
<1>2. (s \o <<e>>)[Len(s) + 1] = e
  BY <1>1
<1>3. SubSeq(s \o <<e>>, 1, Len(s)) = s
  <2>1. SubSeq(s \o <<e>>, 1, Len(s)) \in Seq(S) /\ Len(SubSeq(s \o <<e>>, 1, Len(s))) = Len(s)
    BY <1>1
  <2>2. \A i \in 1..Len(s) : SubSeq(s \o <<e>>, 1, Len(s))[i] = s[i]
    BY <1>1
  <2> QED BY <2>1, <2>2, SeqEqual
<1> QED BY <1>1, <1>2, <1>3 DEF Front, Last

LEMMA NumberIs ==
  \A s \in Seq(Range(Decimals)) :
    /\ Number[s] = IF s = <<>> THEN 0 ELSE 10 * Number[Front(s)] + Index(Decimals, Last(s)) - 1
    /\ Number[s] \in Nat
<1> DEFINE D == Seq(Range(Decimals))
           Then(f, s) == IF s = <<>> THEN 0 ELSE 10 * f[Front(s)] + Index(Decimals, Last(s)) - 1
           rank == [s \in D |-> Len(s)]
           G == [s \in D |-> [f \in [D -> Nat] |-> Then(f, s)]]
<1>1. ASSUME NEW s \in D, s # <<>>
      PROVE  /\ Front(s) \in D /\ Len(Front(s)) < Len(s)
             /\ Index(Decimals, Last(s)) \in 1..10
  <2>1. Front(s) \in D /\ Len(Front(s)) = Len(s) - 1 /\ Len(s) \in Nat \ {0} /\ Last(s) \in Range(Decimals)
    BY <1>1, FrontAndLast
  <2>2. Index(Decimals, Last(s)) \in 1..10
    BY <2>1, DecimalsAre
  <2> QED BY <2>1, <2>2
<1> HIDE DEF D
<1>2. \A f \in [D -> Nat], s \in D : Then(f, s) \in Nat
  BY SMTT(30), <1>1
<1>3. \A s \in D : Len(s) \in Nat
  BY DEF D
<1>4. \E f \in [D -> Nat] : \A s \in D : f[s] = Then(f, s)
  <2>1. G \in [D -> [[D -> Nat] -> Nat]]
    <3> HIDE DEF Then
    <3> QED BY <1>2
  <2>2. \A s \in D : \A f \in [D -> Nat] : G[s][f] = Then(f, s)
    <3> HIDE DEF Then
    <3> QED OBVIOUS
  <2>3. rank \in [D -> Nat] /\ \A s \in D : rank[s] = Len(s)
    BY <1>3
  <2>4. \A s \in D : \A f, g \in [D -> Nat] :
           (\A t \in D : rank[t] < rank[s] => f[t] = g[t]) => G[s][f] = G[s][g]
    <3> HIDE DEF G, rank
    <3> QED BY SMTT(30), <1>1, <2>2, <2>3
  <2> HIDE DEF G, rank, Then
  <2>5. Nat # {}
    OBVIOUS
  <2>6. \E f \in [D -> Nat] : \A s \in D : f[s] = G[s][f]
    <3>1. Ranked(D, Nat, rank, G)
      BY <2>1, <2>3, <2>4, <2>5 DEF Ranked
    <3> QED BY <3>1, Recursion
  <2> QED BY <2>2, <2>6
<1>5. Number = CHOOSE f : f = [s \in D |-> Then(f, s)]
  BY DEF Number, D
<1>6. Number = [s \in D |-> Then(Number, s)]
  <2> HIDE DEF Then
  <2>1. PICK f \in [D -> Nat] : \A s \in D : f[s] = Then(f, s)
    BY <1>4
  <2>2. f = [s \in D |-> Then(f, s)]
    BY <2>1
  <2> QED BY <1>5, <2>2
<1>7. \A s \in D : Number[s] = Then(Number, s)
  <2> HIDE DEF Then
  <2> QED BY <1>6
<1> DEFINE P == {s \in D : Number[s] \in Nat}
<1>8. D \subseteq P
  <2>1. rank \in [D -> Nat] /\ \A s \in D : rank[s] = Len(s)
    BY <1>3
  <2>2. ASSUME NEW s \in D, \A t \in D : rank[t] < rank[s] => t \in P PROVE s \in P
    <3> HIDE DEF rank
    <3>1. s # <<>> => Number[Front(s)] \in Nat
      BY <1>1, <2>1, <2>2
    <3>2. Then(Number, s) \in Nat
      BY SMTT(30), <1>1, <3>1
    <3> HIDE DEF Then
    <3> QED BY <1>7, <3>2
  <2> HIDE DEF P, rank
  <2> QED BY <2>1, <2>2, OfAllRanks
<1> QED BY <1>7, <1>8 DEF D

LEMMA NumberOfText == \A n \in Nat : Number[Text[n]] = n
<1> DEFINE P == {n \in Nat : Number[Text[n]] = n}
           rank == [n \in Nat |-> n]
<1>1. ASSUME NEW t \in Seq(Range(Decimals)), NEW d \in 0..9
      PROVE  Number[t \o <<Decimals[d + 1]>>] = 10 * Number[t] + d
  <2>1. Decimals[d + 1] \in Range(Decimals) /\ Index(Decimals, Decimals[d + 1]) = d + 1
    BY DigitIs
  <2>2. t \o <<Decimals[d + 1]>> \in Seq(Range(Decimals))
    BY <2>1
  <2>3. /\ Front(t \o <<Decimals[d + 1]>>) = t /\ Last(t \o <<Decimals[d + 1]>>) = Decimals[d + 1]
        /\ t \o <<Decimals[d + 1]>> # <<>>
    BY <2>1, FrontOfAppended
  <2>4. Number[t \o <<Decimals[d + 1]>>] = 10 * Number[t] + Index(Decimals, Decimals[d + 1]) - 1
    BY <2>2, <2>3, NumberIs
  <2> QED BY <2>1, <2>4, NumberIs
<1>2. ASSUME NEW n \in Nat, \A k \in Nat : rank[k] < rank[n] => k \in P PROVE n \in P
  <2>1. CASE n < 10
    <3>1. Text[n] = <<>> \o <<Decimals[n + 1]>>
      <4>1. <<Decimals[n + 1]>> \in Seq(Range(Decimals)) /\ Text[n] = <<Decimals[n + 1]>>
        BY <2>1, TextIs
      <4> QED BY <4>1, ConcatEmptySeq
    <3>2. <<>> \in Seq(Range(Decimals)) /\ Number[<<>>] = 0
      <4>1. <<>> \in Seq(Range(Decimals))
        OBVIOUS
      <4> QED BY <4>1, NumberIs
    <3>3. Number[<<>> \o <<Decimals[n + 1]>>] = 10 * Number[<<>>] + n
      <4>1. n \in 0..9
        BY <2>1
      <4> QED BY <1>1, <3>2, <4>1
    <3> QED BY <3>1, <3>2, <3>3
  <2>2. CASE ~(n < 10)
    <3>1. n \div 10 \in P /\ n = 10 * (n \div 10) + (n % 10) /\ n % 10 \in 0..9 /\ n \div 10 \in Nat
      BY <1>2, <2>2, Tenth
    <3>2. Text[n] = Text[n \div 10] \o <<Decimals[(n % 10) + 1]>> /\ Text[n \div 10] \in Seq(Range(Decimals))
      BY <2>2, <3>1, TextIs
    <3>3. Number[Text[n]] = 10 * Number[Text[n \div 10]] + (n % 10)
      BY <1>1, <3>1, <3>2
    <3> QED BY <3>1, <3>3
  <2> QED BY <2>1, <2>2
<1>3. Nat \subseteq P
  <2>1. rank \in [Nat -> Nat]
    OBVIOUS
  <2> HIDE DEF P, rank
  <2> QED BY <1>2, <2>1, OfAllRanks
<1> QED BY <1>3

(***************************************************************************)
(* Where the fields of a text begin and end                                *)
(***************************************************************************)
LEMMA FromIs ==
  ASSUME NEW S, NEW s \in Seq(S), NEW n \in Nat
  PROVE  /\ From(s, n) \in Seq(S)
         /\ Len(From(s, n)) = IF n < Len(s) THEN Len(s) - n ELSE 0
         /\ \A i \in 1..Len(From(s, n)) : From(s, n)[i] = s[n + i]
<1>1. Len(s) \in Nat
  OBVIOUS
<1>2. \A i \in (n + 1)..Len(s) : s[i] \in S
  BY <1>1, ElementOfSeq
<1>3. /\ SubSeq(s, n + 1, Len(s)) \in Seq(S)
      /\ Len(SubSeq(s, n + 1, Len(s))) = IF n + 1 <= Len(s) THEN Len(s) - (n + 1) + 1 ELSE 0
      /\ \A i \in 1..(Len(s) - (n + 1) + 1) : SubSeq(s, n + 1, Len(s))[i] = s[(n + 1) + i - 1]
  BY <1>1, <1>2, SubSeqProperties
<1> QED BY <1>1, <1>3 DEF From

LEMMA FirstTextIs ==
  ASSUME NEW S, NEW s \in Seq(S), NEW n \in Nat
  PROVE  /\ First(s, n) \in Seq(S)
         /\ Len(First(s, n)) = IF n < Len(s) THEN n ELSE Len(s)
         /\ \A i \in 1..Len(First(s, n)) : First(s, n)[i] = s[i]
<1> DEFINE m == IF n < Len(s) THEN n ELSE Len(s)
<1>1. m \in Nat /\ m <= Len(s) /\ Len(s) \in Nat
  OBVIOUS
<1>2. \A i \in 1..m : s[i] \in S
  BY <1>1, ElementOfSeq
<1> HIDE DEF m
<1>3. /\ SubSeq(s, 1, m) \in Seq(S)
      /\ Len(SubSeq(s, 1, m)) = IF 1 <= m THEN m - 1 + 1 ELSE 0
      /\ \A i \in 1..(m - 1 + 1) : SubSeq(s, 1, m)[i] = s[1 + i - 1]
  BY <1>1, <1>2, SubSeqProperties
<1>4. First(s, n) = SubSeq(s, 1, m)
  BY DEF First, m
<1>5. First(s, n) \in Seq(S) /\ Len(First(s, n)) = m /\ \A i \in 1..m : First(s, n)[i] = s[i]
  BY <1>1, <1>3, <1>4
<1> QED BY <1>5 DEF m

\* A text is what comes first and what follows.
LEMMA Parts ==
  ASSUME NEW S, NEW a \in Seq(S), NEW b \in Seq(S)
  PROVE  First(a \o b, Len(a)) = a /\ From(a \o b, Len(a)) = b
<1> DEFINE t == a \o b
           n == Len(a)
<1>1. /\ t \in Seq(S) /\ Len(t) = n + Len(b)
      /\ n \in Nat /\ Len(b) \in Nat
      /\ \A i \in 1..n : t[i] = a[i]
      /\ \A i \in 1..Len(b) : t[n + i] = b[i]
  OBVIOUS
<1> HIDE DEF t
<1>2. First(t, n) = a
  <2> HIDE DEF n
  <2>1. First(t, n) \in Seq(S) /\ Len(First(t, n)) = n /\ \A i \in 1..n : First(t, n)[i] = t[i]
    <3>1. (IF n < Len(t) THEN n ELSE Len(t)) = n
      BY <1>1
    <3>2. /\ First(t, n) \in Seq(S)
          /\ Len(First(t, n)) = IF n < Len(t) THEN n ELSE Len(t)
          /\ \A i \in 1..Len(First(t, n)) : First(t, n)[i] = t[i]
      BY <1>1, FirstTextIs
    <3> QED BY <3>1, <3>2
  <2>2. \A i \in 1..n : First(t, n)[i] = a[i]
    BY <1>1, <2>1
  <2> QED BY <2>1, <2>2, SeqEqual DEF n
<1>3. From(t, n) = b
  <2> HIDE DEF n
  <2>1. /\ From(t, n) \in Seq(S) /\ Len(From(t, n)) = Len(b)
        /\ \A i \in 1..Len(b) : From(t, n)[i] = t[n + i]
    <3>1. (IF n < Len(t) THEN Len(t) - n ELSE 0) = Len(b)
      BY <1>1
    <3> QED BY <1>1, <3>1, FromIs
  <2>2. \A i \in 1..Len(b) : From(t, n)[i] = b[i]
    BY <1>1, <2>1
  <2> QED BY <2>1, <2>2, SeqEqual
<1> QED BY <1>2, <1>3 DEF t, n

\* The longest beginning of characters in C exists, and is where another comes.
LEMMA LeadingIs ==
  ASSUME NEW S, NEW s \in Seq(S), NEW C
  PROVE  /\ Leading(s, C) \in 0..Len(s)
         /\ \A i \in 1..Leading(s, C) : s[i] \in C
         /\ Leading(s, C) < Len(s) => s[Leading(s, C) + 1] \notin C
<1> DEFINE O == {i \in 1..Len(s) : s[i] \notin C}
<1>1. Len(s) \in Nat
  OBVIOUS
<1>2. \E k \in 0..Len(s) : /\ \A i \in 1..k : s[i] \in C
                           /\ k < Len(s) => s[k + 1] \notin C
  <2>1. CASE O = {}
    <3>1. \A i \in 1..Len(s) : s[i] \in C
      BY <2>1
    <3>2. Len(s) \in 0..Len(s) /\ ~(Len(s) < Len(s))
      BY <1>1
    <3> QED BY <3>1, <3>2
  <2>2. CASE O # {}
    <3>1. O \in SUBSET Nat
      BY <1>1
    <3> HIDE DEF O
    <3>2. PICK m \in O : \A k \in O : m <= k
      BY <2>2, <3>1, LeastNumber
    <3>3. m \in 1..Len(s) /\ s[m] \notin C
      BY <3>2 DEF O
    <3>4. m - 1 \in 0..Len(s) /\ (m - 1) + 1 = m
      BY <1>1, <3>3
    <3>5. ASSUME NEW i \in 1..(m - 1) PROVE s[i] \in C
      <4>1. i \in 1..Len(s) /\ ~(m <= i)
        BY <1>1, <3>3
      <4>2. i \notin O
        BY <3>2, <4>1
      <4> QED BY <4>1, <4>2 DEF O
    <3> QED BY <3>3, <3>4, <3>5
  <2> QED BY <2>1, <2>2
<1> DEFINE Is(k) == /\ \A i \in 1..k : s[i] \in C
                    /\ k < Len(s) => s[k + 1] \notin C
<1>3. Leading(s, C) = CHOOSE k \in 0..Len(s) : Is(k)
  BY DEF Leading
<1>4. \E k \in 0..Len(s) : Is(k)
  BY <1>2
<1> HIDE DEF Is
<1>5. Leading(s, C) \in 0..Len(s) /\ Is(Leading(s, C))
  BY <1>3, <1>4
<1> QED BY <1>5 DEF Is

\* It is found.
LEMMA LeadingOfParts ==
  ASSUME NEW S, NEW a \in Seq(S), NEW b \in Seq(S), NEW C,
         \A i \in 1..Len(a) : a[i] \in C, b # <<>> => b[1] \notin C
  PROVE  Leading(a \o b, C) = Len(a)
<1> DEFINE s == a \o b
           k == Leading(a \o b, C)
<1>1. /\ s \in Seq(S) /\ Len(s) = Len(a) + Len(b)
      /\ Len(a) \in Nat /\ Len(b) \in Nat
      /\ \A i \in 1..Len(a) : s[i] = a[i]
      /\ \A i \in 1..Len(b) : s[Len(a) + i] = b[i]
  OBVIOUS
<1>2. b # <<>> => Len(b) # 0
  BY EmptySeq
<1> HIDE DEF s
<1>3. /\ k \in 0..Len(s)
      /\ \A i \in 1..k : s[i] \in C
      /\ k < Len(s) => s[k + 1] \notin C
  BY <1>1, LeadingIs DEF s
<1> HIDE DEF k
<1>4. ~(k < Len(a))
  <2>1. SUFFICES ASSUME k < Len(a) PROVE FALSE
    OBVIOUS
  <2>2. k + 1 \in 1..Len(a) /\ k < Len(s)
    BY <1>1, <1>3, <2>1
  <2> QED BY <1>1, <1>3, <2>2
<1>5. ~(Len(a) < k)
  <2>1. SUFFICES ASSUME Len(a) < k PROVE FALSE
    OBVIOUS
  <2>2. Len(a) + 1 \in 1..k /\ 1 \in 1..Len(b) /\ Len(b) # 0
    BY <1>1, <1>3, <2>1
  <2>3. b # <<>>
    BY <2>2
  <2>4. s[Len(a) + 1] = b[1] /\ s[Len(a) + 1] \in C
    BY <1>1, <1>3, <2>2
  <2> QED BY <2>3, <2>4
<1>6. k = Len(a)
  BY <1>1, <1>3, <1>4, <1>5
<1> QED BY <1>6 DEF k

\* operator>> takes the digits, to what follows them.
LEMMA DigitsOfParts ==
  ASSUME NEW S, Range(Decimals) \subseteq S, NEW a \in Seq(Range(Decimals)), NEW b \in Seq(S),
         b # <<>> => b[1] \notin Range(Decimals)
  PROVE  Digits(a \o b) = a /\ From(a \o b, Len(a)) = b
<1>1. a \in Seq(S)
  BY SeqMonotonic
<1>2. \A i \in 1..Len(a) : a[i] \in Range(Decimals)
  BY ElementOfSeq
<1>3. Leading(a \o b, Range(Decimals)) = Len(a)
  BY <1>1, <1>2, LeadingOfParts
<1> QED BY <1>1, <1>3, Parts DEF Digits

LEMMA DigitsIs ==
  ASSUME NEW S, NEW s \in Seq(S)
  PROVE  Digits(s) \in Seq(Range(Decimals))
<1> DEFINE k == Leading(s, Range(Decimals))
<1>1. k \in 0..Len(s) /\ \A i \in 1..k : s[i] \in Range(Decimals)
  BY LeadingIs
<1>2. Len(s) \in Nat
  OBVIOUS
<1> HIDE DEF k
<1>3. First(s, k) \in Seq(S) /\ Len(First(s, k)) = k /\ \A i \in 1..k : First(s, k)[i] = s[i]
  <2>1. k \in Nat /\ (IF k < Len(s) THEN k ELSE Len(s)) = k
    BY <1>1, <1>2
  <2> QED BY <2>1, FirstTextIs
<1> DEFINE t == First(s, k)
<1>4. /\ t = [i \in 1..k |-> t[i]] /\ k \in Nat
      /\ \A i \in 1..k : t[i] \in Range(Decimals)
  BY <1>1, <1>2, <1>3
<1> HIDE DEF t
<1>5. t \in Seq(Range(Decimals))
  BY <1>4
<1> QED BY <1>5 DEF t, Digits, k

(***************************************************************************)
(* split                                                                   *)
(***************************************************************************)
Others == Characters \ {Comma}
Texts  == Seq(Characters)

LEMMA SplitIs ==
  \A s \in Texts :
    /\ Split[s] = IF s = <<>> THEN <<>>
                  ELSE <<First(s, Leading(s, Others))>> \o Split[From(s, Leading(s, Others) + 1)]
    /\ Split[s] \in Seq(Texts)
<1> DEFINE D == Texts
           V == Seq(Texts)
           Piece(s) == First(s, Leading(s, Others))
           Next1(s) == From(s, Leading(s, Others) + 1)
           Then(f, s) == IF s = <<>> THEN <<>> ELSE <<Piece(s)>> \o f[Next1(s)]
           rank == [s \in D |-> Len(s)]
           G == [s \in D |-> [f \in [D -> V] |-> Then(f, s)]]
<1>1. ASSUME NEW s \in D
      PROVE  Piece(s) \in D /\ Next1(s) \in D /\ (s # <<>> => Len(Next1(s)) < Len(s))
  <2> DEFINE k == Leading(s, Others)
  <2>1. k \in 0..Len(s)
    BY LeadingIs DEF Texts
  <2>2. Len(s) \in Nat /\ (s # <<>> => Len(s) # 0) /\ k \in Nat /\ k + 1 \in Nat
    BY <2>1, EmptySeq DEF Texts
  <2> HIDE DEF k
  <2>3. First(s, k) \in D
    BY <2>2, FirstTextIs DEF Texts
  <2>4. From(s, k + 1) \in D /\ Len(From(s, k + 1)) = IF k + 1 < Len(s) THEN Len(s) - (k + 1) ELSE 0
    BY <2>2, FromIs DEF Texts
  <2> QED BY <2>2, <2>3, <2>4 DEF k
<1> HIDE DEF D, Piece, Next1
<1>2. \A f \in [D -> V], s \in D : Then(f, s) \in V
  <2>1. SUFFICES ASSUME NEW f \in [D -> V], NEW s \in D PROVE Then(f, s) \in V
    OBVIOUS
  <2>2. Piece(s) \in Texts /\ f[Next1(s)] \in Seq(Texts)
    BY <1>1 DEF D
  <2> QED BY <2>2
<1>3. \A s \in D : Len(s) \in Nat
  BY DEF D, Texts
<1> HIDE DEF V
<1>4. \E f \in [D -> V] : \A s \in D : f[s] = Then(f, s)
  <2>1. G \in [D -> [[D -> V] -> V]]
    <3> HIDE DEF Then
    <3> QED BY <1>2
  <2>2. \A s \in D : \A f \in [D -> V] : G[s][f] = Then(f, s)
    <3> HIDE DEF Then
    <3> QED OBVIOUS
  <2>3. rank \in [D -> Nat] /\ \A s \in D : rank[s] = Len(s)
    BY <1>3
  <2>4. \A s \in D : \A f, g \in [D -> V] :
           (\A t \in D : rank[t] < rank[s] => f[t] = g[t]) => G[s][f] = G[s][g]
    <3>1. SUFFICES ASSUME NEW s \in D, NEW f \in [D -> V], NEW g \in [D -> V],
                          \A t \in D : rank[t] < rank[s] => f[t] = g[t]
                   PROVE  Then(f, s) = Then(g, s)
      <4> HIDE DEF G, rank, Then
      <4> QED BY <2>2
    <3> HIDE DEF G, rank
    <3>2. s # <<>> => f[Next1(s)] = g[Next1(s)]
      BY <1>1, <2>3, <3>1
    <3> QED BY <3>2
  <2>5. V # {}
    <3>1. <<>> \in V
      BY DEF V
    <3> QED BY <3>1
  <2> HIDE DEF G, rank, Then
  <2>6. \E f \in [D -> V] : \A s \in D : f[s] = G[s][f]
    <3>1. Ranked(D, V, rank, G)
      BY <2>1, <2>3, <2>4, <2>5 DEF Ranked
    <3> QED BY <3>1, Recursion
  <2> QED BY <2>2, <2>6
<1>5. Split = CHOOSE f : f = [s \in D |-> Then(f, s)]
  BY DEF Split, D, Texts, Others, Piece, Next1
<1>6. Split = [s \in D |-> Then(Split, s)]
  <2> HIDE DEF Then
  <2>1. PICK f \in [D -> V] : \A s \in D : f[s] = Then(f, s)
    BY <1>4
  <2>2. f = [s \in D |-> Then(f, s)]
    BY <2>1
  <2> QED BY <1>5, <2>2
<1>7. \A s \in D : Split[s] = Then(Split, s)
  <2> HIDE DEF Then
  <2> QED BY <1>6
<1> DEFINE P == {s \in D : Split[s] \in V}
<1>8. D \subseteq P
  <2>1. rank \in [D -> Nat] /\ \A s \in D : rank[s] = Len(s)
    BY <1>3
  <2>2. ASSUME NEW s \in D, \A t \in D : rank[t] < rank[s] => t \in P PROVE s \in P
    <3> HIDE DEF rank
    <3>1. s # <<>> => Split[Next1(s)] \in V
      BY <1>1, <2>1, <2>2
    <3>2. Then(Split, s) \in V
      <4>1. Piece(s) \in Texts
        BY <1>1 DEF D
      <4> QED BY <3>1, <4>1 DEF V
    <3> HIDE DEF Then
    <3> QED BY <1>7, <3>2
  <2> HIDE DEF P, rank
  <2> QED BY <2>1, <2>2, OfAllRanks
<1> QED BY <1>7, <1>8 DEF D, V, Piece, Next1

LEMMA CommaIs == Comma \in Characters /\ <<Comma>> \in Texts /\ Comma \notin Others /\ <<>> \in Texts
<1>1. Comma \in Characters
  BY WireAssumption
<1>2. <<Comma>> \in Seq(Characters) /\ <<>> \in Seq(Characters)
  BY <1>1
<1> QED BY <1>1, <1>2 DEF Texts, Others

\* What is before a comma is the first element.
LEMMA SplitAtComma ==
  ASSUME NEW a \in Seq(Others), NEW x \in Texts
  PROVE  Split[(a \o <<Comma>>) \o x] = <<a>> \o Split[x]
<1> DEFINE c == <<Comma>>
           s == (a \o c) \o x
<1>1. a \in Texts /\ c \in Texts /\ Len(c) = 1 /\ c[1] = Comma
  BY CommaIs, SeqMonotonic DEF Others, Texts
<1>2. s = a \o (c \o x) /\ c \o x \in Texts /\ a \o c \in Texts /\ s \in Texts
  BY <1>1, ConcatAssociative, ConcatProperties DEF Texts
<1>3. (c \o x)[1] = Comma /\ s # <<>> /\ Len(a \o c) = Len(a) + 1
  BY <1>1 DEF Texts
<1>4. \A i \in 1..Len(a) : a[i] \in Others
  BY ElementOfSeq
<1> HIDE DEF c
<1>5. Leading(a \o (c \o x), Others) = Len(a)
  <2> DEFINE b == c \o x
  <2>1. b \in Seq(Characters) /\ a \in Seq(Characters) /\ b[1] \notin Others
    BY <1>1, <1>2, <1>3, CommaIs DEF Texts
  <2> HIDE DEF b
  <2>2. Leading(a \o b, Others) = Len(a)
    BY <1>4, <2>1, LeadingOfParts
  <2> QED BY <2>2 DEF b
<1>6. First(s, Len(a)) = a
  BY <1>1, <1>2, Parts DEF Texts
<1>7. From(s, Len(a) + 1) = x
  <2>1. From((a \o c) \o x, Len(a \o c)) = x
    BY <1>2, Parts DEF Texts
  <2> QED BY <1>3, <2>1
<1> HIDE DEF s
<1>8. Leading(s, Others) = Len(a)
  BY <1>2, <1>5
<1>9. Split[s] = <<First(s, Leading(s, Others))>> \o Split[From(s, Leading(s, Others) + 1)]
  BY <1>2, <1>3, SplitIs
<1> QED BY <1>6, <1>7, <1>8, <1>9 DEF s, c

LEMMA SplitAtEnd ==
  ASSUME NEW a \in Seq(Others), a # <<>>
  PROVE  Split[a] = <<a>>
<1>1. a \in Seq(Characters) /\ <<>> \in Seq(Characters) /\ a \o <<>> = a /\ a \in Texts
  BY SeqMonotonic, ConcatEmptySeq DEF Others, Texts
<1>2. \A i \in 1..Len(a) : a[i] \in Others
  BY ElementOfSeq
<1>3. Leading(a \o <<>>, Others) = Len(a) /\ First(a \o <<>>, Len(a)) = a
  <2> DEFINE b == <<>>
  <2>1. b \in Seq(Characters) /\ ~(b # <<>>)
    BY <1>1
  <2> HIDE DEF b
  <2>2. Leading(a \o b, Others) = Len(a)
    BY <1>1, <1>2, <2>1, LeadingOfParts
  <2>3. First(a \o b, Len(a)) = a
    BY <1>1, <2>1, Parts
  <2> QED BY <2>2, <2>3 DEF b
<1>4. From(a, Len(a) + 1) = <<>>
  <2>1. Len(a) \in Nat
    BY <1>1
  <2> QED BY <2>1, SubSeqEmpty DEF From
<1>5. Split[<<>>] = <<>>
  BY CommaIs, SplitIs
<1>6. Split[a] = <<a>> \o <<>>
  BY <1>1, <1>3, <1>4, <1>5, SplitIs
<1>7. <<a>> \in Seq(Texts)
  BY <1>1
<1> QED BY <1>6, <1>7, ConcatEmptySeq

(***************************************************************************)
(* Names and values in turn                                                *)
(***************************************************************************)
Lists(E, h, props) ==
  /\ E \in Seq(Texts) /\ h \in Nat /\ Len(E) = 2 * h
  /\ \A j \in 1..h : E[2 * j - 1] \in DOMAIN props /\ E[2 * j] = props[E[2 * j - 1]]

NamesIn(E, h) == {E[2 * j - 1] : j \in 1..h}

LEMMA ListsGrow ==
  ASSUME NEW props, NEW h, NEW E, Lists(E, h, props), NEW n \in Texts, NEW v \in Texts,
         n \in DOMAIN props, props[n] = v
  PROVE  /\ Lists(E \o <<n, v>>, h + 1, props)
         /\ NamesIn(E \o <<n, v>>, h + 1) = NamesIn(E, h) \union {n}
<1> DEFINE F == E \o <<n, v>>
<1>1. E \in Seq(Texts) /\ h \in Nat /\ Len(E) = 2 * h
  BY DEF Lists
<1>2. /\ F \in Seq(Texts) /\ Len(F) = 2 * (h + 1)
      /\ \A i \in 1..(2 * h) : F[i] = E[i]
      /\ F[2 * h + 1] = n /\ F[2 * h + 2] = v
  BY <1>1
<1>3. \A j \in 1..h : /\ 2 * j - 1 \in 1..(2 * h) /\ 2 * j \in 1..(2 * h)
  BY <1>1
<1> HIDE DEF F
<1>4. \A j \in 1..h : F[2 * j - 1] = E[2 * j - 1] /\ F[2 * j] = E[2 * j]
  BY <1>2, <1>3
<1>5. F[2 * (h + 1) - 1] = n /\ F[2 * (h + 1)] = v
  <2>1. 2 * (h + 1) - 1 = 2 * h + 1 /\ 2 * (h + 1) = 2 * h + 2
    BY <1>1
  <2> QED BY <1>2, <2>1
<1>6. \A j \in 1..(h + 1) : j = h + 1 \/ j \in 1..h
  BY <1>1
<1>7. h + 1 \in Nat /\ h + 1 \in 1..(h + 1) /\ \A j \in 1..h : j \in 1..(h + 1)
  BY <1>1
<1>8. \A j \in 1..(h + 1) : F[2 * j - 1] \in DOMAIN props /\ F[2 * j] = props[F[2 * j - 1]]
  <2>1. SUFFICES ASSUME NEW j \in 1..(h + 1)
                 PROVE  F[2 * j - 1] \in DOMAIN props /\ F[2 * j] = props[F[2 * j - 1]]
    OBVIOUS
  <2>2. CASE j = h + 1
    BY <1>5, <2>2
  <2>3. CASE j \in 1..h
    BY <1>4, <2>3 DEF Lists
  <2> QED BY <1>6, <2>2, <2>3
<1>9. NamesIn(F, h + 1) = NamesIn(E, h) \union {n}
  <2> DEFINE f(j) == F[2 * j - 1]
             e(j) == E[2 * j - 1]
  <2>1. f(h + 1) = n /\ \A j \in 1..h : f(j) = e(j)
    BY <1>4, <1>5
  <2> HIDE DEF f, e
  <2>2. {f(j) : j \in 1..(h + 1)} = {e(j) : j \in 1..h} \union {n}
    BY <1>6, <1>7, <2>1
  <2> QED BY <2>2 DEF f, e, NamesIn
<1> QED BY <1>2, <1>7, <1>8, <1>9 DEF F, Lists

\* To set them is to put what they list on top.
LEMMA SetPropertiesIs ==
  ASSUME NEW props, NEW h, NEW E, Lists(E, h, props), DOMAIN props = NamesIn(E, h), NEW old
  PROVE  SetProperties(old, E) = Over(props, old)
<1>1. h \in Nat /\ Len(E) \div 2 = h
  <2>1. h \in Nat /\ Len(E) = 2 * h
    BY DEF Lists
  <2> QED BY <2>1
<1> DEFINE Given(n) == {i \in 1..h : E[2 * i - 1] = n}
<1>2. ASSUME NEW n \in DOMAIN props PROVE E[2 * Max(Given(n))] = props[n]
  <2>1. Given(n) # {} /\ Given(n) \in SUBSET (1..h)
    BY DEF NamesIn
  <2> DEFINE m == Max(Given(n))
  <2>2. m \in Given(n)
    <3> HIDE DEF Given
    <3> QED BY <1>1, <2>1, GreatestNumber
  <2> HIDE DEF m
  <2>3. m \in 1..h /\ E[2 * m - 1] = n
    BY <2>2
  <2>4. E[2 * m] = props[n]
    BY <2>3 DEF Lists
  <2> QED BY <2>4 DEF m
<1>3. SetProperties(old, E) =
        [n \in DOMAIN old \union DOMAIN props |->
           IF n \in DOMAIN props THEN E[2 * Max(Given(n))] ELSE old[n]]
  BY <1>1 DEF SetProperties, NamesIn
<1> HIDE DEF Given
<1>4. SetProperties(old, E) =
        [n \in DOMAIN props \union DOMAIN old |-> IF n \in DOMAIN props THEN props[n] ELSE old[n]]
  BY <1>2, <1>3
<1> QED BY <1>4 DEF Over

Count == Len(PropertyNames)

LEMMA NamesAre == Count \in Nat /\ \A i \in 1..Count : PropertyNames[i] \in Texts
<1>1. PropertyNames \in Seq(Texts)
  BY WireAssumption DEF Texts
<1> QED BY <1>1, ElementOfSeq DEF Count

LEMMA PairIs ==
  ASSUME NEW name \in Texts, NEW value \in Texts
  PROVE  Pair(name, value) \in Texts
BY CommaIs DEF Pair, Texts

LEMMA PairsAre ==
  ASSUME NEW props, \A n \in DOMAIN props : props[n] \in Texts
  PROVE  /\ Pairs(props)[0] = <<>>
         /\ \A i \in 1..Count :
              Pairs(props)[i] = Pairs(props)[i - 1] \o
                                  IF PropertyNames[i] \in DOMAIN props
                                  THEN Pair(PropertyNames[i], props[PropertyNames[i]])
                                  ELSE <<>>
         /\ \A i \in 0..Count : Pairs(props)[i] \in Texts
<1> DEFINE D == 0..Count
           V == Texts
           This(i) == IF PropertyNames[i] \in DOMAIN props
                      THEN Pair(PropertyNames[i], props[PropertyNames[i]])
                      ELSE <<>>
           Then(f, i) == IF i = 0 THEN <<>> ELSE f[i - 1] \o This(i)
           rank == [i \in D |-> i]
           G == [i \in D |-> [f \in [D -> V] |-> Then(f, i)]]
           pairs == Pairs(props)
<1>1. \A i \in D : i # 0 => i \in 1..Count /\ i - 1 \in D /\ i - 1 < i /\ This(i) \in V
  <2>1. SUFFICES ASSUME NEW i \in D, i # 0 PROVE i \in 1..Count /\ i - 1 \in D /\ i - 1 < i /\ This(i) \in V
    OBVIOUS
  <2>2. i \in 1..Count /\ i - 1 \in D /\ i - 1 < i
    BY <2>1, NamesAre
  <2>3. This(i) \in V
    BY <2>2, NamesAre, PairIs, CommaIs
  <2> QED BY <2>2, <2>3
<1>2. \A i \in 1..Count : i \in D /\ i # 0
  BY NamesAre
<1>3. \A i \in D : i \in Nat
  BY NamesAre
<1>4. 0 \in D
  BY NamesAre
<1> HIDE DEF D, This
<1>5. \A f \in [D -> V], i \in D : Then(f, i) \in V
  <2>1. SUFFICES ASSUME NEW f \in [D -> V], NEW i \in D PROVE Then(f, i) \in V
    OBVIOUS
  <2>2. i # 0 => f[i - 1] \in V /\ This(i) \in V
    BY <1>1
  <2> QED BY <2>2, CommaIs DEF Texts
<1> HIDE DEF V
<1>6. \E f \in [D -> V] : \A i \in D : f[i] = Then(f, i)
  <2>1. G \in [D -> [[D -> V] -> V]]
    <3> HIDE DEF Then
    <3> QED BY <1>5
  <2>2. \A i \in D : \A f \in [D -> V] : G[i][f] = Then(f, i)
    <3> HIDE DEF Then
    <3> QED OBVIOUS
  <2>3. rank \in [D -> Nat] /\ \A i \in D : rank[i] = i
    BY <1>3
  <2>4. \A i \in D : \A f, g \in [D -> V] :
           (\A k \in D : rank[k] < rank[i] => f[k] = g[k]) => G[i][f] = G[i][g]
    <3>1. SUFFICES ASSUME NEW i \in D, NEW f \in [D -> V], NEW g \in [D -> V],
                          \A k \in D : rank[k] < rank[i] => f[k] = g[k]
                   PROVE  Then(f, i) = Then(g, i)
      <4> HIDE DEF G, rank, Then
      <4> QED BY <2>2
    <3> HIDE DEF G, rank
    <3>2. i # 0 => f[i - 1] = g[i - 1]
      BY <1>1, <2>3, <3>1
    <3> QED BY <3>2
  <2>5. V # {}
    BY CommaIs DEF V
  <2> HIDE DEF G, rank, Then
  <2>6. \E f \in [D -> V] : \A i \in D : f[i] = G[i][f]
    <3>1. Ranked(D, V, rank, G)
      BY <2>1, <2>3, <2>4, <2>5 DEF Ranked
    <3> QED BY <3>1, Recursion
  <2> QED BY <2>2, <2>6
<1>7. pairs = CHOOSE f : f = [i \in D |-> Then(f, i)]
  BY DEF Pairs, D, Count, This
<1> HIDE DEF pairs
<1>8. pairs = [i \in D |-> Then(pairs, i)]
  <2> HIDE DEF Then
  <2>1. PICK f \in [D -> V] : \A i \in D : f[i] = Then(f, i)
    BY <1>6
  <2>2. f = [i \in D |-> Then(f, i)]
    BY <2>1
  <2> QED BY <1>7, <2>2
<1>9. \A i \in D : pairs[i] = Then(pairs, i)
  <2> HIDE DEF Then
  <2> QED BY <1>8
<1> DEFINE P == {i \in D : pairs[i] \in V}
<1>10. D \subseteq P
  <2>1. rank \in [D -> Nat] /\ \A i \in D : rank[i] = i
    BY <1>3
  <2>2. ASSUME NEW i \in D, \A k \in D : rank[k] < rank[i] => k \in P PROVE i \in P
    <3> HIDE DEF rank
    <3>1. i # 0 => pairs[i - 1] \in V
      BY <1>1, <2>1, <2>2
    <3>2. Then(pairs, i) \in V
      BY <1>1, <3>1, CommaIs DEF V, Texts
    <3> HIDE DEF Then
    <3> QED BY <1>9, <3>2
  <2> HIDE DEF P, rank
  <2> QED BY <2>1, <2>2, OfAllRanks
<1>11. pairs[0] = <<>>
  BY <1>4, <1>9
<1>12. \A i \in 1..Count : pairs[i] = pairs[i - 1] \o This(i)
  BY <1>2, <1>9
<1>13. \A i \in D : pairs[i] \in V
  BY <1>10
<1> QED BY <1>11, <1>12, <1>13 DEF pairs, D, V, This

LEMMA WithoutComma ==
  ASSUME NEW s \in Texts, ~Contains(s, Comma)
  PROVE  s \in Seq(Others)
<1>1. Len(s) \in Nat /\ \A i \in 1..Len(s) : s[i] \in Characters
  BY ElementOfSeq DEF Texts
<1>2. \A i \in 1..Len(s) : s[i] \in Others
  BY <1>1 DEF Contains, Others
<1>3. s = [i \in 1..Len(s) |-> s[i]]
  BY DEF Texts
<1> QED BY <1>1, <1>2, <1>3

\* The properties that can be listed: none of their names and values has a comma.
Listable(props) ==
  /\ DOMAIN props \subseteq Range(PropertyNames) /\ DOMAIN props # {}
  /\ \A n \in DOMAIN props : n \in Seq(Others) /\ props[n] \in Seq(Others)

Named(props) == {i \in 1..Count : PropertyNames[i] \in DOMAIN props}

NamedUpTo(i, props) == {PropertyNames[j] : j \in {k \in Named(props) : k <= i}}

LEMMA OthersAreTexts == \A s \in Seq(Others) : s \in Texts
<1>1. Others \subseteq Characters
  BY DEF Others
<1> QED BY <1>1, SeqMonotonic DEF Texts

LEMMA Joined ==
  ASSUME NEW a \in Texts, NEW b \in Texts, NEW x \in Texts
  PROVE  (a \o b) \o x = a \o (b \o x)
BY ConcatAssociative DEF Texts

Regroup(a, b, x) == (a \o b) \o x = a \o (b \o x)

LEMMA Regrouped ==
  ASSUME NEW a \in Texts, NEW b \in Texts, NEW x \in Texts
  PROVE  Regroup(a, b, x)
BY Joined DEF Regroup

LEMMA Joins ==
  ASSUME NEW a \in Texts, NEW b \in Texts
  PROVE  a \o b \in Texts
BY ConcatProperties DEF Texts

LEMMA TwoOf ==
  ASSUME NEW S, NEW a \in S, NEW b \in S
  PROVE  /\ <<a>> \o <<b>> = <<a, b>>
         /\ <<a>> \in Seq(S) /\ <<b>> \in Seq(S) /\ <<a, b>> \in Seq(S)
<1> DEFINE t == <<a>> \o <<b>>
<1>1. <<a>> \in Seq(S) /\ <<b>> \in Seq(S) /\ <<a, b>> \in Seq(S)
  OBVIOUS
<1>2. Len(<<a>>) = 1 /\ Len(<<b>>) = 1 /\ Len(<<a, b>>) = 2
  OBVIOUS
<1>3. t \in Seq(S) /\ Len(t) = 2 /\ t[1] = a /\ t[2] = b
  BY <1>1, <1>2
<1> HIDE DEF t
<1>4. \A i \in 1..2 : t[i] = <<a, b>>[i]
  BY <1>3
<1>5. t = <<a, b>>
  BY <1>1, <1>2, <1>3, <1>4, SeqEqual
<1> QED BY <1>1, <1>5 DEF t

LEMMA PairJoined ==
  ASSUME NEW n \in Texts, NEW v \in Texts, NEW x \in Texts
  PROVE  Pair(n, v) \o x = (n \o <<Comma>>) \o ((v \o <<Comma>>) \o x)
<1> DEFINE c == <<Comma>>
           q == n \o c
           w == v \o c
<1>1. Pair(n, v) = (q \o v) \o c
  BY DEF Pair
<1>2. c \in Texts
  BY CommaIs
<1> HIDE DEF c
<1>3. q \in Texts /\ w \in Texts
  BY <1>2, Joins
<1>4. v \o c = w
  OBVIOUS
<1> HIDE DEF q, w
<1>5. (q \o v) \o c = q \o (v \o c)
  <2>1. q \in Texts /\ c \in Texts
    BY <1>2, <1>3
  <2> QED BY SMTT(30), <2>1, Joined
<1>6. (q \o w) \o x = q \o (w \o x)
  BY SMTT(30), <1>3, Joined
<1> QED BY <1>1, <1>4, <1>5, <1>6 DEF q, w, c

LEMMA SplitAtPair ==
  ASSUME NEW n \in Seq(Others), NEW v \in Seq(Others), NEW x \in Texts
  PROVE  Split[Pair(n, v) \o x] = <<n, v>> \o Split[x]
<1> DEFINE sep == <<Comma>>
           y == (v \o sep) \o x
<1>1. n \in Texts /\ v \in Texts /\ sep \in Texts
  BY OthersAreTexts, CommaIs
<1>2. y \in Texts
  BY <1>1 DEF Texts
<1> HIDE DEF sep
<1>3. Pair(n, v) \o x = (n \o sep) \o y
  BY <1>1, PairJoined DEF sep, y
<1>4. Split[y] = <<v>> \o Split[x]
  BY SplitAtComma DEF sep
<1> HIDE DEF y
<1>5. Split[(n \o sep) \o y] = <<n>> \o Split[y]
  BY <1>2, SplitAtComma DEF sep
<1>6. Split[x] \in Seq(Texts)
  BY SplitIs
<1>7. <<n>> \o (<<v>> \o Split[x]) = <<n, v>> \o Split[x]
  <2>1. <<n>> \in Seq(Texts) /\ <<v>> \in Seq(Texts) /\ <<n>> \o <<v>> = <<n, v>>
    BY <1>1, TwoOf
  <2>2. <<n>> \o (<<v>> \o Split[x]) = (<<n>> \o <<v>>) \o Split[x]
    BY <1>6, <2>1, ConcatAssociative
  <2> QED BY <2>1, <2>2
<1> QED BY <1>3, <1>4, <1>5, <1>7

LEMMA PairsSplit ==
  ASSUME NEW props, Listable(props)
  PROVE  \A i \in 0..Count :
           \E E, h : /\ Lists(E, h, props) /\ NamesIn(E, h) = NamedUpTo(i, props)
                     /\ \A x \in Texts : Split[Pairs(props)[i] \o x] = E \o Split[x]
<1> DEFINE At(i) == \E E, h :
             /\ Lists(E, h, props) /\ NamesIn(E, h) = NamedUpTo(i, props)
             /\ \A x \in Texts : Split[Pairs(props)[i] \o x] = E \o Split[x]
           T == {i \in 0..Count : At(i)}
<1>1. \A n \in DOMAIN props : props[n] \in Texts /\ n \in Texts /\ n \in Seq(Others) /\ props[n] \in Seq(Others)
  BY OthersAreTexts DEF Listable
<1>2. \A x \in Texts : Split[x] \in Seq(Texts)
  BY SplitIs
<1>3. Count \in Nat /\ 0 \in 0..Count
  BY NamesAre
<1>4. At(0)
  <2>1. Lists(<<>>, 0, props)
    BY DEF Lists
  <2>2. NamesIn(<<>>, 0) = NamedUpTo(0, props)
    BY <1>3 DEF NamesIn, NamedUpTo, Named
  <2>3. Pairs(props)[0] = <<>>
    BY <1>1, PairsAre
  <2>4. \A x \in Texts : <<>> \o x = x /\ <<>> \o Split[x] = Split[x]
    BY <1>2, ConcatEmptySeq DEF Texts
  <2>5. \A x \in Texts : Split[Pairs(props)[0] \o x] = <<>> \o Split[x]
    BY <2>3, <2>4
  <2> QED BY <2>1, <2>2, <2>5
<1>5. ASSUME NEW k \in 0..(Count - 1), k \in T PROVE k + 1 \in T
  <2>1. k + 1 \in 1..Count /\ k + 1 \in 0..Count /\ k \in 0..Count /\ (k + 1) - 1 = k /\ k \in Nat
    BY <1>3
  <2> DEFINE a == Pairs(props)[k]
             n == PropertyNames[k + 1]
  <2>2. PICK E, h : /\ Lists(E, h, props) /\ NamesIn(E, h) = NamedUpTo(k, props)
                    /\ \A x \in Texts : Split[a \o x] = E \o Split[x]
    BY <1>5
  <2>3. a \in Texts
    BY <1>1, <2>1, PairsAre
  <2>4. Pairs(props)[k + 1] = a \o IF n \in DOMAIN props THEN Pair(n, props[n]) ELSE <<>>
    BY <1>1, <2>1, PairsAre
  <2>5. {i \in Named(props) : i <= k + 1} =
          {i \in Named(props) : i <= k} \union (IF n \in DOMAIN props THEN {k + 1} ELSE {})
    BY <1>3, <2>1 DEF Named
  <2>6. NamedUpTo(k + 1, props) =
          NamedUpTo(k, props) \union (IF n \in DOMAIN props THEN {n} ELSE {})
    BY <2>5 DEF NamedUpTo
  <2> HIDE DEF a, n
  <2>7. CASE n \notin DOMAIN props
    <3>1. Pairs(props)[k + 1] = a
      BY <2>3, <2>4, <2>7, ConcatEmptySeq DEF Texts
    <3>2. At(k + 1)
      BY <2>2, <2>6, <2>7, <3>1
    <3> QED BY <2>1, <3>2
  <2>8. CASE n \in DOMAIN props
    <3> DEFINE v == props[n]
               p == Pair(n, v)
               F == E \o <<n, v>>
    <3>1. n \in Seq(Others) /\ v \in Seq(Others) /\ n \in Texts /\ v \in Texts
      BY <1>1, <2>8
    <3> HIDE DEF v
    <3>2. Lists(F, h + 1, props) /\ NamesIn(F, h + 1) = NamesIn(E, h) \union {n}
      BY <2>2, <2>8, <3>1, ListsGrow DEF v
    <3>3. E \in Seq(Texts)
      BY <2>2 DEF Lists
    <3>4. p \in Texts
      BY <3>1, PairIs
    <3>5. ASSUME NEW x \in Texts PROVE Split[Pairs(props)[k + 1] \o x] = F \o Split[x]
      <4>1. Split[p \o x] = <<n, v>> \o Split[x]
        BY <3>1, SplitAtPair
      <4> HIDE DEF p
      <4>2. Pairs(props)[k + 1] \o x = a \o (p \o x) /\ p \o x \in Texts
        BY <2>3, <2>4, <2>8, <3>4 DEF Texts, p, v
      <4>3. Split[a \o (p \o x)] = E \o Split[p \o x]
        BY <2>2, <4>2
      <4>4. E \o (<<n, v>> \o Split[x]) = (E \o <<n, v>>) \o Split[x]
        <5> DEFINE t == Split[x]
                   u == <<n, v>>
        <5>1. t \in Seq(Texts) /\ u \in Seq(Texts)
          BY <1>2, <3>1
        <5> HIDE DEF t, u
        <5>2. E \o (u \o t) = (E \o u) \o t
          BY <3>3, <5>1, ConcatAssociative
        <5> QED BY <5>2 DEF t, u
      <4> QED BY <4>1, <4>2, <4>3, <4>4
    <3> HIDE DEF F, p
    <3>6. NamesIn(F, h + 1) = NamedUpTo(k + 1, props)
      BY <2>2, <2>6, <2>8, <3>2
    <3>7. At(k + 1)
      BY <3>2, <3>5, <3>6
    <3> QED BY <2>1, <3>7
  <2> QED BY <2>7, <2>8
<1>6. 0 \in T
  BY <1>3, <1>4
<1> HIDE DEF T
<1>7. 0..Count \subseteq T
  BY <1>3, <1>5, <1>6, UpTo
<1> QED BY <1>7 DEF T

\* What to_stream writes of formatted properties is split into all of them.
LEMMA FlattenedIs ==
  ASSUME NEW props, Listable(props), props[PropertyNames[Max(Named(props))]] # <<>>
  PROVE  /\ Flattened(props) \in Texts \ {<<>>}
         /\ \E h : /\ Lists(Split[Flattened(props)], h, props) /\ h # 0
                   /\ NamesIn(Split[Flattened(props)], h) = DOMAIN props
<1> DEFINE L == Max(Named(props))
           n == PropertyNames[L]
           v == props[n]
           c == <<Comma>>
           a == Pairs(props)[L - 1]
           z == (n \o c) \o v
<1>1. Count \in Nat
  BY NamesAre
<1>2. \A k \in DOMAIN props : props[k] \in Texts /\ k \in Texts /\ k \in Seq(Others) /\ props[k] \in Seq(Others)
  BY OthersAreTexts DEF Listable
<1>3. \A k \in DOMAIN props : \E i \in Named(props) : PropertyNames[i] = k
  <2>1. DOMAIN PropertyNames = 1..Count
    <3>1. PropertyNames \in Seq(Texts)
      BY WireAssumption DEF Texts
    <3> QED BY <3>1 DEF Count
  <2> QED BY <2>1 DEF Listable, Range, Named
<1>4. Named(props) \in SUBSET (1..Count) /\ Named(props) # {}
  <2>1. Named(props) \in SUBSET (1..Count)
    BY DEF Named
  <2> QED BY <1>3, <2>1 DEF Listable
<1>5. L \in Named(props) /\ \A i \in Named(props) : i <= L
  BY <1>1, <1>4, GreatestNumber
<1> HIDE DEF L
<1>6. L \in 1..Count /\ n \in DOMAIN props /\ L - 1 \in 0..Count
  BY <1>1, <1>5 DEF Named
<1>7. /\ n \in Texts /\ v \in Texts /\ n \in Seq(Others) /\ v \in Seq(Others) /\ v # <<>>
  BY <1>2, <1>6 DEF L
<1> HIDE DEF v
<1>8. a \in Texts /\ Pairs(props)[L] \in Texts
  <2>1. L \in 0..Count
    BY <1>1, <1>6
  <2> QED BY <1>2, <1>6, <2>1, PairsAre
<1>9. Pairs(props)[L] = a \o Pair(n, v)
  BY <1>2, <1>6, PairsAre DEF v
<1>10. Pairs(props)[Count] = Pairs(props)[L]
  <2> DEFINE T == {k \in Nat : L + k <= Count => Pairs(props)[L + k] = Pairs(props)[L]}
  <2>1. 0 \in T
    BY <1>6
  <2>2. ASSUME NEW k \in 0..(Count - L - 1), k \in T PROVE k + 1 \in T
    <3>1. /\ (L + k) + 1 \in 1..Count /\ ((L + k) + 1) - 1 = L + k /\ L + (k + 1) = (L + k) + 1
          /\ L + k <= Count /\ ~((L + k) + 1 <= L) /\ k + 1 \in Nat
      BY <1>1, <1>6
    <3> DEFINE i == (L + k) + 1
    <3>2. PropertyNames[i] \notin DOMAIN props
      BY <1>5, <3>1 DEF Named
    <3>3. Pairs(props)[i] = Pairs(props)[L + k] \o <<>>
      BY <1>2, <3>1, <3>2, PairsAre
    <3>4. Pairs(props)[L + k] = Pairs(props)[L]
      BY <2>2, <3>1
    <3>5. Pairs(props)[i] = Pairs(props)[L]
      BY <1>8, <3>3, <3>4, ConcatEmptySeq DEF Texts
    <3> QED BY <3>1, <3>5
  <2> HIDE DEF T
  <2>3. Count - L \in Nat /\ Count - L \in 0..(Count - L) /\ L + (Count - L) = Count
    BY <1>1, <1>6
  <2>4. 0..(Count - L) \subseteq T
    BY <2>1, <2>2, <2>3, UpTo
  <2>5. Count - L \in T
    BY <2>3, <2>4
  <2> QED BY <1>1, <2>3, <2>5 DEF T
<1>11. c \in Texts /\ Comma \in Characters
  BY CommaIs
<1>12. z \in Texts /\ a \o z \in Texts
  BY <1>7, <1>8, <1>11 DEF Texts
<1>13. Pairs(props)[L] = (a \o z) \o <<Comma>>
  <2> HIDE DEF n, a, c
  <2>1. Pair(n, v) = z \o c
    BY DEF Pair, c
  <2> HIDE DEF z
  <2>2. a \o (z \o c) = (a \o z) \o c
    BY <1>8, <1>11, <1>12, ConcatAssociative DEF Texts
  <2> QED BY <1>9, <2>1, <2>2 DEF c
<1>14. Flattened(props) = a \o z
  <2> DEFINE y == a \o z
  <2>1. y \in Seq(Characters)
    BY <1>12 DEF Texts
  <2> HIDE DEF y
  <2>2. Front(y \o <<Comma>>) = y
    BY <1>11, <2>1, FrontOfAppended
  <2> QED BY <1>10, <1>13, <2>2 DEF y, Flattened, Count
<1>15. PICK E, h : /\ Lists(E, h, props) /\ NamesIn(E, h) = NamedUpTo(L - 1, props)
                   /\ \A x \in Texts : Split[a \o x] = E \o Split[x]
  BY <1>6, PairsSplit
<1>16. Split[z] = <<n>> \o <<v>>
  BY <1>7, SplitAtComma, SplitAtEnd
<1>17. Split[a \o z] = E \o <<n, v>>
  <2>1. <<n>> \o <<v>> = <<n, v>>
    BY <1>7, TwoOf
  <2>2. Split[a \o z] = E \o Split[z]
    BY <1>12, <1>15
  <2> QED BY <1>16, <2>1, <2>2
<1> DEFINE F == E \o <<n, v>>
<1>18. Lists(F, h + 1, props) /\ NamesIn(F, h + 1) = NamesIn(E, h) \union {n}
  <2> HIDE DEF n
  <2>1. props[n] = v
    BY DEF v
  <2> QED BY <1>6, <1>7, <1>15, <2>1, ListsGrow
<1>19. NamedUpTo(L - 1, props) \union {n} = DOMAIN props
  <2>1. \A i \in Named(props) : i = L \/ i <= L - 1
    BY <1>1, <1>5, <1>6 DEF Named
  <2>2. \A i \in Named(props) : PropertyNames[i] \in DOMAIN props
    BY DEF Named
  <2> QED BY <1>3, <1>6, <2>1, <2>2 DEF NamedUpTo
<1>20. z # <<>>
  <2>1. Len(z) = Len(n) + 1 + Len(v) /\ Len(n) \in Nat /\ Len(v) \in Nat
    BY <1>7, <1>11 DEF Texts
  <2> QED BY <2>1
<1>21. a \o z # <<>>
  <2> HIDE DEF a, z
  <2> QED BY <1>8, <1>12, <1>20, ConcatEmptySeq DEF Texts
<1>22. h + 1 # 0
  BY <1>15 DEF Lists
<1> HIDE DEF F
<1> QED BY <1>12, <1>14, <1>15, <1>17, <1>18, <1>19, <1>21, <1>22 DEF F

Raws == 0..5

LEMMA RawIs ==
  ASSUME NEW d \in Raws
  PROVE  /\ Raw(d) \in Range(RawBytes) /\ Raw(d) \in Characters
         /\ Raw(d) \notin Range(Decimals)
         /\ Index(RawBytes, Raw(d)) - 1 = d
         /\ Raw(d) = Raw(NoFormat) <=> d = NoFormat
<1>1. DOMAIN RawBytes = 1..6 /\ Len(RawBytes) = 6 /\ d + 1 \in 1..6
  BY DEF RawBytes, Raws
<1>2. \A i, j \in 1..6 : RawBytes[i] = RawBytes[j] => i = j
  BY DEF RawBytes
<1>3. Index(RawBytes, Raw(d)) = d + 1
  BY <1>1, <1>2 DEF Index, Raw
<1>4. Raw(d) \in Range(RawBytes)
  BY <1>1 DEF Range, Raw
<1>5. Raw(d) = Raw(NoFormat) <=> d = NoFormat
  BY <1>1, <1>2 DEF Raw, NoFormat, Raws
<1>6. Raw(d) \notin Range(Decimals)
  <2>1. /\ RawBytes[1] = "x00" /\ RawBytes[2] = "x01" /\ RawBytes[3] = "x02"
        /\ RawBytes[4] = "x03" /\ RawBytes[5] = "x04" /\ RawBytes[6] = "x05"
    BY DEF RawBytes
  <2>2. /\ Decimals[1] = "0" /\ Decimals[2] = "1" /\ Decimals[3] = "2" /\ Decimals[4] = "3"
        /\ Decimals[5] = "4" /\ Decimals[6] = "5" /\ Decimals[7] = "6" /\ Decimals[8] = "7"
        /\ Decimals[9] = "8" /\ Decimals[10] = "9" /\ DOMAIN Decimals = 1..10
    BY DEF Decimals
  <2>3. \A i \in 1..10 : \/ i = 1 \/ i = 2 \/ i = 3 \/ i = 4 \/ i = 5
                       \/ i = 6 \/ i = 7 \/ i = 8 \/ i = 9 \/ i = 10
    OBVIOUS
  <2>4. d + 1 = 1 \/ d + 1 = 2 \/ d + 1 = 3 \/ d + 1 = 4 \/ d + 1 = 5 \/ d + 1 = 6
    BY <1>1
  <2>5. \A c \in Range(Decimals) : \E i \in 1..10 : c = Decimals[i]
    BY <2>2 DEF Range
  <2>6. \A i \in 1..10 : RawBytes[d + 1] # Decimals[i]
    BY <2>1, <2>2, <2>3, <2>4
  <2> QED BY <2>5, <2>6 DEF Raw
<1>7. Raw(d) \in Characters
  BY <1>4, WireAssumption
<1>8. Index(RawBytes, Raw(d)) - 1 = d
  BY <1>3 DEF Raws
<1> QED BY <1>4, <1>5, <1>6, <1>7, <1>8

LEMMA TextOfNumber ==
  ASSUME NEW n \in Nat
  PROVE  /\ Text[n] \in Seq(Range(Decimals)) /\ Text[n] \in Texts
         /\ Len(Text[n]) \in Nat \ {0} /\ Text[n][1] \in Range(Decimals)
<1>1. Text[n] \in Seq(Range(Decimals)) /\ Text[n] # <<>>
  BY TextIs
<1>2. Len(Text[n]) \in Nat \ {0} /\ 1 \in 1..Len(Text[n])
  BY <1>1, EmptySeq
<1>3. Text[n][1] \in Range(Decimals)
  BY <1>1, <1>2, ElementOfSeq
<1>4. Text[n] \in Texts
  BY <1>1, DecimalsAre, SeqMonotonic DEF Texts
<1> QED BY <1>1, <1>2, <1>3, <1>4

LEMMA JoinedIs ==
  ASSUME NEW a \in Texts, NEW b \in Texts
  PROVE  /\ Len(a) \in Nat /\ Len(b) \in Nat
         /\ Len(a \o b) = Len(a) + Len(b)
         /\ a # <<>> => (a \o b)[1] = a[1]
         /\ \A i \in 1..Len(a) : (a \o b)[i] = a[i]
         /\ a = <<>> => a \o b = b
BY EmptySeq, ConcatEmptySeq DEF Texts

LEMMA LengthOfJoined ==
  ASSUME NEW a \in Texts, NEW b \in Texts
  PROVE  Len(a \o b) = Len(a) + Len(b)
BY JoinedIs

\* A checksum is read as it was written.
LEMMA SignedIs ==
  ASSUME NEW i \in Int
  PROVE  /\ Signed(i) \in Texts /\ Signed(i) # <<>> /\ Integer(Signed(i)) = i
         /\ \A b \in Texts : (b # <<>> => b[1] \notin Range(Decimals)) =>
              SignedDigits(Signed(i) \o b) = Signed(i)
<1> DEFINE dash == <<"-">>
<1>1. dash \in Texts /\ dash # <<>> /\ Len(dash) = 1 /\ dash[1] = "-"
  <2>1. "-" \in Characters
    BY WireAssumption
  <2> QED BY <2>1 DEF Texts
<1>2. Range(Decimals) \subseteq Characters /\ "-" \notin Range(Decimals)
  BY DecimalsAre
<1> HIDE DEF dash
<1>3. CASE i < 0
  <2> DEFINE t == Text[-i]
  <2>1. -i \in Nat /\ -(-i) = i
    BY <1>3
  <2>2. t \in Seq(Range(Decimals)) /\ t \in Texts /\ Number[t] = -i
    BY <2>1, TextOfNumber, NumberOfText
  <2> HIDE DEF t
  <2>3. Signed(i) = dash \o t
    BY <1>3 DEF Signed, t, dash
  <2>4. ASSUME NEW x \in Texts
        PROVE  Negative(dash \o x) /\ From(dash \o x, 1) = x
    <3>1. dash \o x # <<>> /\ (dash \o x)[1] = "-"
      <4>1. (dash \o x)[1] = "-" /\ Len(dash \o x) = 1 + Len(x) /\ Len(x) \in Nat
        BY <1>1, JoinedIs
      <4>2. dash \o x # <<>>
        BY <4>1
      <4> QED BY <4>1, <4>2
    <3>2. From(dash \o x, Len(dash)) = x
      BY <1>1, Parts DEF Texts
    <3> QED BY <1>1, <3>1, <3>2 DEF Negative
  <2>5. Integer(dash \o t) = i
    BY <2>1, <2>2, <2>4 DEF Integer
  <2>6. ASSUME NEW b \in Texts, b # <<>> => b[1] \notin Range(Decimals)
        PROVE  SignedDigits((dash \o t) \o b) = dash \o t
    <3> DEFINE x == t \o b
    <3>1. x \in Texts /\ (dash \o t) \o b = dash \o x
      BY <1>1, <2>2, Joins, Joined
    <3>2. Digits(x) = t
      BY <1>2, <2>2, <2>6, DigitsOfParts DEF Texts
    <3> HIDE DEF x
    <3> QED BY <2>4, <3>1, <3>2 DEF SignedDigits, dash
  <2>7. dash \o t \in Texts /\ dash \o t # <<>>
    BY <1>1, <2>2, <2>4, Joins DEF Negative
  <2> QED BY <2>3, <2>5, <2>6, <2>7
<1>4. CASE ~(i < 0)
  <2> DEFINE t == Text[i]
  <2>1. i \in Nat
    BY <1>4
  <2>2. /\ t \in Seq(Range(Decimals)) /\ t \in Texts /\ Number[t] = i
        /\ t[1] \in Range(Decimals) /\ t # <<>>
    BY <2>1, TextIs, TextOfNumber, NumberOfText
  <2>3. Signed(i) = t
    BY <1>4 DEF Signed
  <2> HIDE DEF t
  <2>4. Integer(t) = i
    BY <1>2, <2>2 DEF Integer, Negative
  <2>5. ASSUME NEW b \in Texts, b # <<>> => b[1] \notin Range(Decimals)
        PROVE  SignedDigits(t \o b) = t
    <3>1. ~Negative(t \o b)
      BY <1>2, <2>2, JoinedIs DEF Negative
    <3>2. Digits(t \o b) = t
      BY <1>2, <2>2, <2>5, DigitsOfParts DEF Texts
    <3> QED BY <3>1, <3>2 DEF SignedDigits
  <2> QED BY <2>2, <2>3, <2>4, <2>5
<1> QED BY <1>3, <1>4

LEMMA SpaceIs ==
  /\ <<" ">> \in Texts /\ Len(<<" ">>) = 1 /\ <<" ">> # <<>> /\ <<" ">>[1] = " "
  /\ Footer \in Texts /\ Len(Footer) = 4
<1>1. " " \in Characters
  BY WireAssumption
<1>2. <<" ">> \in Texts
  BY <1>1, TwoOf DEF Texts
<1>3. Range(Footer) \subseteq Characters
  BY WireAssumption
<1>4. "\r" \in Characters /\ "\n" \in Characters
  <2>1. DOMAIN Footer = 1..4 /\ Footer[1] = "\r" /\ Footer[2] = "\n" /\ 1 \in 1..4 /\ 2 \in 1..4
    BY DEF Footer
  <2>2. Footer[1] \in Range(Footer) /\ Footer[2] \in Range(Footer)
    BY <2>1 DEF Range
  <2> QED BY <1>3, <2>1, <2>2
<1>5. Footer \in Texts /\ Len(Footer) = 4
  BY <1>4 DEF Footer, Texts
<1> QED BY <1>2, <1>5

Fields(u, o, f, n, q) ==
  Text[Len(u)] \o (u \o (<<Raw(o), Raw(f)>> \o (Text[n] \o (<<" ">> \o q))))

\* The four fields that begin a message are found.
LEMMA HeaderIs ==
  ASSUME NEW u \in Texts, u # <<>> => ~IsDigit(u[1]), NEW o \in Raws, NEW f \in Raws,
         NEW n \in Nat, NEW q \in Texts
  PROVE  Header(Fields(u, o, f, n, q)) =
           [uid |-> u, flags |-> <<Raw(o), Raw(f)>>, length |-> n, body |-> q, legible |-> TRUE]
<1> DEFINE tu == Text[Len(u)]
           fl == <<Raw(o), Raw(f)>>
           tn == Text[n]
           sp == <<" ">>
           d  == sp \o q
           e  == tn \o d
           c  == fl \o e
           t  == u \o c
           s  == Fields(u, o, f, n, q)
<1>1. Len(u) \in Nat
  BY JoinedIs
<1>2. tu \in Seq(Range(Decimals)) /\ tu \in Texts /\ tu # <<>> /\ Number[tu] = Len(u)
  BY <1>1, TextIs, TextOfNumber, NumberOfText
<1>3. tn \in Seq(Range(Decimals)) /\ tn \in Texts /\ tn # <<>> /\ Number[tn] = n
  BY TextIs, TextOfNumber, NumberOfText
<1>18. Len(tn) \in Nat
  BY TextOfNumber
<1>4. fl \in Texts /\ Len(fl) = 2 /\ fl # <<>> /\ fl[1] = Raw(o) /\ fl[2] = Raw(f)
  <2>1. Raw(o) \in Characters /\ Raw(f) \in Characters
    BY RawIs
  <2>2. fl \in Texts
    BY <2>1, TwoOf DEF Texts
  <2>3. Len(fl) = 2 /\ fl # <<>> /\ fl[1] = Raw(o) /\ fl[2] = Raw(f)
    OBVIOUS
  <2> QED BY <2>2, <2>3
<1>5. sp \in Texts /\ Len(sp) = 1 /\ sp # <<>> /\ sp[1] = " "
  BY SpaceIs
<1> HIDE DEF tu, fl, tn, sp
<1>6. d \in Texts /\ d[1] = " "
  BY <1>5, Joins, JoinedIs
<1> HIDE DEF d
<1>7. e \in Texts
  BY <1>3, <1>6, Joins
<1>8. Digits(e) = tn
  <2>1. d[1] \notin Range(Decimals) /\ Range(Decimals) \subseteq Characters
    BY <1>6, DecimalsAre
  <2> QED BY <1>3, <1>6, <2>1, DigitsOfParts DEF Texts
<1> HIDE DEF e
<1>9. c \in Texts /\ c[1] = Raw(o) /\ c[2] = Raw(f) /\ Len(c) = 2 + Len(e) /\ Len(e) \in Nat
  <2>1. 1 \in 1..Len(fl) /\ 2 \in 1..Len(fl)
    <3>1. Len(fl) = 2
      BY <1>4
    <3> QED BY ONLY <3>1
  <2>2. c[1] = fl[1] /\ c[2] = fl[2]
    BY <1>4, <1>7, <2>1, JoinedIs
  <2>3. Len(c) = Len(fl) + Len(e) /\ Len(e) \in Nat
    BY <1>4, <1>7, JoinedIs
  <2>4. c \in Texts
    BY <1>4, <1>7, Joins
  <2> QED BY <1>4, <2>2, <2>3, <2>4
<1>10. First(c, 2) = fl /\ From(c, 2) = e
  <2>1. fl \in Seq(Characters) /\ e \in Seq(Characters)
    BY <1>4, <1>7 DEF Texts
  <2>2. First(fl \o e, Len(fl)) = fl /\ From(fl \o e, Len(fl)) = e
    BY <2>1, Parts
  <2> QED BY <1>4, <2>2
<1>11. From(c, 3 + Len(tn)) = q
  <2> DEFINE a == (fl \o tn) \o sp
  <2>1. fl \o tn \in Texts /\ Len(fl \o tn) = 2 + Len(tn)
    <3>1. fl \o tn \in Texts
      BY <1>3, <1>4, Joins
    <3>2. Len(fl \o tn) = Len(fl) + Len(tn)
      BY <1>3, <1>4, JoinedIs
    <3> QED BY <1>4, <3>1, <3>2
  <2>2. a \in Texts /\ Len(a) = 3 + Len(tn)
    <3> DEFINE y == fl \o tn
    <3>1. y \in Texts /\ Len(y) = 2 + Len(tn)
      BY <2>1
    <3> HIDE DEF y
    <3>2. y \o sp \in Texts
      BY <1>5, <3>1, Joins
    <3>3. Len(y \o sp) = Len(y) + Len(sp)
      BY <1>5, <3>1, JoinedIs
    <3>4. Len(y \o sp) = (2 + Len(tn)) + 1
      BY <1>5, <3>1, <3>3
    <3>5. (2 + Len(tn)) + 1 = 3 + Len(tn)
      BY ONLY <1>18
    <3> QED BY <3>2, <3>4, <3>5 DEF y
  <2>3. c = a \o q
    <3>1. e = (tn \o sp) \o q
      <4>1. Regroup(tn, sp, q)
        BY <1>3, <1>5, Regrouped
      <4> QED BY <4>1 DEF Regroup, e, d
    <3>2. tn \o sp \in Texts
      BY <1>3, <1>5, Joins
    <3> DEFINE y == tn \o sp
    <3>3. fl \o y = a
      <4>1. Regroup(fl, tn, sp)
        BY <1>3, <1>4, <1>5, Regrouped
      <4> QED BY <4>1 DEF Regroup
    <3> HIDE DEF y
    <3>4. fl \o (y \o q) = (fl \o y) \o q
      BY SMTT(30), <1>4, <3>2, Joined DEF y
    <3> QED BY <3>1, <3>3, <3>4 DEF y
  <2> HIDE DEF a, c
  <2>4. From(a \o q, Len(a)) = q
    BY <2>2, Parts DEF Texts
  <2> QED BY <2>2, <2>3, <2>4
<1> HIDE DEF c
<1>12. t \in Texts /\ t[1] \notin Range(Decimals)
  <2>1. t \in Texts
    BY <1>9, Joins
  <2>2. CASE u = <<>>
    <3>1. t = c
      BY <1>9, <2>2, JoinedIs
    <3> QED BY <1>9, <2>1, <3>1, RawIs
  <2>3. CASE u # <<>>
    <3>1. t[1] = u[1]
      BY <1>9, <2>3, JoinedIs
    <3> QED BY <2>1, <2>3, <3>1 DEF IsDigit
  <2> QED BY <2>2, <2>3
<1>13. First(t, Len(u)) = u /\ From(t, Len(u)) = c
  BY <1>9, Parts DEF Texts
<1> HIDE DEF t
<1>14. s = tu \o t
  BY DEF t, c, e, d, tu, tn, sp, fl, Fields
<1> HIDE DEF s
<1>15. Digits(s) = tu /\ From(s, Len(tu)) = t
  <2>1. Range(Decimals) \subseteq Characters
    BY DecimalsAre
  <2> QED BY <1>2, <1>12, <1>14, <2>1, DigitsOfParts DEF Texts
<1>16. /\ Len(c) >= 2
       /\ \A i \in {1, 2} : c[i] \in Range(RawBytes)
  <2>1. Raw(o) \in Range(RawBytes) /\ Raw(f) \in Range(RawBytes)
    BY RawIs
  <2>2. Len(c) >= 2
    <3>1. Len(c) = 2 + Len(e)
      BY <1>9
    <3>2. Len(e) \in Nat
      BY <1>9
    <3> QED BY ONLY <3>1, <3>2
  <2>3. c[1] \in Range(RawBytes) /\ c[2] \in Range(RawBytes)
    BY <1>9, <2>1
  <2> QED BY <2>2, <2>3
<1>17. Header(s) = [uid |-> u, flags |-> fl, length |-> n, body |-> q, legible |-> TRUE]
  <2>1. From(From(s, Len(Digits(s))), Number[Digits(s)]) = c
    BY <1>2, <1>13, <1>15
  <2>2. First(From(s, Len(Digits(s))), Number[Digits(s)]) = u
    BY <1>2, <1>13, <1>15
  <2>3. Digits(From(c, 2)) = tn
    BY <1>8, <1>10
  <2>4. Header(s) =
          [uid |-> u, flags |-> First(c, 2), length |-> Number[tn],
           body |-> From(c, 3 + Len(tn)),
           legible |-> /\ tu # <<>> /\ tn # <<>> /\ Len(c) >= 2
                       /\ \A i \in {1, 2} : c[i] \in Range(RawBytes)]
    BY <1>15, <2>1, <2>2, <2>3 DEF Header
  <2> QED BY <1>2, <1>3, <1>10, <1>11, <1>16, <2>4
<1> QED BY <1>17 DEF fl, s

FourRegroup(a, b, x, y) == ((a \o b) \o x) \o y = a \o (b \o (x \o y))

LEMMA FourJoined ==
  ASSUME NEW a \in Texts, NEW b \in Texts, NEW x \in Texts, NEW y \in Texts
  PROVE  FourRegroup(a, b, x, y)
<1> DEFINE e == a \o b
           z == x \o y
<1>1. e \in Texts /\ z \in Texts
  BY Joins
<1>2. a \o (b \o z) = e \o z
  BY SMTT(30), <1>1, Joined
<1>3. e \o (x \o y) = (e \o x) \o y
  <2> HIDE DEF e
  <2> QED BY SMTT(30), <1>1, Joined
<1> QED BY <1>2, <1>3 DEF FourRegroup

SixRegroup(a, b, c, d, e, x) ==
  ((((a \o b) \o c) \o d) \o e) \o x = a \o (b \o (c \o (d \o (e \o x))))

LEMMA SixJoined ==
  ASSUME NEW a \in Texts, NEW b \in Texts, NEW c \in Texts, NEW d \in Texts, NEW e \in Texts,
         NEW x \in Texts
  PROVE  SixRegroup(a, b, c, d, e, x)
<1> DEFINE p == (a \o b) \o c
           w == d \o (e \o x)
<1>1. a \o b \in Texts /\ e \o x \in Texts
  BY Joins
<1>2. p \in Texts
  BY <1>1, Joins
<1>3. w \in Texts
  BY <1>1, Joins
<1>4. FourRegroup(p, d, e, x)
  <2> HIDE DEF p
  <2> QED BY <1>2, FourJoined
<1>5. FourRegroup(a, b, c, w)
  <2> HIDE DEF w
  <2> QED BY <1>3, FourJoined
<1> QED BY <1>4, <1>5 DEF FourRegroup, SixRegroup

\* A message's text, taken apart
Rest(p, r) == IF p = <<>> THEN Footer \o r
              ELSE Signed(Crc(p)) \o (<<" ">> \o (p \o (Footer \o r)))

LEMMA FieldTypes ==
  ASSUME NEW u \in Texts, NEW o \in Raws, NEW f \in Raws, NEW n \in Nat
  PROVE  /\ Text[Len(u)] \in Texts /\ Text[n] \in Texts
         /\ <<Raw(o), Raw(f)>> \in Texts /\ Len(<<Raw(o), Raw(f)>>) = 2
         /\ <<" ">> \in Texts /\ Footer \in Texts
<1>1. Len(u) \in Nat
  BY JoinedIs
<1>2. Raw(o) \in Characters /\ Raw(f) \in Characters
  BY RawIs
<1>3. <<Raw(o), Raw(f)>> \in Texts
  BY <1>2, TwoOf DEF Texts
<1> QED BY <1>1, <1>3, TextOfNumber, SpaceIs

LEMMA ToStreamIs ==
  ASSUME NEW m, m.uid \in Texts, m.options \in Raws, m.feedback \in Raws,
         Flat(m) \in Texts, Flat(m) # <<>> => Crc(Flat(m)) \in Int
  PROVE  /\ ToStream(m) \in Texts
         /\ \A r \in Texts :
              /\ Rest(Flat(m), r) \in Texts
              /\ ToStream(m) \o r =
                   Fields(m.uid, m.options, m.feedback, Len(Flat(m)), Rest(Flat(m), r))
<1> DEFINE p  == Flat(m)
           u  == m.uid
           n  == Len(p)
           cs == Signed(Crc(p))
           sp == <<" ">>
           tu == Text[Len(u)]
           tn == Text[n]
           fl == <<Raw(m.options), Raw(m.feedback)>>
           F  == Footer
           w  == IF p = <<>> THEN <<>> ELSE (cs \o sp) \o p
           X  == (((tu \o u) \o fl) \o tn) \o sp
<1>1. p \in Texts /\ u \in Texts
  OBVIOUS
<1>2. n \in Nat
  BY JoinedIs
<1>3. tu \in Texts /\ tn \in Texts /\ fl \in Texts /\ sp \in Texts /\ F \in Texts
  BY <1>2, FieldTypes
<1>4. p # <<>> => cs \in Texts
  BY SignedIs
<1>5. ToStream(m) = (X \o w) \o F
  BY DEF ToStream
<1>7. \A r : Rest(p, r) = IF p = <<>> THEN F \o r ELSE cs \o (sp \o (p \o (F \o r)))
  BY DEF Rest
<1>8. \A q : Fields(u, m.options, m.feedback, n, q) = tu \o (u \o (fl \o (tn \o (sp \o q))))
  BY DEF Fields
<1> HIDE DEF p, u, n, cs, sp, tu, tn, fl, F
<1>9. w \in Texts
  <2>1. CASE p = <<>>
    BY <2>1, CommaIs
  <2>2. CASE p # <<>>
    <3>1. cs \o sp \in Texts
      BY <1>3, <1>4, <2>2, Joins
    <3> DEFINE y == cs \o sp
    <3>2. y \in Texts
      BY <3>1
    <3> HIDE DEF y
    <3>3. y \o p \in Texts
      BY <1>1, <3>2, Joins
    <3> QED BY <2>2, <3>3 DEF y
  <2> QED BY <2>1, <2>2
<1>10. X \in Texts
  <2> DEFINE a == tu \o u
             b == a \o fl
             c == b \o tn
  <2>1. a \in Texts
    BY <1>1, <1>3, Joins
  <2> HIDE DEF a
  <2>2. b \in Texts
    BY <1>3, <2>1, Joins
  <2> HIDE DEF b
  <2>3. c \in Texts
    BY <1>3, <2>2, Joins
  <2> HIDE DEF c
  <2>4. c \o sp \in Texts
    BY <1>3, <2>3, Joins
  <2> QED BY <2>4 DEF a, b, c
<1>11. ASSUME NEW y \in Texts PROVE X \o y = tu \o (u \o (fl \o (tn \o (sp \o y))))
  <2>1. SixRegroup(tu, u, fl, tn, sp, y)
    BY <1>1, <1>3, SixJoined
  <2> QED BY <2>1 DEF SixRegroup, X
<1>12. ASSUME NEW y \in Texts
       PROVE  w \o y = IF p = <<>> THEN y ELSE cs \o (sp \o (p \o y))
  <2>1. CASE p = <<>>
    BY <2>1, JoinedIs, CommaIs
  <2>2. CASE p # <<>>
    <3>1. FourRegroup(cs, sp, p, y)
      BY <1>1, <1>3, <1>4, <2>2, FourJoined
    <3> QED BY <2>2, <3>1 DEF FourRegroup
  <2> QED BY <2>1, <2>2
<1> HIDE DEF w, X
<1>13. ToStream(m) \in Texts
  <2>1. X \o w \in Texts
    BY <1>9, <1>10, Joins
  <2> DEFINE y == X \o w
  <2>2. y \in Texts
    BY <2>1
  <2> HIDE DEF y
  <2>3. y \o F \in Texts
    BY <1>3, <2>2, Joins
  <2> QED BY <1>5, <2>3 DEF y
<1>14. ASSUME NEW r \in Texts
       PROVE  /\ Rest(p, r) \in Texts
              /\ ToStream(m) \o r = Fields(u, m.options, m.feedback, n, Rest(p, r))
  <2> DEFINE y == F \o r
  <2>1. y \in Texts
    BY <1>3, Joins
  <2>2. ((X \o w) \o F) \o r = X \o (w \o y)
    <3>1. FourRegroup(X, w, F, r)
      BY <1>3, <1>9, <1>10, FourJoined
    <3> QED BY <3>1 DEF FourRegroup
  <2>3. Rest(p, r) = w \o y
    BY <1>7, <1>12, <2>1
  <2> HIDE DEF y
  <2>4. w \o y \in Texts
    BY <1>9, <2>1, Joins
  <2> QED BY <1>5, <1>8, <1>11, <2>2, <2>3, <2>4
<1> QED BY <1>13, <1>14 DEF p, u, n

\* The checksum, the properties and what follows them are found.
LEMMA BodyIs ==
  ASSUME NEW p \in Texts, NEW r \in Texts, p # <<>> => Crc(p) \in Int,
         NEW h, h.length = Len(p), h.body = Rest(p, r)
  PROVE  Body(h) = [valid |-> TRUE, props |-> p, rest |-> Footer \o r]
<1> DEFINE y == Footer \o r
           sp == <<" ">>
           cs == Signed(Crc(p))
<1>1. y \in Texts
  BY SpaceIs, Joins
<1>2. sp \in Texts /\ Len(sp) = 1 /\ sp # <<>> /\ sp[1] = " " /\ sp[1] \notin Range(Decimals)
  BY SpaceIs, DecimalsAre
<1>3. Rest(p, r) = IF p = <<>> THEN y ELSE cs \o (sp \o (p \o y))
  BY DEF Rest
<1> HIDE DEF y, sp
<1>4. CASE p = <<>>
  <2>1. h.length = 0 /\ h.body = y
    BY <1>3, <1>4
  <2>2. Body(h) = [valid |-> TRUE, props |-> <<>>, rest |-> h.body]
    BY <2>1 DEF Body
  <2> QED BY <1>4, <2>1, <2>2 DEF y
<1>5. CASE p # <<>>
  <2>1. cs \in Texts /\ Integer(cs) = Crc(p)
    BY <1>5, SignedIs
  <2>2. \A b \in Texts : (b # <<>> => b[1] \notin Range(Decimals)) => SignedDigits(cs \o b) = cs
    BY <1>5, SignedIs
  <2> HIDE DEF cs
  <2> DEFINE z == p \o y
             d == sp \o z
             a == cs \o sp
  <2>3. z \in Texts
    BY <1>1, Joins
  <2>4. First(z, Len(p)) = p /\ From(z, Len(p)) = y
    BY <1>1, Parts DEF Texts
  <2> HIDE DEF z
  <2>5. d \in Texts /\ d[1] = sp[1]
    BY <1>2, <2>3, Joins, JoinedIs
  <2>6. a \in Texts
    BY <1>2, <2>1, Joins
  <2>7. Len(a) = Len(cs) + 1
    <3>1. Len(a) = Len(cs) + Len(sp)
      BY <1>2, <2>1, LengthOfJoined
    <3> QED BY <1>2, <3>1
  <2>8. cs \o d = a \o z
    BY <1>2, <2>1, <2>3, Joined
  <2> HIDE DEF a, d
  <2>9. SignedDigits(h.body) = cs
    <3>1. h.body = cs \o d
      BY <1>3, <1>5 DEF d, z
    <3> QED BY <1>2, <2>2, <2>5, <3>1
  <2>10. From(h.body, Len(cs) + 1) = z
    <3>1. h.body = a \o z
      BY <1>3, <1>5, <2>8 DEF d, z
    <3>2. From(a \o z, Len(a)) = z
      BY <2>3, <2>6, Parts DEF Texts
    <3> QED BY <2>7, <3>1, <3>2
  <2>11. h.length # 0
    BY <1>5, EmptySeq DEF Texts
  <2>12. Body(h) = [valid |-> Len(p) = h.length /\ Crc(p) = Integer(cs), props |-> p, rest |-> y]
    BY <2>4, <2>9, <2>10, <2>11 DEF Body
  <2> QED BY <2>1, <2>12 DEF y
<1> QED BY <1>4, <1>5

LEMMA EmptyFunction ==
  ASSUME NEW V, NEW S, NEW f \in [S -> V], S = {}
  PROVE  f = <<>>
<1>1. f = [i \in 1..0 |-> f[i]]
  OBVIOUS
<1>2. f \in Seq(V) /\ Len(f) = 0
  BY <1>1
<1> QED BY <1>2, EmptySeq

LEMMA FrontIsText == ASSUME NEW s \in Texts PROVE Front(s) \in Texts
<1>1. CASE s = <<>>
  <2>1. 0 - 1 < 1 /\ Len(s) = 0
    BY <1>1
  <2>2. SubSeq(s, 1, Len(s) - 1) = <<>>
    BY <2>1, SubSeqEmpty
  <2> QED BY <2>2, CommaIs DEF Front
<1>2. CASE s # <<>>
  BY <1>2, FrontAndLast DEF Texts
<1> QED BY <1>1, <1>2

LEMMA ComposedIs ==
  ASSUME NEW m \in Composed
  PROVE  /\ m.uid \in Texts
         /\ m.options \in {0, NoFormat} /\ m.options \in Raws
         /\ m.feedback \in 0..(SanityCheck - 1) /\ m.feedback \in Raws
         /\ DOMAIN m.properties \subseteq Range(PropertyNames)
         /\ \A n \in DOMAIN m.properties : m.properties[n] \in Texts
         /\ DOMAIN m.properties = {} => m.properties = <<>>
         /\ Unformatted(m) /\ m.properties # <<>> => Data \in DOMAIN m.properties
         /\ Flat(m) \in Texts /\ Crc(Flat(m)) \in Int
         /\ m = [uid |-> m.uid, options |-> m.options, feedback |-> m.feedback,
                 properties |-> m.properties]
<1>1. /\ m \in [uid : Uids, options : {0, NoFormat}, feedback : Feedbacks,
                properties : UNION {[S -> PropertyValues] : S \in SUBSET Range(PropertyNames)}]
      /\ m.options = NoFormat /\ m.properties # <<>> => Data \in DOMAIN m.properties
  BY DEF Composed
<1>2. m.uid \in Uids /\ m.options \in {0, NoFormat} /\ m.feedback \in Feedbacks
  BY <1>1
<1>3. m = [uid |-> m.uid, options |-> m.options, feedback |-> m.feedback,
           properties |-> m.properties]
  BY <1>1
<1>4. PICK S \in SUBSET Range(PropertyNames) : m.properties \in [S -> PropertyValues]
  BY <1>1
<1>5. /\ m.uid \in Texts
      /\ m.feedback \in 0..(SanityCheck - 1)
      /\ PropertyValues \subseteq Texts
  BY <1>2, WireAssumption DEF Texts
<1>6. m.options \in Raws /\ m.feedback \in Raws
  BY <1>2, <1>5 DEF Raws, NoFormat, SanityCheck
<1>7. DOMAIN m.properties = S /\ \A n \in S : m.properties[n] \in Texts
  BY <1>4, <1>5
<1>8. S = {} => m.properties = <<>>
  BY <1>4, EmptyFunction
<1>9. Unformatted(m) /\ m.properties # <<>> => Data \in S
  BY <1>1, <1>7 DEF Unformatted
<1>10. Flat(m) \in Texts
  <2>1. CASE m.properties = <<>>
    BY <2>1, CommaIs DEF Flat
  <2>2. CASE m.properties # <<>> /\ Unformatted(m)
    BY <1>7, <1>9, <2>2 DEF Flat
  <2>3. CASE m.properties # <<>> /\ ~Unformatted(m)
    <3>1. Count \in 0..Count
      BY NamesAre
    <3>2. Pairs(m.properties)[Count] \in Texts
      BY <1>7, <3>1, PairsAre
    <3>3. Front(Pairs(m.properties)[Count]) \in Texts
      BY <3>2, FrontIsText
    <3> QED BY <2>3, <3>3 DEF Flat, Flattened, Count
  <2> QED BY <2>1, <2>2, <2>3
<1>11. Crc(Flat(m)) \in Int
  BY WireAssumption
<1> QED BY <1>2, <1>3, <1>5, <1>6, <1>7, <1>8, <1>9, <1>10, <1>11

LEMMA FieldsLength ==
  ASSUME NEW u \in Texts, NEW o \in Raws, NEW f \in Raws, NEW n \in Nat, NEW q \in Texts
  PROVE  /\ Fields(u, o, f, n, q) \in Texts
         /\ Len(u) \in Nat /\ Len(Text[n]) \in Nat \ {0} /\ Len(q) \in Nat
         /\ Len(Fields(u, o, f, n, q)) >= Len(u) + Len(Text[n]) + Len(q) + 4
<1> DEFINE tu == Text[Len(u)]
           fl == <<Raw(o), Raw(f)>>
           tn == Text[n]
           sp == <<" ">>
           d  == sp \o q
           e  == tn \o d
           c  == fl \o e
           t  == u \o c
<1>1. Len(u) \in Nat /\ Len(q) \in Nat
  BY JoinedIs
<1>2. Len(tu) \in Nat \ {0} /\ Len(tn) \in Nat \ {0}
  BY <1>1, TextOfNumber
<1>3. tu \in Texts /\ tn \in Texts /\ fl \in Texts /\ sp \in Texts
  BY FieldTypes
<1>4. Len(fl) = 2 /\ Len(sp) = 1
  OBVIOUS
<1>5. Fields(u, o, f, n, q) = tu \o t
  BY DEF Fields
<1> HIDE DEF tu, fl, tn, sp
<1>6. d \in Texts /\ Len(d) = 1 + Len(q)
  <2>1. Len(d) = Len(sp) + Len(q)
    BY <1>3, JoinedIs
  <2>2. d \in Texts
    BY <1>3, Joins
  <2> QED BY <1>4, <2>1, <2>2
<1> HIDE DEF d
<1>7. e \in Texts /\ Len(e) = Len(tn) + Len(d)
  BY <1>3, <1>6, Joins, JoinedIs
<1> HIDE DEF e
<1>8. c \in Texts /\ Len(c) = 2 + Len(e)
  <2>1. Len(c) = Len(fl) + Len(e)
    BY <1>3, <1>7, JoinedIs
  <2>2. c \in Texts
    BY <1>3, <1>7, Joins
  <2> QED BY <1>4, <2>1, <2>2
<1> HIDE DEF c
<1>9. t \in Texts /\ Len(t) = Len(u) + Len(c)
  BY <1>8, Joins, JoinedIs
<1> HIDE DEF t
<1>10. tu \o t \in Texts /\ Len(tu \o t) = Len(tu) + Len(t)
  BY <1>3, <1>9, Joins, JoinedIs
<1>11. Len(tu \o t) >= Len(u) + Len(tn) + Len(q) + 4
  BY <1>1, <1>2, <1>6, <1>7, <1>8, <1>9, <1>10
<1> QED BY <1>1, <1>2, <1>5, <1>10, <1>11 DEF tn

LEMMA RestLength ==
  ASSUME NEW p \in Texts, NEW r \in Texts, p # <<>> => Crc(p) \in Int
  PROVE  /\ Len(p) \in Nat /\ Len(Rest(p, r)) \in Nat
         /\ Len(Rest(p, r)) >= 4
         /\ p # <<>> => /\ Len(p) > 0
                        /\ Len(Signed(Crc(p))) \in Nat
                        /\ Len(Rest(p, r)) >= Len(Signed(Crc(p))) + Len(p) + 5
<1> DEFINE y  == Footer \o r
           sp == <<" ">>
           cs == Signed(Crc(p))
           z  == p \o y
           d  == sp \o z
<1>1. y \in Texts /\ Len(y) = 4 + Len(r) /\ Len(r) \in Nat
  <2>1. Footer \in Texts /\ Len(Footer) = 4
    BY SpaceIs
  <2>2. Len(y) = Len(Footer) + Len(r) /\ Len(r) \in Nat
    BY <2>1, JoinedIs
  <2>3. y \in Texts
    BY <2>1, Joins
  <2> QED BY <2>1, <2>2, <2>3
<1>2. sp \in Texts /\ Len(sp) = 1
  BY SpaceIs
<1>3. Rest(p, r) = IF p = <<>> THEN y ELSE cs \o d
  BY DEF Rest
<1>4. p # <<>> => cs \in Texts
  BY SignedIs
<1>5. Len(p) \in Nat /\ (p # <<>> => Len(p) # 0)
  BY JoinedIs, EmptySeq DEF Texts
<1> HIDE DEF y, sp, cs
<1>6. z \in Texts /\ Len(z) = Len(p) + Len(y)
  BY <1>1, Joins, JoinedIs
<1> HIDE DEF z
<1>7. d \in Texts /\ Len(d) = 1 + Len(z)
  <2>1. Len(d) = Len(sp) + Len(z)
    BY <1>2, <1>6, JoinedIs
  <2>2. d \in Texts
    BY <1>2, <1>6, Joins
  <2> QED BY <1>2, <2>1, <2>2
<1> HIDE DEF d
<1>8. CASE p = <<>>
  <2>1. Len(Rest(p, r)) = 4 + Len(r)
    BY <1>1, <1>3, <1>8
  <2> QED BY <1>1, <1>5, <1>8, <2>1
<1>9. CASE p # <<>>
  <2>1. Len(cs \o d) = Len(cs) + Len(d) /\ Len(cs) \in Nat
    BY <1>4, <1>7, <1>9, JoinedIs
  <2>2. Len(Rest(p, r)) = Len(cs) + (1 + (Len(p) + (4 + Len(r))))
    BY <1>1, <1>3, <1>6, <1>7, <1>9, <2>1
  <2> QED BY <1>1, <1>5, <1>9, <2>1, <2>2 DEF cs
<1> QED BY <1>8, <1>9

\* What a plain message's properties are written as is what they are read from.
LEMMA PlainIs ==
  ASSUME NEW m \in Composed, Plain(m), m.properties # <<>>
  PROVE  /\ Flat(m) # <<>>
         /\ Unformatted(m) =>
              DOMAIN m.properties = {Data} /\ m.properties[Data] = Flat(m)
         /\ ~Unformatted(m) =>
              \E h : /\ Lists(Split[Flat(m)], h, m.properties) /\ h # 0
                     /\ NamesIn(Split[Flat(m)], h) = DOMAIN m.properties
<1> DEFINE props == m.properties
<1>1. props[PropertyNames[Max(Named(props))]] # <<>>
  BY DEF Plain, Named, Count
<1>2. /\ DOMAIN props \subseteq Range(PropertyNames) /\ DOMAIN props # {}
      /\ \A n \in DOMAIN props : props[n] \in Texts
  BY ComposedIs
<1>3. DOMAIN PropertyNames = 1..Count /\ Count \in Nat
  <2>1. PropertyNames \in Seq(Texts)
    BY WireAssumption DEF Texts
  <2> QED BY <2>1 DEF Count
<1>4. CASE Unformatted(m)
  <2>1. DOMAIN props = {Data}
    BY <1>4 DEF Plain
  <2>2. Flat(m) = props[Data]
    BY <1>4 DEF Flat
  <2>3. Named(props) \in SUBSET (1..Count) /\ Named(props) # {}
    BY <1>2, <1>3, <2>1 DEF Named, Range
  <2>4. Max(Named(props)) \in Named(props)
    BY <1>3, <2>3, GreatestNumber
  <2>5. PropertyNames[Max(Named(props))] = Data
    BY <2>1, <2>4 DEF Named
  <2> QED BY <1>1, <1>4, <2>1, <2>2, <2>5
<1>5. CASE ~Unformatted(m)
  <2>1. \A n \in DOMAIN props : ~Contains(n, Comma) /\ ~Contains(props[n], Comma)
    BY <1>5 DEF Plain
  <2>2. \A n \in DOMAIN props : n \in Texts
    BY <1>2, <1>3, NamesAre DEF Range
  <2>3. \A n \in DOMAIN props : n \in Seq(Others) /\ props[n] \in Seq(Others)
    BY <1>2, <2>1, <2>2, WithoutComma
  <2>4. Listable(props)
    BY <1>2, <2>3 DEF Listable
  <2>5. Flat(m) = Flattened(props)
    BY <1>5 DEF Flat
  <2> HIDE DEF props
  <2>6. /\ Flattened(props) # <<>>
        /\ \E h : /\ Lists(Split[Flattened(props)], h, props) /\ h # 0
                  /\ NamesIn(Split[Flattened(props)], h) = DOMAIN props
    BY <1>1, <2>4, FlattenedIs
  <2> QED BY <1>5, <2>5, <2>6 DEF props
<1> QED BY <1>4, <1>5

Functional == inbound.properties = [n \in DOMAIN inbound.properties |-> inbound.properties[n]]

\* What from_stream makes of a plain message and what follows it
LEMMA PlainArrives ==
  ASSUME NEW m \in Composed, Plain(m), NEW r \in Texts, NEW s, s = ToStream(m) \o r, Functional
  PROVE  /\ Header(s).legible /\ ~TooShort(Len(s))
         /\ Accepts(Header(s), Body(Header(s)), Len(s))
         /\ Parsed(Header(s), Body(Header(s))) =
              [m EXCEPT !.properties = Over(@, inbound.properties)]
         /\ PastFooter(Body(Header(s)).rest) = r
<1> DEFINE p   == Flat(m)
           q   == Rest(p, r)
           h   == Header(s)
           b   == Body(h)
           old == inbound.properties
<1>1. /\ m.uid \in Texts /\ m.options \in Raws /\ m.options \in {0, NoFormat}
      /\ m.feedback \in Raws /\ m.feedback < SanityCheck
      /\ p \in Texts /\ Crc(p) \in Int
      /\ m = [uid |-> m.uid, options |-> m.options, feedback |-> m.feedback,
              properties |-> m.properties]
  <2>1. m.feedback \in 0..(SanityCheck - 1) => m.feedback < SanityCheck
    BY DEF SanityCheck
  <2> QED BY <2>1, ComposedIs
<1>2. m.properties = <<>> => p = <<>>
  BY DEF Flat
<1>3. Len(p) \in Nat /\ (p = <<>> <=> Len(p) = 0)
  BY <1>1, JoinedIs, EmptySeq DEF Texts
<1>4. q \in Texts /\ s = Fields(m.uid, m.options, m.feedback, Len(p), q)
  BY <1>1, ToStreamIs
<1>5. /\ m.uid # <<>> => ~IsDigit(m.uid[1])
      /\ Len(p) <= MaxLength
      /\ m.properties # <<>> =>
           Len(m.uid) + Len(Text[Len(p)]) + Len(Signed(Crc(p))) >= 6
  BY DEF Plain
<1>6. h = [uid |-> m.uid, flags |-> <<Raw(m.options), Raw(m.feedback)>>, length |-> Len(p),
           body |-> q, legible |-> TRUE]
  <2> HIDE DEF p, q
  <2> QED BY <1>1, <1>3, <1>4, <1>5, HeaderIs
<1> HIDE DEF h, p
<1>7. /\ h.uid = m.uid /\ h.length = Len(p) /\ h.body = q /\ h.legible
      /\ h.flags[1] = Raw(m.options) /\ h.flags[2] = Raw(m.feedback)
  BY <1>6
<1>8. b = [valid |-> TRUE, props |-> p, rest |-> Footer \o r]
  BY <1>1, <1>7, BodyIs
<1> HIDE DEF b
<1>9. b.valid /\ b.props = p /\ b.rest = Footer \o r
  BY <1>8
<1>10. PastFooter(b.rest) = r
  BY <1>9, SpaceIs, Parts DEF PastFooter, Texts
<1>11. /\ Index(RawBytes, h.flags[1]) - 1 = m.options
       /\ Index(RawBytes, h.flags[2]) - 1 = m.feedback
       /\ h.flags[1] = Raw(NoFormat) <=> Unformatted(m)
  BY <1>1, <1>7, RawIs DEF Unformatted
<1> DEFINE lu == Len(m.uid)
           lt == Text[Len(p)]
           lc == Signed(Crc(p))
<1>12. /\ lu \in Nat /\ Len(lt) \in Nat \ {0} /\ Len(q) \in Nat
       /\ Len(s) >= lu + Len(lt) + Len(q) + 4
  BY <1>1, <1>3, <1>4, FieldsLength
<1>13. /\ Len(q) >= 4
       /\ p # <<>> => Len(p) > 0 /\ Len(lc) \in Nat /\ Len(q) >= Len(lc) + Len(p) + 5
  BY <1>1, RestLength
<1>14. Len(s) \in Nat
  <2>1. s \in Texts
    <3> HIDE DEF q
    <3>1. Fields(m.uid, m.options, m.feedback, Len(p), q) \in Texts
      BY <1>1, <1>3, <1>4, FieldsLength
    <3> QED BY <1>4, <3>1
  <2> QED BY <2>1, JoinedIs
<1>15. p # <<>> => lu + Len(lt) + Len(lc) >= 6
  BY <1>2, <1>5
<1> HIDE DEF lu, lt, lc, q
<1>16. ~TooShort(Len(s))
  <2>1. Len(s) >= 9
    BY <1>12, <1>13, <1>14
  <2>2. HeaderLength + Len(Footer) - 2 = 9
    <3>1. Len(Footer) = 4
      BY SpaceIs
    <3> QED BY ONLY <3>1 DEF HeaderLength
  <2> QED BY <1>14, <2>1, <2>2 DEF TooShort
<1>17. LongEnough(h, Len(s))
  <2>1. CASE p = <<>>
    BY <1>3, <1>7, <2>1 DEF LongEnough
  <2>2. CASE p # <<>>
    <3>1. Len(s) - 7 - 4 >= Len(p) + 4
      BY <1>3, <1>12, <1>13, <1>14, <1>15, <2>2
    <3> QED BY <1>7, <3>1, SpaceIs DEF LongEnough, HeaderLength, IntSize
  <2> QED BY <2>1, <2>2
<1>18. Sane(h)
  BY <1>1, <1>5, <1>7, <1>11 DEF Sane
<1>19. CASE m.properties = <<>>
  <2>1. h.length = 0
    BY <1>2, <1>3, <1>7, <1>19
  <2>2. Accepts(h, b, Len(s))
    BY <1>9, <1>17, <1>18, <2>1 DEF Accepts
  <2>3. Over(<<>>, old) = old
    <3>1. DOMAIN <<>> = {}
      OBVIOUS
    <3>2. Over(<<>>, old) = [n \in DOMAIN old |-> old[n]]
      BY <3>1 DEF Over
    <3> QED BY <3>2 DEF Functional
  <2>4. Parsed(h, b) = [uid |-> m.uid, options |-> m.options, feedback |-> m.feedback,
                        properties |-> old]
    BY <1>7, <1>11, <2>1 DEF Parsed
  <2>5. Parsed(h, b) = [m EXCEPT !.properties = Over(@, old)]
    BY <1>1, <1>19, <2>3, <2>4
  <2> QED BY <1>7, <1>10, <1>16, <2>2, <2>5 DEF h, b
<1>20. CASE m.properties # <<>> /\ Unformatted(m)
  <2>1. p # <<>> /\ DOMAIN m.properties = {Data} /\ m.properties[Data] = p
    BY <1>20, PlainIs DEF p
  <2>2. h.length # 0
    BY <1>3, <1>7, <2>1
  <2>3. Accepts(h, b, Len(s))
    BY <1>9, <1>11, <1>17, <1>18, <1>20 DEF Accepts
  <2>4. SetProperty(old, Data, p) = Over(m.properties, old)
    <3>1. SetProperty(old, Data, p) =
            [n \in DOMAIN old \union {Data} |-> IF n = Data THEN p ELSE old[n]]
      BY DEF SetProperty
    <3>2. Over(m.properties, old) =
            [n \in {Data} \union DOMAIN old |-> IF n \in {Data} THEN m.properties[n] ELSE old[n]]
      BY <2>1 DEF Over
    <3> QED BY <2>1, <3>1, <3>2
  <2>5. Parsed(h, b) = [uid |-> m.uid, options |-> m.options, feedback |-> m.feedback,
                        properties |-> SetProperty(old, Data, p)]
    BY <1>7, <1>9, <1>11, <1>20, <2>2 DEF Parsed
  <2>6. Parsed(h, b) = [m EXCEPT !.properties = Over(@, old)]
    BY <1>1, <2>4, <2>5
  <2> QED BY <1>7, <1>10, <1>16, <2>3, <2>6 DEF h, b
<1>21. CASE m.properties # <<>> /\ ~Unformatted(m)
  <2>1. PICK k : /\ p # <<>> /\ Lists(Split[p], k, m.properties) /\ k # 0
                 /\ NamesIn(Split[p], k) = DOMAIN m.properties
    BY <1>21, PlainIs DEF p
  <2>2. h.length # 0
    BY <1>3, <1>7, <2>1
  <2>3. Len(Split[p]) > 0 /\ Len(Split[p]) % 2 = 0
    <3>1. k \in Nat /\ k # 0 /\ Len(Split[p]) = 2 * k
      BY <2>1 DEF Lists
    <3> QED BY ONLY <3>1
  <2>4. Accepts(h, b, Len(s))
    BY <1>9, <1>17, <1>18, <2>3 DEF Accepts
  <2>5. SetProperties(old, Split[p]) = Over(m.properties, old)
    BY <2>1, SetPropertiesIs
  <2>6. Parsed(h, b) = [uid |-> m.uid, options |-> m.options, feedback |-> m.feedback,
                        properties |-> SetProperties(old, Split[p])]
    BY <1>7, <1>9, <1>11, <1>21, <2>2 DEF Parsed
  <2>7. Parsed(h, b) = [m EXCEPT !.properties = Over(@, old)]
    BY <1>1, <2>5, <2>6
  <2> QED BY <1>7, <1>10, <1>16, <2>4, <2>7 DEF h, b
<1> QED BY <1>19, <1>20, <1>21

\* What from_stream leaves is text.
LEMMA LeftIsText ==
  ASSUME NEW s \in Texts
  PROVE  PastFooter(Body(Header(s)).rest) \in Texts
<1> DEFINE first  == Digits(s)
           after  == From(s, Len(first))
           flags  == From(after, Number[first])
           second == Digits(From(flags, 2))
           h      == Header(s)
           sum    == SignedDigits(h.body)
           t      == From(h.body, Len(sum) + 1)
<1>1. \A x \in Texts : Digits(x) \in Seq(Range(Decimals)) /\ Len(Digits(x)) \in Nat
  <2>1. \A x \in Texts : Digits(x) \in Seq(Range(Decimals))
    BY DigitsIs DEF Texts
  <2>2. \A y \in Seq(Range(Decimals)) : Len(y) \in Nat
    OBVIOUS
  <2> QED BY <2>1, <2>2
<1>2. \A x \in Texts, n \in Nat : From(x, n) \in Texts
  BY FromIs DEF Texts
<1>3. \A x \in Seq(Range(Decimals)) : Number[x] \in Nat
  BY NumberIs
<1>4. after \in Texts
  BY <1>1, <1>2
<1>5. flags \in Texts
  <2> HIDE DEF after
  <2> QED BY <1>1, <1>2, <1>3, <1>4
<1>6. From(flags, 2) \in Texts
  <2> HIDE DEF flags
  <2> QED BY <1>2, <1>5
<1>7. second \in Seq(Range(Decimals)) /\ Len(second) \in Nat
  <2> HIDE DEF flags
  <2> QED BY <1>1, <1>6
<1>8. h.body = From(flags, 3 + Len(second)) /\ h.length = Number[second]
  BY DEF Header
<1>9. h.body \in Texts /\ h.length \in Nat
  <2> HIDE DEF flags, second, h
  <2>1. 3 + Len(second) \in Nat
    BY <1>7
  <2> QED BY <1>2, <1>3, <1>5, <1>7, <1>8, <2>1
<1> HIDE DEF h
<1>10. Len(sum) \in Nat
  <2> DEFINE x == h.body
             dash == <<"-">>
             y == Digits(From(x, 1))
  <2>1. SignedDigits(x) = IF Negative(x) THEN dash \o y ELSE Digits(x)
    BY DEF SignedDigits
  <2>2. Digits(x) \in Seq(Range(Decimals)) /\ y \in Seq(Range(Decimals))
    BY <1>1, <1>2, <1>9
  <2>3. dash \in Texts
    <3>1. "-" \in Characters
      BY WireAssumption
    <3> QED BY <3>1, TwoOf DEF Texts
  <2>4. Digits(x) \in Texts /\ y \in Texts
    BY <2>2, DecimalsAre, SeqMonotonic DEF Texts
  <2> HIDE DEF x, y, dash
  <2>5. dash \o y \in Texts
    BY <2>3, <2>4, Joins
  <2>6. SignedDigits(x) \in Texts
    BY <2>1, <2>4, <2>5
  <2> QED BY <2>6, JoinedIs DEF x
<1>11. t \in Texts
  <2>1. Len(sum) + 1 \in Nat
    BY <1>10
  <2> HIDE DEF sum
  <2> QED BY <1>2, <1>9, <2>1
<1>12. Body(h).rest \in Texts
  <2>1. Body(h).rest = IF h.length = 0 THEN h.body ELSE From(t, h.length)
    BY DEF Body
  <2> HIDE DEF t
  <2> QED BY <1>2, <1>9, <1>11, <2>1
<1>13. \A x \in Texts : PastFooter(x) \in Texts
  BY <1>2, SpaceIs DEF PastFooter
<1> QED BY <1>12, <1>13 DEF h

WireInv == stream \in Texts /\ queue \in Seq(Composed) /\ Functional

LEMMA InitWireInv == WireInit => WireInv
<1> SUFFICES ASSUME WireInit PROVE WireInv
  OBVIOUS
<1>1. stream \in Texts /\ queue \in Seq(Composed)
  BY CommaIs DEF WireInit
<1>2. inbound.properties = <<>>
  BY DEF WireInit, Unread
<1>3. <<>> = [n \in DOMAIN <<>> |-> <<>>[n]]
  OBVIOUS
<1> QED BY <1>1, <1>2, <1>3 DEF WireInv, Functional

LEMMA NextWireInv == WireInv /\ [WireNext]_wireVars => WireInv'
<1> SUFFICES ASSUME WireInv, [WireNext]_wireVars PROVE WireInv'
  OBVIOUS
<1>1. CASE FromStream
  <2>1. stream' = stream \/ stream' = PastFooter(Body(Header(stream)).rest)
    BY <1>1 DEF FromStream
  <2>2. stream' \in Texts
    BY <2>1, LeftIsText DEF WireInv
  <2>3. queue' \in Seq(Composed)
    BY <1>1, FromIs DEF FromStream, WireInv
  <2>4. inbound' = inbound \/ \E h, b : inbound' = Parsed(h, b)
    BY <1>1 DEF FromStream
  <2>5. ASSUME NEW h, NEW b, inbound' = Parsed(h, b) PROVE Functional'
    <3>1. \/ inbound'.properties = inbound.properties
          \/ inbound'.properties = SetProperty(inbound.properties, Data, b.props)
          \/ inbound'.properties = SetProperties(inbound.properties, Split[b.props])
      BY <2>5 DEF Parsed
    <3>2. CASE inbound'.properties = inbound.properties
      BY <3>2 DEF WireInv, Functional
    <3>3. CASE inbound'.properties = SetProperty(inbound.properties, Data, b.props)
      BY <3>3 DEF SetProperty, Functional
    <3>4. CASE inbound'.properties = SetProperties(inbound.properties, Split[b.props])
      BY <3>4 DEF SetProperties, Functional
    <3> QED BY <3>1, <3>2, <3>3, <3>4
  <2>6. Functional'
    <3>1. CASE inbound' = inbound
      BY <3>1 DEF WireInv, Functional
    <3> QED BY <2>4, <2>5, <3>1
  <2> QED BY <2>2, <2>3, <2>6 DEF WireInv
<1>2. CASE Read
  <2>1. stream' \in Texts /\ queue' \in Seq(Composed)
    BY <1>2, CommaIs DEF Read
  <2>2. inbound'.properties = <<>>
    BY <1>2 DEF Read, Unread
  <2>3. <<>> = [n \in DOMAIN <<>> |-> <<>>[n]]
    OBVIOUS
  <2> QED BY <2>1, <2>2, <2>3 DEF WireInv, Functional
<1>3. ASSUME NEW m \in Composed, Write(m) PROVE WireInv'
  <2>1. ToStream(m) \in Texts
    BY ComposedIs, ToStreamIs
  <2>2. stream' \in Texts
    BY <1>3, <2>1, Joins DEF Write, WireInv
  <2>3. queue' \in Seq(Composed)
    BY <1>3 DEF Write, WireInv
  <2> QED BY <1>3, <2>2, <2>3 DEF WireInv, Functional, Write
<1>4. CASE UNCHANGED wireVars
  BY <1>4 DEF wireVars, WireInv, Functional
<1> QED BY <1>1, <1>2, <1>3, <1>4 DEF WireNext

LEMMA WireInvariance == WireSpec => []WireInv
<1> QED BY InitWireInv, NextWireInv, PTL DEF WireSpec

LEMMA PrefixIs ==
  ASSUME NEW a \in Texts, NEW s \in Texts, IsPrefix(a, s)
  PROVE  \E r \in Texts : s = a \o r
<1> DEFINE n == Len(a)
           r == From(s, n)
           t == a \o r
<1>1. n \in Nat /\ Len(s) \in Nat /\ n <= Len(s)
  BY JoinedIs DEF IsPrefix
<1>2. r \in Texts /\ Len(r) = Len(s) - n /\ \A i \in 1..Len(r) : r[i] = s[n + i]
  <2>1. /\ r \in Texts /\ Len(r) = IF n < Len(s) THEN Len(s) - n ELSE 0
        /\ \A i \in 1..Len(r) : r[i] = s[n + i]
    BY <1>1, FromIs DEF Texts
  <2> HIDE DEF r, n
  <2> QED BY <1>1, <2>1
<1>3. \A i \in 1..n : s[i] = a[i]
  <2>1. SubSeq(a, 1, n) = SubSeq(s, 1, n)
    BY DEF IsPrefix
  <2>2. SubSeq(a, 1, n) = a
    BY SubSeqFull DEF Texts
  <2>3. \A i \in 1..n : s[i] \in Characters
    BY <1>1, ElementOfSeq DEF Texts
  <2>4. \A i \in 1..n : SubSeq(s, 1, n)[i] = s[i]
    BY <1>1, <2>3, SubSeqProperties DEF Texts
  <2> QED BY <2>1, <2>2, <2>4
<1> HIDE DEF r
<1>4. /\ t \in Texts /\ Len(t) = n + Len(r)
      /\ \A i \in 1..n : t[i] = a[i]
      /\ \A i \in 1..Len(r) : t[n + i] = r[i]
  BY <1>2 DEF Texts
<1> HIDE DEF t, n
<1>5. Len(t) = Len(s)
  BY <1>1, <1>2, <1>4
<1>6. \A i \in 1..Len(s) : t[i] = s[i]
  <2>1. SUFFICES ASSUME NEW i \in 1..Len(s) PROVE t[i] = s[i]
    OBVIOUS
  <2>2. CASE i <= n
    BY <1>1, <1>3, <1>4, <2>2
  <2>3. CASE ~(i <= n)
    <3>1. i - n \in 1..Len(r) /\ n + (i - n) = i
      BY <1>1, <1>2, <2>3
    <3> QED BY <1>2, <1>4, <3>1
  <2> QED BY <2>2, <2>3
<1>7. t = s
  BY <1>4, <1>5, <1>6, SeqEqual DEF Texts
<1> QED BY <1>2, <1>7 DEF t

\* A message that the format can carry arrives as it was sent, on top of the properties
\* of those before it in the buffer, and the next one is found where it ends: for
\* every alphabet, checksum, set of names and values, and length.
\* (message.cpp:152-283)
THEOREM MessagesArrive == WireSpec => RoundTrip
<1> DEFINE Arrives ==
      (FromStream /\ queue # <<>>) =>
        LET m == Head(queue)
        IN  (Plain(m) /\ IsPrefix(ToStream(m), stream)) =>
              /\ status' = "open"
              /\ inbound' = [m EXCEPT !.properties = Over(@, inbound.properties)]
              /\ stream = ToStream(m) \o stream'
<1>1. ASSUME WireInv, FromStream, queue # <<>>, Plain(Head(queue)),
             IsPrefix(ToStream(Head(queue)), stream)
      PROVE  /\ status' = "open"
             /\ inbound' = [Head(queue) EXCEPT !.properties = Over(@, inbound.properties)]
             /\ stream = ToStream(Head(queue)) \o stream'
  <2> DEFINE m == Head(queue)
             h == Header(stream)
             b == Body(h)
  <2>1. m \in Composed
    BY <1>1 DEF WireInv
  <2> HIDE DEF m
  <2>2. ToStream(m) \in Texts
    BY <2>1, ComposedIs, ToStreamIs
  <2>3. stream \in Texts /\ Functional
    BY <1>1 DEF WireInv
  <2>4. PICK r \in Texts : stream = ToStream(m) \o r
    BY <1>1, <2>2, <2>3, PrefixIs DEF m
  <2>5. /\ h.legible /\ ~TooShort(Len(stream)) /\ Accepts(h, b, Len(stream))
        /\ Parsed(h, b) = [m EXCEPT !.properties = Over(@, inbound.properties)]
        /\ PastFooter(b.rest) = r
    BY <1>1, <2>1, <2>3, <2>4, PlainArrives DEF m
  <2>6. inbound' = Parsed(h, b) /\ stream' = PastFooter(b.rest) /\ status' = status
        /\ status = "open"
    <3> HIDE DEF h
    <3> QED BY <1>1, <2>5 DEF FromStream, h
  <2> QED BY <2>4, <2>5, <2>6 DEF m
<1>2. WireInv /\ [WireNext]_wireVars => [Arrives]_wireVars
  BY <1>1
<1>3. WireSpec => [][Arrives]_wireVars
  BY <1>2, WireInvariance, PTL DEF WireSpec
<1> QED BY <1>3 DEF RoundTrip
====================================================================================
