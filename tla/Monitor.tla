--------------------------------- MODULE Monitor ---------------------------------
(***************************************************************************)
(* The monitor (src/src/monitor.cpp): statistics and cumulative averages   *)
(* that clients register under a name and update by the identifier they    *)
(* are handed.  Identifiers and values keep their width: the code's are 16 *)
(* and 64 bits, and the arithmetic wraps around.                           *)
(***************************************************************************)
EXTENDS Integers, Sequences, SequencesExt

CONSTANTS
  Names,       \* the names of statistics
  IdSize,      \* 2^16: the number of identifiers
  ValSize,     \* 2^64: the number of values
  MaxTracked,  \* bounds the registrations
  MaxUpdates   \* bounds the updates: a population never comes near 2^64

ASSUME MonitorAssumption ==
  /\ IdSize \in Nat \ {0}
  /\ ValSize \in Nat \ {0}
  /\ MaxTracked \in Nat
  /\ MaxUpdates \in Nat /\ MaxUpdates < ValSize

Ids    == 0..(IdSize - 1)
Values == 0..(ValSize - 1)
Blank  == ""

VARIABLES
  guid,      \* __guid
  names,     \* stat_names_
  stats,     \* stats_
  averages,  \* avg_stats_: [pop, val], and [sum, least] of what was entered
  updates,   \* the number of updates
  handed,    \* the names that each identifier was handed out for
  running    \* FALSE once undefined behaviour ended the process

vars == <<guid, names, stats, averages, updates, handed, running>>

\* std::map: a function from some of the identifiers, and operator[] =
IsMap(map, S)    == DOMAIN map \subseteq Ids /\ map \in [DOMAIN map -> S]
Put(map, id, v)  == [k \in DOMAIN map \union {id} |-> IF k = id THEN v ELSE map[k]]

Fresh   == [pop |-> 0, val |-> 0, sum |-> 0, least |-> ValSize - 1]
Average == [pop : 0..MaxUpdates, val : Values, sum : Nat, least : Values]

TypeOK ==
  /\ guid \in 0..MaxTracked
  /\ IsMap(names, Names \union {Blank})
  /\ IsMap(stats, Values)
  /\ IsMap(averages, Seq(Average))
  /\ updates \in 0..MaxUpdates
  /\ handed \in [Ids -> SUBSET Names]
  /\ running \in BOOLEAN

Init ==
  /\ guid = 0
  /\ names = <<>>
  /\ stats = <<>>
  /\ averages = <<>>
  /\ updates = 0
  /\ handed = [id \in Ids |-> {}]
  /\ running = TRUE

-----------------------------------------------------------------------------
(***************************************************************************)
(* Registration.  insert keeps the entry it finds.                         *)
(***************************************************************************)
Inserted(map, id, v) == IF id \in DOMAIN map THEN map ELSE Put(map, id, v)

Registered(n) == \E id \in DOMAIN names : names[id] = n

\* Mutant of NextId: __guid++.
NextId_PostIncrement == guid % IdSize

NextId == (guid + 1) % IdSize

\* A name that is registered gets 0 and changes nothing.
Register(n) ==
  /\ running /\ ~Registered(n) /\ guid < MaxTracked
  /\ guid' = guid + 1
  /\ names' = Inserted(names, NextId, n)
  /\ handed' = [handed EXCEPT ![NextId] = @ \union {n}]
  /\ UNCHANGED <<updates, running>>

TrackStat(n) ==
  /\ Register(n)
  /\ stats' = Inserted(stats, NextId, 0)
  /\ UNCHANGED averages

TrackAvgStat(n) ==
  /\ Register(n)
  /\ averages' = Inserted(averages, NextId, <<Fresh>>)
  /\ UNCHANGED stats

-----------------------------------------------------------------------------
(***************************************************************************)
(* Clients use the identifiers they were handed, and those that were       *)
(* refused use 0.  operator[] inserts what it does not find.               *)
(***************************************************************************)
Held == {0} \union {id \in Ids : handed[id] # {}}

Update(id) ==
  /\ running /\ id \in Held /\ updates < MaxUpdates
  /\ updates' = updates + 1
  /\ UNCHANGED <<guid, names, handed>>

AddTo(id, n) ==
  /\ Update(id)
  /\ stats' = LET found == Inserted(stats, id, 0)
              IN  [found EXCEPT ![id] = (@ + n) % ValSize]
  /\ UNCHANGED <<averages, running>>

IncStat(id) == AddTo(id, 1)
DecStat(id) == AddTo(id, ValSize - 1)

NameOf(id) ==
  /\ running /\ id \in Held
  /\ names' = Inserted(names, id, Blank)
  /\ UNCHANGED <<guid, stats, averages, updates, handed, running>>

\* the arithmetic of uint64_t
Product(a)      == (a.val * a.pop) % ValSize
Plus(x, y)      == (x + y) % ValSize
\* Mutant of Overflows: the check is left out.
Overflows_Never(a, e) == FALSE

Overflows(a, e) == Plus(Product(a), e) < Product(a)

\* Mutant of Entered: the average is rounded up.
Entered_RoundsUp(a, e) ==
  [pop   |-> a.pop + 1,
   val   |-> (Plus(Product(a), e) + a.pop) \div (a.pop + 1),
   sum   |-> a.sum + e,
   least |-> IF e < a.least THEN e ELSE a.least]

Entered(a, e) ==
  [pop   |-> a.pop + 1,
   val   |-> Plus(Product(a), e) \div (a.pop + 1),
   sum   |-> a.sum + e,
   least |-> IF e < a.least THEN e ELSE a.least]

AvgStat(id, e) ==
  /\ Update(id)
  /\ id \in DOMAIN averages /\ averages[id] # <<>>
  /\ LET all == averages[id]
         a   == Last(all)
     IN  averages' = [averages EXCEPT ![id] =
           IF Overflows(a, e) THEN Append(all, Entered(Fresh, e))
                              ELSE [all EXCEPT ![Len(all)] = Entered(a, e)]]
  /\ UNCHANGED <<stats, running>>

\* back() of an empty vector
AvgStatOfNone(id) ==
  /\ Update(id)
  /\ id \in DOMAIN averages => averages[id] = <<>>
  /\ averages' = Inserted(averages, id, <<>>)
  /\ running' \in BOOLEAN
  /\ UNCHANGED stats

Next ==
  \/ \E n \in Names : TrackStat(n) \/ TrackAvgStat(n)
  \/ \E id \in Ids : IncStat(id) \/ DecStat(id) \/ NameOf(id) \/ AvgStatOfNone(id)
  \/ \E id \in Ids, e \in Values : AvgStat(id, e)

Spec == Init /\ [][Next]_vars

-----------------------------------------------------------------------------
Entries ==
  {a \in UNION {{averages[id][i] : i \in 1..Len(averages[id])} : id \in DOMAIN averages} :
     a.pop > 0}

\* No entry of an average is lost: what it falls behind the exact sum of its
\* population is only what the divisions rounded off, less than one unit of each
\* entry before.  Had a sum wrapped around past the check, it would have fallen
\* behind by ValSize.  (monitor.cpp:140-155)
RoundingIsBounded ==
  \A a \in Entries : 2 * (a.sum - a.val * a.pop) <= a.pop * (a.pop - 1)

\* The check, whose own product and sum are reduced modulo 2^64, is right about the
\* exact ones: an entry goes into the last population if and only if the sum that
\* its average is recalculated from fits.  (monitor.cpp:140-155)
OverflowIsCaught ==
  [][\A id \in DOMAIN averages : averages'[id] # averages[id] =>
       LET a == Last(averages[id])
           b == Last(averages'[id])
       IN  IF Len(averages'[id]) = Len(averages[id])
           THEN a.val * a.pop + (b.sum - a.sum) < ValSize
           ELSE a.val * a.pop + b.sum >= ValSize]_averages

\* An average lies between the least entry of its population and the mean of
\* it, whatever was rounded off on the way.  (monitor.cpp:155)
BetweenLeastAndMean == \A a \in Entries : a.least <= a.val /\ a.val * a.pop <= a.sum

\* The value is the cumulative average, rounded down: "the actual cumulative
\* average value" (monitor.hpp:44).  Not so: what each update rounds off adds up, and
\* the average of 0, 1 and 2 is 0.  (monitor.cpp:155)
AverageIsMean == \A a \in Entries : a.val = a.sum \div a.pop

\* Until the identifiers have wrapped around, every name has one of its own that
\* to_string finds it by, and none has the 0 that says "already registered".
\* (monitor.cpp:82-121)
IdsAreUnique ==
  guid < IdSize =>
    \A id \in Ids : handed[id] # {} =>
      id # 0 /\ id \in DOMAIN names /\ handed[id] = {names[id]}
=============================================================================
