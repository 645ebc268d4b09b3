-------------------------------- MODULE Analytics --------------------------------
(***************************************************************************)
(* Analytics sheets and the trackers that share them                       *)
(* (src/src/analytics/).  A sheet owns its nested sheets and knows the     *)
(* trackers attached to it; a tracker whose sheet is not nested deletes it *)
(* when it dies.  Nothing counts references, so that who outlives whom     *)
(* decides whether a pointer dangles.                                      *)
(*                                                                         *)
(* What is undefined (a pointer to what was deleted is followed) ends the  *)
(* process or goes by unnoticed.                                           *)
(***************************************************************************)

CONSTANTS Sheets, Trackers, Titles

Null == "null"

ASSUME AnalyticsAssumption ==
  Null \notin Sheets \union Trackers /\ Sheets \intersect Trackers = {}

VARIABLES
  existence,  \* of each sheet and tracker: "none", "alive" or "dead"
  title,      \* title_
  parent,     \* parent_
  nested,     \* children_, as a set: its order decides nothing
  trackers,   \* trackers_, as a set: to be detached twice makes no difference
  full,       \* whether the sheet has stats of its own
  ss,         \* ss_ of each tracker
  sent,       \* the sheets whose stats the last commit sent
  committed,  \* and the sheet that was committed
  causes,     \* what was done that no pointer is kept right for
  running     \* FALSE once undefined behaviour ended the process

links == <<title, parent, nested>>
analyticsVars == <<existence, links, trackers, full, ss, sent, committed, causes, running>>

Live(x) == x # Null /\ existence[x] = "alive"
Causes  == {"copied", "reparented", "outlived"}

AnalyticsTypeOK ==
  /\ existence \in [Sheets \union Trackers -> {"none", "alive", "dead"}]
  /\ title \in [Sheets -> Titles \union {Null}]
  /\ parent \in [Sheets -> Sheets \union {Null}]
  /\ nested \in [Sheets -> SUBSET Sheets]
  /\ trackers \in [Sheets -> SUBSET Trackers]
  /\ full \in [Sheets -> BOOLEAN]
  /\ ss \in [Trackers -> Sheets \union {Null}]
  /\ sent \subseteq Sheets
  /\ committed \in Sheets \union {Null}
  /\ causes \subseteq Causes
  /\ running \in BOOLEAN

AnalyticsInit ==
  /\ existence = [x \in Sheets \union Trackers |-> "none"]
  /\ title = [s \in Sheets |-> Null]
  /\ parent = [s \in Sheets |-> Null]
  /\ nested = [s \in Sheets |-> {}]
  /\ trackers = [s \in Sheets |-> {}]
  /\ full = [s \in Sheets |-> FALSE]
  /\ ss = [t \in Trackers |-> Null]
  /\ sent = {} /\ committed = Null
  /\ causes = {} /\ running = TRUE

Quiet == sent' = {} /\ committed' = Null

\* Execution goes on unless what was done is undefined.
Proceed(defined) == running' \in IF defined THEN {TRUE} ELSE BOOLEAN

-----------------------------------------------------------------------------
(***************************************************************************)
(* Deleting a sheet                                                        *)
(***************************************************************************)
NestedIn(s) == {c \in nested[s] : Live(c)}

\* The sheet and those nested in it, at any depth
Tree(s) ==
  {x \in Sheets : \A S \in SUBSET Sheets :
     s \in S /\ (\A p \in S : NestedIn(p) \subseteq S) => x \in S}

Touched(S) == UNION {trackers[s] : s \in S}

\* ~sheet_t detaches the trackers of the sheet and deletes the nested sheets.
\* A tracker that is gone is written to, and a nested sheet that is gone is
\* deleted again.
IsDefined(S) ==
  /\ \A t \in Touched(S) : Live(t)
  /\ \A s \in S : \A c \in nested[s] : Live(c)

\* Mutant: the trackers of the sheet are not detached.
Delete_KeepsTrackers(S, dying) ==
  /\ existence' = [x \in Sheets \union Trackers |->
                IF x \in S \union dying THEN "dead" ELSE existence[x]]
  /\ ss' = [t \in Trackers |-> IF t \in dying THEN Null ELSE ss[t]]
  /\ UNCHANGED <<links, trackers, full>>

Delete(S, dying) ==
  /\ existence' = [x \in Sheets \union Trackers |->
                IF x \in S \union dying THEN "dead" ELSE existence[x]]
  /\ ss' = [t \in Trackers |-> IF t \in Touched(S) \union dying THEN Null ELSE ss[t]]
  /\ nested' = [s \in Sheets |-> IF s \in S THEN {} ELSE nested[s]]
  /\ trackers' = [s \in Sheets |-> IF s \in S THEN {} ELSE trackers[s]]
  /\ parent' = [s \in Sheets |-> IF s \in S THEN Null ELSE parent[s]]
  /\ title' = [s \in Sheets |-> IF s \in S THEN Null ELSE title[s]]
  /\ full' = [s \in Sheets |-> IF s \in S THEN FALSE ELSE full[s]]

-----------------------------------------------------------------------------
(***************************************************************************)
(* Trackers                                                                *)
(***************************************************************************)
Attached(t, s) ==
  /\ ss' = [ss EXCEPT ![t] = s]
  /\ trackers' = [trackers EXCEPT ![s] = @ \union {t}]

ConstructTracker(t) ==
  /\ running /\ existence[t] = "none"
  /\ existence' = [existence EXCEPT ![t] = "alive"]
  /\ Quiet /\ UNCHANGED <<links, trackers, full, ss, causes, running>>

\* build_sheet and attach_sheet throw out_of_ink if there is a sheet.
BuildSheet(t, s, name) ==
  /\ running /\ Live(t) /\ ss[t] = Null /\ existence[s] = "none"
  /\ existence' = [existence EXCEPT ![s] = "alive"]
  /\ title' = [title EXCEPT ![s] = name]
  /\ Attached(t, s)
  /\ Quiet /\ UNCHANGED <<parent, nested, full, causes, running>>

AttachSheet(t, s) ==
  /\ running /\ Live(t) /\ ss[t] = Null /\ Live(s)
  /\ Attached(t, s)
  /\ Quiet /\ UNCHANGED <<existence, links, full, causes, running>>

\* "The sheet will be simply linked": it does not know of the copy.
CopyTracker(t, src) ==
  /\ running /\ t # src /\ existence[t] # "dead" /\ Live(src)
  /\ existence' = [existence EXCEPT ![t] = "alive"]
  /\ ss' = [ss EXCEPT ![t] = ss[src]]
  /\ causes' = causes \union {"copied"}
  /\ Quiet /\ UNCHANGED <<links, trackers, full, running>>

\* Mutant: the sheet is left behind.
DestroyTracker_NeverDeletes(t) ==
  /\ running /\ Live(t)
  /\ Delete({}, {t})
  /\ Quiet /\ UNCHANGED <<causes, running>>

DestroyTracker(t) ==
  /\ running /\ Live(t)
  /\ LET s == ss[t]
     IN  IF s # Null /\ parent[s] = Null
         THEN /\ Delete(Tree(s), {t})
              /\ Proceed(Live(s) /\ IsDefined(Tree(s)))
              /\ UNCHANGED causes
         ELSE /\ Delete({}, {t})
              /\ Proceed(s = Null \/ Live(s))
              /\ causes' = causes \union (IF s = Null THEN {} ELSE {"outlived"})
  /\ Quiet

-----------------------------------------------------------------------------
(***************************************************************************)
(* Sheets, which clients reach through a tracker or a reference to one     *)
(***************************************************************************)
Titled(s, name) == {c \in nested[s] : title[c] = name}

\* operator[] finds the nested sheet with that title, or else makes it.
Nest(s, name, c) ==
  /\ running /\ Live(s) /\ existence[c] = "none" /\ Titled(s, name) = {}
  /\ existence' = [existence EXCEPT ![c] = "alive"]
  /\ title' = [title EXCEPT ![c] = name]
  /\ parent' = [parent EXCEPT ![c] = s]
  /\ nested' = [nested EXCEPT ![s] = @ \union {c}]
  /\ Quiet /\ UNCHANGED <<trackers, full, ss, causes, running>>

\* set_parent does not tell the parent.  Bound: it is called once.
SetParent(s, p) ==
  /\ running /\ "reparented" \notin causes /\ Live(s) /\ (p = Null \/ Live(p)) /\ p # parent[s]
  /\ p # Null => s \notin Tree(p) /\ p \notin Tree(s)
  /\ parent' = [parent EXCEPT ![s] = p]
  /\ causes' = causes \union {"reparented"}
  /\ Quiet /\ UNCHANGED <<existence, title, nested, trackers, full, ss, running>>

\* add_stat, inc_stat and bool_stat
AddStat(s) ==
  /\ running /\ Live(s) /\ ~full[s]
  /\ full' = [full EXCEPT ![s] = TRUE]
  /\ Quiet /\ UNCHANGED <<existence, links, trackers, ss, causes, running>>

\* Mutant: the nested sheets are not asked.
IsEmpty_OwnOnly(s) == ~full[s]

IsEmpty(s) == \A x \in Tree(s) : ~full[x]

\* commit sends the stats of the sheet and of those nested in it.
Commit(s) ==
  /\ running /\ Live(s)
  /\ sent' = IF IsEmpty(s) THEN {} ELSE {x \in Tree(s) : full[x]}
  /\ committed' = s
  /\ Proceed(\A x \in Tree(s), c \in Sheets : c \in nested[x] => Live(c))
  /\ UNCHANGED <<existence, links, trackers, full, ss, causes>>

AnalyticsNext ==
  \/ \E t \in Trackers : ConstructTracker(t) \/ DestroyTracker(t)
  \/ \E t \in Trackers, s \in Sheets : AttachSheet(t, s)
  \/ \E t \in Trackers, s \in Sheets, name \in Titles : BuildSheet(t, s, name)
  \/ \E t, src \in Trackers : CopyTracker(t, src)
  \/ \E s, c \in Sheets, name \in Titles : Nest(s, name, c)
  \/ \E s \in Sheets, p \in Sheets \union {Null} : SetParent(s, p)
  \/ \E s \in Sheets : AddStat(s) \/ Commit(s)

AnalyticsSpec == AnalyticsInit /\ [][AnalyticsNext]_analyticsVars

-----------------------------------------------------------------------------
\* As long as no tracker was copied, what a tracker points to exists and knows of it;
\* and nothing undefined happens to clients that do not copy trackers, do not use
\* set_parent, and let no tracker of a nested sheet die before the sheet.
\* (tracker.cpp:46-84, sheet.cpp:36-51)
TrackersAreLinked ==
  "copied" \notin causes =>
    \A t \in Trackers : (Live(t) /\ ss[t] # Null) => Live(ss[t]) /\ t \in trackers[ss[t]]

UndefinedHasCause == ~running => causes # {}

PointersAreSound == AnalyticsTypeOK /\ TrackersAreLinked /\ UndefinedHasCause

\* The sheet and those that it is nested in, by its and their parents
Ancestors(s) ==
  {x \in Sheets : \A S \in SUBSET Sheets :
     s \in S /\ (\A y \in S : parent[y] # Null => parent[y] \in S) => x \in S}

\* Without copies and set_parent no sheet is lost: above every sheet is one that
\* a tracker will delete.  (tracker.cpp:46-54, 70-76)
NoSheetIsLost ==
  (running /\ causes \intersect {"copied", "reparented"} = {}) =>
    \A s \in Sheets : Live(s) =>
      \E t \in Trackers : /\ Live(t) /\ ss[t] # Null
                          /\ parent[ss[t]] = Null
                          /\ ss[t] \in Ancestors(s)

\* What commit sends are the stats of all the sheets nested in the committed one,
\* whichever way they were nested.  (sheet.cpp:181-214; set_parent excepted)
CommitIsComplete ==
  (committed # Null /\ running /\ "reparented" \notin causes) =>
    sent = {x \in Sheets : /\ Live(x) /\ full[x]
                           /\ committed \in Ancestors(x)}

\* A sheet's children are those that have it for a parent: the list "is managed
\* internally by sheet_ts when set_parent() is called" (sheet.hpp:133).  Not so:
\* set_parent assigns the parent only.  (sheet.cpp:106-109)
ChildrenAreManaged ==
  \A s \in Sheets : (Live(s) /\ parent[s] # Null) => s \in nested[parent[s]]
=============================================================================
