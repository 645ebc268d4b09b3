------------------------------ MODULE Identifiable ------------------------------
(***************************************************************************)
(* algol::identifiable (src/identifiable.cpp): objects with a UUID that is *)
(* given once, and handed down to the children an object was told of.      *)
(*                                                                         *)
(* Nobody removes a child, neither its destructor nor its parent's: the    *)
(* parent keeps a pointer to it.  And anything may be added, twice or in a *)
(* circle.  on_uuid_set is the one that does nothing.                      *)
(***************************************************************************)
EXTENDS Naturals, FiniteSets, SequencesExt

CONSTANTS
  Objects,
  Uuids,
  Unassigned,   \* "0"
  MaxChildren,  \* the children of an object: bounds __add_child
  MaxDepth      \* the calls that the stack of the process has room for

ASSUME IdentifiableAssumption ==
  /\ Unassigned \notin Uuids
  /\ MaxChildren \in Nat /\ MaxDepth \in Nat /\ MaxDepth > Cardinality(Objects)

VARIABLES
  life,      \* "unborn", "alive" or "destroyed"
  uuid,      \* uuid_
  children,  \* children_
  calls,     \* the calls of __set_uuid under way: the object, the argument, and
             \* the child that is next, 0 before the call has looked at uuid_
  ended      \* how the last of them did: "none", "returned", "thrown", or
             \* "died" when the process did

identityVars == <<life, uuid, children, calls, ended>>

Frame == [of : Objects, uuid : Uuids \union {Unassigned}, next : Nat]

IdentityTypeOK ==
  /\ life \in [Objects -> {"unborn", "alive", "destroyed"}]
  /\ uuid \in [Objects -> Uuids \union {Unassigned}]
  /\ children \in [Objects -> Seq(Objects)]
  /\ calls \in Seq(Frame)
  /\ ended \in {"none", "returned", "thrown", "died"}

IdentityInit ==
  /\ life = [o \in Objects |-> "unborn"]
  /\ uuid = [o \in Objects |-> Unassigned]
  /\ children = [o \in Objects |-> <<>>]
  /\ calls = <<>>
  /\ ended = "none"

Between  == calls = <<>> /\ ended # "died"
Alive(o) == life[o] = "alive"

-----------------------------------------------------------------------------
(***************************************************************************)
(* The life of an object                                                   *)
(***************************************************************************)
Begins(o, u) ==
  /\ Between /\ life[o] = "unborn"
  /\ life' = [life EXCEPT ![o] = "alive"]
  /\ uuid' = [uuid EXCEPT ![o] = u]
  /\ UNCHANGED <<calls, ended>>

Added(p, c) == [children EXCEPT ![p] = Append(@, c)]

Construct(o) ==
  /\ \E u \in Uuids \union {Unassigned} : Begins(o, u)
  /\ UNCHANGED children

ConstructUnder(o, parent) ==
  /\ Alive(parent) /\ Len(children[parent]) < MaxChildren
  /\ Begins(o, Unassigned)
  /\ children' = Added(parent, o)

\* A copy has the UUID and not the children.
Copy(o, src) ==
  /\ Alive(src)
  /\ Begins(o, uuid[src])
  /\ UNCHANGED children

\* An assignment does not ask whether there is a UUID already.
Assign(o, rhs) ==
  /\ Between /\ Alive(o) /\ Alive(rhs)
  /\ uuid' = [uuid EXCEPT ![o] = uuid[rhs]]
  /\ UNCHANGED <<life, children, calls, ended>>

AddChild(o, child) ==
  /\ Between /\ Alive(o) /\ Alive(child) /\ Len(children[o]) < MaxChildren
  /\ children' = Added(o, child)
  /\ UNCHANGED <<life, uuid, calls, ended>>

Destroy(o) ==
  /\ Between /\ Alive(o)
  /\ life' = [life EXCEPT ![o] = "destroyed"]
  /\ children' = [children EXCEPT ![o] = <<>>]
  /\ UNCHANGED <<uuid, calls, ended>>

-----------------------------------------------------------------------------
(***************************************************************************)
(* __set_uuid                                                              *)
(***************************************************************************)
Top   == calls[Len(calls)]
Outer == SubSeq(calls, 1, Len(calls) - 1)

NewFrame(o, u) == [of |-> o, uuid |-> u, next |-> 0]

SetUuid(o, u) ==
  /\ Between /\ Alive(o)
  /\ calls' = <<NewFrame(o, u)>>
  /\ ended' = "none"
  /\ UNCHANGED <<life, uuid, children>>

\* integrity_violation leaves every call under way.
Throws ==
  /\ calls' = <<>> /\ ended' = "thrown"
  /\ UNCHANGED <<life, uuid, children>>

Refused ==
  /\ calls # <<>> /\ Top.next = 0
  /\ uuid[Top.of] # Unassigned
  /\ Throws

\* Mutant of Given: the UUID is to be assigned when the children have it.
Given_Later ==
  /\ calls # <<>> /\ Top.next = 0
  /\ uuid[Top.of] = Unassigned
  /\ calls' = Append(Outer, [Top EXCEPT !.next = 1])
  /\ UNCHANGED <<life, uuid, children, ended>>

Given ==
  /\ calls # <<>> /\ Top.next = 0
  /\ uuid[Top.of] = Unassigned
  /\ uuid' = [uuid EXCEPT ![Top.of] = Top.uuid]
  /\ calls' = Append(Outer, [Top EXCEPT !.next = 1])
  /\ UNCHANGED <<life, children, ended>>

\* The call is at the next child.
Handing == calls # <<>> /\ Top.next \in 1..Len(children[Top.of])

GoesOn == Append(Outer, [Top EXCEPT !.next = @ + 1])

Child == children[Top.of][Top.next]

HandDown ==
  /\ Handing /\ Alive(Child) /\ Len(calls) < MaxDepth
  /\ calls' = Append(GoesOn, NewFrame(Child, uuid[Top.of]))
  /\ UNCHANGED <<life, uuid, children, ended>>

Dies ==
  /\ calls' = <<>> /\ ended' = "died"
  /\ UNCHANGED <<life, uuid, children>>

Overflows == Handing /\ Len(calls) = MaxDepth /\ Dies

\* A destroyed child: what is left of it has a UUID, or none, or is not there.
HandDownToDestroyed ==
  /\ Handing /\ ~Alive(Child)
  /\ \/ Throws
     \/ calls' = GoesOn /\ UNCHANGED <<life, uuid, children, ended>>
     \/ Dies

\* Mutant of Returns: the last child is not visited.
Returns_Early ==
  /\ calls # <<>> /\ Top.next # 0 /\ Top.next >= Len(children[Top.of])
  /\ calls' = Outer
  /\ ended' = IF Outer = <<>> THEN "returned" ELSE ended
  /\ UNCHANGED <<life, uuid, children>>

Returns ==
  /\ calls # <<>> /\ Top.next > Len(children[Top.of])
  /\ calls' = Outer
  /\ ended' = IF Outer = <<>> THEN "returned" ELSE ended
  /\ UNCHANGED <<life, uuid, children>>

-----------------------------------------------------------------------------
IdentityNext ==
  \/ \E o \in Objects :
       \/ Construct(o) \/ Destroy(o)
       \/ \E p \in Objects :
            ConstructUnder(o, p) \/ Copy(o, p) \/ Assign(o, p) \/ AddChild(o, p)
       \/ \E u \in Uuids \union {Unassigned} : SetUuid(o, u)
  \/ Refused \/ Given \/ HandDown \/ Overflows \/ HandDownToDestroyed \/ Returns

IdentitySpec == IdentityInit /\ [][IdentityNext]_identityVars

-----------------------------------------------------------------------------
(***************************************************************************)
(* Properties                                                              *)
(***************************************************************************)
\* The objects that one reaches from o by its children, with o.
Family(o) ==
  {d \in Objects : \A S \in SUBSET Objects :
     o \in S /\ (\A p \in S : ToSet(children[p]) \subseteq S) => d \in S}

\* When __set_uuid returns, and does not throw, the whole family has the UUID, in
\* whatever order and however often its members were added.  (identifiable.cpp:59-75)
FamilyIsTold ==
  [][calls # <<>> /\ ended' = "returned" =>
       \A d \in Family(calls[1].of) : Alive(d) => uuid'[d] = calls[1].uuid]_identityVars

\* Handing down a UUID comes to an end in a circle too: no two of the calls under way,
\* but for the last, are for the same object, and the last throws.  "0" is the
\* exception.  (identifiable.cpp:59-75)
SettingEnds ==
  /\ IdentityTypeOK
  /\ calls # <<>> /\ calls[1].uuid # Unassigned =>
       \A i, j \in 1..(Len(calls) - 1) : calls[i].of = calls[j].of => i = j

\* "Attempting to re-assign the UID after it's been changed from Unassigned will
\* throw" (identifiable.hpp:52-53): it is final.  Not so: an assignment copies over it.
\* (identifiable.cpp:46-57)
UuidIsFinal ==
  [][\A o \in Objects : Alive(o) /\ uuid[o] # Unassigned => uuid'[o] = uuid[o]]_identityVars
=================================================================================
