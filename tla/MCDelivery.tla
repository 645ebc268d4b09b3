------------------------------- MODULE MCDelivery -------------------------------
(***************************************************************************)
(* Small instances of Delivery.                                            *)
(***************************************************************************)
EXTENDS Delivery

CONSTANTS a, b, foo, x, y, zero

Message(i, app, to, hs, bs) ==
  [id |-> i, from |-> app, reply_to |-> to, headers |-> hs, body |-> bs]

ToAll    == Message("all", a, None, {foo}, <<x, y, zero, x>>)
Answer   == Message("answer", b, a, {foo}, <<>>)
External == Message("external", None, None, {foo}, <<zero>>)

Three == {ToAll, Answer, External}
One   == {ToAll}
=================================================================================
