------------------------------- MODULE MCChannel -------------------------------
(***************************************************************************)
(* Small instances of Channel.                                             *)
(***************************************************************************)
EXTENDS Channel

CONSTANTS a1, a2, q1, q2, t1, t2

\* Application threads are alike, queues are, and the threads accept creates.
Alike ==
  Permutations({a1, a2}) \union Permutations({q1, q2}) \union Permutations({t1, t2})
=================================================================================
