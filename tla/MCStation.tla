------------------------------- MODULE MCStation -------------------------------
(***************************************************************************)
(* Small instances of Station.                                             *)
(***************************************************************************)
EXTENDS Station, TLC

CONSTANTS i1, i2, o1, o2, o3

\* Identifiers are alike, and so are channel objects.
Alike == Permutations({i1, i2}) \union Permutations({o1, o2, o3})
=================================================================================
