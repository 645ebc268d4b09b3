------------------------------- MODULE MCAnalytics -------------------------------
(***************************************************************************)
(* Small instances of Analytics.                                           *)
(***************************************************************************)
EXTENDS Analytics, TLC

CONSTANTS s1, s2, s3, t1, t2, a, b

Interchangeable == Permutations(Sheets) \union Permutations(Trackers) \union Permutations(Titles)
================================================================================
