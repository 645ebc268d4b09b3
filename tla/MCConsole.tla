------------------------------- MODULE MCConsole -------------------------------
(***************************************************************************)
(* Small instances of Console.                                             *)
(***************************************************************************)
EXTENDS Console

CONSTANTS c1, c2, c3, brief
=================================================================================
