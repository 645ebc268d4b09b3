-------------------------------- MODULE MCShell --------------------------------
(***************************************************************************)
(* Small instances of Shell.                                               *)
(***************************************************************************)
EXTENDS Shell

CONSTANTS l1, l2, g
================================================================================
