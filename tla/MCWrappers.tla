------------------------------- MODULE MCWrappers -------------------------------
(***************************************************************************)
(* Small instances of the parts that keep what they know of by pointers:   *)
(* the Lua engine, the log manager with the loggers, and the objects that  *)
(* hand down a UUID.  They have nothing in common, and one runs at a time. *)
(***************************************************************************)
EXTENDS Engine, Logging, Identifiable

CONSTANTS l1, l2, algol, other, o1, o2, o3

Alike == Permutations(Objects)

\* The others run in one of the engine's initial states.
engineIdle ==
  /\ stack = <<>> /\ opened = 0 /\ outcome = None /\ fault = None
  /\ ~throws /\ ~ticks /\ ~asserts

allVars == <<vars, logVars, identityVars>>

WrappersInit == Init /\ LoggingInit /\ IdentityInit

WrappersNext ==
  \/ /\ LoggingInit /\ IdentityInit
     /\ Next /\ UNCHANGED <<logVars, identityVars>>
  \/ /\ engineIdle /\ IdentityInit
     /\ LoggingNext /\ UNCHANGED <<vars, identityVars>>
  \/ /\ engineIdle /\ LoggingInit
     /\ IdentityNext /\ UNCHANGED <<vars, logVars>>

WrappersSpec == WrappersInit /\ [][WrappersNext]_allVars
=================================================================================
