----------------------------- MODULE MCConfigurator -----------------------------
(***************************************************************************)
(* Small instances of Configurator.                                        *)
(***************************************************************************)
EXTENDS Configurator, TLC

CONSTANTS o1, o2, a, b, u

Interchangeable == Permutations(Objects) \union Permutations(Contexts)
================================================================================
