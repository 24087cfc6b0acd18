---------------------------- MODULE MCExecuteRun ----------------------------
(***************************************************************************)
(* Instances of ExecuteRun for TLC.                                        *)
(***************************************************************************)
EXTENDS ExecuteRunInvariant

CONSTANTS s1, s2

InOrder == <<s1, s2>>
=============================================================================
