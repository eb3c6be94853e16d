------------------------------- MODULE MCSetNx -------------------------------
(* Model values for SetNx: two commands, two field values.                 *)
EXTENDS SetNx, TLC

CONSTANTS s1, s2, v1, v2

MCCmds == {s1, s2}
MCVals == {v1, v2}
=============================================================================
