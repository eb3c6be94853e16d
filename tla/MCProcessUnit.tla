---------------------------- MODULE MCProcessUnit ----------------------------
(* Instantiates ProcessUnit for TLC: two keys, one int field with values  *)
(* 0..1, and the bounds of each run given in its .cfg file.               *)
EXTENDS ProcessUnit, TLC

CONSTANTS k1, k2

MCKeys == {k1, k2}

\* Keys are interchangeable: every per-key definition treats them alike.
MCSymmetry == Permutations(MCKeys)
=============================================================================
