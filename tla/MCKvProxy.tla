------------------------------ MODULE MCKvProxy ------------------------------
(* Instantiates KvProxy for TLC: two sessions, each with two requests, on *)
(* two processors; one request has a malformed header.                   *)
EXTENDS KvProxy, TLC

CONSTANTS r1, r2, r3, r4, s1, s2

MCReqs == {r1, r2, r3, r4}
MCSessions == {s1, s2}
MCSessionOf == [r \in MCReqs |-> IF r \in {r1, r2} THEN s1 ELSE s2]
=============================================================================
