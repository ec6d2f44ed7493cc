----------------------------- MODULE MCGateway -----------------------------
(***************************************************************************)
(* Instances of Gateway for TLC: two messages, one of which has two        *)
(* recipients and is tried twice.                                          *)
(***************************************************************************)
EXTENDS Gateway, TLC

CONSTANTS m1, m2, r1, r2

MCAttempts == [m \in Mail |-> IF m = m1 THEN 2 ELSE 1]
MCRcpts == [m \in Mail |-> IF m = m1 THEN {r1, r2} ELSE {r1}]
=============================================================================
