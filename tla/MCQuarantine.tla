---------------------------- MODULE MCQuarantine ----------------------------
(***************************************************************************)
(* Instances of Quarantine for TLC: a message for two recipients and one   *)
(* for one of them, an administrator, and a user who owns the other        *)
(* recipient and an address of no message.                                 *)
(***************************************************************************)
EXTENDS Quarantine, TLC

CONSTANTS e1, e2, admin, user, r1, r2, r3

MCRcpts == [e \in Entries |-> IF e = e1 THEN {r1, r2} ELSE {r1}]
MCOwned == [u \in Users |-> IF u = admin THEN {} ELSE {r2, r3}]
=============================================================================
