---------------------------- MODULE MCEnrollment ----------------------------
(***************************************************************************)
(* Instances of Enrollment for TLC: two names, two browsers, a setup token *)
(* and invites.  Names, browsers, passkeys and the tokens that are not     *)
(* preset are interchangeable.                                             *)
(***************************************************************************)
EXTENDS Enrollment, TLC

CONSTANTS n1, n2, b1, b2, k1, k2, preset, w1, w2

MCAccounts ==
    UNION {Permutations({n1, n2}), Permutations({b1, b2}),
           Permutations({k1, k2}), Permutations({w1, w2})}
=============================================================================
