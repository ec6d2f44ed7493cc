------------------------------ MODULE MCAdmin ------------------------------
(***************************************************************************)
(* What the admin UI manages, side by side: the settings with what follows *)
(* from them (Records), and the accounts (Enrollment).  They share no      *)
(* state.                                                                  *)
(***************************************************************************)
EXTENDS MCRecords, MCEnrollment

AdminInit == Init /\ EnrollmentInit

\* Bound: in a behaviour one of them is at work; the accounts are in one whose
\* administrator visits no page and whose message has no headers.
Quiet == visited = {} /\ arrived = <<>> /\ tag = NoTag /\ symbol = "unscored"

AdminNext ==
    \/ EnrollmentInit /\ Next /\ UNCHANGED enrollmentVars
    \/ Quiet /\ EnrollmentNext /\ UNCHANGED vars

AdminSpec == AdminInit /\ [][AdminNext]_<<vars, enrollmentVars>>

\* Messages are interchangeable: they arrive in one order.
ArriveInOrder == (t2 \in begun => t1 \in begun) /\ (t3 \in begun => t2 \in begun)

\* So are names, browsers, passkeys, and the tokens that are not preset.
AdminSymmetry ==
    UNION {Permutations({n1, n2}), Permutations({b1, b2}),
           Permutations({k1, k2}), Permutations({w1, w2})}
=============================================================================
