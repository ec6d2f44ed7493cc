--------------------------- MODULE FailurePolicy ---------------------------
(***************************************************************************)
(* What happens to a message when a security control could not run:        *)
(* app/pipeline/failure.py, and its use in Pipeline.process (step 6b).     *)
(* Pure operators, no state.                                               *)
(***************************************************************************)
EXTENDS Naturals

\* VALID and CONTROLS.
Policies == {"deliver_tagged", "quarantine", "defer"}
Controls == {"ai", "rspamd", "antivirus"}

\* The keys of the failure_policy section: one per control, and the one for
\* "every control is down".
PolicyKeys == Controls \union {"all_down"}

\* "null" is a key that was never saved: it is resolved on read.
FailurePolicies == [PolicyKeys -> Policies \union {"null"}]
FailureModes    == {"fail_open", "tempfail"}

Severity(p) == CASE p = "deliver_tagged" -> 0
                 [] p = "quarantine"     -> 1
                 [] p = "defer"          -> 2

\* resolve(cfg, control): a missing ai policy inherits ai.failure_mode.
Resolve(policy, mode, key) ==
    IF policy[key] \in Policies THEN policy[key]
    ELSE IF key = "ai" /\ mode = "tempfail" THEN "defer"
    ELSE "deliver_tagged"

\* strictest(policies), deliver_tagged when there is none.
Strictest(P) ==
    CHOOSE p \in P \union {"deliver_tagged"} :
        \A q \in P \union {"deliver_tagged"} : Severity(q) <= Severity(p)

\* A wrong policy for a total outage: all_down is never consulted.
PolicyOfOwn(policy, mode, failed, enabled) ==
    Strictest({Resolve(policy, mode, c) : c \in failed})

\* The policy for a message on which the controls in failed did not run, of
\* those in enabled: the strictest of theirs, and of all_down's as well when
\* none of them ran.
PolicyOf(policy, mode, failed, enabled) ==
    LET own == {Resolve(policy, mode, c) : c \in failed}
    IN  IF enabled \subseteq failed
        THEN Strictest(own \union {Resolve(policy, mode, "all_down")})
        ELSE Strictest(own)
=============================================================================
