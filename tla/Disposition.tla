---------------------------- MODULE Disposition ----------------------------
(***************************************************************************)
(* What Pipeline.process promises its callers (SmtpHandler.handle_DATA and *)
(* the test page), whatever happens inside: each job gets at most one      *)
(* answer, and the answer, the quarantine entry and the detection agree.   *)
(* Pipeline implements it; Gateway is built on it.                         *)
(***************************************************************************)
CONSTANTS
    Jobs,      \* the calls of process()
    Forgetful  \* those whose answer is only shown, and that may be repeated

VARIABLES
    outcome,   \* how the call ended, "none" while it runs or before it
    held,      \* calls that left an entry in the quarantine store
    detected   \* calls dropped for what the message is

Results == {"DELIVER", "DROP", "TEMPFAIL", "EXCEPTION"}

\* A message is dropped because it was detected, or because it is held; a held
\* message is never delivered, nor left with postfix by a decision, only by a
\* failure after the entry was written: an exception, or (Abort) a crash.
Consistent(result, kept, found) ==
    /\ result = "DROP" => kept \/ found
    /\ kept => result \in {"DROP", "EXCEPTION"}
    /\ found => result = "DROP"

Init ==
    /\ outcome = [j \in Jobs |-> "none"]
    /\ held = {}
    /\ detected = {}

\* The call returns a decision, or raises.
Answer(j, result, kept, found) ==
    /\ outcome[j] = "none"
    /\ Consistent(result, kept, found)
    /\ outcome' = [outcome EXCEPT ![j] = result]
    /\ held' = IF kept THEN held \union {j} ELSE held
    /\ detected' = IF found THEN detected \union {j} ELSE detected

\* The entry that dying calls leave behind: at most one was at its decision.
Left(S) == {{}} \union {{j} : j \in S}

\* The calls S are cancelled, or die with the program, leaving the entries K.
Abort(S, K) ==
    /\ S # {}
    /\ K \in Left(S)
    /\ \A j \in S : outcome[j] = "none"
    /\ outcome' = [j \in Jobs |-> IF j \in S THEN "ABORTED" ELSE outcome[j]]
    /\ held' = held \union K
    /\ UNCHANGED detected

\* The test page starts over.
Forget(j) ==
    /\ j \in Forgetful
    /\ j \notin held
    /\ outcome' = [outcome EXCEPT ![j] = "none"]
    /\ detected' = detected \ {j}
    /\ UNCHANGED held

Next ==
    \/ \E j \in Jobs, result \in Results, kept, found \in BOOLEAN :
          Answer(j, result, kept, found)
    \/ \E S \in SUBSET Jobs : \E K \in Left(S) : Abort(S, K)
    \/ \E j \in Forgetful : Forget(j)

Spec == Init /\ [][Next]_<<outcome, held, detected>>
=============================================================================
