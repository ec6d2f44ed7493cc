------------------------------- MODULE MCMail -------------------------------
(***************************************************************************)
(* A message's way through the gateway (Gateway), and the analyses that    *)
(* judge messages (Analysis), side by side: of each, the other sees only   *)
(* what Disposition allows.                                                *)
(***************************************************************************)
EXTENDS MCGateway, MCAnalysis

MailInit == Init /\ AnalysisInit

\* Bound: in a behaviour one of them is at work.  In the initial state of the
\* other, nothing is enabled that is treated fairly.
MailNext ==
    \/ AnalysisInit /\ Next /\ UNCHANGED analysisVars
    \/ Init /\ AnalysisNext /\ UNCHANGED vars

MailSpec ==
    /\ MailInit /\ [][MailNext]_<<vars, analysisVars>>
    /\ Fairness /\ AnalysisFairness
=============================================================================
