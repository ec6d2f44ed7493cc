------------------------------ MODULE Marking ------------------------------
(***************************************************************************)
(* What a delivered message shows (pipeline/body.py): the warning banner,  *)
(* broken images and the classification footer, by the marking settings m, *)
(* the AI's verdict and rspamd's result.                                   *)
(*                                                                         *)
(* A text is abstracted to what was done to it; a template is good, or bad *)
(* if it cannot be formatted.                                              *)
(***************************************************************************)
EXTENDS FiniteSets

Threats == {"SPAM", "PHISHING", "MALICIOUS"}
VerdictNames == Threats \union {"HAM", "SKIPPED", "ERROR"}

\* rspamd did not answer, or its action is none, spam-flagged or a reject.
RspamdResults == {"down", "none", "spam", "reject"}

AiWantsMarking(v, m) == v \in m.triggers
RspamdWantsMarking(r, m) == m.on_rspamd /\ r = "spam"
WantsMarking(v, r, m) ==
    m.enabled /\ (AiWantsMarking(v, m) \/ RspamdWantsMarking(r, m))

WantsImagesBroken(v, r, m) ==
    \/ m.scope = "all_mail"
    \/ m.scope = "spam_only" /\ WantsMarking(v, r, m)

\* _wants_classification_footer, for a message with labels.
WantsFooter(m, labelled) == m.classify /\ m.placement \in {"footer", "both"} /\ labelled

\* The verdict a banner names: rspamd's if only its trigger fired.
BannerVerdict(v, r, m) == IF AiWantsMarking(v, m) \/ r = "down" THEN v ELSE "SPAM"

\* What is done to a part: the verdict of its banner, or none; is it HTML now.
Untouched(html) == [banner |-> "none", images |-> FALSE, footer |-> FALSE, html |-> html]

Html(v, r, m, labelled) ==
    [banner |-> IF WantsMarking(v, r, m) THEN BannerVerdict(v, r, m) ELSE "none",
     images |-> WantsImagesBroken(v, r, m),
     footer |-> WantsFooter(m, labelled), html |-> TRUE]

\* A text that stays one: the plain banner names the AI's verdict.
Text(v, r, m, labelled) ==
    [banner |-> IF WantsMarking(v, r, m) THEN v ELSE "none", images |-> FALSE,
     footer |-> WantsFooter(m, labelled), html |-> FALSE]

\* A template that cannot be formatted fails the rewriting as a whole.
Formats(v, r, m, labelled) ==
    /\ WantsMarking(v, r, m) => m.banner = "good"
    /\ WantsFooter(m, labelled) => m.footer = "good"

\* rewrite: a part of a message, which may be signed or encrypted.
Rewrite(html, signed, v, r, m, labelled) ==
    IF signed \/ ~Formats(v, r, m, labelled) THEN Untouched(html)
    ELSE IF html THEN Html(v, r, m, labelled)
    ELSE IF WantsMarking(v, r, m) /\ m.convert
         THEN [Html(v, r, m, labelled) EXCEPT !.images = FALSE]
         ELSE Text(v, r, m, labelled)

=============================================================================
