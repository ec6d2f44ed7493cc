------------------------------ MODULE Records ------------------------------
(***************************************************************************)
(* The settings and what depends on them after a message was judged: how   *)
(* long its trace and raw copy are kept (Logs), what the delivered message *)
(* shows (Marking) and what its headers tell rspamd (Headers).             *)
(***************************************************************************)
EXTENDS Settings, Logs, Marking, Headers

\* The marking page offers the threats.
ASSUME FormsAssumption ==
    MarkingForms # {} /\ \A f \in MarkingForms : f.triggers \subseteq Threats

vars == <<settingsVars, logsVars, headersVars>>

\* saved has, under each key, a value that DEFAULTS or some form gives it.
Given ==
    [k \in KeyNames |->
        {DefaultOf(k)} \union
        UNION {{post[i][2] : i \in {j \in DOMAIN post : post[j][1] = k}} :
                  post \in UNION {Forms[page] : page \in Pages}}]

TypeOK ==
    /\ LogsTypeOK /\ HeadersTypeOK
    /\ DOMAIN saved = KeyNames /\ \A k \in KeyNames : saved[k] \in Given[k]
    /\ {saved["logging.retention_days"], saved["quarantine.retention_days"]} \subseteq 1..MaxRetention
    /\ torn \subseteq KeyNames
    /\ saves \in [Pages -> Nat]

\* Bounds: a behaviour visits some pages; or it visits the logging page alone
\* while messages arrive and are kept; or it visits none, while a message's
\* headers are dealt with.
Init ==
    /\ SettingsInit /\ LogsInit /\ HeadersInit
    /\ visited # {} => arrived = <<>>

SettingsNext ==
    /\ \E page \in visited : Save(page)
    /\ UNCHANGED <<logsVars, headersVars>>

LogsNext ==
    /\ visited = {"logging"}
    /\ \/ \E t \in Traces : Arrive(t)
       \/ \E t \in Traces : \E copy, ok \in BOOLEAN : Finish(t, copy, ok)
       \/ \E limit \in Limits : View(limit)
       \/ Retain(saved["logging.retention_days"])
       \/ Tick
       \/ Restart
    /\ UNCHANGED <<settingsVars, headersVars>>

HeadersNext ==
    /\ visited = {}
    /\ \/ \E v \in Opinions : Tag(v)
       \/ \E fresh \in BOOLEAN : Scan(fresh)
    /\ UNCHANGED <<settingsVars, logsVars>>

Next == SettingsNext \/ LogsNext \/ HeadersNext

Spec == Init /\ [][Next]_vars

-----------------------------------------------------------------------------

\* cfg["marking"] and cfg["classification"], as a message's rewriting reads them.
Marks ==
    [enabled |-> saved["marking.enabled"], triggers |-> saved["marking.trigger_verdicts"],
     on_rspamd |-> saved["marking.trigger_on_rspamd_spam"],
     banner |-> saved["marking.banner_template"], footer |-> saved["marking.footer_template"],
     convert |-> saved["marking.convert_plaintext_to_html"],
     scope |-> saved["marking.break_images.scope"],
     classify |-> saved["classification.enabled"],
     placement |-> saved["classification.placement"]]

\* body.py:184-189: when only rspamd's trigger fired, the raw AI verdict "would
\* render a nonsensical banner" ("flagged this message as HAM").  Whatever pages
\* were saved, in part or as a whole, a banner names a threat, and every part of
\* a message has the same one.
BannerNamesThreat ==
    \A v \in VerdictNames, r \in RspamdResults, signed, labelled \in BOOLEAN :
        LET html == Rewrite(TRUE, signed, v, r, Marks, labelled).banner
            text == Rewrite(FALSE, signed, v, r, Marks, labelled).banner
        IN text = html /\ html \in Threats \union {"none"}
=============================================================================
