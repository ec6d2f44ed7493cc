---------------------------- MODULE MCPipeline ----------------------------
(***************************************************************************)
(* Instances of Pipeline for TLC.  Two sets of settings: WideConfigs spans *)
(* the combinations of policies and rules, for a message of its own;       *)
(* OneConfig is for several jobs at once.  Scope keeps them apart.  The    *)
(* MAIL FROM and the From: header of a message name different domains.     *)
(***************************************************************************)
EXTENDS Pipeline, TLC

CONSTANTS m1, m2, t1, d1, d2, rcpt

MCEnvelope == [j \in Jobs |-> IF j = m2 THEN d1 ELSE NoDomain]
MCHeader   == [j \in Jobs |-> d2]
MCRcpts    == [j \in Jobs |-> {rcpt}]

Reply(action, dmarc, spf, av_failed) ==
    [ok |-> TRUE, action |-> action, dmarc |-> dmarc, spf |-> spf,
     av_failed |-> av_failed]

AllReplies ==
    {Reply(a, FALSE, FALSE, f) : a \in {"no action", "add header", "reject"},
                                 f \in BOOLEAN}
    \union {Reply(a, TRUE, FALSE, FALSE) : a \in {"no action", "add header", "reject"}}
    \union {Reply("no action", FALSE, TRUE, TRUE)}

FewReplies == {Reply("no action", FALSE, FALSE, FALSE)}

FewOpinions == {[verdict |-> "HAM", sure |-> TRUE], [verdict |-> "MALICIOUS", sure |-> TRUE]}

AllOpinions ==
    FewOpinions \union {[verdict |-> "SPAM", sure |-> TRUE],
                        [verdict |-> "MALICIOUS", sure |-> FALSE]}

Policy4(ai, rspamd, antivirus, all_down) ==
    [k \in PolicyKeys |-> CASE k = "ai" -> ai [] k = "rspamd" -> rspamd
                            [] k = "antivirus" -> antivirus
                            [] k = "all_down" -> all_down]

Config(on, order, bypass, policy, mode, wl, wlr, bl, auth, q) ==
    [enabled |-> on, pipeline_order |-> order,
     rspamd_bypass_on_reject |-> bypass,
     drop_verdicts |-> {"MALICIOUS", "PHISHING"},
     failure_mode |-> mode, failure_policy |-> policy,
     whitelist_domains |-> wl, blocklist_domains |-> bl,
     whitelist_recipients |-> wlr, require_auth |-> auth,
     quarantine |-> q, mark_on_rspamd_spam |-> TRUE]

\* Policies that differ in strictness from key to key, saved and inherited.
SomePolicies ==
    {<<Policy4("null", "null", "null", "null"), "tempfail">>,
     <<Policy4("quarantine", "deliver_tagged", "deliver_tagged", "defer"), "fail_open">>,
     <<Policy4("deliver_tagged", "deliver_tagged", "quarantine", "deliver_tagged"), "fail_open">>}

WidePolicies == SomePolicies \union
    {<<Policy4("null", "defer", "deliver_tagged", "deliver_tagged"), "fail_open">>,
     <<Policy4("deliver_tagged", "quarantine", "deliver_tagged", "deliver_tagged"), "tempfail">>,
     <<Policy4("deliver_tagged", "deliver_tagged", "defer", "quarantine"), "fail_open">>,
     <<Policy4("deliver_tagged", "deliver_tagged", "deliver_tagged", "quarantine"), "fail_open">>,
     <<Policy4("defer", "quarantine", "deliver_tagged", "null"), "fail_open">>}

\* Whitelisted domains, whitelisted recipients, blocklisted domains, and
\* whether a domain rule needs authentication.
NoLists == <<{}, {}, {}, TRUE>>

WideLists ==
    {<<{}, {rcpt}, {}, TRUE>>, <<{}, {}, {d1}, TRUE>>, <<{d1}, {}, {}, FALSE>>,
     <<{d1}, {}, {d1}, TRUE>>, <<{d2}, {}, {d1}, TRUE>>, <<{d1, d2}, {}, {}, TRUE>>}

\* AI on, order, bypass.
WideOrders ==
    {<<on, order, FALSE>> : on \in BOOLEAN, order \in {"ai_first", "rspamd_first"}}
    \union {<<TRUE, "rspamd_first", TRUE>>}

WideConfig(o, p, l, q) ==
    Config(o[1], o[2], o[3], p[1], p[2], l[1], l[2], l[3], l[4], q)

\* Every policy without rules, some with every rule.
WideConfigs ==
    {WideConfig(o, p, NoLists, q) : o \in WideOrders, p \in WidePolicies, q \in BOOLEAN}
    \union {WideConfig(o, p, l, TRUE) : o \in WideOrders, p \in SomePolicies, l \in WideLists}

\* The strictest settings, which an admin may switch to at any time.
StrictConfigs ==
    {Config(TRUE, "rspamd_first", TRUE,
            Policy4("defer", "quarantine", "deliver_tagged", "null"),
            "fail_open", {}, {}, {}, TRUE, TRUE)}

OneConfig ==
    {Config(TRUE, "ai_first", FALSE,
            Policy4("quarantine", "defer", "deliver_tagged", "deliver_tagged"),
            "fail_open", {}, {}, {}, TRUE, TRUE)}
EitherConfigs == WideConfigs \union OneConfig

\* With the wide settings one message runs alone, and an admin may change them
\* under it; with the one setting, which stays, all jobs run, with few answers,
\* and no raw copy can be written.
Scope ==
    IF job[m1].cfg \in OneConfig
    THEN /\ settings \in OneConfig
         /\ raw = {}
         /\ \A j \in Jobs :
               /\ job[j].rres \in FewReplies \union {Down, NotAsked}
               /\ \/ job[j].verdict \in {"SKIPPED", "ERROR"}
                  \/ [verdict |-> job[j].verdict, sure |-> job[j].sure] \in FewOpinions
    ELSE /\ job[m1].at = "idle" /\ job[t1].at = "idle"
         /\ settings # job[m2].cfg => job[m2].at # "idle"
=============================================================================
