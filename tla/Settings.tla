------------------------------ MODULE Settings ------------------------------
(***************************************************************************)
(* The settings (store/settings.py), the pages that save them              *)
(* (admin/app.py) and the audit log of what was changed (store/audit.py).  *)
(*                                                                         *)
(* A page runs on the event loop from its last await to its end.  It       *)
(* writes its keys one by one, each time the whole file, and then records  *)
(* the changes one by one; an I/O error or the end of the program can come *)
(* before any of these writes.  A form that is refused changes nothing and *)
(* is no step.                                                             *)
(***************************************************************************)
EXTENDS Naturals, Sequences, FiniteSets

CONSTANTS
    Inputs,        \* values of the keys whose meaning does not matter here
    Default,       \* what such a key has in DEFAULTS
    Unset,         \* a secret that is not set
    Encrypted,     \* ciphertexts of secrets
    Placements,    \* what a form says of the labels' place
    Retentions,    \* days that a form asks for
    MarkingForms,  \* forms of the marking page
    DefaultDays,   \* 30, of the logs
    DefaultHold,   \* 90, of the quarantine
    MaxRetention,  \* 3650
    Visits,        \* bound: the pages that are visited together
    MaxSaves       \* bound: how often a page is saved

ASSUME SettingsAssumption ==
    /\ Default \in Inputs
    /\ Unset \notin Encrypted
    /\ Retentions \subseteq Nat /\ Retentions # {}
    /\ MaxRetention \in Nat \ {0}
    /\ DefaultDays \in 1..MaxRetention /\ DefaultHold \in 1..MaxRetention

VARIABLES
    saved,    \* settings.yml, merged over DEFAULTS: the value of a key
    audited,  \* audit.jsonl: the last new value recorded of a key
    torn,     \* history: keys changed since then by a save that was cut short
    visited,  \* the pages that are visited
    saves     \* how often a page was saved so far

settingsVars == <<saved, audited, torn, visited, saves>>

-----------------------------------------------------------------------------
(* What the pages save: <<key, value>> in the order of the code *)

All(names, v) == [i \in DOMAIN names |-> <<names[i], v>>]

\* A key that a form saves only under a condition.
Optional(given, key, v) == IF given THEN << <<key, v>> >> ELSE <<>>

AiSave(v) ==
    All(<<"ai.enabled", "ai.drop_threshold", "ai.timeout_seconds", "ai.system_prompt",
          "ai.pipeline_order", "ai.rspamd_bypass_on_reject">>, v)

\* A secret that was not touched is kept; one that was emptied is unset.
ProviderSave(v, touched, secret, clear, upload) ==
    All(<<"provider.type", "provider.model", "provider.base_url",
          "provider.timeout_seconds", "provider.max_tokens">>, v)
    \o << <<"provider.mtls.enabled", IF clear THEN Default ELSE v>>,
          <<"provider.mtls.skip_verify", v>> >>
    \o Optional(touched, "provider.api_key", secret)
    \o IF clear
       THEN All(<<"provider.mtls.pfx", "provider.mtls.pfx_password">>, Unset)
       ELSE Optional(upload /\ secret # Unset, "provider.mtls.pfx", secret)
            \o Optional(touched, "provider.mtls.pfx_password", secret)

FailureSave(v) ==
    All(<<"failure_policy.ai", "failure_policy.rspamd", "failure_policy.antivirus",
          "failure_policy.all_down">>, v)

ContextSave(v) == All(<<"context.organization", "context.expected_mail">>, v)
ContextRecipient(v) == All(<<"context.per_recipient">>, v)

\* An empty key is no change.
ToolsSave(v, web_key, unifi_key) ==
    All(<<"tools.ip_lookup.enabled", "tools.ip_lookup.non_us_note",
          "tools.ip_ownership.enabled", "tools.ip_ownership.max_ips",
          "tools.domain_age.enabled", "tools.domain_age.young_domain_days",
          "tools.dns_verify.enabled", "tools.web_search.enabled",
          "tools.web_search.backend", "tools.web_search.endpoint",
          "tools.web_fetch.enabled", "tools.web_fetch.backend", "tools.web_fetch.endpoint",
          "tools.shared_provider_check.enabled", "tools.unifi_block.enabled",
          "tools.unifi_block.policy", "tools.unifi_block.url",
          "tools.unifi_block.network_list", "tools.unifi_block.site",
          "tools.unifi_block.max_prefix", "tools.unifi_block.skip_verify">>, v)
    \o Optional(web_key # Unset, "tools.web_search.api_key", web_key)
    \o Optional(unifi_key # Unset, "tools.unifi_block.api_key", unifi_key)

OverridesSave(v) ==
    All(<<"overrides.whitelist_domains", "overrides.whitelist_recipients",
          "overrides.blocklist_domains", "overrides.require_auth_for_whitelist">>, v)

\* An unknown scope or placement is replaced.
MarkingSave(f) ==
    << <<"marking.enabled", f.enabled>>, <<"marking.trigger_verdicts", f.triggers>>,
       <<"marking.banner_template", f.banner>>,
       <<"marking.convert_plaintext_to_html", f.convert>>,
       <<"marking.break_images.scope",
         IF f.scope \in {"off", "spam_only", "all_mail"} THEN f.scope ELSE "off">>,
       <<"marking.footer_template", f.footer>>,
       <<"marking.trigger_on_rspamd_spam", f.on_rspamd>> >>

ClassificationSave(enabled, placement) ==
    << <<"classification.enabled", enabled>>,
       <<"classification.placement",
         IF placement \in {"header", "footer", "both"} THEN placement ELSE "header">> >>

ClassificationLabel(v) == All(<<"classification.labels">>, v)

\* A wrong clean-up: none.
AsGiven(days) == days
Clamped(days) == IF days < 1 THEN 1 ELSE IF days > MaxRetention THEN MaxRetention ELSE days

LoggingSave(days, v) ==
    << <<"logging.retention_days", Clamped(days)>>, <<"logging.log_prompts", v>> >>

QuarantineSave(days, v) ==
    << <<"quarantine.enabled", v>>, <<"quarantine.retention_days", Clamped(days)>> >>

\* A release that puts the sender's domain on the whitelist.
ReleaseWhitelists(v) == All(<<"overrides.whitelist_domains">>, v)

Blobs == Encrypted \union {Unset}

\* The forms of a page.
Forms ==
    [ai |-> {AiSave(v) : v \in Inputs},
     provider |-> {ProviderSave(v, touched, secret, clear, upload) :
                      v \in Inputs, touched, clear, upload \in BOOLEAN, secret \in Blobs},
     failure |-> {FailureSave(v) : v \in Inputs},
     context |-> {ContextSave(v) : v \in Inputs} \union {ContextRecipient(v) : v \in Inputs},
     tools |-> {ToolsSave(v, web, unifi) : v \in Inputs, web, unifi \in Blobs},
     overrides |-> {OverridesSave(v) : v \in Inputs},
     marking |-> {MarkingSave(f) : f \in MarkingForms},
     classification |-> {ClassificationSave(e, p) : e \in BOOLEAN, p \in Placements}
                        \union {ClassificationLabel(v) : v \in Inputs},
     logging |-> {LoggingSave(d, v) : d \in Retentions, v \in Inputs},
     quarantine |-> {QuarantineSave(d, v) : d \in Retentions, v \in Inputs},
     release |-> {ReleaseWhitelists(v) : v \in Inputs}]
Pages == DOMAIN Forms

ASSUME VisitsAssumption == Visits \subseteq SUBSET Pages /\ MaxSaves \in [Pages -> Nat]

-----------------------------------------------------------------------------
(* The store and the log *)

Secrets == {"provider.api_key", "provider.mtls.pfx", "provider.mtls.pfx_password",
            "tools.web_search.api_key", "tools.unifi_block.api_key"}
KeysOf(page) == UNION {{post[i][1] : i \in DOMAIN post} : post \in Forms[page]}
KeyNames == UNION {KeysOf(page) : page \in Pages}

\* DEFAULTS
DefaultOf(key) ==
    CASE key \in Secrets -> Unset
      [] key \in {"marking.enabled", "marking.trigger_on_rspamd_spam",
                  "classification.enabled"} -> FALSE
      [] key = "marking.convert_plaintext_to_html" -> TRUE
      [] key = "marking.trigger_verdicts" -> {"SPAM", "PHISHING", "MALICIOUS"}
      [] key \in {"marking.banner_template", "marking.footer_template"} -> "good"
      [] key = "marking.break_images.scope" -> "off"
      [] key = "classification.placement" -> "both"
      [] key = "logging.retention_days" -> DefaultDays
      [] key = "quarantine.retention_days" -> DefaultHold
      [] OTHER -> Default

\* redact: what the log says of a value.
Redact(key, v) == IF key \in Secrets /\ v # Unset THEN "(set)" ELSE v

SettingsInit ==
    /\ saved = [k \in KeyNames |-> DefaultOf(k)]
    /\ audited = [k \in KeyNames |-> Redact(k, DefaultOf(k))]
    /\ torn = {}
    /\ visited \in Visits
    /\ saves = [page \in Pages |-> 0]

KeysAt(post, places) == {post[i][1] : i \in places}

\* The settings with the first n keys of a form.
Written(post, n) ==
    [k \in KeyNames |->
        IF k \in KeysAt(post, 1..n)
        THEN post[CHOOSE i \in 1..n : post[i][1] = k][2] ELSE saved[k]]

\* A wrong update: the old value is read after the new one was written.
ReadAfter(post, i) == FALSE

\* update: the new value differs from the old one; a new ciphertext always does.
Differs(post, i) ==
    \/ saved[post[i][1]] # post[i][2]
    \/ post[i][1] \in Secrets /\ post[i][2] # Unset

\* What of the first n keys changes, as places in the form.
Changes(post, n) == {i \in 1..n : Differs(post, i)}

\* A page saves: n of its keys are written and, if these are all, the changes
\* of the first m of them recorded.
SavePage(post) ==
    \E n \in 0..Len(post), m \in 0..Len(post) :
        /\ n < Len(post) => m = 0
        /\ LET recorded == KeysAt(post, Changes(post, m)) IN
           /\ saved' = Written(post, n)
           /\ audited' = [k \in KeyNames |->
                  IF k \in recorded THEN Redact(k, Written(post, n)[k]) ELSE audited[k]]
           /\ torn' = (torn \union KeysAt(post, Changes(post, n))) \ recorded

Save(page) ==
    /\ saves[page] < MaxSaves[page]
    /\ saves' = [saves EXCEPT ![page] = @ + 1]
    /\ \E post \in Forms[page] : SavePage(post)
    /\ UNCHANGED visited

-----------------------------------------------------------------------------
(* Properties *)

\* audit.py:1 "Append-only admin audit log: who changed what, when, old ->
\* new": the last record of a setting says what it is, secrets redacted,
\* unless a save that was cut short changed it.  Saving the page once more
\* does not record such a change.
AuditReplays == \A k \in KeyNames \ torn : audited[k] = Redact(k, saved[k])
=============================================================================
