--------------------------- MODULE RecordsProofs ---------------------------
(***************************************************************************)
(* Proofs about Records, for any pages' inputs, messages, bounds and cache *)
(* sizes.                                                                  *)
(***************************************************************************)
EXTENDS Records, SequenceTheorems, TLAPS

AuditInv ==
    /\ saved = [k \in KeyNames |-> saved[k]]
    /\ audited = [k \in KeyNames |-> audited[k]]
    /\ AuditReplays

\* A trace lies in the file of its message's day, once the message is done with.
KeepInv ==
    /\ today \in Days
    /\ day \in [Traces -> Days]
    /\ disk \in [Days -> Seq(Traces)]
    /\ raw \in [Days -> SUBSET Traces]
    /\ open \subseteq begun
    /\ copied \subseteq begun \ open
    /\ \A d \in Days : \A i \in DOMAIN disk[d] :
          disk[d][i] \in begun \ open /\ day[disk[d][i]] = d
    /\ TraceKeepsRaw

-----------------------------------------------------------------------------
(* The audit log *)

LEMMA AuditInit == Init => AuditInv
BY DEF Init, SettingsInit, AuditInv, AuditReplays

\* What a save writes under a key is one of the form's values for it.
LEMMA WrittenKey ==
    ASSUME NEW post, NEW n \in Nat, NEW k \in KeyNames
    PROVE  \/ Written(post, n)[k] = saved[k]
           \/ \E i \in 1..n : post[i][1] = k /\ Written(post, n)[k] = post[i][2]
<1>1. CASE k \in KeysAt(post, 1..n)
  <2>1. \E i \in 1..n : post[i][1] = k
    BY <1>1 DEF KeysAt
  <2> QED
    BY <1>1, <2>1 DEF Written
<1>2. CASE k \notin KeysAt(post, 1..n)
  BY <1>2 DEF Written
<1> QED
  BY <1>1, <1>2

LEMMA SaveReplays ==
    ASSUME AuditInv, NEW post, SavePage(post)
    PROVE  AuditInv'
<1>1. PICK n \in 0..Len(post), m \in 0..Len(post) :
          LET recorded == KeysAt(post, Changes(post, m)) IN
          /\ saved' = Written(post, n)
          /\ audited' = [k \in KeyNames |->
                 IF k \in recorded THEN Redact(k, Written(post, n)[k]) ELSE audited[k]]
          /\ torn' = (torn \union KeysAt(post, Changes(post, n))) \ recorded
  BY DEF SavePage
<1> DEFINE recorded == KeysAt(post, Changes(post, m))
<1>2. n \in Nat
  OBVIOUS
<1>3. saved' = [k \in KeyNames |-> saved'[k]] /\ audited' = [k \in KeyNames |-> audited'[k]]
  BY <1>1 DEF Written
<1>4. ASSUME NEW k \in KeyNames \ torn' PROVE audited'[k] = Redact(k, saved'[k])
  <2>1. CASE k \in recorded
    BY <1>1, <2>1
  <2>2. CASE k \notin recorded
    <3>1. k \notin torn /\ k \notin KeysAt(post, Changes(post, n)) /\ audited'[k] = audited[k]
      BY <1>1, <2>2
    <3>2. \A i \in 1..n : post[i][1] = k => saved[k] = post[i][2]
      BY <3>1 DEF KeysAt, Changes, Differs
    <3>3. saved'[k] = saved[k]
      BY <1>1, <1>2, <3>2, WrittenKey
    <3> QED
      BY <3>1, <3>3 DEF AuditInv, AuditReplays
  <2> QED
    BY <2>1, <2>2
<1> QED
  BY <1>3, <1>4 DEF AuditInv, AuditReplays

LEMMA AuditStep ==
    ASSUME AuditInv, [Next]_vars
    PROVE  AuditInv'
<1>1. CASE SettingsNext
  BY <1>1, SaveReplays DEF SettingsNext, Save
<1>2. CASE UNCHANGED settingsVars
  BY <1>2 DEF settingsVars, AuditInv, AuditReplays
<1> QED
  BY <1>1, <1>2 DEF Next, LogsNext, HeadersNext, vars

\* The last record of a setting says what it is, secrets redacted, unless a
\* save that was cut short changed it: whatever pages are saved, how often and
\* however far each save comes.
THEOREM AuditReplaysSettings == Spec => []AuditReplays
<1>1. AuditInv => AuditReplays
  BY DEF AuditInv
<1> QED
  BY AuditInit, AuditStep, <1>1, PTL DEF Spec

-----------------------------------------------------------------------------
(* The traces and the raw copies *)

LEMMA KeepInit == Init => KeepInv
<1> SUFFICES ASSUME Init PROVE KeepInv
  OBVIOUS
<1>1. 0 \in Days
  BY LogsAssumption DEF Days
<1>2. \A d \in Days : disk[d] = <<>> /\ DOMAIN disk[d] = {}
  BY DEF Init, LogsInit
<1>3. OnDisk = {}
  BY <1>2 DEF OnDisk, Range
<1> QED
  BY <1>1, <1>2, <1>3 DEF Init, LogsInit, KeepInv, TraceKeepsRaw

\* A trace that is on disk is in the file of its day.
LEMMA OnDiskByDay ==
    ASSUME KeepInv
    PROVE  OnDisk = {t \in Traces : day[t] \in Days /\ t \in Range(disk[day[t]])}
BY DEF KeepInv, OnDisk, Range

LEMMA ArriveKeeps ==
    ASSUME KeepInv, NEW t \in Traces, Arrive(t)
    PROVE  KeepInv'
<1>1. /\ day' \in [Traces -> Days]
      /\ \A u \in Traces \ {t} : day'[u] = day[u]
  BY DEF KeepInv, Arrive
<1>2. \A d \in Days : \A i \in DOMAIN disk[d] : disk[d][i] \in Traces /\ disk[d][i] # t
  BY DEF KeepInv, Arrive
<1>3. OnDisk' = OnDisk /\ t \notin OnDisk
  BY <1>2 DEF OnDisk, Range, Arrive
<1>4. TraceKeepsRaw'
  BY <1>1, <1>3 DEF KeepInv, TraceKeepsRaw, Arrive, OnDisk
<1>5. /\ open' \subseteq begun' /\ copied' \subseteq begun' \ open'
      /\ \A d \in Days : \A i \in DOMAIN disk'[d] :
            disk'[d][i] \in begun' \ open' /\ day'[disk'[d][i]] = d
  BY <1>1, <1>2 DEF KeepInv, Arrive
<1> QED
  BY <1>1, <1>4, <1>5 DEF KeepInv, Arrive

LEMMA FinishKeeps ==
    ASSUME KeepInv, NEW t \in Traces, NEW copy \in BOOLEAN, NEW ok \in BOOLEAN,
           Finish(t, copy, ok)
    PROVE  KeepInv'
<1> DEFINE d0 == day[t]
<1>1. d0 \in Days /\ t \in open /\ t \in begun /\ t \notin copied
  BY DEF KeepInv, Finish
<1>2. UNCHANGED <<today, begun, day, straddled>> /\ open' = open \ {t}
  BY DEF Finish
<1>3. /\ raw' \in [Days -> SUBSET Traces]
      /\ \A d \in Days : raw[d] \subseteq raw'[d]
      /\ t \in copied' => t \in raw'[d0]
      /\ copied' \subseteq copied \union {t}
  BY <1>1 DEF KeepInv, Finish
<1>4. /\ disk' \in [Days -> Seq(Traces)]
      /\ \A d \in Days : \A i \in DOMAIN disk'[d] :
            \/ i \in DOMAIN disk[d] /\ disk'[d][i] = disk[d][i]
            \/ d = d0 /\ disk'[d][i] = t
  <2>1. CASE ok
    <3>1. disk' = [disk EXCEPT ![d0] = Append(@, t)]
      BY <2>1 DEF Finish
    <3>2. /\ disk[d0] \in Seq(Traces)
          /\ Append(disk[d0], t) \in Seq(Traces)
          /\ DOMAIN Append(disk[d0], t) = 1..Len(disk[d0]) + 1
          /\ \A i \in 1..Len(disk[d0]) : Append(disk[d0], t)[i] = disk[d0][i]
          /\ Append(disk[d0], t)[Len(disk[d0]) + 1] = t
          /\ DOMAIN disk[d0] = 1..Len(disk[d0]) /\ Len(disk[d0]) \in Nat
      BY <1>1 DEF KeepInv
    <3>3. \A i \in DOMAIN Append(disk[d0], t) :
             \/ i \in DOMAIN disk[d0] /\ Append(disk[d0], t)[i] = disk[d0][i]
             \/ Append(disk[d0], t)[i] = t
      BY <3>2
    <3> QED
      BY <1>1, <3>1, <3>2, <3>3 DEF KeepInv
  <2>2. CASE ~ok
    BY <2>2 DEF Finish, KeepInv
  <2> QED
    BY <2>1, <2>2
<1>5. OnDisk' \subseteq OnDisk \union {t}
  BY <1>4 DEF OnDisk, Range
<1>6. ASSUME NEW u \in (OnDisk \intersect copied)'
      PROVE  u \in raw'[day[u]] \/ day[u] \in straddled
  <2>1. CASE u = t
    BY <1>3, <2>1
  <2>2. CASE u # t
    <3>1. u \in OnDisk \intersect copied
      BY <1>3, <1>5, <2>2
    <3>2. day[u] \in Days /\ (u \in raw[day[u]] \/ day[u] \in straddled)
      BY <3>1 DEF KeepInv, TraceKeepsRaw, OnDisk
    <3> QED
      BY <1>3, <3>2
  <2> QED
    BY <2>1, <2>2
<1>7. /\ open' \subseteq begun' /\ copied' \subseteq begun' \ open'
      /\ \A d \in Days : \A i \in DOMAIN disk'[d] :
            disk'[d][i] \in begun' \ open' /\ day'[disk'[d][i]] = d
  BY <1>1, <1>2, <1>3, <1>4 DEF KeepInv
<1> QED
  BY <1>2, <1>3, <1>4, <1>6, <1>7 DEF KeepInv, TraceKeepsRaw

\* What a prune leaves of the traces and the copies, whatever of it fails: a
\* day is as it was, or its traces are gone, or it expired in the middle.
LEMMA PruneLeaves ==
    ASSUME KeepInv, NEW retention, Prune(retention)
    PROVE  /\ disk' \in [Days -> Seq(Traces)]
           /\ raw' \in [Days -> SUBSET Traces]
           /\ \A d \in Days : disk'[d] \in {disk[d], <<>>}
           /\ \A d \in Days :
                 \/ raw'[d] = raw[d]
                 \/ disk'[d] = <<>>
                 \/ Expired(d, today', retention) /\ ~Expired(d, today, retention)
<1>1. <<>> \in Seq(Traces)
  OBVIOUS
<1>2. CASE TracesPruned(today, retention) /\ RawPruned(today', retention)
  BY <1>1, <1>2 DEF KeepInv, TracesPruned, RawPruned, Pruned
<1>3. CASE TracesPruned(today, retention) /\ RawPruneFails(today', retention)
  <2>1. /\ raw' \in [Days -> SUBSET Traces]
        /\ \A d \in Days : Expired(d, today', retention) \/ raw'[d] = raw[d]
    BY <1>3 DEF RawPruneFails
  <2> QED
    BY <1>1, <1>3, <2>1 DEF KeepInv, TracesPruned, Pruned
<1>4. CASE TracePruneFails(today, retention) /\ UNCHANGED raw
  BY <1>1, <1>4 DEF KeepInv, TracePruneFails
<1> QED
  BY <1>2, <1>3, <1>4 DEF Prune

LEMMA RetainKeeps ==
    ASSUME KeepInv, NEW retention, Retain(retention)
    PROVE  KeepInv'
<1>1. /\ disk' \in [Days -> Seq(Traces)]
      /\ raw' \in [Days -> SUBSET Traces]
      /\ \A d \in Days : disk'[d] \in {disk[d], <<>>}
      /\ \A d \in Days :
            \/ raw'[d] = raw[d]
            \/ disk'[d] = <<>>
            \/ Expired(d, today', retention) /\ ~Expired(d, today, retention)
  BY PruneLeaves DEF Retain
<1>2. /\ UNCHANGED <<begun, day, open, copied>>
      /\ today' \in Days
      /\ \A d \in Days : Expired(d, today', retention) /\ ~Expired(d, today, retention)
                            => d \in straddled'
      /\ straddled \subseteq straddled'
  BY DEF Retain, KeepInv
<1>3. \A d \in Days : \A i \in DOMAIN disk'[d] :
         i \in DOMAIN disk[d] /\ disk'[d][i] = disk[d][i]
  BY <1>1
<1>4. ASSUME NEW t \in (OnDisk \intersect copied)'
      PROVE  t \in raw'[day[t]] \/ day[t] \in straddled'
  <2>1. PICK d \in Days : \E i \in DOMAIN disk'[d] : disk'[d][i] = t
    BY DEF OnDisk, Range
  <2>2. t \in Traces /\ t \in OnDisk /\ d = day[t] /\ t \in copied
    BY <1>2, <1>3, <2>1 DEF OnDisk, Range, KeepInv
  <2>3. disk'[d] # <<>>
    BY <2>1
  <2> QED
    BY <1>1, <1>2, <2>2, <2>3 DEF KeepInv, TraceKeepsRaw
<1> QED
  BY <1>1, <1>2, <1>3, <1>4 DEF KeepInv, TraceKeepsRaw

LEMMA KeepStep ==
    ASSUME KeepInv, [Next]_vars
    PROVE  KeepInv'
<1>1. ASSUME LogsNext PROVE KeepInv'
  <2>1. CASE \E t \in Traces : Arrive(t)
    BY <2>1, ArriveKeeps
  <2>2. CASE \E t \in Traces : \E copy, ok \in BOOLEAN : Finish(t, copy, ok)
    BY <2>2, FinishKeeps
  <2>3. CASE Retain(saved["logging.retention_days"])
    BY <2>3, RetainKeeps
  <2>4. CASE \E limit \in Limits : View(limit)
    BY <2>4 DEF View, KeepInv, TraceKeepsRaw, OnDisk
  <2>5. CASE Tick
    <3>1. today' \in Days
      BY <2>5, LogsAssumption DEF Tick, KeepInv, Days
    <3> QED
      BY <2>5, <3>1 DEF Tick, KeepInv, TraceKeepsRaw, OnDisk
  <2>6. CASE Restart
    BY <2>6 DEF Restart, KeepInv, TraceKeepsRaw, OnDisk
  <2> QED
    BY <1>1, <2>1, <2>2, <2>3, <2>4, <2>5, <2>6 DEF LogsNext
<1>2. CASE UNCHANGED logsVars
  BY <1>2 DEF logsVars, KeepInv, TraceKeepsRaw, OnDisk
<1> QED
  BY <1>1, <1>2 DEF Next, SettingsNext, HeadersNext, vars

\* A trace in the log whose message's raw copy was saved can be followed to the
\* copy, whatever retention the settings ask for, whatever of a prune fails and
\* whenever the program is restarted, unless midnight came between the two.
THEOREM TraceKeepsCopy == Spec => []TraceKeepsRaw
<1>1. KeepInv => TraceKeepsRaw
  BY DEF KeepInv
<1> QED
  BY KeepInit, KeepStep, <1>1, PTL DEF Spec

-----------------------------------------------------------------------------
(* The values that settings have *)

Triggers == "marking.trigger_verdicts"
Holds == {"logging.retention_days", "quarantine.retention_days"}
Limited == {Triggers} \union Holds

\* A form offers threats as triggers and days within bounds, if it has triggers
\* or days at all.
Fits(pair) ==
    /\ pair[1] = Triggers => pair[2] \subseteq Threats
    /\ pair[1] \in Holds => pair[2] \in 1..MaxRetention
Fit(post) == \A i \in 1..Len(post) : Fits(post[i])

SettingsInv ==
    /\ saved = [k \in KeyNames |-> saved[k]]
    /\ \A k \in KeyNames : saved[k] \in Given[k]
    /\ saved[Triggers] \subseteq Threats
    /\ \A k \in Holds : saved[k] \in 1..MaxRetention
    /\ torn \subseteq KeyNames
    /\ visited \subseteq Pages
    /\ saves \in [Pages -> Nat]

IsSeq(p) == Len(p) \in Nat /\ p = [i \in 1..Len(p) |-> p[i]]

LEMMA SeqOfIts ==
    ASSUME NEW p, IsSeq(p), NEW S, \A i \in 1..Len(p) : p[i] \in S
    PROVE  p \in Seq(S)
BY IsASeq DEF IsSeq

LEMMA FitAll ==
    ASSUME NEW keys, DOMAIN keys = 1..Len(keys), Len(keys) \in Nat, NEW v,
           \A i \in 1..Len(keys) : keys[i] \notin Limited
    PROVE  IsSeq(All(keys, v)) /\ Fit(All(keys, v))
<1> DEFINE S == {<<keys[i], v>> : i \in 1..Len(keys)}
<1>1. All(keys, v) = [i \in 1..Len(keys) |-> <<keys[i], v>>]
  BY DEF All
<1>2. [i \in 1..Len(keys) |-> <<keys[i], v>>] \in Seq(S)
  BY IsASeq
<1>3. Len(All(keys, v)) = Len(keys)
  BY <1>1, <1>2
<1>4. \A i \in 1..Len(keys) : Fits(<<keys[i], v>>)
  BY DEF Fits, Limited
<1> QED
  BY <1>1, <1>3, <1>4 DEF Fit, IsSeq

LEMMA FitConcat ==
    ASSUME NEW p, NEW q, IsSeq(p), IsSeq(q), Fit(p), Fit(q)
    PROVE  IsSeq(p \o q) /\ Fit(p \o q)
<1> DEFINE S == {p[i] : i \in 1..Len(p)} \union {q[i] : i \in 1..Len(q)}
<1>1. p \in Seq(S) /\ q \in Seq(S)
  BY SeqOfIts
<1> HIDE DEF S
<1>2. /\ p \o q \in Seq(S) /\ Len(p) \in Nat /\ Len(q) \in Nat
      /\ Len(p \o q) = Len(p) + Len(q)
      /\ \A i \in 1..Len(p) + Len(q) :
            (p \o q)[i] = IF i <= Len(p) THEN p[i] ELSE q[i - Len(p)]
  BY <1>1
<1>3. \A i \in 1..Len(p) + Len(q) : i <= Len(p) \/ i - Len(p) \in 1..Len(q)
  BY <1>2
<1>4. IsSeq(p \o q)
  <2>1. Len(p \o q) \in Nat /\ p \o q = [i \in 1..Len(p \o q) |-> (p \o q)[i]]
    <3> DEFINE pq == p \o q
    <3>1. pq \in Seq(S)
      BY <1>2
    <3> HIDE DEF pq
    <3>2. Len(pq) \in Nat /\ pq = [i \in 1..Len(pq) |-> pq[i]]
      BY <3>1
    <3> QED
      BY <3>2 DEF pq
  <2> QED
    BY <2>1 DEF IsSeq
<1> QED
  BY <1>2, <1>3, <1>4 DEF Fit

LEMMA FitOne ==
    ASSUME NEW key, NEW v, Fits(<<key, v>>)
    PROVE  IsSeq(<< <<key, v>> >>) /\ Fit(<< <<key, v>> >>)
<1> DEFINE pair == <<key, v>>
<1>1. Fits(pair)
  OBVIOUS
<1> HIDE DEF pair
<1>2. Len(<<pair>>) = 1 /\ <<pair>>[1] = pair /\ <<pair>> = [i \in 1..1 |-> <<pair>>[i]]
  OBVIOUS
<1>3. IsSeq(<<pair>>) /\ Fit(<<pair>>)
  BY <1>1, <1>2 DEF IsSeq, Fit
<1> QED
  BY <1>3 DEF pair

LEMMA FitOptional ==
    ASSUME NEW given, NEW key, key \notin Limited, NEW v
    PROVE  IsSeq(Optional(given, key, v)) /\ Fit(Optional(given, key, v))
<1>1. IsSeq(<<>>) /\ Fit(<<>>)
  BY DEF IsSeq, Fit
<1>2. Fits(<<key, v>>)
  BY DEF Fits, Limited
<1> QED
  BY <1>1, <1>2, FitOne DEF Optional

\* What a page saves.
IsForm(post) == IsSeq(post) /\ Fit(post)

\* The pages that save the same value under each of their keys.
LEMMA PlainPagesFit ==
    ASSUME NEW v
    PROVE  /\ IsForm(AiSave(v)) /\ IsForm(FailureSave(v)) /\ IsForm(OverridesSave(v))
           /\ IsForm(ContextSave(v)) /\ IsForm(ContextRecipient(v))
           /\ IsForm(ClassificationLabel(v)) /\ IsForm(ReleaseWhitelists(v))
<1>1. IsForm(AiSave(v))
  BY FitAll DEF IsForm, AiSave, Limited, Triggers, Holds
<1>2. IsForm(FailureSave(v))
  BY FitAll DEF IsForm, FailureSave, Limited, Triggers, Holds
<1>3. IsForm(OverridesSave(v))
  BY FitAll DEF IsForm, OverridesSave, Limited, Triggers, Holds
<1>4. IsForm(ContextSave(v))
  BY FitAll DEF IsForm, ContextSave, Limited, Triggers, Holds
<1>5. IsForm(ContextRecipient(v))
  BY FitAll DEF IsForm, ContextRecipient, Limited, Triggers, Holds
<1>6. IsForm(ClassificationLabel(v))
  BY FitAll DEF IsForm, ClassificationLabel, Limited, Triggers, Holds
<1>7. IsForm(ReleaseWhitelists(v))
  BY FitAll DEF IsForm, ReleaseWhitelists, Limited, Triggers, Holds
<1> QED
  BY <1>1, <1>2, <1>3, <1>4, <1>5, <1>6, <1>7

LEMMA ProviderFits ==
    ASSUME NEW v, NEW touched, NEW secret, NEW clear, NEW upload
    PROVE  IsForm(ProviderSave(v, touched, secret, clear, upload))
<1> DEFINE fields == All(<<"provider.type", "provider.model", "provider.base_url",
                           "provider.timeout_seconds", "provider.max_tokens">>, v)
           mtls == << <<"provider.mtls.enabled", IF clear THEN Default ELSE v>>,
                      <<"provider.mtls.skip_verify", v>> >>
           key == Optional(touched, "provider.api_key", secret)
           unset == All(<<"provider.mtls.pfx", "provider.mtls.pfx_password">>, Unset)
           pfx == Optional(upload /\ secret # Unset, "provider.mtls.pfx", secret)
           password == Optional(touched, "provider.mtls.pfx_password", secret)
           last == IF clear THEN unset ELSE pfx \o password
<1>1. IsSeq(fields) /\ Fit(fields)
  BY FitAll DEF Limited, Triggers, Holds
<1>2. IsSeq(mtls) /\ Fit(mtls)
  BY DEF IsSeq, Fit, Fits, Triggers, Holds
<1>3. IsSeq(key) /\ Fit(key)
  BY FitOptional DEF Limited, Triggers, Holds
<1>4. IsSeq(unset) /\ Fit(unset)
  BY FitAll DEF Limited, Triggers, Holds
<1>5. IsSeq(pfx) /\ Fit(pfx) /\ IsSeq(password) /\ Fit(password)
  BY FitOptional DEF Limited, Triggers, Holds
<1> HIDE DEF fields, mtls, key, unset, pfx, password
<1>6. IsSeq(last) /\ Fit(last)
  BY <1>4, <1>5, FitConcat
<1> HIDE DEF last
<1>7. IsSeq(fields \o mtls) /\ Fit(fields \o mtls)
  BY <1>1, <1>2, FitConcat
<1>8. IsSeq(fields \o mtls \o key) /\ Fit(fields \o mtls \o key)
  BY <1>3, <1>7, FitConcat
<1>9. IsForm(fields \o mtls \o key \o last)
  BY <1>6, <1>8, FitConcat DEF IsForm
<1>10. ProviderSave(v, touched, secret, clear, upload) = fields \o mtls \o key \o last
  BY DEF ProviderSave, fields, mtls, key, unset, pfx, password, last
<1> QED
  BY <1>9, <1>10

LEMMA ToolsFits ==
    ASSUME NEW v, NEW web_key, NEW unifi_key
    PROVE  IsForm(ToolsSave(v, web_key, unifi_key))
<1> DEFINE keys == <<"tools.ip_lookup.enabled", "tools.ip_lookup.non_us_note",
          "tools.ip_ownership.enabled", "tools.ip_ownership.max_ips",
          "tools.domain_age.enabled", "tools.domain_age.young_domain_days",
          "tools.dns_verify.enabled", "tools.web_search.enabled",
          "tools.web_search.backend", "tools.web_search.endpoint",
          "tools.web_fetch.enabled", "tools.web_fetch.backend", "tools.web_fetch.endpoint",
          "tools.shared_provider_check.enabled", "tools.unifi_block.enabled",
          "tools.unifi_block.policy", "tools.unifi_block.url",
          "tools.unifi_block.network_list", "tools.unifi_block.site",
          "tools.unifi_block.max_prefix", "tools.unifi_block.skip_verify">>
           fields == All(keys, v)
           web == Optional(web_key # Unset, "tools.web_search.api_key", web_key)
           unifi == Optional(unifi_key # Unset, "tools.unifi_block.api_key", unifi_key)
<1>1. IsSeq(fields) /\ Fit(fields)
  <2>1. Len(keys) = 21 /\ DOMAIN keys = 1..21
    OBVIOUS
  <2>2. \A i \in 1..21 : keys[i] \notin Limited
    <3>1. \A i \in 1..21 : keys[i] # "marking.trigger_verdicts"
      BY SMTT(60)
    <3>2. \A i \in 1..21 : keys[i] # "logging.retention_days"
      BY SMTT(60)
    <3>3. \A i \in 1..21 : keys[i] # "quarantine.retention_days"
      BY SMTT(60)
    <3> HIDE DEF keys
    <3> QED
      BY <3>1, <3>2, <3>3 DEF Limited, Triggers, Holds
  <2> HIDE DEF keys
  <2>3. /\ DOMAIN keys = 1..Len(keys) /\ Len(keys) \in Nat
        /\ \A i \in 1..Len(keys) : keys[i] \notin Limited
    BY <2>1, <2>2
  <2> QED
    BY <2>3, FitAll
<1>2. IsSeq(web) /\ Fit(web) /\ IsSeq(unifi) /\ Fit(unifi)
  BY FitOptional DEF Limited, Triggers, Holds
<1> HIDE DEF keys, fields, web, unifi
<1>3. IsSeq(fields \o web) /\ Fit(fields \o web)
  BY <1>1, <1>2, FitConcat
<1>4. IsForm(fields \o web \o unifi)
  BY <1>2, <1>3, FitConcat DEF IsForm
<1>5. ToolsSave(v, web_key, unifi_key) = fields \o web \o unifi
  BY DEF ToolsSave, keys, fields, web, unifi
<1> QED
  BY <1>4, <1>5

\* The other pages have a few keys each.
LEMMA MarkingFits ==
    ASSUME NEW f \in MarkingForms
    PROVE  IsForm(MarkingSave(f))
<1>1. IsSeq(MarkingSave(f))
  BY DEF MarkingSave, IsSeq
<1>2. Fit(MarkingSave(f))
  BY FormsAssumption DEF MarkingSave, Fit, Fits, Triggers, Holds
<1> QED
  BY <1>1, <1>2 DEF IsForm

LEMMA ClampedIs ==
    ASSUME NEW days \in Retentions
    PROVE  Clamped(days) \in 1..MaxRetention
<1>1. days \in Nat /\ MaxRetention \in Nat /\ MaxRetention >= 1
  BY SettingsAssumption
<1> QED
  BY <1>1 DEF Clamped

LEMMA ShortPagesFit ==
    ASSUME NEW v
    PROVE  /\ \A x : IsForm(ClassificationSave(v, x))
           /\ \A days \in Retentions : IsForm(LoggingSave(days, v)) /\ IsForm(QuarantineSave(days, v))
<1>1. ASSUME NEW x PROVE IsForm(ClassificationSave(v, x))
  BY DEF ClassificationSave, IsForm, IsSeq, Fit, Fits, Triggers, Holds
<1>2. ASSUME NEW days \in Retentions PROVE IsForm(LoggingSave(days, v)) /\ IsForm(QuarantineSave(days, v))
  <2> DEFINE held == Clamped(days)
  <2>1. held \in 1..MaxRetention
    BY ClampedIs
  <2> HIDE DEF held
  <2>2. /\ IsForm(<< <<"logging.retention_days", held>>, <<"logging.log_prompts", v>> >>)
        /\ IsForm(<< <<"quarantine.enabled", v>>, <<"quarantine.retention_days", held>> >>)
    BY <2>1 DEF IsForm, IsSeq, Fit, Fits, Triggers, Holds
  <2> QED
    BY <2>2 DEF LoggingSave, QuarantineSave, held
<1> QED
  BY <1>1, <1>2

LEMMA FormsFit ==
    ASSUME NEW page \in Pages, NEW post \in Forms[page]
    PROVE  IsForm(post)
<1>1. page \in {"ai", "provider", "failure", "context", "tools", "overrides", "marking",
                "classification", "logging", "quarantine", "release"}
  BY DEF Pages, Forms
<1>2. CASE page = "ai"
  BY <1>2, PlainPagesFit DEF Forms
<1>3. CASE page = "provider"
  BY <1>3, ProviderFits DEF Forms
<1>4. CASE page = "failure"
  BY <1>4, PlainPagesFit DEF Forms
<1>5. CASE page = "context"
  BY <1>5, PlainPagesFit DEF Forms
<1>6. CASE page = "tools"
  BY <1>6, ToolsFits DEF Forms
<1>7. CASE page = "overrides"
  BY <1>7, PlainPagesFit DEF Forms
<1>8. CASE page = "marking"
  BY <1>8, MarkingFits DEF Forms
<1>9. CASE page = "classification"
  BY <1>9, PlainPagesFit, ShortPagesFit DEF Forms
<1>10. CASE page = "logging"
  BY <1>10, ShortPagesFit DEF Forms
<1>11. CASE page = "quarantine"
  BY <1>11, ShortPagesFit DEF Forms
<1>12. CASE page = "release"
  BY <1>12, PlainPagesFit DEF Forms
<1> QED
  BY <1>1, <1>2, <1>3, <1>4, <1>5, <1>6, <1>7, <1>8, <1>9, <1>10, <1>11, <1>12

LEMMA TriggersIsKey == Triggers \in KeyNames
<1>1. PICK f \in MarkingForms : TRUE
  BY FormsAssumption
<1>2. MarkingSave(f) \in Forms["marking"] /\ "marking" \in Pages
  BY DEF Forms, Pages
<1>3. MarkingSave(f)[2][1] = Triggers /\ 2 \in DOMAIN MarkingSave(f)
  BY DEF MarkingSave, Triggers
<1>4. Triggers \in KeysOf("marking")
  BY <1>2, <1>3 DEF KeysOf
<1> QED
  BY <1>2, <1>4 DEF KeyNames

\* A key of a form is a key, and what the form has for it is given.
LEMMA FormGives ==
    ASSUME NEW page \in Pages, NEW post \in Forms[page], NEW i \in 1..Len(post)
    PROVE  /\ post[i][1] \in KeyNames
           /\ post[i][2] \in Given[post[i][1]]
<1>1. i \in DOMAIN post
  BY FormsFit DEF IsForm, IsSeq
<1>2. post[i][1] \in KeyNames
  <2>1. post[i][1] \in KeysOf(page)
    BY <1>1 DEF KeysOf
  <2> QED
    BY <2>1 DEF KeyNames
<1> DEFINE k == post[i][1]
           values(p) == {p[j][2] : j \in {l \in DOMAIN p : p[l][1] = k}}
           posts == UNION {Forms[q] : q \in Pages}
<1>3. post[i][2] \in values(post) /\ post \in posts
  BY <1>1
<1>4. Given[k] = {DefaultOf(k)} \union UNION {values(p) : p \in posts}
  BY <1>2 DEF Given
<1> HIDE DEF values, posts, k
<1>5. post[i][2] \in Given[k]
  BY <1>3, <1>4
<1> QED
  BY <1>2, <1>5 DEF k

LEMMA HoldsAreKeys == Holds \subseteq KeyNames
<1>1. PICK days \in Retentions : TRUE
  BY SettingsAssumption
<1>2. /\ LoggingSave(days, Default) \in Forms["logging"] /\ "logging" \in Pages
      /\ QuarantineSave(days, Default) \in Forms["quarantine"] /\ "quarantine" \in Pages
  BY SettingsAssumption DEF Forms, Pages
<1>3. /\ LoggingSave(days, Default)[1][1] = "logging.retention_days"
      /\ 1 \in DOMAIN LoggingSave(days, Default)
  BY DEF LoggingSave
<1>4. /\ QuarantineSave(days, Default)[2][1] = "quarantine.retention_days"
      /\ 2 \in DOMAIN QuarantineSave(days, Default)
  BY DEF QuarantineSave
<1>5. "logging.retention_days" \in KeysOf("logging")
  BY <1>2, <1>3 DEF KeysOf
<1>6. "quarantine.retention_days" \in KeysOf("quarantine")
  BY <1>2, <1>4 DEF KeysOf
<1> QED
  BY <1>2, <1>5, <1>6 DEF KeyNames, Holds

LEMMA SettingsStart == Init => SettingsInv
<1> SUFFICES ASSUME Init PROVE SettingsInv
  OBVIOUS
<1>1. DefaultOf(Triggers) = Threats
  BY DEF DefaultOf, Triggers, Secrets, Threats
<1>2. /\ DefaultOf("logging.retention_days") = DefaultDays
      /\ DefaultOf("quarantine.retention_days") = DefaultHold
  BY DEF DefaultOf, Secrets
<1>3. \A k \in Holds : DefaultOf(k) \in 1..MaxRetention
  BY <1>2, SettingsAssumption DEF Holds
<1>4. \A k \in KeyNames : DefaultOf(k) \in Given[k]
  BY DEF Given
<1>5. /\ saved = [k \in KeyNames |-> DefaultOf(k)]
      /\ torn = {} /\ visited \in Visits /\ saves = [page \in Pages |-> 0]
  BY DEF Init, SettingsInit
<1>6. visited \subseteq Pages
  BY <1>5, VisitsAssumption
<1>7. saves \in [Pages -> Nat]
  BY <1>5
<1>8. /\ \A k \in KeyNames : saved[k] = DefaultOf(k)
      /\ saved = [k \in KeyNames |-> saved[k]]
  BY <1>5
<1>9. saved[Triggers] \subseteq Threats
  BY <1>1, <1>8, TriggersIsKey
<1>10. \A k \in Holds : saved[k] \in 1..MaxRetention
  BY <1>3, <1>8, HoldsAreKeys
<1> QED
  BY <1>4, <1>5, <1>6, <1>7, <1>8, <1>9, <1>10 DEF SettingsInv

\* Only the marking page writes the triggers, and it offers threats; the days
\* are clamped by both pages that write them.
LEMMA SettingsStep ==
    ASSUME SettingsInv, [Next]_vars
    PROVE  SettingsInv'
<1>1. ASSUME NEW page \in visited, Save(page) PROVE SettingsInv'
  <2>1. PICK post \in Forms[page] : SavePage(post)
    BY <1>1 DEF Save
  <2>2. page \in Pages /\ IsForm(post) /\ visited' = visited
    BY <1>1, FormsFit DEF SettingsInv, Save
  <2>3. PICK n \in 0..Len(post), m \in 0..Len(post) :
           /\ saved' = Written(post, n)
           /\ torn' = (torn \union KeysAt(post, Changes(post, n)))
                       \ KeysAt(post, Changes(post, m))
    BY <2>1 DEF SavePage
  <2>4. n \in Nat /\ \A i \in 1..n : i \in 1..Len(post)
    BY <2>2 DEF IsForm, IsSeq
  <2>5. ASSUME NEW k \in KeyNames
        PROVE  saved'[k] = saved[k] \/ \E i \in 1..Len(post) : post[i][1] = k /\ saved'[k] = post[i][2]
    BY <2>3, <2>4, WrittenKey
  <2>6. saved' = [k \in KeyNames |-> saved'[k]]
    BY <2>3 DEF Written
  <2>7. \A k \in KeyNames : saved'[k] \in Given[k]
    BY <2>2, <2>5, FormGives DEF SettingsInv
  <2>8. saved'[Triggers] \subseteq Threats
    BY <2>2, <2>5, TriggersIsKey DEF SettingsInv, IsForm, Fit, Fits
  <2>9. \A k \in Holds : saved'[k] \in 1..MaxRetention
    BY <2>2, <2>5, HoldsAreKeys DEF SettingsInv, IsForm, Fit, Fits
  <2>10. torn' \subseteq KeyNames
    <3>1. \A i \in Changes(post, n) : post[i][1] \in KeyNames
      BY <2>2, <2>4, FormGives DEF Changes
    <3> QED
      BY <2>3, <3>1 DEF KeysAt, SettingsInv
  <2>11. saves' \in [Pages -> Nat]
    BY <1>1 DEF Save, SettingsInv
  <2> QED
    BY <2>2, <2>6, <2>7, <2>8, <2>9, <2>10, <2>11 DEF SettingsInv
<1>2. CASE UNCHANGED settingsVars
  BY <1>2 DEF settingsVars, SettingsInv
<1> QED
  BY <1>1, <1>2 DEF Next, SettingsNext, LogsNext, HeadersNext, vars
=============================================================================
