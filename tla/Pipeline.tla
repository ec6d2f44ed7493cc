------------------------------ MODULE Pipeline ------------------------------
(***************************************************************************)
(* Pipeline.process of app/pipeline/analyzer.py, run concurrently for      *)
(* every message the SMTP filter and the admin test page submit.           *)
(*                                                                         *)
(* The program is one asyncio event loop: a job's code runs without        *)
(* interruption from one await to the next, so an action is the code       *)
(* between two awaits.  A job waits for rspamd (at = "prepass", "rspamd"), *)
(* for the analysis semaphore ("sem") and for the AI provider ("ai").      *)
(* "decide" is the code after the last await; it reads only the job's own  *)
(* record, so giving it an action of its own changes no outcome.           *)
(***************************************************************************)
EXTENDS FailurePolicy, FiniteSets

CONSTANTS
    Mail,       \* messages handed over by postfix (one DATA command each)
    Tests,      \* submissions of the admin UI's message-test page
    Slots,      \* ENV.max_concurrent_analyses
    Domains,    \* sender domains
    Addresses,  \* recipients, plus-addressing already stripped
    Envelope,   \* the domain of a job's MAIL FROM
    Header,     \* the domain of its From: header
    Rcpts,      \* its envelope recipients
    Configs,    \* the settings the program may start with
    Edits,      \* those an admin may save while it runs
    Replies,    \* the answers rspamd may give
    Opinions,   \* the answers the AI provider may give
    NoDomain    \* an address without a domain (the null sender)

Jobs == Mail \union Tests

Verdicts   == {"SKIPPED", "HAM", "SPAM", "PHISHING", "MALICIOUS", "ERROR"}
AiVerdicts == {"HAM", "SPAM", "PHISHING", "MALICIOUS"}

\* The settings process() reads.  whitelist_domains and blocklist_domains are
\* the sender domains that some rule matches, subdomains included.
ConfigType ==
    [enabled: BOOLEAN, pipeline_order: {"ai_first", "rspamd_first"},
     rspamd_bypass_on_reject: BOOLEAN, drop_verdicts: SUBSET Verdicts,
     failure_mode: FailureModes, failure_policy: FailurePolicies,
     whitelist_domains: SUBSET Domains, blocklist_domains: SUBSET Domains,
     whitelist_recipients: SUBSET Addresses, require_auth: BOOLEAN,
     quarantine: BOOLEAN, mark_on_rspamd_spam: BOOLEAN]

\* What the decision reads in the AI's SpamallamVerdict; sure: its confidence
\* reaches drop_threshold.
Opinion == [verdict: AiVerdicts, sure: BOOLEAN]

\* What the pipeline reads in a RspamdResult.  "add header" stands for every
\* action of is_spam but reject, "no action" for those it ignores.  dmarc and
\* spf name no domain: a pass of DMARC is one of the From: header's domain, a
\* pass of SPF one of the MAIL FROM's.
RspamdResult ==
    [ok: BOOLEAN, action: {"", "no action", "add header", "reject"},
     dmarc: BOOLEAN, spf: BOOLEAN, av_failed: BOOLEAN]

Down == [ok |-> FALSE, action |-> "", dmarc |-> FALSE, spf |-> FALSE,
         av_failed |-> FALSE]

\* pre_rres = None: rspamd was not asked.  Never a result of check.
NotAsked == [ok |-> FALSE, action |-> "reject", dmarc |-> FALSE, spf |-> FALSE,
             av_failed |-> FALSE]

ASSUME JobsAssumption ==
    /\ IsFiniteSet(Mail) /\ IsFiniteSet(Tests) /\ Mail \intersect Tests = {}
    /\ Slots \in Nat \ {0}
ASSUME MessageAssumption ==
    /\ NoDomain \notin Domains
    /\ Envelope \in [Jobs -> Domains \union {NoDomain}]
    /\ Header \in [Jobs -> Domains \union {NoDomain}]
    /\ Rcpts \in [Jobs -> SUBSET Addresses]
ASSUME ConfigAssumption  == 
    Configs \subseteq ConfigType /\ Configs # {} /\ Edits \subseteq Configs
ASSUME RepliesAssumption ==
    /\ Replies \subseteq RspamdResult
    /\ \A r \in Replies : r.ok /\ r.action # ""
ASSUME OpinionsAssumption == Opinions \subseteq Opinion

VARIABLES
    settings,  \* settings.yml, what SETTINGS.all() returns now
    job,       \* the local variables of each job's process()
    ahead,     \* the semaphore's queue: the waiters that came before a waiter
    free,      \* the semaphore's counter
    outcome,   \* what process() returned, or how it ended
    marks,     \* what delivery added to the message
    held,      \* jobs with an entry in the quarantine store
    traced,    \* jobs with an entry in the trace log
    raw,       \* jobs with an attachment-stripped copy under logs/raw
    saw        \* history: the controls that really inspected the message

vars == <<settings, job, ahead, free, outcome, marks, held, traced, raw, saw>>

Places   == {"idle", "prepass", "sem", "ai", "rspamd", "decide", "done"}
Awaiting == {"prepass", "sem", "ai", "rspamd"}
Outcomes == {"none", "DELIVER", "DROP", "TEMPFAIL", "EXCEPTION", "ABORTED"}

JobType ==
    [at: Places, cfg: Configs, wl: {"none", "envelope", "header", "recipient"},
     bl: BOOLEAN, pre: RspamdResult, rres: RspamdResult, verdict: Verdicts,
     sure: BOOLEAN, ai_failed: BOOLEAN, bypassed: BOOLEAN]

MarkType ==
    [flag: BOOLEAN, banner: BOOLEAN, rspamd_error: BOOLEAN,
     control_failure: SUBSET Controls]

TypeOK ==
    /\ settings \in Configs
    /\ job \in [Jobs -> JobType]
    /\ ahead \in [Jobs -> SUBSET Jobs]
    /\ free \in 0..Slots
    /\ outcome \in [Jobs -> Outcomes]
    /\ marks \in [Jobs -> MarkType]
    /\ held \subseteq Jobs
    /\ traced \subseteq Jobs
    /\ raw \subseteq Jobs
    /\ saw \in [Jobs -> SUBSET Controls]

NewJob(cfg) ==
    [at |-> "idle", cfg |-> cfg, wl |-> "none", bl |-> FALSE, pre |-> NotAsked,
     rres |-> NotAsked, verdict |-> "SKIPPED", sure |-> FALSE,
     ai_failed |-> FALSE, bypassed |-> FALSE]

NoMarks == [flag |-> FALSE, banner |-> FALSE, rspamd_error |-> FALSE,
            control_failure |-> {}]

Init ==
    /\ settings \in Configs
    /\ job = [j \in Jobs |-> NewJob(settings)]
    /\ ahead = [j \in Jobs |-> {}]
    /\ free = Slots
    /\ outcome = [j \in Jobs |-> "none"]
    /\ marks = [j \in Jobs |-> NoMarks]
    /\ held = {} /\ traced = {} /\ raw = {}
    /\ saw = [j \in Jobs |-> {}]

-----------------------------------------------------------------------------
(* Overrides: app/pipeline/overrides.py *)

\* match_whitelist: the envelope sender, then the From: header, then the
\* recipients.
MatchWhitelist(cfg, j) ==
    CASE Envelope[j] \in cfg.whitelist_domains -> "envelope"
      [] Envelope[j] \notin cfg.whitelist_domains
         /\ Header[j] \in cfg.whitelist_domains -> "header"
      [] Envelope[j] \notin cfg.whitelist_domains
         /\ Header[j] \notin cfg.whitelist_domains ->
            IF Rcpts[j] \intersect cfg.whitelist_recipients # {}
            THEN "recipient" ELSE "none"

CheckBlocklist(cfg, j) ==
    {Envelope[j], Header[j]} \intersect cfg.blocklist_domains # {}

\* A wrong check: SPF, which vouches for the envelope, confirms a From: header.
AuthenticatedBySpf(source, r) == source = "recipient" \/ r.dmarc \/ r.spf

\* whitelist_is_authenticated: DMARC confirms either match, SPF an envelope
\* match alone.
Authenticated(source, r) ==
    \/ source = "recipient"
    \/ r.dmarc
    \/ source = "envelope" /\ r.spf

\* The rest of step 2: the verdict an override imposes.
Override(jr, j) ==
    LET bl == jr.wl = "none" /\ CheckBlocklist(jr.cfg, j)
    IN  [jr EXCEPT !.bl = bl,
                   !.verdict = IF jr.wl # "none" THEN "HAM"
                               ELSE IF bl THEN "SPAM" ELSE "SKIPPED",
                   !.sure = jr.wl # "none" \/ bl]

Overridden(jr) == jr.wl # "none" \/ jr.bl

-----------------------------------------------------------------------------
(* The two orders: where a job goes next *)

\* _run_ai_with_failure_handling up to its await: with the AI off the verdict
\* stays SKIPPED and the job goes on at next.
RunAi(jr, next) ==
    [jr EXCEPT !.at = IF jr.cfg.enabled THEN "sem" ELSE next]

IsReject(r) == r.ok /\ r.action = "reject"
IsSpam(r)   == r.ok /\ r.action \in {"add header", "reject"}

\* A wrong bypass: anything rspamd calls spam skips the AI.
BypassOnSpam(jr) ==
    ~Overridden(jr) /\ jr.cfg.enabled /\ jr.cfg.rspamd_bypass_on_reject
    /\ IsSpam(jr.rres)

Bypass(jr) ==
    ~Overridden(jr) /\ jr.cfg.enabled /\ jr.cfg.rspamd_bypass_on_reject
    /\ IsReject(jr.rres)

\* _order_rspamd_first once rspamd has scored the message.
AfterScore(jr) ==
    IF Overridden(jr) THEN [jr EXCEPT !.at = "decide"]
    ELSE IF Bypass(jr) THEN [jr EXCEPT !.at = "decide", !.bypassed = TRUE]
    ELSE RunAi(jr, "decide")

\* The dispatch on pipeline_order, up to the first await of the order chosen.
\* A result of the whitelist pre-pass stands in for the check of rspamd_first,
\* and, for mail it confirmed, for that of ai_first.
Dispatch(jr) ==
    IF jr.cfg.pipeline_order = "rspamd_first"
    THEN IF jr.pre # NotAsked
         THEN AfterScore([jr EXCEPT !.rres = jr.pre])
         ELSE [jr EXCEPT !.at = "rspamd"]
    ELSE IF ~Overridden(jr) THEN RunAi(jr, "rspamd")
         ELSE IF jr.wl # "none" /\ jr.pre # NotAsked
              THEN [jr EXCEPT !.at = "decide", !.rres = jr.pre]
              ELSE [jr EXCEPT !.at = "rspamd"]

\* Joining the semaphore's queue is part of the step that gets there.
Waiting == {j \in Jobs : job[j].at = "sem"}

Enqueue(j, jr) ==
    ahead' = IF jr.at = "sem" THEN [ahead EXCEPT ![j] = Waiting] ELSE ahead

Dequeue(j) == ahead' = [k \in Jobs |-> IF k = j THEN {} ELSE ahead[k] \ {j}]

-----------------------------------------------------------------------------
(* The steps of process() *)

\* The call of process(): the settings are read once, here.
Arrive(j) ==
    LET src == MatchWhitelist(settings, j)
        new == [NewJob(settings) EXCEPT !.wl = src]
        jr  == IF src \in {"envelope", "header"} /\ settings.require_auth
               THEN [new EXCEPT !.at = "prepass"]
               ELSE Dispatch(Override(new, j))
    IN  /\ job[j].at = "idle"
        /\ job' = [job EXCEPT ![j] = jr]
        /\ Enqueue(j, jr)
        /\ UNCHANGED <<settings, free, outcome, marks, held, traced, raw, saw>>

\* What rspamd may answer: nothing (an error or the timeout of the client), or
\* a reply.  In ai_first order the headers tell it of a whitelisted message, and
\* its plugin then forces "no action", but only if their signature verifies
\* (rspamd.local.lua:110-120), which module Headers shows may fail.
RspamdAnswers == Replies \union {Down}

Saw(j, r) ==
    saw' = [saw EXCEPT ![j] = @ \union (IF r.ok THEN {"rspamd"} ELSE {})
                \union (IF r.ok /\ ~r.av_failed THEN {"antivirus"} ELSE {})]

\* The whitelist pre-pass: an unconfirmed hit is forgotten.
PrePass(j, r) ==
    LET wl == IF Authenticated(job[j].wl, r) THEN job[j].wl ELSE "none"
        jr == Dispatch(Override([job[j] EXCEPT !.pre = r, !.wl = wl], j))
    IN  /\ job[j].at = "prepass"
        /\ r \in RspamdAnswers
        /\ job' = [job EXCEPT ![j] = jr]
        /\ Enqueue(j, jr)
        /\ Saw(j, r)
        /\ UNCHANGED <<settings, free, outcome, marks, held, traced, raw>>

\* _check_rspamd of either order.
Score(j, r) ==
    LET scored == [job[j] EXCEPT !.rres = r]
        jr == IF scored.cfg.pipeline_order = "rspamd_first"
              THEN AfterScore(scored) ELSE [scored EXCEPT !.at = "decide"]
    IN  /\ job[j].at = "rspamd"
        /\ r \in RspamdAnswers
        /\ job' = [job EXCEPT ![j] = jr]
        /\ Enqueue(j, jr)
        /\ Saw(j, r)
        /\ UNCHANGED <<settings, free, outcome, marks, held, traced, raw>>

\* A wrong semaphore: whichever waiter comes first takes the slot.
AnyWaiter(j) == job[j].at = "sem"

\* asyncio.Semaphore wakes its waiters in the order they came.
NextWaiter(j) == job[j].at = "sem" /\ ahead[j] = {}

AcquireSlot(j) ==
    /\ free > 0
    /\ NextWaiter(j)
    /\ Dequeue(j)
    /\ free' = free - 1
    /\ job' = [job EXCEPT ![j].at = "ai"]
    /\ UNCHANGED <<settings, outcome, marks, held, traced, raw, saw>>

AfterAi(jr) == IF jr.cfg.pipeline_order = "rspamd_first" THEN "decide" ELSE "rspamd"

\* The provider's verdict, within the timeout.
AiAnswers(j, v) ==
    /\ job[j].at = "ai"
    /\ job' = [job EXCEPT ![j].verdict = v.verdict, ![j].sure = v.sure,
                          ![j].at = AfterAi(job[j])]
    /\ free' = free + 1
    /\ saw' = [saw EXCEPT ![j] = @ \union {"ai"}]
    /\ UNCHANGED <<settings, ahead, outcome, marks, held, traced, raw>>

\* A provider error, or timeout_seconds passing.
AiFails(j) ==
    /\ job[j].at = "ai"
    /\ job' = [job EXCEPT ![j].verdict = "ERROR", ![j].ai_failed = TRUE,
                          ![j].at = AfterAi(job[j])]
    /\ free' = free + 1
    /\ UNCHANGED <<settings, ahead, outcome, marks, held, traced, raw, saw>>

-----------------------------------------------------------------------------
(* Steps 6 to 7: the decision *)

AiDrop(jr) ==
    jr.wl = "none" /\ jr.verdict \in jr.cfg.drop_verdicts /\ jr.sure

RspamdDrop(jr) == IsReject(jr.rres) /\ jr.wl = "none"

Detected(jr) == AiDrop(jr) \/ RspamdDrop(jr)

\* A wrong step 6b: rspamd down is not counted as antivirus down.
FailedRspamdOnly(jr) ==
    (IF jr.cfg.enabled /\ jr.ai_failed THEN {"ai"} ELSE {})
    \union IF ~jr.rres.ok THEN {"rspamd"}
           ELSE IF jr.rres.av_failed THEN {"antivirus"} ELSE {}

Failed(jr) ==
    (IF jr.cfg.enabled /\ jr.ai_failed THEN {"ai"} ELSE {})
    \union IF ~jr.rres.ok THEN {"rspamd", "antivirus"}
           ELSE IF jr.rres.av_failed THEN {"antivirus"} ELSE {}

Enabled(cfg) == {"rspamd", "antivirus"} \union (IF cfg.enabled THEN {"ai"} ELSE {})

PolicyKey(cfg, key) == Resolve(cfg.failure_policy, cfg.failure_mode, key)

\* A wrong policy: read from the settings as they are now.
PolicyNow(jr) ==
    IF Failed(jr) = {} \/ jr.wl # "none" THEN "deliver_tagged"
    ELSE PolicyOf(settings.failure_policy, settings.failure_mode, Failed(jr),
                  Enabled(settings))

\* The policy for the controls that failed; whitelisted mail is exempt.
Policy(jr) ==
    IF Failed(jr) = {} \/ jr.wl # "none" THEN "deliver_tagged"
    ELSE PolicyOf(jr.cfg.failure_policy, jr.cfg.failure_mode, Failed(jr),
                  Enabled(jr.cfg))

\* A wrong save: a copy of every message with a failed control is kept.
KeepsEveryFailure(jr) == Detected(jr) \/ Failed(jr) # {}

\* process() saves a raw copy and a quarantine entry on both of these paths.
Keeps(jr) == Detected(jr) \/ Policy(jr) = "quarantine"

\* A wrong failure policy: an unsaved quarantine entry is dropped anyway.
DecisionUnsafe(jr, kept) ==
    IF Keeps(jr) THEN "DROP"
    ELSE IF Policy(jr) = "defer" THEN "TEMPFAIL" ELSE "DELIVER"

\* The Decision, given whether the quarantine entry was kept.
Decision(jr, kept) ==
    IF Detected(jr) THEN "DROP"
    ELSE CASE Policy(jr) = "defer" -> "TEMPFAIL"
           [] Policy(jr) = "quarantine" -> IF kept THEN "DROP" ELSE "TEMPFAIL"
           [] Policy(jr) = "deliver_tagged" -> "DELIVER"

\* body.rewrite's rspamd-driven banner, and the result headers.
MarksOf(jr) ==
    [flag |-> IsSpam(jr.rres),
     banner |-> jr.cfg.mark_on_rspamd_spam /\ IsSpam(jr.rres) /\ ~IsReject(jr.rres),
     rspamd_error |-> ~jr.rres.ok,
     control_failure |-> Failed(jr)]

\* _save_quarantine saves nothing with the store off, nor for the test page,
\* whose recorder has no trace id.
Storable(j, cfg) == cfg.quarantine /\ j \in Mail

\* What a decision writes, in this order.
Files == {"raw", "quarantine", "trace"}

Kept(j, ok)   == Keeps(job[j]) /\ Storable(j, job[j].cfg) /\ "quarantine" \in ok
Logged(j, ok) == j \in Mail /\ "trace" \in ok

\* ok is the set of the files that get written: the raw copy and the quarantine
\* entry are best effort.
Write(j, ok) ==
    /\ job[j].at = "decide"
    /\ held' = IF Kept(j, ok) THEN held \union {j} ELSE held
    /\ raw' = IF Keeps(job[j]) /\ j \in Mail /\ "raw" \in ok
              THEN raw \union {j} ELSE raw
    /\ traced' = IF Logged(j, ok) THEN traced \union {j} ELSE traced

\* The trace is not protected: its failure is an exception of process(),
\* answered with 451.
Decide(j) ==
    \E ok \in SUBSET Files :
        LET result == IF j \in Mail /\ ~Logged(j, ok) THEN "EXCEPTION"
                      ELSE Decision(job[j], Kept(j, ok))
        IN  /\ Write(j, ok)
            /\ job' = [job EXCEPT ![j].at = "done"]
            /\ outcome' = [outcome EXCEPT ![j] = result]
            /\ marks' = IF result = "DELIVER"
                        THEN [marks EXCEPT ![j] = MarksOf(job[j])] ELSE marks
            /\ UNCHANGED <<settings, ahead, free, saw>>

-----------------------------------------------------------------------------
(* The environment *)

\* Two wrong cancellations: the slot of a cancelled analysis is not returned;
\* a cancelled waiter returns a slot it never had.
SlotsAfterLeak(j) == free
SlotsAfterDouble(j) == IF job[j].at \in {"sem", "ai"} THEN free + 1 ELSE free

\* Leaving "async with self._sem" returns the slot.
SlotsAfterCancel(j) == IF job[j].at = "ai" THEN free + 1 ELSE free

\* A wrong cancellation: the cancelled waiter stays in the queue.
QueueAfterNoCancel(j) == ahead' = [ahead EXCEPT ![j] = {}]

\* A cancelled waiter leaves the semaphore's queue.
QueueAfterCancel(j) == Dequeue(j)

\* postfix closes the connection (its own timeout, or a restart): the SMTP
\* server cancels the job at its await.
Disconnect(j) ==
    /\ j \in Mail
    /\ job[j].at \in Awaiting
    /\ QueueAfterCancel(j)
    /\ free' = SlotsAfterCancel(j)
    /\ job' = [job EXCEPT ![j].at = "done"]
    /\ outcome' = [outcome EXCEPT ![j] = "ABORTED"]
    /\ UNCHANGED <<settings, marks, held, traced, raw, saw>>

\* The container restarts, or crashes: every job is gone, what was written
\* stays.  One job at most was in the middle of its decision, and some of that
\* decision's files may be there.
Running(j) == job[j].at \notin {"idle", "done"}

Restart ==
    /\ \E j \in Jobs : Running(j)
    /\ job' = [j \in Jobs |-> IF Running(j) THEN [job[j] EXCEPT !.at = "done"]
                              ELSE job[j]]
    /\ outcome' = [j \in Jobs |-> IF Running(j) THEN "ABORTED" ELSE outcome[j]]
    /\ ahead' = [j \in Jobs |-> {}]
    /\ free' = Slots
    /\ \/ UNCHANGED <<held, traced, raw>>
       \/ \E j \in Jobs, ok \in SUBSET Files : Write(j, ok)
    /\ UNCHANGED <<settings, marks, saw>>

\* An admin saves settings: the keys of one page are written in one step of
\* the event loop.
SaveSettings(cfg) ==
    /\ settings' = cfg
    /\ cfg # settings
    /\ UNCHANGED <<job, ahead, free, outcome, marks, held, traced, raw, saw>>

\* The test page may be used again.
Resubmit(t) ==
    /\ job[t].at = "done"
    /\ job' = [job EXCEPT ![t] = NewJob(job[t].cfg)]
    /\ outcome' = [outcome EXCEPT ![t] = "none"]
    /\ marks' = [marks EXCEPT ![t] = NoMarks]
    /\ saw' = [saw EXCEPT ![t] = {}]
    /\ UNCHANGED <<settings, ahead, free, held, traced, raw>>

Analyse(j) ==
    \/ AcquireSlot(j)
    \/ \E v \in Opinions : AiAnswers(j, v)
    \/ AiFails(j)

Ask(j) == \E r \in RspamdAnswers : PrePass(j, r) \/ Score(j, r)

Step(j) == Ask(j) \/ Analyse(j) \/ Decide(j)

Next ==
    \/ \E j \in Jobs : Arrive(j) \/ Step(j) \/ Disconnect(j)
    \/ Restart
    \/ \E cfg \in Edits : SaveSettings(cfg)
    \/ \E t \in Tests : Resubmit(t)

Spec == Init /\ [][Next]_vars

\* rspamd's client and the AI call have timeouts, the event loop runs what is
\* ready: a job that can take a step takes one.  Nobody has to submit a
\* message, change a setting or close a connection.
Fairness == \A j \in Jobs : WF_vars(Step(j))

FairSpec == Spec /\ Fairness
-----------------------------------------------------------------------------
(* Safety *)

Delivered(j) == outcome[j] = "DELIVER"

\* The controls that should inspect a job's message: the AI is not asked about
\* a message that an override decides.
Due(jr) == Enabled(jr.cfg) \ (IF Overridden(jr) THEN {"ai"} ELSE {})

\* Semaphore accounting (analyzer.py:54, 236).  Whatever ends an analysis - a
\* verdict, an error, the timeout, the sender's disconnection - its slot comes
\* back exactly once: the free slots and the running analyses always add up to
\* MAX_CONCURRENT_ANALYSES.
SlotsConserved == free + Cardinality({j \in Jobs : job[j].at = "ai"}) = Slots

\* The semaphore's queue orders exactly the jobs that wait for a slot: of two
\* waiters one is ahead of the other, never both, with all who are ahead of it,
\* and a job that left - to run, cancelled - is ahead of nobody, so that no slot
\* is handed to a dead job.
QueueIsExact ==
    /\ \A j \in Jobs : ahead[j] \subseteq Waiting \ {j}
    /\ \A j, k \in Waiting : j # k => (j \in ahead[k] <=> k \notin ahead[j])
    /\ \A j, k \in Waiting : k \in ahead[j] => ahead[k] \subseteq ahead[j]

\* A message that is delivered, and that no whitelist rule exempted, was
\* inspected by every control it was due, or the admin chose deliver_tagged
\* for each control that did not inspect it (analyzer.py:156-183).  The
\* controls that inspected it are the ones that answered, in saw: across the
\* pre-pass and both orders no failure gets lost on the way to the decision.
UnavailableControlObeyed ==
    \A j \in Jobs : Delivered(j) /\ job[j].wl = "none" =>
        \A c \in Due(job[j]) \ saw[j] :
            PolicyKey(job[j].cfg, c) = "deliver_tagged"

\* A delivered message that none of its controls inspected, that is not exempt
\* and not blocklisted, was delivered under an all_down policy of
\* deliver_tagged: defer or quarantine for a total outage is never undercut by
\* the per-control settings (analyzer.py:172-177).
AllDownObeyed ==
    \A j \in Jobs :
        Delivered(j) /\ ~Overridden(job[j]) /\ saw[j] = {} =>
            PolicyKey(job[j].cfg, "all_down") = "deliver_tagged"

\* The same for every message that is not whitelisted.  This is what
\* docs/FAILURE-POLICY.md:74 says ("Applied when nothing inspected the message
\* at all"); the code misses a blocklisted message, for which the AI is enabled
\* but was not asked, so that it is not among the failed.
NothingInspectedMeansAllDown ==
    \A j \in Jobs : Delivered(j) /\ job[j].wl = "none" /\ saw[j] = {} =>
        PolicyKey(job[j].cfg, "all_down") = "deliver_tagged"

\* A message that was dropped without a detection - a control was unavailable
\* and the policy is quarantine - is in the quarantine store, even when the
\* store cannot be written, is switched off, or settings change meanwhile: it
\* is deferred then (analyzer.py:409-424).
UninspectedNeverLost ==
    \A j \in Jobs : outcome[j] = "DROP" /\ ~Detected(job[j]) => j \in held

\* What an admin finds in quarantine was never delivered, nor left with postfix
\* by a decision.  Its job dropped it, and then the trace log says so too; or
\* ended after the entry was written and before the sender was told, in a crash
\* or because the trace could not be written (analyzer.py:148-154, 409-424).
\* postfix keeps such a message and tries again: that one exists twice.
HeldIsAccountedFor ==
    \A j \in held :
        \/ outcome[j] = "DROP" /\ j \in traced
        \/ outcome[j] = "EXCEPTION" /\ j \notin traced
        \/ outcome[j] = "ABORTED"

\* A message that a sender-domain rule exempts, with authentication required.
Exempted(j) ==
    /\ job[j].wl \in {"envelope", "header"}
    /\ job[j].cfg.require_auth
    /\ job[j].at \in {"decide", "done"}
    /\ outcome[j] # "ABORTED"

\* An exemption is honoured "only once rspamd confirms the sender is who it
\* claims to be" (analyzer.py:83-88): one of the domains the rule names is a
\* domain that rspamd confirmed.  The code takes any DMARC pass for an envelope
\* match (overrides.py:82-84), also that of a From: header with another domain.
ForgedSenderNotExempt ==
    \A j \in Jobs : Exempted(j) =>
        \/ job[j].pre.dmarc /\ Header[j] \in job[j].cfg.whitelist_domains
        \/ job[j].pre.spf /\ Envelope[j] \in job[j].cfg.whitelist_domains

\* The extent of that: an exemption always has an answer of rspamd behind it, so
\* that no outage turns a rule into a bypass (analyzer.py:92-106), with a DMARC
\* pass or, for an envelope match, an SPF pass; and if nothing confirms a domain
\* that the rule names, it is a forged MAIL FROM beside a From: header of another
\* domain that has a DMARC pass of its own.
ExemptionNeedsEvidence ==
    \A j \in Jobs : Exempted(j) =>
        LET rule == job[j].cfg.whitelist_domains
            pre  == job[j].pre
        IN  /\ "rspamd" \in saw[j]
            /\ \/ pre.dmarc /\ Header[j] \in rule
               \/ pre.spf /\ Envelope[j] \in rule
               \/ pre.dmarc /\ Envelope[j] \in rule /\ Header[j] \notin rule

\* rspamd_bypass_on_reject "never changes the final outcome"
\* (settings.py:41-45): whatever the skipped analysis might have said, or
\* failing, the job would have come to the same decision.
BypassNeutral ==
    \A j \in Jobs : job[j].bypassed =>
        \A v \in AiVerdicts \union {"ERROR"}, sure, kept \in BOOLEAN :
            LET asked == [job[j] EXCEPT !.verdict = v, !.sure = sure,
                                        !.ai_failed = (v = "ERROR")]
            IN  /\ Decision(asked, kept) = Decision(job[j], kept)
                /\ Keeps(asked) = Keeps(job[j])

\* Every delivered message - exempt, blocklisted or not - names in
\* X-SpamAllam-Control-Failure each control that was due and did not inspect it
\* (analyzer.py:160-167, 203-207).
FailuresAreTagged ==
    \A j \in Jobs : Delivered(j) =>
        Due(job[j]) \ saw[j] \subseteq marks[j].control_failure

\* A whitelisted message passes as ham: "rspamd is forced to 'no action'"
\* (templates/overrides.html:5-6), it carries no spam flag and no banner.  In
\* ai_first order the code reuses the pre-pass result, scored before the
\* whitelist header existed, or sends a header whose signature may not verify,
\* and in rspamd_first order rspamd never sees one.
WhitelistedPassesAsHam ==
    \A j \in Jobs : Delivered(j) /\ job[j].wl # "none" =>
        ~marks[j].flag /\ ~marks[j].banner

-----------------------------------------------------------------------------
(* Refinement *)

\* What the callers of process() see of it.
Promise == INSTANCE Disposition WITH
    Forgetful <- Tests,
    detected  <- {j \in Jobs : outcome[j] = "DROP" /\ Detected(job[j])}

\* The pipeline implements Disposition.
KeepsPromise == Promise!Spec

-----------------------------------------------------------------------------
(* Liveness *)

\* Every message that arrives is answered, however long the queue for the
\* analysis semaphore and however often the test page joins it.
EveryMailAnswered ==
    \A j \in Mail : (job[j].at # "idle") ~> (job[j].at = "done")
=============================================================================
