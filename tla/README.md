# SpamAllam in TLA+

SpamAllam is an inbound e-mail gateway: postfix receives mail from the Internet
and passes every message through a Python content filter, which asks rspamd and
an AI provider about it and then re-injects it into postfix, drops it (keeping a
copy in quarantine) or asks postfix to try again later. This directory holds
TLA+ modules of the filter's own logic, TLC configurations that model-check them
on small instances, and proofs for TLAPS.

Source paths below are relative to `spamallam/app/` unless they start at the
root of the repository.

## 1. The system

### Components

| component | state it keeps | operations | modelled in |
|---|---|---|---|
| analysis pipeline `pipeline/analyzer.py` | one semaphore; the local variables of each running `process()` | `process`, `process_test` | `Pipeline`, `Disposition` |
| failure policy `pipeline/failure.py` | none | `resolve`, `strictest` | `FailurePolicy` |
| overrides `pipeline/overrides.py` | none (reads settings) | `match_whitelist`, `check_blocklist`, `whitelist_is_authenticated` | `Pipeline` |
| rspamd client `pipeline/rspamd_client.py` | none | `check` | `Pipeline` (its answers) |
| headers `pipeline/headers.py`, rspamd Lua plugin | none | strip, build, sign; verify | `Headers`, `Records` |
| body rewriting `pipeline/body.py`, `sanitize.py`, `rawcopy.py` | none | `rewrite`, `preview_document`, `strip_for_review` | `Marking` (what `rewrite` shows), `Records` |
| SMTP filter `smtp/server.py` | the session (XFORWARD attributes) | `smtp_XFORWARD`, `handle_EHLO`, `handle_DATA` | `Gateway` |
| re-injection `deliver.py` | a thread of the default executor | `reinject` | `Gateway`, `Quarantine` |
| postfix (external) | its queue | accept, deliver to the filter, retry, return | `Gateway`, `Custody` |
| quarantine store `store/quarantine.py` | two files per entry | `save`, `mark`, `prune`, reads | `Quarantine` |
| quarantine pages `admin/app.py` 749-906 | none | preview, release, delete | `Quarantine` |
| retention loop `main.py` 126-142 | none | three prunes a day | `Logs` (traces, raw copies), `Quarantine` |
| trace log, raw copies `store/tracelog.py`, `rawlog.py` | a file per day, a cache of 200 | `finish`, `read_recent`, `prune` | `Logs`; `Pipeline` (whether a trace is left) |
| settings `store/settings.py`, settings pages `admin/app.py` | `settings.yml` | `all`, `get`, `set`, `update`; the pages that save | `Settings`; `Pipeline` (the snapshot) |
| users, tokens, passkeys, sessions `store/users.py`, `admin/security.py`, `admin/webauthn_flow.py` | `users.yml`, `tokens.yml`, signed cookies | setup, invite, log in, add and remove a passkey, delete a user | `Enrollment` |
| AI engine and providers `ai/`, `providers/` | none | prompt, tool loop, verdict | `Analysis`; `Pipeline` (the verdict) |
| tools `tools/` | a Redis cache, the UniFi block list, a suggestions file | look-ups, block; web search and fetch | `Analysis`, but for the web |
| process `main.py` | the listeners, the certificate in use | bootstrap, restart of the admin listener | `Enrollment` (the setup token) |
| secrets, audit `store/secrets.py`, `store/audit.py` | `audit.jsonl` | encrypt, decrypt, redact; `record` | `Settings` (changes), `Analysis` (blocks) |
| acme, compose, postfix and rspamd configuration | - | shell and configuration | not modelled |

### How they interact

Everything in the program runs on one asyncio event loop: the SMTP sessions, the
admin UI and the retention loop. A handler is therefore interrupted only where it
awaits, and the awaits are few: the rspamd request, the semaphore, the AI call
(inside which each request to the provider, Redis, DNS, RDAP and UniFi is one),
and the re-injection, which runs on a thread. The components share the settings
file (read as a snapshot at the start of `process()`), the quarantine directory,
the logs, the semaphore and the default thread pool; analyses share the look-up
cache and the address group of UniFi. rspamd sees a verdict only as the headers
that were put into the message. postfix talks to the filter over SMTP
and sees of it only the answer to DATA, or no answer.

### What is hard

* A decision is taken from three failure sources (AI, rspamd, antivirus behind
  rspamd), two orders, a pre-pass and overrides; forgetting a failure in any
  combination delivers mail that nothing inspected.
* A job can end at any await: provider error, timeout, cancellation because
  postfix closed the session, restart of the container.
* Cancelling a handler does not stop its re-injection thread; the answer to DATA
  may be lost after the message was delivered; postfix then retries.
* Files are written one by one, so an I/O error or a crash leaves an entry
  between two states, and users act on entries while a release awaits.
* A registration is two requests with a person in between, tokens and sessions
  outlive what they were issued for, and a request may arrive twice.
* Retention compares days with times, and prunes three stores one after the other,
  any of which may fail or see midnight pass.
* The model decides which tools are called, in turns of any shape; two analyses
  read and write back one address group; a look-up that failed is cached for all.
* A settings page writes key by key and records afterwards.
* What is signed and what is written go through different clean-ups, and a message
  may arrive with headers of the same names.

PROJECT.json lists each hazard with its line and the properties that cover it.

### What makes each component correct

* pipeline: no control's failure is ignored; an exemption rests on evidence of the
  domain it names; a dropped message was detected or is held, and a held one was
  dropped; slots are conserved; every message is answered.
* gateway: an accepted message never vanishes; an attempt that is to be repeated
  had no effect, except through the very step that failed.
* quarantine: what is listed can be released, reaches only those it may, is erased
  only for a reason, and in the end.
* enrollment: a token registers one passkey; a passkey goes to the account its
  challenge was for; an administrator remains, and so does a user's last passkey.
* analysis: a conversation is well-formed whatever the model calls; a network is
  blocked for a reason, what is blocked is on record, and what was recorded stays
  true; every analysis ends.
* records: the audit log tells what the settings are; a trace leads to its raw
  copy, and the cache to the newest traces; rspamd scores this gateway's verdict
  and no other; a banner makes sense.

## 2. The modules

| module | models | extends or instantiates |
|---|---|---|
| `FailurePolicy` | `failure.py` and step 6b's use of it, as operators | - |
| `Disposition` | abstract: what `process()` promises its callers | - |
| `Pipeline` | `Pipeline.process`, concurrent jobs | `FailurePolicy`; implements `Disposition` |
| `Custody` | abstract: what the gateway owes a message | - |
| `Gateway` | postfix's queue, `handle_DATA`, `reinject` | `Disposition` as its pipeline; implements `Custody` |
| `Quarantine` | the store, its pages, the retention loop | - |
| `Enrollment` | users, passkeys, one-time tokens, sessions, the Users page | - |
| `Analysis` | the tool loop, the tools, the look-up cache, the UniFi group, the records of blocks | - |
| `Settings` | the settings, the pages that save them, the audit log | - |
| `Ordering` | a finite set in an order, as operators | - |
| `Logs` | trace files, the cache of traces, raw copies, retention | `Ordering` |
| `Marking` | what a delivered message shows, as operators | - |
| `Headers` | stripping, signing, and the rspamd plugin | `Ordering` |
| `Records` | the settings with what depends on them after a message was judged | `Settings`, `Logs`, `Marking`, `Headers` |
| `MCPipeline`, `MCGateway`, `MCQuarantine`, `MCEnrollment`, `MCAnalysis`, `MCRecords` | values for TLC | the module of that name |
| `MCMail`, `MCAdmin` | two components side by side in one run | `MCGateway` and `MCAnalysis`; `MCRecords` and `MCEnrollment` |
| `PipelineProofs`, `PipelineDecisionProofs`, `GatewayProofs`, `QuarantineProofs`, `EnrollmentProofs`, `AnalysisProofs`, `RecordsProofs`, `RecordsOrderProofs` | proofs | the modules they are about |

An operator whose comment starts "A wrong ..." is not part of a specification:
it is a plausible mistake in the code, kept next to the definition it would
replace, and used to check that the properties notice it.

### Pipeline

A job is one call of `process()`. `job[j]` is its local variables, with `at` the
await it is suspended at: `prepass` and `rspamd` (the HTTP request), `sem` (the
semaphore), `ai` (the provider), `decide` (past the last await). An action is the
code from one await to the next, all of it:

| action | code |
|---|---|
| `Arrive` | `process` up to its first await: snapshot, whitelist match, blocklist, dispatch on the order |
| `PrePass` | after the authentication pre-pass: is the exemption confirmed, blocklist, dispatch |
| `Score` | after the rspamd request of either order, including the bypass |
| `AcquireSlot`, `AiAnswers`, `AiFails` | `async with self._sem`, the AI call, its error or timeout |
| `Decide` | step 6 to the end: detection, failure policy, raw copy, quarantine, marks, trace; each of the three files may fail, and a trace that fails is an exception |
| `Disconnect` | cancellation of one job at its await |
| `Restart` | end of all jobs, of which one may have been in its decision, with any of its three files written |
| `SaveSettings` | a settings page is saved |
| `Resubmit` | the test page is used again |

`ahead` is the semaphore's FIFO, as the set of waiters that came before a waiter,
so that a cancellation in the middle is one set operation. `saw` is a history
variable: the controls that really answered. The properties compare it with what
the code concluded, instead of repeating the code's own bookkeeping.

Addresses are reduced to a domain (or none), rspamd's answer to the five facts
the code reads, the AI's answer to its verdict and whether it is confident enough.
A DMARC pass is one of the `From:` domain, an SPF pass one of the `MAIL FROM`
domain: the code's check names neither, the properties do. rspamd may give any of
its answers in any pass: that a whitelist header makes it say "no action" needs a
signature that verifies, which is module `Headers`' matter.

### Gateway

postfix's queue, `maxproc` sessions and retries are external, modelled from how
the filter uses them (`postfix/templates/master.cf.tmpl:44-50`). Each attempt is
a job of `Disposition`, the abstract pipeline, so the gateway rests on the
promise that `Pipeline` is shown to keep. `handler[m]` is where `handle_DATA` is,
`thread[a]` the re-injection of an attempt, which lives on when the handler is
cancelled. `got[a]` are the recipients `:10025` accepted. `Break` ends a session
at any point, `Crash` everything.

### Quarantine

An entry is a metadata file (`meta`, its status) and a body file (`body`). `Save`
and `Mark` do 0, 1 or 2 of their two file operations; `PruneFails` stops anywhere
in a day, in the order the code deletes. A release is three actions (up to the
await, the thread, after it), because everything else can happen in between; a
delete and the prune are one action each. A crash at any point between file
operations is the same as an error there, because nothing else is kept.

### Enrollment

| state | code |
|---|---|
| `accounts`, `admins`, `keys` | `users.yml`; `doubled` are the credentials it lists more than once |
| `token` | `tokens.yml`; `burned` is a token that `consume_token` took out of it |
| `cookie` | the user name in a browser's signed session cookie |
| `seal` | the context of the sealed registration challenge a browser holds |
| `enrolled`, `origin` | history: passkeys per token, the challenge a passkey answered |

Each handler runs without interruption from the reading of its request to its
end, so it is one action. `SetupVerify` is `setup_verify` that reaches the
passkey, with or without the audit record and the cookie after it; `SetupFails`
is one that stops after burning the token or after creating the user. `Boot` is
`bootstrap_setup_token`, which can happen at any time, but issues a token only
while there are no users; the preset `SETUP_TOKEN` may come back into the file
after it was burned, which is why "single-use" needs an argument. Passkeys are
credential ids: an authenticator makes a new one for every registration, and only
a repeated request brings the same one again (`PasskeyVerify`). `Login` abstracts
the cryptography: whoever has a registered passkey can log in.

### Analysis

| state | code |
|---|---|
| `run[a]` | one call of `analyze_message`: its settings, the round of `run`, the turn and its results, the look-ups that the current tool has still to make |
| `cache` | Redis: the value of a look-up, `good` or `blank` |
| `group`, `flight` | the address group of UniFi, and the writes of it that are on their way |
| `listed`, `audited` | the lines of `block-suggestions.jsonl` and `audit.jsonl` about a message's block |
| `blind`, `overlapped`, `cut` | history: clients whose reverse look-up returned no name, pushes that overlapped, pushes without a record |

`Respond`, `Execute` and `EndTurn` are `providers/base.py`'s loop: a turn of
verdicts alone is final, any other turn has its calls executed in order, a bundled
verdict is answered with a nudge, and the rounds are bounded. Both wire formats
are a turn of calls. `Execute` is `registry.execute` up to the tool's first await;
a disabled tool and a refused argument are a result at once. `Hit` and `Look` are
`cached`: `Hit` is a value that Redis has, `Look` everything else, Redis being
down included. `List` is the moment UniFi answers the GET of `push_block`; its PUT
is then in `flight` and may take effect (`Land`) after the analysis has given up,
or never (`Vanish`). A second group of the same name, which two first pushes may
both POST, comes after the first one, which is the one `push_block` finds.
`Stop` is the time-out of the analysis or the end of its session, at any await.

The model may answer anything: `Answers` is a constant, and the theorems hold for
every value of it. Which addresses share a prefix is a constant too (`Network`),
so that no arithmetic on addresses is needed.

### Records

`Records` puts four parts together by the pages a behaviour visits (`visited`,
chosen in `Init`): some settings pages, saved in part or as a whole; or the
logging page, while messages arrive, are kept and pruned by the retention it
asks for; or none, while a message's headers are dealt with.

* `Settings`: a form is the sequence of `<<key, value>>` that its handler writes,
  with the handler's conditions (secrets that were left alone, a certificate that
  is cleared) and clean-ups (retention, scope, placement). `SavePage` writes any
  number of keys and then records any number of the changes, because an I/O error
  or the end of the program may come between any two writes. `torn` is a history
  variable: keys that a save cut short has changed. A new secret is always a
  change, since a ciphertext is never the same twice.
* `Logs`: `Finish` appends a trace to its day's file and to the cache, if it was
  loaded; `View` loads it; `Retain` is one pass over traces and raw copies, in
  which either may fail and midnight may come between them.
* `Marking`: `Rewrite` is what happens to a part of a message; it has no state.
* `Headers`: a message's lines are stripped when it arrives (`HeadersInit`),
  `Tag` builds and signs, `Scan` is rspamd with the plugin, before or after the
  verdict, and perhaps too late. An HMAC is the record that was signed. `Fold` is
  what a value looks like once it was written as a header: `ragged` and long
  values come back changed.

### The plan, and what became of it

1. `FailurePolicy`, `Disposition`, `Pipeline`: the decision. Checked and proved.
2. `Custody`, `Gateway`: delivery. Checked and proved.
3. `Quarantine`. Checked and proved.
4. `Enrollment`: who may use the admin UI. Checked and proved.
5. `Analysis`: the tool loop, with the cache and the address group it shares.
   Checked and proved.
6. `Settings`, `Logs`, `Marking`, `Headers`, composed in `Records`.
   Checked and proved.

Left: the admin listener that is restarted on a new certificate, and the
SMTP session's XFORWARD attributes (see "Not modelled").

## 3. The runs

| run | expects | shows |
|---|---|---|
| `pipeline` | pass | one message under 170 settings, with ten answers of rspamd or none, four of the AI or none, and an admin who switches to the strictest settings meanwhile; and, under one setting, two messages and a repeatable test submission on one slot, with broken connections and crashes: the decision, slots, queue, liveness, refinement of `Disposition` |
| `pipeline_all_down` | violation | a blocklisted message that nothing inspected escapes `all_down` |
| `pipeline_whitelist` | violation | a whitelisted message carries the spam flag |
| `pipeline_forged` | violation | a whitelisted domain in a forged `MAIL FROM` is exempt on another domain's DMARC pass |
| `mail` | pass | two messages (one with two recipients and two attempts), two sessions, one thread: refinement of `Custody`, effects of deferred attempts, liveness; and two analyses of two rounds with one cache and one address group, one from a shared provider's address and the other from a neighbour of it: blocks, records, termination |
| `gateway_recipients` | violation | a refused recipient is forgotten |
| `analysis_shared` | violation | a shared provider's address is blocked |
| `quarantine` | pass | two entries, an administrator and an owner of one recipient, two days of retention on a clock of seven half-days |
| `quarantine_delete` | violation | a deleted message is delivered by a release under way |
| `admin` | pass | every settings page saved twice, in part or as a whole, some of them with another that writes the same keys or is read with them; three messages on two days with a retention of one or two; header blocks of up to three lines; two names, two browsers, two passkeys, a setup token that may be preset or not, two other tokens, a clock that may pass their expiry: audit log, cache of traces, traces and copies, headers, tokens, challenges, administrators and passkeys |
| `enrollment_doubled` | violation | a passkey that is listed twice is removed as the last one |
| `records_banner` | violation | a banner flags a message as HAM |

### Why the bounds are enough

* Two components in one run share no variable and no step: `MCMail` and `MCAdmin`
  let one of them be at work in a behaviour, while the other stays in its initial
  state, where nothing is enabled that is treated fairly. Each is therefore checked
  as it would be alone, and no property of one can hold because of the other.
* The properties of the decision are about one job: jobs share only the
  semaphore and the settings, and a saved setting is in the instance. One message
  with many combinations of settings therefore says more than several with few.
  `Scope` keeps the wide settings to one message and the one setting, with few
  answers, to all jobs. The 170 settings are five combinations of order, AI and
  bypass, with eight policies and the quarantine on or off without rules, and with
  three policies under six sets of rules. The message has different domains in
  `MAIL FROM` and `From:`, and the rules name one, the other, both, or a
  recipient, so that every way to a match occurs and either domain's evidence may be
  the wrong one.
* Slot accounting needs contention and a queue of two: three jobs and one slot
  give one runner and two waiters, in both orders, each of which may be
  cancelled. The test submission repeats without a bound, which is what could
  starve a message.
* In the gateway one thread for two messages makes a re-injection wait; two
  attempts of one message give an old thread that overlaps a new attempt.
* In the quarantine two days, a retention of two days and a half-day clock put
  entries on both sides of a midnight and of the cutoff. `LastSave` and `Horizon`
  stop the clock after every entry has expired. A message's analysis may have
  begun a tick before it is saved, so that a save may fall on the next day.
* In the enrollment two names and two browsers are enough for one user to act
  while another registers, is deleted or is invited again, and for one name to be
  claimed through two tokens. Two passkeys give one user two, or two users one
  each. One tick of the clock expires every token issued before it. Names,
  browsers, passkeys and the tokens that are not preset are interchangeable in
  the specification and the properties; `admin` and `enrollment_doubled` check no
  liveness property, so that the symmetry is sound.
* In the analysis two rounds (the code has eight) are a round that goes on and a
  round that ends the loop; two messages are what overlaps. The turns contain a
  bundled verdict given twice, a disabled tool, an argument that is no address,
  another address than the client's, and a block by each message, one of which is
  widened by the limit to cover the other's client.
* In the records a page is saved twice because a change that was cut short can be
  followed by one that was not; the logging page once, because the days matter
  and not the way to them. `MaxRetention` is 2 instead of 3650: the forms ask
  for 0 and for 5 days, one below the range and one above it. Three messages
  are one more than the cache holds (`CacheMax`); `Horizon` 1 gives two days.
  Header blocks have at most three of five kinds of lines: a forged verdict, a
  forged signature, another header, and two kinds of continuation, so that a
  header, its continuation and what follows them are all there. Traces are
  interchangeable, so that `ArriveInOrder` may fix the order in which messages
  arrive (`records_banner` uses the symmetry instead).

`CHECK_DEADLOCK FALSE` is set everywhere: with no more mail the system rests.

### Fairness

* `Pipeline`: weak fairness of each job's own steps. The event loop runs whatever
  is ready; the rspamd request and the AI call have timeouts, after which `Score`
  with no answer and `AiFails` are possible, so a job is never stuck in them.
  Acquiring a slot is fair because asyncio's semaphore is a FIFO, which is in the
  model (`ahead`), not in the fairness. Arrivals, disconnections, restarts and
  saves have none.
* `Gateway`: weak fairness of each message's delivery, its expiry, and each
  thread: postfix retries and in the end returns; the SMTP transaction has
  timeouts. `Processed` is fair because of `EveryMailAnswered`.
* `Quarantine`: the clock and the daily prune. The prune may fail any number of
  times; it does not fail for ever.
* `Analysis`: weak fairness of an analysis's own steps: every request to the
  provider, Redis, DNS, RDAP or UniFi has a time-out, after which the step that
  goes on without an answer is possible. UniFi's side has none: a write in flight
  may stay there.
* `MCMail`: the fairness of `Gateway` and of `Analysis`.
* `Enrollment`, `Records`: none; people need not do anything.

## 4. The proofs

All proofs hold for any set of jobs, messages, users, tokens, settings and answers
satisfying the ASSUMEs of the modules (finite sets of jobs and of passkeys, at
least one slot, messages with at least one recipient, an address in its own
network, triggers that are threats, a finite set of messages with traces, a header
value that is empty when its text is, at least one retention a form may ask for).

`PipelineProofs`. `TypeOK` alone is not inductive: that `free` does not exceed
`Slots` when a slot is returned follows only from the count of running analyses.
`TypeInd` is `TypeOK`, `SlotsConserved`, and that a bypassed job is at or past
the decision. `QueueIsExact` is inductive with it; its proof follows each action
that moves a job into or out of `sem`. It says that the waiters are in a line: that
of two one is ahead is not enough, since three could wait for each other in a ring,
so `ahead` is transitive besides. Hence the waiter with the fewest ahead has none
(`SomebodyIsNext`), and while anyone waits an analysis runs that will return its
slot, or a slot is free and there is one whose turn it is (`WaitersAreServed`).
`MailGoesOn` is the safety half of `EveryMailAnswered`: each step of a job leaves
it fewer awaits (`AwaitsLeft`, in either order of the controls), and no step of
another gives it one back or steps in front of it in the queue.

`PipelineDecisionProofs`. `DecisionInv` adds `JobOK` for each job: at each await,
how the record relates to the history `saw` (what an `ok` result implies, that a
verdict of `ERROR` and `ai_failed` go together, that an exemption at or past the
dispatch has its evidence in `pre`), and for a job that is done, how `outcome`,
`held` and `marks` follow from the record and from which files were written, a crash
between them included. Each safety property is then a consequence of `JobOK` for a
single job, which is why none of them is inductive alone: they speak of finished
jobs, and the reason lies in what each await left in the record. `HeldIsExplained`
needs `LoggedOK` besides: a decision of a message is logged, and an exception is
not. `PipelineKeepsPromise` maps every step to a step of `Disposition` or to a
stutter, from the same invariant. `ExemptionsHaveEvidence` bounds what section 5
says of a forged `MAIL FROM`, `OutageMissedForBlocklisted` what it says of
`all_down`: it is passed over only for a blocklisted message with the AI enabled and
both of rspamd's policies at `deliver_tagged`.

`GatewayProofs`. `GatewayInv` says which attempts can have a thread, an outcome
or recipients (only those up to the current one), that a thread exists only for
an outcome of `DELIVER`, and what a `250` or `451` on its way implies. The
refinement of `Custody` is `NothingIsLost`: the only step that lets go of a
message is the reading of a `250`, and the invariant says it stands for an effect.
`MailMovesOn` is the safety half of `EveryMailSettles`: a number (`TurnsLeft`, six
for each attempt left and the place of the session) falls with every step of a
session or of its thread and rises with none, not with a broken session nor with a
crash; postfix takes no settled message up again. `NobodyIsForgotten` says that a
handler that waits for a re-injection has a call in the pool, which holds because a
withdrawn call is of the session that ends, and that a queued message is kept out
only by the sessions of others.

`EnrollmentProofs`. `TokenEnrollsOnce` is not inductive, because a boot may put a
burned preset token back. `EnrollmentInv` adds, for each token, that it has
registered nothing unless it is burned, and that one that has left a user behind:
with `accounts = {}` as the guard of `Boot`, no token that was used comes back.
Users never run out again because who deletes is another user, who stays;
`AdminRemains` says it of administrators. `OnlyDoubledLost` rests on counting: a
set with more than one member keeps one when one goes.

`QuarantineProofs`. `QuarantineInv` adds `ReleaseOK` to the three invariants: what a
release under way may still reach was asked for by its user, and one that is about
to say "released" has delivered, to someone its user may release it to.
`BodyNotLost` is about a step, and needs arithmetic: a time lies within a day of its
day's midnight (`DayBounds`), so an expired entry is at least as old as the
retention less a day (`ExpiredIsOld`). `BodiesAreErased` is the safety half of
`EveryBodyErased`, for which `ErasureInv` says that every file is of a message that
was dropped, once: a body becomes overdue at the end of its retention
(`OldIsExpired`), no save writes one that already is (`FreshIsNotExpired`), an
overdue one gives the loop work and does not survive its prune, and none comes back.
`LateReleasesOnly` bounds what section 5 says of deletions: a message a user was
told is deleted has no body, no release of it can begin, and only one whose thread
was under way delivers it, to whom it was meant.

`AnalysisProofs`. Four invariants. `LoopInv`: the results of a turn are different
calls of it, the call being made is one that has none, and none of them is a
verdict; then `Nudged` completes the turn. `ConfigInv`: an analysis keeps the
settings it began with, and pushes only under "auto". `BlocksInv`: a write in flight
and the blocks it sends along are justified like a block in force, since they may
become one, and a blank in the cache was a look-up that failed. `RecordInv`: a block
in force or in flight is told of by a record, by an analysis that still waits, or by
one that was cut (`UnauditedBlocks`); two writes in flight mean that both their
analyses overlapped, so that a write which had UniFi to itself stays in force
(`ExecutedBlocksStay`). `BlocksAreJustified`, `CallsAnswered` and `UnauditedBlocks`
bound what section 5 says of `unifi_block` and of second verdicts: what is named
there is all that happens. `AnalysesMoveOn` is the safety half of
`EveryAnalysisEnds`: an analysis has a rank of four numbers - the rounds left, what
the turn has left to answer, the part of the call it makes, its look-ups - that each
of its steps lowers and no other changes, whatever the model calls and however the
others' entries come and go in the cache; and ranks cannot fall for ever
(`LowestRank`). It needs that a host's name is looked up alone (`Alone`), because
its addresses then take its place in the list.

`RecordsProofs`. `AuditReplays` is inductive as it stands, once it is said what a
save writes under each key. `TraceKeepsRaw` needs `KeepInv`: traces lie in their
day's file, and nothing is copied before its message is finished; `PruneLeaves`
sums up what a pass may leave. `SettingsInv` says that every setting is the default
or what some form writes under its key (`FormGives`, from a lemma on each page's
form), so that clamped days stay clamped and `RecordsType` holds.

`RecordsOrderProofs`. The code builds its lists in loops: the log is read from its
end, the header block line by line. The modules say what comes out, a set in an
order (`InOrder`), and that such a list exists is proved by way of the least size
of a set without one (`OrderExists`), so that no induction scheme is needed.
`CacheInv` says that traces are numbered as they are written, in a day's file and
in the cache: then what `FirstN` cuts off, and what a new trace pushes out, is
older than everything that stays. `HeadersInv` says that the block is what
stripping left of the message, behind the tag's lines if there is a tag. The
plugin reads the first line of each name, and takes the continuations after the
signature as its tail; so it reads what `Build` wrote (`BuildSays`), the tail is
what the message begins with before any header of its own (`TailsAre`), and a
signature fits no other record (`SignatureHolds`).

### Only model-checked

* Liveness (`EveryMailAnswered`, `EveryMailSettles`, `EveryBodyErased`,
  `EveryAnalysisEnds`): fairness and ENABLED are beyond the prover. What these
  properties need of the steps is proved (`MailGoesOn`, `WaitersAreServed`,
  `MailMovesOn`, `NobodyIsForgotten`, `BodiesAreErased`, `AnalysesMoveOn`): that
  something falls which cannot fall for ever. That a fair scheduler takes the
  steps, and so the temporal conclusion, is shown by the runs alone.
* That the cases of section 5 do happen: a proof bounds them, a run exhibits them.

## 5. Where the code and its documents disagree

* **A total outage and a blocklisted message** (`pipeline_all_down`):
  `docs/FAILURE-POLICY.md:74` says `all_down` is "Applied when nothing inspected
  the message at all"; with the AI enabled but not asked (blocklisted mail), it
  is not among the failed controls and `all_down` is not consulted.
* **Whitelisted mail is not always ham** (`pipeline_whitelist`): the pre-pass
  result, scored before the whitelist header exists, becomes the final one; in
  `rspamd_first` order rspamd sees no such header, and in `ai_first` order it
  ignores one whose signature does not verify.
* **A refused recipient** (`gateway_recipients`): `sendmail`'s list of refused
  recipients is ignored and postfix is answered 250.
* **"This cannot be undone"** (`quarantine_delete`): a release already under way
  delivers a message after the user was told it is deleted.
* **The last passkey** (`enrollment_doubled`): `admin/app.py:997` says "cannot
  remove your last passkey"; a registration request that arrived twice is two
  entries with one id, counted as two and removed as one.
* **A forged `MAIL FROM`** (`pipeline_forged`): `pipeline/overrides.py:84` takes any
  DMARC pass for an envelope match. A whitelisted domain in `MAIL FROM` is exempted
  on the pass of the `From:` header's own, unrelated domain, against
  `analyzer.py:83-88` and `templates/overrides.html:28-32` ("with DMARC alignment, or
  with SPF for an envelope-sender match").
* **Shared mail providers** (`analysis_shared`): `tools/unifi.py:8-10` says that a
  shared provider's address is NEVER blocked, `docs/UNIFI.md:58-62` "always refused".
  One whose reverse look-up returned no name can be, because a look-up that fails
  this way is no error and is cached (`tools/cache.py:48`), as can one that is a
  neighbour of another client, because only the client is looked up before its
  network is rolled up.
* **Flagged as HAM** (`records_banner`): the banner of a text that is not converted
  names the AI's verdict when only rspamd's trigger fired (`pipeline/body.py:282`),
  which `_banner_verdict` (184-189) is there to avoid.

The following are disagreements too. No run exhibits them by itself; the properties
and theorems named here have them as their stated exceptions, and say that nothing
else of the kind happens.

* A verdict that is given twice in a bundled turn is answered once, while
  `providers/base.py:166-167` says that every call needs its result
  (`CallsAnswered`).
* A push that was cancelled, by the AI time-out or the end of the session, may leave
  a block nobody recorded, while `unifi.py:15`, `docs/UNIFI.md:66` and
  `docs/SECURITY.md:259` say that every attempt is audit-logged (`UnauditedBlocks`).
  Two pushes that overlap may lose one of their blocks (`ExecutedStaysInForce`).
* A release that some recipients refused, or of a user who may release to his own
  address alone, erases the only copy, while `docs/QUARANTINE.md:33` says "Delivered
  to the original envelope recipients" (`BodyNotLost`).
* A category or a rule that the header says in another way than was signed (blanks
  around it, excess length), or a message that begins with a continuation line
  holding `sig=`, fails the signature check, while `headers.py:102` says that the
  two "MUST match": rspamd then ignores a verdict of this gateway, though it never
  believes another's (`HeadersHonoured`).
* A change that a torn save made is never recorded, not even when the page is saved
  again, because its old value is then the new one, while `docs/SECURITY.md:221` says
  "Every mutation lands in an append-only audit log" (`AuditReplays`).

What the modules permit, as the code does, and no document clearly promises
otherwise: a message whose trace cannot be written, or whose job dies after its
quarantine entry was written, is held and tried again by postfix. A message may be
returned to its sender by postfix and delivered by a re-injection under way. A first
registration that fails after the user was created leaves a user without passkeys
and no further setup token; a preset setup token that expired is printed by every
later boot and refused; a session of a deleted user works again when the name is
invited again. Traces of a pruned day are shown until the program restarts. A
retention of one day removes yesterday's file right after midnight, and an entry of
late in a day is erased from quarantine up to a day early. A footer template that
cannot be formatted takes the banner with it.

## 6. Not modelled

* MIME, HTML and address parsing (`sanitize.py`, `rawcopy.py`, the message summary),
  prompts, logging and the rendering of pages: no state, and no property here
  depends on their text. How rspamd decodes a category that is not ASCII.
* `web_search`, `web_fetch`: they read, write nothing, and the guards on their
  targets are functions of an address. The tables of mail providers and of time
  zones are data. A block with a prefix that is no length is the tool's error
  before anything is read; `Network` is defined only for lengths.
* Encryption at rest, a function of the file write it protects.
* The restart of the admin listener on a new certificate (`main.py:100-123`): when
  acme.sh replaces which file is not in this code.
* XFORWARD attributes that accumulate over an SMTP session (`smtp/server.py:72`):
  whether any is stale depends on postfix, which repeats them for each message.
  They are text for rspamd and the AI.
* Trace lines that a full disk tore: readers skip what they cannot decode.
* The shell scripts and configuration of postfix, rspamd, acme and Docker, except
  for the queue and time-out settings `Gateway` relies on.

postfix, `:10025`, rspamd, the AI provider, Redis, DNS, RDAP, UniFi and asyncio are
external: they may answer anything the code can receive, or nothing.
