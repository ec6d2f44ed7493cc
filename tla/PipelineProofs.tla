--------------------------- MODULE PipelineProofs ---------------------------
(***************************************************************************)
(* Proofs about Pipeline, for every number of messages and slots, all      *)
(* settings and all replies.                                               *)
(***************************************************************************)
EXTENDS Pipeline, FiniteSetTheorems, WellFoundedInduction, TLAPS

-----------------------------------------------------------------------------
(* The failure policy *)

LEMMA StrictestFacts ==
    ASSUME NEW P \in SUBSET Policies
    PROVE  /\ Strictest(P) \in P \union {"deliver_tagged"}
           /\ \A q \in P : Severity(q) <= Severity(Strictest(P))
<1> DEFINE Q == P \union {"deliver_tagged"}
           IsMax(p) == \A q \in Q : Severity(q) <= Severity(p)
<1>1. Severity("deliver_tagged") = 0 /\ Severity("quarantine") = 1 /\ Severity("defer") = 2
  BY DEF Severity
<1>2. Q \subseteq {"deliver_tagged", "quarantine", "defer"}
  BY DEF Policies
<1>3. \E p \in Q : IsMax(p)
  <2>1. CASE "defer" \in Q
    BY <1>1, <1>2, <2>1
  <2>2. CASE "defer" \notin Q /\ "quarantine" \in Q
    BY <1>1, <1>2, <2>2
  <2>3. CASE "defer" \notin Q /\ "quarantine" \notin Q
    BY <1>1, <1>2, <2>3
  <2> QED BY <2>1, <2>2, <2>3
<1>4. Strictest(P) = CHOOSE p \in Q : IsMax(p)
  BY DEF Strictest
<1> HIDE DEF Q, IsMax
<1>5. Strictest(P) \in Q /\ IsMax(Strictest(P))
  BY <1>3, <1>4
<1> QED BY <1>5 DEF Q, IsMax

LEMMA ResolveType ==
    ASSUME NEW policy, NEW mode, NEW key PROVE Resolve(policy, mode, key) \in Policies
BY DEF Resolve, Policies

\* A message is delivered tagged only when every control that failed allows
\* it, and all_down too when none of the enabled ones ran.
LEMMA PolicyOfFacts ==
    ASSUME NEW policy, NEW mode, NEW failed, NEW enabled
    PROVE  /\ PolicyOf(policy, mode, failed, enabled) \in Policies
           /\ PolicyOf(policy, mode, failed, enabled) = "deliver_tagged" =>
                /\ \A c \in failed : Resolve(policy, mode, c) = "deliver_tagged"
                /\ enabled \subseteq failed =>
                      Resolve(policy, mode, "all_down") = "deliver_tagged"
<1> DEFINE own == {Resolve(policy, mode, c) : c \in failed}
           all == own \union {Resolve(policy, mode, "all_down")}
<1>1. own \in SUBSET Policies /\ all \in SUBSET Policies
  BY ResolveType
<1>2. \A p \in Policies : Severity(p) <= Severity("deliver_tagged") => p = "deliver_tagged"
  BY DEF Severity, Policies
<1>3. Strictest(own) \in own \union {"deliver_tagged"}
      /\ \A q \in own : Severity(q) <= Severity(Strictest(own))
  BY <1>1, StrictestFacts
<1>4. Strictest(all) \in all \union {"deliver_tagged"}
      /\ \A q \in all : Severity(q) <= Severity(Strictest(all))
  BY <1>1, StrictestFacts
<1>5. PolicyOf(policy, mode, failed, enabled) =
        IF enabled \subseteq failed THEN Strictest(all) ELSE Strictest(own)
  BY DEF PolicyOf
<1>6. "deliver_tagged" \in Policies
  BY DEF Policies
<1> HIDE DEF own, all
<1>7. /\ Strictest(own) \in Policies /\ Strictest(all) \in Policies
      /\ Strictest(own) = "deliver_tagged" => \A q \in own : q = "deliver_tagged"
      /\ Strictest(all) = "deliver_tagged" => \A q \in all : q = "deliver_tagged"
  BY <1>1, <1>2, <1>3, <1>4, <1>6
<1> QED BY <1>5, <1>7 DEF own, all

LEMMA PolicyType == ASSUME NEW jr PROVE Policy(jr) \in Policies
BY PolicyOfFacts DEF Policy, Policies

-----------------------------------------------------------------------------
(* The helpers that move a job: what they return and what they leave alone *)

\* Two job records that differ at most in the fields at, rres and bypassed.
SameBut(a, b) ==
    /\ a.cfg = b.cfg /\ a.wl = b.wl /\ a.bl = b.bl /\ a.pre = b.pre
    /\ a.verdict = b.verdict /\ a.sure = b.sure /\ a.ai_failed = b.ai_failed

LEMMA NotAskedType == NotAsked \in RspamdResult
BY DEF NotAsked, RspamdResult

LEMMA NewJobType == ASSUME NEW cfg \in Configs PROVE NewJob(cfg) \in JobType
BY NotAskedType DEF NewJob, JobType, Places, Verdicts

LEMMA RunAiFacts ==
    ASSUME NEW jr \in JobType, NEW next \in {"rspamd", "decide"}
    PROVE  /\ RunAi(jr, next) \in JobType
           /\ SameBut(RunAi(jr, next), jr)
           /\ RunAi(jr, next).rres = jr.rres
           /\ RunAi(jr, next).bypassed = jr.bypassed
           /\ RunAi(jr, next).at = IF jr.cfg.enabled THEN "sem" ELSE next
BY DEF RunAi, JobType, Places, SameBut

\* Where a job may go after rspamd's score or the dispatch.
Moved(jr, new) ==
    /\ new \in JobType
    /\ SameBut(new, jr)
    /\ new.at \in {"sem", "rspamd", "decide"}
    /\ new.bypassed => /\ new.at = "decide"
                       /\ IsReject(new.rres)
                       /\ ~Overridden(new)
    /\ new.at = "sem" => ~Overridden(new)
    /\ new.at = "decide" => ~(new.cfg.enabled /\ ~Overridden(new) /\ ~new.bypassed)

LEMMA AfterScoreFacts ==
    ASSUME NEW jr \in JobType, ~jr.bypassed
    PROVE  /\ Moved(jr, AfterScore(jr))
           /\ AfterScore(jr).rres = jr.rres
           /\ AfterScore(jr).at # "rspamd"
<1>1. CASE Overridden(jr)
  BY <1>1 DEF AfterScore, Moved, SameBut, Overridden, JobType, Places
<1>2. CASE ~Overridden(jr) /\ Bypass(jr)
  BY <1>2 DEF AfterScore, Moved, SameBut, Overridden, Bypass, JobType, Places, IsReject
<1>3. CASE ~Overridden(jr) /\ ~Bypass(jr)
  BY <1>3, RunAiFacts DEF AfterScore, Moved, SameBut, Overridden, JobType
<1> QED BY <1>1, <1>2, <1>3

LEMMA DispatchFacts ==
    ASSUME NEW jr \in JobType, ~jr.bypassed
    PROVE  /\ Moved(jr, Dispatch(jr))
           /\ Dispatch(jr).rres \in {jr.rres, jr.pre}
           /\ Dispatch(jr).at = "rspamd" /\ jr.cfg.pipeline_order = "ai_first" =>
                 ~(jr.cfg.enabled /\ ~Overridden(jr))
<1>1. CASE jr.cfg.pipeline_order = "rspamd_first" /\ jr.pre # NotAsked
  <2> DEFINE s == [jr EXCEPT !.rres = jr.pre]
  <2>1. s \in JobType /\ ~s.bypassed /\ SameBut(s, jr) /\ s.rres = jr.pre
    BY DEF JobType, SameBut
  <2>2. Moved(s, AfterScore(s)) /\ AfterScore(s).rres = jr.pre
    BY <2>1, AfterScoreFacts
  <2>3. Moved(jr, AfterScore(s))
    BY <2>1, <2>2 DEF Moved, SameBut
  <2> QED BY <1>1, <2>2, <2>3 DEF Dispatch
<1>2. CASE jr.cfg.pipeline_order = "rspamd_first" /\ jr.pre = NotAsked
  BY <1>2 DEF Dispatch, Moved, SameBut, JobType, Places
<1>3. CASE jr.cfg.pipeline_order # "rspamd_first" /\ ~Overridden(jr)
  BY <1>3, RunAiFacts DEF Dispatch, Moved, SameBut, Overridden, JobType
<1>4. CASE jr.cfg.pipeline_order # "rspamd_first" /\ Overridden(jr)
  BY <1>4 DEF Dispatch, Moved, SameBut, Overridden, JobType, Places
<1> QED BY <1>1, <1>2, <1>3, <1>4

LEMMA OverrideFacts ==
    ASSUME NEW jr \in JobType, NEW j \in Jobs
    PROVE  /\ Override(jr, j) \in JobType
           /\ Override(jr, j).cfg = jr.cfg
           /\ Override(jr, j).wl = jr.wl
           /\ Override(jr, j).pre = jr.pre
           /\ Override(jr, j).rres = jr.rres
           /\ Override(jr, j).at = jr.at
           /\ Override(jr, j).ai_failed = jr.ai_failed
           /\ Override(jr, j).bypassed = jr.bypassed
BY DEF Override, JobType, Verdicts

-----------------------------------------------------------------------------
(* Types, and the accounting of the semaphore.  That free stays within     *)
(* 0..Slots when a slot is returned needs SlotsConserved, so the two are   *)
(* one inductive invariant.                                                *)

InAi == {j \in Jobs : job[j].at = "ai"}

TypeInv == TypeOK /\ SlotsConserved

LEMMA JobsFinite == IsFiniteSet(Jobs)
BY JobsAssumption, FS_Union DEF Jobs

LEMMA InAiFacts ==
    /\ IsFiniteSet(InAi)
    /\ Cardinality(InAi) \in Nat
    /\ SlotsConserved <=> free + Cardinality(InAi) = Slots
BY JobsFinite, FS_Subset, FS_CardinalityType DEF InAi, SlotsConserved

LEMMA InAiFactsNext ==
    /\ IsFiniteSet(InAi')
    /\ Cardinality(InAi') \in Nat
    /\ SlotsConserved' <=> free' + Cardinality(InAi') = Slots
<1>1. IsFiniteSet(InAi')
  BY JobsFinite, FS_Subset DEF InAi
<1> QED BY <1>1, FS_CardinalityType DEF InAi, SlotsConserved

\* The three things a step does to the set of running analyses.
LEMMA SlotsSame ==
    ASSUME TypeInv, InAi' = InAi, free' = free
    PROVE  SlotsConserved' /\ free' \in 0..Slots
BY InAiFacts, InAiFactsNext DEF TypeInv, TypeOK

LEMMA SlotsTaken ==
    ASSUME TypeInv, NEW j \in Jobs, j \notin InAi, InAi' = InAi \union {j},
           free > 0, free' = free - 1
    PROVE  SlotsConserved' /\ free' \in 0..Slots
<1>1. Cardinality(InAi') = Cardinality(InAi) + 1
  BY InAiFacts, FS_AddElement
<1> QED BY <1>1, InAiFacts, InAiFactsNext, JobsAssumption DEF TypeInv, TypeOK

LEMMA SlotsReturned ==
    ASSUME TypeInv, NEW j \in InAi, InAi' = InAi \ {j}, free' = free + 1
    PROVE  SlotsConserved' /\ free' \in 0..Slots
<1>1. Cardinality(InAi') = Cardinality(InAi) - 1
  BY InAiFacts, FS_RemoveElement
<1>2. free \in Nat
  BY DEF TypeInv, TypeOK
<1> QED BY <1>1, <1>2, InAiFacts, InAiFactsNext, JobsAssumption DEF TypeInv

LEMMA AnswersType ==
    ASSUME NEW r \in RspamdAnswers
    PROVE  r \in RspamdResult /\ (r = Down \/ r.ok) /\ r # NotAsked
<1>1. Down \in RspamdResult /\ Down # NotAsked
  BY DEF Down, RspamdResult, NotAsked
<1>2. \A x \in Replies : x \in RspamdResult /\ x.ok
  BY RepliesAssumption
<1>3. ~NotAsked.ok
  BY DEF NotAsked
<1> QED BY <1>1, <1>2, <1>3 DEF RspamdAnswers

\* A sender-domain match is one with the domain it was matched with.
Matches(j, jr) ==
    /\ jr.wl = "envelope" => Envelope[j] \in jr.cfg.whitelist_domains
    /\ jr.wl = "header" => Header[j] \in jr.cfg.whitelist_domains

\* What the three steps that decide where a job goes next make of its record.
LEMMA ArriveFacts ==
    ASSUME TypeOK, NEW j \in Jobs, Arrive(j)
    PROVE  \E jr \in JobType :
             /\ job' = [job EXCEPT ![j] = jr]
             /\ Enqueue(j, jr)
             /\ Matches(j, jr)
             /\ jr.pre = NotAsked /\ jr.rres = NotAsked
             /\ jr.at \in {"prepass", "sem", "rspamd", "decide"}
             /\ jr.at = "prepass" => ~jr.bypassed
             /\ jr.at # "prepass" => /\ Moved(jr, jr)
                                     /\ jr.wl \in {"envelope", "header"} =>
                                          ~jr.cfg.require_auth
                                     /\ jr.at = "rspamd"
                                        /\ jr.cfg.pipeline_order = "ai_first" =>
                                          ~(jr.cfg.enabled /\ ~Overridden(jr))
<1> DEFINE src == MatchWhitelist(settings, j)
           new == [NewJob(settings) EXCEPT !.wl = src]
           ov == Override(new, j)
<1>1. src \in {"none", "envelope", "header", "recipient"}
  BY DEF MatchWhitelist
<1>0. /\ src = "envelope" => Envelope[j] \in settings.whitelist_domains
      /\ src = "header" => Header[j] \in settings.whitelist_domains
  BY DEF MatchWhitelist
<1>2. /\ new \in JobType /\ ~new.bypassed /\ new.cfg = settings /\ new.wl = src
      /\ new.pre = NotAsked /\ new.rres = NotAsked /\ new.at = "idle"
  BY <1>1, NewJobType DEF TypeOK, NewJob, JobType
<1> HIDE DEF src, new
<1>3. CASE src \in {"envelope", "header"} /\ settings.require_auth
  <2> DEFINE jr == [new EXCEPT !.at = "prepass"]
  <2>1. job' = [job EXCEPT ![j] = jr] /\ Enqueue(j, jr)
    BY <1>3 DEF Arrive, src, new
  <2>2. jr \in JobType /\ jr.pre = NotAsked /\ jr.rres = NotAsked
        /\ jr.at = "prepass" /\ ~jr.bypassed /\ jr.wl = src /\ jr.cfg = settings
    BY <1>2 DEF JobType, Places
  <2>3. Matches(j, jr)
    BY <1>0, <2>2 DEF Matches
  <2> QED BY <2>1, <2>2, <2>3
<1>4. CASE ~(src \in {"envelope", "header"} /\ settings.require_auth)
  <2> DEFINE jr == Dispatch(ov)
  <2>1. job' = [job EXCEPT ![j] = jr] /\ Enqueue(j, jr)
    BY <1>4 DEF Arrive, src, new
  <2>2. /\ ov \in JobType /\ ~ov.bypassed /\ ov.cfg = settings /\ ov.wl = src
        /\ ov.pre = NotAsked /\ ov.rres = NotAsked
    BY <1>2, OverrideFacts
  <2> HIDE DEF ov
  <2>3. /\ Moved(ov, jr) /\ jr.rres \in {ov.rres, ov.pre}
        /\ jr.at = "rspamd" /\ ov.cfg.pipeline_order = "ai_first" =>
              ~(ov.cfg.enabled /\ ~Overridden(ov))
    BY <2>2, DispatchFacts
  <2> HIDE DEF jr
  <2>4. Moved(jr, jr) /\ jr \in JobType /\ jr.cfg = settings /\ jr.wl = src
        /\ jr.pre = NotAsked /\ jr.rres = NotAsked /\ jr.at # "prepass"
        /\ jr.at \in {"sem", "rspamd", "decide"}
        /\ Overridden(jr) = Overridden(ov)
    BY <2>2, <2>3 DEF Moved, SameBut, Overridden
  <2>5. Matches(j, jr)
    BY <1>0, <2>4 DEF Matches
  <2> QED BY <1>4, <2>1, <2>2, <2>3, <2>4, <2>5
<1> QED BY <1>3, <1>4

LEMMA PrePassFacts ==
    ASSUME TypeOK, NEW j \in Jobs, NEW r, PrePass(j, r), ~job[j].bypassed
    PROVE  /\ r \in RspamdResult /\ (r = Down \/ r.ok)
           /\ \E jr \in JobType :
                /\ job' = [job EXCEPT ![j] = jr]
                /\ Enqueue(j, jr)
                /\ Moved(jr, jr)
                /\ jr.pre = r /\ jr.rres \in {job[j].rres, r}
                /\ jr.at \in {"sem", "rspamd", "decide"}
                /\ jr.wl \in {job[j].wl, "none"} /\ jr.cfg = job[j].cfg
                /\ jr.wl # "none" => Authenticated(jr.wl, r)
                /\ jr.at = "rspamd" /\ jr.cfg.pipeline_order = "ai_first" =>
                      ~(jr.cfg.enabled /\ ~Overridden(jr))
<1> DEFINE wl == IF Authenticated(job[j].wl, r) THEN job[j].wl ELSE "none"
           new == [job[j] EXCEPT !.pre = r, !.wl = wl]
           ov == Override(new, j)
           jr == Dispatch(ov)
<1>1. job[j] \in JobType
  BY DEF TypeOK
<1>2. r \in RspamdResult /\ (r = Down \/ r.ok)
  BY <1>1, AnswersType DEF PrePass
<1>3. new \in JobType /\ ~new.bypassed /\ new.pre = r /\ new.wl = wl
      /\ new.rres = job[j].rres /\ new.cfg = job[j].cfg
  BY <1>1, <1>2 DEF JobType
<1>4. job' = [job EXCEPT ![j] = jr] /\ Enqueue(j, jr)
  BY DEF PrePass
<1>5. wl \in {job[j].wl, "none"} /\ (wl # "none" => Authenticated(wl, r))
  OBVIOUS
<1> HIDE DEF wl, new
<1>6. /\ ov \in JobType /\ ~ov.bypassed /\ ov.wl = wl /\ ov.cfg = job[j].cfg
      /\ ov.pre = r /\ ov.rres = job[j].rres
  BY <1>3, OverrideFacts
<1> HIDE DEF ov
<1>7. /\ Moved(ov, jr) /\ jr.rres \in {ov.rres, ov.pre}
      /\ jr.at = "rspamd" /\ ov.cfg.pipeline_order = "ai_first" =>
            ~(ov.cfg.enabled /\ ~Overridden(ov))
  BY <1>6, DispatchFacts
<1> HIDE DEF jr
<1>8. Moved(jr, jr) /\ jr \in JobType /\ jr.wl = wl /\ jr.pre = r
      /\ jr.cfg = job[j].cfg /\ jr.cfg = ov.cfg
      /\ jr.rres \in {job[j].rres, r} /\ jr.at \in {"sem", "rspamd", "decide"}
      /\ Overridden(jr) = Overridden(ov)
  BY <1>6, <1>7 DEF Moved, SameBut, Overridden
<1> QED BY <1>2, <1>4, <1>5, <1>6, <1>7, <1>8

LEMMA ScoreFacts ==
    ASSUME TypeOK, NEW j \in Jobs, NEW r, Score(j, r), ~job[j].bypassed
    PROVE  /\ r \in RspamdResult
           /\ \E jr \in JobType :
                /\ job' = [job EXCEPT ![j] = jr]
                /\ Enqueue(j, jr)
                /\ SameBut(jr, job[j]) /\ jr.rres = r
                /\ jr.at \in {"sem", "decide"}
                /\ jr.bypassed => /\ jr.at = "decide"
                                  /\ IsReject(jr.rres)
                                  /\ ~Overridden(jr)
                /\ jr.at = "decide" /\ jr.cfg.pipeline_order # "ai_first" =>
                      ~(jr.cfg.enabled /\ ~Overridden(jr) /\ ~jr.bypassed)
<1> DEFINE scored == [job[j] EXCEPT !.rres = r]
           jr == IF scored.cfg.pipeline_order = "rspamd_first"
                 THEN AfterScore(scored) ELSE [scored EXCEPT !.at = "decide"]
<1>1. job[j] \in JobType
  BY DEF TypeOK
<1>2. r \in RspamdResult
  BY <1>1, AnswersType DEF Score
<1>3. scored \in JobType /\ ~scored.bypassed /\ scored.rres = r
      /\ SameBut(scored, job[j])
  BY <1>1, <1>2 DEF JobType, SameBut
<1>4. job' = [job EXCEPT ![j] = jr] /\ Enqueue(j, jr)
  BY DEF Score
<1> HIDE DEF scored
<1>5. CASE scored.cfg.pipeline_order = "rspamd_first"
  <2>1. jr = AfterScore(scored)
    BY <1>5
  <2>2. Moved(scored, jr) /\ jr.rres = r /\ jr.at # "rspamd"
    BY <1>3, <2>1, AfterScoreFacts
  <2> HIDE DEF jr
  <2> QED BY <1>2, <1>3, <1>4, <2>2 DEF Moved, SameBut
<1>6. CASE scored.cfg.pipeline_order # "rspamd_first"
  <2>1. jr = [scored EXCEPT !.at = "decide"]
    BY <1>6
  <2>2. scored.cfg.pipeline_order = "ai_first"
    BY <1>3, <1>6, ConfigAssumption DEF JobType, ConfigType
  <2>3. jr \in JobType /\ SameBut(jr, job[j]) /\ jr.rres = r /\ jr.at = "decide"
        /\ ~jr.bypassed /\ jr.cfg.pipeline_order = "ai_first"
    BY <1>3, <2>1, <2>2 DEF JobType, SameBut, Places
  <2> QED BY <1>2, <1>4, <2>3
<1> QED BY <1>5, <1>6

LEMMA MarksType ==
    ASSUME NEW jr \in JobType PROVE MarksOf(jr) \in MarkType
<1>1. jr.rres \in RspamdResult /\ jr.cfg.mark_on_rspamd_spam \in BOOLEAN
  BY ConfigAssumption DEF JobType, ConfigType
<1>2. IsSpam(jr.rres) \in BOOLEAN /\ IsReject(jr.rres) \in BOOLEAN
      /\ jr.rres.ok \in BOOLEAN
  BY <1>1 DEF IsSpam, IsReject, RspamdResult
<1>3. Failed(jr) \subseteq Controls
  BY DEF Failed, Controls
<1> QED BY <1>1, <1>2, <1>3 DEF MarksOf, MarkType

\* Type correctness needs that a job with a place in the code is not bypassed
\* before the decision.
BypassedAtEnd == \A j \in Jobs : job[j].bypassed => job[j].at \in {"decide", "done"}

TypeInd == TypeInv /\ BypassedAtEnd

LEMMA EnqueueType ==
    ASSUME TypeOK, NEW j \in Jobs, NEW jr \in JobType, Enqueue(j, jr)
    PROVE  ahead' \in [Jobs -> SUBSET Jobs]
BY DEF TypeOK, Enqueue, Waiting

LEMMA DequeueType ==
    ASSUME TypeOK, NEW j \in Jobs, Dequeue(j)
    PROVE  ahead' \in [Jobs -> SUBSET Jobs]
BY DEF TypeOK, Dequeue

LEMMA TypeInit == Init => TypeInd
<1> SUFFICES ASSUME Init PROVE TypeInd
  OBVIOUS
<1>1. settings \in Configs /\ NewJob(settings) \in JobType
      /\ NewJob(settings).at = "idle" /\ ~NewJob(settings).bypassed
  BY NewJobType DEF Init, NewJob
<1>2. NoMarks \in MarkType
  BY DEF NoMarks, MarkType
<1>3. TypeOK
  BY <1>1, <1>2, JobsAssumption DEF Init, TypeOK, Outcomes
<1>4. InAi = {} /\ BypassedAtEnd
  BY <1>1 DEF Init, InAi, BypassedAtEnd
<1>5. Cardinality(InAi) = 0
  BY <1>4, FS_EmptySet
<1> QED BY <1>3, <1>4, <1>5, InAiFacts, JobsAssumption DEF Init, TypeInd, TypeInv

\* A job that moves outside the analysis.
LEMMA TypeMove ==
    ASSUME TypeInd, NEW j \in Jobs, NEW jr \in JobType,
           job' = [job EXCEPT ![j] = jr],
           job[j].at # "ai", jr.at # "ai", free' = free,
           jr.bypassed => jr.at \in {"decide", "done"}
    PROVE  /\ job' \in [Jobs -> JobType]
           /\ SlotsConserved' /\ free' \in 0..Slots
           /\ BypassedAtEnd'
<1>1. job' \in [Jobs -> JobType] /\ BypassedAtEnd'
  BY DEF TypeInd, TypeInv, TypeOK, BypassedAtEnd
<1>2. InAi' = InAi
  BY DEF InAi, TypeInd, TypeInv, TypeOK
<1> QED BY <1>1, <1>2, SlotsSame DEF TypeInd

\* A job that leaves the analysis.
LEMMA TypeLeave ==
    ASSUME TypeInd, NEW j \in Jobs, NEW jr \in JobType,
           job' = [job EXCEPT ![j] = jr],
           job[j].at = "ai", jr.at # "ai", free' = free + 1,
           jr.bypassed = job[j].bypassed
    PROVE  /\ job' \in [Jobs -> JobType]
           /\ SlotsConserved' /\ free' \in 0..Slots
           /\ BypassedAtEnd'
<1>1. job' \in [Jobs -> JobType] /\ BypassedAtEnd'
  BY DEF TypeInd, TypeInv, TypeOK, BypassedAtEnd
<1>2. InAi' = InAi \ {j} /\ j \in InAi
  BY DEF InAi, TypeInd, TypeInv, TypeOK
<1> QED BY <1>1, <1>2, SlotsReturned DEF TypeInd

LEMMA TypeAsk ==
    ASSUME TypeInd, NEW j \in Jobs, NEW r, Arrive(j) \/ PrePass(j, r) \/ Score(j, r)
    PROVE  TypeInd'
<1>1. TypeOK /\ (job[j].at \in {"idle", "prepass", "rspamd"} => ~job[j].bypassed)
  BY DEF TypeInd, TypeInv, BypassedAtEnd
<1>2. SUFFICES ASSUME NEW jr \in JobType, job' = [job EXCEPT ![j] = jr],
                      Enqueue(j, jr), jr.at # "ai",
                      jr.bypassed => jr.at \in {"decide", "done"},
                      saw' \in [Jobs -> SUBSET Controls]
               PROVE  TypeInd'
  <2>1. CASE Arrive(j)
    <3>1. saw' \in [Jobs -> SUBSET Controls]
      BY <1>1, <2>1 DEF Arrive, TypeOK
    <3> QED BY <1>1, <1>2, <2>1, <3>1, ArriveFacts DEF Moved
  <2>2. CASE PrePass(j, r)
    <3>1. saw' \in [Jobs -> SUBSET Controls]
      BY <1>1, <2>2 DEF PrePass, Saw, TypeOK, Controls
    <3>2. ~job[j].bypassed
      BY <1>1, <2>2 DEF PrePass
    <3> QED BY <1>1, <1>2, <2>2, <3>1, <3>2, PrePassFacts DEF Moved
  <2>3. CASE Score(j, r)
    <3>1. saw' \in [Jobs -> SUBSET Controls]
      BY <1>1, <2>3 DEF Score, Saw, TypeOK, Controls
    <3>2. ~job[j].bypassed
      BY <1>1, <2>3 DEF Score
    <3> QED BY <1>1, <1>2, <2>3, <3>1, <3>2, ScoreFacts
  <2> QED BY <2>1, <2>2, <2>3
<1>3. ahead' \in [Jobs -> SUBSET Jobs]
  BY <1>1, <1>2, EnqueueType
<1>4. /\ job[j].at # "ai"
      /\ UNCHANGED <<settings, free, outcome, marks, held, traced, raw>>
  BY DEF Arrive, PrePass, Score
<1>5. job' \in [Jobs -> JobType] /\ SlotsConserved' /\ free' \in 0..Slots /\ BypassedAtEnd'
  BY <1>2, <1>4, TypeMove
<1> QED BY <1>1, <1>2, <1>3, <1>4, <1>5 DEF TypeInd, TypeInv, TypeOK

LEMMA TypeAnalyse ==
    ASSUME TypeInd, NEW j \in Jobs, Analyse(j)
    PROVE  TypeInd'
<1>1. TypeOK /\ job[j] \in JobType /\ (job[j].at \in {"sem", "ai"} => ~job[j].bypassed)
  BY DEF TypeInd, TypeInv, TypeOK, BypassedAtEnd
<1>2. CASE AcquireSlot(j)
  <2> DEFINE jr == [job[j] EXCEPT !.at = "ai"]
  <2>1. jr \in JobType /\ ~jr.bypassed /\ jr.at = "ai" /\ job' = [job EXCEPT ![j] = jr]
    BY <1>1, <1>2 DEF AcquireSlot, NextWaiter, JobType, Places, TypeOK
  <2> HIDE DEF jr
  <2>2. j \notin InAi /\ InAi' = InAi \union {j}
    BY <1>1, <1>2, <2>1 DEF InAi, AcquireSlot, NextWaiter, TypeOK
  <2>3. job' \in [Jobs -> JobType] /\ BypassedAtEnd'
    BY <1>1, <2>1 DEF TypeOK, BypassedAtEnd, TypeInd
  <2>4. SlotsConserved' /\ free' \in 0..Slots
    BY <1>2, <2>2, SlotsTaken DEF AcquireSlot, TypeInd
  <2>5. ahead' \in [Jobs -> SUBSET Jobs]
    BY <1>1, <1>2, DequeueType DEF AcquireSlot
  <2> QED BY <1>1, <1>2, <2>3, <2>4, <2>5 DEF AcquireSlot, TypeInd, TypeInv, TypeOK
<1>3. ASSUME NEW v \in Opinions, AiAnswers(j, v)
      PROVE  TypeInd'
  <2> DEFINE jr == [job[j] EXCEPT !.verdict = v.verdict, !.sure = v.sure,
                                  !.at = AfterAi(job[j])]
  <2>1. AfterAi(job[j]) \in {"decide", "rspamd"}
    BY DEF AfterAi
  <2>2. v.verdict \in Verdicts /\ v.sure \in BOOLEAN
    BY <1>3, OpinionsAssumption DEF Opinion, AiVerdicts, Verdicts
  <2>3. jr \in JobType /\ jr.at # "ai" /\ jr.bypassed = job[j].bypassed
    BY <1>1, <2>1, <2>2 DEF JobType, Places
  <2>4. job' = [job EXCEPT ![j] = jr] /\ job[j].at = "ai" /\ free' = free + 1
    BY <1>1, <1>3 DEF AiAnswers, TypeOK, JobType
  <2> HIDE DEF jr
  <2>5. job' \in [Jobs -> JobType] /\ SlotsConserved' /\ free' \in 0..Slots /\ BypassedAtEnd'
    BY <2>3, <2>4, TypeLeave
  <2> QED BY <1>1, <1>3, <2>5 DEF AiAnswers, TypeInd, TypeInv, TypeOK, Controls
<1>4. CASE AiFails(j)
  <2> DEFINE jr == [job[j] EXCEPT !.verdict = "ERROR", !.ai_failed = TRUE,
                                  !.at = AfterAi(job[j])]
  <2>1. AfterAi(job[j]) \in {"decide", "rspamd"}
    BY DEF AfterAi
  <2>3. jr \in JobType /\ jr.at # "ai" /\ jr.bypassed = job[j].bypassed
    BY <1>1, <2>1 DEF JobType, Places, Verdicts
  <2>4. job' = [job EXCEPT ![j] = jr] /\ job[j].at = "ai" /\ free' = free + 1
    BY <1>1, <1>4 DEF AiFails, TypeOK, JobType
  <2> HIDE DEF jr
  <2>5. job' \in [Jobs -> JobType] /\ SlotsConserved' /\ free' \in 0..Slots /\ BypassedAtEnd'
    BY <2>3, <2>4, TypeLeave
  <2> QED BY <1>1, <1>4, <2>5 DEF AiFails, TypeInd, TypeInv, TypeOK
<1> QED BY <1>2, <1>3, <1>4 DEF Analyse

LEMMA DecisionType ==
    ASSUME NEW jr \in JobType, NEW kept \in BOOLEAN
    PROVE  Decision(jr, kept) \in Outcomes /\ Decision(jr, kept) # "none"
BY StrictestFacts, PolicyType DEF Decision, Outcomes, Policies

LEMMA WriteType ==
    ASSUME TypeOK, NEW j \in Jobs, NEW ok, Write(j, ok)
    PROVE  held' \subseteq Jobs /\ traced' \subseteq Jobs /\ raw' \subseteq Jobs
BY DEF TypeOK, Write

LEMMA TypeDecide ==
    ASSUME TypeInd, NEW j \in Jobs, Decide(j)
    PROVE  TypeInd'
<1>1. TypeOK /\ job[j] \in JobType
  BY DEF TypeInd, TypeInv, TypeOK
<1> DEFINE jr == [job[j] EXCEPT !.at = "done"]
<1>2. jr \in JobType /\ jr.at = "done" /\ job' = [job EXCEPT ![j] = jr]
      /\ job[j].at = "decide" /\ free' = free
  BY <1>1 DEF Decide, Write, JobType, Places, TypeOK
<1> HIDE DEF jr
<1>3. job' \in [Jobs -> JobType] /\ SlotsConserved' /\ free' \in 0..Slots /\ BypassedAtEnd'
  BY <1>2, TypeMove
<1>4. \A kept \in BOOLEAN : Decision(job[j], kept) \in Outcomes
  BY <1>1, DecisionType
<1>5. outcome' \in [Jobs -> Outcomes]
  BY <1>1, <1>4 DEF Decide, TypeOK, Outcomes, Kept, Storable, Keeps
<1>6. marks' \in [Jobs -> MarkType] /\ held' \subseteq Jobs /\ traced' \subseteq Jobs
      /\ raw' \subseteq Jobs
  BY <1>1, MarksType, WriteType DEF Decide, TypeOK
<1> QED BY <1>1, <1>3, <1>5, <1>6 DEF Decide, TypeInd, TypeInv, TypeOK

LEMMA TypeEnvironment ==
    ASSUME TypeInd,
           \/ \E j \in Jobs : Disconnect(j)
           \/ Restart
           \/ \E cfg \in Edits : SaveSettings(cfg)
           \/ \E t \in Tests : Resubmit(t)
    PROVE  TypeInd'
<1>1. TypeOK
  BY DEF TypeInd, TypeInv
<1>2. ASSUME NEW j \in Jobs, Disconnect(j)
      PROVE  TypeInd'
  <2> DEFINE jr == [job[j] EXCEPT !.at = "done"]
  <2>1. jr \in JobType /\ jr.at = "done" /\ job' = [job EXCEPT ![j] = jr]
        /\ jr.bypassed = job[j].bypassed
    BY <1>1, <1>2 DEF Disconnect, JobType, Places, TypeOK
  <2> HIDE DEF jr
  <2>2. job' \in [Jobs -> JobType] /\ SlotsConserved' /\ free' \in 0..Slots /\ BypassedAtEnd'
    <3>1. CASE job[j].at = "ai"
      BY <1>2, <2>1, <3>1, TypeLeave DEF Disconnect, SlotsAfterCancel
    <3>2. CASE job[j].at # "ai"
      BY <1>2, <2>1, <3>2, TypeMove DEF Disconnect, SlotsAfterCancel
    <3> QED BY <3>1, <3>2
  <2>3. ahead' \in [Jobs -> SUBSET Jobs]
    BY <1>1, <1>2, DequeueType DEF Disconnect, QueueAfterCancel
  <2> QED BY <1>1, <1>2, <2>2, <2>3 DEF Disconnect, TypeInd, TypeInv, TypeOK, Outcomes
<1>3. CASE Restart
  <2>1. \A j \in Jobs : [job[j] EXCEPT !.at = "done"] \in JobType
    BY <1>1 DEF TypeOK, JobType, Places
  <2>2. job' \in [Jobs -> JobType]
    BY <1>1, <1>3, <2>1 DEF TypeOK, Restart
  <2>3. \A j \in Jobs : job'[j].at \in {"idle", "done"} /\ job'[j].bypassed = job[j].bypassed
                        /\ (job[j].at \in {"decide", "done"} => job'[j].at = "done")
    BY <1>1, <1>3 DEF TypeOK, Restart, Running, JobType
  <2>4. InAi' = {} /\ BypassedAtEnd'
    BY <2>3 DEF InAi, TypeInd, BypassedAtEnd
  <2>5. SlotsConserved' /\ free' \in 0..Slots
    <3>1. Cardinality(InAi') = 0
      BY <2>4, FS_EmptySet
    <3> QED BY <1>3, <3>1, InAiFactsNext, JobsAssumption DEF Restart
  <2>6. held' \subseteq Jobs /\ traced' \subseteq Jobs /\ raw' \subseteq Jobs
    BY <1>1, <1>3, WriteType DEF Restart, TypeOK
  <2> QED BY <1>1, <1>3, <2>2, <2>4, <2>5, <2>6 DEF Restart, TypeInd, TypeInv, TypeOK, Outcomes
<1>4. ASSUME NEW cfg \in Edits, SaveSettings(cfg)
      PROVE  TypeInd'
  <2>1. cfg \in Configs /\ InAi' = InAi /\ free' = free /\ BypassedAtEnd'
    BY <1>4, ConfigAssumption DEF SaveSettings, InAi, BypassedAtEnd, TypeInd
  <2> QED BY <1>1, <1>4, <2>1, SlotsSame DEF SaveSettings, TypeInd, TypeInv, TypeOK
<1>5. ASSUME NEW t \in Tests, Resubmit(t)
      PROVE  TypeInd'
  <2>1. t \in Jobs /\ job[t].cfg \in Configs
    BY <1>1 DEF TypeOK, Jobs, JobType
  <2>2. NewJob(job[t].cfg) \in JobType /\ ~NewJob(job[t].cfg).bypassed
        /\ NewJob(job[t].cfg).at = "idle"
    BY <2>1, NewJobType DEF NewJob
  <2>3. job' \in [Jobs -> JobType] /\ SlotsConserved' /\ free' \in 0..Slots /\ BypassedAtEnd'
    BY <1>5, <2>1, <2>2, TypeMove DEF Resubmit
  <2>4. NoMarks \in MarkType
    BY DEF NoMarks, MarkType
  <2> QED BY <1>1, <1>5, <2>3, <2>4 DEF Resubmit, TypeInd, TypeInv, TypeOK, Outcomes
<1> QED BY <1>2, <1>3, <1>4, <1>5

LEMMA TypeStep == TypeInd /\ [Next]_vars => TypeInd'
<1> SUFFICES ASSUME TypeInd, [Next]_vars PROVE TypeInd'
  OBVIOUS
<1>1. ASSUME NEW j \in Jobs, Arrive(j) \/ Step(j)
      PROVE  TypeInd'
  BY <1>1, TypeAsk, TypeAnalyse, TypeDecide DEF Step, Ask
<1>2. CASE UNCHANGED vars
  BY <1>2 DEF vars, TypeInd, TypeInv, TypeOK, SlotsConserved, BypassedAtEnd
<1> QED BY <1>1, <1>2, TypeEnvironment DEF Next

\* Every variable stays in its set; in particular the counter of the analysis
\* semaphore never exceeds MAX_CONCURRENT_ANALYSES.
THEOREM TypeCorrect == Spec => []TypeOK
<1>1. TypeInd => TypeOK
  BY DEF TypeInd, TypeInv
<1> QED BY <1>1, TypeInit, TypeStep, PTL DEF Spec

\* A slot taken for an analysis comes back exactly once, however it ends.
THEOREM SlotsAreConserved == Spec => []SlotsConserved
<1>1. TypeInd => SlotsConserved
  BY DEF TypeInd, TypeInv
<1> QED BY <1>1, TypeInit, TypeStep, PTL DEF Spec

-----------------------------------------------------------------------------
(* The queue of the semaphore *)

\* The three things a step does to the queue: nothing, a job joins it, or a
\* job leaves it or was never in it.
LEMMA QueueSame ==
    ASSUME QueueIsExact, ahead' = ahead, Waiting' = Waiting
    PROVE  QueueIsExact'
BY DEF QueueIsExact

LEMMA QueueJoined ==
    ASSUME TypeOK, QueueIsExact, NEW j \in Jobs, j \notin Waiting,
           Waiting' = Waiting \union {j}, ahead' = [ahead EXCEPT ![j] = Waiting]
    PROVE  QueueIsExact'
<1>1. /\ ahead'[j] = Waiting
      /\ \A k \in Jobs \ {j} : ahead'[k] = ahead[k]
  BY DEF TypeOK
<1>2. \A k \in Jobs : ahead[k] \subseteq Waiting \ {k}
  BY DEF QueueIsExact
<1>3. \A k \in Jobs : ahead'[k] \subseteq Waiting' \ {k}
  BY <1>1, <1>2
<1>4. ASSUME NEW a \in Waiting', NEW b \in Waiting', a # b
      PROVE  a \in ahead'[b] <=> b \notin ahead'[a]
  <2>1. a \in Jobs /\ b \in Jobs
    BY <1>4 DEF Waiting
  <2>2. CASE a = j
    BY <1>1, <1>2, <1>4, <2>1, <2>2
  <2>3. CASE b = j
    BY <1>1, <1>2, <1>4, <2>1, <2>3
  <2>4. CASE a # j /\ b # j
    BY <1>1, <1>4, <2>1, <2>4 DEF QueueIsExact
  <2> QED BY <2>2, <2>3, <2>4
<1>5. ASSUME NEW a \in Waiting', NEW b \in Waiting', b \in ahead'[a]
      PROVE  ahead'[b] \subseteq ahead'[a]
  <2>1. a \in Jobs /\ b \in Jobs
    BY <1>5 DEF Waiting
  <2>2. b \in Waiting
    BY <1>1, <1>2, <1>5, <2>1
  <2>3. CASE a = j
    BY <1>1, <1>2, <2>1, <2>2, <2>3
  <2>4. CASE a # j
    BY <1>1, <1>5, <2>1, <2>2, <2>4 DEF QueueIsExact
  <2> QED BY <2>3, <2>4
<1> QED BY <1>3, <1>4, <1>5 DEF QueueIsExact

LEMMA QueueLeft ==
    ASSUME TypeOK, QueueIsExact, NEW j \in Jobs, Waiting' = Waiting \ {j}, Dequeue(j)
    PROVE  QueueIsExact'
<1>1. \A k \in Jobs : ahead'[k] = IF k = j THEN {} ELSE ahead[k] \ {j}
  BY DEF Dequeue
<1>2. Waiting \subseteq Jobs
  BY DEF Waiting
<1>3. ASSUME NEW k \in Jobs
      PROVE  ahead'[k] \subseteq Waiting' \ {k}
  <2>1. ahead[k] \subseteq Waiting \ {k}
    BY DEF QueueIsExact
  <2>2. CASE k = j
    BY <1>1, <2>2
  <2>3. CASE k # j
    BY <1>1, <2>1, <2>3
  <2> QED BY <2>2, <2>3
<1>4. ASSUME NEW a \in Waiting', NEW b \in Waiting', a # b
      PROVE  a \in ahead'[b] <=> b \notin ahead'[a]
  <2>1. a \in Waiting \ {j} /\ b \in Waiting \ {j}
    BY <1>4
  <2>2. ahead'[a] = ahead[a] \ {j} /\ ahead'[b] = ahead[b] \ {j}
    BY <1>1, <1>2, <2>1
  <2> QED BY <1>4, <2>1, <2>2 DEF QueueIsExact
<1>5. ASSUME NEW a \in Waiting', NEW b \in Waiting', b \in ahead'[a]
      PROVE  ahead'[b] \subseteq ahead'[a]
  <2>1. a \in Waiting \ {j} /\ b \in Waiting \ {j}
    BY <1>5
  <2>2. ahead'[a] = ahead[a] \ {j} /\ ahead'[b] = ahead[b] \ {j}
    BY <1>1, <1>2, <2>1
  <2>3. b \in ahead[a]
    BY <1>5, <2>2
  <2>4. ahead[b] \subseteq ahead[a]
    BY <2>1, <2>3 DEF QueueIsExact
  <2> QED BY <2>2, <2>4
<1> QED BY <1>3, <1>4, <1>5 DEF QueueIsExact

\* A job that moves to a place of its choice joins the queue just when that
\* place is the semaphore.
LEMMA QueueEnqueued ==
    ASSUME TypeOK, QueueIsExact, NEW j \in Jobs, NEW jr, job[j].at # "sem",
           job' = [job EXCEPT ![j] = jr], Enqueue(j, jr)
    PROVE  QueueIsExact'
<1>1. \A k \in Jobs : job'[k] = IF k = j THEN jr ELSE job[k]
  BY DEF TypeOK
<1>2. CASE jr.at = "sem"
  <2>1. j \notin Waiting /\ Waiting' = Waiting \union {j}
    BY <1>1, <1>2 DEF Waiting
  <2> QED BY <1>2, <2>1, QueueJoined DEF Enqueue
<1>3. CASE jr.at # "sem"
  <2>1. Waiting' = Waiting
    BY <1>1, <1>3 DEF Waiting
  <2> QED BY <1>3, <2>1, QueueSame DEF Enqueue
<1> QED BY <1>2, <1>3

LEMMA QueueStep ==
    ASSUME TypeInd, QueueIsExact, [Next]_vars PROVE QueueIsExact'
<1>1. TypeOK
  BY DEF TypeInd, TypeInv
<1>2. ASSUME NEW j \in Jobs, NEW r, Arrive(j) \/ PrePass(j, r) \/ Score(j, r)
      PROVE  QueueIsExact'
  <2>1. job[j].at # "sem"
    BY <1>2 DEF Arrive, PrePass, Score
  <2>2. \E jr : job' = [job EXCEPT ![j] = jr] /\ Enqueue(j, jr)
    BY <1>2 DEF Arrive, PrePass, Score
  <2> QED BY <1>1, <2>1, <2>2, QueueEnqueued
<1>3. ASSUME NEW j \in Jobs, AcquireSlot(j)
      PROVE  QueueIsExact'
  <2>1. Waiting' = Waiting \ {j}
    BY <1>1, <1>3 DEF AcquireSlot, Waiting, TypeOK, JobType
  <2> QED BY <1>1, <1>3, <2>1, QueueLeft DEF AcquireSlot
<1>4. ASSUME NEW j \in Jobs, \/ \E v \in Opinions : AiAnswers(j, v)
                             \/ AiFails(j)
                             \/ Decide(j)
      PROVE  QueueIsExact'
  <2>1. job[j].at \in {"ai", "decide"} /\ ahead' = ahead
    BY <1>4 DEF AiAnswers, AiFails, Decide, Write
  <2>2. job'[j].at # "sem" /\ \A k \in Jobs \ {j} : job'[k] = job[k]
    <3>1. AfterAi(job[j]) # "sem"
      BY DEF AfterAi
    <3>2. job[j] \in JobType
      BY <1>1 DEF TypeOK
    <3>3. CASE Decide(j)
      BY <1>1, <3>2, <3>3 DEF Decide, TypeOK, JobType
    <3>4. CASE AiFails(j)
      BY <1>1, <3>1, <3>2, <3>4 DEF AiFails, TypeOK, JobType
    <3>5. ASSUME NEW v \in Opinions, AiAnswers(j, v)
          PROVE  job'[j].at # "sem" /\ \A k \in Jobs \ {j} : job'[k] = job[k]
      BY <1>1, <3>1, <3>2, <3>5 DEF AiAnswers, TypeOK, JobType
    <3> QED BY <1>4, <3>3, <3>4, <3>5
  <2>3. Waiting' = Waiting
    BY <2>1, <2>2 DEF Waiting
  <2> QED BY <2>1, <2>3, QueueSame
<1>5. ASSUME NEW j \in Jobs, Disconnect(j)
      PROVE  QueueIsExact'
  <2>1. Waiting' = Waiting \ {j}
    BY <1>1, <1>5 DEF Disconnect, Waiting, TypeOK, JobType
  <2> QED BY <1>1, <1>5, <2>1, QueueLeft DEF Disconnect, QueueAfterCancel
<1>6. ASSUME Restart
      PROVE  QueueIsExact'
  <2>1. \A k \in Jobs : job'[k].at # "sem" /\ ahead'[k] = {}
    BY <1>1, <1>6 DEF Restart, Running, TypeOK, JobType
  <2> QED BY <2>1 DEF QueueIsExact, Waiting
<1>7. ASSUME NEW cfg \in Edits, SaveSettings(cfg)
      PROVE  QueueIsExact'
  BY <1>7, QueueSame DEF SaveSettings, Waiting
<1>8. ASSUME NEW t \in Tests, Resubmit(t)
      PROVE  QueueIsExact'
  <2>1. Waiting' = Waiting /\ ahead' = ahead
    BY <1>1, <1>8 DEF Resubmit, Waiting, NewJob, TypeOK
  <2> QED BY <2>1, QueueSame
<1>9. ASSUME UNCHANGED vars
      PROVE  QueueIsExact'
  BY <1>9, QueueSame DEF vars, Waiting
<1>10. ASSUME NEW j \in Jobs, Arrive(j) \/ Step(j) \/ Disconnect(j)
       PROVE  QueueIsExact'
  BY <1>10, <1>2, <1>3, <1>4, <1>5 DEF Step, Ask, Analyse
<1> QED BY <1>6, <1>7, <1>8, <1>9, <1>10 DEF Next

\* The semaphore's queue orders exactly the jobs that wait for it, and a job
\* that left it - to run, cancelled, killed - holds nobody up.
THEOREM QueueStaysExact == Spec => []QueueIsExact
<1>1. Init => QueueIsExact
  BY DEF Init, QueueIsExact, Waiting, NewJob
<1>2. TypeInd /\ QueueIsExact /\ [Next]_vars => QueueIsExact'
  BY QueueStep
<1> QED BY <1>1, <1>2, TypeInit, TypeStep, PTL DEF Spec

-----------------------------------------------------------------------------
(* Progress *)

\* The awaits that a job may still reach, in either order.
AwaitsLeft(jr) ==
    LET first == jr.cfg.pipeline_order = "rspamd_first" IN
    CASE jr.at = "idle" -> 6
      [] jr.at = "prepass" -> 5
      [] jr.at = "rspamd" -> IF first THEN 4 ELSE 2
      [] jr.at = "sem" -> IF first THEN 3 ELSE 4
      [] jr.at = "ai" -> IF first THEN 2 ELSE 3
      [] jr.at = "decide" -> 1
      [] jr.at = "done" -> 0

\* A step of a job leads on, and no step of another leads it back or puts anyone
\* in front of it.
JobsGoOn ==
    \A j \in Jobs :
        /\ Step(j) => AwaitsLeft(job'[j]) < AwaitsLeft(job[j])
        /\ job[j].at # "done" =>
              \/ AwaitsLeft(job'[j]) < AwaitsLeft(job[j])
              \/ (job'[j] = job[j] /\ ahead'[j] \subseteq ahead[j])
        /\ (job[j].at = "done" /\ j \in Mail) => job'[j] = job[j]

\* While a job waits, a slot is at work or may be taken.
SlotsAreUsed ==
    Waiting # {} => \/ \E j \in Jobs : job[j].at = "ai"
                    \/ free > 0 /\ \E j \in Jobs : NextWaiter(j)

LEMMA LeastNumber ==
    ASSUME NEW S, S \subseteq Nat, S # {}
    PROVE  \E n \in S : \A m \in S : n <= m
<1> DEFINE R == {pair \in Nat \X Nat : pair[1] < pair[2]}
<1>1. IsWellFoundedOn(R, Nat)
  BY NatLessThanWellFounded DEF OpToRel
<1>2. \A n, m \in Nat : m < n => <<m, n>> \in R
  OBVIOUS
<1> HIDE DEF R
<1>3. PICK n \in S : \A m \in S : ~(<<m, n>> \in R)
  BY <1>1, WFMin
<1>4. \A m \in S : ~(m < n)
  BY <1>2, <1>3
<1> QED
  BY <1>4

\* In a queue that orders its waiters, the one with the fewest ahead has none.
LEMMA SomebodyIsNext ==
    ASSUME TypeOK, QueueIsExact, Waiting # {}
    PROVE  \E j \in Jobs : NextWaiter(j)
<1>1. Waiting \subseteq Jobs /\ \A j \in Jobs : ahead[j] \subseteq Jobs
  BY DEF Waiting, TypeOK
<1>2. \A j \in Waiting : IsFiniteSet(ahead[j]) /\ Cardinality(ahead[j]) \in Nat
  BY <1>1, JobsFinite, FS_Subset, FS_CardinalityType
<1> DEFINE sizes == {Cardinality(ahead[j]) : j \in Waiting}
<1>3. PICK n \in sizes : \A m \in sizes : n <= m
  BY <1>2, LeastNumber
<1>4. PICK j \in Waiting : Cardinality(ahead[j]) = n
  OBVIOUS
<1>5. ASSUME NEW k \in ahead[j] PROVE FALSE
  <2>1. k \in Waiting /\ k # j /\ k \notin ahead[k]
    BY <1>1, <1>4, <1>5 DEF QueueIsExact
  <2>2. ahead[k] \subseteq ahead[j] \ {k}
    BY <1>4, <1>5, <2>1 DEF QueueIsExact
  <2>3. Cardinality(ahead[j] \ {k}) = Cardinality(ahead[j]) - 1 /\ IsFiniteSet(ahead[j] \ {k})
    BY <1>2, <1>4, <1>5, FS_RemoveElement
  <2>4. Cardinality(ahead[k]) <= Cardinality(ahead[j] \ {k})
    BY <2>2, <2>3, FS_Subset
  <2>5. Cardinality(ahead[j]) <= Cardinality(ahead[k])
    BY <1>3, <1>4, <2>1
  <2>6. Cardinality(ahead[j]) \in Nat /\ Cardinality(ahead[k]) \in Nat
    BY <1>2, <1>4, <2>1
  <2> QED
    BY <2>3, <2>4, <2>5, <2>6
<1> QED
  BY <1>1, <1>4, <1>5 DEF NextWaiter, Waiting

\* A job that waits for a slot never waits in vain: an analysis runs, which will
\* give back its slot, or a slot is free and there is one whose turn it is
\* (analyzer.py:54, 236).
THEOREM WaitersAreServed == Spec => []SlotsAreUsed
<1>1. ASSUME TypeInd, QueueIsExact PROVE SlotsAreUsed
  <2>1. TypeOK
    BY <1>1 DEF TypeInd, TypeInv
  <2>2. CASE InAi = {}
    <3>1. free = Slots
      BY <1>1, <2>1, <2>2, InAiFacts, FS_EmptySet DEF TypeInd, TypeInv, TypeOK
    <3>2. free > 0
      BY <3>1, JobsAssumption
    <3> QED
      BY <1>1, <2>1, <3>2, SomebodyIsNext DEF SlotsAreUsed
  <2>3. CASE InAi # {}
    BY <2>3 DEF InAi, SlotsAreUsed
  <2> QED
    BY <2>2, <2>3
<1>2. Spec => []TypeInd
  BY TypeInit, TypeStep, PTL DEF Spec
<1> QED
  BY <1>1, <1>2, QueueStaysExact, PTL

LEMMA AwaitsLeftIs ==
    ASSUME NEW jr \in JobType
    PROVE  /\ jr.at = "idle" => AwaitsLeft(jr) = 6
           /\ jr.at = "prepass" => AwaitsLeft(jr) = 5
           /\ jr.at \in {"rspamd", "sem", "ai"} => AwaitsLeft(jr) \in 2..4
           /\ jr.at = "rspamd" => AwaitsLeft(jr) =
                 IF jr.cfg.pipeline_order = "rspamd_first" THEN 4 ELSE 2
           /\ jr.at = "sem" => AwaitsLeft(jr) =
                 IF jr.cfg.pipeline_order = "rspamd_first" THEN 3 ELSE 4
           /\ jr.at = "ai" => AwaitsLeft(jr) =
                 IF jr.cfg.pipeline_order = "rspamd_first" THEN 2 ELSE 3
           /\ jr.at = "decide" => AwaitsLeft(jr) = 1
           /\ jr.at = "done" => AwaitsLeft(jr) = 0
           /\ jr.at # "done" => AwaitsLeft(jr) \in 1..6
BY DEF AwaitsLeft, JobType, Places

\* The others keep their place, or come closer to the slot.
OthersStay(j) == \A k \in Jobs \ {j} : job'[k] = job[k] /\ ahead'[k] \subseteq ahead[k]

LEMMA EnqueueLeaves ==
    ASSUME TypeOK, NEW j \in Jobs, NEW jr, job' = [job EXCEPT ![j] = jr], Enqueue(j, jr)
    PROVE  OthersStay(j) /\ job'[j] = jr
BY DEF TypeOK, Enqueue, OthersStay

LEMMA DequeueLeaves ==
    ASSUME TypeOK, NEW j \in Jobs, NEW jr, job' = [job EXCEPT ![j] = jr], Dequeue(j)
    PROVE  OthersStay(j) /\ job'[j] = jr
BY DEF TypeOK, Dequeue, OthersStay

LEMMA AskGoesOn ==
    ASSUME TypeInd, NEW j \in Jobs, NEW r, Arrive(j) \/ PrePass(j, r) \/ Score(j, r)
    PROVE  OthersStay(j) /\ AwaitsLeft(job'[j]) < AwaitsLeft(job[j])
<1>1. TypeOK /\ job[j] \in JobType /\ (job[j].at \in {"idle", "prepass", "rspamd"} => ~job[j].bypassed)
  BY DEF TypeInd, TypeInv, TypeOK, BypassedAtEnd
<1>2. CASE Arrive(j)
  <2>1. PICK jr \in JobType : /\ job' = [job EXCEPT ![j] = jr] /\ Enqueue(j, jr)
                              /\ jr.at \in {"prepass", "sem", "rspamd", "decide"}
    BY <1>1, <1>2, ArriveFacts
  <2>2. AwaitsLeft(jr) \in 1..5
    BY <2>1, AwaitsLeftIs
  <2>3. AwaitsLeft(job[j]) = 6
    BY <1>1, <1>2, AwaitsLeftIs DEF Arrive
  <2>4. OthersStay(j) /\ job'[j] = jr
    BY <1>1, <2>1, EnqueueLeaves
  <2>5. AwaitsLeft(jr) < AwaitsLeft(job[j])
    BY <2>2, <2>3
  <2> QED
    BY <2>4, <2>5
<1>3. CASE PrePass(j, r)
  <2>1. PICK jr \in JobType : /\ job' = [job EXCEPT ![j] = jr] /\ Enqueue(j, jr)
                              /\ jr.at \in {"sem", "rspamd", "decide"}
    BY <1>1, <1>3, PrePassFacts DEF PrePass
  <2>2. AwaitsLeft(jr) \in 1..4
    BY <2>1, AwaitsLeftIs
  <2>3. AwaitsLeft(job[j]) = 5
    BY <1>1, <1>3, AwaitsLeftIs DEF PrePass
  <2>4. OthersStay(j) /\ job'[j] = jr
    BY <1>1, <2>1, EnqueueLeaves
  <2>5. AwaitsLeft(jr) < AwaitsLeft(job[j])
    BY <2>2, <2>3
  <2> QED
    BY <2>4, <2>5
<1>4. CASE Score(j, r)
  <2>1. job[j].at = "rspamd" /\ ~job[j].bypassed
    BY <1>1, <1>4 DEF Score
  <2>2. PICK jr \in JobType : /\ job' = [job EXCEPT ![j] = jr] /\ Enqueue(j, jr)
                              /\ jr.cfg = job[j].cfg
                              /\ jr.at \in {"sem", "decide"}
                              /\ jr.at = "sem" => jr.cfg.pipeline_order = "rspamd_first"
    <3> DEFINE scored == [job[j] EXCEPT !.rres = r]
               jr == IF scored.cfg.pipeline_order = "rspamd_first"
                     THEN AfterScore(scored) ELSE [scored EXCEPT !.at = "decide"]
    <3>1. PICK x \in JobType : /\ job' = [job EXCEPT ![j] = x] /\ Enqueue(j, x)
                               /\ SameBut(x, job[j]) /\ x.at \in {"sem", "decide"}
      BY <1>1, <1>4, <2>1, ScoreFacts
    <3>2. job'[j] = x /\ job'[j] = jr
      BY <1>1, <1>4, <3>1 DEF Score, TypeOK
    <3>3. jr.at = "sem" => scored.cfg.pipeline_order = "rspamd_first"
      BY <1>1 DEF JobType
    <3>4. scored.cfg = job[j].cfg /\ x.cfg = job[j].cfg
      BY <1>1, <3>1 DEF JobType, SameBut
    <3> HIDE DEF jr, scored
    <3> QED
      BY <3>1, <3>2, <3>3, <3>4
  <2>3. AwaitsLeft(jr) < AwaitsLeft(job[j])
    <3>1. CASE jr.at = "sem"
      <4>1. AwaitsLeft(jr) = 3
        BY <2>2, <3>1, AwaitsLeftIs
      <4>2. AwaitsLeft(job[j]) = 4
        BY <1>1, <2>1, <2>2, <3>1, AwaitsLeftIs
      <4> QED
        BY <4>1, <4>2
    <3>2. CASE jr.at = "decide"
      <4>1. AwaitsLeft(jr) = 1
        BY <3>2, AwaitsLeftIs
      <4>2. AwaitsLeft(job[j]) \in 2..4
        BY <1>1, <2>1, AwaitsLeftIs
      <4> QED
        BY <4>1, <4>2
    <3> QED
      BY <2>2, <3>1, <3>2
  <2> QED
    BY <1>1, <2>2, <2>3, EnqueueLeaves
<1> QED
  BY <1>2, <1>3, <1>4

\* The rest of a job's own steps, and its end.
LEMMA WorkGoesOn ==
    ASSUME TypeInd, NEW j \in Jobs, Analyse(j) \/ Decide(j) \/ Disconnect(j)
    PROVE  OthersStay(j) /\ AwaitsLeft(job'[j]) < AwaitsLeft(job[j])
<1>1. TypeOK /\ job[j] \in JobType /\ job'[j] \in JobType
  <2>1. TypeInd'
    BY TypeAnalyse, TypeDecide, TypeEnvironment
  <2> QED
    BY <2>1 DEF TypeInd, TypeInv, TypeOK
<1>2. CASE AcquireSlot(j)
  <2>1. OthersStay(j)
    BY <1>1, <1>2 DEF AcquireSlot, Dequeue, OthersStay, TypeOK
  <2>2. job[j].at = "sem" /\ job'[j].at = "ai" /\ job'[j].cfg = job[j].cfg
    BY <1>1, <1>2 DEF AcquireSlot, NextWaiter, TypeOK, JobType
  <2>3. AwaitsLeft(job'[j]) = IF job[j].cfg.pipeline_order = "rspamd_first" THEN 2 ELSE 3
    BY <1>1, <2>2, AwaitsLeftIs
  <2>4. AwaitsLeft(job[j]) = IF job[j].cfg.pipeline_order = "rspamd_first" THEN 3 ELSE 4
    BY <1>1, <2>2, AwaitsLeftIs
  <2> QED
    BY <2>1, <2>3, <2>4
<1>3. ASSUME AiFails(j) \/ \E v \in Opinions : AiAnswers(j, v)
      PROVE  OthersStay(j) /\ AwaitsLeft(job'[j]) < AwaitsLeft(job[j])
  <2>1. OthersStay(j)
    BY <1>1, <1>3 DEF AiAnswers, AiFails, OthersStay, TypeOK
  <2>2. /\ job[j].at = "ai" /\ job'[j].cfg = job[j].cfg
        /\ job'[j].at = AfterAi(job[j])
    <3>1. CASE AiFails(j)
      BY <1>1, <3>1 DEF AiFails, TypeOK, JobType
    <3>2. ASSUME NEW v \in Opinions, AiAnswers(j, v)
          PROVE  /\ job[j].at = "ai" /\ job'[j].cfg = job[j].cfg
                 /\ job'[j].at = AfterAi(job[j])
      BY <1>1, <3>2 DEF AiAnswers, TypeOK, JobType
    <3> QED
      BY <1>3, <3>1, <3>2
  <2>3. CASE job[j].cfg.pipeline_order = "rspamd_first"
    <3>1. job'[j].at = "decide"
      BY <2>2, <2>3 DEF AfterAi
    <3>2. AwaitsLeft(job'[j]) = 1
      BY <1>1, <3>1, AwaitsLeftIs
    <3>3. AwaitsLeft(job[j]) = 2
      BY <1>1, <2>2, <2>3, AwaitsLeftIs
    <3> QED
      BY <2>1, <3>2, <3>3
  <2>4. CASE job[j].cfg.pipeline_order # "rspamd_first"
    <3>1. job'[j].at = "rspamd"
      BY <2>2, <2>4 DEF AfterAi
    <3>2. AwaitsLeft(job'[j]) = 2
      BY <1>1, <2>2, <2>4, <3>1, AwaitsLeftIs
    <3>3. AwaitsLeft(job[j]) = 3
      BY <1>1, <2>2, <2>4, AwaitsLeftIs
    <3> QED
      BY <2>1, <3>2, <3>3
  <2> QED
    BY <2>3, <2>4
<1>4. CASE Decide(j) \/ Disconnect(j)
  <2>1. OthersStay(j)
    BY <1>1, <1>4 DEF Decide, Disconnect, QueueAfterCancel, Dequeue, OthersStay, TypeOK
  <2>2. job[j].at # "done" /\ job'[j].at = "done"
    BY <1>1, <1>4 DEF Decide, Write, Disconnect, Awaiting, TypeOK, JobType
  <2>3. AwaitsLeft(job'[j]) = 0 /\ AwaitsLeft(job[j]) \in 1..6
    BY <1>1, <2>2, AwaitsLeftIs
  <2> QED
    BY <2>1, <2>3
<1> QED
  BY <1>2, <1>3, <1>4 DEF Analyse

LEMMA JobsStep ==
    ASSUME TypeInd, [Next]_vars
    PROVE  JobsGoOn
<1>1. TypeOK /\ \A j \in Jobs : job[j] \in JobType
  BY DEF TypeInd, TypeInv, TypeOK
<1>2. ASSUME NEW j \in Jobs, Step(j) PROVE AwaitsLeft(job'[j]) < AwaitsLeft(job[j])
  BY <1>2, AskGoesOn, WorkGoesOn DEF Step, Ask
<1>3. ASSUME NEW j \in Jobs
      PROVE  /\ job[j].at # "done" =>
                   \/ AwaitsLeft(job'[j]) < AwaitsLeft(job[j])
                   \/ (job'[j] = job[j] /\ ahead'[j] \subseteq ahead[j])
             /\ (job[j].at = "done" /\ j \in Mail) => job'[j] = job[j]
  <2>1. ASSUME NEW k \in Jobs, Arrive(k) \/ Step(k) \/ Disconnect(k)
        PROVE  /\ OthersStay(k) /\ AwaitsLeft(job'[k]) < AwaitsLeft(job[k])
               /\ job[k].at # "done"
    <3>1. OthersStay(k) /\ AwaitsLeft(job'[k]) < AwaitsLeft(job[k])
      BY <2>1, AskGoesOn, WorkGoesOn DEF Step, Ask
    <3>2. job[k].at # "done"
      BY <2>1 DEF Arrive, Step, Ask, PrePass, Score, Analyse, AcquireSlot, NextWaiter,
                  AiAnswers, AiFails, Decide, Write, Disconnect, Awaiting
    <3> QED
      BY <3>1, <3>2
  <2>2. CASE \E k \in Jobs : Arrive(k) \/ Step(k) \/ Disconnect(k)
    <3>1. PICK k \in Jobs : Arrive(k) \/ Step(k) \/ Disconnect(k)
      BY <2>2
    <3>2. CASE j = k
      BY <2>1, <3>1, <3>2
    <3>3. CASE j # k
      BY <2>1, <3>1, <3>3 DEF OthersStay
    <3> QED
      BY <3>2, <3>3
  <2>3. CASE Restart
    <3>1. ahead'[j] = {} /\ job'[j] = IF Running(j) THEN [job[j] EXCEPT !.at = "done"]
                                      ELSE job[j]
      BY <2>3 DEF Restart
    <3>2. CASE Running(j)
      <4>1. job'[j] \in JobType /\ job'[j].at = "done" /\ job[j].at # "done"
        BY <1>1, <3>1, <3>2 DEF JobType, Places, Running
      <4>2. AwaitsLeft(job'[j]) = 0 /\ AwaitsLeft(job[j]) \in 1..6
        BY <1>1, <4>1, AwaitsLeftIs
      <4> QED
        BY <4>1, <4>2
    <3>3. CASE ~Running(j)
      BY <3>1, <3>3
    <3> QED
      BY <3>2, <3>3
  <2>4. CASE \E t \in Tests : Resubmit(t)
    <3>1. PICK t \in Tests : Resubmit(t)
      BY <2>4
    <3>2. t \in Jobs /\ t \notin Mail /\ job[t].at = "done" /\ ahead' = ahead
          /\ job' = [job EXCEPT ![t] = NewJob(job[t].cfg)]
      BY <3>1, JobsAssumption DEF Resubmit, Jobs
    <3> QED
      BY <1>1, <3>2 DEF TypeOK
  <2>5. CASE UNCHANGED vars \/ \E cfg \in Edits : SaveSettings(cfg)
    BY <2>5 DEF vars, SaveSettings
  <2> QED
    BY <2>2, <2>3, <2>4, <2>5 DEF Next
<1> QED
  BY <1>2, <1>3 DEF JobsGoOn

\* In either order, a job comes to each of its awaits once at most: its own
\* steps lead to fewer awaits, and nothing else that happens leads back, or puts
\* anyone in front of a job that waits; and a message is decided once.
THEOREM MailGoesOn == Spec => [][JobsGoOn]_vars
<1>1. TypeInd /\ [Next]_vars => [JobsGoOn]_vars
  BY JobsStep
<1> QED
  BY <1>1, TypeInit, TypeStep, PTL DEF Spec
=============================================================================
