----------------------- MODULE PipelineDecisionProofs -----------------------
(***************************************************************************)
(* What becomes of a message: proofs of the decision properties of         *)
(* Pipeline, from one inductive invariant, a conjunction of facts about    *)
(* each job on its own.                                                    *)
(***************************************************************************)
EXTENDS PipelineProofs

-----------------------------------------------------------------------------
(* The invariant *)

\* A result of rspamd that a job holds is one that rspamd really gave it.
Evident(r, seen) ==
    /\ r.ok => "rspamd" \in seen
    /\ r.ok /\ ~r.av_failed => "antivirus" \in seen

\* The AI was asked, if it was due, and any failure was noted.
AiSettled(jr, seen) ==
    jr.cfg.enabled /\ ~Overridden(jr) /\ ~jr.bypassed =>
        "ai" \in seen \/ jr.ai_failed

\* Where that must be so: with the analysis behind, or with a decision.
AiBehind(jr, out) ==
    \/ jr.at = "decide"
    \/ jr.at = "rspamd" /\ jr.cfg.pipeline_order = "ai_first"
    \/ out \in {"DELIVER", "DROP", "TEMPFAIL"}

\* A sender-domain exemption that needs evidence has it from the pre-pass on.
Vouched(jr, out) ==
    /\ jr.wl \in {"envelope", "header"}
    /\ jr.cfg.require_auth
    /\ jr.at \notin {"idle", "prepass"}
    /\ out # "ABORTED"
    => /\ jr.pre.ok
       /\ jr.pre.dmarc \/ (jr.wl = "envelope" /\ jr.pre.spf)

JobOK(j, jr, out, mk, seen, hold) ==
    /\ Evident(jr.pre, seen)
    /\ Evident(jr.rres, seen)
    /\ AiBehind(jr, out) => AiSettled(jr, seen)
    /\ jr.bypassed => IsReject(jr.rres) /\ ~Overridden(jr)
    /\ out # "none" => jr.at = "done"
    /\ out = "DELIVER" => /\ ~Detected(jr)
                          /\ Policy(jr) = "deliver_tagged"
                          /\ mk.control_failure = Failed(jr)
    /\ out = "DROP" => Detected(jr) \/ j \in hold
    /\ j \in hold => out \in {"DROP", "EXCEPTION", "ABORTED"}
    /\ Matches(j, jr)
    /\ Vouched(jr, out)

\* The test page leaves no trace, no raw copy and no quarantine entry.
TestsLeaveNothing == (held \union traced \union raw) \intersect Tests = {}

JobsOK == \A j \in Jobs : JobOK(j, job[j], outcome[j], marks[j], saw[j], held)

DecisionInv == TypeInd /\ JobsOK /\ TestsLeaveNothing

-----------------------------------------------------------------------------
(* It holds initially and every step preserves it *)

LEMMA NewJobOK ==
    ASSUME NEW j, NEW cfg \in Configs, NEW mk, NEW seen, NEW hold, j \notin hold
    PROVE  JobOK(j, NewJob(cfg), "none", mk, seen, hold)
BY DEF JobOK, NewJob, NotAsked, Evident, AiBehind, Matches, Vouched

LEMMA DecisionInit == Init => DecisionInv
<1> SUFFICES ASSUME Init PROVE JobsOK /\ TestsLeaveNothing
  BY TypeInit DEF DecisionInv
<1> QED BY NewJobOK DEF Init, JobsOK, TestsLeaveNothing

\* A step of one job leaves what is known of the others alone.
LEMMA OneJob ==
    ASSUME DecisionInv, NEW j \in Jobs, NEW jr, job' = [job EXCEPT ![j] = jr],
           \A k \in Jobs \ {j} : /\ outcome'[k] = outcome[k]
                                 /\ marks'[k] = marks[k]
                                 /\ saw'[k] = saw[k]
                                 /\ k \in held' <=> k \in held,
           JobOK(j, jr, outcome'[j], marks'[j], saw'[j], held')
    PROVE  JobsOK'
<1>1. job \in [Jobs -> JobType]
  BY DEF DecisionInv, TypeInd, TypeInv, TypeOK
<1> SUFFICES ASSUME NEW k \in Jobs
             PROVE  JobOK(k, job'[k], outcome'[k], marks'[k], saw'[k], held')
  BY DEF JobsOK
<1>2. CASE k = j
  BY <1>1, <1>2
<1>3. CASE k # j
  <2>1. JobOK(k, job[k], outcome[k], marks[k], saw[k], held)
    BY DEF DecisionInv, JobsOK
  <2>2. job'[k] = job[k] /\ outcome'[k] = outcome[k] /\ marks'[k] = marks[k]
        /\ saw'[k] = saw[k] /\ (k \in held' <=> k \in held)
    BY <1>1, <1>3
  <2> QED BY <2>1, <2>2 DEF JobOK
<1> QED BY <1>2, <1>3

LEMMA BypassedInCode ==
    ASSUME DecisionInv, NEW j \in Jobs, job[j].at \notin {"decide", "done"}
    PROVE  ~job[j].bypassed /\ outcome[j] = "none" /\ j \notin held
<1>1. JobOK(j, job[j], outcome[j], marks[j], saw[j], held)
  BY DEF DecisionInv, JobsOK
<1> QED BY <1>1 DEF DecisionInv, TypeInd, BypassedAtEnd, JobOK

\* rspamd's answer is evidence of what it inspected; more evidence never hurts.
LEMMA SawFacts ==
    ASSUME TypeOK, NEW j \in Jobs, NEW r \in RspamdResult, Saw(j, r)
    PROVE  /\ Evident(r, saw'[j])
           /\ saw[j] \subseteq saw'[j]
           /\ \A k \in Jobs \ {j} : saw'[k] = saw[k]
BY DEF TypeOK, Saw, Evident

LEMMA EvidentMore ==
    ASSUME NEW r, NEW s, NEW t, s \subseteq t, Evident(r, s) PROVE Evident(r, t)
BY DEF Evident

LEMMA ArriveStep ==
    ASSUME DecisionInv, NEW j \in Jobs, Arrive(j) PROVE JobsOK'
<1>1. TypeOK
  BY DEF DecisionInv, TypeInd, TypeInv
<1>2. PICK jr \in JobType :
             /\ job' = [job EXCEPT ![j] = jr]
             /\ Matches(j, jr)
             /\ jr.pre = NotAsked /\ jr.rres = NotAsked
             /\ jr.at \in {"prepass", "sem", "rspamd", "decide"}
             /\ jr.at = "prepass" => ~jr.bypassed
             /\ jr.at # "prepass" => /\ Moved(jr, jr)
                                     /\ jr.wl \in {"envelope", "header"} =>
                                          ~jr.cfg.require_auth
                                     /\ jr.at = "rspamd"
                                        /\ jr.cfg.pipeline_order = "ai_first" =>
                                          ~(jr.cfg.enabled /\ ~Overridden(jr))
  BY <1>1, ArriveFacts
<1>3. outcome[j] = "none" /\ j \notin held
  BY BypassedInCode DEF Arrive
<1>4. ~NotAsked.ok
  BY DEF NotAsked
<1>5. JobOK(j, jr, "none", marks[j], saw[j], held)
  BY <1>2, <1>3, <1>4 DEF JobOK, Evident, AiBehind, AiSettled, Vouched, Moved
<1> QED BY <1>2, <1>3, <1>5, OneJob DEF Arrive

LEMMA PrePassStep ==
    ASSUME DecisionInv, NEW j \in Jobs, NEW r, PrePass(j, r) PROVE JobsOK'
<1>1. TypeOK /\ JobOK(j, job[j], outcome[j], marks[j], saw[j], held)
  BY DEF DecisionInv, TypeInd, TypeInv, JobsOK
<1>2. ~job[j].bypassed /\ outcome[j] = "none" /\ j \notin held
  BY BypassedInCode DEF PrePass
<1>3. r \in RspamdResult /\ (r = Down \/ r.ok)
  BY <1>1, <1>2, PrePassFacts
<1>4. PICK jr \in JobType :
                /\ job' = [job EXCEPT ![j] = jr]
                /\ Moved(jr, jr)
                /\ jr.pre = r /\ jr.rres \in {job[j].rres, r}
                /\ jr.at \in {"sem", "rspamd", "decide"}
                /\ jr.wl \in {job[j].wl, "none"} /\ jr.cfg = job[j].cfg
                /\ jr.wl # "none" => Authenticated(jr.wl, r)
                /\ jr.at = "rspamd" /\ jr.cfg.pipeline_order = "ai_first" =>
                      ~(jr.cfg.enabled /\ ~Overridden(jr))
  BY <1>1, <1>2, PrePassFacts
<1>5. /\ Evident(r, saw'[j]) /\ \A k \in Jobs \ {j} : saw'[k] = saw[k]
      /\ Evident(job[j].rres, saw'[j])
  BY <1>1, <1>3, SawFacts, EvidentMore DEF PrePass, JobOK
<1>6. Vouched(jr, "none")
  <2>1. ~Down.dmarc /\ ~Down.spf
    BY DEF Down
  <2>2. Authenticated(jr.wl, r) /\ jr.wl # "recipient" => r.ok
    BY <1>3, <2>1 DEF Authenticated
  <2> QED BY <1>4, <2>2 DEF Vouched, Authenticated
<1>m. Matches(j, jr)
  BY <1>1, <1>4 DEF JobOK, Matches
<1>7. JobOK(j, jr, "none", marks[j], saw'[j], held)
  BY <1>2, <1>4, <1>5, <1>6, <1>m DEF JobOK, AiBehind, AiSettled, Moved
<1>8. /\ outcome' = outcome /\ marks' = marks /\ held' = held
      /\ \A k \in Jobs \ {j} : /\ outcome'[k] = outcome[k] /\ marks'[k] = marks[k]
                               /\ saw'[k] = saw[k] /\ (k \in held' <=> k \in held)
  BY <1>5 DEF PrePass
<1>9. JobOK(j, jr, outcome'[j], marks'[j], saw'[j], held')
  BY <1>2, <1>7, <1>8
<1> QED BY <1>4, <1>8, <1>9, OneJob

LEMMA ScoreStep ==
    ASSUME DecisionInv, NEW j \in Jobs, NEW r, Score(j, r) PROVE JobsOK'
<1>1. TypeOK /\ JobOK(j, job[j], outcome[j], marks[j], saw[j], held)
  BY DEF DecisionInv, TypeInd, TypeInv, JobsOK
<1>2. /\ ~job[j].bypassed /\ outcome[j] = "none" /\ j \notin held
      /\ job[j].at = "rspamd"
  BY BypassedInCode DEF Score
<1>3. r \in RspamdResult
  BY <1>1, <1>2, ScoreFacts
<1>4. PICK jr \in JobType :
                /\ job' = [job EXCEPT ![j] = jr]
                /\ SameBut(jr, job[j]) /\ jr.rres = r
                /\ jr.at \in {"sem", "decide"}
                /\ jr.bypassed => /\ jr.at = "decide"
                                  /\ IsReject(jr.rres)
                                  /\ ~Overridden(jr)
                /\ jr.at = "decide" /\ jr.cfg.pipeline_order # "ai_first" =>
                      ~(jr.cfg.enabled /\ ~Overridden(jr) /\ ~jr.bypassed)
  BY <1>1, <1>2, ScoreFacts
<1>5. /\ Evident(r, saw'[j]) /\ \A k \in Jobs \ {j} : saw'[k] = saw[k]
      /\ Evident(job[j].pre, saw'[j]) /\ saw[j] \subseteq saw'[j]
  BY <1>1, <1>3, SawFacts, EvidentMore DEF Score, JobOK
<1>6. Vouched(jr, "none")
  BY <1>1, <1>2, <1>4 DEF JobOK, Vouched, SameBut
<1>7. AiBehind(jr, "none") => AiSettled(jr, saw'[j])
  BY <1>1, <1>2, <1>4, <1>5 DEF JobOK, AiBehind, AiSettled, SameBut, Overridden
<1>8. JobOK(j, jr, "none", marks[j], saw'[j], held)
  BY <1>1, <1>2, <1>4, <1>5, <1>6, <1>7 DEF JobOK, Matches, SameBut
<1>9. /\ outcome' = outcome /\ marks' = marks /\ held' = held
      /\ \A k \in Jobs \ {j} : /\ outcome'[k] = outcome[k] /\ marks'[k] = marks[k]
                               /\ saw'[k] = saw[k] /\ (k \in held' <=> k \in held)
  BY <1>5 DEF Score
<1>10. JobOK(j, jr, outcome'[j], marks'[j], saw'[j], held')
  BY <1>2, <1>8, <1>9
<1> QED BY <1>4, <1>9, <1>10, OneJob

LEMMA AnalyseStep ==
    ASSUME DecisionInv, NEW j \in Jobs, Analyse(j) PROVE JobsOK'
<1>1. TypeOK /\ job[j] \in JobType /\ JobOK(j, job[j], outcome[j], marks[j], saw[j], held)
  BY DEF DecisionInv, TypeInd, TypeInv, TypeOK, JobsOK
<1>2. /\ ~job[j].bypassed /\ outcome[j] = "none" /\ j \notin held
      /\ job[j].at \in {"sem", "ai"}
  BY BypassedInCode DEF Analyse, AcquireSlot, NextWaiter, AiAnswers, AiFails
<1>3. CASE AcquireSlot(j)
  <2> DEFINE jr == [job[j] EXCEPT !.at = "ai"]
  <2>1. /\ jr.at = "ai" /\ SameBut(jr, job[j]) /\ jr.rres = job[j].rres
        /\ jr.bypassed = job[j].bypassed /\ job' = [job EXCEPT ![j] = jr]
    BY <1>1, <1>3 DEF AcquireSlot, JobType, SameBut, TypeOK
  <2> HIDE DEF jr
  <2>2. JobOK(j, jr, "none", marks[j], saw[j], held)
    BY <1>1, <1>2, <2>1 DEF JobOK, AiBehind, Matches, Vouched, SameBut
  <2> QED BY <1>2, <1>3, <2>1, <2>2, OneJob DEF AcquireSlot
<1>4. ASSUME NEW v \in Opinions, AiAnswers(j, v)
      PROVE  JobsOK'
  <2> DEFINE jr == [job[j] EXCEPT !.verdict = v.verdict, !.sure = v.sure,
                                  !.at = AfterAi(job[j])]
  <2>1. /\ jr.at \in {"rspamd", "decide"} /\ jr.cfg = job[j].cfg /\ jr.wl = job[j].wl
        /\ jr.pre = job[j].pre /\ jr.rres = job[j].rres /\ ~jr.bypassed
        /\ job' = [job EXCEPT ![j] = jr]
    BY <1>1, <1>2, <1>4 DEF AiAnswers, AfterAi, JobType, TypeOK
  <2> HIDE DEF jr
  <2>2. /\ "ai" \in saw'[j] /\ saw[j] \subseteq saw'[j]
        /\ \A k \in Jobs \ {j} : saw'[k] = saw[k]
    BY <1>1, <1>4 DEF AiAnswers, TypeOK
  <2>3. Evident(jr.pre, saw'[j]) /\ Evident(jr.rres, saw'[j])
    BY <1>1, <2>1, <2>2, EvidentMore DEF JobOK
  <2>4. JobOK(j, jr, "none", marks[j], saw'[j], held)
    BY <1>1, <1>2, <2>1, <2>2, <2>3 DEF JobOK, AiSettled, Matches, Vouched
  <2> QED BY <1>2, <1>4, <2>1, <2>2, <2>4, OneJob DEF AiAnswers
<1>5. CASE AiFails(j)
  <2> DEFINE jr == [job[j] EXCEPT !.verdict = "ERROR", !.ai_failed = TRUE,
                                  !.at = AfterAi(job[j])]
  <2>1. /\ jr.at \in {"rspamd", "decide"} /\ jr.cfg = job[j].cfg /\ jr.wl = job[j].wl
        /\ jr.pre = job[j].pre /\ jr.rres = job[j].rres /\ ~jr.bypassed
        /\ jr.ai_failed /\ job' = [job EXCEPT ![j] = jr]
    BY <1>1, <1>2, <1>5 DEF AiFails, AfterAi, JobType, TypeOK
  <2> HIDE DEF jr
  <2>2. JobOK(j, jr, "none", marks[j], saw[j], held)
    BY <1>1, <1>2, <2>1 DEF JobOK, AiSettled, Matches, Vouched
  <2> QED BY <1>2, <1>5, <2>1, <2>2, OneJob DEF AiFails
<1> QED BY <1>3, <1>4, <1>5 DEF Analyse

\* The decision does not depend on where the job is.
LEMMA AtDecides ==
    ASSUME NEW jr \in JobType, NEW x
    PROVE  LET new == [jr EXCEPT !.at = x]
           IN  /\ new.at = x /\ SameBut(new, jr) /\ new.rres = jr.rres
               /\ new.bypassed = jr.bypassed
               /\ Detected(new) = Detected(jr) /\ Failed(new) = Failed(jr)
               /\ Policy(new) = Policy(jr) /\ Overridden(new) = Overridden(jr)
<1> DEFINE new == [jr EXCEPT !.at = x]
<1>1. /\ new.at = x /\ SameBut(new, jr) /\ new.rres = jr.rres
      /\ new.bypassed = jr.bypassed
  BY DEF JobType, SameBut
<1> HIDE DEF new
<1>2. Detected(new) = Detected(jr) /\ Failed(new) = Failed(jr)
      /\ Overridden(new) = Overridden(jr)
  BY <1>1 DEF SameBut, Detected, AiDrop, RspamdDrop, Failed, Overridden
<1>3. Policy(new) = Policy(jr)
  BY <1>1, <1>2 DEF SameBut, Policy
<1> QED BY <1>1, <1>2, <1>3 DEF new

\* What a Decision stands on.
LEMMA DecisionFacts ==
    ASSUME NEW jr, NEW kept \in BOOLEAN
    PROVE  /\ Decision(jr, kept) \in {"DELIVER", "DROP", "TEMPFAIL"}
           /\ Decision(jr, kept) = "DELIVER" =>
                ~Detected(jr) /\ Policy(jr) = "deliver_tagged"
           /\ Decision(jr, kept) = "DROP" => Detected(jr) \/ kept
           /\ kept /\ Keeps(jr) => Decision(jr, kept) = "DROP"
<1>1. Policy(jr) \in {"deliver_tagged", "quarantine", "defer"}
  BY PolicyType DEF Policies
<1>2. CASE Detected(jr)
  BY <1>2 DEF Decision
<1>3. CASE ~Detected(jr)
  <2>1. CASE Policy(jr) = "deliver_tagged"
    BY <1>3, <2>1 DEF Decision, Keeps
  <2>2. CASE Policy(jr) = "quarantine"
    BY <1>3, <2>2 DEF Decision
  <2>3. CASE Policy(jr) = "defer"
    BY <1>3, <2>3 DEF Decision, Keeps
  <2> QED BY <1>1, <2>1, <2>2, <2>3
<1> QED BY <1>2, <1>3

LEMMA DecideStep ==
    ASSUME DecisionInv, NEW j \in Jobs, Decide(j) PROVE JobsOK'
<1>1. TypeOK /\ job[j] \in JobType /\ JobOK(j, job[j], outcome[j], marks[j], saw[j], held)
  BY DEF DecisionInv, TypeInd, TypeInv, TypeOK, JobsOK
<1>2. job[j].at = "decide" /\ outcome[j] = "none" /\ j \notin held
  BY <1>1 DEF Decide, Write, JobOK
<1>3. PICK ok \in SUBSET Files :
        LET result == IF j \in Mail /\ ~Logged(j, ok) THEN "EXCEPTION"
                      ELSE Decision(job[j], Kept(j, ok))
        IN  /\ job' = [job EXCEPT ![j].at = "done"]
            /\ held' = IF Kept(j, ok) THEN held \union {j} ELSE held
            /\ outcome' = [outcome EXCEPT ![j] = result]
            /\ marks' = IF result = "DELIVER"
                        THEN [marks EXCEPT ![j] = MarksOf(job[j])] ELSE marks
            /\ saw' = saw
  BY DEF Decide, Write
<1> DEFINE kept == Kept(j, ok)
           result == IF j \in Mail /\ ~Logged(j, ok) THEN "EXCEPTION"
                     ELSE Decision(job[j], kept)
           jr == [job[j] EXCEPT !.at = "done"]
<1>4. /\ jr.at = "done" /\ SameBut(jr, job[j]) /\ jr.rres = job[j].rres
      /\ jr.bypassed = job[j].bypassed
      /\ Detected(jr) = Detected(job[j]) /\ Failed(jr) = Failed(job[j])
      /\ Policy(jr) = Policy(job[j]) /\ Overridden(jr) = Overridden(job[j])
      /\ job' = [job EXCEPT ![j] = jr]
  BY <1>1, <1>3, AtDecides DEF TypeOK
<1>5. kept \in BOOLEAN /\ (kept => Keeps(job[j]))
  BY DEF Kept, Keeps, Storable
<1>6. /\ held' = IF kept THEN held \union {j} ELSE held
      /\ outcome' = [outcome EXCEPT ![j] = result]
      /\ marks' = IF result = "DELIVER"
                  THEN [marks EXCEPT ![j] = MarksOf(job[j])] ELSE marks
      /\ saw' = saw
  BY <1>3
<1>7. /\ result \in {"DELIVER", "DROP", "TEMPFAIL", "EXCEPTION"}
      /\ result = "DELIVER" => ~Detected(job[j]) /\ Policy(job[j]) = "deliver_tagged"
      /\ result = "DROP" => Detected(job[j]) \/ kept
      /\ kept => result \in {"DROP", "EXCEPTION"}
  <2>1. CASE j \in Mail /\ ~Logged(j, ok)
    BY <2>1
  <2>2. CASE ~(j \in Mail /\ ~Logged(j, ok))
    <3>1. result = Decision(job[j], kept)
      BY <2>2
    <3> HIDE DEF kept
    <3> QED BY <1>5, <3>1, DecisionFacts
  <2> QED BY <2>1, <2>2
<1>8. MarksOf(job[j]).control_failure = Failed(job[j])
  BY DEF MarksOf
<1> HIDE DEF kept, result, jr
<1>9. /\ outcome'[j] = result
      /\ result = "DELIVER" => marks'[j].control_failure = Failed(job[j])
      /\ j \in held' <=> kept
      /\ \A k \in Jobs \ {j} : /\ outcome'[k] = outcome[k]
                               /\ marks'[k] = marks[k]
                               /\ saw'[k] = saw[k]
                               /\ k \in held' <=> k \in held
  BY <1>1, <1>2, <1>6, <1>8 DEF TypeOK
<1>10. AiSettled(jr, saw[j]) /\ Vouched(jr, result)
  BY <1>1, <1>2, <1>4, <1>7 DEF JobOK, AiBehind, AiSettled, Vouched, SameBut
<1>11. JobOK(j, jr, outcome'[j], marks'[j], saw'[j], held')
  BY <1>1, <1>4, <1>6, <1>7, <1>9, <1>10 DEF JobOK, Matches, SameBut
<1> QED BY <1>4, <1>9, <1>11, OneJob

LEMMA EnvironmentStep ==
    ASSUME DecisionInv,
           \/ \E j \in Jobs : Disconnect(j)
           \/ Restart
           \/ \E cfg \in Edits : SaveSettings(cfg)
           \/ \E t \in Tests : Resubmit(t)
    PROVE  JobsOK'
<1>1. /\ TypeOK
      /\ \A k \in Jobs : JobOK(k, job[k], outcome[k], marks[k], saw[k], held)
  BY DEF DecisionInv, TypeInd, TypeInv, JobsOK
\* A job that ends without an answer keeps everything but its place.
<1>2. ASSUME NEW j \in Jobs, job[j].at \in Places \ {"idle", "done"}
      PROVE  \A hold : JobOK(j, [job[j] EXCEPT !.at = "done"], "ABORTED", marks[j],
                             saw[j], hold)
  <2> DEFINE jr == [job[j] EXCEPT !.at = "done"]
  <2>1. /\ jr.at = "done" /\ SameBut(jr, job[j]) /\ jr.rres = job[j].rres
        /\ jr.bypassed = job[j].bypassed /\ Overridden(jr) = Overridden(job[j])
    BY <1>1, AtDecides DEF TypeOK
  <2>2. outcome[j] = "none" /\ j \notin held
    BY <1>1, <1>2 DEF JobOK
  <2> HIDE DEF jr
  <2>3. ASSUME NEW hold
        PROVE  JobOK(j, jr, "ABORTED", marks[j], saw[j], hold)
    BY <1>1, <2>1, <2>2 DEF JobOK, AiBehind, Matches, Vouched, SameBut
  <2> QED BY <2>3 DEF jr
<1>3. ASSUME NEW j \in Jobs, Disconnect(j)
      PROVE  JobsOK'
  <2> DEFINE jr == [job[j] EXCEPT !.at = "done"]
  <2>1. JobOK(j, jr, "ABORTED", marks[j], saw[j], held)
    BY <1>2, <1>3 DEF Disconnect, Awaiting, Places
  <2>2. job' = [job EXCEPT ![j] = jr]
    BY <1>3 DEF Disconnect
  <2> HIDE DEF jr
  <2> QED BY <1>1, <1>3, <2>1, <2>2, OneJob DEF Disconnect, TypeOK
<1>4. CASE Restart
  <2>1. ASSUME NEW k \in Jobs
        PROVE  JobOK(k, job'[k], outcome'[k], marks'[k], saw'[k], held')
    <3>1. marks' = marks /\ saw' = saw
      BY <1>4 DEF Restart
    <3>2. CASE Running(k)
      <4>1. job'[k] = [job[k] EXCEPT !.at = "done"] /\ outcome'[k] = "ABORTED"
        BY <1>4, <3>2 DEF Restart
      <4>2. job[k].at \in Places \ {"idle", "done"}
        BY <1>1, <3>2 DEF Running, TypeOK, JobType
      <4> QED BY <1>2, <3>1, <4>1, <4>2
    <3>3. CASE ~Running(k)
      <4>1. job'[k] = job[k] /\ outcome'[k] = outcome[k] /\ (k \in held' <=> k \in held)
        BY <1>1, <1>4, <3>3 DEF Restart, Running, Write
      <4> QED BY <1>1, <3>1, <4>1 DEF JobOK
    <3> QED BY <3>2, <3>3
  <2> QED BY <2>1 DEF JobsOK
<1>5. ASSUME NEW cfg \in Edits, SaveSettings(cfg)
      PROVE  JobsOK'
  BY <1>1, <1>5 DEF SaveSettings, JobsOK
<1>6. ASSUME NEW t \in Tests, Resubmit(t)
      PROVE  JobsOK'
  <2>1. t \in Jobs /\ job[t].cfg \in Configs /\ t \notin held
    <3>1. held \intersect Tests = {}
      BY DEF DecisionInv, TestsLeaveNothing
    <3> QED BY <1>1, <3>1 DEF Jobs, TypeOK, JobType
  <2> DEFINE jr == NewJob(job[t].cfg)
  <2>2. JobOK(t, jr, "none", marks'[t], saw'[t], held)
    BY <2>1, NewJobOK
  <2>3. job' = [job EXCEPT ![t] = jr]
    BY <1>6 DEF Resubmit
  <2> HIDE DEF jr
  <2>4. /\ outcome'[t] = "none" /\ held' = held
        /\ \A k \in Jobs \ {t} : /\ outcome'[k] = outcome[k]
                                 /\ marks'[k] = marks[k]
                                 /\ saw'[k] = saw[k]
                                 /\ k \in held' <=> k \in held
    BY <1>1, <1>6, <2>1 DEF Resubmit, TypeOK
  <2>5. JobOK(t, jr, outcome'[t], marks'[t], saw'[t], held')
    BY <2>2, <2>4
  <2> QED BY <2>1, <2>3, <2>4, <2>5, OneJob
<1> QED BY <1>3, <1>4, <1>5, <1>6

LEMMA StoresStep ==
    ASSUME TestsLeaveNothing, [Next]_vars PROVE TestsLeaveNothing'
<1>1. ASSUME NEW j \in Jobs, NEW ok, Write(j, ok)
      PROVE  TestsLeaveNothing'
  <2>1. \A s \in {held, traced, raw} : s \intersect Tests = {}
    BY DEF TestsLeaveNothing
  <2>2. j \in Tests => held' = held /\ traced' = traced /\ raw' = raw
    BY <1>1, JobsAssumption DEF Write, Kept, Logged, Storable
  <2>3. /\ held' \subseteq held \union {j} /\ traced' \subseteq traced \union {j}
        /\ raw' \subseteq raw \union {j}
    BY <1>1 DEF Write
  <2> QED BY <2>1, <2>2, <2>3 DEF TestsLeaveNothing
<1>2. CASE UNCHANGED <<held, traced, raw>>
  BY <1>2 DEF TestsLeaveNothing
<1> QED BY <1>1, <1>2 DEF Next, vars, Step, Ask, Analyse, Arrive, PrePass, Score, Decide,
        AcquireSlot, AiAnswers, AiFails, Disconnect, Restart, SaveSettings, Resubmit

LEMMA DecisionStep == DecisionInv /\ [Next]_vars => DecisionInv'
<1> SUFFICES ASSUME DecisionInv, [Next]_vars PROVE DecisionInv'
  OBVIOUS
<1>1. TypeInd' /\ TestsLeaveNothing'
  BY TypeStep, StoresStep DEF DecisionInv
<1>2. ASSUME NEW j \in Jobs, Arrive(j) \/ Step(j)
      PROVE  JobsOK'
  BY <1>2, ArriveStep, PrePassStep, ScoreStep, AnalyseStep, DecideStep DEF Step, Ask
<1>3. ASSUME UNCHANGED vars
      PROVE  JobsOK'
  <2>1. /\ job' = job /\ outcome' = outcome /\ marks' = marks /\ saw' = saw
        /\ held' = held
    BY <1>3 DEF vars
  <2>2. JobsOK
    BY DEF DecisionInv
  <2> QED BY <2>1, <2>2 DEF JobsOK
<1>4. JobsOK'
  BY <1>2, <1>3, EnvironmentStep DEF Next
<1> QED BY <1>1, <1>4 DEF DecisionInv

LEMMA DecisionAlways == Spec => []DecisionInv
BY DecisionInit, DecisionStep, PTL DEF Spec

-----------------------------------------------------------------------------
(* What follows for every message *)

\* A control that was due to a delivered message and did not inspect it is
\* among the failed.
LEMMA DueCovered ==
    ASSUME DecisionInv, NEW j \in Jobs, Delivered(j)
    PROVE  /\ Due(job[j]) \ saw[j] \subseteq Failed(job[j])
           /\ Policy(job[j]) = "deliver_tagged"
           /\ marks[j].control_failure = Failed(job[j])
<1>1. JobOK(j, job[j], outcome[j], marks[j], saw[j], held)
  BY DEF DecisionInv, JobsOK
<1>2. ~Detected(job[j]) /\ AiSettled(job[j], saw[j]) /\ Evident(job[j].rres, saw[j])
  BY <1>1 DEF JobOK, Delivered, AiBehind
<1>3. ~job[j].bypassed
  BY <1>1, <1>2 DEF JobOK, Detected, RspamdDrop, Overridden
<1>4. Due(job[j]) \ saw[j] \subseteq Failed(job[j])
  BY <1>2, <1>3 DEF Due, Enabled, Failed, AiSettled, Evident
<1> QED BY <1>1, <1>4 DEF JobOK, Delivered

LEMMA FailedPolicy ==
    ASSUME NEW jr, Failed(jr) # {}, jr.wl = "none", Policy(jr) = "deliver_tagged"
    PROVE  /\ \A c \in Failed(jr) : PolicyKey(jr.cfg, c) = "deliver_tagged"
           /\ Enabled(jr.cfg) \subseteq Failed(jr) =>
                 PolicyKey(jr.cfg, "all_down") = "deliver_tagged"
BY PolicyOfFacts DEF Policy, PolicyKey

\* A delivered message was inspected by every control it was due, or the admin
\* chose deliver_tagged for each that did not, in either order of the two
\* controls and with whatever pre-pass (analyzer.py:156-183).
THEOREM UnavailableControlsAreObeyed == Spec => []UnavailableControlObeyed
<1>1. ASSUME DecisionInv PROVE UnavailableControlObeyed
  BY <1>1, DueCovered, FailedPolicy DEF UnavailableControlObeyed
<1> QED BY <1>1, DecisionAlways, PTL

\* A message that none of its controls inspected is delivered only under an
\* all_down policy that says so (analyzer.py:172-177).
THEOREM TotalOutageIsObeyed == Spec => []AllDownObeyed
<1>1. ASSUME DecisionInv PROVE AllDownObeyed
  <2> SUFFICES ASSUME NEW j \in Jobs, Delivered(j), ~Overridden(job[j]), saw[j] = {}
               PROVE  PolicyKey(job[j].cfg, "all_down") = "deliver_tagged"
    BY DEF AllDownObeyed
  <2>1. job[j].wl = "none" /\ Due(job[j]) = Enabled(job[j].cfg)
    BY DEF Overridden, Due
  <2>2. Enabled(job[j].cfg) \subseteq Failed(job[j]) /\ Failed(job[j]) # {}
    BY <1>1, <2>1, DueCovered DEF Enabled
  <2> QED BY <1>1, <2>1, <2>2, DueCovered, FailedPolicy
<1> QED BY <1>1, DecisionAlways, PTL

\* The tags of a delivered message name every control that was due and did
\* not inspect it (analyzer.py:160-167, 203-207).
THEOREM EveryFailureIsTagged == Spec => []FailuresAreTagged
<1>1. ASSUME DecisionInv PROVE FailuresAreTagged
  BY <1>1, DueCovered DEF FailuresAreTagged
<1> QED BY <1>1, DecisionAlways, PTL

\* A message dropped without a detection is in the quarantine store
\* (analyzer.py:409-424).
THEOREM UninspectedIsNeverLost == Spec => []UninspectedNeverLost
<1>1. ASSUME DecisionInv PROVE UninspectedNeverLost
  BY <1>1 DEF UninspectedNeverLost, DecisionInv, JobsOK, JobOK
<1> QED BY <1>1, DecisionAlways, PTL

\* The trace log has every message that was answered, and none that failed.
LoggedOK ==
    \A j \in Mail :
        /\ outcome[j] \in {"none", "EXCEPTION"} => j \notin traced
        /\ outcome[j] \in {"DELIVER", "DROP", "TEMPFAIL"} => j \in traced

LEMMA LoggedStep == DecisionInv /\ LoggedOK /\ [Next]_vars => LoggedOK'
<1> SUFFICES ASSUME DecisionInv, LoggedOK, [Next]_vars PROVE LoggedOK'
  OBVIOUS
<1>1. /\ TypeOK /\ \A j \in Jobs : job[j].at = "decide" => outcome[j] = "none"
  BY DEF DecisionInv, TypeInd, TypeInv, JobsOK, JobOK
<1>2. ASSUME NEW j \in Jobs, Decide(j) PROVE LoggedOK'
  <2>1. PICK ok \in SUBSET Files :
          /\ Write(j, ok)
          /\ outcome' = [outcome EXCEPT ![j] =
                IF j \in Mail /\ ~Logged(j, ok) THEN "EXCEPTION"
                ELSE Decision(job[j], Kept(j, ok))]
    BY <1>2 DEF Decide
  <2>2. Kept(j, ok) \in BOOLEAN
    BY DEF Kept, Keeps, Storable
  <2>3. Decision(job[j], Kept(j, ok)) \in {"DELIVER", "DROP", "TEMPFAIL"}
    BY <2>2, DecisionFacts
  <2>4. j \notin traced \/ j \notin Mail
    BY <1>1, <2>1 DEF LoggedOK, Write
  <2>5. \A k \in Jobs \ {j} : outcome'[k] = outcome[k] /\ (k \in traced' <=> k \in traced)
    BY <1>1, <2>1 DEF Write, TypeOK
  <2>6. /\ j \in Mail => (j \in traced' <=> Logged(j, ok))
        /\ outcome'[j] = IF j \in Mail /\ ~Logged(j, ok) THEN "EXCEPTION"
                         ELSE Decision(job[j], Kept(j, ok))
    BY <1>1, <2>1, <2>4 DEF Write, TypeOK
  <2> QED BY <2>3, <2>5, <2>6 DEF LoggedOK, Jobs
<1>3. ASSUME NEW j \in Jobs, Disconnect(j) PROVE LoggedOK'
  BY <1>1, <1>3 DEF Disconnect, LoggedOK, TypeOK, Jobs
<1>4. CASE Restart
  <2> SUFFICES ASSUME NEW j \in Mail
               PROVE  /\ outcome'[j] \in {"none", "EXCEPTION"} => j \notin traced'
                      /\ outcome'[j] \in {"DELIVER", "DROP", "TEMPFAIL"} => j \in traced'
    BY DEF LoggedOK
  <2>1. CASE Running(j)
    BY <1>4, <2>1 DEF Restart, Jobs
  <2>2. CASE ~Running(j)
    <3>1. outcome'[j] = outcome[j] /\ (j \in traced' <=> j \in traced)
      BY <1>4, <2>2 DEF Restart, Running, Write, Jobs
    <3> QED BY <3>1 DEF LoggedOK
  <2> QED BY <2>1, <2>2
<1>5. ASSUME NEW t \in Tests, Resubmit(t) PROVE LoggedOK'
  BY <1>1, <1>5, JobsAssumption DEF Resubmit, LoggedOK, TypeOK, Jobs
<1>6. CASE outcome' = outcome /\ traced' = traced
  BY <1>6 DEF LoggedOK
<1> QED BY <1>2, <1>3, <1>4, <1>5, <1>6 DEF Next, vars, Step, Ask, Analyse, Arrive,
        PrePass, Score, AcquireSlot, AiAnswers, AiFails, SaveSettings

\* No message that an admin finds in quarantine was delivered or left with
\* postfix by a decision: it was dropped and logged, or its job ended before the
\* sender was told (analyzer.py:148-154, 409-424).
THEOREM HeldIsExplained == Spec => []HeldIsAccountedFor
<1>1. Init => LoggedOK
  BY DEF Init, LoggedOK, Jobs
<1>2. ASSUME DecisionInv, LoggedOK PROVE HeldIsAccountedFor
  <2>1. /\ held \subseteq Jobs /\ held \intersect Tests = {}
        /\ \A j \in held : outcome[j] \in {"DROP", "EXCEPTION", "ABORTED"}
    BY <1>2 DEF DecisionInv, TypeInd, TypeInv, TypeOK, JobsOK, JobOK, TestsLeaveNothing
  <2>2. held \subseteq Mail
    BY <2>1 DEF Jobs
  <2> QED BY <1>2, <2>1, <2>2 DEF HeldIsAccountedFor, LoggedOK
<1> QED BY <1>1, <1>2, LoggedStep, DecisionAlways, PTL DEF Spec

\* A sender-domain exemption that needs authentication had an answer of rspamd,
\* with a DMARC or SPF pass of a domain the rule names - or it is the one forgery
\* that ForgedSenderNotExempt finds: a MAIL FROM the rule names, beside a From:
\* header of another domain with a DMARC pass (analyzer.py:92-106,
\* overrides.py:82-84).
THEOREM ExemptionsHaveEvidence == Spec => []ExemptionNeedsEvidence
<1>1. ASSUME DecisionInv PROVE ExemptionNeedsEvidence
  <2> SUFFICES ASSUME NEW j \in Jobs, Exempted(j)
               PROVE  LET rule == job[j].cfg.whitelist_domains
                          pre  == job[j].pre
                      IN  /\ "rspamd" \in saw[j]
                          /\ \/ pre.dmarc /\ Header[j] \in rule
                             \/ pre.spf /\ Envelope[j] \in rule
                             \/ pre.dmarc /\ Envelope[j] \in rule /\ Header[j] \notin rule
    BY DEF ExemptionNeedsEvidence
  <2>1. JobOK(j, job[j], outcome[j], marks[j], saw[j], held)
    BY <1>1 DEF DecisionInv, JobsOK
  <2>2. /\ job[j].pre.ok /\ "rspamd" \in saw[j] /\ Matches(j, job[j])
        /\ job[j].pre.dmarc \/ (job[j].wl = "envelope" /\ job[j].pre.spf)
        /\ job[j].wl \in {"envelope", "header"}
    BY <2>1 DEF Exempted, JobOK, Vouched, Evident
  <2> QED BY <2>2 DEF Matches
<1> QED BY <1>1, DecisionAlways, PTL

\* Skipping the AI for a message rspamd rejects never changes its fate
\* (settings.py:41-45).
THEOREM BypassIsNeutral == Spec => []BypassNeutral
<1>1. ASSUME DecisionInv PROVE BypassNeutral
  <2> SUFFICES ASSUME NEW j \in Jobs, job[j].bypassed,
                      NEW v \in AiVerdicts \union {"ERROR"},
                      NEW sure \in BOOLEAN, NEW kept \in BOOLEAN
               PROVE  LET asked == [job[j] EXCEPT !.verdict = v, !.sure = sure,
                                                  !.ai_failed = (v = "ERROR")]
                      IN  /\ Decision(asked, kept) = Decision(job[j], kept)
                          /\ Keeps(asked) = Keeps(job[j])
    BY DEF BypassNeutral
  <2> DEFINE asked == [job[j] EXCEPT !.verdict = v, !.sure = sure,
                                     !.ai_failed = (v = "ERROR")]
  <2>1. RspamdDrop(job[j])
    BY <1>1 DEF DecisionInv, JobsOK, JobOK, RspamdDrop, Overridden
  <2>2. asked.rres = job[j].rres /\ asked.wl = job[j].wl
    BY <1>1 DEF DecisionInv, TypeInd, TypeInv, TypeOK, JobType
  <2>3. RspamdDrop(asked)
    BY <2>1, <2>2 DEF RspamdDrop
  <2> HIDE DEF asked
  <2>4. Decision(asked, kept) = "DROP" /\ Decision(job[j], kept) = "DROP"
        /\ Keeps(asked) = TRUE /\ Keeps(job[j]) = TRUE
    BY <2>1, <2>3 DEF Decision, Detected, Keeps
  <2> QED BY <2>4 DEF asked
<1> QED BY <1>1, DecisionAlways, PTL

-----------------------------------------------------------------------------
(* The pipeline implements Disposition *)

Found == {j \in Jobs : outcome[j] = "DROP" /\ Detected(job[j])}

\* A step that answers nobody is a stutter of Disposition.
LEMMA Unanswered ==
    ASSUME DecisionInv, outcome' = outcome, held' = held,
           \A k \in Jobs : outcome[k] # "none" => job'[k] = job[k]
    PROVE  UNCHANGED <<outcome, held, Found>>
BY DEF Found

LEMMA AnswerIsNext ==
    ASSUME NEW j \in Jobs, NEW result \in Promise!Results,
           NEW kept \in BOOLEAN, NEW found \in BOOLEAN,
           Promise!Answer(j, result, kept, found)
    PROVE  Promise!Next
BY DEF Promise!Next

LEMMA AnsweredStep ==
    ASSUME DecisionInv, NEW j \in Jobs, Decide(j)
    PROVE  Promise!Next
<1>1. TypeOK /\ job[j] \in JobType /\ JobOK(j, job[j], outcome[j], marks[j], saw[j], held)
  BY DEF DecisionInv, TypeInd, TypeInv, TypeOK, JobsOK
<1>2. job[j].at = "decide" /\ outcome[j] = "none"
  BY <1>1 DEF Decide, Write, JobOK
<1>3. PICK ok \in SUBSET Files :
        LET result == IF j \in Mail /\ ~Logged(j, ok) THEN "EXCEPTION"
                      ELSE Decision(job[j], Kept(j, ok))
        IN  /\ job' = [job EXCEPT ![j].at = "done"]
            /\ held' = IF Kept(j, ok) THEN held \union {j} ELSE held
            /\ outcome' = [outcome EXCEPT ![j] = result]
  BY DEF Decide, Write
<1> DEFINE saved == Kept(j, ok)
           failed == j \in Mail /\ ~Logged(j, ok)
<1>4. PICK kept \in BOOLEAN : (kept <=> saved) /\ (kept => Keeps(job[j]))
  BY DEF Kept
<1> DEFINE result == IF failed THEN "EXCEPTION" ELSE Decision(job[j], kept)
<1>5. Decision(job[j], saved) = Decision(job[j], kept)
  BY <1>4 DEF Decision
<1>6. /\ held' = IF kept THEN held \union {j} ELSE held
      /\ outcome' = [outcome EXCEPT ![j] = result]
  BY <1>3, <1>4, <1>5
<1>7. /\ job'[j] = [job[j] EXCEPT !.at = "done"]
      /\ \A k \in Jobs \ {j} : job'[k] = job[k]
  BY <1>1, <1>3 DEF TypeOK
<1>8. /\ result \in Promise!Results
      /\ result = "DROP" => kept \/ Detected(job[j])
      /\ kept => result \in {"DROP", "EXCEPTION"}
  <2> HIDE DEF failed
  <2>1. CASE failed
    BY <2>1 DEF Promise!Results
  <2>2. CASE ~failed
    BY <1>4, <2>2, DecisionFacts DEF Promise!Results
  <2> QED BY <2>1, <2>2
<1> HIDE DEF saved, failed, result
<1>9. PICK found \in BOOLEAN : found <=> (result = "DROP" /\ Detected(job[j]))
  OBVIOUS
<1>10. Promise!Consistent(result, kept, found)
  BY <1>8, <1>9 DEF Promise!Consistent
<1>11. Found' = IF found THEN Found \union {j} ELSE Found
  <2>1. Detected(job'[j]) = Detected(job[j])
    BY <1>1, <1>7, AtDecides
  <2>2. outcome'[j] = result /\ \A k \in Jobs \ {j} : outcome'[k] = outcome[k]
    BY <1>1, <1>6 DEF TypeOK
  <2>3. j \notin Found
    BY <1>2 DEF Found
  <2>4. j \in Found' <=> found
    BY <1>9, <2>1, <2>2 DEF Found
  <2>5. \A k \in Jobs \ {j} : k \in Found' <=> k \in Found
    BY <1>7, <2>2 DEF Found
  <2>6. Found \subseteq Jobs /\ Found' \subseteq Jobs
    BY DEF Found
  <2> QED BY <2>3, <2>4, <2>5, <2>6
<1>12. Promise!Answer(j, result, kept, found)
  BY <1>2, <1>6, <1>10, <1>11 DEF Promise!Answer, Found
<1> QED BY <1>8, <1>12, AnswerIsNext

LEMMA AbortedStep ==
    ASSUME DecisionInv, Restart \/ \E j \in Jobs : Disconnect(j)
    PROVE  Promise!Next
<1> DEFINE S == {j \in Jobs : outcome[j] = "none" /\ outcome'[j] = "ABORTED"}
<1>1. /\ TypeOK
      /\ \A k \in Jobs : JobOK(k, job[k], outcome[k], marks[k], saw[k], held)
  BY DEF DecisionInv, TypeInd, TypeInv, JobsOK
<1>2. \A k \in Jobs : job[k].at # "done" => outcome[k] = "none"
  BY <1>1 DEF JobOK
<1>0. PICK K \in Promise!Left(S) : held' = held \union K
  <2>1. CASE held' = held
    BY <2>1 DEF Promise!Left
  <2>2. ASSUME NEW j \in Jobs, NEW ok, Restart, Write(j, ok)
        PROVE  \E K \in Promise!Left(S) : held' = held \union K
    <3>1. j \in S
      BY <1>1, <1>2, <2>2 DEF Restart, Running, Write
    <3>2. {} \in Promise!Left(S) /\ {j} \in Promise!Left(S)
      BY <3>1 DEF Promise!Left
    <3>3. held' = held \union {} \/ held' = held \union {j}
      BY <2>2 DEF Write
    <3> QED BY <3>2, <3>3
  <2> QED BY <2>1, <2>2 DEF Restart, Disconnect
<1>3. /\ S # {}
      /\ outcome' = [k \in Jobs |-> IF k \in S THEN "ABORTED" ELSE outcome[k]]
      /\ \A k \in Jobs \ S : job'[k] = job[k]
  <2>1. CASE Restart
    BY <1>1, <1>2, <2>1 DEF Restart, Running, TypeOK
  <2>2. ASSUME NEW j \in Jobs, Disconnect(j)
        PROVE  <1>3
    <3>1. j \in S /\ \A k \in Jobs \ {j} : outcome'[k] = outcome[k] /\ job'[k] = job[k]
      BY <1>1, <1>2, <2>2 DEF Disconnect, Awaiting, TypeOK
    <3>2. outcome' = [k \in Jobs |-> IF k \in S THEN "ABORTED" ELSE outcome[k]]
      <4>1. \A k \in Jobs : outcome'[k] = IF k \in S THEN "ABORTED" ELSE outcome[k]
        BY <3>1
      <4> QED BY <1>1, <2>2, <4>1 DEF Disconnect, TypeOK
    <3> QED BY <2>2, <3>1, <3>2 DEF Disconnect
  <2> QED BY <2>1, <2>2
<1>4. Found' = Found
  <2>1. \A k \in S : k \notin Found /\ k \notin Found'
    BY <1>1, <1>3 DEF Found
  <2>2. \A k \in Jobs \ S : k \in Found' <=> k \in Found
    BY <1>1, <1>3 DEF Found
  <2>3. Found \subseteq Jobs /\ Found' \subseteq Jobs
    BY DEF Found
  <2> QED BY <2>1, <2>2, <2>3
<1>5. S \in SUBSET Jobs /\ \A k \in S : outcome[k] = "none"
  OBVIOUS
<1> HIDE DEF S
<1>6. Promise!Abort(S, K)
  BY <1>0, <1>3, <1>4, <1>5 DEF Promise!Abort, Found
<1> QED BY <1>5, <1>6 DEF Promise!Next

LEMMA ForgottenStep ==
    ASSUME DecisionInv, NEW t \in Tests, Resubmit(t)
    PROVE  Promise!Next
<1>1. TypeOK /\ held \intersect Tests = {} /\ t \in Jobs
  BY DEF DecisionInv, TypeInd, TypeInv, TestsLeaveNothing, Jobs
<1>2. /\ outcome' = [outcome EXCEPT ![t] = "none"] /\ held' = held
      /\ \A k \in Jobs \ {t} : job'[k] = job[k]
  BY <1>1 DEF Resubmit, TypeOK
<1>3. Found' = Found \ {t}
  <2>1. outcome'[t] = "none" /\ \A k \in Jobs \ {t} : outcome'[k] = outcome[k]
    BY <1>1, <1>2 DEF TypeOK
  <2> QED BY <1>2, <2>1 DEF Found
<1>4. Promise!Forget(t)
  BY <1>1, <1>2, <1>3 DEF Promise!Forget, Found
<1> QED BY <1>4 DEF Promise!Next

LEMMA PromiseStep ==
    ASSUME DecisionInv, [Next]_vars
    PROVE  Promise!Next \/ UNCHANGED <<outcome, held, Found>>
<1>1. /\ TypeOK
      /\ \A k \in Jobs : JobOK(k, job[k], outcome[k], marks[k], saw[k], held)
  BY DEF DecisionInv, TypeInd, TypeInv, JobsOK
<1>2. ASSUME NEW j \in Jobs, Arrive(j) \/ Ask(j) \/ Analyse(j)
      PROVE  UNCHANGED <<outcome, held, Found>>
  <2>1. job[j].at # "done" /\ \A k \in Jobs \ {j} : job'[k] = job[k]
    BY <1>1, <1>2 DEF Arrive, Ask, PrePass, Score, Analyse, AcquireSlot, NextWaiter,
                      AiAnswers, AiFails, TypeOK
  <2>2. outcome' = outcome /\ held' = held
    BY <1>2 DEF Arrive, Ask, PrePass, Score, Analyse, AcquireSlot, AiAnswers, AiFails
  <2>3. outcome[j] = "none"
    BY <1>1, <2>1 DEF JobOK
  <2> QED BY <2>1, <2>2, <2>3, Unanswered
<1>3. ASSUME UNCHANGED vars \/ \E cfg \in Edits : SaveSettings(cfg)
      PROVE  UNCHANGED <<outcome, held, Found>>
  BY <1>3, Unanswered DEF vars, SaveSettings
<1> QED BY <1>2, <1>3, AnsweredStep, AbortedStep, ForgottenStep DEF Next, Step

\* The pipeline keeps its promise: every step of it is one answer, one
\* cancellation, one reuse of the test page, or nothing, as its callers see it.
THEOREM PipelineKeepsPromise == Spec => KeepsPromise
<1>1. Init => Promise!Init
  BY DEF Init, Promise!Init
<1>2. DecisionInv /\ [Next]_vars =>
        [Promise!Next]_<<outcome, held, {j \in Jobs : outcome[j] = "DROP" /\ Detected(job[j])}>>
  BY PromiseStep DEF Found
<1> QED BY <1>1, <1>2, DecisionAlways, PTL DEF Spec, KeepsPromise, Promise!Spec

-----------------------------------------------------------------------------
(* How far the documentation is wrong *)

\* A total outage under which all_down is not consulted.
AllDownMissed(j) ==
    Delivered(j) /\ job[j].wl = "none" /\ saw[j] = {}
    /\ PolicyKey(job[j].cfg, "all_down") # "deliver_tagged"

\* It takes a blocklisted message and an AI that is enabled, and every control
\* that rspamd stands for is allowed to be missing.
MissedOnlyIfBlocklisted ==
    \A j \in Jobs : AllDownMissed(j) =>
        /\ job[j].bl /\ job[j].cfg.enabled
        /\ \A c \in {"rspamd", "antivirus"} : PolicyKey(job[j].cfg, c) = "deliver_tagged"

\* The only exception to NothingInspectedMeansAllDown (analyzer.py:161-177): for
\* any other message the documentation of all_down holds.
THEOREM OutageMissedForBlocklisted == Spec => []MissedOnlyIfBlocklisted
<1>1. ASSUME DecisionInv PROVE MissedOnlyIfBlocklisted
  <2> SUFFICES ASSUME NEW j \in Jobs, AllDownMissed(j)
               PROVE  /\ job[j].bl /\ job[j].cfg.enabled
                      /\ \A c \in {"rspamd", "antivirus"} :
                            PolicyKey(job[j].cfg, c) = "deliver_tagged"
    BY DEF MissedOnlyIfBlocklisted
  <2>1. {"rspamd", "antivirus"} \subseteq Failed(job[j])
    BY <1>1, DueCovered DEF AllDownMissed, Due, Enabled
  <2>2. /\ \A c \in Failed(job[j]) : PolicyKey(job[j].cfg, c) = "deliver_tagged"
        /\ ~(Enabled(job[j].cfg) \subseteq Failed(job[j]))
    BY <1>1, <2>1, DueCovered, FailedPolicy DEF AllDownMissed
  <2>3. job[j].cfg.enabled
    BY <2>1, <2>2 DEF Enabled
  <2>4. Overridden(job[j])
    <3> SUFFICES ASSUME ~Overridden(job[j]) PROVE FALSE
      OBVIOUS
    <3>1. Enabled(job[j].cfg) \subseteq Failed(job[j])
      BY <1>1, DueCovered DEF AllDownMissed, Due
    <3> QED
      BY <2>2, <3>1
  <2> QED
    BY <2>1, <2>2, <2>3, <2>4 DEF Overridden, AllDownMissed
<1> QED
  BY <1>1, DecisionAlways, PTL
=============================================================================
