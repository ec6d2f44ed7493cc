--------------------------- MODULE GatewayProofs ---------------------------
(***************************************************************************)
(* Proofs about Gateway, for every number of messages, recipients,         *)
(* attempts, sessions and threads: that it implements Custody, and the     *)
(* two invariants of its attempts.                                         *)
(***************************************************************************)
EXTENDS Gateway, Integers, FiniteSetTheorems, TLAPS

-----------------------------------------------------------------------------
(* The inductive invariant: facts about each message, each attempt, and the *)
(* attempt whose handler is about to answer.                               *)

\* A message has a session only while it is queued, for its latest attempt.
MessageOK(m) ==
    /\ handler[m] # "none" => queue[m] = "queued" /\ attempt[m] > 0
    /\ attempt[m] > 0 => queue[m] # "new"
    /\ handler[m] = "process" => outcome[Now(m)] = "none"
    /\ handler[m] = "reinject" => outcome[Now(m)] = "DELIVER"
    /\ handler[m] \in {"250", "451"} => outcome[Now(m)] # "none"

\* An attempt that has not begun has left nothing; one that has was re-injected
\* only if the pipeline decided to deliver.
AttemptOK(a) ==
    /\ a[2] > attempt[a[1]] => outcome[a] = "none"
    /\ outcome[a] = "none" => /\ thread[a] = "none" /\ read[a] = "none"
                              /\ a \notin held \union detected
    /\ thread[a] # "none" => outcome[a] = "DELIVER"
    /\ thread[a] = "ok" => got[a] # {}
    /\ got[a] # {} => thread[a] \in {"ok", "failed"}
    /\ outcome[a] = "DELIVER" => a \notin held \union detected

\* Something has become of a message, at postfix or in the gateway.
Effective(m) ==
    \E a \in AttemptsOf(m) : got[a] # {} \/ a \in held \/ a \in detected

\* What an answer of 451 stands for.
NoEffect(a) ==
    /\ outcome[a] # "none"
    /\ thread[a] \in {"none", "failed"}
    /\ a \in held => outcome[a] = "EXCEPTION"
    /\ a \notin detected

AnswersOK ==
    /\ \A m \in Mail : handler[m] = "250" => Effective(m)
    /\ \A m \in Mail : handler[m] = "451" => NoEffect(Now(m))
    /\ \A a \in Attempts : read[a] = "451" => NoEffect(a)

GatewayInv ==
    /\ TypeOK
    /\ \A m \in Mail : MessageOK(m)
    /\ \A a \in Attempts : AttemptOK(a)
    /\ AnswersOK

-----------------------------------------------------------------------------
(* Attempts *)

LEMMA AttemptsFacts ==
    ASSUME NEW m \in Mail
    PROVE  /\ \A n \in 1..MaxAttempts[m] : <<m, n>> \in Attempts /\ <<m, n>> \in AttemptsOf(m)
           /\ AttemptsOf(m) \subseteq Attempts
           /\ \A a \in AttemptsOf(m) : a[1] = m
BY DEF Attempts, AttemptsOf

LEMMA AttemptOfMail ==
    ASSUME NEW a \in Attempts
    PROVE  /\ a[1] \in Mail /\ a[2] \in 1..MaxAttempts[a[1]]
           /\ a \in AttemptsOf(a[1]) /\ a = <<a[1], a[2]>>
BY DEF Attempts, AttemptsOf

\* The attempt of a session is one of its message's, and of no other's.
LEMMA NowFacts ==
    ASSUME TypeOK, NEW m \in Mail, attempt[m] > 0
    PROVE  /\ Now(m) \in Attempts /\ Now(m) \in AttemptsOf(m)
           /\ Now(m)[1] = m /\ Now(m)[2] = attempt[m]
           /\ \A k \in Mail : Now(k) = Now(m) => k = m
<1>1. attempt[m] \in 1..MaxAttempts[m]
  BY GatewayAssumption DEF TypeOK
<1> QED BY <1>1, AttemptsFacts DEF Now

LEMMA GatewayInit == Init => GatewayInv
<1> SUFFICES ASSUME Init PROVE GatewayInv
  OBVIOUS
<1>1. TypeOK
  BY GatewayAssumption DEF Init, TypeOK, Pipeline!Init, Threads
<1>2. \A m \in Mail : MessageOK(m)
  BY DEF Init, MessageOK
<1>3. \A a \in Attempts : AttemptOK(a)
  BY DEF Init, AttemptOK, Pipeline!Init
<1>4. AnswersOK
  BY DEF Init, AnswersOK
<1> QED BY <1>1, <1>2, <1>3, <1>4 DEF GatewayInv

-----------------------------------------------------------------------------
(* Every step preserves the invariant: the type first *)

LEMMA AnswerType ==
    ASSUME TypeOK, NEW a \in Attempts, NEW result \in Pipeline!Results,
           NEW kept \in BOOLEAN, NEW found \in BOOLEAN,
           Pipeline!Answer(a, result, kept, found)
    PROVE  /\ outcome' \in [Attempts -> Pipeline!Results \union {"none", "ABORTED"}]
           /\ held' \subseteq Attempts
           /\ detected' \subseteq Attempts
BY DEF TypeOK, Pipeline!Answer

LEMMA AbortType ==
    ASSUME TypeOK, NEW S \in SUBSET Attempts, NEW K, Pipeline!Abort(S, K)
    PROVE  /\ outcome' \in [Attempts -> Pipeline!Results \union {"none", "ABORTED"}]
           /\ held' \subseteq Attempts
           /\ detected' \subseteq Attempts
BY DEF TypeOK, Pipeline!Abort, Pipeline!Left

LEMMA TypeStep == GatewayInv /\ [Next]_vars => TypeOK'
<1> SUFFICES ASSUME GatewayInv, [Next]_vars PROVE TypeOK'
  OBVIOUS
<1>t. TypeOK
  BY DEF GatewayInv
<1>1. ASSUME NEW m \in Mail, Accept(m) PROVE TypeOK'
  BY <1>t, <1>1 DEF TypeOK, Accept, pipelineVars
<1>2. ASSUME NEW m \in Mail, Connect(m) PROVE TypeOK'
  <2>1. MaxAttempts[m] \in Nat /\ attempt[m] \in Nat /\ attempt[m] < MaxAttempts[m]
    BY <1>t, <1>2, GatewayAssumption DEF TypeOK, Connect
  <2>2. attempt' = [attempt EXCEPT ![m] = attempt[m] + 1]
    BY <1>2 DEF Connect
  <2>3. attempt' \in [Mail -> Nat] /\ \A k \in Mail : attempt'[k] <= MaxAttempts[k]
    BY <1>t, <2>1, <2>2 DEF TypeOK
  <2> QED BY <1>t, <1>2, <2>3 DEF TypeOK, Connect, pipelineVars
<1>3. ASSUME NEW m \in Mail, Processed(m) PROVE TypeOK'
  <2> PICK result \in Pipeline!Results, kept \in BOOLEAN, found \in BOOLEAN :
          /\ handler[m] = "process"
          /\ Pipeline!Answer(Now(m), result, kept, found)
          /\ handler' = [handler EXCEPT ![m] =
                            IF HandsOver(result) THEN "reinject" ELSE ReplyTo(result)]
          /\ thread' = IF HandsOver(result)
                       THEN [thread EXCEPT ![Now(m)] = "waiting"] ELSE thread
          /\ UNCHANGED <<queue, attempt, read, got>>
    BY <1>3 DEF Processed
  <2>1. Now(m) \in Attempts
    BY <1>t, NowFacts DEF GatewayInv, MessageOK
  <2>2. handler' \in [Mail -> {"none", "process", "reinject", "250", "451"}]
    BY <1>t DEF TypeOK, ReplyTo
  <2>3. thread' \in [Attempts -> Threads]
    BY <1>t DEF TypeOK, Threads
  <2>4. /\ outcome' \in [Attempts -> Pipeline!Results \union {"none", "ABORTED"}]
        /\ held' \subseteq Attempts
        /\ detected' \subseteq Attempts
    BY <1>t, <2>1, AnswerType
  <2> QED BY <1>t, <2>2, <2>3, <2>4 DEF TypeOK
<1>4. ASSUME NEW m \in Mail, Resume(m) PROVE TypeOK'
  BY <1>t, <1>4 DEF TypeOK, Resume, AnswerFor, pipelineVars
<1>5. ASSUME NEW m \in Mail, ReadAnswer(m) PROVE TypeOK'
  BY <1>t, <1>5 DEF TypeOK, ReadAnswer, pipelineVars
<1>6. ASSUME NEW m \in Mail, Expire(m) PROVE TypeOK'
  BY <1>t, <1>6 DEF TypeOK, Expire, pipelineVars
<1>7. ASSUME NEW m \in Mail, Break(m) PROVE TypeOK'
  <2>1. handler' \in [Mail -> {"none", "process", "reinject", "250", "451"}]
    BY <1>t, <1>7 DEF TypeOK, Break
  <2>2. thread' \in [Attempts -> Threads]
    BY <1>t, <1>7 DEF TypeOK, Break, Withdrawn, Threads
  <2>3. /\ outcome' \in [Attempts -> Pipeline!Results \union {"none", "ABORTED"}]
        /\ held' \subseteq Attempts
        /\ detected' \subseteq Attempts
    <3>1. CASE handler[m] = "process"
      <4>1. {Now(m)} \in SUBSET Attempts
        BY <1>t, <3>1, NowFacts DEF GatewayInv, MessageOK
      <4> QED BY <1>t, <1>7, <3>1, <4>1, AbortType DEF Break
    <3>2. CASE handler[m] # "process"
      BY <1>t, <1>7, <3>2 DEF Break, TypeOK, pipelineVars
    <3> QED BY <3>1, <3>2
  <2>4. UNCHANGED <<queue, attempt, read, got>>
    BY <1>7 DEF Break
  <2> QED BY <1>t, <2>1, <2>2, <2>3, <2>4 DEF TypeOK
<1>8. ASSUME NEW a \in Attempts, StartThread(a) PROVE TypeOK'
  BY <1>t, <1>8 DEF TypeOK, StartThread, Threads, pipelineVars
<1>9. ASSUME NEW a \in Attempts, Reinject(a) PROVE TypeOK'
  <2> PICK R \in SUBSET Rcpts[a[1]], lost \in BOOLEAN :
          /\ thread[a] = "running"
          /\ got' = [got EXCEPT ![a] = R]
          /\ thread' = [thread EXCEPT ![a] = IF Raises(R, lost) THEN "failed" ELSE "ok"]
          /\ UNCHANGED <<queue, attempt, read, handler, pipelineVars>>
    BY <1>9 DEF Reinject
  <2>1. R \in SUBSET UNION {Rcpts[m] : m \in Mail}
    BY AttemptOfMail
  <2>2. got' \in [Attempts -> SUBSET UNION {Rcpts[m] : m \in Mail}]
    BY <1>t, <2>1 DEF TypeOK
  <2>3. thread' \in [Attempts -> Threads]
    BY <1>t DEF TypeOK, Threads
  <2> QED BY <1>t, <2>2, <2>3 DEF TypeOK, pipelineVars
<1>10. ASSUME Crash PROVE TypeOK'
  <2>1. handler' \in [Mail -> {"none", "process", "reinject", "250", "451"}]
    BY <1>10 DEF Crash
  <2>2. thread' \in [Attempts -> Threads]
    BY <1>t, <1>10 DEF Crash, TypeOK, Threads
  <2>3. /\ outcome' \in [Attempts -> Pipeline!Results \union {"none", "ABORTED"}]
        /\ held' \subseteq Attempts
        /\ detected' \subseteq Attempts
    <3>1. CASE \E m \in Mail : handler[m] = "process"
      <4> DEFINE S == {Now(m) : m \in {k \in Mail : handler[k] = "process"}}
      <4>1. \A m \in Mail : handler[m] = "process" => Now(m) \in Attempts
        BY <1>t, NowFacts DEF GatewayInv, MessageOK
      <4>2. S \in SUBSET Attempts
        BY <4>1
      <4>3. PICK K \in Pipeline!Left(S) : Pipeline!Abort(S, K)
        BY <1>10, <3>1 DEF Crash
      <4> QED BY <1>t, <4>2, <4>3, AbortType
    <3>2. CASE ~\E m \in Mail : handler[m] = "process"
      BY <1>t, <1>10, <3>2 DEF Crash, TypeOK, pipelineVars
    <3> QED BY <3>1, <3>2
  <2>4. UNCHANGED <<queue, attempt, read, got>>
    BY <1>10 DEF Crash
  <2> QED BY <1>t, <2>1, <2>2, <2>3, <2>4 DEF TypeOK
<1>11. CASE UNCHANGED vars
  BY <1>t, <1>11 DEF TypeOK, vars
<1> QED
  BY <1>1, <1>2, <1>3, <1>4, <1>5, <1>6, <1>7, <1>8, <1>9, <1>10, <1>11
     DEF Next, Deliver

-----------------------------------------------------------------------------
(* What the steps of the pipeline change *)

LEMMA AnswerFrame ==
    ASSUME TypeOK, NEW a \in Attempts, NEW result \in Pipeline!Results,
           NEW kept \in BOOLEAN, NEW found \in BOOLEAN,
           Pipeline!Answer(a, result, kept, found)
    PROVE  /\ outcome[a] = "none" /\ outcome'[a] = result
           /\ \A b \in Attempts : b # a => outcome'[b] = outcome[b]
           /\ held' = held \/ held' = held \union {a}
           /\ detected' = detected \/ detected' = detected \union {a}
           /\ a \in held' => a \in held \/ result \in {"DROP", "EXCEPTION"}
           /\ a \in detected' => a \in detected \/ result = "DROP"
           /\ result = "DROP" => a \in held' \/ a \in detected'
BY DEF TypeOK, Pipeline!Answer, Pipeline!Consistent

LEMMA AbortFrame ==
    ASSUME NEW S, NEW K, Pipeline!Abort(S, K)
    PROVE  /\ \A a \in S : outcome[a] = "none"
           /\ \A a \in Attempts : outcome'[a] = IF a \in S THEN "ABORTED" ELSE outcome[a]
           /\ held' = held \union K /\ K \in Pipeline!Left(S)
           /\ UNCHANGED detected
BY DEF Pipeline!Abort

\* The jobs of the pipeline that a crash ends.
InPipeline == {Now(m) : m \in {k \in Mail : handler[k] = "process"}}

LEMMA CrashFrame ==
    ASSUME Crash
    PROVE  /\ \A m \in Mail : handler'[m] = "none"
           /\ \A a \in Attempts : thread'[a] =
                 IF thread[a] \in {"waiting", "running"} THEN "none" ELSE thread[a]
           /\ \A a \in InPipeline : outcome[a] = "none"
           /\ \A a \in Attempts :
                 outcome'[a] = IF a \in InPipeline THEN "ABORTED" ELSE outcome[a]
           /\ held' = held \/ \E a \in InPipeline : held' = held \union {a}
           /\ UNCHANGED <<queue, attempt, read, got, detected>>
<1>1. CASE \E m \in Mail : handler[m] = "process"
  <2>1. PICK K \in Pipeline!Left(InPipeline) : Pipeline!Abort(InPipeline, K)
    BY <1>1 DEF Crash, InPipeline
  <2>2. held' = held \/ \E a \in InPipeline : held' = held \union {a}
    BY <2>1, AbortFrame DEF Pipeline!Left
  <2>3. /\ \A a \in InPipeline : outcome[a] = "none"
        /\ \A a \in Attempts :
              outcome'[a] = IF a \in InPipeline THEN "ABORTED" ELSE outcome[a]
        /\ UNCHANGED detected
    BY <2>1, AbortFrame
  <2> QED BY <2>2, <2>3 DEF Crash
<1>2. CASE ~\E m \in Mail : handler[m] = "process"
  BY <1>2 DEF Crash, InPipeline, pipelineVars
<1> QED BY <1>1, <1>2 DEF Crash

LEMMA BreakFrame ==
    ASSUME TypeOK, NEW m \in Mail, Break(m)
    PROVE  /\ handler[m] # "none"
           /\ handler' = [handler EXCEPT ![m] = "none"]
           /\ thread' = [thread EXCEPT ![Now(m)] = Withdrawn(@)]
           /\ handler[m] = "process" => outcome[Now(m)] = "none"
           /\ \A a \in Attempts :
                 outcome'[a] = IF a = Now(m) /\ handler[m] = "process"
                               THEN "ABORTED" ELSE outcome[a]
           /\ UNCHANGED <<queue, attempt, read, got, held, detected>>
<1>1. CASE handler[m] = "process"
  <2>1. Pipeline!Abort({Now(m)}, {})
    BY <1>1 DEF Break
  <2>2. /\ \A a \in {Now(m)} : outcome[a] = "none"
        /\ \A a \in Attempts :
              outcome'[a] = IF a \in {Now(m)} THEN "ABORTED" ELSE outcome[a]
        /\ held' = held \union {} /\ UNCHANGED detected
    BY <2>1, AbortFrame
  <2>3. held' = held
    BY <2>2
  <2> QED BY <1>1, <2>2, <2>3 DEF Break
<1>2. CASE handler[m] # "process"
  BY <1>2 DEF Break, pipelineVars
<1> QED BY <1>1, <1>2 DEF Break

-----------------------------------------------------------------------------
(* Messages: a step changes one of them, a crash ends every session *)

\* A message whose fields and whose session's outcome do not change stays good.
LEMMA MessageFrame ==
    ASSUME NEW m \in Mail, MessageOK(m),
           handler'[m] = handler[m], queue'[m] = queue[m], attempt'[m] = attempt[m],
           handler[m] # "none" => outcome'[Now(m)] = outcome[Now(m)]
    PROVE  MessageOK(m)'
BY DEF MessageOK, Now

LEMMA MessageStep == GatewayInv /\ [Next]_vars => \A m \in Mail : MessageOK(m)'
<1> SUFFICES ASSUME GatewayInv, [Next]_vars, NEW k \in Mail PROVE MessageOK(k)'
  OBVIOUS
<1>t. /\ TypeOK /\ MessageOK(k)
      /\ \A m \in Mail : MessageOK(m)
  BY DEF GatewayInv
<1>1. ASSUME NEW m \in Mail, Accept(m) PROVE MessageOK(k)'
  BY <1>t, <1>1 DEF TypeOK, Accept, pipelineVars, MessageOK, Now
<1>2. ASSUME NEW m \in Mail, Connect(m) PROVE MessageOK(k)'
  <2>1. CASE k = m
    <3>1. /\ handler'[m] = "process" /\ queue'[m] = "queued"
          /\ attempt'[m] = attempt[m] + 1 /\ outcome' = outcome
      BY <1>t, <1>2 DEF TypeOK, Connect, pipelineVars
    <3>2. attempt[m] \in Nat /\ attempt[m] + 1 \in 1..MaxAttempts[m]
      <4>1. MaxAttempts[m] \in Nat /\ attempt[m] \in Nat /\ attempt[m] < MaxAttempts[m]
        BY <1>t, <1>2, GatewayAssumption DEF TypeOK, Connect
      <4> QED BY <4>1
    <3>3. outcome[<<m, attempt[m] + 1>>] = "none"
      <4>1. <<m, attempt[m] + 1>> \in Attempts
        BY <3>2, AttemptsFacts
      <4> QED BY <3>2, <4>1 DEF GatewayInv, AttemptOK
    <3> QED BY <2>1, <3>1, <3>2, <3>3 DEF MessageOK, Now
  <2>2. CASE k # m
    BY <1>t, <1>2, <2>2, MessageFrame DEF TypeOK, Connect, pipelineVars
  <2> QED BY <2>1, <2>2
<1>3. ASSUME NEW m \in Mail, Processed(m) PROVE MessageOK(k)'
  <2> PICK result \in Pipeline!Results, kept \in BOOLEAN, found \in BOOLEAN :
          /\ handler[m] = "process"
          /\ Pipeline!Answer(Now(m), result, kept, found)
          /\ handler' = [handler EXCEPT ![m] =
                            IF HandsOver(result) THEN "reinject" ELSE ReplyTo(result)]
          /\ UNCHANGED <<queue, attempt, read, got>>
    BY <1>3 DEF Processed
  <2>1. /\ attempt[m] > 0 /\ queue[m] = "queued" /\ Now(m) \in Attempts
        /\ \A j \in Mail : Now(j) = Now(m) => j = m
    BY <1>t, NowFacts DEF MessageOK
  <2>2. /\ outcome'[Now(m)] = result
        /\ \A b \in Attempts : b # Now(m) => outcome'[b] = outcome[b]
    BY <1>t, <2>1, AnswerFrame
  <2>3. CASE k = m
    <3>1. (handler'[m] = "reinject" /\ result = "DELIVER") \/ handler'[m] \in {"250", "451"}
      BY <1>t DEF TypeOK, HandsOver, ReplyTo
    <3>2. result # "none"
      BY DEF Pipeline!Results
    <3> QED BY <2>1, <2>2, <2>3, <3>1, <3>2 DEF MessageOK, Now
  <2>4. CASE k # m
    <3>1. handler[k] # "none" => Now(k) \in Attempts
      BY <1>t, NowFacts DEF MessageOK
    <3> QED BY <1>t, <2>1, <2>2, <2>4, <3>1, MessageFrame DEF TypeOK
  <2> QED BY <2>3, <2>4
<1>4. ASSUME NEW m \in Mail, Resume(m) PROVE MessageOK(k)'
  BY <1>t, <1>4 DEF TypeOK, Resume, AnswerFor, pipelineVars, MessageOK, Now
<1>5. ASSUME NEW m \in Mail, ReadAnswer(m) PROVE MessageOK(k)'
  BY <1>t, <1>5 DEF TypeOK, ReadAnswer, pipelineVars, MessageOK, Now
<1>6. ASSUME NEW m \in Mail, Expire(m) PROVE MessageOK(k)'
  BY <1>t, <1>6 DEF TypeOK, Expire, pipelineVars, MessageOK, Now
<1>7. ASSUME NEW m \in Mail, Break(m) PROVE MessageOK(k)'
  <2>1. CASE k = m
    BY <1>t, <1>7, <2>1, BreakFrame DEF TypeOK, MessageOK
  <2>2. CASE k # m
    <3>1. handler[k] # "none" => Now(k) \in Attempts
      BY <1>t, NowFacts DEF MessageOK
    <3>2. attempt[m] > 0
      BY <1>t, <1>7, BreakFrame DEF MessageOK
    <3>3. Now(k) # Now(m)
      BY <1>t, <2>2, <3>2, NowFacts
    <3>4. handler'[k] = handler[k]
      BY <1>t, <1>7, <2>2, BreakFrame DEF TypeOK
    <3>5. handler[k] # "none" => outcome'[Now(k)] = outcome[Now(k)]
      BY <1>t, <1>7, <3>1, <3>3, BreakFrame
    <3> QED BY <1>t, <1>7, <3>4, <3>5, BreakFrame, MessageFrame
  <2> QED BY <2>1, <2>2
<1>8. ASSUME NEW a \in Attempts, StartThread(a) PROVE MessageOK(k)'
  BY <1>t, <1>8, MessageFrame DEF StartThread, pipelineVars
<1>9. ASSUME NEW a \in Attempts, Reinject(a) PROVE MessageOK(k)'
  BY <1>t, <1>9, MessageFrame DEF Reinject, pipelineVars
<1>10. ASSUME Crash PROVE MessageOK(k)'
  BY <1>t, <1>10, CrashFrame DEF MessageOK
<1>11. CASE UNCHANGED vars
  BY <1>t, <1>11, MessageFrame DEF vars
<1> QED
  BY <1>1, <1>2, <1>3, <1>4, <1>5, <1>6, <1>7, <1>8, <1>9, <1>10, <1>11
     DEF Next, Deliver

-----------------------------------------------------------------------------
(* Attempts *)

\* An attempt that has begun and whose fields do not change stays good.
LEMMA AttemptFrame ==
    ASSUME NEW a \in Attempts, AttemptOK(a),
           UNCHANGED <<outcome[a], thread[a], read[a], got[a]>>,
           a \in held <=> a \in held', a \in detected <=> a \in detected',
           attempt[a[1]] <= attempt'[a[1]],
           attempt[a[1]] \in Nat, attempt'[a[1]] \in Nat
    PROVE  AttemptOK(a)'
<1>1. a[2] \in Nat
  BY AttemptOfMail, GatewayAssumption
<1> QED BY <1>1 DEF AttemptOK

LEMMA AttemptStep == GatewayInv /\ [Next]_vars => \A a \in Attempts : AttemptOK(a)'
<1> SUFFICES ASSUME GatewayInv, [Next]_vars, NEW b \in Attempts PROVE AttemptOK(b)'
  OBVIOUS
<1>t. /\ TypeOK /\ AttemptOK(b) /\ TypeOK'
      /\ \A m \in Mail : MessageOK(m)
  BY TypeStep DEF GatewayInv
<1>n. b[1] \in Mail /\ attempt[b[1]] \in Nat /\ attempt'[b[1]] \in Nat
  BY <1>t, AttemptOfMail DEF TypeOK
<1>1. ASSUME NEW m \in Mail, Accept(m) PROVE AttemptOK(b)'
  BY <1>t, <1>n, <1>1, AttemptFrame DEF Accept, pipelineVars
<1>2. ASSUME NEW m \in Mail, Connect(m) PROVE AttemptOK(b)'
  <2>1. attempt[b[1]] <= attempt'[b[1]]
    BY <1>t, <1>n, <1>2 DEF Connect, TypeOK
  <2> QED BY <1>t, <1>n, <1>2, <2>1, AttemptFrame DEF Connect, pipelineVars
<1>3. ASSUME NEW m \in Mail, Processed(m) PROVE AttemptOK(b)'
  <2> PICK result \in Pipeline!Results, kept \in BOOLEAN, found \in BOOLEAN :
          /\ handler[m] = "process"
          /\ Pipeline!Answer(Now(m), result, kept, found)
          /\ thread' = IF HandsOver(result)
                       THEN [thread EXCEPT ![Now(m)] = "waiting"] ELSE thread
          /\ UNCHANGED <<queue, attempt, read, got>>
    BY <1>3 DEF Processed
  <2>1. /\ attempt[m] > 0 /\ Now(m) \in Attempts
        /\ Now(m)[1] = m /\ Now(m)[2] = attempt[m]
    BY <1>t, NowFacts DEF MessageOK
  <2>2. /\ outcome[Now(m)] = "none" /\ outcome'[Now(m)] = result
        /\ \A c \in Attempts : c # Now(m) => outcome'[c] = outcome[c]
        /\ held' = held \/ held' = held \union {Now(m)}
        /\ detected' = detected \/ detected' = detected \union {Now(m)}
        /\ Now(m) \in held' => Now(m) \in held \/ result \in {"DROP", "EXCEPTION"}
        /\ Now(m) \in detected' => Now(m) \in detected \/ result = "DROP"
    BY <1>t, <2>1, AnswerFrame
  <2>3. CASE b = Now(m)
    <3>1. /\ thread[b] = "none" /\ read[b] = "none" /\ got[b] = {}
          /\ b \notin held \union detected
      BY <1>t, <2>2, <2>3 DEF AttemptOK
    <3>2. thread'[b] = IF result = "DELIVER" THEN "waiting" ELSE "none"
      BY <1>t, <2>1, <2>3, <3>1 DEF TypeOK, HandsOver
    <3>3. /\ attempt' = attempt /\ read' = read /\ got' = got
          /\ result # "none" /\ outcome'[b] = result
      BY <2>2, <2>3 DEF Pipeline!Results
    <3>4. result = "DELIVER" => b \notin held' \union detected'
      BY <2>2, <2>3, <3>1
    <3>5. ~(b[2] > attempt[b[1]])
      BY <1>t, <2>1, <2>3 DEF TypeOK
    <3> QED BY <3>1, <3>2, <3>3, <3>4, <3>5 DEF AttemptOK
  <2>4. CASE b # Now(m)
    <3>1. thread'[b] = thread[b]
      BY <1>t, <2>4 DEF TypeOK
    <3> QED BY <1>t, <1>n, <2>2, <2>4, <3>1, AttemptFrame
  <2> QED BY <2>3, <2>4
<1>4. ASSUME NEW m \in Mail, Resume(m) PROVE AttemptOK(b)'
  BY <1>t, <1>n, <1>4, AttemptFrame DEF Resume, pipelineVars
<1>5. ASSUME NEW m \in Mail, ReadAnswer(m) PROVE AttemptOK(b)'
  <2>1. attempt[m] > 0 /\ handler[m] \in {"250", "451"}
    BY <1>t, <1>5 DEF ReadAnswer, MessageOK
  <2>2. CASE b = Now(m)
    <3>1. outcome[b] # "none"
      BY <1>t, <2>1, <2>2 DEF MessageOK
    <3> QED BY <1>t, <1>5, <3>1 DEF AttemptOK, ReadAnswer, pipelineVars
  <2>3. CASE b # Now(m)
    <3>1. read'[b] = read[b]
      BY <1>t, <1>5, <2>3 DEF ReadAnswer, TypeOK
    <3> QED BY <1>t, <1>n, <1>5, <3>1, AttemptFrame DEF ReadAnswer, pipelineVars
  <2> QED BY <2>2, <2>3
<1>6. ASSUME NEW m \in Mail, Expire(m) PROVE AttemptOK(b)'
  BY <1>t, <1>n, <1>6, AttemptFrame DEF Expire, pipelineVars
<1>7. ASSUME NEW m \in Mail, Break(m) PROVE AttemptOK(b)'
  <2>1. attempt[m] > 0
    BY <1>t, <1>7, BreakFrame DEF MessageOK
  <2>2. Now(m) \in Attempts /\ Now(m)[1] = m /\ Now(m)[2] = attempt[m]
    BY <1>t, <2>1, NowFacts
  <2>3. CASE b = Now(m)
    <3>1. ~(b[2] > attempt[b[1]])
      BY <1>t, <2>2, <2>3 DEF TypeOK
    <3>2. thread'[b] = Withdrawn(thread[b])
      BY <1>t, <1>7, <2>3, BreakFrame DEF TypeOK
    <3>3. outcome'[b] = outcome[b] \/ (outcome[b] = "none" /\ outcome'[b] = "ABORTED")
      <4>1. handler[m] = "process" => outcome[Now(m)] = "none"
        BY <1>t, <1>7, BreakFrame
      <4>2. outcome'[b] = IF b = Now(m) /\ handler[m] = "process"
                          THEN "ABORTED" ELSE outcome[b]
        BY <1>t, <1>7, BreakFrame
      <4> QED BY <2>3, <4>1, <4>2
    <3>4. UNCHANGED <<attempt, read, got, held, detected>>
      BY <1>t, <1>7, BreakFrame
    <3> QED BY <1>t, <3>1, <3>2, <3>3, <3>4 DEF AttemptOK, Withdrawn
  <2>4. CASE b # Now(m)
    <3>1. thread'[b] = thread[b] /\ outcome'[b] = outcome[b]
      BY <1>t, <1>7, <2>4, BreakFrame DEF TypeOK
    <3> QED BY <1>t, <1>n, <1>7, <3>1, BreakFrame, AttemptFrame
  <2> QED BY <2>3, <2>4
<1>8. ASSUME NEW a \in Attempts, StartThread(a) PROVE AttemptOK(b)'
  BY <1>t, <1>8 DEF StartThread, TypeOK, AttemptOK, pipelineVars
<1>9. ASSUME NEW a \in Attempts, Reinject(a) PROVE AttemptOK(b)'
  <2> PICK R \in SUBSET Rcpts[a[1]], lost \in BOOLEAN :
          /\ thread[a] = "running"
          /\ got' = [got EXCEPT ![a] = R]
          /\ thread' = [thread EXCEPT ![a] = IF Raises(R, lost) THEN "failed" ELSE "ok"]
          /\ UNCHANGED <<queue, attempt, read, handler, pipelineVars>>
    BY <1>9 DEF Reinject
  <2> QED BY <1>t DEF TypeOK, AttemptOK, Raises, pipelineVars
<1>10. ASSUME Crash PROVE AttemptOK(b)'
  <2>1. b \in InPipeline => ~(b[2] > attempt[b[1]])
    BY <1>t, NowFacts DEF InPipeline, MessageOK, TypeOK
  <2> QED BY <1>t, <1>10, <2>1, CrashFrame DEF AttemptOK
<1>11. CASE UNCHANGED vars
  BY <1>t, <1>n, <1>11, AttemptFrame DEF vars
<1> QED
  BY <1>1, <1>2, <1>3, <1>4, <1>5, <1>6, <1>7, <1>8, <1>9, <1>10, <1>11
     DEF Next, Deliver

-----------------------------------------------------------------------------
(* Answers *)

\* What has become of a message stays so.
LEMMA EffectsStay ==
    ASSUME GatewayInv, [Next]_vars, NEW m \in Mail, Effective(m)
    PROVE  Effective(m)'
<1>t. TypeOK /\ \A a \in Attempts : AttemptOK(a)
  BY DEF GatewayInv
<1>1. ASSUME NEW k \in Mail, Processed(k) PROVE got' = got /\ held \subseteq held'
                                               /\ detected \subseteq detected'
  BY <1>1 DEF Processed, Pipeline!Answer
<1>2. ASSUME NEW a \in Attempts, Reinject(a)
      PROVE  /\ \A b \in Attempts : got[b] # {} => got'[b] # {}
             /\ UNCHANGED <<held, detected>>
  BY <1>t, <1>2 DEF Reinject, AttemptOK, TypeOK, pipelineVars
<1>3. /\ \A a \in Attempts : got[a] # {} => got'[a] # {}
      /\ held \subseteq held' /\ detected \subseteq detected'
  <2>1. ASSUME NEW k \in Mail, Break(k) PROVE UNCHANGED <<got, held, detected>>
    BY <1>t, <2>1, BreakFrame
  <2>2. ASSUME Crash PROVE UNCHANGED <<got, detected>> /\ held \subseteq held'
    BY <2>2, CrashFrame
  <2>3. ASSUME NEW k \in Mail, Accept(k) \/ Connect(k) \/ Resume(k) \/ ReadAnswer(k) \/ Expire(k)
        PROVE  UNCHANGED <<got, held, detected>>
    BY <2>3 DEF Accept, Connect, Resume, ReadAnswer, Expire, pipelineVars
  <2>4. ASSUME NEW a \in Attempts, StartThread(a) PROVE UNCHANGED <<got, held, detected>>
    BY <2>4 DEF StartThread, pipelineVars
  <2>5. CASE UNCHANGED vars
    BY <2>5 DEF vars
  <2> QED BY <1>1, <1>2, <2>1, <2>2, <2>3, <2>4, <2>5 DEF Next, Deliver
<1> QED BY <1>3, AttemptsFacts DEF Effective, AttemptsOf

\* An attempt that was answered for good with 451 does not change any more.
LEMMA NoEffectStays ==
    ASSUME GatewayInv, [Next]_vars, NEW b \in Attempts, NoEffect(b)
    PROVE  NoEffect(b)'
<1>t. TypeOK /\ AttemptOK(b) /\ \A m \in Mail : MessageOK(m)
  BY DEF GatewayInv
<1>1. ASSUME NEW m \in Mail, Processed(m) PROVE NoEffect(b)'
  <2> PICK result \in Pipeline!Results, kept \in BOOLEAN, found \in BOOLEAN :
          /\ handler[m] = "process"
          /\ Pipeline!Answer(Now(m), result, kept, found)
          /\ thread' = IF HandsOver(result)
                       THEN [thread EXCEPT ![Now(m)] = "waiting"] ELSE thread
    BY <1>1 DEF Processed
  <2>1. Now(m) \in Attempts
    BY <1>t, NowFacts DEF MessageOK
  <2>2. outcome[Now(m)] = "none" /\ b # Now(m)
    BY <1>t, <2>1, AnswerFrame DEF NoEffect
  <2>3. /\ outcome'[b] = outcome[b] /\ (b \in held' <=> b \in held)
        /\ (b \in detected' <=> b \in detected)
    BY <1>t, <2>1, <2>2, AnswerFrame
  <2>4. thread'[b] = thread[b]
    BY <1>t, <2>2 DEF TypeOK
  <2> QED BY <2>3, <2>4 DEF NoEffect
<1>2. ASSUME NEW m \in Mail, Break(m) PROVE NoEffect(b)'
  <2>1. thread'[b] = thread[b]
    BY <1>t, <1>2, BreakFrame DEF TypeOK, NoEffect, Withdrawn
  <2>2. /\ handler[m] = "process" => outcome[Now(m)] = "none"
        /\ outcome'[b] = IF b = Now(m) /\ handler[m] = "process" THEN "ABORTED" ELSE outcome[b]
        /\ UNCHANGED <<held, detected>>
    BY <1>t, <1>2, BreakFrame
  <2> QED BY <2>1, <2>2 DEF NoEffect
<1>3. ASSUME Crash PROVE NoEffect(b)'
  BY <1>3, CrashFrame DEF NoEffect
<1>4. ASSUME NEW m \in Mail, Accept(m) \/ Connect(m) \/ Resume(m) \/ ReadAnswer(m) \/ Expire(m)
      PROVE  NoEffect(b)'
  BY <1>4 DEF Accept, Connect, Resume, ReadAnswer, Expire, pipelineVars, NoEffect
<1>5. ASSUME NEW a \in Attempts, StartThread(a) PROVE NoEffect(b)'
  BY <1>t, <1>5 DEF StartThread, TypeOK, NoEffect, pipelineVars
<1>6. ASSUME NEW a \in Attempts, Reinject(a) PROVE NoEffect(b)'
  BY <1>t, <1>6 DEF Reinject, TypeOK, NoEffect, pipelineVars
<1>7. CASE UNCHANGED vars
  BY <1>7 DEF vars, NoEffect
<1> QED BY <1>1, <1>2, <1>3, <1>4, <1>5, <1>6, <1>7 DEF Next, Deliver

\* A handler comes to an answer only from the pipeline's result or from the end
\* of its re-injection; what the answer stands for is then true.
LEMMA NewAnswer ==
    ASSUME GatewayInv, [Next]_vars, NEW m \in Mail,
           handler'[m] \in {"250", "451"}, handler'[m] # handler[m]
    PROVE  /\ handler'[m] = "250" => Effective(m)'
           /\ handler'[m] = "451" => NoEffect(Now(m))'
<1>t. TypeOK /\ \A k \in Mail : MessageOK(k)
  BY DEF GatewayInv
<1>1. Processed(m) \/ Resume(m)
  <2>1. ASSUME NEW k \in Mail, Processed(k) \/ Resume(k) PROVE k = m
    BY <1>t, <2>1 DEF TypeOK, Processed, Resume
  <2>2. ASSUME NEW k \in Mail, Break(k) PROVE FALSE
    BY <1>t, <2>2, BreakFrame DEF TypeOK
  <2>3. ASSUME NEW k \in Mail, Accept(k) \/ Connect(k) \/ ReadAnswer(k) \/ Expire(k) PROVE FALSE
    BY <1>t, <2>3 DEF TypeOK, Accept, Connect, ReadAnswer, Expire
  <2>4. ASSUME NEW a \in Attempts, StartThread(a) \/ Reinject(a) PROVE FALSE
    BY <2>4 DEF StartThread, Reinject
  <2>5. ASSUME Crash PROVE FALSE
    BY <2>5, CrashFrame
  <2>6. ASSUME UNCHANGED vars PROVE FALSE
    BY <2>6 DEF vars
  <2> QED BY <2>1, <2>2, <2>3, <2>4, <2>5, <2>6 DEF Next, Deliver
<1>2. Now(m) \in Attempts /\ Now(m) \in AttemptsOf(m)
  BY <1>t, <1>1, NowFacts DEF MessageOK, Processed, Resume
<1>3. ASSUME Processed(m)
      PROVE  /\ handler'[m] = "250" => Effective(m)'
             /\ handler'[m] = "451" => NoEffect(Now(m))'
  <2> PICK result \in Pipeline!Results, kept \in BOOLEAN, found \in BOOLEAN :
          /\ handler[m] = "process"
          /\ Pipeline!Answer(Now(m), result, kept, found)
          /\ handler' = [handler EXCEPT ![m] =
                            IF HandsOver(result) THEN "reinject" ELSE ReplyTo(result)]
          /\ thread' = IF HandsOver(result)
                       THEN [thread EXCEPT ![Now(m)] = "waiting"] ELSE thread
          /\ UNCHANGED <<queue, attempt, read, got>>
    BY <1>3 DEF Processed
  <2>1. AttemptOK(Now(m))
    BY <1>2 DEF GatewayInv
  <2>2. /\ outcome[Now(m)] = "none" /\ outcome'[Now(m)] = result
        /\ Now(m) \in held' => Now(m) \in held \/ result \in {"DROP", "EXCEPTION"}
        /\ Now(m) \in detected' => Now(m) \in detected \/ result = "DROP"
        /\ result = "DROP" => Now(m) \in held' \/ Now(m) \in detected'
    BY <1>t, <1>2, AnswerFrame
  <2>3. thread[Now(m)] = "none" /\ Now(m) \notin held \union detected
    BY <2>1, <2>2 DEF AttemptOK
  <2>4. /\ handler'[m] = "250" => result = "DROP"
        /\ handler'[m] = "451" => result \notin {"DROP", "DELIVER"}
    BY <1>t DEF TypeOK, HandsOver, ReplyTo
  <2>5. handler'[m] = "250" => Effective(m)'
    BY <1>2, <2>2, <2>4 DEF Effective, AttemptsOf
  <2>6. handler'[m] = "451" => NoEffect(Now(m))'
    <3> SUFFICES ASSUME handler'[m] = "451" PROVE NoEffect(Now(m))'
      OBVIOUS
    <3>1. thread' = thread /\ Now(m)' = Now(m) /\ result \notin {"none", "DROP", "DELIVER"}
      BY <2>4 DEF HandsOver, Now, Pipeline!Results
    <3> QED BY <2>2, <2>3, <3>1 DEF NoEffect
  <2> QED BY <2>5, <2>6
<1>4. ASSUME Resume(m)
      PROVE  /\ handler'[m] = "250" => Effective(m)'
             /\ handler'[m] = "451" => NoEffect(Now(m))'
  <2>1. /\ thread[Now(m)] \in {"ok", "failed"} /\ outcome[Now(m)] = "DELIVER"
        /\ handler'[m] = IF thread[Now(m)] = "ok" THEN "250" ELSE "451"
        /\ UNCHANGED <<thread, got, outcome, held, detected>> /\ Now(m)' = Now(m)
    BY <1>t, <1>4 DEF TypeOK, Resume, AnswerFor, MessageOK, Now, pipelineVars
  <2>2. AttemptOK(Now(m))
    BY <1>2 DEF GatewayInv
  <2>3. handler'[m] = "250" => got[Now(m)] # {}
    BY <2>1, <2>2 DEF AttemptOK
  <2>4. handler'[m] = "250" => Effective(m)'
    BY <1>2, <2>1, <2>3 DEF Effective, AttemptsOf
  <2>5. handler'[m] = "451" => NoEffect(Now(m))'
    BY <2>1, <2>2 DEF AttemptOK, NoEffect
  <2> QED BY <2>4, <2>5
<1> QED BY <1>1, <1>3, <1>4

LEMMA AnswersStep == GatewayInv /\ [Next]_vars => AnswersOK'
<1> SUFFICES ASSUME GatewayInv, [Next]_vars PROVE AnswersOK'
  OBVIOUS
<1>t. TypeOK /\ AnswersOK /\ \A m \in Mail : MessageOK(m)
  BY DEF GatewayInv
<1>1. ASSUME NEW m \in Mail, handler'[m] = "250" PROVE Effective(m)'
  <2>1. CASE handler[m] = "250"
    BY <1>t, <2>1, EffectsStay DEF AnswersOK
  <2>2. CASE handler[m] # "250"
    BY <1>1, <2>2, NewAnswer
  <2> QED BY <2>1, <2>2
<1>2. ASSUME NEW m \in Mail, handler'[m] = "451" PROVE NoEffect(Now(m))'
  <2>1. CASE handler[m] = "451"
    <3>1. NoEffect(Now(m)) /\ Now(m) \in Attempts
      BY <1>t, <2>1, NowFacts DEF AnswersOK, MessageOK
    <3>2. attempt'[m] = attempt[m]
      <4>1. ASSUME NEW k \in Mail, Connect(k) PROVE attempt'[m] = attempt[m]
        BY <1>t, <1>2, <2>1, <4>1 DEF Connect, TypeOK
      <4>2. ASSUME NEW k \in Mail, Accept(k) \/ Processed(k) \/ Resume(k) \/ ReadAnswer(k)
                                      \/ Expire(k) \/ Break(k)
            PROVE  attempt'[m] = attempt[m]
        BY <4>2 DEF Accept, Processed, Resume, ReadAnswer, Expire, Break
      <4>3. ASSUME NEW a \in Attempts, StartThread(a) \/ Reinject(a)
            PROVE  attempt'[m] = attempt[m]
        BY <4>3 DEF StartThread, Reinject
      <4>4. ASSUME Crash PROVE attempt'[m] = attempt[m]
        BY <4>4 DEF Crash
      <4>5. CASE UNCHANGED vars
        BY <4>5 DEF vars
      <4> QED BY <4>1, <4>2, <4>3, <4>4, <4>5 DEF Next, Deliver
    <3>3. Now(m)' = Now(m)
      BY <3>2 DEF Now
    <3>4. \A b \in Attempts : NoEffect(b) => NoEffect(b)'
      BY NoEffectStays
    <3> QED BY <3>1, <3>3, <3>4 DEF NoEffect
  <2>2. CASE handler[m] # "451"
    BY <1>2, <2>2, NewAnswer
  <2> QED BY <2>1, <2>2
<1>3. ASSUME NEW a \in Attempts, read'[a] = "451" PROVE NoEffect(a)'
  <2>1. CASE read[a] = "451"
    BY <1>t, <2>1, NoEffectStays DEF AnswersOK
  <2>2. CASE read[a] # "451"
    <3>1. \E m \in Mail : ReadAnswer(m)
      <4>1. ASSUME NEW k \in Mail, Accept(k) \/ Connect(k) \/ Processed(k) \/ Resume(k)
                                      \/ Expire(k) \/ Break(k)
            PROVE  read' = read
        BY <4>1 DEF Accept, Connect, Processed, Resume, Expire, Break
      <4>2. ASSUME NEW b \in Attempts, StartThread(b) \/ Reinject(b) PROVE read' = read
        BY <4>2 DEF StartThread, Reinject
      <4>3. ASSUME Crash PROVE read' = read
        BY <4>3 DEF Crash
      <4>4. ASSUME UNCHANGED vars PROVE read' = read
        BY <4>4 DEF vars
      <4> QED BY <1>3, <2>2, <4>1, <4>2, <4>3, <4>4 DEF Next, Deliver
    <3>2. PICK m \in Mail : ReadAnswer(m)
      BY <3>1
    <3>3. a = Now(m) /\ handler[m] = "451"
      BY <1>t, <1>3, <2>2, <3>2 DEF ReadAnswer, TypeOK
    <3>4. NoEffect(a)
      BY <1>t, <3>3 DEF AnswersOK
    <3> QED BY <3>4, NoEffectStays
  <2> QED BY <2>1, <2>2
<1> QED BY <1>1, <1>2, <1>3 DEF AnswersOK

LEMMA GatewayStep == GatewayInv /\ [Next]_vars => GatewayInv'
BY TypeStep, MessageStep, AttemptStep, AnswersStep DEF GatewayInv

-----------------------------------------------------------------------------
(* The gateway implements Custody *)

placeOf == [m \in Mail |-> PlaceOf(m)]
effectsOf == [m \in Mail |-> EffectsOf(m)]

\* What Custody sees of a message depends on these.
LEMMA SameView ==
    ASSUME NEW m \in Mail, queue'[m] = queue[m],
           \A a \in AttemptsOf(m) : /\ got'[a] # {} <=> got[a] # {}
                                    /\ a \in held' <=> a \in held
                                    /\ a \in detected' <=> a \in detected
    PROVE  PlaceOf(m)' = PlaceOf(m) /\ EffectsOf(m)' = EffectsOf(m)
<1>1. PlaceOf(m)' = PlaceOf(m)
  BY DEF PlaceOf
<1>2. ASSUME NEW e \in {"delivered", "held", "discarded", "returned"}
      PROVE  e \in EffectsOf(m)' <=> e \in EffectsOf(m)
  <2>1. /\ "delivered" \in EffectsOf(m)' <=> "delivered" \in EffectsOf(m)
        /\ "returned" \in EffectsOf(m)' <=> "returned" \in EffectsOf(m)
    BY DEF EffectsOf, AttemptsOf
  <2>2. AttemptsOf(m) \intersect held' = AttemptsOf(m) \intersect held
    OBVIOUS
  <2>3. AttemptsOf(m) \intersect detected' = AttemptsOf(m) \intersect detected
    OBVIOUS
  <2>4. AttemptsOf(m)' = AttemptsOf(m)
    BY DEF AttemptsOf
  <2>5. "held" \in EffectsOf(m)' <=> "held" \in EffectsOf(m)
    BY <2>2, <2>4 DEF EffectsOf
  <2>6. "discarded" \in EffectsOf(m)' <=> "discarded" \in EffectsOf(m)
    BY <2>3, <2>4 DEF EffectsOf
  <2> QED BY <2>1, <2>5, <2>6
<1> QED BY <1>1, <1>2 DEF EffectsOf

\* Something that becomes of one accepted message is an Act of Custody.
LEMMA ActStep ==
    ASSUME NEW m \in Mail, UNCHANGED queue, queue[m] # "new",
           queue \in [Mail -> {"new", "queued", "gone", "bounced"}],
           EffectsOf(m) \subseteq EffectsOf(m)',
           \A k \in Mail : k # m => PlaceOf(k)' = PlaceOf(k) /\ EffectsOf(k)' = EffectsOf(k)
    PROVE  Outside!Act(m, EffectsOf(m)') /\ EffectsOf(m)' \in SUBSET Outside!Effects
<1>1. EffectsOf(m)' \in SUBSET Outside!Effects
  BY DEF EffectsOf, Outside!Effects
<1>2. placeOf' = placeOf /\ placeOf[m] # "outside"
  BY DEF placeOf, PlaceOf
<1>3. effectsOf' = [effectsOf EXCEPT ![m] = @ \union EffectsOf(m)']
  BY DEF effectsOf
<1> QED BY <1>1, <1>2, <1>3 DEF Outside!Act, placeOf, effectsOf

LEMMA CustodyStep ==
    ASSUME GatewayInv, GatewayInv', [Next]_vars
    PROVE  [Outside!Next]_<<placeOf, effectsOf>>
<1>t. /\ TypeOK /\ TypeOK' /\ AnswersOK
      /\ \A m \in Mail : MessageOK(m)
      /\ \A a \in Attempts : AttemptOK(a)
  BY DEF GatewayInv
<1>s. ASSUME \A m \in Mail : PlaceOf(m)' = PlaceOf(m) /\ EffectsOf(m)' = EffectsOf(m)
      PROVE  UNCHANGED <<placeOf, effectsOf>>
  BY <1>s DEF placeOf, effectsOf
<1>e. ASSUME UNCHANGED <<queue, got, held, detected>>
      PROVE  UNCHANGED <<placeOf, effectsOf>>
  BY <1>e, <1>s, SameView
<1>1. ASSUME NEW m \in Mail, Accept(m) PROVE Outside!Accept(m)
  <2>1. \A k \in Mail : k # m => PlaceOf(k)' = PlaceOf(k)
    BY <1>t, <1>1 DEF Accept, TypeOK, PlaceOf
  <2>2. PlaceOf(m) = "outside" /\ PlaceOf(m)' = "queue"
    BY <1>t, <1>1 DEF Accept, TypeOK, PlaceOf
  <2>3. \A k \in Mail : EffectsOf(k)' = EffectsOf(k)
    BY <1>t, <1>1 DEF Accept, TypeOK, EffectsOf, AttemptsOf, pipelineVars
  <2>4. placeOf' = [placeOf EXCEPT ![m] = "queue"] /\ UNCHANGED effectsOf
    BY <2>1, <2>2, <2>3 DEF placeOf, effectsOf
  <2> QED BY <2>2, <2>4 DEF Outside!Accept, placeOf, effectsOf
<1>2. ASSUME NEW m \in Mail, Connect(m) \/ Resume(m) PROVE UNCHANGED <<placeOf, effectsOf>>
  BY <1>2, <1>e DEF Connect, Resume, pipelineVars
<1>3. ASSUME NEW m \in Mail, Processed(m)
      PROVE  \E E \in SUBSET Outside!Effects : Outside!Act(m, E)
  <2> PICK result \in Pipeline!Results, kept \in BOOLEAN, found \in BOOLEAN :
          /\ handler[m] = "process"
          /\ Pipeline!Answer(Now(m), result, kept, found)
          /\ UNCHANGED <<queue, attempt, read, got>>
    BY <1>3 DEF Processed
  <2>1. queue[m] = "queued" /\ Now(m) \in Attempts /\ Now(m)[1] = m
    BY <1>t, NowFacts DEF MessageOK
  <2>2. /\ held' = held \/ held' = held \union {Now(m)}
        /\ detected' = detected \/ detected' = detected \union {Now(m)}
    BY <1>t, <2>1, AnswerFrame
  <2>3. EffectsOf(m) \subseteq EffectsOf(m)'
    BY <2>2 DEF EffectsOf, AttemptsOf
  <2>4. ASSUME NEW k \in Mail, k # m
        PROVE  PlaceOf(k)' = PlaceOf(k) /\ EffectsOf(k)' = EffectsOf(k)
    <3>1. Now(m) \notin AttemptsOf(k)
      BY <2>1, <2>4, AttemptsFacts
    <3> QED BY <2>2, <3>1, SameView
  <2> QED BY <1>t, <2>1, <2>3, <2>4, ActStep DEF TypeOK
<1>4. ASSUME NEW m \in Mail, ReadAnswer(m)
      PROVE  Outside!Settle(m) \/ UNCHANGED <<placeOf, effectsOf>>
  <2>1. CASE handler[m] = "451"
    <3>1. queue' = queue
      BY <1>t, <1>4, <2>1 DEF ReadAnswer, TypeOK
    <3> QED BY <1>4, <1>e, <3>1 DEF ReadAnswer, pipelineVars
  <2>2. CASE handler[m] = "250"
    <3>1. queue[m] = "queued" /\ queue'[m] = "gone" /\ Effective(m)
      BY <1>t, <1>4, <2>2 DEF ReadAnswer, TypeOK, MessageOK, AnswersOK
    <3>2. \A k \in Mail : k # m => queue'[k] = queue[k]
      BY <1>t, <1>4 DEF ReadAnswer, TypeOK
    <3>3. \A k \in Mail : EffectsOf(k)' = EffectsOf(k)
      BY <1>4, <3>1, <3>2 DEF ReadAnswer, pipelineVars, EffectsOf, AttemptsOf
    <3>4. EffectsOf(m) # {}
      BY <3>1 DEF Effective, EffectsOf
    <3>5. PlaceOf(m) = "queue" /\ PlaceOf(m)' = "settled"
      BY <3>1 DEF PlaceOf
    <3>6. \A k \in Mail : k # m => PlaceOf(k)' = PlaceOf(k)
      BY <3>2 DEF PlaceOf
    <3>7. placeOf' = [placeOf EXCEPT ![m] = "settled"] /\ UNCHANGED effectsOf
      BY <3>3, <3>5, <3>6 DEF placeOf, effectsOf
    <3> QED BY <3>4, <3>5, <3>7 DEF Outside!Settle, placeOf, effectsOf
  <2> QED BY <1>4, <2>1, <2>2 DEF ReadAnswer
<1>5. ASSUME NEW m \in Mail, Expire(m) PROVE Outside!Return(m)
  <2>1. queue[m] = "queued" /\ queue'[m] = "bounced"
    BY <1>t, <1>5 DEF Expire, TypeOK
  <2>2. \A k \in Mail : k # m => queue'[k] = queue[k]
    BY <1>t, <1>5 DEF Expire, TypeOK
  <2>3. PlaceOf(m) = "queue" /\ PlaceOf(m)' = "settled"
    BY <2>1 DEF PlaceOf
  <2>4. \A k \in Mail : k # m => PlaceOf(k)' = PlaceOf(k) /\ EffectsOf(k)' = EffectsOf(k)
    BY <1>5, <2>2, SameView DEF Expire, pipelineVars
  <2>5. EffectsOf(m)' = EffectsOf(m) \union {"returned"}
    BY <1>5, <2>1 DEF Expire, pipelineVars, EffectsOf, AttemptsOf
  <2>6. /\ placeOf' = [placeOf EXCEPT ![m] = "settled"]
        /\ effectsOf' = [effectsOf EXCEPT ![m] = @ \union {"returned"}]
    BY <2>3, <2>4, <2>5 DEF placeOf, effectsOf
  <2> QED BY <2>3, <2>6 DEF Outside!Return, placeOf, effectsOf
<1>6. ASSUME NEW m \in Mail, Break(m) PROVE UNCHANGED <<placeOf, effectsOf>>
  BY <1>t, <1>6, <1>e, BreakFrame
<1>7. ASSUME NEW a \in Attempts, StartThread(a) PROVE UNCHANGED <<placeOf, effectsOf>>
  BY <1>7, <1>e DEF StartThread, pipelineVars
<1>8. ASSUME NEW a \in Attempts, Reinject(a)
      PROVE  \E E \in SUBSET Outside!Effects : Outside!Act(a[1], E)
  <2>1. a[1] \in Mail /\ a[2] \in 1..MaxAttempts[a[1]] /\ a \in AttemptsOf(a[1])
    BY AttemptOfMail
  <2>2. thread[a] = "running" /\ UNCHANGED <<queue, held, detected>>
    BY <1>8 DEF Reinject, pipelineVars
  <2>3. queue[a[1]] # "new"
    <3>1. outcome[a] = "DELIVER" /\ got[a] = {}
      BY <1>t, <2>2 DEF AttemptOK
    <3>2. ~(a[2] > attempt[a[1]])
      BY <1>t, <3>1 DEF AttemptOK
    <3>3. attempt[a[1]] \in Nat /\ a[2] \in Nat /\ a[2] > 0
      BY <1>t, <2>1, GatewayAssumption DEF TypeOK
    <3> QED BY <1>t, <2>1, <3>2, <3>3 DEF MessageOK
  <2>4. \A b \in Attempts : /\ b # a => got'[b] = got[b]
                            /\ got[b] # {} => got'[b] # {}
    BY <1>t, <1>8 DEF Reinject, TypeOK, AttemptOK
  <2>5. EffectsOf(a[1]) \subseteq EffectsOf(a[1])'
    BY <2>1, <2>2, <2>4, AttemptsFacts DEF EffectsOf, AttemptsOf
  <2>6. ASSUME NEW k \in Mail, k # a[1]
        PROVE  PlaceOf(k)' = PlaceOf(k) /\ EffectsOf(k)' = EffectsOf(k)
    <3>1. \A b \in AttemptsOf(k) : b \in Attempts /\ b # a
      BY <2>6, AttemptsFacts
    <3> QED BY <2>2, <2>4, <3>1, SameView
  <2> QED BY <1>t, <2>1, <2>2, <2>3, <2>5, <2>6, ActStep DEF TypeOK
<1>9. ASSUME Crash
      PROVE  \/ UNCHANGED <<placeOf, effectsOf>>
             \/ \E m \in Mail, E \in SUBSET Outside!Effects : Outside!Act(m, E)
  <2>1. CASE held' = held
    BY <1>9, <2>1, <1>e, CrashFrame
  <2>2. ASSUME NEW m \in Mail, handler[m] = "process", held' = held \union {Now(m)}
        PROVE  \E E \in SUBSET Outside!Effects : Outside!Act(m, E)
    <3>1. queue[m] = "queued" /\ Now(m) \in Attempts /\ Now(m)[1] = m
      BY <1>t, <2>2, NowFacts DEF MessageOK
    <3>2. UNCHANGED <<queue, got, detected>>
      BY <1>9, CrashFrame
    <3>3. EffectsOf(m) \subseteq EffectsOf(m)'
      BY <2>2, <3>2 DEF EffectsOf, AttemptsOf
    <3>4. ASSUME NEW k \in Mail, k # m
          PROVE  PlaceOf(k)' = PlaceOf(k) /\ EffectsOf(k)' = EffectsOf(k)
      <4>1. Now(m) \notin AttemptsOf(k)
        BY <3>1, <3>4, AttemptsFacts
      <4> QED BY <2>2, <3>2, <4>1, SameView
    <3> QED BY <1>t, <3>1, <3>2, <3>3, <3>4, ActStep DEF TypeOK
  <2> QED BY <1>9, <2>1, <2>2, CrashFrame DEF InPipeline
<1>10. ASSUME UNCHANGED vars PROVE UNCHANGED <<placeOf, effectsOf>>
  BY <1>10, <1>e DEF vars
<1>11. ASSUME NEW m \in Mail, Outside!Accept(m) \/ Outside!Settle(m) \/ Outside!Return(m)
                  \/ (\E E \in SUBSET Outside!Effects : Outside!Act(m, E))
       PROVE  Outside!Next
  BY <1>11 DEF Outside!Next
<1>12. ASSUME NEW a \in Attempts PROVE a[1] \in Mail
  BY AttemptOfMail
<1> QED
  BY <1>1, <1>2, <1>3, <1>4, <1>5, <1>6, <1>7, <1>8, <1>9, <1>10, <1>11, <1>12
     DEF Next, Deliver

-----------------------------------------------------------------------------
(* Theorems *)

LEMMA GatewayAlways == Spec => []GatewayInv
BY GatewayInit, GatewayStep, PTL DEF Spec

\* The state of the gateway has its type, for every number of messages,
\* recipients, attempts, sessions and threads.
THEOREM TypeCorrect == Spec => []TypeOK
<1>1. GatewayInv => TypeOK
  BY DEF GatewayInv
<1> QED BY <1>1, GatewayAlways, PTL

\* The server never asks postfix to repeat an attempt that had its effect,
\* unless the answer to that very effect was lost (server.py:107-129).
THEOREM DeferralsHadNoEffect == Spec => []DeferredHadNoEffect
<1>1. GatewayInv => DeferredHadNoEffect
  BY DEF GatewayInv, AnswersOK, NoEffect, DeferredHadNoEffect, AttemptOK
<1> QED BY <1>1, GatewayAlways, PTL

\* Only what the pipeline decided to deliver is ever re-injected, and it is
\* neither held nor discarded besides (server.py:113-127).
THEOREM OnlyDecisionsAreReinjected == Spec => []OnlyDecidedMailIsReinjected
<1>1. GatewayInv => OnlyDecidedMailIsReinjected
  BY DEF GatewayInv, OnlyDecidedMailIsReinjected, AttemptOK
<1> QED BY <1>1, GatewayAlways, PTL

\* No accepted message vanishes: the gateway implements Custody, whatever fails
\* or is cancelled in whatever order (server.py:107-132).
THEOREM NothingIsLost == Spec => NeverLost
<1>1. Init => Outside!Init
  BY GatewayAssumption
     DEF Init, Outside!Init, PlaceOf, EffectsOf, AttemptsOf, Attempts, Pipeline!Init
<1>2. GatewayInv /\ GatewayInv' /\ [Next]_vars => [Outside!Next]_<<placeOf, effectsOf>>
  BY CustodyStep
<1>3. [Outside!Next]_<<placeOf, effectsOf>>
        => [Outside!Next]_<<[m \in Mail |-> PlaceOf(m)], [m \in Mail |-> EffectsOf(m)]>>
  BY DEF placeOf, effectsOf
<1> QED BY <1>1, <1>2, <1>3, GatewayAlways, PTL DEF Spec, NeverLost, Outside!Spec

-----------------------------------------------------------------------------
(* Progress *)

\* How far the session of a message is from its end.
Phase(m) ==
    CASE handler[m] = "process" -> 5
      [] handler[m] = "reinject" /\ thread[Now(m)] = "waiting" -> 4
      [] handler[m] = "reinject" /\ thread[Now(m)] = "running" -> 3
      [] handler[m] = "reinject" /\ thread[Now(m)] \in {"none", "ok", "failed"} -> 2
      [] handler[m] \in {"250", "451"} -> 1
      [] handler[m] = "none" -> 0

\* The steps that a message may still take before postfix has to return it.
TurnsLeft(m) == 6 * (MaxAttempts[m] - attempt[m]) + Phase(m)

\* The session's own part of a step: its handler's, or its thread's.
OwnStep(m) ==
    \/ Deliver(m)
    \/ handler[m] = "reinject" /\ (StartThread(Now(m)) \/ Reinject(Now(m)))

\* A handler that waits for a re-injection waits for a call that is there.
CallsAreMade == \A m \in Mail : handler[m] = "reinject" => thread[Now(m)] # "none"

\* Each step of a session leads on, nothing that happens gives a message steps
\* back, and postfix takes no settled message up again.
DeliveriesMoveOn ==
    \A m \in Mail :
        /\ TurnsLeft(m)' <= TurnsLeft(m)
        /\ OwnStep(m) => TurnsLeft(m)' < TurnsLeft(m)
        /\ queue[m] \in {"gone", "bounced"} => queue'[m] = queue[m]
        /\ queue[m] = "queued" => queue'[m] # "new"

\* A queued message without a session may have one, be returned, or waits for
\* the session of another.
SessionsAreUsed ==
    \A m \in Mail : queue[m] = "queued" /\ handler[m] = "none" =>
        \/ attempt[m] > 0
        \/ attempt[m] < MaxAttempts[m]
              /\ Cardinality({k \in Mail : handler[k] # "none"}) < Sessions
        \/ \E k \in Mail \ {m} : handler[k] # "none"

LEMMA PhaseIs ==
    ASSUME GatewayInv, NEW m \in Mail
    PROVE  /\ Phase(m) \in 0..5
           /\ attempt[m] \in Nat /\ MaxAttempts[m] \in Nat /\ attempt[m] <= MaxAttempts[m]
           /\ handler[m] = "process" => Phase(m) = 5
           /\ handler[m] = "reinject" =>
                 /\ Now(m) \in Attempts
                 /\ Phase(m) = IF thread[Now(m)] = "waiting" THEN 4
                               ELSE IF thread[Now(m)] = "running" THEN 3 ELSE 2
           /\ handler[m] \in {"250", "451"} => Phase(m) = 1
           /\ handler[m] = "none" => Phase(m) = 0
<1>1. TypeOK /\ (handler[m] # "none" => attempt[m] > 0)
  BY DEF GatewayInv, MessageOK
<1>2. handler[m] \in {"none", "process", "reinject", "250", "451"}
  BY <1>1 DEF TypeOK
<1>3. handler[m] = "reinject" => Now(m) \in Attempts /\ thread[Now(m)] \in Threads
  BY <1>1, NowFacts DEF TypeOK
<1>4. attempt[m] \in Nat /\ MaxAttempts[m] \in Nat /\ attempt[m] <= MaxAttempts[m]
  BY <1>1, GatewayAssumption DEF TypeOK
<1>5. CASE handler[m] = "process"
  BY <1>4, <1>5 DEF Phase
<1>6. CASE handler[m] = "reinject"
  BY <1>3, <1>4, <1>6 DEF Phase, Threads
<1>7. CASE handler[m] \in {"250", "451"}
  BY <1>4, <1>7 DEF Phase
<1>8. CASE handler[m] = "none"
  BY <1>4, <1>8 DEF Phase
<1> QED
  BY <1>2, <1>5, <1>6, <1>7, <1>8

\* A step that leaves a session as it is leaves its phase.
LEMMA PhaseFrame ==
    ASSUME NEW m \in Mail, handler'[m] = handler[m], attempt'[m] = attempt[m],
           handler[m] = "reinject" => thread'[Now(m)] = thread[Now(m)]
    PROVE  Phase(m)' = Phase(m)
<1>1. Now(m)' = Now(m)
  BY DEF Now
<1>2. CASE handler[m] = "reinject"
  BY <1>1, <1>2 DEF Phase
<1>3. CASE handler[m] # "reinject"
  BY <1>3 DEF Phase
<1> QED
  BY <1>2, <1>3

\* Turns, from the attempt and the phase.
LEMMA TurnsFall ==
    ASSUME GatewayInv, GatewayInv', NEW m \in Mail
    PROVE  /\ TurnsLeft(m) \in Int /\ TurnsLeft(m)' \in Int
           /\ attempt'[m] = attempt[m] + 1 => TurnsLeft(m)' < TurnsLeft(m)
           /\ attempt'[m] = attempt[m] =>
                 /\ Phase(m)' <= Phase(m) => TurnsLeft(m)' <= TurnsLeft(m)
                 /\ Phase(m)' < Phase(m) => TurnsLeft(m)' < TurnsLeft(m)
<1>1. Phase(m) \in 0..5 /\ attempt[m] \in Nat /\ MaxAttempts[m] \in Nat
  BY PhaseIs
<1>2. (Phase(m) \in 0..5 /\ attempt[m] \in Nat /\ MaxAttempts[m] \in Nat)'
  BY PhaseIs, PTL
<1>3. /\ TurnsLeft(m) = 6 * (MaxAttempts[m] - attempt[m]) + Phase(m)
      /\ TurnsLeft(m)' = 6 * (MaxAttempts[m] - attempt'[m]) + Phase(m)'
  BY DEF TurnsLeft
<1> QED
  BY <1>1, <1>2, <1>3

LEMMA CallsStep == GatewayInv /\ CallsAreMade /\ [Next]_vars => CallsAreMade'
<1> SUFFICES ASSUME GatewayInv, CallsAreMade, [Next]_vars, NEW k \in Mail,
                    handler'[k] = "reinject"
             PROVE  thread'[Now(k)'] # "none"
  BY DEF CallsAreMade
<1>t. TypeOK /\ \A m \in Mail : MessageOK(m)
  BY DEF GatewayInv
<1>n. ASSUME NEW m \in Mail, handler[m] # "none"
      PROVE  Now(m) \in Attempts /\ \A j \in Mail : Now(j) = Now(m) => j = m
  BY <1>t, <1>n, NowFacts DEF MessageOK
<1>1. CASE \E m \in Mail : Accept(m) \/ Resume(m) \/ ReadAnswer(m) \/ Expire(m)
  <2>1. PICK m \in Mail : Accept(m) \/ Resume(m) \/ ReadAnswer(m) \/ Expire(m)
    BY <1>1
  <2>2. attempt' = attempt /\ thread' = thread
    BY <2>1 DEF Accept, Resume, ReadAnswer, Expire
  <2>3. handler[k] = "reinject"
    BY <1>t, <2>1 DEF Accept, Resume, ReadAnswer, Expire, AnswerFor, TypeOK
  <2> QED
    BY <2>2, <2>3 DEF CallsAreMade, Now
<1>2. CASE \E m \in Mail : Connect(m)
  BY <1>t, <1>2 DEF Connect, TypeOK, CallsAreMade, Now
<1>3. ASSUME NEW m \in Mail, Processed(m) PROVE thread'[Now(k)'] # "none"
  <2>1. PICK result \in Pipeline!Results :
            /\ handler[m] = "process" /\ attempt' = attempt
            /\ handler' = [handler EXCEPT ![m] =
                              IF HandsOver(result) THEN "reinject" ELSE ReplyTo(result)]
            /\ thread' = IF HandsOver(result)
                         THEN [thread EXCEPT ![Now(m)] = "waiting"] ELSE thread
    BY <1>3 DEF Processed
  <2>2. Now(k)' = Now(k) /\ Now(m) \in Attempts
    BY <1>n, <2>1 DEF Now
  <2>3. CASE k = m
    <3>1. HandsOver(result)
      BY <1>t, <2>1, <2>3 DEF TypeOK, ReplyTo
    <3> QED
      BY <1>t, <2>1, <2>2, <2>3, <3>1 DEF TypeOK
  <2>4. CASE k # m
    <3>1. handler[k] = "reinject" /\ Now(k) # Now(m)
      BY <1>t, <1>n, <2>1, <2>4 DEF TypeOK
    <3> QED
      BY <1>t, <2>1, <2>2, <3>1 DEF TypeOK, CallsAreMade
  <2> QED
    BY <2>3, <2>4
<1>4. ASSUME NEW m \in Mail, Break(m) PROVE thread'[Now(k)'] # "none"
  <2>1. /\ handler[m] # "none" /\ attempt' = attempt
        /\ handler' = [handler EXCEPT ![m] = "none"]
        /\ thread' = [thread EXCEPT ![Now(m)] = Withdrawn(@)]
    BY <1>t, <1>4, BreakFrame
  <2>2. k # m /\ handler[k] = "reinject"
    BY <1>t, <2>1 DEF TypeOK
  <2>3. Now(k)' = Now(k) /\ Now(k) # Now(m) /\ Now(k) \in Attempts
    BY <1>n, <2>1, <2>2 DEF Now
  <2> QED
    BY <1>t, <2>1, <2>2, <2>3 DEF TypeOK, CallsAreMade
<1>5. ASSUME NEW a \in Attempts, StartThread(a) \/ Reinject(a) PROVE thread'[Now(k)'] # "none"
  <2>1. /\ attempt' = attempt /\ handler' = handler
        /\ \A b \in Attempts : thread'[b] = thread[b] \/ thread'[b] \in {"running", "ok", "failed"}
    BY <1>t, <1>5 DEF StartThread, Reinject, TypeOK
  <2>2. handler[k] = "reinject" /\ Now(k)' = Now(k) /\ Now(k) \in Attempts
    BY <1>n, <2>1 DEF Now
  <2> QED
    BY <2>1, <2>2 DEF CallsAreMade
<1>6. ASSUME Crash PROVE thread'[Now(k)'] # "none"
  BY <1>6, CrashFrame
<1>7. CASE UNCHANGED vars
  BY <1>7 DEF vars, CallsAreMade, Now
<1> QED
  BY <1>1, <1>2, <1>3, <1>4, <1>5, <1>6, <1>7 DEF Next, Deliver

LEMMA OwnStepLeads ==
    ASSUME GatewayInv, GatewayInv', NEW m \in Mail, OwnStep(m)
    PROVE  TurnsLeft(m)' < TurnsLeft(m)
<1>t. TypeOK /\ MessageOK(m)
  BY DEF GatewayInv
<1>n. handler[m] # "none" => Now(m) \in Attempts
  BY <1>t, NowFacts DEF MessageOK
<1>1. CASE Connect(m)
  <2>1. attempt'[m] = attempt[m] + 1
    BY <1>t, <1>1 DEF Connect, TypeOK
  <2> QED
    BY <2>1, TurnsFall
<1>2. ASSUME ~Connect(m) PROVE attempt'[m] = attempt[m] /\ Phase(m)' < Phase(m)
  <2>1. CASE Processed(m)
    <3>1. PICK result \in Pipeline!Results :
              /\ handler[m] = "process" /\ attempt' = attempt
              /\ handler' = [handler EXCEPT ![m] =
                                IF HandsOver(result) THEN "reinject" ELSE ReplyTo(result)]
              /\ thread' = IF HandsOver(result)
                           THEN [thread EXCEPT ![Now(m)] = "waiting"] ELSE thread
      BY <2>1 DEF Processed
    <3>2. Phase(m) = 5
      BY <3>1, PhaseIs
    <3>3. CASE HandsOver(result)
      <4>1. handler'[m] = "reinject" /\ Now(m)' = Now(m) /\ thread'[Now(m)'] = "waiting"
        BY <1>t, <1>n, <3>1, <3>3 DEF TypeOK, Now
      <4>2. Phase(m)' = 4
        BY <4>1 DEF Phase
      <4> QED
        BY <3>1, <3>2, <4>2
    <3>4. CASE ~HandsOver(result)
      <4>1. handler'[m] \in {"250", "451"}
        BY <1>t, <3>1, <3>4 DEF TypeOK, ReplyTo
      <4>2. Phase(m)' = 1
        BY <4>1 DEF Phase
      <4> QED
        BY <3>1, <3>2, <4>2
    <3> QED
      BY <3>3, <3>4
  <2>2. CASE Resume(m)
    <3>1. /\ handler[m] = "reinject" /\ thread[Now(m)] \in {"ok", "failed"}
          /\ handler'[m] \in {"250", "451"} /\ attempt' = attempt
      BY <1>t, <2>2 DEF Resume, AnswerFor, TypeOK
    <3>2. Phase(m) = 2 /\ Phase(m)' = 1
      BY <3>1 DEF Phase
    <3> QED
      BY <3>1, <3>2
  <2>3. CASE ReadAnswer(m)
    <3>1. handler[m] \in {"250", "451"} /\ handler'[m] = "none" /\ attempt' = attempt
      BY <1>t, <2>3 DEF ReadAnswer, TypeOK
    <3>2. Phase(m) = 1 /\ Phase(m)' = 0
      BY <3>1 DEF Phase
    <3> QED
      BY <3>1, <3>2
  <2>4. CASE handler[m] = "reinject" /\ StartThread(Now(m))
    <3>1. /\ handler[m] = "reinject" /\ handler' = handler /\ attempt' = attempt
          /\ thread[Now(m)] = "waiting" /\ thread'[Now(m)] = "running" /\ Now(m)' = Now(m)
      BY <1>t, <1>n, <2>4 DEF StartThread, TypeOK, Now
    <3>2. Phase(m) = 4 /\ Phase(m)' = 3
      BY <3>1 DEF Phase
    <3> QED
      BY <3>1, <3>2
  <2>5. CASE handler[m] = "reinject" /\ Reinject(Now(m))
    <3>1. /\ handler[m] = "reinject" /\ handler' = handler /\ attempt' = attempt
          /\ thread[Now(m)] = "running" /\ thread'[Now(m)] \in {"ok", "failed"}
          /\ Now(m)' = Now(m)
      BY <1>t, <1>n, <2>5 DEF Reinject, TypeOK, Now
    <3>2. Phase(m) = 3 /\ Phase(m)' = 2
      BY <3>1 DEF Phase
    <3> QED
      BY <3>1, <3>2
  <2> QED
    BY <1>2, <2>1, <2>2, <2>3, <2>4, <2>5 DEF OwnStep, Deliver
<1> QED
  BY <1>1, <1>2, TurnsFall

LEMMA NoStepBack ==
    ASSUME GatewayInv, GatewayInv', [Next]_vars, NEW k \in Mail
    PROVE  TurnsLeft(k)' <= TurnsLeft(k)
<1>t. TypeOK /\ \A m \in Mail : MessageOK(m)
  BY DEF GatewayInv
<1>n. ASSUME NEW m \in Mail, handler[m] # "none"
      PROVE  Now(m) \in Attempts /\ \A j \in Mail : Now(j) = Now(m) => j = m
  BY <1>t, <1>n, NowFacts DEF MessageOK
<1>p. Phase(k) \in 0..5
  BY PhaseIs
<1>1. CASE OwnStep(k)
  <2>1. TurnsLeft(k)' < TurnsLeft(k) /\ TurnsLeft(k) \in Int /\ TurnsLeft(k)' \in Int
    BY <1>1, OwnStepLeads, TurnsFall
  <2> QED
    BY <2>1
<1>2. ASSUME ~OwnStep(k) PROVE attempt'[k] = attempt[k] /\ Phase(k)' <= Phase(k)
  <2> DEFINE Still == /\ handler'[k] = handler[k] /\ attempt'[k] = attempt[k]
                      /\ handler[k] = "reinject" => thread'[Now(k)] = thread[Now(k)]
             Ended == handler'[k] = "none" /\ attempt'[k] = attempt[k]
  <2>1. CASE \E m \in Mail : Accept(m) \/ Expire(m)
    <3>1. Still
      BY <2>1 DEF Accept, Expire
    <3> QED
      BY <1>p, <3>1, PhaseFrame
  <2>2. ASSUME NEW m \in Mail, Connect(m) \/ Resume(m) \/ ReadAnswer(m) PROVE Still
    <3>1. m # k
      BY <1>2, <2>2 DEF OwnStep, Deliver
    <3> QED
      BY <1>t, <2>2, <3>1 DEF Connect, Resume, ReadAnswer, TypeOK
  <2>3. ASSUME NEW m \in Mail, Processed(m) PROVE Still
    <3>1. m # k
      BY <1>2, <2>3 DEF OwnStep, Deliver
    <3>2. /\ handler[m] = "process" /\ attempt' = attempt /\ handler'[k] = handler[k]
          /\ thread' = [thread EXCEPT ![Now(m)] = "waiting"] \/ thread' = thread
      BY <1>t, <2>3, <3>1 DEF Processed, TypeOK
    <3>3. handler[k] = "reinject" => Now(k) # Now(m) /\ Now(k) \in Attempts
      BY <1>n, <3>1
    <3> QED
      BY <1>t, <3>2, <3>3 DEF TypeOK
  <2>4. ASSUME NEW m \in Mail, Break(m) PROVE Still \/ Ended
    <3>1. /\ handler[m] # "none" /\ attempt' = attempt
          /\ handler' = [handler EXCEPT ![m] = "none"]
          /\ thread' = [thread EXCEPT ![Now(m)] = Withdrawn(@)]
      BY <1>t, <2>4, BreakFrame
    <3>2. k = m => Ended
      BY <1>t, <3>1 DEF TypeOK
    <3>3. k # m => /\ handler'[k] = handler[k]
                   /\ handler[k] = "reinject" => Now(k) # Now(m) /\ Now(k) \in Attempts
      BY <1>t, <1>n, <3>1 DEF TypeOK
    <3> QED
      BY <1>t, <3>1, <3>2, <3>3 DEF TypeOK
  <2>5. ASSUME NEW a \in Attempts, StartThread(a) \/ Reinject(a) PROVE Still
    <3>1. handler[k] = "reinject" => a # Now(k)
      BY <1>2, <2>5 DEF OwnStep
    <3>2. handler[k] = "reinject" => Now(k) \in Attempts
      BY <1>n
    <3> QED
      BY <1>t, <2>5, <3>1, <3>2 DEF StartThread, Reinject, TypeOK
  <2>6. ASSUME Crash PROVE Ended
    BY <2>6, CrashFrame
  <2>7. ASSUME UNCHANGED vars PROVE Still
    BY <2>7 DEF vars
  <2>8. Ended => Phase(k)' = 0
    BY DEF Phase
  <2>9. Still => Phase(k)' = Phase(k)
    BY PhaseFrame
  <2>10. (\E m \in Mail : Accept(m) \/ Expire(m)) \/ Still \/ Ended
    BY <2>2, <2>3, <2>4, <2>5, <2>6, <2>7 DEF Next, Deliver
  <2> QED
    BY <1>p, <2>1, <2>8, <2>9, <2>10
<1> QED
  BY <1>1, <1>2, TurnsFall

\* The safety half of EveryMailSettles (server.py:107-132, postfix's retries):
\* a message has finitely many turns, no failure gives one back, and once it is
\* settled postfix does not take it up again.
THEOREM MailMovesOn == Spec => [][DeliveriesMoveOn]_vars
<1>1. ASSUME GatewayInv, GatewayInv', [Next]_vars PROVE DeliveriesMoveOn
  <2>1. ASSUME NEW m \in Mail
        PROVE  /\ queue[m] \in {"gone", "bounced"} => queue'[m] = queue[m]
               /\ queue[m] = "queued" => queue'[m] # "new"
    <3>1. TypeOK /\ \A k \in Mail : MessageOK(k)
      BY <1>1 DEF GatewayInv
    <3>2. ASSUME NEW k \in Mail, Accept(k) \/ Expire(k) \/ ReadAnswer(k)
          PROVE  \/ queue' = queue
                 \/ /\ queue[k] \in {"new", "queued"} /\ (queue[k] = "new" => queue'[k] = "queued")
                    /\ \A j \in Mail \ {k} : queue'[j] = queue[j]
                    /\ queue'[k] # "new"
      <4>1. CASE Accept(k) \/ Expire(k)
        BY <3>1, <4>1 DEF Accept, Expire, TypeOK
      <4>2. CASE ReadAnswer(k)
        <5>1. queue[k] = "queued"
          BY <3>1, <4>2 DEF ReadAnswer, MessageOK
        <5> QED
          BY <3>1, <4>2, <5>1 DEF ReadAnswer, TypeOK
      <4> QED
        BY <3>2, <4>1, <4>2
    <3>3. CASE \E k \in Mail : Accept(k) \/ Expire(k) \/ ReadAnswer(k)
      BY <3>2, <3>3
    <3>4. CASE ~\E k \in Mail : Accept(k) \/ Expire(k) \/ ReadAnswer(k)
      <4>1. queue' = queue
        BY <1>1, <3>1, <3>4, BreakFrame, CrashFrame
           DEF Next, Deliver, Connect, Processed, Resume, StartThread, Reinject, vars
      <4> QED
        BY <4>1
    <3> QED
      BY <3>3, <3>4
  <2> QED
    BY <1>1, <2>1, OwnStepLeads, NoStepBack DEF DeliveriesMoveOn
<1>2. GatewayInv /\ GatewayInv' /\ [Next]_vars => [DeliveriesMoveOn]_vars
  BY <1>1
<1> QED
  BY <1>2, GatewayAlways, PTL DEF Spec

\* Nobody waits for what does not come: a handler's re-injection is in the pool,
\* and a message is kept out of the gateway by the sessions of others alone.
THEOREM NobodyIsForgotten == Spec => [](CallsAreMade /\ SessionsAreUsed)
<1>1. GatewayInv => SessionsAreUsed
  <2> SUFFICES ASSUME GatewayInv, NEW m \in Mail, handler[m] = "none", ~(attempt[m] > 0),
                      ~\E k \in Mail \ {m} : handler[k] # "none"
               PROVE  /\ attempt[m] < MaxAttempts[m]
                      /\ Cardinality({k \in Mail : handler[k] # "none"}) < Sessions
    BY DEF SessionsAreUsed
  <2>1. attempt[m] = 0 /\ MaxAttempts[m] \in Nat \ {0}
    BY GatewayAssumption DEF GatewayInv, TypeOK
  <2>2. {k \in Mail : handler[k] # "none"} = {}
    OBVIOUS
  <2>3. Cardinality({k \in Mail : handler[k] # "none"}) = 0
    BY <2>2, FS_EmptySet
  <2> QED
    BY <2>1, <2>3, GatewayAssumption
<1>2. Init => CallsAreMade
  BY DEF Init, CallsAreMade
<1> QED
  BY <1>1, <1>2, CallsStep, GatewayAlways, PTL DEF Spec
=============================================================================
