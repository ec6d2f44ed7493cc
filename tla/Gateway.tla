------------------------------ MODULE Gateway ------------------------------
(***************************************************************************)
(* A message's way through the gateway: postfix's queue (external), the    *)
(* SMTP content filter (app/smtp/server.py), the pipeline behind it, and   *)
(* the re-injection into postfix (app/deliver.py) on the thread pool of    *)
(* the event loop.  The pipeline is taken at its word: its part of each    *)
(* step is an action of Disposition.                                       *)
(*                                                                         *)
(* Each delivery attempt of postfix is one SMTP session with one DATA      *)
(* command, so the handler of an attempt is the handler of its message.    *)
(* The re-injection is not: when the session ends early the coroutine is   *)
(* cancelled, but a thread that runs is not.                               *)
(***************************************************************************)
EXTENDS Naturals, FiniteSets

CONSTANTS
    Mail,         \* messages
    Rcpts,        \* the envelope recipients of a message
    MaxAttempts,  \* its delivery attempts within maximal_queue_lifetime
    Sessions,     \* maxproc of postfix's spamallam transport
    Workers       \* threads of the event loop's default executor

ASSUME GatewayAssumption ==
    /\ IsFiniteSet(Mail)
    /\ \A m \in Mail : Rcpts[m] # {}
    /\ MaxAttempts \in [Mail -> Nat \ {0}]
    /\ Sessions \in Nat \ {0}
    /\ Workers \in Nat \ {0}

AttemptsOf(m) == {m} \X (1..MaxAttempts[m])
Attempts == UNION {AttemptsOf(m) : m \in Mail}

VARIABLES
    queue,     \* postfix: what its queue knows of a message
    attempt,   \* postfix: the number of its delivery attempts
    read,      \* postfix: the answer it read to an attempt's DATA
    handler,   \* where the handler of a message's session is
    thread,    \* the re-injection of an attempt, in the executor
    got,       \* the recipients :10025 accepted an attempt's copy for
    outcome, held, detected  \* the pipeline's side, see Disposition

pipelineVars == <<outcome, held, detected>>
vars == <<queue, attempt, read, handler, thread, got, outcome, held, detected>>

Pipeline == INSTANCE Disposition WITH Jobs <- Attempts, Forgetful <- {}

Threads == {"none", "waiting", "running", "ok", "failed"}

TypeOK ==
    /\ queue \in [Mail -> {"new", "queued", "gone", "bounced"}]
    /\ attempt \in [Mail -> Nat] /\ \A m \in Mail : attempt[m] <= MaxAttempts[m]
    /\ read \in [Attempts -> {"none", "250", "451"}]
    /\ handler \in [Mail -> {"none", "process", "reinject", "250", "451"}]
    /\ thread \in [Attempts -> Threads]
    /\ got \in [Attempts -> SUBSET UNION {Rcpts[m] : m \in Mail}]
    /\ outcome \in [Attempts -> Pipeline!Results \union {"none", "ABORTED"}]
    /\ held \subseteq Attempts
    /\ detected \subseteq Attempts

Init ==
    /\ queue = [m \in Mail |-> "new"]
    /\ attempt = [m \in Mail |-> 0]
    /\ read = [a \in Attempts |-> "none"]
    /\ handler = [m \in Mail |-> "none"]
    /\ thread = [a \in Attempts |-> "none"]
    /\ got = [a \in Attempts |-> {}]
    /\ Pipeline!Init

\* The attempt a message's session belongs to.
Now(m) == <<m, attempt[m]>>

-----------------------------------------------------------------------------
(* postfix *)

\* The Internet-facing listener accepts a message into the queue.
Accept(m) ==
    /\ queue[m] = "new"
    /\ queue' = [queue EXCEPT ![m] = "queued"]
    /\ UNCHANGED <<attempt, read, handler, thread, got, pipelineVars>>

\* The queue manager hands it to the content filter, again and again while it
\* is deferred.
Connect(m) ==
    /\ queue[m] = "queued"
    /\ handler[m] = "none"
    /\ attempt[m] < MaxAttempts[m]
    /\ Cardinality({k \in Mail : handler[k] # "none"}) < Sessions
    /\ attempt' = [attempt EXCEPT ![m] = @ + 1]
    /\ handler' = [handler EXCEPT ![m] = "process"]
    /\ UNCHANGED <<queue, read, thread, got, pipelineVars>>

\* It reads the answer to DATA.
ReadAnswer(m) ==
    /\ handler[m] \in {"250", "451"}
    /\ read' = [read EXCEPT ![Now(m)] = handler[m]]
    /\ queue' = [queue EXCEPT ![m] = IF handler[m] = "250" THEN "gone" ELSE @]
    /\ handler' = [handler EXCEPT ![m] = "none"]
    /\ UNCHANGED <<attempt, thread, got, pipelineVars>>

\* A message that outlives its queue lifetime is returned to its sender.
Expire(m) ==
    /\ queue[m] = "queued"
    /\ handler[m] = "none"
    /\ attempt[m] > 0
    /\ queue' = [queue EXCEPT ![m] = "bounced"]
    /\ UNCHANGED <<attempt, read, handler, thread, got, pipelineVars>>

-----------------------------------------------------------------------------
(* handle_DATA *)

\* A wrong handler: the action DROP falls under "anything but DELIVER".
ReplyDeferred(result) == "451"

\* Where the handler goes with a result it does not re-inject: a drop is
\* accepted and discarded, anything else, an exception included, asks postfix
\* to retry.
ReplyTo(result) == IF result = "DROP" THEN "250" ELSE "451"

\* A wrong handler: it fails open, a pipeline that raised delivers the message.
HandsOverAnyway(result) == result \in {"DELIVER", "EXCEPTION"}

\* A decision to deliver is handed to run_in_executor.
HandsOver(result) == result = "DELIVER"

\* process() returns or raises.
Processed(m) ==
    \E result \in Pipeline!Results, kept, found \in BOOLEAN :
        /\ handler[m] = "process"
        /\ Pipeline!Answer(Now(m), result, kept, found)
        /\ handler' = [handler EXCEPT ![m] =
                          IF HandsOver(result) THEN "reinject" ELSE ReplyTo(result)]
        /\ thread' = IF HandsOver(result)
                     THEN [thread EXCEPT ![Now(m)] = "waiting"] ELSE thread
        /\ UNCHANGED <<queue, attempt, read, got>>

\* A wrong pool: a thread whose re-injection failed does not come back.
BusyForever == {a \in Attempts : thread[a] \in {"running", "failed"}}

Busy == {a \in Attempts : thread[a] = "running"}

\* A free thread of the pool takes the next call.
StartThread(a) ==
    /\ thread[a] = "waiting"
    /\ Cardinality(Busy) < Workers
    /\ thread' = [thread EXCEPT ![a] = "running"]
    /\ UNCHANGED <<queue, attempt, read, handler, got, pipelineVars>>

\* smtplib: sendmail raises when no recipient is accepted, not when some are;
\* an answer that is lost after the message was accepted (a timeout, an error
\* of QUIT) raises as well.
Raises(R, lost) == R = {} \/ lost

\* reinject: one transaction with :10025, which accepts the message for the
\* recipients R.
Reinject(a) ==
    \E R \in SUBSET Rcpts[a[1]], lost \in BOOLEAN :
        /\ thread[a] = "running"
        /\ got' = [got EXCEPT ![a] = R]
        /\ thread' = [thread EXCEPT ![a] = IF Raises(R, lost) THEN "failed" ELSE "ok"]
        /\ UNCHANGED <<queue, attempt, read, handler, pipelineVars>>

\* Two wrong answers: a failed re-injection is answered like a good one; the
\* state of the thread stands for the answer.
AnswerAlways(state) == "250"
AnswerRaw(state) == state

\* The answer to a re-injection that ended.
AnswerFor(state) == IF state = "ok" THEN "250" ELSE "451"

\* The coroutine goes on when its thread is done.
Resume(m) ==
    /\ handler[m] = "reinject"
    /\ thread[Now(m)] \in {"ok", "failed"}
    /\ handler' = [handler EXCEPT ![m] = AnswerFor(thread[Now(m)])]
    /\ UNCHANGED <<queue, attempt, read, thread, got, pipelineVars>>

-----------------------------------------------------------------------------
(* Failures *)

\* Cancelling the coroutine withdraws a call that still waits for a thread.
Withdrawn(t) == IF t = "waiting" THEN "none" ELSE t

\* The session ends without postfix having read an answer: smtp_data_done_
\* timeout, a restart of postfix, a broken connection.  aiosmtpd cancels the
\* handler; the pipeline with it, if it still runs.
Break(m) ==
    /\ handler[m] # "none"
    /\ handler' = [handler EXCEPT ![m] = "none"]
    /\ thread' = [thread EXCEPT ![Now(m)] = Withdrawn(@)]
    /\ IF handler[m] = "process" THEN Pipeline!Abort({Now(m)}, {})
       ELSE UNCHANGED pipelineVars
    /\ UNCHANGED <<queue, attempt, read, got>>

\* The container dies: every session, every job and every thread is gone.
Crash ==
    /\ (\E m \in Mail : handler[m] # "none") \/ Busy # {}
    /\ handler' = [m \in Mail |-> "none"]
    /\ thread' = [a \in Attempts |->
                     IF thread[a] \in {"waiting", "running"} THEN "none" ELSE thread[a]]
    /\ IF \E m \in Mail : handler[m] = "process"
       THEN LET S == {Now(m) : m \in {k \in Mail : handler[k] = "process"}}
            IN  \E K \in Pipeline!Left(S) : Pipeline!Abort(S, K)
       ELSE UNCHANGED pipelineVars
    /\ UNCHANGED <<queue, attempt, read, got>>

Deliver(m) == Connect(m) \/ Processed(m) \/ Resume(m) \/ ReadAnswer(m)

Next ==
    \/ \E m \in Mail : Accept(m) \/ Deliver(m) \/ Expire(m) \/ Break(m)
    \/ \E a \in Attempts : StartThread(a) \/ Reinject(a)
    \/ Crash

Spec == Init /\ [][Next]_vars

\* postfix retries a deferred message and returns it in the end; process()
\* ends (Pipeline, EveryMailAnswered); a transaction with :10025 has a timeout;
\* the event loop and the pool run what is ready.
Fairness ==
    /\ \A m \in Mail : WF_vars(Deliver(m)) /\ WF_vars(Expire(m))
    /\ \A a \in Attempts : WF_vars(StartThread(a)) /\ WF_vars(Reinject(a))

FairSpec == Spec /\ Fairness

-----------------------------------------------------------------------------
(* Properties *)

\* What has become of a message.
EffectsOf(m) ==
    {e \in {"delivered", "held", "discarded", "returned"} :
        \/ e = "delivered" /\ \E a \in AttemptsOf(m) : got[a] # {}
        \/ e = "held" /\ AttemptsOf(m) \intersect held # {}
        \/ e = "discarded" /\ AttemptsOf(m) \intersect detected # {}
        \/ e = "returned" /\ queue[m] = "bounced"}

PlaceOf(m) ==
    CASE queue[m] = "new" -> "outside"
      [] queue[m] = "queued" -> "queue"
      [] queue[m] \in {"gone", "bounced"} -> "settled"

Outside == INSTANCE Custody WITH
    place   <- [m \in Mail |-> PlaceOf(m)],
    effects <- [m \in Mail |-> EffectsOf(m)]

\* The gateway implements Custody: postfix lets go of a message only when it
\* was delivered, is held in quarantine, was discarded for what it is, or went
\* back to its sender - across pipeline failures, failed re-injections, broken
\* sessions, threads that outlive them, and crashes (server.py:107-132).
NeverLost == Outside!Spec

\* An attempt that postfix was told to repeat had no effect, unless the step
\* that failed is the very one that had it: the re-injection whose answer was
\* lost, or the pipeline that raised after it wrote the quarantine entry.  Only
\* these, and sessions and programs that ended with no answer, can give a
\* recipient a second copy or leave a held copy of a delivered message
\* (server.py:107-129).
DeferredHadNoEffect ==
    \A a \in Attempts : read[a] = "451" =>
        /\ got[a] # {} => thread[a] = "failed"
        /\ a \in held => outcome[a] = "EXCEPTION"
        /\ a \notin detected

\* A message the pipeline did not decide to deliver reaches nobody, not even
\* through a thread that outlived its session: what an attempt delivered was
\* neither held nor discarded by it (analyzer.py:147-211, server.py:113-121).
OnlyDecidedMailIsReinjected ==
    \A a \in Attempts : got[a] # {} =>
        outcome[a] = "DELIVER" /\ a \notin held \union detected

\* Every message postfix accepted is settled in the end, even if every attempt
\* breaks.
EveryMailSettles ==
    \A m \in Mail : (queue[m] = "queued") ~> (queue[m] \in {"gone", "bounced"})

\* Every recipient of a message that postfix was told is delivered got it, or
\* it is held or discarded for all: "we either re-inject the tagged message
\* into postfix :10025 for delivery, silently drop it, or tempfail so postfix
\* retries later" (server.py:4-6).  A recipient that :10025 refuses while it
\* accepts another gets nothing and nobody is told.
EveryRecipientServed ==
    \A m \in Mail : queue[m] = "gone" =>
        \/ \A r \in Rcpts[m] : \E a \in AttemptsOf(m) : r \in got[a]
        \/ AttemptsOf(m) \intersect (held \union detected) # {}
=============================================================================
