------------------------------ MODULE Analysis ------------------------------
(***************************************************************************)
(* The AI's analyses of messages (ai/engine.py, providers/base.py), the    *)
(* tools the model may call (tools/), and what analyses share: the look-up *)
(* cache in Redis, the UniFi address group, and the records of blocks.     *)
(*                                                                         *)
(* An action is the code from one await to the next: a request to the      *)
(* provider, a read of the cache, a look-up, a request to UniFi.  What the *)
(* provider, Redis, DNS, RDAP and UniFi answer is up to them.              *)
(***************************************************************************)
EXTENDS Naturals, Sequences, FiniteSets

CONSTANTS
    Analyses,    \* messages given to analyze_message
    Ips, Hosts,  \* what look-ups are about
    NoIp,        \* an argument or a client that is no public IPv4 address
    Client,      \* the address that delivered a message, or NoIp
    Shared,      \* addresses whose reverse name is a shared provider's
    Resolves,    \* the addresses of a host
    NoGroup,     \* UniFi before the address group exists
    Prefixes,    \* lengths of a network's prefix
    Network,     \* Network[ip][p]: the addresses that share ip's first p bits
    Configs,     \* settings an analysis may begin with, by analysis
    Answers,     \* Answers[a][r]: the turns (sequences of calls) the model may take
                 \* for message a after r rounds
    MaxRounds    \* max_iterations

\* A call with its arguments; an address that is no address is NoIp.
Calls ==
    {call \in [tool : STRING, target : Ips \union Hosts \union {NoIp}, prefix : Prefixes] :
        call.tool = "unifi_block" => call.target \in Ips \union {NoIp}}

ASSUME AnalysisAssumption ==
    /\ NoIp \notin Ips
    /\ \A blocks \in SUBSET SUBSET Ips : NoGroup # blocks
    /\ Client \in [Analyses -> Ips \union {NoIp}]
    /\ Shared \subseteq Ips
    /\ Resolves \in [Hosts -> Seq(Ips)]
    /\ Prefixes \subseteq Nat
    /\ Network \in [Ips -> [Prefixes -> SUBSET Ips]]
    /\ \A ip \in Ips, p \in Prefixes : ip \in Network[ip][p]
    /\ MaxRounds \in Nat \ {0}
    /\ \A a \in Analyses :
          /\ \A c \in Configs[a] : c.limit \in Prefixes /\ c.max_ips \in Nat
          /\ \A r \in 0..MaxRounds - 1 : Answers[a][r] \subseteq Seq(Calls)

VARIABLES
    run,         \* the local state of an analysis
    cache,       \* Redis: the value under a key, "none" without one
    group,       \* the blocks in the address group; no group: NoGroup
    flight,      \* writes of the group on their way to UniFi
    listed,      \* block-suggestions.jsonl: what it says of a message's block
    audited,     \* audit.jsonl: likewise
    blind,       \* history: addresses whose reverse look-up failed once
    overlapped,  \* history: analyses whose push overlapped another one
    cut          \* history: analyses stopped in a push, or which could not record one

analysisVars == <<run, cache, group, flight, listed, audited, blind, overlapped, cut>>
shared == <<cache, group, flight, listed, audited, blind, overlapped, cut>>

-----------------------------------------------------------------------------
(* Calls and look-ups *)

Verdict == "submit_verdict"

\* The positions of a turn's submit_verdict calls, and of the others.
Verdicts(turn) == {i \in DOMAIN turn : turn[i].tool = Verdict}
Others(turn) == DOMAIN turn \ Verdicts(turn)
First(S) == CHOOSE i \in S : \A j \in S : i <= j

\* What is looked up about addresses, one after the other.
Owners(ips) ==
    [i \in 1..(2 * Len(ips)) |->
        IF i % 2 = 1 THEN <<"rdap_ip", ips[(i + 1) \div 2]>> ELSE <<"rdns", ips[i \div 2]>>]

\* What each tool looks up first.
IpLookup(t) == IF t \in Ips THEN << <<"rdns", t>>, <<"rdap_ip", t>> >> ELSE <<>>
IpOwnership(t) ==
    IF t \in Ips THEN Owners(<<t>>) ELSE IF t \in Hosts THEN << <<"resolve", t>> >> ELSE <<>>
DomainAge(t) == IF t \in Hosts THEN << <<"rdap_domain", t>> >> ELSE <<>>
DnsVerify(t) == IF t \in Hosts THEN << <<"dns", t>> >> ELSE <<>>
SharedProviderCheck(t) == IF t \in Ips THEN << <<"rdns", t>> >> ELSE <<>>

LookUps(call) ==
    CASE call.tool = "ip_lookup" -> IpLookup(call.target)
      [] call.tool = "ip_ownership" -> IpOwnership(call.target)
      [] call.tool = "domain_age" -> DomainAge(call.target)
      [] call.tool = "dns_verify" -> DnsVerify(call.target)
      [] call.tool = "shared_provider_check" -> SharedProviderCheck(call.target)
      [] call.tool = "unifi_block" -> << <<"rdns", call.target>> >>
      [] OTHER -> <<>>

\* ip_ownership of a host goes on with the first of its addresses.
Further(key, val, limit) ==
    IF key[1] = "resolve" /\ val = "good"
    THEN LET ips == Resolves[key[2]]
         IN Owners(SubSeq(ips, 1, IF Len(ips) <= limit THEN Len(ips) ELSE limit))
    ELSE <<>>

\* What a look-up that failed returns: only RDAP's failures are errors, the
\* others look like an answer without content.
Failure(key) == IF key[1] \in {"rdap_ip", "rdap_domain"} THEN "error" ELSE "blank"

Keys == ({"rdns", "rdap_ip"} \X Ips) \union ({"resolve", "rdap_domain", "dns"} \X Hosts)

\* rollup: never wider than the administrator's limit.
Rollup(ip, prefix, limit) == Network[ip][IF prefix >= limit THEN prefix ELSE limit]

-----------------------------------------------------------------------------
(* State *)

Members == IF group = NoGroup THEN {} ELSE group
Statuses == {"refused", "suggested", "error", "executed"}
Blocks == SUBSET Ips

Idle == [at |-> "new"]
Ended(how) == [at |-> "done", outcome |-> how]
Places == {"request", "turn", "cache", "list", "write"}

Turns == {<<>>} \union UNION {Answers[a][r] : a \in Analyses, r \in 0..MaxRounds - 1}
Running == [at : Places, cfg : UNION {Configs[a] : a \in Analyses}, round : 0..MaxRounds, turn : Turns,
            results : Seq(Nat), call : Nat, todo : Seq(Keys),
            ok : BOOLEAN]
Write == [by : Analyses, id : Nat \X Nat, block : Blocks, base : {NoGroup} \union SUBSET Blocks]

AnalysisTypeOK ==
    /\ run \in [Analyses -> Running \union {Idle} \union {Ended(o) : o \in {"verdict", "failed"}}]
    /\ cache \in [Keys -> {"none", "good", "blank"}]
    /\ group \in {NoGroup} \union SUBSET Blocks
    /\ flight \subseteq Write
    /\ {listed, audited} \subseteq [Analyses -> SUBSET (Statuses \X Blocks)]
    /\ blind \subseteq Ips
    /\ overlapped \subseteq Analyses /\ cut \subseteq Analyses

AnalysisInit ==
    /\ run = [a \in Analyses |-> Idle]
    /\ cache = [k \in Keys |-> "none"]
    /\ group = NoGroup
    /\ flight = {}
    /\ listed = [a \in Analyses |-> {}]
    /\ audited = [a \in Analyses |-> {}]
    /\ blind = {}
    /\ overlapped = {}
    /\ cut = {}

-----------------------------------------------------------------------------
(* The tool loop of an analysis *)

CallOf(a) == run[a].turn[run[a].call]

\* analyze_message up to the first request.
Begin(a) ==
    /\ run[a] = Idle
    /\ \/ \E c \in Configs[a] :
             run' = [run EXCEPT ![a] =
                        [at |-> "request", cfg |-> c, round |-> 0, turn |-> <<>>,
                         results |-> <<>>, call |-> 0, todo |-> <<>>,
                         ok |-> FALSE]]
       \/ run' = [run EXCEPT ![a] = Ended("failed")]
    /\ UNCHANGED shared

\* A turn without calls, or of verdicts alone, is the last one.
IsFinal(turn) == Others(turn) = {}

\* A wrong count: a turn of tools is not a round.
SameRound(a) == run[a].round
NextRound(a) == run[a].round + 1

\* The provider answers; a final answer may not be a verdict parse_verdict takes.
Respond(a) ==
    /\ run[a].at = "request"
    /\ \E turn \in Answers[a][run[a].round] :
          IF IsFinal(turn)
          THEN \E outcome \in {"verdict", "failed"} : run' = [run EXCEPT ![a] = Ended(outcome)]
          ELSE run' = [run EXCEPT ![a].at = "turn", ![a].turn = turn, ![a].results = <<>>,
                                  ![a].round = NextRound(a)]
    /\ UNCHANGED shared

RequestFails(a) ==
    /\ run[a].at = "request"
    /\ run' = [run EXCEPT ![a] = Ended("failed")]
    /\ UNCHANGED shared

\* The calls that still need a result.
Unanswered(a) == Others(run[a].turn) \ {run[a].results[i] : i \in DOMAIN run[a].results}

\* The results of a turn, with a nudge for its first verdict.
Nudged(a) ==
    IF Verdicts(run[a].turn) = {} THEN run[a].results
    ELSE Append(run[a].results, First(Verdicts(run[a].turn)))

\* All other calls have their result: the first verdict is answered with a
\* nudge, and the next round begins, if there is one.
EndTurn(a) ==
    /\ run[a].at = "turn"
    /\ Unanswered(a) = {}
    /\ run' = IF run[a].round < MaxRounds
              THEN [run EXCEPT ![a].at = "request", ![a].results = Nudged(a)]
              ELSE [run EXCEPT ![a] = Ended("failed")]
    /\ UNCHANGED shared

Answered(a) == [run[a] EXCEPT !.at = "turn", !.results = Append(@, run[a].call),
                              !.call = 0, !.todo = <<>>, !.ok = FALSE]

-----------------------------------------------------------------------------
(* Records of a block: a line for the Blocks page, and one for the audit log *)

\* n of the two writes are done; an error is the tool's result.
Record(a, status, block, n) ==
    /\ listed' = IF status # "refused" /\ n >= 1
                 THEN [listed EXCEPT ![a] = @ \union {<<status, block>>}] ELSE listed
    /\ audited' = IF n = 2 THEN [audited EXCEPT ![a] = @ \union {<<status, block>>}]
                  ELSE audited
    /\ cut' = IF n < 2 /\ status \in {"executed", "error"} THEN cut \union {a} ELSE cut
Writes(status) == IF status = "refused" THEN {0, 2} ELSE 0..2

Recorded(a, status, block) == \E n \in Writes(status) : Record(a, status, block, n)

\* The block that a call asks for.
Asked(a, call) == Rollup(Client[a], call.prefix, run[a].cfg.limit)

\* unifi_block up to its look-up: an argument that is no address, a message
\* without a client, and another address than the client's are refused.
Refuses(a, call) == call.target = NoIp \/ Client[a] = NoIp \/ call.target # Client[a]

\* registry.execute, up to the tool's first await, if it has one.
Execute(a) ==
    /\ run[a].at = "turn"
    /\ Unanswered(a) # {}
    /\ LET i == First(Unanswered(a))
           call == run[a].turn[i]
           issued == [run EXCEPT ![a].call = i]
           refused == call.tool = "unifi_block" /\ Refuses(a, call)
           awaits == call.tool \in run[a].cfg.enabled /\ ~refused /\ LookUps(call) # <<>>
       IN /\ run' = IF awaits
                    THEN [issued EXCEPT ![a].at = "cache", ![a].todo = LookUps(call)]
                    ELSE [run EXCEPT ![a].results = Append(@, i)]
          /\ IF call.tool \in run[a].cfg.enabled /\ refused /\ NoIp \notin {call.target, Client[a]}
             THEN Recorded(a, "refused", {call.target})
             ELSE UNCHANGED <<listed, audited, cut>>
    /\ UNCHANGED <<cache, group, flight, blind, overlapped>>

-----------------------------------------------------------------------------
(* Cached look-ups *)

\* A wrong guard: the name is found, and nothing made of it.
NoGuard(a, val) == FALSE

\* match_hostname: the client's reverse name is a shared provider's.
IsShared(a, val) == val = "good" /\ Client[a] \in Shared

\* unifi_block from its look-up on: the guard, the policy, the push.
Guarded(a, val) ==
    LET block == Asked(a, CallOf(a)) IN
    IF IsShared(a, val)
    THEN run' = [run EXCEPT ![a] = Answered(a)] /\ Recorded(a, "refused", block)
    ELSE IF run[a].cfg.policy # "auto"
         THEN run' = [run EXCEPT ![a] = Answered(a)] /\ Recorded(a, "suggested", block)
         ELSE /\ run' = [run EXCEPT ![a].at = "list", ![a].todo = <<>>]
              /\ UNCHANGED <<listed, audited, cut>>

\* A look-up has a value: the next one, the block, or the tool's result.
Found(a, val) ==
    LET key == Head(run[a].todo)
        rest == Tail(run[a].todo) \o Further(key, val, run[a].cfg.max_ips)
    IN IF rest = <<>> /\ CallOf(a).tool = "unifi_block"
       THEN Guarded(a, val)
       ELSE /\ run' = [run EXCEPT ![a] = IF rest = <<>> THEN Answered(a)
                                         ELSE [@ EXCEPT !.at = "cache", !.todo = rest]]
            /\ UNCHANGED <<listed, audited, cut>>

\* cached: a value that Redis has is taken.
Hit(a) ==
    /\ run[a].at = "cache"
    /\ cache[Head(run[a].todo)] # "none"
    /\ Found(a, cache[Head(run[a].todo)])
    /\ UNCHANGED <<cache, group, flight, blind, overlapped>>

\* What is written to Redis, if it can be: all but errors.  A wrong rule: all.
Everything(val) == TRUE
Cacheable(val) == val # "error"

\* cached: Redis has no value, or does not answer; the look-up ends with one,
\* which is cached unless it cannot be.  Others may have cached a value since
\* this analysis found none.
Look(a) ==
    /\ run[a].at = "cache"
    /\ \E val \in {"good", Failure(Head(run[a].todo))} :
          /\ cache' \in {cache} \union
                 IF Cacheable(val) THEN {[cache EXCEPT ![Head(run[a].todo)] = val]} ELSE {}
          /\ blind' = IF val = "blank" /\ Head(run[a].todo)[1] = "rdns"
                      THEN blind \union {Head(run[a].todo)[2]} ELSE blind
          /\ Found(a, val)
    /\ UNCHANGED <<group, flight, overlapped>>

\* Redis forgets a value: its time is up, or it was restarted.
Forget(k) ==
    /\ cache[k] # "none"
    /\ cache' = [cache EXCEPT ![k] = "none"]
    /\ UNCHANGED <<run, group, flight, listed, audited, blind, overlapped, cut>>

-----------------------------------------------------------------------------
(* The address group *)

Id(a) == <<run[a].round, run[a].call>>

\* push_block: UniFi answers with its groups, and the new list is sent, as a
\* new group or to the one there is.  Nothing the analysis does lies between.
List(a) ==
    /\ run[a].at = "list"
    /\ run' = [run EXCEPT ![a].at = "write"]
    /\ flight' = flight \union
           {[by |-> a, id |-> Id(a), block |-> Asked(a, CallOf(a)), base |-> group]}
    /\ overlapped' = IF flight = {} THEN overlapped
                     ELSE overlapped \union {a} \union {w.by : w \in flight}
    /\ UNCHANGED <<cache, group, listed, audited, blind, cut>>

\* A wrong list: the new block alone.
OnlyNew(w) == {w.block}

\* The members a write sends.
Sent(w) == IF w.base = NoGroup THEN {w.block} ELSE w.base \union {w.block}

\* A write takes effect, perhaps after its sender has given up.  A second group
\* of the same name comes after the first, which is the one that counts.
Land(w) ==
    /\ w \in flight
    /\ flight' = flight \ {w}
    /\ group' = IF w.base = NoGroup /\ group # NoGroup THEN group ELSE Sent(w)
    /\ run' = IF run[w.by].at = "write" /\ Id(w.by) = w.id
              THEN [run EXCEPT ![w.by].ok = TRUE] ELSE run
    /\ UNCHANGED <<cache, listed, audited, blind, overlapped, cut>>

\* A write never reaches UniFi.
Vanish(w) ==
    /\ w \in flight
    /\ flight' = flight \ {w}
    /\ UNCHANGED <<run, cache, group, listed, audited, blind, overlapped, cut>>

\* UniFi's answer, and the record of the block.
Confirm(a) ==
    /\ run[a].at = "write"
    /\ run[a].ok
    /\ run' = [run EXCEPT ![a] = Answered(a)]
    /\ Recorded(a, "executed", Asked(a, CallOf(a)))
    /\ UNCHANGED <<cache, group, flight, blind, overlapped>>

\* The push fails, or its answer is lost.
PushFails(a) ==
    /\ run[a].at \in {"list", "write"}
    /\ run' = [run EXCEPT ![a] = Answered(a)]
    /\ Recorded(a, "error", Asked(a, CallOf(a)))
    /\ UNCHANGED <<cache, group, flight, blind, overlapped>>

\* The analysis runs out of time, or its session ends.
Stop(a) ==
    /\ run[a].at \in Places \ {"turn"}
    /\ run' = [run EXCEPT ![a] = Ended("failed")]
    /\ cut' = IF run[a].at = "write" THEN cut \union {a} ELSE cut
    /\ UNCHANGED <<cache, group, flight, listed, audited, blind, overlapped>>

-----------------------------------------------------------------------------

Step(a) ==
    \/ Respond(a) \/ RequestFails(a) \/ EndTurn(a) \/ Execute(a)
    \/ Hit(a) \/ Look(a)
    \/ List(a) \/ Confirm(a) \/ PushFails(a)

AnalysisNext ==
    \/ \E a \in Analyses : Begin(a) \/ Step(a) \/ Stop(a)
    \/ \E k \in Keys : Forget(k)
    \/ \E w \in flight : Land(w) \/ Vanish(w)

AnalysisSpec == AnalysisInit /\ [][AnalysisNext]_analysisVars

\* Every request has a time-out; a wait in the middle of nothing does not last.
AnalysisFairness == \A a \in Analyses : WF_analysisVars(Step(a))

AnalysisFairSpec == AnalysisSpec /\ AnalysisFairness

-----------------------------------------------------------------------------
(* Properties *)

\* unifi.py:8-10 "NEVER blocks an IP whose rDNS matches a known shared mail
\* provider", UNIFI.md:58 "always refused".
SharedProvidersNeverBlocked == \A block \in Members : block \intersect Shared = {}

\* How far unifi_block keeps to that: every network in the group is the one of a
\* client at a length that an administrator's limit allows, pushed under "auto";
\* and if that client is a shared provider's, its reverse look-up returned no
\* name before.  The client's neighbours in the network are not looked up: they
\* may be a shared provider's although every look-up succeeds.
BlocksJustified ==
    \A block \in Members : \E a \in Analyses : \E c \in Configs[a], p \in Prefixes :
        /\ c.policy = "auto" /\ p >= c.limit
        /\ Client[a] \in Ips /\ block = Network[Client[a]][p]
        /\ Client[a] \in Shared => Client[a] \in blind

\* What the audit log says of a block UniFi confirmed stays true: the Blocks page
\* has it too, and every later push, which sends the whole list anew, keeps it in
\* force, but for pushes that overlapped another one.
ExecutedStaysInForce ==
    \A a \in Analyses, block \in Blocks : <<"executed", block>> \in audited[a] =>
        /\ block \in Members \/ a \in overlapped
        /\ <<"executed", block>> \in listed[a]

\* An analysis ends, whatever the model asks for: the rounds are bounded, and
\* each of them is.
EveryAnalysisEnds == \A a \in Analyses : run[a] # Idle ~> run[a].at = "done"
=============================================================================
