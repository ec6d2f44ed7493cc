--------------------------- MODULE AnalysisProofs ---------------------------
(***************************************************************************)
(* Proofs about Analysis, for any analyses, addresses, networks, settings  *)
(* and turns of the model, and any number of rounds.                       *)
(***************************************************************************)
EXTENDS Analysis, SequenceTheorems, FiniteSetTheorems, WellFoundedInduction, TLAPS

InCall == {"cache", "list", "write"}
InPush == {"list", "write"}

\* The results of a turn so far are those of different calls, none of them the
\* one that is being made, and a request has all of the turn before.
ResultsOK(a) ==
    LET r == run[a] IN
    r.at \in Places =>
        /\ r.at = "request" => r.round < MaxRounds
        /\ \A i, j \in DOMAIN r.results : r.results[i] = r.results[j] => i = j
        /\ r.at # "request" => \A i \in DOMAIN r.results : r.results[i] \in Others(r.turn)
        /\ r.at = "request" => \A i \in DOMAIN r.turn :
              \/ \E j \in DOMAIN r.results : r.results[j] = i
              \/ i \in Verdicts(r.turn) /\ \E k \in Verdicts(r.turn) : k < i
        /\ r.at \in InCall => r.call \in Unanswered(a)

\* A block is made only for the client, after its reverse name was looked up.
CallOK(a) ==
    /\ run[a].at = "cache" => run[a].todo # <<>>
    /\ run[a].at \in InPush => CallOf(a).tool = "unifi_block"
    /\ run[a].at \in InCall /\ CallOf(a).tool = "unifi_block" =>
          /\ Client[a] \in Ips
          /\ run[a].at = "cache" => run[a].todo = << <<"rdns", Client[a]>> >>

LoopInv ==
    /\ AnalysisTypeOK
    /\ \A a \in Analyses : ResultsOK(a) /\ CallOK(a)

-----------------------------------------------------------------------------
(* Helpers *)

LEMMA FirstIsLeast ==
    ASSUME NEW S, S \subseteq Nat, S # {}
    PROVE  First(S) \in S /\ \A j \in S : First(S) <= j
<1> DEFINE R == {pair \in Nat \X Nat : pair[1] < pair[2]}
<1>1. IsWellFoundedOn(R, Nat)
  BY NatLessThanWellFounded DEF OpToRel
<1>2. \A i, j \in Nat : j < i => <<j, i>> \in R
  OBVIOUS
<1> HIDE DEF R
<1>3. \E i \in S : \A j \in S : ~(<<j, i>> \in R)
  BY <1>1, WFMin
<1>4. PICK i \in S : \A j \in S : ~(<<j, i>> \in R)
  BY <1>3
<1>5. \A j \in S : ~(j < i)
  BY <1>2, <1>4
<1>6. \A j \in S : i <= j
  BY <1>5
<1> QED
  BY <1>6 DEF First

LEMMA TurnType ==
    ASSUME NEW turn \in Turns
    PROVE  turn \in Seq(Calls)
<1>1. <<>> \in Seq(Calls)
  OBVIOUS
<1>2. \A a \in Analyses, r \in 0..MaxRounds - 1 : Answers[a][r] \subseteq Seq(Calls)
  BY AnalysisAssumption
<1>3. turn = <<>> \/ \E a \in Analyses, r \in 0..MaxRounds - 1 : turn \in Answers[a][r]
  BY DEF Turns
<1> QED
  BY <1>1, <1>2, <1>3

LEMMA Positions ==
    ASSUME NEW turn \in Seq(Calls)
    PROVE  /\ Others(turn) \subseteq DOMAIN turn
           /\ Verdicts(turn) \subseteq DOMAIN turn
           /\ DOMAIN turn \subseteq Nat
           /\ \A i \in DOMAIN turn : turn[i] \in Calls
           /\ \A i \in DOMAIN turn : i \in Verdicts(turn) \/ i \in Others(turn)
           /\ Verdicts(turn) \intersect Others(turn) = {}
BY DEF Others, Verdicts

LEMMA OwnersType ==
    ASSUME NEW ips \in Seq(Ips)
    PROVE  Owners(ips) \in Seq(Keys)
<1>1. Len(ips) \in Nat
  OBVIOUS
<1>2. ASSUME NEW i \in 1..(2 * Len(ips)), i % 2 = 1 PROVE (i + 1) \div 2 \in 1..Len(ips)
  BY <1>1, <1>2
<1>3. ASSUME NEW i \in 1..(2 * Len(ips)), i % 2 # 1 PROVE i \div 2 \in 1..Len(ips)
  BY <1>1, <1>3
<1>4. \A j \in 1..Len(ips) : ips[j] \in Ips
  OBVIOUS
<1>5. \A ip \in Ips : <<"rdap_ip", ip>> \in Keys /\ <<"rdns", ip>> \in Keys
  BY DEF Keys
<1>6. \A i \in 1..(2 * Len(ips)) : Owners(ips)[i] \in Keys
  BY <1>2, <1>3, <1>4, <1>5 DEF Owners
<1> QED
  BY <1>1, <1>6, IsASeq DEF Owners

LEMMA LookUpsType ==
    ASSUME NEW call \in Calls, call.tool = "unifi_block" => call.target \in Ips
    PROVE  LookUps(call) \in Seq(Keys)
<1>1. /\ \A ip \in Ips : <<"rdap_ip", ip>> \in Keys /\ <<"rdns", ip>> \in Keys
      /\ \A h \in Hosts : /\ <<"resolve", h>> \in Keys /\ <<"dns", h>> \in Keys
                          /\ <<"rdap_domain", h>> \in Keys
  BY DEF Keys
<1>2. \A ip \in Ips : <<ip>> \in Seq(Ips)
  OBVIOUS
<1>3. \A ip \in Ips : Owners(<<ip>>) \in Seq(Keys)
  BY <1>2, OwnersType
<1>4. <<>> \in Seq(Keys) /\ \A k \in Keys : <<k>> \in Seq(Keys)
  OBVIOUS
<1>5. \A j, k \in Keys : <<j, k>> \in Seq(Keys)
  OBVIOUS
<1>6. IpLookup(call.target) \in Seq(Keys)
  BY <1>1, <1>4, <1>5 DEF IpLookup
<1>7. IpOwnership(call.target) \in Seq(Keys)
  BY <1>1, <1>3, <1>4 DEF IpOwnership
<1>8. DomainAge(call.target) \in Seq(Keys) /\ DnsVerify(call.target) \in Seq(Keys)
  BY <1>1, <1>4 DEF DomainAge, DnsVerify
<1>9. SharedProviderCheck(call.target) \in Seq(Keys)
  BY <1>1, <1>4 DEF SharedProviderCheck
<1>10. call.tool = "unifi_block" => << <<"rdns", call.target>> >> \in Seq(Keys)
  BY <1>1, <1>4
<1> QED
  BY <1>4, <1>6, <1>7, <1>8, <1>9, <1>10 DEF LookUps

LEMMA FurtherType ==
    ASSUME NEW key \in Keys, NEW val, NEW limit \in Nat
    PROVE  /\ Further(key, val, limit) \in Seq(Keys)
           /\ key[1] = "rdns" => Further(key, val, limit) = <<>>
<1>1. CASE key[1] = "resolve" /\ val = "good"
  <2>1. key[2] \in Hosts
    BY <1>1 DEF Keys
  <2>2. Resolves[key[2]] \in Seq(Ips)
    BY <2>1, AnalysisAssumption
  <2> DEFINE ips == Resolves[key[2]]
             n == IF Len(ips) <= limit THEN Len(ips) ELSE limit
  <2>3. n \in 0..Len(ips)
    BY <2>2
  <2>4. SubSeq(ips, 1, n) \in Seq(Ips)
    BY <2>2, <2>3, SubSeqProperties
  <2> QED
    BY <1>1, <2>4, OwnersType DEF Further
<1>2. CASE ~(key[1] = "resolve" /\ val = "good")
  BY <1>2 DEF Further
<1> QED
  BY <1>1, <1>2

LEMMA RollupHolds ==
    ASSUME NEW ip \in Ips, NEW p \in Prefixes, NEW q \in Prefixes
    PROVE  ip \in Rollup(ip, p, q) /\ Rollup(ip, p, q) \in Blocks
BY AnalysisAssumption DEF Rollup, Blocks

\* The state of an analysis that runs is a record of the right kind.
LEMMA RunningRecord ==
    ASSUME AnalysisTypeOK, NEW a \in Analyses, run[a].at \in Places
    PROVE  run[a] \in Running
BY DEF AnalysisTypeOK, Idle, Ended, Places

LEMMA LimitType ==
    ASSUME NEW c \in UNION {Configs[a] : a \in Analyses}
    PROVE  c.limit \in Prefixes /\ c.max_ips \in Nat
BY AnalysisAssumption

\* The call that is being made is one of the turn's, and no verdict.
LEMMA CallType ==
    ASSUME LoopInv, NEW a \in Analyses, run[a].at \in InCall
    PROVE  /\ run[a] \in Running
           /\ run[a].call \in DOMAIN run[a].turn /\ run[a].call \in Nat
           /\ CallOf(a) \in Calls
           /\ CallOf(a).tool = "unifi_block" => Asked(a, CallOf(a)) \in Blocks
                                                /\ Client[a] \in Asked(a, CallOf(a))
<1>1. run[a] \in Running
  BY RunningRecord DEF LoopInv, InCall, Places
<1>2. run[a].turn \in Seq(Calls)
  BY <1>1, TurnType DEF Running
<1>3. run[a].call \in Others(run[a].turn)
  BY DEF LoopInv, ResultsOK, InCall, Places, Unanswered
<1>4. run[a].call \in DOMAIN run[a].turn /\ run[a].call \in Nat /\ CallOf(a) \in Calls
  BY <1>2, <1>3, Positions DEF CallOf
<1>5. CallOf(a).prefix \in Prefixes /\ run[a].cfg.limit \in Prefixes
  BY <1>1, <1>4, LimitType DEF Running, Calls
<1>6. CallOf(a).tool = "unifi_block" => Client[a] \in Ips
  BY DEF LoopInv, CallOK, InCall
<1> QED
  BY <1>1, <1>4, <1>5, <1>6, RollupHolds DEF Asked

\* A step of one analysis leaves the others as they are.
LEMMA OneMoves ==
    ASSUME LoopInv, NEW a \in Analyses,
           NEW new \in Running \union {Idle} \union {Ended(o) : o \in {"verdict", "failed"}},
           run' = [run EXCEPT ![a] = new], ResultsOK(a)', CallOK(a)'
    PROVE  /\ run' \in [Analyses -> Running \union {Idle}
                                     \union {Ended(o) : o \in {"verdict", "failed"}}]
           /\ \A b \in Analyses : ResultsOK(b)' /\ CallOK(b)'
<1>1. /\ run' \in [Analyses -> Running \union {Idle}
                               \union {Ended(o) : o \in {"verdict", "failed"}}]
      /\ \A b \in Analyses \ {a} : run'[b] = run[b]
  BY DEF LoopInv, AnalysisTypeOK
<1>2. \A b \in Analyses \ {a} : ResultsOK(b)' /\ CallOK(b)'
  BY <1>1 DEF LoopInv, ResultsOK, CallOK, CallOf, Unanswered
<1> QED
  BY <1>1, <1>2

LEMMA EndedMoves ==
    ASSUME LoopInv, NEW a \in Analyses, NEW o \in {"verdict", "failed"},
           run' = [run EXCEPT ![a] = Ended(o)]
    PROVE  /\ run' \in [Analyses -> Running \union {Idle}
                                     \union {Ended(x) : x \in {"verdict", "failed"}}]
           /\ \A b \in Analyses : ResultsOK(b)' /\ CallOK(b)'
<1>1. run'[a].at = "done"
  BY DEF LoopInv, AnalysisTypeOK, Ended
<1>2. ResultsOK(a)' /\ CallOK(a)'
  BY <1>1 DEF ResultsOK, CallOK, Places, InCall, InPush
<1> QED
  BY <1>2, OneMoves

\* The records of a block, however many of the two writes are done.
LEMMA RecordType ==
    ASSUME AnalysisTypeOK, NEW a \in Analyses, NEW status \in Statuses, NEW block \in Blocks,
           Recorded(a, status, block)
    PROVE  /\ {listed', audited'} \subseteq [Analyses -> SUBSET (Statuses \X Blocks)]
           /\ cut' \subseteq Analyses
BY DEF AnalysisTypeOK, Recorded, Record

-----------------------------------------------------------------------------
(* The steps of the tool loop *)

LEMMA LoopInit == AnalysisInit => LoopInv
<1> SUFFICES ASSUME AnalysisInit PROVE LoopInv
  OBVIOUS
<1>1. AnalysisTypeOK
  BY DEF AnalysisInit, AnalysisTypeOK
<1>2. \A a \in Analyses : run[a].at = "new"
  BY DEF AnalysisInit, Idle
<1> QED
  BY <1>1, <1>2 DEF LoopInv, ResultsOK, CallOK, Places, InCall, InPush

LEMMA BeginStep ==
    ASSUME LoopInv, NEW a \in Analyses, Begin(a)
    PROVE  LoopInv'
<1>1. CASE run' = [run EXCEPT ![a] = Ended("failed")]
  BY <1>1, EndedMoves DEF Begin, LoopInv, AnalysisTypeOK, shared
<1>2. ASSUME NEW c \in Configs[a],
             run' = [run EXCEPT ![a] =
                        [at |-> "request", cfg |-> c, round |-> 0, turn |-> <<>>,
                         results |-> <<>>, call |-> 0, todo |-> <<>>, ok |-> FALSE]]
      PROVE  LoopInv'
  <2> DEFINE new == [at |-> "request", cfg |-> c, round |-> 0, turn |-> <<>>,
                     results |-> <<>>, call |-> 0, todo |-> <<>>, ok |-> FALSE]
  <2>1. /\ <<>> \in Turns /\ <<>> \in Seq(Nat) /\ <<>> \in Seq(Keys)
        /\ 0 \in 0..MaxRounds /\ 0 < MaxRounds
        /\ c \in UNION {Configs[x] : x \in Analyses}
    BY AnalysisAssumption DEF Turns
  <2>2. new \in Running
    BY <2>1 DEF Running, Places
  <2>3. run'[a] = new
    BY <1>2 DEF LoopInv, AnalysisTypeOK
  <2>4. ResultsOK(a)' /\ CallOK(a)'
    BY <2>1, <2>3 DEF ResultsOK, CallOK, InCall, InPush
  <2> QED
    BY <1>2, <2>2, <2>4, OneMoves DEF Begin, LoopInv, AnalysisTypeOK, shared
<1> QED
  BY <1>1, <1>2 DEF Begin

LEMMA RespondStep ==
    ASSUME LoopInv, NEW a \in Analyses, Respond(a)
    PROVE  LoopInv'
<1>1. run[a] \in Running /\ run[a].at = "request" /\ run[a].round < MaxRounds
  BY RunningRecord DEF LoopInv, Respond, ResultsOK, Places
<1>2. PICK turn \in Answers[a][run[a].round] :
          IF IsFinal(turn)
          THEN \E outcome \in {"verdict", "failed"} : run' = [run EXCEPT ![a] = Ended(outcome)]
          ELSE run' = [run EXCEPT ![a].at = "turn", ![a].turn = turn, ![a].results = <<>>,
                                  ![a].round = NextRound(a)]
  BY DEF Respond
<1>3. CASE IsFinal(turn)
  BY <1>2, <1>3, EndedMoves DEF Respond, LoopInv, AnalysisTypeOK, shared
<1>4. CASE ~IsFinal(turn)
  <2> DEFINE new == [run[a] EXCEPT !.at = "turn", !.turn = turn, !.results = <<>>,
                                   !.round = NextRound(a)]
  <2>1. run[a].round \in 0..MaxRounds - 1
    BY <1>1, AnalysisAssumption DEF Running
  <2>2. turn \in Turns
    BY <2>1 DEF Turns
  <2>3. <<>> \in Seq(Nat) /\ run[a].round + 1 \in 0..MaxRounds
    BY <2>1, AnalysisAssumption
  <2>4. new \in Running
    BY <1>1, <2>2, <2>3 DEF Running, Places, NextRound
  <2>5. run' = [run EXCEPT ![a] = new]
    BY <1>2, <1>4
  <2>6. run'[a].at = "turn" /\ run'[a].results = <<>>
    BY <1>1, <2>5 DEF LoopInv, AnalysisTypeOK, Running
  <2>7. ResultsOK(a)' /\ CallOK(a)'
    BY <2>6 DEF ResultsOK, CallOK, InCall, InPush
  <2> QED
    BY <2>4, <2>5, <2>7, OneMoves DEF Respond, LoopInv, AnalysisTypeOK, shared
<1> QED
  BY <1>3, <1>4

LEMMA EndTurnStep ==
    ASSUME LoopInv, NEW a \in Analyses, EndTurn(a)
    PROVE  LoopInv'
<1> DEFINE turn == run[a].turn
           results == run[a].results
<1>1. run[a] \in Running /\ run[a].at = "turn" /\ Unanswered(a) = {}
  BY RunningRecord DEF LoopInv, EndTurn, Places
<1>2. turn \in Seq(Calls) /\ results \in Seq(Nat)
  BY <1>1, TurnType DEF Running
<1>3. CASE ~(run[a].round < MaxRounds)
  BY <1>3, EndedMoves DEF EndTurn, LoopInv, AnalysisTypeOK, shared
<1>4. CASE run[a].round < MaxRounds
  <2> DEFINE new == [run[a] EXCEPT !.at = "request", !.results = Nudged(a)]
  <2>1. /\ \A i, j \in DOMAIN results : results[i] = results[j] => i = j
        /\ \A i \in DOMAIN results : results[i] \in Others(turn)
    BY <1>1 DEF LoopInv, ResultsOK, Places
  <2>2. \A i \in Others(turn) : \E j \in DOMAIN results : results[j] = i
    BY <1>1 DEF Unanswered
  <2>3. /\ Nudged(a) \in Seq(Nat)
        /\ \A i, j \in DOMAIN Nudged(a) : Nudged(a)[i] = Nudged(a)[j] => i = j
        /\ \A i \in DOMAIN turn :
              \/ \E j \in DOMAIN Nudged(a) : Nudged(a)[j] = i
              \/ i \in Verdicts(turn) /\ \E k \in Verdicts(turn) : k < i
    <3>1. CASE Verdicts(turn) = {}
      BY <1>2, <2>1, <2>2, <3>1, Positions DEF Nudged
    <3>2. CASE Verdicts(turn) # {}
      <4> DEFINE v == First(Verdicts(turn))
      <4>1. v \in Verdicts(turn) /\ v \in Nat /\ \A i \in Verdicts(turn) : v <= i
        BY <1>2, <3>2, Positions, FirstIsLeast
      <4>2. Nudged(a) = Append(results, v)
        BY <3>2 DEF Nudged
      <4>3. /\ Append(results, v) \in Seq(Nat)
            /\ DOMAIN Append(results, v) = 1..Len(results) + 1
            /\ DOMAIN results = 1..Len(results) /\ Len(results) \in Nat
            /\ \A i \in DOMAIN results : Append(results, v)[i] = results[i]
            /\ Append(results, v)[Len(results) + 1] = v
        <5>1. results \in Seq(Nat) /\ v \in Nat
          BY <1>2, <4>1
        <5> HIDE DEF v, results
        <5> QED
          BY <5>1
      <4>4. \A i \in DOMAIN results : results[i] # v
        BY <1>2, <2>1, <4>1, Positions
      <4>5. \A i, j \in DOMAIN Append(results, v) :
               Append(results, v)[i] = Append(results, v)[j] => i = j
        <5> DEFINE more == Append(results, v)
        <5> HIDE DEF more
        <5>1. /\ \A i \in DOMAIN results : more[i] = results[i] /\ results[i] # v
              /\ \A i \in DOMAIN more : i \in DOMAIN results \/ i = Len(results) + 1
              /\ more[Len(results) + 1] = v
          BY <4>3, <4>4 DEF more
        <5>2. \A i, j \in DOMAIN more : more[i] = more[j] => i = j
          BY <2>1, <5>1
        <5> QED
          BY <5>2 DEF more
      <4>6. ASSUME NEW i \in DOMAIN turn
            PROVE  \/ \E j \in DOMAIN Append(results, v) : Append(results, v)[j] = i
                   \/ i \in Verdicts(turn) /\ \E k \in Verdicts(turn) : k < i
        <5>1. CASE i \in Others(turn)
          BY <2>2, <4>3, <5>1
        <5>2. CASE i \in Verdicts(turn)
          <6>1. i = v \/ v < i
            BY <1>2, <4>1, <5>2, Positions
          <6>2. Len(results) + 1 \in DOMAIN Append(results, v)
            BY <4>3
          <6> QED
            BY <4>1, <4>3, <5>2, <6>1, <6>2
        <5> QED
          BY <1>2, <5>1, <5>2, Positions
      <4> QED
        BY <4>2, <4>3, <4>5, <4>6
    <3> QED
      BY <3>1, <3>2
  <2>4. new \in Running
    BY <1>1, <2>3 DEF Running, Places
  <2>5. run' = [run EXCEPT ![a] = new]
    BY <1>4 DEF EndTurn
  <2>6. run'[a] = new
    BY <2>5 DEF LoopInv, AnalysisTypeOK
  <2>7. /\ run'[a].at = "request" /\ run'[a].results = Nudged(a)
        /\ run'[a].turn = turn /\ run'[a].round = run[a].round
    BY <1>1, <2>6 DEF Running
  <2>8. ResultsOK(a)' /\ CallOK(a)'
    BY <1>4, <2>3, <2>7 DEF ResultsOK, CallOK, InCall, InPush
  <2> QED
    BY <2>4, <2>5, <2>8, OneMoves DEF EndTurn, LoopInv, AnalysisTypeOK, shared
<1> QED
  BY <1>3, <1>4

LEMMA AppendResult ==
    ASSUME NEW results \in Seq(Nat), NEW turn \in Seq(Calls), NEW i \in Others(turn),
           \A x, y \in DOMAIN results : results[x] = results[y] => x = y,
           \A x \in DOMAIN results : results[x] \in Others(turn) /\ results[x] # i
    PROVE  LET more == Append(results, i) IN
           /\ more \in Seq(Nat)
           /\ \A x, y \in DOMAIN more : more[x] = more[y] => x = y
           /\ \A x \in DOMAIN more : more[x] \in Others(turn)
<1>1. i \in Nat
  BY Positions
<1>2. /\ Append(results, i) \in Seq(Nat)
      /\ DOMAIN Append(results, i) = 1..Len(results) + 1
      /\ DOMAIN results = 1..Len(results) /\ Len(results) \in Nat
      /\ \A x \in DOMAIN results : Append(results, i)[x] = results[x]
      /\ Append(results, i)[Len(results) + 1] = i
  BY <1>1
<1> QED
  BY <1>2

\* A call gets its result.
LEMMA AnsweredMoves ==
    ASSUME LoopInv, NEW a \in Analyses, run[a].at \in InCall,
           run' = [run EXCEPT ![a] = Answered(a)]
    PROVE  /\ run' \in [Analyses -> Running \union {Idle}
                                     \union {Ended(o) : o \in {"verdict", "failed"}}]
           /\ \A b \in Analyses : ResultsOK(b)' /\ CallOK(b)'
<1> DEFINE turn == run[a].turn
           results == run[a].results
           i == run[a].call
<1>1. run[a] \in Running /\ turn \in Seq(Calls) /\ results \in Seq(Nat)
  BY CallType, TurnType DEF Running
<1>2. /\ \A x, y \in DOMAIN results : results[x] = results[y] => x = y
      /\ \A x \in DOMAIN results : results[x] \in Others(turn) /\ results[x] # i
      /\ i \in Others(turn)
  BY DEF LoopInv, ResultsOK, InCall, Places, Unanswered
<1>3. /\ Append(results, i) \in Seq(Nat)
      /\ \A x, y \in DOMAIN Append(results, i) :
            Append(results, i)[x] = Append(results, i)[y] => x = y
      /\ \A x \in DOMAIN Append(results, i) : Append(results, i)[x] \in Others(turn)
  BY <1>1, <1>2, AppendResult
<1>4. <<>> \in Seq(Keys)
  OBVIOUS
<1> DEFINE more == Append(results, i)
           new == [run[a] EXCEPT !.at = "turn", !.results = more, !.call = 0, !.todo = <<>>,
                                 !.ok = FALSE]
<1>5. Answered(a) = new
  BY <1>1 DEF Answered, Running
<1>6. more \in Seq(Nat)
  BY <1>3
<1> HIDE DEF more
<1>7. new \in Running
  BY <1>1, <1>4, <1>6 DEF Running, Places
<1>8. run'[a] = new
  BY <1>5 DEF LoopInv, AnalysisTypeOK
<1>9. new.at = "turn" /\ new.turn = turn /\ new.results = more
  BY <1>1 DEF Running
<1> HIDE DEF new
<1>10. /\ \A x, y \in DOMAIN more : more[x] = more[y] => x = y
       /\ \A x \in DOMAIN more : more[x] \in Others(turn)
  BY <1>3 DEF more
<1>11. ResultsOK(a)' /\ CallOK(a)'
  BY <1>8, <1>9, <1>10 DEF ResultsOK, CallOK, InCall, InPush
<1> QED
  BY <1>5, <1>7, <1>11, OneMoves

\* A call goes on, in another place.
LEMMA CallMoves ==
    ASSUME LoopInv, NEW a \in Analyses, run[a].at \in InCall,
           NEW new \in Running, run' = [run EXCEPT ![a] = new],
           new.at \in InCall, new.turn = run[a].turn, new.results = run[a].results,
           new.call = run[a].call,
           new.at = "cache" => new.todo # <<>> /\ CallOf(a).tool # "unifi_block",
           new.at \in InPush => CallOf(a).tool = "unifi_block"
    PROVE  /\ run' \in [Analyses -> Running \union {Idle}
                                     \union {Ended(o) : o \in {"verdict", "failed"}}]
           /\ \A b \in Analyses : ResultsOK(b)' /\ CallOK(b)'
<1>1. run'[a] = new
  BY DEF LoopInv, AnalysisTypeOK
<1>2. ResultsOK(a)'
  BY <1>1 DEF LoopInv, ResultsOK, InCall, Places, Unanswered
<1>3. CallOK(a)'
  BY <1>1 DEF LoopInv, CallOK, InCall, InPush, CallOf
<1> QED
  BY <1>2, <1>3, OneMoves

LEMMA ExecuteStep ==
    ASSUME LoopInv, NEW a \in Analyses, Execute(a)
    PROVE  LoopInv'
<1> DEFINE turn == run[a].turn
           results == run[a].results
           i == First(Unanswered(a))
           call == turn[i]
           refused == call.tool = "unifi_block" /\ Refuses(a, call)
           awaits == call.tool \in run[a].cfg.enabled /\ ~refused /\ LookUps(call) # <<>>
<1>1. run[a] \in Running /\ run[a].at = "turn" /\ Unanswered(a) # {}
  BY RunningRecord DEF LoopInv, Execute, Places
<1>2. turn \in Seq(Calls) /\ results \in Seq(Nat)
  BY <1>1, TurnType DEF Running
<1>3. i \in Unanswered(a) /\ i \in Others(turn) /\ i \in Nat /\ call \in Calls
  <2>1. Unanswered(a) \subseteq Others(turn)
    BY DEF Unanswered
  <2>2. Unanswered(a) \subseteq Nat
    BY <1>2, <2>1, Positions
  <2> HIDE DEF i
  <2>3. i \in Unanswered(a)
    BY <1>1, <2>2, FirstIsLeast DEF i
  <2> QED
    BY <1>2, <2>1, <2>2, <2>3, Positions
<1>4. /\ \A x, y \in DOMAIN results : results[x] = results[y] => x = y
      /\ \A x \in DOMAIN results : results[x] \in Others(turn) /\ results[x] # i
  BY <1>1, <1>3 DEF LoopInv, ResultsOK, Places, Unanswered
<1>5. /\ run' = IF awaits
                THEN [run EXCEPT ![a].call = i, ![a].at = "cache", ![a].todo = LookUps(call)]
                ELSE [run EXCEPT ![a].results = Append(@, i)]
      /\ \/ UNCHANGED <<listed, audited, cut>>
         \/ refused /\ call.target # NoIp /\ Recorded(a, "refused", {call.target})
      /\ UNCHANGED <<cache, group, flight, blind, overlapped>>
  <2>1. a \in DOMAIN run /\ run[a] \in Running
    BY <1>1 DEF LoopInv, AnalysisTypeOK
  <2> QED
    BY <2>1 DEF Execute, Running
<1>6. /\ {listed', audited'} \subseteq [Analyses -> SUBSET (Statuses \X Blocks)]
      /\ cut' \subseteq Analyses
  <2>1. CASE UNCHANGED <<listed, audited, cut>>
    BY <2>1 DEF LoopInv, AnalysisTypeOK
  <2>2. CASE refused /\ call.target # NoIp /\ Recorded(a, "refused", {call.target})
    <3>1. call.target \in Ips
      BY <1>3, <2>2 DEF Calls
    <3>2. {call.target} \in Blocks /\ "refused" \in Statuses
      BY <3>1 DEF Blocks, Statuses
    <3> QED
      BY <2>2, <3>2, RecordType DEF LoopInv
  <2> QED
    BY <1>5, <2>1, <2>2
<1>7. CASE awaits
  <2> DEFINE new == [run[a] EXCEPT !.call = i, !.at = "cache", !.todo = LookUps(call)]
  <2>1. call.tool = "unifi_block" =>
           /\ call.target \in Ips /\ call.target = Client[a]
           /\ LookUps(call) = << <<"rdns", Client[a]>> >>
    <3>1. ASSUME call.tool = "unifi_block"
          PROVE  call.target \in Ips /\ call.target = Client[a]
      BY <1>3, <1>7, <3>1, AnalysisAssumption DEF Refuses, Calls
    <3> QED
      BY <3>1 DEF LookUps
  <2>2. LookUps(call) \in Seq(Keys) /\ LookUps(call) # <<>>
    BY <1>3, <1>7, <2>1, LookUpsType
  <2>3. new \in Running
    BY <1>1, <1>3, <2>2 DEF Running, Places
  <2>4. run' = [run EXCEPT ![a] = new]
    BY <1>5, <1>7
  <2>5. run'[a] = new
    BY <2>4 DEF LoopInv, AnalysisTypeOK
  <2>6. /\ run'[a].at = "cache" /\ run'[a].turn = turn /\ run'[a].results = results
        /\ run'[a].call = i /\ run'[a].todo = LookUps(call)
    BY <1>1, <2>5 DEF Running
  <2>7. i \in Unanswered(a)'
    BY <1>3, <2>6 DEF Unanswered
  <2>8. ResultsOK(a)'
    BY <1>4, <2>6, <2>7 DEF ResultsOK, InCall
  <2>9. CallOK(a)'
    BY <2>1, <2>2, <2>6 DEF CallOK, InCall, InPush, CallOf
  <2> QED
    BY <1>5, <1>6, <2>3, <2>4, <2>8, <2>9, OneMoves DEF LoopInv, AnalysisTypeOK
<1>8. CASE ~awaits
  <2> DEFINE new == [run[a] EXCEPT !.results = Append(results, i)]
  <2>1. /\ Append(results, i) \in Seq(Nat)
        /\ \A x, y \in DOMAIN Append(results, i) :
              Append(results, i)[x] = Append(results, i)[y] => x = y
        /\ \A x \in DOMAIN Append(results, i) : Append(results, i)[x] \in Others(turn)
    BY <1>2, <1>3, <1>4, AppendResult
  <2>2. new \in Running
    BY <1>1, <2>1 DEF Running
  <2>3. run' = [run EXCEPT ![a] = new]
    BY <1>5, <1>8
  <2>4. run'[a] = new
    BY <2>3 DEF LoopInv, AnalysisTypeOK
  <2>5. run'[a].at = "turn" /\ run'[a].turn = turn /\ run'[a].results = Append(results, i)
    BY <1>1, <2>4 DEF Running
  <2>6. ResultsOK(a)' /\ CallOK(a)'
    BY <2>1, <2>5 DEF ResultsOK, CallOK, InCall, InPush
  <2> QED
    BY <1>5, <1>6, <2>2, <2>3, <2>6, OneMoves DEF LoopInv, AnalysisTypeOK
<1> QED
  BY <1>7, <1>8

\* A look-up that has a value, wherever it comes from.
LEMMA FoundStep ==
    ASSUME LoopInv, NEW a \in Analyses, run[a].at = "cache", NEW val, Found(a, val),
           cache' \in [Keys -> {"none", "good", "blank"}], blind' \subseteq Ips,
           UNCHANGED <<group, flight, overlapped>>
    PROVE  LoopInv'
<1> DEFINE key == Head(run[a].todo)
           more == Further(key, val, run[a].cfg.max_ips)
           rest == Tail(run[a].todo) \o more
           block == Asked(a, CallOf(a))
<1>1. run[a] \in Running /\ run[a].at \in InCall /\ run[a].todo # <<>>
  BY CallType DEF LoopInv, CallOK, InCall
<1>2. run[a].todo \in Seq(Keys) /\ run[a].cfg.max_ips \in Nat /\ run[a].ok \in BOOLEAN
  BY <1>1, LimitType DEF Running
<1>3. key \in Keys /\ Tail(run[a].todo) \in Seq(Keys)
  BY <1>1, <1>2
<1>4. more \in Seq(Keys)
  BY <1>2, <1>3, FurtherType
<1>5. rest \in Seq(Keys)
  BY <1>3, <1>4
<1>6. CallOf(a).tool = "unifi_block" => rest = <<>>
  <2> SUFFICES ASSUME CallOf(a).tool = "unifi_block" PROVE rest = <<>>
    OBVIOUS
  <2>1. run[a].todo = << <<"rdns", Client[a]>> >>
    BY <1>1 DEF LoopInv, CallOK
  <2>2. key[1] = "rdns" /\ Tail(run[a].todo) = <<>>
    BY <2>1
  <2>3. more = <<>>
    BY <1>2, <1>3, <2>2, FurtherType
  <2> QED
    BY <2>2, <2>3
<1>7. CASE rest = <<>> /\ CallOf(a).tool = "unifi_block"
  <2>1. Guarded(a, val)
    BY <1>7 DEF Found
  <2>2. block \in Blocks
    BY <1>1, <1>7, CallType
  <2>3. {"refused", "suggested"} \subseteq Statuses
    BY DEF Statuses
  <2>4. CASE /\ run' = [run EXCEPT ![a] = Answered(a)]
             /\ Recorded(a, "refused", block) \/ Recorded(a, "suggested", block)
    BY <1>1, <2>2, <2>3, <2>4, RecordType, AnsweredMoves DEF LoopInv, AnalysisTypeOK
  <2>5. CASE /\ run' = [run EXCEPT ![a].at = "list", ![a].todo = <<>>]
             /\ UNCHANGED <<listed, audited, cut>>
    <3> DEFINE new == [run[a] EXCEPT !.at = "list", !.todo = <<>>]
    <3>1. <<>> \in Seq(Keys)
      OBVIOUS
    <3>2. /\ new \in Running /\ new.at = "list" /\ new.turn = run[a].turn
          /\ new.results = run[a].results /\ new.call = run[a].call
      BY <1>1, <3>1 DEF Running, Places
    <3>3. run' = [run EXCEPT ![a] = new]
      BY <2>5
    <3> HIDE DEF new
    <3>4. /\ run' \in [Analyses -> Running \union {Idle}
                                   \union {Ended(o) : o \in {"verdict", "failed"}}]
          /\ \A b \in Analyses : ResultsOK(b)' /\ CallOK(b)'
      BY <1>1, <1>7, <3>2, <3>3, CallMoves DEF InCall
    <3> QED
      BY <2>5, <3>4 DEF LoopInv, AnalysisTypeOK
  <2> QED
    BY <2>1, <2>4, <2>5 DEF Guarded
<1>8. CASE ~(rest = <<>> /\ CallOf(a).tool = "unifi_block")
  <2>1. /\ run' = [run EXCEPT ![a] = IF rest = <<>> THEN Answered(a)
                                    ELSE [@ EXCEPT !.at = "cache", !.todo = rest]]
        /\ UNCHANGED <<listed, audited, cut>>
    BY <1>8 DEF Found
  <2>2. CASE rest = <<>>
    <3>1. run' = [run EXCEPT ![a] = Answered(a)]
      BY <2>1, <2>2
    <3> QED
      BY <1>1, <2>1, <3>1, AnsweredMoves DEF LoopInv, AnalysisTypeOK
  <2>3. CASE rest # <<>>
    <3> HIDE DEF rest
    <3> DEFINE new == [run[a] EXCEPT !.at = "cache", !.todo = rest]
    <3>1. /\ new \in Running /\ new.at = "cache" /\ new.turn = run[a].turn
          /\ new.results = run[a].results /\ new.call = run[a].call /\ new.todo = rest
      BY <1>1, <1>5 DEF Running, Places
    <3>2. run' = [run EXCEPT ![a] = new]
      BY <2>1, <2>3
    <3> HIDE DEF new
    <3>3. CallOf(a).tool # "unifi_block"
      BY <1>6, <2>3
    <3>4. /\ run' \in [Analyses -> Running \union {Idle}
                                   \union {Ended(o) : o \in {"verdict", "failed"}}]
          /\ \A b \in Analyses : ResultsOK(b)' /\ CallOK(b)'
      BY <1>1, <2>3, <3>1, <3>2, <3>3, CallMoves DEF InCall, InPush
    <3> QED
      BY <2>1, <3>4 DEF LoopInv, AnalysisTypeOK
  <2> QED
    BY <2>2, <2>3
<1> QED
  BY <1>7, <1>8

LEMMA LookUpKey ==
    ASSUME LoopInv, NEW a \in Analyses, run[a].at = "cache"
    PROVE  Head(run[a].todo) \in Keys
<1>1. run[a] \in Running /\ run[a].todo # <<>>
  BY CallType DEF LoopInv, CallOK, InCall
<1>2. run[a].todo \in Seq(Keys)
  BY <1>1 DEF Running
<1> QED
  BY <1>1, <1>2

LEMMA HitStep ==
    ASSUME LoopInv, NEW a \in Analyses, Hit(a)
    PROVE  LoopInv'
<1>1. /\ run[a].at = "cache" /\ Found(a, cache[Head(run[a].todo)])
      /\ UNCHANGED <<cache, group, flight, blind, overlapped>>
  BY DEF Hit
<1>2. cache' \in [Keys -> {"none", "good", "blank"}] /\ blind' \subseteq Ips
  BY <1>1 DEF LoopInv, AnalysisTypeOK
<1> QED
  BY <1>1, <1>2, FoundStep

LEMMA LookStep ==
    ASSUME LoopInv, NEW a \in Analyses, Look(a)
    PROVE  LoopInv'
<1> DEFINE key == Head(run[a].todo)
<1>1. PICK val \in {"good", Failure(key)} :
          /\ cache' \in {cache} \union
                 IF Cacheable(val) THEN {[cache EXCEPT ![key] = val]} ELSE {}
          /\ blind' = IF val = "blank" /\ key[1] = "rdns" THEN blind \union {key[2]} ELSE blind
          /\ Found(a, val)
  BY DEF Look
<1>2. run[a].at = "cache" /\ UNCHANGED <<group, flight, overlapped>>
  BY DEF Look
<1>3. key \in Keys
  BY <1>2, LookUpKey
<1>4. val \in {"good", "blank", "error"}
  BY DEF Failure
<1>5. cache' \in [Keys -> {"none", "good", "blank"}]
  BY <1>1, <1>3, <1>4 DEF LoopInv, AnalysisTypeOK, Cacheable
<1>6. key[1] = "rdns" => key[2] \in Ips
  BY <1>3 DEF Keys
<1>7. blind' \subseteq Ips
  BY <1>1, <1>6 DEF LoopInv, AnalysisTypeOK
<1> QED
  BY <1>1, <1>2, <1>5, <1>7, FoundStep

LEMMA ListStep ==
    ASSUME LoopInv, NEW a \in Analyses, List(a)
    PROVE  LoopInv'
<1> DEFINE w == [by |-> a, id |-> Id(a), block |-> Asked(a, CallOf(a)), base |-> group]
           new == [run[a] EXCEPT !.at = "write"]
<1>1. run[a].at = "list" /\ run[a] \in Running
  BY CallType DEF List, InCall
<1>2. CallOf(a).tool = "unifi_block" /\ Asked(a, CallOf(a)) \in Blocks
  BY <1>1, CallType DEF LoopInv, CallOK, InCall, InPush
<1>3. Id(a) \in Nat \X Nat
  BY <1>1, AnalysisAssumption DEF Id, Running
<1>4. w \in Write
  BY <1>2, <1>3 DEF Write, LoopInv, AnalysisTypeOK
<1>5. /\ new \in Running /\ new.at = "write" /\ new.turn = run[a].turn
      /\ new.results = run[a].results /\ new.call = run[a].call
  BY <1>1 DEF Running, Places
<1>6. run' = [run EXCEPT ![a] = new]
  BY DEF List
<1> HIDE DEF new
<1>7. /\ run' \in [Analyses -> Running \union {Idle}
                               \union {Ended(o) : o \in {"verdict", "failed"}}]
      /\ \A b \in Analyses : ResultsOK(b)' /\ CallOK(b)'
  BY <1>1, <1>2, <1>5, <1>6, CallMoves DEF InCall, InPush
<1>8. \A x \in flight : x.by \in Analyses
  BY DEF LoopInv, AnalysisTypeOK, Write
<1>9. flight' \subseteq Write /\ overlapped' \subseteq Analyses
  BY <1>4, <1>8 DEF List, LoopInv, AnalysisTypeOK
<1> QED
  BY <1>7, <1>9 DEF List, LoopInv, AnalysisTypeOK

LEMMA LandStep ==
    ASSUME LoopInv, NEW w \in flight, Land(w)
    PROVE  LoopInv'
<1> DEFINE a == w.by
           new == [run[a] EXCEPT !.ok = TRUE]
<1>1. w \in Write /\ a \in Analyses
  BY DEF LoopInv, AnalysisTypeOK, Write
<1>2. Sent(w) \in SUBSET Blocks
  BY <1>1 DEF Sent, Write, Blocks
<1>3. /\ group' \in {NoGroup} \union SUBSET Blocks
      /\ flight' \subseteq Write
      /\ UNCHANGED <<cache, listed, audited, blind, overlapped, cut>>
  BY <1>1, <1>2 DEF Land, LoopInv, AnalysisTypeOK
<1>4. CASE UNCHANGED run
  BY <1>3, <1>4 DEF LoopInv, AnalysisTypeOK, ResultsOK, CallOK, CallOf, Unanswered
<1>5. CASE run[a].at = "write" /\ run' = [run EXCEPT ![a].ok = TRUE]
  <2>1. run[a] \in Running /\ CallOf(a).tool = "unifi_block"
    BY <1>1, <1>5, CallType DEF LoopInv, CallOK, InCall, InPush
  <2>2. /\ new \in Running /\ new.at = "write" /\ new.turn = run[a].turn
        /\ new.results = run[a].results /\ new.call = run[a].call
    BY <1>5, <2>1 DEF Running
  <2>3. run' = [run EXCEPT ![a] = new]
    BY <1>5
  <2> HIDE DEF new
  <2>4. /\ run' \in [Analyses -> Running \union {Idle}
                                 \union {Ended(o) : o \in {"verdict", "failed"}}]
        /\ \A b \in Analyses : ResultsOK(b)' /\ CallOK(b)'
    BY <1>1, <1>5, <2>1, <2>2, <2>3, CallMoves DEF InCall, InPush
  <2> QED
    BY <1>3, <2>4 DEF LoopInv, AnalysisTypeOK
<1> QED
  BY <1>4, <1>5 DEF Land

\* Confirm and PushFails: the call is over, and its block is recorded.
LEMMA PushEnds ==
    ASSUME LoopInv, NEW a \in Analyses, run[a].at \in InPush,
           run' = [run EXCEPT ![a] = Answered(a)],
           NEW status \in {"executed", "error"}, Recorded(a, status, Asked(a, CallOf(a))),
           UNCHANGED <<cache, group, flight, blind, overlapped>>
    PROVE  LoopInv'
<1>1. Asked(a, CallOf(a)) \in Blocks /\ run[a].at \in InCall
  BY CallType DEF LoopInv, CallOK, InCall, InPush
<1>2. status \in Statuses
  BY DEF Statuses
<1> QED
  BY <1>1, <1>2, AnsweredMoves, RecordType DEF LoopInv, AnalysisTypeOK

LEMMA LoopStep ==
    ASSUME LoopInv, [AnalysisNext]_analysisVars
    PROVE  LoopInv'
<1>1. ASSUME NEW a \in Analyses, Begin(a) \/ Step(a) \/ Stop(a) PROVE LoopInv'
  <2>1. CASE Confirm(a)
    BY <2>1, PushEnds DEF Confirm, InPush
  <2>2. CASE PushFails(a)
    BY <2>2, PushEnds DEF PushFails, InPush
  <2>3. CASE RequestFails(a)
    BY <2>3, EndedMoves DEF RequestFails, LoopInv, AnalysisTypeOK, shared
  <2>4. CASE Stop(a)
    <3>1. run' = [run EXCEPT ![a] = Ended("failed")] /\ cut' \subseteq Analyses
      BY <2>4 DEF Stop, LoopInv, AnalysisTypeOK
    <3> QED
      BY <2>4, <3>1, EndedMoves DEF Stop, LoopInv, AnalysisTypeOK
  <2> QED
    BY <1>1, <2>1, <2>2, <2>3, <2>4, BeginStep, RespondStep, EndTurnStep, ExecuteStep,
       HitStep, LookStep, ListStep DEF Step
<1>2. ASSUME NEW k \in Keys, Forget(k) PROVE LoopInv'
  BY <1>2 DEF Forget, LoopInv, AnalysisTypeOK, ResultsOK, CallOK, CallOf, Unanswered
<1>3. ASSUME NEW w \in flight, Vanish(w) PROVE LoopInv'
  BY <1>3 DEF Vanish, LoopInv, AnalysisTypeOK, ResultsOK, CallOK, CallOf, Unanswered
<1>4. CASE UNCHANGED analysisVars
  BY <1>4 DEF analysisVars, LoopInv, AnalysisTypeOK, ResultsOK, CallOK, CallOf, Unanswered
<1> QED
  BY <1>1, <1>2, <1>3, <1>4, LandStep DEF AnalysisNext

LEMMA Loop == AnalysisSpec => []LoopInv
BY LoopInit, LoopStep, PTL DEF AnalysisSpec

\* The types of the state: what the analyses, Redis, the group and the records
\* may hold.
THEOREM AnalysisType == AnalysisSpec => []AnalysisTypeOK
<1>1. LoopInv => AnalysisTypeOK
  BY DEF LoopInv
<1> QED
  BY Loop, <1>1, PTL

\* How far "every issued tool_call needs a matching result" (base.py:166-167) is
\* true: in turns of any length and however many rounds, a request carries one
\* result for each call of the turn before, and never two, but none for a
\* submit_verdict after another one.
AllButSecondVerdicts ==
    \A a \in Analyses : run[a].at = "request" =>
        LET given == run[a].results
        IN /\ \A i, j \in DOMAIN given : given[i] = given[j] => i = j
           /\ \A i \in DOMAIN run[a].turn :
                 \/ \E j \in DOMAIN given : given[j] = i
                 \/ i \in Verdicts(run[a].turn) /\ \E k \in Verdicts(run[a].turn) : k < i

\* Whatever tools fail, are disabled or refuse, only a second verdict of a turn
\* goes without its result (base.py:164-175).
THEOREM CallsAnswered == AnalysisSpec => []AllButSecondVerdicts
<1>1. LoopInv => AllButSecondVerdicts
  BY DEF LoopInv, ResultsOK, AllButSecondVerdicts, Places
<1> QED
  BY Loop, <1>1, PTL

-----------------------------------------------------------------------------
(* What is blocked *)

\* A network that unifi_block may push: see BlocksJustified.
Justified(block) ==
    \E a \in Analyses : \E c \in Configs[a], p \in Prefixes :
        /\ c.policy = "auto" /\ p >= c.limit
        /\ Client[a] \in Ips /\ block = Network[Client[a]][p]
        /\ Client[a] \in Shared => Client[a] \in blind

\* An analysis keeps the settings it began with, and pushes only under "auto".
ConfigInv ==
    \A a \in Analyses :
        /\ run[a].at \in Places => run[a].cfg \in Configs[a]
        /\ run[a].at \in InPush => run[a].cfg.policy = "auto"

\* The group, and the writes that may still change it, hold only such blocks.
BlocksInv ==
    /\ \A ip \in Ips : cache[<<"rdns", ip>>] = "blank" => ip \in blind
    /\ \A a \in Analyses : run[a].at \in InPush /\ Client[a] \in Shared => Client[a] \in blind
    /\ \A block \in Members : Justified(block)
    /\ \A w \in flight : \A block \in Sent(w) : Justified(block)

\* A block is recorded, or its push still waits, or was cut short.
Accounted(block) ==
    \E a \in Analyses :
        \/ {<<"executed", block>>, <<"error", block>>} \intersect audited[a] # {}
        \/ run[a].at = "write" /\ Asked(a, CallOf(a)) = block
        \/ a \in cut /\ Client[a] \in block

\* UniFi told the analysis that the block is in force.
Told(a, block) ==
    \/ <<"executed", block>> \in audited[a]
    \/ run[a].at = "write" /\ run[a].ok /\ Asked(a, CallOf(a)) = block

\* A write is one of a call that is over, or of the push that waits for it.
Belongs(w) ==
    LET r == run[w.by] IN
    /\ r.at # "new"
    /\ r.at \in Places =>
        \/ w.id[1] < r.round
        \/ /\ w.id[1] = r.round
           /\ \/ \E i \in DOMAIN r.results : r.results[i] = w.id[2]
              \/ r.at = "write" /\ r.call = w.id[2] /\ w.block = Asked(w.by, CallOf(w.by))

\* Pushes that overlapped no other: what they were told stays in the group, and
\* is in what any later write sends.
RecordInv ==
    /\ \A block \in Members : Accounted(block)
    /\ \A w \in flight : \A block \in Sent(w) : Accounted(block)
    /\ \A v, w \in flight : v # w => v.by \in overlapped
    /\ \A w \in flight : w.base = NoGroup /\ group # NoGroup => w.by \in overlapped
    /\ \A a \in Analyses, block \in Blocks :
          Told(a, block) /\ a \notin overlapped =>
              block \in Members /\ \A w \in flight : block \in Sent(w)
    /\ \A a \in Analyses, block \in Blocks :
          <<"executed", block>> \in audited[a] => <<"executed", block>> \in listed[a]
    /\ \A w \in flight : Belongs(w)
    /\ \A a \in Analyses : run[a].at \in Places \ {"write"} => ~run[a].ok

LEMMA JustifiedStays ==
    ASSUME NEW block, blind \subseteq blind', Justified(block)
    PROVE  Justified(block)'
BY DEF Justified

\* The steps after which an analysis is not in a push, and which change nothing
\* that a push is judged by.
LEMMA QuietSteps ==
    ASSUME LoopInv, NEW a \in Analyses,
           \/ Begin(a) \/ Respond(a) \/ RequestFails(a) \/ EndTurn(a) \/ Execute(a)
           \/ Confirm(a) \/ PushFails(a) \/ Stop(a)
    PROVE  /\ run'[a].at \notin InPush
           /\ \A b \in Analyses \ {a} : run'[b] = run[b]
           /\ UNCHANGED <<cache, group, flight, blind, overlapped>>
<1>1. run \in [Analyses -> Running \union {Idle} \union {Ended(o) : o \in {"verdict", "failed"}}]
  BY DEF LoopInv, AnalysisTypeOK
<1>2. CASE Begin(a)
  BY <1>1, <1>2 DEF Begin, InPush, Ended, shared
<1>3. run[a].at \in Places => run[a] \in Running
  BY RunningRecord DEF LoopInv
<1>4. CASE Respond(a)
  <2>1. run[a] \in Running
    BY <1>3, <1>4 DEF Respond, Places
  <2>2. PICK turn, outcome :
           \/ run' = [run EXCEPT ![a] = Ended(outcome)]
           \/ run' = [run EXCEPT ![a].at = "turn", ![a].turn = turn, ![a].results = <<>>,
                                 ![a].round = NextRound(a)]
    BY <1>4 DEF Respond
  <2> DEFINE new == [run[a] EXCEPT !.at = "turn", !.turn = turn, !.results = <<>>,
                                   !.round = NextRound(a)]
  <2>3. new.at = "turn"
    BY <2>1 DEF Running
  <2>4. run' = [run EXCEPT ![a] = Ended(outcome)] \/ run' = [run EXCEPT ![a] = new]
    BY <2>2
  <2> HIDE DEF new
  <2>5. run'[a].at \in {"turn", "done"} /\ \A b \in Analyses \ {a} : run'[b] = run[b]
    BY <1>1, <2>3, <2>4 DEF Ended
  <2> QED
    BY <1>4, <2>5 DEF Respond, InPush, shared
<1>5. CASE RequestFails(a)
  BY <1>1, <1>5 DEF RequestFails, InPush, Ended, shared
<1>6. CASE EndTurn(a)
  <2>1. run[a] \in Running
    BY <1>3, <1>6 DEF EndTurn, Places
  <2> QED
    BY <1>1, <1>6, <2>1 DEF EndTurn, InPush, Ended, shared, Running
<1>7. CASE Execute(a)
  <2>1. run[a] \in Running /\ run[a].at = "turn"
    BY <1>3, <1>7 DEF Execute, Places
  <2>2. PICK i, todo, more :
           \/ run' = [run EXCEPT ![a].call = i, ![a].at = "cache", ![a].todo = todo]
           \/ run' = [run EXCEPT ![a].results = more]
    BY <1>1, <1>7, <2>1 DEF Execute, Running
  <2>3. UNCHANGED <<cache, group, flight, blind, overlapped>>
    BY <1>7 DEF Execute
  <2> QED
    BY <1>1, <2>1, <2>2, <2>3 DEF InPush, Running
<1>8. CASE Confirm(a) \/ PushFails(a)
  <2>1. run[a] \in Running /\ run' = [run EXCEPT ![a] = Answered(a)]
    BY <1>3, <1>8 DEF Confirm, PushFails, Places
  <2>2. Answered(a).at = "turn"
    BY <2>1 DEF Answered, Running
  <2>3. UNCHANGED <<cache, group, flight, blind, overlapped>>
    BY <1>8 DEF Confirm, PushFails
  <2> QED
    BY <1>1, <2>1, <2>2, <2>3 DEF InPush
<1>9. CASE Stop(a)
  BY <1>1, <1>9 DEF Stop, InPush, Ended
<1> QED
  BY <1>2, <1>4, <1>5, <1>6, <1>7, <1>8, <1>9

\* A look-up that has a value brings a push about only if it came from a name
\* that is no shared provider's, or from none at all.
LEMMA FoundPush ==
    ASSUME LoopInv, NEW a \in Analyses, run[a].at = "cache", NEW val, Found(a, val)
    PROVE  /\ run'[a].at \in InPush => /\ ~IsShared(a, val)
                                       /\ Head(run[a].todo) = <<"rdns", Client[a]>>
                                       /\ run[a].cfg.policy = "auto"
           /\ \A b \in Analyses \ {a} : run'[b] = run[b]
<1>1. /\ run \in [Analyses -> Running \union {Idle} \union {Ended(o) : o \in {"verdict", "failed"}}]
      /\ run[a] \in Running
  BY CallType DEF LoopInv, AnalysisTypeOK, InCall
<1>2. Answered(a).at = "turn"
  BY <1>1 DEF Answered, Running
<1> DEFINE rest == Tail(run[a].todo) \o Further(Head(run[a].todo), val, run[a].cfg.max_ips)
<1>3. CASE rest = <<>> /\ CallOf(a).tool = "unifi_block"
  <2>1. run[a].todo = << <<"rdns", Client[a]>> >>
    BY <1>3 DEF LoopInv, CallOK, InCall
  <2>2. Head(run[a].todo) = <<"rdns", Client[a]>>
    BY <2>1
  <2>3. Guarded(a, val)
    BY <1>3 DEF Found
  <2>4. CASE run' = [run EXCEPT ![a] = Answered(a)]
    BY <1>1, <1>2, <2>4 DEF InPush
  <2>5. CASE /\ ~IsShared(a, val) /\ run[a].cfg.policy = "auto"
             /\ run' = [run EXCEPT ![a].at = "list", ![a].todo = <<>>]
    BY <1>1, <2>2, <2>5
  <2> QED
    BY <2>3, <2>4, <2>5 DEF Guarded
<1>4. CASE ~(rest = <<>> /\ CallOf(a).tool = "unifi_block")
  <2>1. run' = [run EXCEPT ![a] = IF rest = <<>> THEN Answered(a)
                                  ELSE [@ EXCEPT !.at = "cache", !.todo = rest]]
    BY <1>4 DEF Found
  <2> HIDE DEF rest
  <2>2. [run[a] EXCEPT !.at = "cache", !.todo = rest].at = "cache"
    BY <1>1 DEF Running
  <2>3. run'[a].at \in {"turn", "cache"} /\ \A b \in Analyses \ {a} : run'[b] = run[b]
    BY <1>1, <1>2, <2>1, <2>2
  <2> QED
    BY <2>3 DEF InPush
<1> QED
  BY <1>3, <1>4

LEMMA BlocksHit ==
    ASSUME LoopInv, BlocksInv, NEW a \in Analyses, Hit(a)
    PROVE  BlocksInv'
<1> DEFINE key == Head(run[a].todo)
<1>1. key \in Keys /\ run[a].at = "cache"
  BY LookUpKey DEF Hit
<1>2. cache[key] \in {"good", "blank"}
  BY <1>1 DEF Hit, LoopInv, AnalysisTypeOK
<1>3. /\ run'[a].at \in InPush => ~IsShared(a, cache[key]) /\ key = <<"rdns", Client[a]>>
      /\ \A b \in Analyses \ {a} : run'[b] = run[b]
  BY <1>1, FoundPush DEF Hit
<1>4. run'[a].at \in InPush /\ Client[a] \in Shared => Client[a] \in blind
  BY <1>2, <1>3, AnalysisAssumption DEF IsShared, BlocksInv
<1> QED
  BY <1>3, <1>4, JustifiedStays DEF Hit, BlocksInv, Members

LEMMA BlocksLook ==
    ASSUME LoopInv, BlocksInv, NEW a \in Analyses, Look(a)
    PROVE  BlocksInv'
<1> DEFINE key == Head(run[a].todo)
<1>1. key \in Keys /\ run[a].at = "cache"
  BY LookUpKey DEF Look
<1>2. PICK val \in {"good", Failure(key)} :
          /\ cache' \in {cache} \union
                 IF Cacheable(val) THEN {[cache EXCEPT ![key] = val]} ELSE {}
          /\ blind' = IF val = "blank" /\ key[1] = "rdns" THEN blind \union {key[2]} ELSE blind
          /\ Found(a, val)
  BY DEF Look
<1>3. /\ run'[a].at \in InPush => ~IsShared(a, val) /\ key = <<"rdns", Client[a]>>
      /\ \A b \in Analyses \ {a} : run'[b] = run[b]
  BY <1>1, <1>2, FoundPush
<1>4. key[1] = "rdns" => val \in {"good", "blank"}
  BY DEF Failure
<1>5. run'[a].at \in InPush /\ Client[a] \in Shared => Client[a] \in blind'
  BY <1>2, <1>3, <1>4 DEF IsShared
<1>6. blind \subseteq blind' /\ UNCHANGED <<group, flight>>
  BY <1>2 DEF Look
<1>7. ASSUME NEW ip \in Ips, cache'[<<"rdns", ip>>] = "blank" PROVE ip \in blind'
  <2>1. CASE cache' = cache
    BY <1>6, <1>7, <2>1 DEF BlocksInv
  <2>2. CASE cache' = [cache EXCEPT ![key] = val]
    <3>1. CASE key = <<"rdns", ip>>
      BY <1>1, <1>2, <1>7, <2>2, <3>1 DEF LoopInv, AnalysisTypeOK
    <3>2. CASE key # <<"rdns", ip>>
      <4>1. cache'[<<"rdns", ip>>] = cache[<<"rdns", ip>>]
        BY <1>1, <2>2, <3>2 DEF LoopInv, AnalysisTypeOK, Keys
      <4> QED
        BY <1>6, <1>7, <4>1 DEF BlocksInv
    <3> QED
      BY <3>1, <3>2
  <2> QED
    BY <1>2, <2>1, <2>2
<1>8. \A b \in Analyses : run'[b].at \in InPush /\ Client[b] \in Shared => Client[b] \in blind'
  BY <1>3, <1>5, <1>6 DEF BlocksInv
<1>9. /\ \A block \in Members' : Justified(block)'
      /\ \A w \in flight' : \A block \in Sent(w)' : Justified(block)'
  BY <1>6, JustifiedStays DEF BlocksInv, Members, Sent
<1> QED
  BY <1>7, <1>8, <1>9 DEF BlocksInv

LEMMA BlocksList ==
    ASSUME LoopInv, ConfigInv, BlocksInv, NEW a \in Analyses, List(a)
    PROVE  BlocksInv'
<1> DEFINE w == [by |-> a, id |-> Id(a), block |-> Asked(a, CallOf(a)), base |-> group]
<1>1. run[a].at = "list" /\ CallOf(a).tool = "unifi_block"
  BY DEF List, LoopInv, CallOK, InPush
<1>2. Client[a] \in Asked(a, CallOf(a)) /\ run[a] \in Running
  BY <1>1, CallType DEF InCall
<1>3. Justified(Asked(a, CallOf(a)))
  <2> DEFINE c == run[a].cfg
             q == CallOf(a).prefix
  <2>1. c \in Configs[a] /\ c.policy = "auto" /\ (Client[a] \in Shared => Client[a] \in blind)
    BY <1>1 DEF ConfigInv, BlocksInv, InPush, Places
  <2>2. CallOf(a) \in Calls /\ Client[a] \in Ips
    BY <1>1, CallType DEF InCall, LoopInv, CallOK
  <2>3. q \in Prefixes /\ c.limit \in Prefixes /\ Prefixes \subseteq Nat
    BY <2>1, <2>2, LimitType, AnalysisAssumption DEF Calls
  <2> DEFINE narrower(x, y) == IF x >= y THEN x ELSE y
  <2>4. \A x, y \in Prefixes : narrower(x, y) \in Prefixes /\ narrower(x, y) >= y
    BY <2>3
  <2>5. Asked(a, CallOf(a)) = Network[Client[a]][narrower(q, c.limit)]
    BY DEF Asked, Rollup
  <2> HIDE DEF narrower
  <2>6. narrower(q, c.limit) \in Prefixes /\ narrower(q, c.limit) >= c.limit
    BY <2>3, <2>4
  <2> HIDE DEF q
  <2> QED
    BY <2>1, <2>2, <2>5, <2>6 DEF Justified
<1>4. \A block \in Sent(w) : Justified(block)
  BY <1>3 DEF Sent, BlocksInv, Members
<1>5. flight' = flight \union {w} /\ UNCHANGED <<cache, group, blind>>
  BY DEF List
<1>6. \A b \in Analyses : run'[b].at \in InPush => run[b].at \in InPush
  BY <1>1 DEF List, LoopInv, AnalysisTypeOK, InPush
<1> QED
  BY <1>4, <1>5, <1>6, JustifiedStays DEF BlocksInv, Members, Sent

LEMMA BlocksStep ==
    ASSUME LoopInv, ConfigInv, BlocksInv, [AnalysisNext]_analysisVars
    PROVE  BlocksInv'
<1>1. ASSUME NEW a \in Analyses, Begin(a) \/ Step(a) \/ Stop(a) PROVE BlocksInv'
  <2>1. CASE Hit(a) \/ Look(a) \/ List(a)
    BY <2>1, BlocksHit, BlocksLook, BlocksList
  <2>2. CASE ~(Hit(a) \/ Look(a) \/ List(a))
    <3>1. /\ run'[a].at \notin InPush
          /\ \A b \in Analyses \ {a} : run'[b] = run[b]
          /\ UNCHANGED <<cache, group, flight, blind, overlapped>>
      BY <1>1, <2>2, QuietSteps DEF Step
    <3> QED
      BY <3>1, JustifiedStays DEF BlocksInv, Members, Sent
  <2> QED
    BY <2>1, <2>2
<1>2. ASSUME NEW k \in Keys, Forget(k) PROVE BlocksInv'
  BY <1>2, JustifiedStays DEF Forget, BlocksInv, LoopInv, AnalysisTypeOK, Members, Keys
<1>3. ASSUME NEW w \in flight, Vanish(w) PROVE BlocksInv'
  BY <1>3, JustifiedStays DEF Vanish, BlocksInv, Members
<1>4. ASSUME NEW w \in flight, Land(w) PROVE BlocksInv'
  <2>1. w \in Write /\ w.by \in Analyses
    BY DEF LoopInv, AnalysisTypeOK, Write
  <2>2. \A b \in Analyses : run'[b].at = run[b].at
    <3>1. run[w.by].at = "write" => run[w.by] \in Running
      BY <2>1, RunningRecord DEF LoopInv, Places
    <3> QED
      BY <1>4, <2>1, <3>1 DEF Land, LoopInv, AnalysisTypeOK, Running
  <2>3. \A block \in Members' : block \in Members \/ block \in Sent(w)
    BY <1>4 DEF Land, Members
  <2> QED
    BY <1>4, <2>2, <2>3, JustifiedStays DEF Land, BlocksInv
<1>5. CASE UNCHANGED analysisVars
  BY <1>5, JustifiedStays DEF analysisVars, BlocksInv, Members
<1> QED
  BY <1>1, <1>2, <1>3, <1>4, <1>5 DEF AnalysisNext

LEMMA FoundConfig ==
    ASSUME LoopInv, NEW a \in Analyses, run[a].at = "cache", NEW val, Found(a, val)
    PROVE  run'[a].cfg = run[a].cfg
<1>1. /\ run \in [Analyses -> Running \union {Idle} \union {Ended(o) : o \in {"verdict", "failed"}}]
      /\ run[a] \in Running
  BY CallType DEF LoopInv, AnalysisTypeOK, InCall
<1>2. Answered(a).cfg = run[a].cfg
  BY <1>1 DEF Answered, Running
<1>3. \A todo : [run[a] EXCEPT !.at = "cache", !.todo = todo].cfg = run[a].cfg
  BY <1>1 DEF Running
<1>4. [run[a] EXCEPT !.at = "list", !.todo = <<>>].cfg = run[a].cfg
  BY <1>1 DEF Running
<1>5. PICK rest :
         \/ run' = [run EXCEPT ![a] = Answered(a)]
         \/ run' = [run EXCEPT ![a] = [run[a] EXCEPT !.at = "cache", !.todo = rest]]
         \/ run' = [run EXCEPT ![a] = [run[a] EXCEPT !.at = "list", !.todo = <<>>]]
  BY DEF Found, Guarded
<1> QED
  BY <1>1, <1>2, <1>3, <1>4, <1>5

\* Every step of an analysis after its first keeps the settings it has.
LEMMA ConfigKept ==
    ASSUME LoopInv, NEW a \in Analyses, Begin(a) \/ Step(a) \/ Stop(a), run'[a].at \in Places
    PROVE  run'[a].cfg \in Configs[a] \/ (run[a].at \in Places /\ run'[a].cfg = run[a].cfg)
<1>1. run \in [Analyses -> Running \union {Idle} \union {Ended(o) : o \in {"verdict", "failed"}}]
  BY DEF LoopInv, AnalysisTypeOK
<1>2. run[a].at \in Places => run[a] \in Running
  BY RunningRecord DEF LoopInv
<1>3. CASE Begin(a)
  BY <1>1, <1>3 DEF Begin, Ended, Places
<1>4. CASE Respond(a) \/ RequestFails(a) \/ Stop(a)
  <2>1. CASE RequestFails(a) \/ Stop(a)
    BY <1>1, <2>1 DEF RequestFails, Stop, Ended, Places
  <2>2. CASE Respond(a)
    <3>1. run[a] \in Running /\ run[a].at \in Places
      BY <1>2, <2>2 DEF Respond, Places
    <3>2. PICK turn, outcome :
             \/ run' = [run EXCEPT ![a] = Ended(outcome)]
             \/ run' = [run EXCEPT ![a].at = "turn", ![a].turn = turn, ![a].results = <<>>,
                                   ![a].round = NextRound(a)]
      BY <2>2 DEF Respond
    <3>3. CASE run' = [run EXCEPT ![a] = Ended(outcome)]
      BY <1>1, <3>3 DEF Ended, Places
    <3> DEFINE new == [run[a] EXCEPT !.at = "turn", !.turn = turn, !.results = <<>>,
                                     !.round = NextRound(a)]
    <3>4. new.cfg = run[a].cfg
      BY <3>1 DEF Running
    <3>5. CASE run' = [run EXCEPT ![a] = new]
      BY <1>1, <3>1, <3>4, <3>5
    <3> QED
      BY <3>2, <3>3, <3>5
  <2> QED
    BY <1>4, <2>1, <2>2
<1>5. CASE EndTurn(a) \/ List(a)
  BY <1>1, <1>2, <1>5 DEF EndTurn, List, Ended, Places, Running
<1>6. CASE Execute(a)
  BY <1>1, <1>2, <1>6 DEF Execute, Places, Running
<1>7. CASE Confirm(a) \/ PushFails(a)
  BY <1>1, <1>2, <1>7 DEF Confirm, PushFails, Answered, Places, Running
<1>8. CASE Hit(a) \/ Look(a)
  BY <1>8, FoundConfig DEF Hit, Look, Places
<1> QED
  BY <1>3, <1>4, <1>5, <1>6, <1>7, <1>8 DEF Step

LEMMA ConfigStep ==
    ASSUME LoopInv, ConfigInv, [AnalysisNext]_analysisVars
    PROVE  ConfigInv'
<1> DEFINE Good(b) == /\ run'[b].at \in Places => run'[b].cfg \in Configs[b]
                      /\ run'[b].at \in InPush => run'[b].cfg.policy = "auto"
<1>1. \A b \in Analyses : run'[b] = run[b] => Good(b)
  BY DEF ConfigInv
<1>2. ASSUME NEW a \in Analyses, Begin(a) \/ Step(a) \/ Stop(a)
      PROVE  \A b \in Analyses : Good(b)
  <2>1. run'[a].at \in Places => run'[a].cfg \in Configs[a]
    BY <1>2, ConfigKept DEF ConfigInv
  <2>2. CASE Hit(a) \/ Look(a)
    <3>1. PICK val : Found(a, val) /\ run[a].at = "cache"
      BY <2>2 DEF Hit, Look
    <3>2. /\ run'[a].at \in InPush => run[a].cfg.policy = "auto"
          /\ \A b \in Analyses \ {a} : run'[b] = run[b]
      BY <3>1, FoundPush
    <3>3. run'[a].cfg = run[a].cfg
      BY <3>1, FoundConfig
    <3> QED
      BY <1>1, <2>1, <3>2, <3>3
  <2>3. CASE List(a)
    <3>1. run[a] \in Running /\ run[a].at = "list"
      BY <2>3, RunningRecord DEF List, LoopInv, Places
    <3>2. run'[a].cfg = run[a].cfg /\ \A b \in Analyses \ {a} : run'[b] = run[b]
      BY <2>3, <3>1 DEF List, LoopInv, AnalysisTypeOK, Running
    <3> QED
      BY <1>1, <2>1, <3>1, <3>2 DEF ConfigInv, InPush
  <2>4. CASE ~(Hit(a) \/ Look(a) \/ List(a))
    <3>1. run'[a].at \notin InPush /\ \A b \in Analyses \ {a} : run'[b] = run[b]
      BY <1>2, <2>4, QuietSteps DEF Step
    <3> QED
      BY <1>1, <2>1, <3>1
  <2> QED
    BY <2>2, <2>3, <2>4
<1>3. ASSUME NEW w \in flight, Land(w) PROVE \A b \in Analyses : Good(b)
  <2>1. w.by \in Analyses
    BY DEF LoopInv, AnalysisTypeOK, Write
  <2>2. run[w.by].at = "write" => run[w.by] \in Running
    BY <2>1, RunningRecord DEF LoopInv, Places
  <2>3. \A b \in Analyses : run'[b] = run[b] \/ (run'[b].at = run[b].at /\ run'[b].cfg = run[b].cfg)
    BY <1>3, <2>1, <2>2 DEF Land, LoopInv, AnalysisTypeOK, Running
  <2> QED
    BY <1>1, <2>3 DEF ConfigInv
<1>4. ASSUME run' = run PROVE \A b \in Analyses : Good(b)
  BY <1>1, <1>4
<1>5. \A b \in Analyses : Good(b)
  BY <1>2, <1>3, <1>4 DEF AnalysisNext, Forget, Vanish, analysisVars
<1> QED
  BY <1>5 DEF ConfigInv

\* However analyses interleave, and whatever the model calls and Redis and UniFi
\* lose, a block of a shared provider comes about in two ways only: its own
\* reverse look-up returned no name, or it is a neighbour of another client.
THEOREM BlocksAreJustified == AnalysisSpec => []BlocksJustified
<1>1. AnalysisInit => ConfigInv /\ BlocksInv
  BY DEF AnalysisInit, ConfigInv, BlocksInv, Members, Idle, InPush, Places, Keys
<1>2. BlocksInv => BlocksJustified
  BY DEF BlocksInv, BlocksJustified, Justified
<1> QED
  BY Loop, <1>1, ConfigStep, BlocksStep, <1>2, PTL DEF AnalysisSpec

-----------------------------------------------------------------------------
(* What is recorded *)

\* The analysis is not in a push afterwards, and has the results it had, or is
\* in a later round; a push that it left has its result.
Onward(a) ==
    /\ \A b \in Analyses \ {a} : run'[b] = run[b]
    /\ run'[a].at \notin {"write", "new"}
    /\ run'[a].at \in Places => ~run'[a].ok
    /\ run'[a].at \in Places =>
          \/ run[a].at = "new"
          \/ /\ run[a].at \in Places
             /\ \/ run[a].round < run'[a].round
                \/ /\ run'[a].round = run[a].round
                   /\ \A i \in DOMAIN run[a].results :
                         \E j \in DOMAIN run'[a].results : run'[a].results[j] = run[a].results[i]
                   /\ run[a].at = "write" =>
                         \E j \in DOMAIN run'[a].results : run'[a].results[j] = run[a].call

\* Nothing recorded is lost, a push that is left is recorded or counted as cut
\* short, and only what UniFi said is recorded as executed.
RecordsKept(a) ==
    /\ \A b \in Analyses : audited[b] \subseteq audited'[b]
    /\ cut \subseteq cut'
    /\ run[a].at = "write" =>
          \/ {<<"executed", Asked(a, CallOf(a))>>, <<"error", Asked(a, CallOf(a))>>}
                 \intersect audited'[a] # {}
          \/ a \in cut' /\ Client[a] \in Asked(a, CallOf(a))
    /\ \A b \in Analyses, block \in Blocks : <<"executed", block>> \in audited'[b] =>
          /\ <<"executed", block>> \in listed'[b]
          /\ <<"executed", block>> \in audited[b] \/ (b = a /\ Told(a, block))

\* Such a step keeps the invariant.
LEMMA OnwardRecords ==
    ASSUME LoopInv, LoopInv', RecordInv, NEW a \in Analyses, Onward(a), RecordsKept(a),
           UNCHANGED <<group, flight, overlapped>>
    PROVE  RecordInv'
<1>1. ASSUME NEW block, Accounted(block) PROVE Accounted(block)'
  <2>1. PICK b \in Analyses :
            \/ {<<"executed", block>>, <<"error", block>>} \intersect audited[b] # {}
            \/ run[b].at = "write" /\ Asked(b, CallOf(b)) = block
            \/ b \in cut /\ Client[b] \in block
    BY <1>1 DEF Accounted
  <2>2. CASE {<<"executed", block>>, <<"error", block>>} \intersect audited[b] # {}
    BY <2>2 DEF RecordsKept, Accounted
  <2>3. CASE run[b].at = "write" /\ Asked(b, CallOf(b)) = block
    <3>1. CASE b = a
      BY <2>3, <3>1 DEF RecordsKept, Accounted
    <3>2. CASE b # a
      BY <2>3, <3>2 DEF Onward, Accounted, Asked, CallOf
    <3> QED
      BY <3>1, <3>2
  <2>4. CASE b \in cut /\ Client[b] \in block
    BY <2>4 DEF RecordsKept, Accounted
  <2> QED
    BY <2>1, <2>2, <2>3, <2>4
<1>2. ASSUME NEW b \in Analyses, NEW block \in Blocks, Told(b, block)'
      PROVE  Told(b, block)
  <2>1. CASE b = a
    BY <1>2, <2>1 DEF RecordsKept, Onward, Told
  <2>2. CASE b # a
    BY <1>2, <2>2 DEF RecordsKept, Onward, Told, Asked, CallOf
  <2> QED
    BY <2>1, <2>2
<1>3. ASSUME NEW w \in flight PROVE Belongs(w)'
  <2>1. Belongs(w) /\ w \in Write /\ w.by \in Analyses /\ w.id[1] \in Nat
    BY DEF RecordInv, LoopInv, AnalysisTypeOK, Write
  <2>2. CASE w.by # a
    BY <2>1, <2>2 DEF Onward, Belongs, Asked, CallOf
  <2>3. CASE w.by = a
    <3>1. run'[a].at # "new" /\ run[a].at # "new"
      BY <2>1, <2>3 DEF Onward, Belongs
    <3>2. CASE run'[a].at \notin Places
      BY <2>3, <3>1, <3>2 DEF Belongs
    <3>3. CASE run'[a].at \in Places
      <4>1. run[a].at \in Places
        BY <3>1, <3>3 DEF Onward
      <4>2. run[a].round \in Nat /\ run'[a].round \in Nat
        <5>1. run[a] \in Running
          BY <4>1, RunningRecord DEF LoopInv
        <5>2. run'[a] \in Running
          BY <3>3 DEF LoopInv, AnalysisTypeOK, Idle, Ended, Places
        <5> QED
          BY <5>1, <5>2, AnalysisAssumption DEF Running
      <4>3. \/ w.id[1] < run[a].round
            \/ /\ w.id[1] = run[a].round
               /\ \/ \E i \in DOMAIN run[a].results : run[a].results[i] = w.id[2]
                  \/ run[a].at = "write" /\ run[a].call = w.id[2]
        BY <2>1, <2>3, <4>1 DEF Belongs
      <4>4. \/ w.id[1] < run'[a].round
            \/ /\ w.id[1] = run'[a].round
               /\ \E i \in DOMAIN run'[a].results : run'[a].results[i] = w.id[2]
        <5>1. CASE run[a].round < run'[a].round
          BY <2>1, <4>2, <4>3, <5>1
        <5>2. CASE ~(run[a].round < run'[a].round)
          BY <2>1, <3>1, <3>3, <4>2, <4>3, <5>2 DEF Onward
        <5> QED
          BY <5>1, <5>2
      <4> QED
        BY <2>3, <3>1, <4>4 DEF Belongs
    <3> QED
      BY <3>2, <3>3
  <2> QED
    BY <2>2, <2>3
<1>4. \A b \in Analyses : run'[b].at \in Places \ {"write"} => ~run'[b].ok
  BY DEF RecordInv, Onward
<1>5. /\ \A block \in Members' : Accounted(block)'
      /\ \A w \in flight' : \A block \in Sent(w)' : Accounted(block)'
  BY <1>1 DEF RecordInv, Members, Sent
<1>6. \A b \in Analyses, block \in Blocks :
         Told(b, block)' /\ b \notin overlapped' =>
             block \in Members' /\ \A w \in flight' : block \in Sent(w)'
  BY <1>2 DEF RecordInv, Members, Sent
<1>7. \A b \in Analyses, block \in Blocks :
         <<"executed", block>> \in audited'[b] => <<"executed", block>> \in listed'[b]
  BY DEF RecordsKept
<1>8. /\ \A v, w \in flight' : v # w => v.by \in overlapped'
      /\ \A w \in flight' : w.base = NoGroup /\ group' # NoGroup => w.by \in overlapped'
      /\ \A w \in flight' : Belongs(w)'
  BY <1>3 DEF RecordInv
<1> QED
  BY <1>4, <1>5, <1>6, <1>7, <1>8 DEF RecordInv

LEMMA ExecutedListed ==
    ASSUME RecordInv
    PROVE  \A a \in Analyses, block \in Blocks :
              <<"executed", block>> \in audited[a] => <<"executed", block>> \in listed[a]
BY DEF RecordInv

\* What a record of a block, or none, does to the records.
LEMMA RecordedKept ==
    ASSUME LoopInv, RecordInv, NEW a \in Analyses, NEW status \in Statuses, NEW block \in Blocks,
           Recorded(a, status, block),
           status = "executed" => Told(a, block),
           run[a].at = "write" => /\ status \in {"executed", "error"}
                                  /\ block = Asked(a, CallOf(a)) /\ Client[a] \in block
    PROVE  RecordsKept(a)
<1>1. PICK n \in 0..2 : Record(a, status, block, n)
  BY DEF Recorded, Writes
<1>2. listed \in [Analyses -> SUBSET (Statuses \X Blocks)]
      /\ audited \in [Analyses -> SUBSET (Statuses \X Blocks)]
  BY DEF LoopInv, AnalysisTypeOK
<1>3. /\ \A b \in Analyses : audited[b] \subseteq audited'[b] /\ listed[b] \subseteq listed'[b]
      /\ \A b \in Analyses \ {a} : audited'[b] = audited[b]
      /\ cut \subseteq cut'
  BY <1>1, <1>2 DEF Record
<1>4. \/ audited' = audited
      \/ /\ n = 2 /\ audited'[a] = audited[a] \union {<<status, block>>}
         /\ status # "refused" => <<status, block>> \in listed'[a]
  BY <1>1, <1>2 DEF Record
<1>5. run[a].at = "write" => <<status, block>> \in audited'[a] \/ a \in cut'
  BY <1>1, <1>2 DEF Record
<1>6. \A b \in Analyses, x \in Blocks : <<"executed", x>> \in audited'[b] =>
         /\ <<"executed", x>> \in listed'[b]
         /\ <<"executed", x>> \in audited[b] \/ (b = a /\ Told(a, x))
  <2> SUFFICES ASSUME NEW b \in Analyses, NEW x \in Blocks, <<"executed", x>> \in audited'[b]
               PROVE  /\ <<"executed", x>> \in listed'[b]
                      /\ <<"executed", x>> \in audited[b] \/ (b = a /\ Told(a, x))
    OBVIOUS
  <2>1. CASE <<"executed", x>> \in audited[b]
    <3>1. <<"executed", x>> \in listed[b]
      BY <2>1, ExecutedListed
    <3>2. listed[b] \subseteq listed'[b]
      BY <1>3
    <3> QED
      BY <2>1, <3>1, <3>2
  <2>2. CASE <<"executed", x>> \notin audited[b]
    <3>1. b = a /\ <<"executed", x>> = <<status, block>>
      BY <1>3, <1>4, <2>2
    <3>2. status = "executed" /\ x = block
      BY <3>1
    <3> QED
      BY <1>4, <2>2, <3>1, <3>2
  <2> QED
    BY <2>1, <2>2
<1> QED
  BY <1>3, <1>5, <1>6 DEF RecordsKept

LEMMA NoRecordKept ==
    ASSUME LoopInv, RecordInv, NEW a \in Analyses, UNCHANGED <<listed, audited>>,
           cut \subseteq cut', run[a].at = "write" => a \in cut'
    PROVE  RecordsKept(a)
<1>1. run[a].at = "write" => Client[a] \in Asked(a, CallOf(a))
  BY CallType DEF LoopInv, CallOK, InCall, InPush
<1>2. \A b \in Analyses, block \in Blocks : <<"executed", block>> \in audited'[b] =>
         <<"executed", block>> \in listed'[b] /\ <<"executed", block>> \in audited[b]
  BY ExecutedListed
<1> QED
  BY <1>1, <1>2 DEF RecordsKept

LEMMA AnsweredOnward ==
    ASSUME LoopInv, NEW a \in Analyses, run[a].at \in InCall,
           run' = [run EXCEPT ![a] = Answered(a)]
    PROVE  Onward(a)
<1> DEFINE new == Answered(a)
           more == Append(run[a].results, run[a].call)
<1>1. run[a] \in Running /\ run[a].results \in Seq(Nat) /\ run[a].call \in Nat
  BY CallType DEF Running
<1>2. new.at = "turn" /\ new.round = run[a].round /\ new.results = more /\ new.ok = FALSE
  BY <1>1 DEF Answered, Running
<1>3. /\ \A i \in DOMAIN run[a].results :
            i \in DOMAIN more /\ more[i] = run[a].results[i]
      /\ Len(run[a].results) + 1 \in DOMAIN more
      /\ more[Len(run[a].results) + 1] = run[a].call
  BY <1>1
<1>4. run'[a] = new /\ \A b \in Analyses \ {a} : run'[b] = run[b]
  BY DEF LoopInv, AnalysisTypeOK
<1>5. run[a].at \in Places
  BY DEF InCall, Places
<1> HIDE DEF new, more
<1> QED
  BY <1>2, <1>3, <1>4, <1>5 DEF Onward

LEMMA EndedOnward ==
    ASSUME LoopInv, NEW a \in Analyses, NEW o, run' = [run EXCEPT ![a] = Ended(o)]
    PROVE  Onward(a)
<1>1. run'[a].at = "done" /\ \A b \in Analyses \ {a} : run'[b] = run[b]
  BY DEF LoopInv, AnalysisTypeOK, Ended
<1> QED
  BY <1>1 DEF Onward, Places

\* The steps before a request's answer and after a turn.
LEMMA LoopOnward ==
    ASSUME LoopInv, RecordInv, NEW a \in Analyses,
           Begin(a) \/ Respond(a) \/ RequestFails(a) \/ EndTurn(a)
    PROVE  Onward(a) /\ RecordsKept(a) /\ UNCHANGED <<group, flight, overlapped>>
<1>1. /\ RecordsKept(a) /\ UNCHANGED <<group, flight, overlapped>>
      /\ run[a].at \in {"new", "request", "turn"}
  <2>1. UNCHANGED shared /\ run[a].at \in {"new", "request", "turn"}
    <3>1. CASE Begin(a)
      BY <3>1 DEF Begin, Idle
    <3>2. CASE Respond(a)
      BY <3>2 DEF Respond
    <3>3. CASE RequestFails(a)
      BY <3>3 DEF RequestFails
    <3>4. CASE EndTurn(a)
      BY <3>4 DEF EndTurn
    <3> QED
      BY <3>1, <3>2, <3>3, <3>4
  <2> QED
    BY <2>1, NoRecordKept DEF shared
<1>2. ~run[a].ok \/ run[a].at = "new"
  BY <1>1 DEF RecordInv, Places
<1>3. run[a].at # "new" => run[a] \in Running /\ run[a].at \in Places
  BY <1>1, RunningRecord DEF LoopInv, Places
<1>4. run \in [Analyses -> Running \union {Idle} \union {Ended(o) : o \in {"verdict", "failed"}}]
  BY DEF LoopInv, AnalysisTypeOK
<1>5. CASE \E o : run' = [run EXCEPT ![a] = Ended(o)]
  BY <1>1, <1>5, EndedOnward
<1>6. CASE Begin(a)
  <2>1. PICK c : \/ run' = [run EXCEPT ![a] = Ended("failed")]
                 \/ run' = [run EXCEPT ![a] =
                              [at |-> "request", cfg |-> c, round |-> 0, turn |-> <<>>,
                               results |-> <<>>, call |-> 0, todo |-> <<>>, ok |-> FALSE]]
    BY <1>6 DEF Begin
  <2>2. run[a].at = "new"
    BY <1>6 DEF Begin, Idle
  <2> QED
    BY <1>1, <1>4, <1>5, <2>1, <2>2 DEF Onward
<1>7. CASE Respond(a)
  <2>1. PICK turn : \/ \E o : run' = [run EXCEPT ![a] = Ended(o)]
                    \/ run' = [run EXCEPT ![a].at = "turn", ![a].turn = turn,
                                          ![a].results = <<>>, ![a].round = NextRound(a)]
    BY <1>7 DEF Respond
  <2> DEFINE new == [run[a] EXCEPT !.at = "turn", !.turn = turn, !.results = <<>>,
                                   !.round = NextRound(a)]
  <2>2. run[a] \in Running /\ run[a].at \in Places /\ ~run[a].ok /\ run[a].round \in Nat
    <3>1. run[a].at = "request"
      BY <1>7 DEF Respond
    <3>2. run[a] \in Running /\ run[a].at \in Places /\ ~run[a].ok
      BY <1>2, <1>3, <3>1
    <3> QED
      BY <3>2, AnalysisAssumption DEF Running
  <2>3. new.at = "turn" /\ new.round = run[a].round + 1 /\ new.ok = run[a].ok
    BY <2>2 DEF Running, NextRound
  <2>4. (\E o : run' = [run EXCEPT ![a] = Ended(o)]) \/ run' = [run EXCEPT ![a] = new]
    BY <2>1
  <2> HIDE DEF new
  <2>5. CASE run' = [run EXCEPT ![a] = new]
    <3>1. run'[a] = new /\ \A b \in Analyses \ {a} : run'[b] = run[b]
      BY <1>4, <2>5
    <3> QED
      BY <1>1, <2>2, <2>3, <3>1 DEF Onward
  <2> QED
    BY <1>5, <2>4, <2>5
<1>8. CASE EndTurn(a)
  <2> DEFINE results == run[a].results
             new == [run[a] EXCEPT !.at = "request", !.results = Nudged(a)]
  <2>1. /\ run[a] \in Running /\ run[a].at \in Places /\ ~run[a].ok /\ run[a].at = "turn"
        /\ results \in Seq(Nat) /\ run[a].turn \in Seq(Calls)
    BY <1>2, <1>3, <1>8, TurnType DEF EndTurn, Running
  <2>2. \A i \in DOMAIN results : i \in DOMAIN Nudged(a) /\ Nudged(a)[i] = results[i]
    <3>1. CASE Verdicts(run[a].turn) = {}
      BY <3>1 DEF Nudged
    <3>2. CASE Verdicts(run[a].turn) # {}
      <4> DEFINE v == First(Verdicts(run[a].turn))
      <4>1. v \in Nat
        BY <2>1, <3>2, Positions, FirstIsLeast
      <4>2. \A i \in DOMAIN results :
               i \in DOMAIN Append(results, v) /\ Append(results, v)[i] = results[i]
        BY <2>1, <4>1
      <4> QED
        BY <3>2, <4>2 DEF Nudged
    <3> QED
      BY <3>1, <3>2
  <2>3. /\ new.at = "request" /\ new.round = run[a].round /\ new.ok = run[a].ok
        /\ new.results = Nudged(a)
    BY <2>1 DEF Running
  <2>4. (\E o : run' = [run EXCEPT ![a] = Ended(o)]) \/ run' = [run EXCEPT ![a] = new]
    BY <1>8 DEF EndTurn
  <2> HIDE DEF new
  <2>5. CASE run' = [run EXCEPT ![a] = new]
    <3>1. run'[a] = new /\ \A b \in Analyses \ {a} : run'[b] = run[b]
      BY <1>4, <2>5
    <3> QED
      BY <1>1, <2>1, <2>2, <2>3, <3>1 DEF Onward
  <2> QED
    BY <1>5, <2>4, <2>5
<1>9. CASE RequestFails(a)
  BY <1>5, <1>9 DEF RequestFails
<1> QED
  BY <1>6, <1>7, <1>8, <1>9

LEMMA ExecuteOnward ==
    ASSUME LoopInv, RecordInv, NEW a \in Analyses, Execute(a)
    PROVE  Onward(a) /\ RecordsKept(a) /\ UNCHANGED <<group, flight, overlapped>>
<1> DEFINE results == run[a].results
           i == First(Unanswered(a))
           call == run[a].turn[i]
<1>1. /\ run[a] \in Running /\ run[a].at = "turn" /\ ~run[a].ok
      /\ results \in Seq(Nat) /\ run[a].turn \in Seq(Calls)
      /\ run \in [Analyses -> Running \union {Idle} \union {Ended(o) : o \in {"verdict", "failed"}}]
  <2>1. run[a] \in Running /\ run[a].at = "turn"
    BY RunningRecord DEF LoopInv, Execute, Places
  <2> QED
    BY <2>1, TurnType DEF LoopInv, AnalysisTypeOK, RecordInv, Places, Running
<1>2. i \in Others(run[a].turn) /\ i \in Nat /\ call \in Calls
  <2>1. Unanswered(a) \subseteq Others(run[a].turn) /\ Unanswered(a) # {}
    BY DEF Unanswered, Execute
  <2>2. Unanswered(a) \subseteq Nat
    BY <1>1, <2>1, Positions
  <2>3. i \in Unanswered(a)
    BY <2>1, <2>2, FirstIsLeast
  <2> QED
    BY <1>1, <2>1, <2>2, <2>3, Positions
<1>3. RecordsKept(a)
  <2>1. CASE UNCHANGED <<listed, audited, cut>>
    BY <1>1, <2>1, NoRecordKept
  <2>2. CASE /\ call.tool = "unifi_block" /\ call.target # NoIp
             /\ Recorded(a, "refused", {call.target})
    <3>1. {call.target} \in Blocks /\ "refused" \in Statuses
      BY <1>2, <2>2 DEF Calls, Blocks, Statuses
    <3> QED
      BY <1>1, <2>2, <3>1, RecordedKept
  <2>3. \/ UNCHANGED <<listed, audited, cut>>
        \/ /\ call.tool = "unifi_block" /\ call.target # NoIp
           /\ Recorded(a, "refused", {call.target})
    BY DEF Execute
  <2> QED
    BY <2>1, <2>2, <2>3
<1>4. Onward(a)
  <2> DEFINE todo == LookUps(call)
             waits == [run[a] EXCEPT !.call = i, !.at = "cache", !.todo = todo]
             done == [run[a] EXCEPT !.results = Append(results, i)]
  <2>1. run' = [run EXCEPT ![a] = waits] \/ run' = [run EXCEPT ![a] = done]
    BY <1>1 DEF Execute, Running
  <2>2. /\ waits.at = "cache" /\ waits.round = run[a].round /\ waits.ok = run[a].ok
        /\ waits.results = results
    BY <1>1 DEF Running
  <2>3. /\ done.at = "turn" /\ done.round = run[a].round /\ done.ok = run[a].ok
        /\ done.results = Append(results, i)
    BY <1>1 DEF Running
  <2>4. \A j \in DOMAIN results : j \in DOMAIN Append(results, i)
                                  /\ Append(results, i)[j] = results[j]
    BY <1>1, <1>2
  <2> HIDE DEF waits, done
  <2>5. run'[a] \in {waits, done} /\ \A b \in Analyses \ {a} : run'[b] = run[b]
    BY <1>1, <2>1
  <2>6. run[a].at \in Places
    BY <1>1 DEF Places
  <2> QED
    BY <1>1, <2>2, <2>3, <2>4, <2>5, <2>6 DEF Onward
<1> QED
  BY <1>3, <1>4 DEF Execute

LEMMA FoundOnward ==
    ASSUME LoopInv, RecordInv, NEW a \in Analyses, run[a].at = "cache", NEW val, Found(a, val)
    PROVE  Onward(a) /\ RecordsKept(a)
<1> DEFINE rest == Tail(run[a].todo) \o Further(Head(run[a].todo), val, run[a].cfg.max_ips)
           block == Asked(a, CallOf(a))
<1>1. /\ run[a] \in Running /\ run[a].at \in InCall /\ run[a].at \in Places /\ ~run[a].ok
      /\ run \in [Analyses -> Running \union {Idle} \union {Ended(o) : o \in {"verdict", "failed"}}]
  BY CallType DEF LoopInv, AnalysisTypeOK, RecordInv, InCall, Places
<1>2. ASSUME NEW at \in {"list", "cache"}, NEW todo,
             run' = [run EXCEPT ![a] = [run[a] EXCEPT !.at = at, !.todo = todo]]
      PROVE  Onward(a)
  <2> DEFINE new == [run[a] EXCEPT !.at = at, !.todo = todo]
  <2>1. /\ new.at = at /\ new.round = run[a].round /\ new.ok = run[a].ok
        /\ new.results = run[a].results
    BY <1>1 DEF Running
  <2>2. run'[a] = new /\ \A b \in Analyses \ {a} : run'[b] = run[b]
    BY <1>1, <1>2
  <2> HIDE DEF new
  <2> QED
    BY <1>1, <2>1, <2>2 DEF Onward
<1>3. CASE rest = <<>> /\ CallOf(a).tool = "unifi_block"
  <2>1. block \in Blocks /\ {"refused", "suggested"} \subseteq Statuses
    BY <1>1, <1>3, CallType DEF Statuses
  <2>2. CASE /\ run' = [run EXCEPT ![a] = Answered(a)]
             /\ Recorded(a, "refused", block) \/ Recorded(a, "suggested", block)
    BY <1>1, <2>1, <2>2, AnsweredOnward, RecordedKept
  <2>3. CASE /\ run' = [run EXCEPT ![a].at = "list", ![a].todo = <<>>]
             /\ UNCHANGED <<listed, audited, cut>>
    <3>1. run' = [run EXCEPT ![a] = [run[a] EXCEPT !.at = "list", !.todo = <<>>]]
      BY <2>3
    <3> QED
      BY <1>1, <1>2, <2>3, <3>1, NoRecordKept
  <2> QED
    BY <1>3, <2>2, <2>3 DEF Found, Guarded
<1>4. CASE ~(rest = <<>> /\ CallOf(a).tool = "unifi_block")
  <2>1. /\ \/ run' = [run EXCEPT ![a] = Answered(a)]
           \/ run' = [run EXCEPT ![a] = [run[a] EXCEPT !.at = "cache", !.todo = rest]]
        /\ UNCHANGED <<listed, audited, cut>>
    BY <1>1, <1>4 DEF Found
  <2> HIDE DEF rest
  <2> QED
    BY <1>1, <1>2, <2>1, AnsweredOnward, NoRecordKept
<1> QED
  BY <1>3, <1>4

\* The end of a push.
LEMMA PushOnward ==
    ASSUME LoopInv, RecordInv, NEW a \in Analyses, Confirm(a) \/ PushFails(a) \/ Stop(a)
    PROVE  Onward(a) /\ RecordsKept(a) /\ UNCHANGED <<group, flight, overlapped>>
<1> DEFINE block == Asked(a, CallOf(a))
<1>1. CASE Confirm(a) \/ PushFails(a)
  <2>1. /\ run[a].at \in InPush /\ run[a].at \in InCall
        /\ run' = [run EXCEPT ![a] = Answered(a)]
    BY <1>1 DEF Confirm, PushFails, InPush, InCall
  <2>2. block \in Blocks /\ Client[a] \in block
    BY <2>1, CallType DEF LoopInv, CallOK
  <2>3. PICK status \in {"executed", "error"} :
            /\ Recorded(a, status, block)
            /\ status = "executed" => run[a].at = "write" /\ run[a].ok
    BY <1>1 DEF Confirm, PushFails
  <2>4. status \in Statuses /\ (status = "executed" => Told(a, block))
    BY <2>3 DEF Statuses, Told
  <2> QED
    BY <1>1, <2>1, <2>2, <2>3, <2>4, AnsweredOnward, RecordedKept DEF Confirm, PushFails
<1>2. CASE Stop(a)
  <2>1. cut \subseteq cut' /\ (run[a].at = "write" => a \in cut')
    BY <1>2 DEF Stop
  <2> QED
    BY <1>2, <2>1, EndedOnward, NoRecordKept DEF Stop
<1> QED
  BY <1>1, <1>2

LEMMA ListRecords ==
    ASSUME LoopInv, RecordInv, NEW a \in Analyses, List(a)
    PROVE  RecordInv'
<1> DEFINE block == Asked(a, CallOf(a))
           new == [run[a] EXCEPT !.at = "write"]
<1>0. PICK w : w = [by |-> a, id |-> Id(a), block |-> block, base |-> group]
  OBVIOUS
<1>1. /\ run[a].at = "list" /\ run[a] \in Running /\ ~run[a].ok
      /\ run \in [Analyses -> Running \union {Idle} \union {Ended(o) : o \in {"verdict", "failed"}}]
  BY CallType DEF List, LoopInv, AnalysisTypeOK, RecordInv, InCall, Places
<1>2. /\ new.at = "write" /\ new.cfg = run[a].cfg /\ new.round = run[a].round
      /\ new.turn = run[a].turn /\ new.results = run[a].results
      /\ new.call = run[a].call /\ new.ok = run[a].ok
  BY <1>1 DEF Running
<1>3. run' = [run EXCEPT ![a] = new]
  BY DEF List
<1> HIDE DEF new
<1>4. run'[a] = new /\ \A b \in Analyses \ {a} : run'[b] = run[b]
  BY <1>1, <1>3
<1>5. \A b \in Analyses : Asked(b, CallOf(b))' = Asked(b, CallOf(b))
  BY <1>2, <1>4 DEF Asked, CallOf
<1>6. /\ flight' = flight \union {w}
      /\ overlapped \subseteq overlapped'
      /\ flight # {} => \A v \in flight' : v.by \in overlapped'
      /\ UNCHANGED <<group, listed, audited, cut>>
  BY <1>0 DEF List
<1>7. ASSUME NEW x, Accounted(x) PROVE Accounted(x)'
  BY <1>1, <1>4, <1>5, <1>6, <1>7 DEF Accounted
<1>8. Accounted(w.block)'
  BY <1>0, <1>2, <1>4, <1>5 DEF Accounted
<1>9. ASSUME NEW b \in Analyses, NEW x \in Blocks, Told(b, x)' PROVE Told(b, x)
  <2>1. CASE b = a
    BY <1>1, <1>2, <1>4, <1>6, <1>9, <2>1 DEF Told
  <2>2. CASE b # a
    BY <1>4, <1>5, <1>6, <1>9, <2>2 DEF Told
  <2> QED
    BY <2>1, <2>2
<1>10. w.by = a /\ w.id = Id(a) /\ w.block = block /\ w.base = group
  BY <1>0
<1>11. Sent(w) = Members \union {w.block}
  BY <1>10 DEF Sent, Members
<1>12. Belongs(w)'
  BY <1>2, <1>4, <1>5, <1>10 DEF Belongs, Id
<1>13. ASSUME NEW v \in flight PROVE Belongs(v)'
  <2>1. Belongs(v) /\ v.by \in Analyses
    BY DEF RecordInv, LoopInv, AnalysisTypeOK, Write
  <2>2. CASE v.by = a
    BY <1>1, <1>2, <1>4, <2>1, <2>2 DEF Belongs, Places
  <2>3. CASE v.by # a
    BY <1>4, <1>5, <2>1, <2>3 DEF Belongs
  <2> QED
    BY <2>2, <2>3
<1>14. /\ \A x \in Members' : Accounted(x)'
       /\ \A v \in flight' : \A x \in Sent(v)' : Accounted(x)'
  <2>1. \A x \in Members : Accounted(x)'
    BY <1>7 DEF RecordInv
  <2>2. \A v \in flight : \A x \in Sent(v) : Accounted(x)'
    BY <1>7 DEF RecordInv
  <2> QED
    BY <1>6, <1>8, <1>11, <2>1, <2>2 DEF Members, Sent
<1>15. /\ \A u, v \in flight' : u # v => u.by \in overlapped'
       /\ \A v \in flight' : v.base = NoGroup /\ group' # NoGroup => v.by \in overlapped'
       /\ \A v \in flight' : Belongs(v)'
  BY <1>6, <1>10, <1>12, <1>13 DEF RecordInv
<1>16. \A b \in Analyses, x \in Blocks :
          Told(b, x)' /\ b \notin overlapped' =>
              x \in Members' /\ \A v \in flight' : x \in Sent(v)'
  BY <1>6, <1>9, <1>11 DEF RecordInv, Members, Sent
<1>17. \A b \in Analyses, x \in Blocks :
          <<"executed", x>> \in audited'[b] => <<"executed", x>> \in listed'[b]
  BY <1>6, ExecutedListed
<1>18. \A b \in Analyses : run'[b].at \in Places \ {"write"} => ~run'[b].ok
  BY <1>2, <1>4 DEF RecordInv
<1> QED
  BY <1>14, <1>15, <1>16, <1>17, <1>18 DEF RecordInv

\* The write of the push that waits is the one of its block.
LEMMA OwnWrite ==
    ASSUME LoopInv, RecordInv, NEW w \in flight, run[w.by].at = "write", Id(w.by) = w.id
    PROVE  w.block = Asked(w.by, CallOf(w.by))
<1>1. w.by \in Analyses /\ Belongs(w)
  BY DEF RecordInv, LoopInv, AnalysisTypeOK, Write
<1>2. run[w.by] \in Running
  BY <1>1, CallType DEF InCall
<1>3. run[w.by].round \in Nat /\ w.id[1] = run[w.by].round /\ w.id[2] = run[w.by].call
  <2>1. w.id[1] = run[w.by].round /\ w.id[2] = run[w.by].call
    BY DEF Id
  <2> QED
    BY <1>2, <2>1, AnalysisAssumption DEF Running
<1>4. \A i \in DOMAIN run[w.by].results : run[w.by].results[i] # run[w.by].call
  BY <1>1 DEF LoopInv, ResultsOK, InCall, Places, Unanswered
<1> QED
  BY <1>1, <1>3, <1>4 DEF Belongs, Places

LEMMA LandRecords ==
    ASSUME LoopInv, RecordInv, NEW w \in flight, Land(w)
    PROVE  RecordInv'
<1> DEFINE a == w.by
           new == [run[a] EXCEPT !.ok = TRUE]
           own == run[a].at = "write" /\ Id(a) = w.id
<1>1. /\ w \in Write /\ a \in Analyses
      /\ run \in [Analyses -> Running \union {Idle} \union {Ended(o) : o \in {"verdict", "failed"}}]
  BY DEF LoopInv, AnalysisTypeOK, Write
<1>2. own => run[a] \in Running
  BY <1>1, CallType DEF InCall
<1>3. own => /\ new.at = run[a].at /\ new.cfg = run[a].cfg /\ new.round = run[a].round
             /\ new.turn = run[a].turn /\ new.results = run[a].results
             /\ new.call = run[a].call
  BY <1>2 DEF Running
<1>4. run' = IF own THEN [run EXCEPT ![a] = new] ELSE run
  BY DEF Land
<1> HIDE DEF new
<1>5. /\ own => run'[a] = new
      /\ \A b \in Analyses : b # a \/ ~own => run'[b] = run[b]
  BY <1>1, <1>4
<1>6. \A b \in Analyses : /\ run'[b].at = run[b].at
                          /\ Asked(b, CallOf(b))' = Asked(b, CallOf(b))
                          /\ run'[b].ok => run[b].ok \/ (b = a /\ own)
                          /\ b # a \/ ~own => run'[b].ok = run[b].ok
  BY <1>1, <1>3, <1>5 DEF Asked, CallOf
<1>7. /\ flight' = flight \ {w}
      /\ group' = IF w.base = NoGroup /\ group # NoGroup THEN group ELSE Sent(w)
      /\ UNCHANGED <<listed, audited, overlapped, cut>>
  BY DEF Land
<1>8. Sent(w) \in SUBSET Blocks
  BY <1>1 DEF Sent, Write, Blocks
<1>9. /\ Sent(w) # NoGroup
      /\ Members' = Members \/ Members' = Sent(w)
      /\ ~(w.base = NoGroup /\ group # NoGroup) => Members' = Sent(w)
  BY <1>7, <1>8, AnalysisAssumption DEF Members, Blocks
<1>10. ASSUME NEW x, Accounted(x) PROVE Accounted(x)'
  BY <1>6, <1>7, <1>10 DEF Accounted
<1>11. ASSUME NEW b \in Analyses, NEW x \in Blocks, Told(b, x)', b \notin overlapped
       PROVE  x \in Members' /\ \A v \in flight' : x \in Sent(v)
  <2>1. CASE Told(b, x)
    BY <1>7, <1>9, <1>11, <2>1 DEF RecordInv
  <2>2. CASE ~Told(b, x)
    <3>1. b = a /\ own /\ x = Asked(a, CallOf(a))
      BY <1>6, <1>7, <1>11, <2>2 DEF Told
    <3>2. x = w.block
      BY <3>1, OwnWrite
    <3>3. flight' = {} /\ ~(w.base = NoGroup /\ group # NoGroup)
      BY <1>7, <1>11, <3>1 DEF RecordInv
    <3>4. x \in Sent(w)
      BY <3>2 DEF Sent
    <3> QED
      BY <1>9, <3>3, <3>4
  <2> QED
    BY <2>1, <2>2
<1>12. ASSUME NEW v \in flight PROVE Belongs(v)'
  <2>1. Belongs(v) /\ v.by \in Analyses
    BY DEF RecordInv, LoopInv, AnalysisTypeOK, Write
  <2>2. CASE v.by = a /\ own
    BY <1>3, <1>5, <1>6, <2>1, <2>2 DEF Belongs
  <2>3. CASE ~(v.by = a /\ own)
    BY <1>5, <1>6, <2>1, <2>3 DEF Belongs
  <2> QED
    BY <2>2, <2>3
<1>13. /\ \A x \in Members' : Accounted(x)'
       /\ \A v \in flight' : \A x \in Sent(v)' : Accounted(x)'
  BY <1>7, <1>9, <1>10 DEF RecordInv, Sent
<1>14. /\ \A u, v \in flight' : u # v => u.by \in overlapped'
       /\ \A v \in flight' : v.base = NoGroup /\ group' # NoGroup => v.by \in overlapped'
       /\ \A v \in flight' : Belongs(v)'
  BY <1>7, <1>12 DEF RecordInv
<1>15. \A b \in Analyses, x \in Blocks :
          Told(b, x)' /\ b \notin overlapped' =>
              x \in Members' /\ \A v \in flight' : x \in Sent(v)'
  BY <1>7, <1>11 DEF Sent
<1>16. \A b \in Analyses, x \in Blocks :
          <<"executed", x>> \in audited'[b] => <<"executed", x>> \in listed'[b]
  BY <1>7, ExecutedListed
<1>17. \A b \in Analyses : run'[b].at \in Places \ {"write"} => ~run'[b].ok
  BY <1>6 DEF RecordInv
<1> QED
  BY <1>13, <1>14, <1>15, <1>16, <1>17 DEF RecordInv

LEMMA RecordStep ==
    ASSUME LoopInv, RecordInv, [AnalysisNext]_analysisVars
    PROVE  RecordInv'
<1>1. LoopInv'
  BY LoopStep
<1>2. ASSUME NEW a \in Analyses, Begin(a) \/ Step(a) \/ Stop(a) PROVE RecordInv'
  <2>1. CASE List(a)
    BY <2>1, ListRecords
  <2>2. CASE ~List(a)
    <3>1. Onward(a) /\ RecordsKept(a) /\ UNCHANGED <<group, flight, overlapped>>
      <4>1. CASE Hit(a)
        BY <4>1, FoundOnward DEF Hit
      <4>2. CASE Look(a)
        BY <4>2, FoundOnward DEF Look
      <4> QED
        BY <1>2, <2>2, <4>1, <4>2, LoopOnward, ExecuteOnward, PushOnward DEF Step
    <3> QED
      BY <1>1, <3>1, OnwardRecords
  <2> QED
    BY <2>1, <2>2
<1>3. ASSUME NEW w \in flight, Vanish(w) PROVE RecordInv'
  <2>1. flight' \subseteq flight /\ UNCHANGED <<run, group, listed, audited, overlapped, cut>>
    BY <1>3 DEF Vanish
  <2> QED
    BY <2>1 DEF RecordInv, Members, Sent, Accounted, Told, Belongs, Asked, CallOf
<1>4. CASE UNCHANGED <<run, group, flight, listed, audited, overlapped, cut>>
  BY <1>4 DEF RecordInv, Members, Sent, Accounted, Told, Belongs, Asked, CallOf
<1> QED
  BY <1>2, <1>3, <1>4, LandRecords DEF AnalysisNext, Forget, analysisVars

\* How far "every attempt is audit-logged" (unifi.py:15) is true: a block in force
\* is not in the audit log only if its push still waits, or if the analysis of a
\* client in it was stopped in a push or could not write a record.
UnauditedWasCut == \A block \in Members : Accounted(block)

\* However many analyses share the group, and in whatever order their writes
\* take effect, late ones included.
THEOREM UnauditedBlocks == AnalysisSpec => []UnauditedWasCut
<1>1. AnalysisInit => RecordInv
  BY DEF AnalysisInit, RecordInv, Members, Told, Idle, Places
<1>2. RecordInv => UnauditedWasCut
  BY DEF RecordInv, UnauditedWasCut
<1> QED
  BY Loop, <1>1, RecordStep, <1>2, PTL DEF AnalysisSpec

\* A block recorded as executed is in force and on the Blocks page however many
\* pushes follow, from whatever analyses, unless its own push overlapped one:
\* push_block sends the list it read, with the block added.
THEOREM ExecutedBlocksStay == AnalysisSpec => []ExecutedStaysInForce
<1>1. AnalysisInit => RecordInv
  BY DEF AnalysisInit, RecordInv, Members, Told, Idle, Places
<1>2. RecordInv => ExecutedStaysInForce
  BY DEF RecordInv, ExecutedStaysInForce, Told
<1> QED
  BY Loop, <1>1, RecordStep, <1>2, PTL DEF AnalysisSpec
-----------------------------------------------------------------------------
(* Termination *)

\* What an analysis has still to do: rounds, results and the nudge of its turn,
\* parts of the call it makes, and look-ups of it, of which a host whose
\* addresses are not known yet may need two for each.
OfHost(key) == key[1] = "resolve"
LookUpsLeft(r) ==
    IF r.todo = <<>> THEN 0
    ELSE IF OfHost(r.todo[1]) THEN 1 + 2 * r.cfg.max_ips ELSE Len(r.todo)
CallsLeft(r) == Others(r.turn) \ {r.results[i] : i \in DOMAIN r.results}
Rank(r) ==
    <<MaxRounds - r.round,
      IF r.at = "request" THEN 0 ELSE 1 + Cardinality(CallsLeft(r)),
      CASE r.at = "turn" -> 3 [] r.at = "cache" -> 2 [] r.at = "list" -> 1 [] OTHER -> 0,
      LookUpsLeft(r)>>
Ranks == Nat \X Nat \X Nat \X Nat

\* The order of ranks: the first difference counts.
Lower(x, y) == \E i \in 1..4 : x[i] < y[i] /\ \A j \in 1..i - 1 : x[j] = y[j]

Falls(a) == run'[a].at = "done" \/ Lower(Rank(run'[a]), Rank(run[a]))
MovesOn ==
    \A a \in Analyses :
        /\ Step(a) => Falls(a)
        /\ run[a].at \in Places =>
              /\ Rank(run[a]) \in Ranks
              /\ Falls(a) \/ (run'[a].at \in Places /\ Rank(run'[a]) = Rank(run[a]))
        /\ run[a].at = "done" => run'[a] = run[a]

\* Only a host whose addresses are not known yet is looked up by name.
Alone(todo) == \A i \in DOMAIN todo : OfHost(todo[i]) => Len(todo) = 1
LeftInv ==
    /\ LoopInv
    /\ \A a \in Analyses : run[a].at = "cache" => Alone(run[a].todo)

LEMMA LowerAt ==
    ASSUME NEW x \in Ranks, NEW y \in Ranks,
           \/ x[1] < y[1]
           \/ x[1] = y[1] /\ x[2] < y[2]
           \/ x[1] = y[1] /\ x[2] = y[2] /\ x[3] < y[3]
           \/ x[1] = y[1] /\ x[2] = y[2] /\ x[3] = y[3] /\ x[4] < y[4]
    PROVE  Lower(x, y)
<1>1. CASE x[1] < y[1]
  BY <1>1 DEF Lower
<1>2. CASE x[1] = y[1] /\ x[2] < y[2]
  BY <1>2 DEF Lower
<1>3. CASE x[1] = y[1] /\ x[2] = y[2] /\ x[3] < y[3]
  BY <1>3 DEF Lower
<1>4. CASE x[1] = y[1] /\ x[2] = y[2] /\ x[3] = y[3] /\ x[4] < y[4]
  BY <1>4 DEF Lower
<1> QED
  BY <1>1, <1>2, <1>3, <1>4

\* Ranks cannot fall for ever: in any set of them there is a lowest one.
LEMMA NatLeast ==
    ASSUME NEW S, S \subseteq Nat, S # {}
    PROVE  \E i \in S : \A j \in S : i <= j
BY FirstIsLeast

LEMMA LowestRank ==
    ASSUME NEW S, S \subseteq Ranks, S # {}
    PROVE  \E x \in S : \A y \in S : ~Lower(y, x)
<1> DEFINE A == {x[1] : x \in S}
<1>1. PICK n1 \in A : \A n \in A : n1 <= n
  <2>1. A \subseteq Nat /\ A # {}
    BY DEF Ranks
  <2> QED
    BY <2>1, NatLeast
<1> DEFINE S1 == {x \in S : x[1] = n1}
           B == {x[2] : x \in S1}
<1>2. PICK n2 \in B : \A n \in B : n2 <= n
  <2>1. B \subseteq Nat /\ B # {}
    BY DEF Ranks
  <2> QED
    BY <2>1, NatLeast
<1> DEFINE S2 == {x \in S1 : x[2] = n2}
           C == {x[3] : x \in S2}
<1>3. PICK n3 \in C : \A n \in C : n3 <= n
  <2>1. C \subseteq Nat /\ C # {}
    BY DEF Ranks
  <2> QED
    BY <2>1, NatLeast
<1> DEFINE S3 == {x \in S2 : x[3] = n3}
           D == {x[4] : x \in S3}
<1>4. PICK n4 \in D : \A n \in D : n4 <= n
  <2>1. D \subseteq Nat /\ D # {}
    BY DEF Ranks
  <2> QED
    BY <2>1, NatLeast
<1>5. PICK x \in S3 : x[4] = n4
  OBVIOUS
<1>6. x \in S /\ x[1] = n1 /\ x[2] = n2 /\ x[3] = n3 /\ x[4] = n4
  BY <1>5
<1>7. ASSUME NEW y \in S, Lower(y, x) PROVE FALSE
  <2>1. /\ y[1] \in Nat /\ y[2] \in Nat /\ y[3] \in Nat /\ y[4] \in Nat
        /\ n1 \in Nat /\ n2 \in Nat /\ n3 \in Nat /\ n4 \in Nat
    BY <1>6 DEF Ranks
  <2>2. \/ y[1] < x[1]
        \/ y[1] = x[1] /\ y[2] < x[2]
        \/ y[1] = x[1] /\ y[2] = x[2] /\ y[3] < x[3]
        \/ y[1] = x[1] /\ y[2] = x[2] /\ y[3] = x[3] /\ y[4] < x[4]
    <3>1. PICK i \in 1..4 : y[i] < x[i] /\ \A j \in 1..i - 1 : y[j] = x[j]
      BY <1>7 DEF Lower
    <3>2. i = 1 \/ i = 2 \/ i = 3 \/ i = 4
      OBVIOUS
    <3> QED
      BY <3>1, <3>2
  <2>3. n1 <= y[1]
    BY <1>1
  <2>4. y[1] = n1 => n2 <= y[2]
    BY <1>2
  <2>5. y[1] = n1 /\ y[2] = n2 => n3 <= y[3]
    BY <1>3
  <2>6. y[1] = n1 /\ y[2] = n2 /\ y[3] = n3 => n4 <= y[4]
    BY <1>4
  <2> HIDE DEF A, B, C, D, S1, S2, S3
  <2> QED
    BY <1>6, <2>1, <2>2, <2>3, <2>4, <2>5, <2>6
<1> QED
  BY <1>6, <1>7

\* The parts of a rank.
LEMMA RankParts ==
    ASSUME NEW r \in Running
    PROVE  /\ Rank(r) \in Ranks
           /\ Rank(r)[1] = MaxRounds - r.round
           /\ Rank(r)[2] = IF r.at = "request" THEN 0 ELSE 1 + Cardinality(CallsLeft(r))
           /\ r.at = "turn" => Rank(r)[3] = 3
           /\ r.at = "cache" => Rank(r)[3] = 2
           /\ r.at = "list" => Rank(r)[3] = 1
           /\ r.at = "write" => Rank(r)[3] = 0
           /\ Rank(r)[4] = LookUpsLeft(r)
           /\ IsFiniteSet(CallsLeft(r)) /\ Cardinality(CallsLeft(r)) \in Nat
<1>1. MaxRounds - r.round \in Nat
  BY AnalysisAssumption DEF Running
<1>2. IsFiniteSet(CallsLeft(r)) /\ Cardinality(CallsLeft(r)) \in Nat
  <2>1. r.turn \in Seq(Calls)
    BY TurnType DEF Running
  <2>2. CallsLeft(r) \subseteq 1..Len(r.turn) /\ Len(r.turn) \in Nat
    BY <2>1, Positions DEF CallsLeft
  <2>3. IsFiniteSet(1..Len(r.turn))
    BY <2>2, FS_Interval
  <2> QED
    BY <2>2, <2>3, FS_Subset, FS_CardinalityType
<1>3. LookUpsLeft(r) \in Nat
  <2>1. r.todo \in Seq(Keys) /\ r.cfg.max_ips \in Nat
    BY LimitType DEF Running
  <2> QED
    BY <2>1 DEF LookUpsLeft
<1> DEFINE calls == IF r.at = "request" THEN 0 ELSE 1 + Cardinality(CallsLeft(r))
           part == CASE r.at = "turn" -> 3 [] r.at = "cache" -> 2
                     [] r.at = "list" -> 1 [] OTHER -> 0
<1>4. calls \in Nat
  BY <1>2
<1>5. part \in Nat /\ (r.at = "turn" => part = 3) /\ (r.at = "cache" => part = 2)
      /\ (r.at = "list" => part = 1) /\ (r.at = "write" => part = 0)
  OBVIOUS
<1>6. Rank(r) = <<MaxRounds - r.round, calls, part, LookUpsLeft(r)>>
  BY DEF Rank
<1> HIDE DEF part
<1> QED
  BY <1>1, <1>2, <1>3, <1>4, <1>5, <1>6 DEF Ranks

\* A call that gets its result is one less.
LEMMA OneCallLess ==
    ASSUME NEW r \in Running, NEW i \in CallsLeft(r), NEW new \in Running,
           new.turn = r.turn, new.results = Append(r.results, i)
    PROVE  Cardinality(CallsLeft(new)) < Cardinality(CallsLeft(r))
<1> DEFINE results == r.results
           more == Append(results, i)
<1>1. results \in Seq(Nat) /\ i \in Nat
  <2>1. r.turn \in Seq(Calls)
    BY TurnType DEF Running
  <2> QED
    BY <2>1, Positions DEF Running, CallsLeft
<1>2. {more[j] : j \in DOMAIN more} = {results[j] : j \in DOMAIN results} \union {i}
  <2>1. /\ DOMAIN more = 1..Len(results) + 1
        /\ DOMAIN results = 1..Len(results) /\ Len(results) \in Nat
        /\ \A j \in DOMAIN results : more[j] = results[j]
        /\ more[Len(results) + 1] = i
    BY <1>1
  <2> HIDE DEF more
  <2> QED
    BY <2>1
<1>3. CallsLeft(new) = CallsLeft(r) \ {i}
  BY <1>2 DEF CallsLeft
<1>4. IsFiniteSet(CallsLeft(r)) /\ Cardinality(CallsLeft(r)) \in Nat
  BY RankParts
<1>5. Cardinality(CallsLeft(r) \ {i}) = Cardinality(CallsLeft(r)) - 1
  BY <1>4, FS_RemoveElement
<1> QED
  BY <1>3, <1>4, <1>5

\* Where an analysis goes in a step of its own.
LEMMA AnswerFalls ==
    ASSUME LoopInv, NEW a \in Analyses, run[a].at \in InCall,
           run' = [run EXCEPT ![a] = Answered(a)]
    PROVE  Falls(a)
<1> DEFINE r == run[a]
           new == run'[a]
<1>1. r \in Running /\ r.call \in CallsLeft(r)
  BY CallType DEF LoopInv, ResultsOK, InCall, Places, Unanswered, CallsLeft
<1>2. new \in Running /\ new = Answered(a)
  <2>1. /\ new \in Running \union {Idle} \union {Ended(o) : o \in {"verdict", "failed"}}
        /\ new = Answered(a)
    BY AnsweredMoves DEF LoopInv, AnalysisTypeOK
  <2>2. new.at = "turn"
    BY <1>1, <2>1 DEF Answered, Running
  <2> QED
    BY <2>1, <2>2 DEF Idle, Ended
<1> HIDE DEF new
<1>3. /\ new.at = "turn" /\ new.round = r.round /\ new.turn = r.turn
      /\ new.results = Append(r.results, r.call)
  BY <1>1, <1>2 DEF Answered, Running
<1> HIDE DEF r
<1>4. Cardinality(CallsLeft(new)) < Cardinality(CallsLeft(r))
  BY <1>1, <1>2, <1>3, OneCallLess
<1>5. r.at # "request"
  BY DEF r, InCall
<1>6. Lower(Rank(new), Rank(r))
  BY <1>1, <1>2, <1>3, <1>4, <1>5, RankParts, LowerAt
<1> QED
  BY <1>6 DEF Falls, r, new

LEMMA CallGoesOn ==
    ASSUME NEW r \in Running, NEW new \in Running,
           new.round = r.round, new.turn = r.turn, new.results = r.results,
           \/ r.at = "turn" /\ new.at = "cache"
           \/ r.at = "cache" /\ new.at = "list"
           \/ r.at = "list" /\ new.at = "write"
           \/ r.at = "cache" /\ new.at = "cache" /\ LookUpsLeft(new) < LookUpsLeft(r)
    PROVE  Lower(Rank(new), Rank(r))
<1>1. CallsLeft(r) = CallsLeft(new) /\ r.at # "request" /\ new.at # "request"
  BY DEF CallsLeft
<1>2. Rank(r)[1] = Rank(new)[1] /\ Rank(r)[2] = Rank(new)[2]
  BY <1>1, RankParts
<1>3. \/ Rank(new)[3] < Rank(r)[3]
      \/ Rank(new)[3] = Rank(r)[3] /\ Rank(new)[4] < Rank(r)[4]
  BY RankParts
<1> QED
  BY <1>2, <1>3, RankParts, LowerAt

\* The owners of addresses are two look-ups for each, none of them of a host.
LEMMA OwnersAlone ==
    ASSUME NEW ips \in Seq(Ips)
    PROVE  /\ Len(Owners(ips)) = 2 * Len(ips)
           /\ \A i \in DOMAIN Owners(ips) : ~OfHost(Owners(ips)[i])
<1>1. \A i \in 1..(2 * Len(ips)) : Owners(ips)[i][1] \in {"rdap_ip", "rdns"}
  BY DEF Owners
<1>2. \A i \in 1..(2 * Len(ips)) : ~OfHost(Owners(ips)[i])
  BY <1>1 DEF OfHost
<1>3. Owners(ips) \in Seq(Keys) /\ DOMAIN Owners(ips) = 1..(2 * Len(ips)) /\ Len(ips) \in Nat
  BY OwnersType DEF Owners
<1> HIDE DEF Owners
<1> QED
  BY <1>2, <1>3

LEMMA LookUpsAlone ==
    ASSUME NEW call \in Calls, call.tool = "unifi_block" => call.target \in Ips
    PROVE  Alone(LookUps(call))
<1>1. Alone(<<>>)
  BY DEF Alone
<1>2. ASSUME NEW k PROVE Alone(<<k>>)
  BY DEF Alone
<1>3. ASSUME NEW t \in Ips PROVE Alone(Owners(<<t>>))
  <2>1. <<t>> \in Seq(Ips)
    OBVIOUS
  <2> QED
    BY <2>1, OwnersAlone DEF Alone
<1>4. Alone(IpLookup(call.target))
  BY <1>1 DEF IpLookup, Alone, OfHost
<1>5. Alone(IpOwnership(call.target))
  BY <1>1, <1>2, <1>3 DEF IpOwnership
<1>6. Alone(DomainAge(call.target)) /\ Alone(DnsVerify(call.target))
  BY <1>1, <1>2 DEF DomainAge, DnsVerify
<1>7. Alone(SharedProviderCheck(call.target))
  BY <1>1, <1>2 DEF SharedProviderCheck
<1> QED
  BY <1>1, <1>2, <1>4, <1>5, <1>6, <1>7 DEF LookUps

\* What is left of the look-ups after one of them has a value.
LEMMA FurtherIsLess ==
    ASSUME NEW key \in Keys, NEW val, NEW limit \in Nat, NEW more,
           more = Further(key, val, limit)
    PROVE  /\ more \in Seq(Keys) /\ Len(more) \in Nat /\ Len(more) <= 2 * limit
           /\ \A i \in DOMAIN more : ~OfHost(more[i])
           /\ ~OfHost(key) => more = <<>>
<1>1. more \in Seq(Keys) /\ Len(more) \in Nat
  BY FurtherType
<1>2. CASE OfHost(key) /\ val = "good"
  <2>1. key[2] \in Hosts
    BY <1>2 DEF Keys, OfHost
  <2> DEFINE ips == Resolves[key[2]]
             n == IF Len(ips) <= limit THEN Len(ips) ELSE limit
  <2>2. ips \in Seq(Ips)
    BY <2>1, AnalysisAssumption
  <2>3. n \in 0..Len(ips) /\ n <= limit /\ n \in Nat
    BY <2>2
  <2>4. SubSeq(ips, 1, n) \in Seq(Ips) /\ Len(SubSeq(ips, 1, n)) = n
    BY <2>2, <2>3, SubSeqProperties
  <2>5. more = Owners(SubSeq(ips, 1, n))
    BY <1>2 DEF Further, OfHost
  <2> HIDE DEF n
  <2>6. /\ Len(more) = 2 * n
        /\ \A i \in DOMAIN more : ~OfHost(more[i])
    BY <2>4, <2>5, OwnersAlone
  <2>7. Len(more) <= 2 * limit
    BY <2>3, <2>6
  <2> QED
    BY <1>1, <1>2, <2>6, <2>7
<1>3. CASE ~(OfHost(key) /\ val = "good")
  <2>1. more = <<>>
    BY <1>3 DEF Further, OfHost
  <2> QED
    BY <2>1
<1> QED
  BY <1>2, <1>3

LEMMA TailAlone ==
    ASSUME NEW S, NEW todo \in Seq(S), todo # <<>>, Alone(todo), NEW more \in Seq(S),
           \A i \in 1..Len(more) : ~OfHost(more[i]), ~OfHost(todo[1]) => more = <<>>
    PROVE  /\ Tail(todo) \o more \in Seq(S)
           /\ \A i \in 1..Len(Tail(todo) \o more) : ~OfHost((Tail(todo) \o more)[i])
           /\ Len(Tail(todo) \o more) = IF OfHost(todo[1]) THEN Len(more) ELSE Len(todo) - 1
<1>1. PICK tail : tail = Tail(todo)
  OBVIOUS
<1>2. /\ tail \in Seq(S) /\ Len(tail) = Len(todo) - 1
      /\ \A i \in 1..Len(tail) : tail[i] = todo[i + 1]
  BY <1>1, HeadTailProperties
<1>3. Len(todo) \in Nat /\ Len(todo) > 0 /\ DOMAIN todo = 1..Len(todo)
  BY EmptySeq, LenProperties
<1>4. CASE OfHost(todo[1])
  <2>1. Len(todo) = 1
    BY <1>3, <1>4 DEF Alone
  <2>2. Len(tail) = 0
    BY <1>2, <2>1
  <2>3. tail = <<>>
    BY <1>2, <2>2, EmptySeq
  <2>4. tail \o more = more
    BY <2>3, ConcatEmptySeq
  <2> QED
    BY <1>1, <1>4, <2>4
<1>5. CASE ~OfHost(todo[1])
  <2>1. tail \o more = tail
    BY <1>2, <1>5, ConcatEmptySeq
  <2>2. ASSUME NEW i \in 1..Len(tail), OfHost(tail[i]) PROVE FALSE
    <3>1. i + 1 \in 1..Len(todo) /\ OfHost(todo[i + 1])
      BY <1>2, <1>3, <2>2
    <3>2. Len(todo) = 1
      BY <1>3, <3>1 DEF Alone
    <3> QED
      BY <1>2, <3>2
  <2> QED
    BY <1>1, <1>2, <1>5, <2>1, <2>2
<1> QED
  BY <1>4, <1>5

LEMMA RestIsLess ==
    ASSUME NEW r \in Running, r.todo # <<>>, Alone(r.todo), NEW val,
           NEW new \in Running, new.todo # <<>>,
           new.todo = Tail(r.todo) \o Further(Head(r.todo), val, r.cfg.max_ips)
    PROVE  /\ Alone(new.todo)
           /\ LookUpsLeft(new) < LookUpsLeft(r)
<1> DEFINE todo == r.todo
           rest == new.todo
           limit == r.cfg.max_ips
           more == Further(Head(todo), val, limit)
<1>1. todo \in Seq(Keys) /\ todo # <<>> /\ limit \in Nat /\ rest \in Seq(Keys) /\ rest # <<>>
  BY LimitType DEF Running
<1>2. Head(todo) \in Keys /\ Head(todo) = todo[1] /\ Len(todo) \in Nat
  BY <1>1
<1>3. LookUpsLeft(r) = IF OfHost(todo[1]) THEN 1 + 2 * limit ELSE Len(todo)
  BY <1>1 DEF LookUpsLeft
<1>4. /\ more \in Seq(Keys) /\ Len(more) \in Nat /\ Len(more) <= 2 * limit
      /\ \A i \in DOMAIN more : ~OfHost(more[i])
      /\ ~OfHost(todo[1]) => more = <<>>
  BY <1>1, <1>2, FurtherIsLess
<1>5. rest = Tail(todo) \o more /\ Alone(todo)
  OBVIOUS
<1> HIDE DEF todo, rest, limit, more
<1>6. \A i \in 1..Len(more) : ~OfHost(more[i])
  BY <1>4
<1>7. /\ \A i \in 1..Len(rest) : ~OfHost(rest[i])
      /\ Len(rest) = IF OfHost(todo[1]) THEN Len(more) ELSE Len(todo) - 1
  BY <1>1, <1>4, <1>5, <1>6, TailAlone
<1>8. DOMAIN rest = 1..Len(rest) /\ 1 \in 1..Len(rest)
  BY <1>1, EmptySeq, LenProperties
<1>9. Alone(rest)
  BY <1>7, <1>8 DEF Alone
<1>10. LookUpsLeft(new) = Len(rest)
  BY <1>1, <1>7, <1>8 DEF LookUpsLeft, rest
<1>11. Len(rest) < LookUpsLeft(r)
  <2>1. CASE OfHost(todo[1])
    BY <1>1, <1>3, <1>4, <1>7, <2>1
  <2>2. CASE ~OfHost(todo[1])
    BY <1>2, <1>3, <1>7, <2>2
  <2> QED
    BY <2>1, <2>2
<1> QED
  BY <1>9, <1>10, <1>11 DEF rest

\* A look-up that has a value leads to fewer look-ups, to the push, or to a result.
LEMMA FoundFalls ==
    ASSUME LeftInv, NEW a \in Analyses, run[a].at = "cache", NEW val, Found(a, val)
    PROVE  /\ Falls(a)
           /\ run'[a].at \in {"turn", "list", "cache"}
           /\ run'[a].at = "cache" => Alone(run'[a].todo)
<1> DEFINE rest == Tail(run[a].todo) \o Further(Head(run[a].todo), val, run[a].cfg.max_ips)
<1>1. /\ run[a] \in Running /\ run[a].at \in InCall
      /\ run[a].todo # <<>> /\ Alone(run[a].todo) /\ LoopInv
  BY CallType DEF LeftInv, LoopInv, CallOK, InCall
<1>2. CASE run' = [run EXCEPT ![a] = Answered(a)]
  <2>1. run'[a].at = "turn"
    BY <1>1, <1>2 DEF LoopInv, AnalysisTypeOK, Answered, Running
  <2> QED
    BY <1>1, <1>2, <2>1, AnswerFalls
<1>3. CASE run' = [run EXCEPT ![a].at = "list", ![a].todo = <<>>]
  <2> DEFINE new == [run[a] EXCEPT !.at = "list", !.todo = <<>>]
  <2>1. <<>> \in Seq(Keys)
    OBVIOUS
  <2>2. /\ new \in Running /\ new.at = "list" /\ new.round = run[a].round
        /\ new.turn = run[a].turn /\ new.results = run[a].results
    BY <1>1, <2>1 DEF Running, Places
  <2>3. run'[a] = new
    BY <1>1, <1>3 DEF LoopInv, AnalysisTypeOK
  <2> HIDE DEF new
  <2> QED
    BY <1>1, <2>2, <2>3, CallGoesOn DEF Falls
<1>4. CASE rest # <<>> /\ run' = [run EXCEPT ![a] = [@ EXCEPT !.at = "cache", !.todo = rest]]
  <2> DEFINE new == [run[a] EXCEPT !.at = "cache", !.todo = rest]
  <2>1. rest \in Seq(Keys)
    <3>1. run[a].todo \in Seq(Keys) /\ run[a].cfg.max_ips \in Nat
      BY <1>1, LimitType DEF Running
    <3>2. Head(run[a].todo) \in Keys /\ Tail(run[a].todo) \in Seq(Keys)
      BY <1>1, <3>1
    <3>3. Further(Head(run[a].todo), val, run[a].cfg.max_ips) \in Seq(Keys)
      BY <3>1, <3>2, FurtherType
    <3> QED
      BY <3>2, <3>3
  <2> HIDE DEF rest
  <2>2. /\ new \in Running /\ new.at = "cache" /\ new.round = run[a].round
        /\ new.turn = run[a].turn /\ new.results = run[a].results /\ new.todo = rest
    BY <1>1, <2>1 DEF Running, Places
  <2>3. run'[a] = new
    BY <1>1, <1>4 DEF LoopInv, AnalysisTypeOK
  <2> HIDE DEF new
  <2>4. Alone(new.todo) /\ LookUpsLeft(new) < LookUpsLeft(run[a])
    BY <1>1, <1>4, <2>2, RestIsLess DEF rest
  <2> QED
    BY <1>1, <2>2, <2>3, <2>4, CallGoesOn DEF Falls
<1> QED
  BY <1>2, <1>3, <1>4 DEF Found, Guarded

LEMMA ExecuteFalls ==
    ASSUME LoopInv, NEW a \in Analyses, Execute(a)
    PROVE  /\ Falls(a)
           /\ run'[a].at \in {"turn", "cache"}
           /\ run'[a].at = "cache" => Alone(run'[a].todo)
<1> DEFINE i == First(Unanswered(a))
           call == run[a].turn[i]
           refused == call.tool = "unifi_block" /\ Refuses(a, call)
           awaits == call.tool \in run[a].cfg.enabled /\ ~refused /\ LookUps(call) # <<>>
           new == run'[a]
<1>1. run[a] \in Running /\ run[a].at = "turn" /\ Unanswered(a) # {}
  BY RunningRecord DEF LoopInv, Execute, Places
<1>2. i \in CallsLeft(run[a]) /\ call \in Calls
  <2>1. run[a].turn \in Seq(Calls)
    BY <1>1, TurnType DEF Running
  <2>2. Unanswered(a) \subseteq Nat /\ Unanswered(a) = CallsLeft(run[a])
        /\ Unanswered(a) \subseteq DOMAIN run[a].turn
    BY <2>1, Positions DEF Unanswered, CallsLeft
  <2> HIDE DEF i
  <2>3. i \in Unanswered(a)
    BY <1>1, <2>2, FirstIsLeast DEF i
  <2> QED
    BY <2>1, <2>2, <2>3, Positions
<1>3. /\ awaits =>
            new = [run[a] EXCEPT !.call = i, !.at = "cache", !.todo = LookUps(call)]
      /\ ~awaits => new = [run[a] EXCEPT !.results = Append(run[a].results, i)]
  BY <1>1 DEF Execute, LoopInv, AnalysisTypeOK, Running
<1>4. new \in Running
  <2>1. new \in Running \union {Idle} \union {Ended(o) : o \in {"verdict", "failed"}}
    BY ExecuteStep DEF LoopInv, AnalysisTypeOK
  <2>2. new.at \in Places
    BY <1>1, <1>3 DEF Running, Places
  <2> QED
    BY <2>1, <2>2 DEF Idle, Ended, Places
<1>5. CASE awaits
  <2>1. call.tool = "unifi_block" => call.target \in Ips
    BY <1>2, <1>5, AnalysisAssumption DEF Refuses, Calls
  <2>2. Alone(LookUps(call))
    BY <1>2, <2>1, LookUpsAlone
  <2> HIDE DEF i, call, awaits, new
  <2>3. /\ new.at = "cache" /\ new.todo = LookUps(call) /\ new.round = run[a].round
        /\ new.turn = run[a].turn /\ new.results = run[a].results
    BY <1>1, <1>3, <1>5 DEF Running
  <2>4. Lower(Rank(new), Rank(run[a]))
    BY <1>1, <1>4, <2>3, CallGoesOn
  <2> QED
    BY <2>2, <2>3, <2>4 DEF Falls, new
<1>6. CASE ~awaits
  <2> HIDE DEF i, awaits, new
  <2>1. /\ new.at = "turn" /\ new.round = run[a].round /\ new.turn = run[a].turn
        /\ new.results = Append(run[a].results, i)
    BY <1>1, <1>3, <1>6 DEF Running
  <2>2. Cardinality(CallsLeft(new)) < Cardinality(CallsLeft(run[a]))
    BY <1>1, <1>2, <1>4, <2>1, OneCallLess
  <2>3. Lower(Rank(new), Rank(run[a]))
    BY <1>1, <1>4, <2>1, <2>2, RankParts, LowerAt
  <2> QED
    BY <2>1, <2>3 DEF Falls, new
<1> QED
  BY <1>5, <1>6

LEMMA RespondFalls ==
    ASSUME LoopInv, NEW a \in Analyses, Respond(a)
    PROVE  Falls(a) /\ run'[a].at \in {"turn", "done"}
<1> DEFINE new == run'[a]
<1>1. run[a] \in Running /\ run[a].at = "request"
  BY RunningRecord DEF LoopInv, Respond, Places
<1>2. \/ new.at = "done"
      \/ new.at = "turn" /\ new.round = run[a].round + 1
  BY <1>1 DEF Respond, LoopInv, AnalysisTypeOK, Running, Ended, NextRound
<1>3. CASE new.at = "turn" /\ new.round = run[a].round + 1
  <2>1. new \in Running
    <3>1. new \in Running \union {Idle} \union {Ended(o) : o \in {"verdict", "failed"}}
      BY RespondStep DEF LoopInv, AnalysisTypeOK
    <3> QED
      BY <1>3, <3>1 DEF Idle, Ended
  <2>2. Rank(new)[1] = MaxRounds - new.round /\ Rank(run[a])[1] = MaxRounds - run[a].round
    BY <1>1, <2>1, RankParts
  <2>3. run[a].round \in Int /\ MaxRounds \in Int
    BY <1>1, AnalysisAssumption DEF Running
  <2> HIDE DEF new
  <2>4. Rank(new)[1] < Rank(run[a])[1]
    BY <1>3, <2>2, <2>3
  <2>5. Lower(Rank(new), Rank(run[a]))
    BY <1>1, <2>1, <2>4, RankParts, LowerAt
  <2> QED
    BY <1>3, <2>5 DEF Falls, new
<1> QED
  BY <1>2, <1>3 DEF Falls

LEMMA EndTurnFalls ==
    ASSUME LoopInv, NEW a \in Analyses, EndTurn(a)
    PROVE  Falls(a) /\ run'[a].at \in {"request", "done"}
<1> DEFINE new == run'[a]
<1>1. run[a] \in Running /\ run[a].at = "turn"
  BY RunningRecord DEF LoopInv, EndTurn, Places
<1>2. \/ new.at = "done"
      \/ new.at = "request" /\ new.round = run[a].round
  BY <1>1 DEF EndTurn, LoopInv, AnalysisTypeOK, Running, Ended
<1>3. CASE new.at = "request" /\ new.round = run[a].round
  <2>1. new \in Running
    <3>1. new \in Running \union {Idle} \union {Ended(o) : o \in {"verdict", "failed"}}
      BY EndTurnStep DEF LoopInv, AnalysisTypeOK
    <3> QED
      BY <1>3, <3>1 DEF Idle, Ended
  <2> HIDE DEF new
  <2>2. Rank(new)[1] = Rank(run[a])[1] /\ Rank(new)[2] < Rank(run[a])[2]
    BY <1>1, <1>3, <2>1, RankParts
  <2>3. Lower(Rank(new), Rank(run[a]))
    BY <1>1, <2>1, <2>2, RankParts, LowerAt
  <2> QED
    BY <1>3, <2>3 DEF Falls, new
<1> QED
  BY <1>2, <1>3 DEF Falls

LEMMA ListFalls ==
    ASSUME LoopInv, NEW a \in Analyses, List(a)
    PROVE  Falls(a) /\ run'[a].at = "write"
<1> DEFINE new == [run[a] EXCEPT !.at = "write"]
<1>1. run[a] \in Running /\ run[a].at = "list"
  BY RunningRecord DEF LoopInv, List, Places
<1>2. /\ new \in Running /\ new.at = "write" /\ new.round = run[a].round
      /\ new.turn = run[a].turn /\ new.results = run[a].results
  BY <1>1 DEF Running, Places
<1>3. run'[a] = new
  BY DEF List, LoopInv, AnalysisTypeOK
<1> HIDE DEF new
<1> QED
  BY <1>1, <1>2, <1>3, CallGoesOn DEF Falls

\* Every step of an analysis brings it closer to its end.
LEMMA StepFalls ==
    ASSUME LeftInv, NEW a \in Analyses, Step(a)
    PROVE  /\ Falls(a)
           /\ run'[a].at = "cache" => Alone(run'[a].todo)
<1>1. LoopInv
  BY DEF LeftInv
<1>2. CASE Respond(a)
  BY <1>1, <1>2, RespondFalls
<1>3. CASE RequestFails(a)
  BY <1>1, <1>3 DEF RequestFails, LoopInv, AnalysisTypeOK, Falls, Ended
<1>4. CASE EndTurn(a)
  BY <1>1, <1>4, EndTurnFalls
<1>5. CASE Execute(a)
  BY <1>1, <1>5, ExecuteFalls
<1>6. CASE Hit(a)
  BY <1>6, FoundFalls DEF Hit
<1>7. CASE Look(a)
  BY <1>7, FoundFalls DEF Look
<1>8. CASE List(a)
  BY <1>1, <1>8, ListFalls
<1>9. CASE Confirm(a) \/ PushFails(a)
  <2>1. run[a].at \in InCall /\ run' = [run EXCEPT ![a] = Answered(a)]
    BY <1>9 DEF Confirm, PushFails, InCall
  <2>2. run'[a] = Answered(a) /\ run[a] \in Running
    BY <1>1, <2>1, CallType DEF LoopInv, AnalysisTypeOK
  <2>3. run'[a].at = "turn"
    BY <2>2 DEF Answered, Running
  <2> QED
    BY <1>1, <2>1, <2>3, AnswerFalls
<1> QED
  BY <1>2, <1>3, <1>4, <1>5, <1>6, <1>7, <1>8, <1>9 DEF Step

\* What an analysis does is a step of its own alone, and none after its end.
LEMMA StepIsOwn ==
    ASSUME LoopInv, NEW a \in Analyses, Step(a)
    PROVE  /\ run[a].at # "done"
           /\ \A b \in Analyses \ {a} : run'[b] = run[b]
<1>1. run[a].at # "done"
  BY DEF Step, Respond, RequestFails, EndTurn, Execute, Hit, Look, List, Confirm, PushFails
<1>2. CASE Hit(a) \/ Look(a)
  <2>1. PICK val : Found(a, val)
    BY <1>2 DEF Hit, Look
  <2> QED
    BY <1>1, <2>1 DEF Found, Guarded, LoopInv, AnalysisTypeOK
<1>3. CASE Respond(a) \/ EndTurn(a) \/ Execute(a)
  BY <1>1, <1>3 DEF Respond, EndTurn, Execute, LoopInv, AnalysisTypeOK
<1>4. CASE RequestFails(a) \/ List(a) \/ Confirm(a) \/ PushFails(a)
  BY <1>1, <1>4 DEF RequestFails, List, Confirm, PushFails, LoopInv, AnalysisTypeOK
<1> QED
  BY <1>2, <1>3, <1>4 DEF Step

\* What the others do, and UniFi.
LEMMA OthersLeave ==
    ASSUME LoopInv, [AnalysisNext]_analysisVars, NEW a \in Analyses, ~Step(a), ~Begin(a), ~Stop(a)
    PROVE  run'[a] = run[a] \/ (run[a] \in Running /\ run'[a] = [run[a] EXCEPT !.ok = TRUE])
<1>1. ASSUME NEW b \in Analyses, Begin(b) \/ Step(b) \/ Stop(b) PROVE run'[a] = run[a]
  <2>1. a # b
    BY <1>1
  <2>2. CASE Step(b)
    BY <2>1, <2>2, StepIsOwn
  <2>3. CASE Begin(b) \/ Stop(b)
    BY <2>1, <2>3 DEF Begin, Stop, LoopInv, AnalysisTypeOK
  <2> QED
    BY <1>1, <2>2, <2>3
<1>2. ASSUME NEW k \in Keys, Forget(k) PROVE run'[a] = run[a]
  BY <1>2 DEF Forget
<1>3. ASSUME NEW w \in flight, Land(w)
      PROVE  run'[a] = run[a] \/ (run[a] \in Running /\ run'[a] = [run[a] EXCEPT !.ok = TRUE])
  <2>1. CASE run' = run
    BY <2>1
  <2>2. CASE run[w.by].at = "write" /\ run' = [run EXCEPT ![w.by].ok = TRUE]
    <3>1. CASE a = w.by
      <4>1. run[a] \in Running
        BY <2>2, <3>1, RunningRecord DEF LoopInv, Places
      <4> QED
        BY <2>2, <3>1, <4>1 DEF LoopInv, AnalysisTypeOK
    <3>2. CASE a # w.by
      BY <2>2, <3>2 DEF LoopInv, AnalysisTypeOK
    <3> QED
      BY <3>1, <3>2
  <2> QED
    BY <1>3, <2>1, <2>2 DEF Land
<1>4. ASSUME NEW w \in flight, Vanish(w) PROVE run'[a] = run[a]
  BY <1>4 DEF Vanish
<1>5. CASE UNCHANGED analysisVars
  BY <1>5 DEF analysisVars
<1> QED
  BY <1>1, <1>2, <1>3, <1>4, <1>5 DEF AnalysisNext

LEMMA LeftInit == AnalysisInit => LeftInv
<1>1. AnalysisInit => \A a \in Analyses : run[a].at = "new"
  BY DEF AnalysisInit, Idle
<1> QED
  BY <1>1, LoopInit DEF LeftInv

LEMMA LeftStep ==
    ASSUME LeftInv, [AnalysisNext]_analysisVars
    PROVE  LeftInv' /\ MovesOn
<1>1. LoopInv /\ LoopInv'
  BY LoopStep DEF LeftInv
<1>2. ASSUME NEW a \in Analyses
      PROVE  /\ run'[a].at = "cache" => Alone(run'[a].todo)
             /\ Step(a) => Falls(a)
             /\ run[a].at \in Places =>
                   /\ Rank(run[a]) \in Ranks
                   /\ Falls(a) \/ (run'[a].at \in Places /\ Rank(run'[a]) = Rank(run[a]))
             /\ run[a].at = "done" => run'[a] = run[a]
  <2>1. run[a].at \in Places => Rank(run[a]) \in Ranks
    BY <1>1, RunningRecord, RankParts DEF LoopInv
  <2>2. CASE Step(a)
    BY <1>1, <2>1, <2>2, StepFalls, StepIsOwn
  <2>3. CASE ~Step(a) /\ Begin(a)
    BY <1>1, <2>3 DEF Begin, Idle, Ended, LoopInv, AnalysisTypeOK, Places
  <2>4. CASE ~Step(a) /\ Stop(a)
    BY <1>1, <2>1, <2>4 DEF Stop, Ended, LoopInv, AnalysisTypeOK, Places, Falls
  <2>5. CASE ~Step(a) /\ ~Begin(a) /\ ~Stop(a)
    <3>1. CASE run'[a] = run[a]
      BY <2>1, <2>5, <3>1 DEF LeftInv
    <3>2. CASE run[a] \in Running /\ run'[a] = [run[a] EXCEPT !.ok = TRUE]
      <4>1. /\ run'[a].at = run[a].at /\ run'[a].round = run[a].round
            /\ run'[a].turn = run[a].turn /\ run'[a].results = run[a].results
            /\ run'[a].todo = run[a].todo /\ run'[a].cfg = run[a].cfg
            /\ run[a].at # "done"
        BY <3>2 DEF Running, Places
      <4>2. Rank(run'[a]) = Rank(run[a])
        BY <4>1 DEF Rank, CallsLeft, LookUpsLeft
      <4> QED
        BY <2>1, <2>5, <4>1, <4>2 DEF LeftInv
    <3> QED
      BY <1>1, <2>5, <3>1, <3>2, OthersLeave
  <2> QED
    BY <2>2, <2>3, <2>4, <2>5
<1>3. \A a \in Analyses : run'[a].at = "cache" => Alone(run'[a].todo)
  BY <1>2
<1> QED
  BY <1>1, <1>2, <1>3 DEF LeftInv, MovesOn, Alone, OfHost

\* Whatever the model calls and whatever its look-ups and UniFi answer, each step
\* of an analysis lowers its rank, no step of anyone raises it, and once it has
\* ended it stays so (base.py's run, cached, push_block); a rank is four numbers,
\* so that an analysis takes finitely many steps (LowestRank).
THEOREM AnalysesMoveOn == AnalysisSpec => [][MovesOn]_analysisVars
<1>1. AnalysisSpec => []LeftInv
  BY LeftInit, LeftStep, PTL DEF AnalysisSpec
<1>2. LeftInv /\ [AnalysisNext]_analysisVars => [MovesOn]_analysisVars
  BY LeftStep
<1> QED
  BY <1>1, <1>2, PTL DEF AnalysisSpec
=============================================================================
