----------------------------- MODULE MCAnalysis -----------------------------
(***************************************************************************)
(* An instance of Analysis for TLC: one message from a shared provider's   *)
(* address, and one from a neighbour of it.                                *)
(***************************************************************************)
EXTENDS Analysis, TLC

CONSTANTS a1, a2, i1, i2, host

MCClient == (a1 :> i1) @@ (a2 :> i2)
MCResolves == host :> <<i1, i2>>
MCNetwork == [ip \in Ips |-> (24 :> Ips) @@ (32 :> {ip})]

Auto == [policy |-> "auto", limit |-> 24, max_ips |-> 1,
         enabled |-> {"unifi_block", "ip_ownership"}]
Suggest == [Auto EXCEPT !.policy = "suggest", !.limit = 32]
MCConfigs == (a1 :> {Auto, Suggest}) @@ (a2 :> {Auto})

Call(tool, target) == [tool |-> tool, target |-> target, prefix |-> 32]
SubmitVerdict == Call(Verdict, NoIp)
Block(ip, p) == [Call("unifi_block", ip) EXCEPT !.prefix = p]

Bundled == <<SubmitVerdict, Call("ip_ownership", host), SubmitVerdict>>
Odd == <<Call("domain_age", host), Block(NoIp, 32), Block(i2, 32)>>

\* The first message's model looks for owners or asks what it may not, then
\* blocks; the second's blocks at once.
MCAnswers ==
    (a1 :> (0 :> {Bundled, Odd} @@ 1 :> {<<>>, <<Block(i1, 32)>>})) @@
    (a2 :> (0 :> {<<Block(i2, 24)>>} @@ 1 :> {<<SubmitVerdict, SubmitVerdict>>}))
=============================================================================
