----------------------------- MODULE MCAgentGraph -----------------------------
(***************************************************************************)
(* Instances of AgentGraph for TLC: two runs on one domain, which are two  *)
(* attempts of one request, or two requests for different data types.      *)
(***************************************************************************)
EXTENDS AgentGraph, TLC

CONSTANTS a1, a2, t1, t2, articles, products

TwoRuns == {a1, a2}
TwoThreads == {t1, t2}
TwoTypes == {articles, products}

Asks(t, d, n) == [thread |-> t, type |-> d, retries |-> n]

\* The gateway delivers one request twice.
Repeated == a1 :> Asks(t1, articles, 2) @@ a2 :> Asks(t1, articles, 2)

\* Two requests, with one attempt each: a cached crawler that fails goes
\* straight to alert_human.
Separate == a1 :> Asks(t1, articles, 1) @@ a2 :> Asks(t2, products, 1)

RepeatedOrSeparate == {Repeated, Separate}

SeparateOnly == {Separate}

Nobody == {}
===============================================================================
