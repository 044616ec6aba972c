---------------------------- MODULE MCAgentMemory -----------------------------
(* Instances of AgentMemory for TLC: two runs, of one or two threads and of  *)
(* one or two sessions.                                                      *)
EXTENDS AgentMemory, TLC

CONSTANTS r1, r2, t1, t2, s1, s2

TwoRuns == {r1, r2}
TwoThreads == {t1, t2}
TwoSessions == {s1, s2}

With(t, s) == [thread |-> t, session |-> s]

\* Other requests, a repeated one, and a request id used for another site.
AllRequests ==
  {r1 :> With(t1, s1) @@ r2 :> With(t, s) : t \in TwoThreads, s \in TwoSessions}

BothEnvironments == {"production", "development"}

TwoEach == [r \in TwoRuns |-> 2]
SecondRun == {r2}
===============================================================================
