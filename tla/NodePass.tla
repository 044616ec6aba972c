------------------------------- MODULE NodePass -------------------------------
(***************************************************************************)
(* What the agent's graph relies on in one pass through analyze_site,      *)
(* generate_code and run_tests: each of them returns or raises, and only   *)
(* code can pass the test.  These are the nodes as AgentGraph has them.    *)
(***************************************************************************)
VARIABLES
  node,       \* where the pass is
  analysis,   \* there is an analysis
  code,       \* there is code
  test        \* the outcome of the test

vars == <<node, analysis, code, test>>

\* The cached path starts at run_tests.
Init ==
  /\ node \in {"analyze_site", "run_tests"}
  /\ analysis \in BOOLEAN
  /\ code = (node = "run_tests")
  /\ test = "none"

AnalyzeSite ==
  /\ node = "analyze_site"
  /\ node' = "generate_code"
  /\ analysis' = TRUE
  /\ UNCHANGED <<code, test>>

GenerateCode ==
  /\ node = "generate_code"
  /\ node' = "run_tests"
  /\ code' \in BOOLEAN
  /\ UNCHANGED <<analysis, test>>

TestPasses ==
  /\ node = "run_tests" /\ code
  /\ node' = "decide_next"
  /\ test' = "pass"
  /\ UNCHANGED <<analysis, code>>

TestFails ==
  /\ node = "run_tests"
  /\ node' = "decide_next"
  /\ test' = "fail"
  /\ UNCHANGED <<analysis, code>>

NodeRaises ==
  /\ node = "analyze_site" \/ (node = "run_tests" /\ code)
  /\ node' = "failing"
  /\ UNCHANGED <<analysis, code, test>>

Crash ==
  /\ node \in {"analyze_site", "generate_code", "run_tests"}
  /\ node' = "lost"
  /\ UNCHANGED <<analysis, code, test>>

Next == AnalyzeSite \/ GenerateCode \/ TestPasses \/ TestFails \/ NodeRaises \/ Crash

Spec == Init /\ [][Next]_vars

FairSpec == Spec /\ WF_vars(Next)
===============================================================================
