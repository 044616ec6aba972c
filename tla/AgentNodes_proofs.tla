--------------------------- MODULE AgentNodes_proofs ---------------------------
(***************************************************************************)
(* Theorems of AgentNodes, for any requests, setups, programs and outputs. *)
(***************************************************************************)
EXTENDS AgentNodes, FiniteSetTheorems, WellFoundedInduction, Integers, TLAPS

\* There is no process before it is launched, and after the policy the code is
\* the one the policy has accepted.
Watched ==
  /\ at \in Analyzing \cup Generating \cup {"policy", "launch"} => process = "none"
  /\ at \in Testing \ {"policy"} => Violations(code) = {}
  /\ OnlyWatchedCodeRuns

\* Records are kept for the output of a process that no longer runs.
Settled == records # <<>> => process # "running" /\ at \in {"promote", "decide_next", "lost"}

NodesInv == TypeOK /\ Settled /\ Watched

\* The three nodes a run can be in.
LEMMA NodeCases ==
  /\ at \in Analyzing => Node = "analyze_site"
  /\ at = "write" => Node = "generate_code"
  /\ at \in Testing => Node = "run_tests"
  /\ at \in Gone => Node = at
  BY DEF Node, Analyzing, Generating, Testing, Gone

\* What the policy accepts is a program.
LEMMA AcceptedIsProgram == Violations(code) = {} => code # NoProgram
  <1> SUFFICES ASSUME code = NoProgram PROVE Violations(code) # {}
    OBVIOUS
  <1>1. code.blank
    BY DEF NoProgram
  <1>2. Violations(code) = {"empty"}
    BY <1>1 DEF Violations
  <1> QED
    BY <1>2

-------------------------------------------------------------------------------
(* The invariant                                                           *)

LEMMA NodesInit == Init => NodesInv /\ ProvidersExhausted
  <1> SUFFICES ASSUME Init PROVE NodesInv /\ ProvidersExhausted
    OBVIOUS
  <1> USE DEF Init
  <1>1. TypeOK
    BY DEF TypeOK, NoFailures, Attempts, Awaiting, Analyzing, Testing
  <1>2. Settled /\ Watched
    BY DEF Settled, Watched, OnlyWatchedCodeRuns, Testing
  <1>3. ProvidersExhausted
    BY DEF ProvidersExhausted
  <1> QED
    BY <1>1, <1>2, <1>3 DEF NodesInv

LEMMA AnalyzeNext ==
  ASSUME NodesInv, Validate \/ CheckRobots \/ RenderPage \/ FetchPage \/ AskLlm
  PROVE  NodesInv'
  <1>1. /\ at \in Analyzing /\ at' \in Analyzing \cup {"write", "failing"}
        /\ analysis' \in BOOLEAN
        /\ failures' \in [{"primary", "secondary"} -> 0..Attempts]
        /\ answer' \in {"none", "error", "primary", "secondary"}
        /\ UNCHANGED <<request, setup, code, process, output, test, records>>
    <2>1. NoFailures \in [{"primary", "secondary"} -> 0..Attempts]
      BY DEF NoFailures, Attempts
    <2> USE DEF NodesInv, TypeOK, Analyzing
    <2>2. CASE Validate
      BY <2>2 DEF Validate
    <2>3. CASE CheckRobots
      BY <2>1, <2>3 DEF CheckRobots, Analyzed
    <2>4. CASE RenderPage
      BY <2>1, <2>4 DEF RenderPage, Analyzed
    <2>5. CASE FetchPage
      BY <2>5 DEF FetchPage
    <2>6. CASE AskLlm
      BY <2>1, <2>6 DEF AskLlm, Analyzed
    <2> QED
      BY <2>2, <2>3, <2>4, <2>5, <2>6
  <1>2. TypeOK'
    BY <1>1 DEF NodesInv, TypeOK, Awaiting, Generating, Gone
  <1>3. Settled' /\ Watched'
    BY <1>1 DEF NodesInv, Settled, Watched, OnlyWatchedCodeRuns, Violations,
                Analyzing, Generating, Testing
  <1> QED
    BY <1>2, <1>3 DEF NodesInv

LEMMA LlmNext ==
  ASSUME NodesInv, (\E p \in Providers : LlmFails(p) \/ LlmAnswers(p)) \/ LlmRaises
  PROVE  NodesInv'
  <1>1. ASSUME NEW p \in Providers, Turn(p)
        PROVE  p \in {"primary", "secondary"} /\ failures[p] < Attempts
    BY <1>1 DEF Turn, GivenUp, Providers, NodesInv, TypeOK, Attempts
  <1>2. /\ failures' \in [{"primary", "secondary"} -> 0..Attempts]
        /\ answer' \in {"none", "error", "primary", "secondary"}
        /\ UNCHANGED <<request, setup, at, analysis, code, process, output, test, records>>
    BY <1>1 DEF NodesInv, TypeOK, LlmFails, LlmAnswers, LlmRaises, Attempts
  <1>3. TypeOK'
    BY <1>2 DEF NodesInv, TypeOK
  <1>4. Settled' /\ Watched'
    BY <1>2 DEF NodesInv, Settled, Watched, OnlyWatchedCodeRuns, Violations
  <1> QED
    BY <1>3, <1>4 DEF NodesInv

LEMMA WriteNext == ASSUME NodesInv, WriteCode PROVE NodesInv'
  <1>1. /\ at = "write" /\ at' = "policy" /\ code' \in Programs \cup {NoProgram}
        /\ UNCHANGED <<request, setup, analysis, failures, answer, process, output, test, records>>
    BY DEF WriteCode, Written
  <1>2. TypeOK'
    BY <1>1 DEF NodesInv, TypeOK, Awaiting, Testing
  <1>3. process = "none" /\ records = <<>>
    BY <1>1 DEF NodesInv, Watched, Settled, Generating
  <1> QED
    BY <1>1, <1>2, <1>3 DEF NodesInv, Settled, Watched, OnlyWatchedCodeRuns, Testing

\* The steps of run_tests, in which the code stays what it is.
LEMMA TestNext ==
  ASSUME NodesInv,
         \/ CheckPolicy \/ Launch \/ ReadOutput \/ TimesOut \/ Collect \/ CheckRecords \/ Promote
  PROVE  NodesInv'
  <1> USE DEF TestFails, Testing, Analyzing, Generating
  <1>1. /\ at \in Testing
        /\ at' \in Testing \cup {"decide_next", "failing"}
        /\ process' \in {"none", "running", "exited", "reaped"}
        /\ test' \in {"none", "error", "timeout", "success"}
        /\ records' \in {<<>>, records, Normalized(output.records, request.max)}
        /\ UNCHANGED <<request, setup, analysis, failures, answer, code, output>>
    BY DEF NodesInv, TypeOK, CheckPolicy, Launch, ReadOutput, TimesOut, Collect, CheckRecords, Promote
  <1>2. TypeOK'
    BY <1>1 DEF NodesInv, TypeOK, Awaiting, Gone
  <1>3. Violations(code)' = Violations(code)
    BY <1>1 DEF Violations
  <1> USE <1>1, <1>3 DEF NodesInv, Watched, OnlyWatchedCodeRuns, Settled
  <1>4. CASE CheckPolicy
    BY <1>2, <1>4 DEF CheckPolicy
  <1>5. CASE Launch
    BY <1>2, <1>5 DEF Launch
  <1>6. CASE ReadOutput
    BY <1>2, <1>6 DEF ReadOutput
  <1>7. CASE TimesOut
    BY <1>2, <1>7 DEF TimesOut
  <1>8. CASE Collect
    BY <1>2, <1>8 DEF Collect
  <1>9. CASE CheckRecords
    BY <1>2, <1>9 DEF CheckRecords
  <1>10. CASE Promote
    BY <1>2, <1>10 DEF Promote
  <1> QED
    BY <1>4, <1>5, <1>6, <1>7, <1>8, <1>9, <1>10

LEMMA ProcessNext == ASSUME NodesInv, ProcessExits \/ Reap \/ Crash PROVE NodesInv'
  <1> USE DEF NodesInv, Settled, Watched, OnlyWatchedCodeRuns
  <1>1. Violations(code)' = Violations(code)
    BY DEF ProcessExits, Reap, Crash, Violations
  <1>2. CASE ProcessExits
    BY <1>1, <1>2 DEF ProcessExits, TypeOK
  <1>3. CASE Reap
    BY <1>1, <1>3 DEF Reap, TypeOK
  <1>4. CASE Crash
    <2>1. /\ at' = "lost"
          /\ process' \in {"none", "running", "exited", "reaped"}
          /\ process' = "running" => process = "running" /\ setup.backend = "python"
          /\ process' # "none" => process # "none"
          /\ UNCHANGED <<request, setup, analysis, failures, answer, code, output, test, records>>
      BY <1>4 DEF Crash, TypeOK
    <2>2. TypeOK'
      BY <2>1 DEF TypeOK, Gone
    <2>3. Settled'
      BY <2>1
    <2>4. Watched'
      <3>1. at' \notin Analyzing \cup Generating \cup {"policy", "launch"} /\ at' \notin Testing
        BY <2>1 DEF Analyzing, Generating, Testing
      <3> QED
        BY <1>1, <2>1, <3>1
    <2> QED
      BY <2>2, <2>3, <2>4
  <1> QED
    BY <1>2, <1>3, <1>4

LEMMA NodesNext == NodesInv /\ [Next]_vars => NodesInv'
  <1> SUFFICES ASSUME NodesInv, [Next]_vars PROVE NodesInv'
    OBVIOUS
  <1>1. CASE UNCHANGED vars
    <2>1. TypeOK' /\ Settled'
      BY <1>1 DEF vars, NodesInv, TypeOK, Settled
    <2>2. Watched'
      BY <1>1 DEF vars, NodesInv, Watched, OnlyWatchedCodeRuns, Violations
    <2> QED
      BY <2>1, <2>2 DEF NodesInv
  <1> QED
    BY <1>1, AnalyzeNext, LlmNext, WriteNext, TestNext, ProcessNext DEF Next, PassStep

THEOREM NodesInvAlways == Spec => []NodesInv
  BY NodesInit, NodesNext, PTL DEF Spec

\* Every variable keeps to its values; among them, the records of the state are
\* what the gate makes of the output, or none.
THEOREM NodesTypeCorrect == Spec => []TypeOK
  <1>1. NodesInv => TypeOK
    BY DEF NodesInv
  <1> QED
    BY <1>1, NodesInvAlways, PTL

\* Whatever programs are written or cached, only one the policy accepts is
\* executed, and its process outlives the test only where nothing can end it.
THEOREM OnlyWatchedCodeRunsAlways == Spec => []OnlyWatchedCodeRuns
  <1>1. NodesInv => OnlyWatchedCodeRuns
    BY DEF NodesInv, Watched
  <1> QED
    BY <1>1, NodesInvAlways, PTL

-------------------------------------------------------------------------------
(* The providers                                                           *)

LEMMA ExhaustedNext ==
  ASSUME NodesInv, ProvidersExhausted, [Next]_vars PROVE ProvidersExhausted'
  <1> USE DEF ProvidersExhausted
  <1>1. ASSUME UNCHANGED <<setup, failures, answer>> PROVE ProvidersExhausted'
    BY <1>1
  <1>2. ASSUME answer' = "none" PROVE ProvidersExhausted'
    BY <1>2
  <1>3. CASE UNCHANGED vars \/ ProcessExits \/ Reap \/ Crash
    BY <1>1, <1>3 DEF vars, ProcessExits, Reap, Crash
  <1>4. CASE Validate \/ CheckRobots \/ RenderPage \/ FetchPage \/ AskLlm
    BY <1>1, <1>2, <1>4 DEF Validate, CheckRobots, RenderPage, FetchPage, AskLlm, Analyzed
  <1>5. CASE \E p \in Providers : LlmFails(p)
    BY <1>2, <1>5 DEF LlmFails, Turn
  <1>6. ASSUME NEW p \in Providers, LlmAnswers(p) PROVE ProvidersExhausted'
    BY <1>6 DEF LlmAnswers, Turn, GivenUp, Providers
  <1>7. CASE LlmRaises
    <2>1. \A p \in setup.keys : p \in Providers
      BY NodesAssumption DEF NodesInv, TypeOK, Providers
    <2> QED
      BY <1>7, <2>1 DEF LlmRaises, GivenUp
  <1>8. CASE WriteCode
    BY <1>1, <1>8 DEF WriteCode
  <1>9. CASE \/ CheckPolicy \/ Launch \/ ReadOutput \/ TimesOut \/ Collect
            \/ CheckRecords \/ Promote
    BY <1>1, <1>9 DEF CheckPolicy, Launch, ReadOutput, TimesOut, Collect, CheckRecords, Promote
  <1> QED
    BY <1>3, <1>4, <1>5, <1>6, <1>7, <1>8, <1>9 DEF Next, PassStep

\* ainvoke_llm raises only after every provider whose client can be made has
\* failed three times, and goes to the secondary one only after the primary one is given up.
THEOREM ProvidersExhaustedAlways == Spec => []ProvidersExhausted
  BY NodesInit, NodesInvAlways, NodesNext, ExhaustedNext, PTL DEF Spec

-------------------------------------------------------------------------------
(* The nodes as AgentGraph has them                                        *)

LEMMA PassInit == Init => Pass!Init
  <1> SUFFICES ASSUME Init PROVE Pass!Init
    OBVIOUS
  <1>1. /\ Node \in {"analyze_site", "run_tests"}
        /\ (code # NoProgram) = (Node = "run_tests")
    BY NodeCases DEF Init, Analyzing, Testing
  <1> QED
    BY <1>1 DEF Init, Pass!Init

LEMMA PassNext == ASSUME NodesInv, [Next]_vars PROVE [Pass!Next]_(Pass!vars)
  <1> USE DEF Pass!Next, Pass!vars
  <1>1. /\ at' \in Analyzing => Node' = "analyze_site"
        /\ at' = "write" => Node' = "generate_code"
        /\ at' \in Testing => Node' = "run_tests"
        /\ at' \in Gone => Node' = at'
    BY DEF Node, Analyzing, Generating, Testing, Gone
  <1> USE NodeCases, <1>1
  <1>2. ASSUME UNCHANGED <<Node, analysis, code, test>> PROVE UNCHANGED Pass!vars
    BY <1>2
  <1>3. ASSUME at \in Analyzing, at' \in Analyzing, UNCHANGED <<analysis, code, test>>
        PROVE  UNCHANGED Pass!vars
    BY <1>3
  <1>4. ASSUME at \in Analyzing, Analyzed, UNCHANGED <<code, test>> PROVE Pass!AnalyzeSite
    BY <1>4 DEF Analyzed, Pass!AnalyzeSite
  <1>5. ASSUME at \in Analyzing, at' = "failing", UNCHANGED <<analysis, code, test>>
        PROVE  Pass!NodeRaises
    BY <1>5 DEF Pass!NodeRaises, Gone
  <1>6. ASSUME at \in Testing, TestFails("error") \/ TestFails("timeout"), UNCHANGED <<analysis, code>>
        PROVE  Pass!TestFails
    BY <1>6 DEF TestFails, Pass!TestFails, Gone
  <1>7. ASSUME at \in Testing, at' \in Testing, UNCHANGED <<analysis, code, test>>
        PROVE  UNCHANGED Pass!vars
    BY <1>7
  <1>8. at \in Testing \ {"policy"} => code # NoProgram
    BY AcceptedIsProgram DEF NodesInv, Watched
  <1>9. CASE Validate
    BY <1>3, <1>5, <1>9 DEF Validate, Analyzing
  <1>10. CASE CheckRobots
    BY <1>3, <1>4, <1>5, <1>10 DEF CheckRobots, Analyzing
  <1>11. CASE RenderPage
    BY <1>3, <1>4, <1>5, <1>11 DEF RenderPage, Analyzing
  <1>12. CASE FetchPage
    BY <1>5, <1>12 DEF FetchPage, Analyzing
  <1>13. CASE AskLlm
    BY <1>4, <1>13 DEF AskLlm, Analyzing
  <1>14. CASE (\E p \in Providers : LlmFails(p) \/ LlmAnswers(p)) \/ LlmRaises
    BY <1>2, <1>14 DEF LlmFails, LlmAnswers, LlmRaises, Node
  <1>15. CASE WriteCode
    BY <1>15 DEF WriteCode, Written, Pass!GenerateCode, Testing
  <1>16. CASE CheckPolicy
    BY <1>6, <1>7, <1>16 DEF CheckPolicy, Testing
  <1>17. CASE Launch
    BY <1>6, <1>7, <1>8, <1>17 DEF Launch, Testing, Gone, Pass!NodeRaises
  <1>18. CASE ReadOutput
    BY <1>6, <1>7, <1>8, <1>18 DEF ReadOutput, Testing, Gone, Pass!NodeRaises
  <1>19. CASE TimesOut
    BY <1>6, <1>7, <1>19 DEF TimesOut, Testing
  <1>20. CASE Collect
    BY <1>6, <1>20 DEF Collect, Testing
  <1>21. CASE CheckRecords
    BY <1>6, <1>7, <1>21 DEF CheckRecords, Testing
  <1>22. CASE Promote
    BY <1>8, <1>22 DEF Promote, Testing, Gone, Pass!NodeRaises, Pass!TestPasses
  <1>23. CASE Crash
    BY <1>23 DEF Crash, Awaiting, Generating, Gone, Pass!Crash
  <1>24. CASE ProcessExits \/ Reap \/ UNCHANGED vars
    BY <1>2, <1>24 DEF ProcessExits, Reap, vars, Node
  <1> QED
    BY <1>9, <1>10, <1>11, <1>12, <1>13, <1>14, <1>15, <1>16, <1>17, <1>18, <1>19, <1>20,
       <1>21, <1>22, <1>23, <1>24 DEF Next, PassStep

\* Each await of the three nodes does to the analysis, the code and the outcome
\* of the test what AgentGraph lets the node do in one step, or nothing.
THEOREM NodesImplementPass == Spec => Pass!Spec
  BY PassInit, PassNext, NodesInvAlways, PTL DEF Spec, Pass!Spec

-------------------------------------------------------------------------------
(* Induction and recursion on 0..N, and the list that is picked from one.  *)

LEMMA NatSetInduction ==
  ASSUME NEW S, 0 \in S, \A n \in Nat : n \in S => n + 1 \in S
  PROVE  Nat \subseteq S
<1> DEFINE R == OpToRel(<, Nat)
           T == Nat \ S
<1> SUFFICES ASSUME T # {} PROVE FALSE
  OBVIOUS
<1>1. IsWellFoundedOn(R, Nat)
  BY NatLessThanWellFounded
<1>2. \A x, y \in Nat : y < x => <<y, x>> \in R
  BY DEF OpToRel
<1> HIDE DEF R
<1>3. PICK x \in T : \A y \in T : ~ (<<y, x>> \in R)
  BY <1>1, WFMin
<1>4. x \in Nat \ {0}
  BY <1>3
<1>5. x - 1 \in Nat /\ x - 1 < x /\ (x - 1) + 1 = x
  BY <1>4
<1>6. x - 1 \in T
  BY <1>3, <1>5
<1> QED
  BY <1>2, <1>3, <1>4, <1>5, <1>6

\* The same up to a bound.
LEMMA RangeInduction ==
  ASSUME NEW N \in Nat, NEW S, 0 \in S, \A n \in 1..N : n - 1 \in S => n \in S
  PROVE  0..N \subseteq S
<1> DEFINE T == {n \in Nat : n <= N => n \in S}
<1>1. 0 \in T
  OBVIOUS
<1>2. ASSUME NEW n \in Nat, n \in T PROVE n + 1 \in T
  BY <1>2
<1> HIDE DEF T
<1>3. Nat \subseteq T
  BY <1>1, <1>2, NatSetInduction
<1> QED
  BY <1>3 DEF T

\* A definition by recursion on 0..N, with the step G, has the solution f.
Recursion(f, N, V, base, G) ==
  f \in [0..N -> V] /\ f[0] = base /\ \A n \in 1..N : f[n] = G[n][f[n - 1]]

LEMMA PrefixRecursion ==
  ASSUME NEW N \in Nat, NEW V, NEW base \in V, NEW G \in [1..N -> [V -> V]]
  PROVE  \E f : Recursion(f, N, V, base, G)
<1> DEFINE Solves(f, m) == Recursion(f, m, V, base, G)
<1> DEFINE S == {m \in 0..N : \E f : Solves(f, m)}
<1> USE DEF Recursion
<1>1. 0 \in S
  <2> DEFINE g == [n \in 0..0 |-> base]
  <2>1. g \in [0..0 -> V] /\ g[0] = base /\ 1..0 = {}
    OBVIOUS
  <2> HIDE DEF g
  <2> QED
    BY <2>1
<1>2. ASSUME NEW m \in 1..N, m - 1 \in S PROVE m \in S
  <2>1. PICK f : Solves(f, m - 1)
    BY <1>2
  <2> DEFINE g == [n \in 0..m |-> IF n = m THEN G[m][f[m - 1]] ELSE f[n]]
  <2>2. f[m - 1] \in V
    BY <2>1
  <2>3. g \in [0..m -> V] /\ g[0] = base
    BY <2>1, <2>2
  <2>4. ASSUME NEW n \in 1..m PROVE g[n] = G[n][g[n - 1]]
    <3>1. n - 1 \in 0..m /\ n - 1 # m /\ g[n - 1] = f[n - 1]
      OBVIOUS
    <3>2. CASE n = m
      BY <3>1, <3>2
    <3>3. CASE n # m
      <4>1. n \in 1..(m - 1) /\ g[n] = f[n]
        BY <3>3
      <4> QED
        BY <2>1, <3>1, <4>1
    <3> QED
      BY <3>2, <3>3
  <2> HIDE DEF g
  <2>5. Solves(g, m)
    BY <2>3, <2>4
  <2> QED
    BY <2>5
<1> HIDE DEF S
<1>3. 0..N \subseteq S
  BY <1>1, <1>2, RangeInduction
<1>4. N \in S
  BY <1>3
<1> QED
  BY <1>4 DEF S

\* K is what Picked makes of the prefixes of s.
Collects(K, T, s, I) ==
  /\ K \in [0..Len(s) -> Seq(T)]
  /\ K[0] = <<>>
  /\ \A n \in 1..Len(s) : K[n] = IF n \in I THEN Append(K[n - 1], s[n]) ELSE K[n - 1]
  /\ Picked(s, I) = K[Len(s)]

LEMMA PickedPrefixes ==
  ASSUME NEW T, NEW s, Len(s) \in Nat, NEW I, \A n \in 1..Len(s) : n \in I => s[n] \in T
  PROVE  \E K : Collects(K, T, s, I)
<1> DEFINE N == Len(s)
           V == Seq(T)
           G == [n \in 1..N |-> [v \in V |-> IF n \in I THEN Append(v, s[n]) ELSE v]]
           Def(f) == f = [n \in 0..N |->
                            IF n = 0 THEN <<>>
                            ELSE IF n \in I THEN Append(f[n - 1], s[n]) ELSE f[n - 1]]
<1>1. N \in Nat /\ <<>> \in V /\ G \in [1..N -> [V -> V]]
  OBVIOUS
<1> HIDE DEF G, V, N
<1>2. PICK f : Recursion(f, N, V, <<>>, G)
  BY <1>1, PrefixRecursion
<1> USE DEF V, N
<1>3. ASSUME NEW n \in 1..N
      PROVE  f[n] = IF n \in I THEN Append(f[n - 1], s[n]) ELSE f[n - 1]
  <2>1. f[n - 1] \in V /\ f[n] = G[n][f[n - 1]]
    BY <1>2 DEF Recursion
  <2>2. G[n][f[n - 1]] = IF n \in I THEN Append(f[n - 1], s[n]) ELSE f[n - 1]
    BY <2>1 DEF G
  <2> QED
    BY <2>1, <2>2
<1>4. Def(f)
  <2>1. f = [n \in 0..N |-> f[n]] /\ f[0] = <<>>
    BY <1>2 DEF Recursion
  <2>2. \A n \in 0..N : f[n] = IF n = 0 THEN <<>>
                               ELSE IF n \in I THEN Append(f[n - 1], s[n]) ELSE f[n - 1]
    <3>1. \A n \in 0..N : n = 0 \/ n \in 1..N
      BY <1>1
    <3> QED
      BY <1>3, <2>1, <3>1, Zenon
  <2> QED
    BY <2>1, <2>2, Zenon
<1> DEFINE K == CHOOSE g : Def(g)
<1>5. Def(K)
  BY <1>4
<1>6. Picked(s, I) = K[N]
  BY DEF Picked
<1> HIDE DEF K
<1>7. /\ K[0] = <<>>
      /\ \A n \in 1..N : K[n] = IF n \in I THEN Append(K[n - 1], s[n]) ELSE K[n - 1]
  <2>1. \A n \in 0..N : K[n] = IF n = 0 THEN <<>>
                               ELSE IF n \in I THEN Append(K[n - 1], s[n]) ELSE K[n - 1]
    BY <1>5, Zenon
  <2>2. 0 \in 0..N /\ \A n \in 1..N : n \in 0..N /\ n # 0
    BY <1>1
  <2> QED
    BY <2>1, <2>2, Zenon
<1>8. K \in [0..N -> V]
  <2> DEFINE S == {n \in 0..N : K[n] \in V}
  <2>0. \A n \in 1..N, v \in V : n \in I => Append(v, s[n]) \in V
    OBVIOUS
  <2> HIDE DEF V, N
  <2>1. 0 \in S
    BY <1>1, <1>7
  <2>2. ASSUME NEW n \in 1..N, n - 1 \in S PROVE n \in S
    <3>1. K[n - 1] \in V /\ n \in 0..N
      BY <1>1, <2>2
    <3>2. K[n] \in V
      BY <1>7, <2>0, <3>1
    <3> QED
      BY <3>1, <3>2
  <2>3. 0..N \subseteq S
    <3> HIDE DEF S
    <3> QED
      BY <1>1, <2>1, <2>2, RangeInduction
  <2>4. \A n \in 0..N : K[n] \in V
    BY <2>3
  <2> QED
    BY <1>5, <2>4
<1> QED
  BY <1>6, <1>7, <1>8 DEF Collects

-------------------------------------------------------------------------------
(* The gate                                                                *)

\* What stays is different and among the first records of the list.
LEMMA NormalizedKeeps ==
  ASSUME NEW s \in Seq(Json), NEW max \in Nat
  PROVE  /\ Normalized(s, max) \in Seq(Json)
         /\ IsInjective(Normalized(s, max))
         /\ \A i \in DOMAIN Normalized(s, max) :
              \E j \in DOMAIN s : j <= max /\ s[j] = Normalized(s, max)[i]
<1> DEFINE N == Len(s)
           I == {i \in DOMAIN s : /\ i <= max /\ Dict(s[i])
                                  /\ \A j \in 1..(i - 1) : s[j] # s[i]}
<1>1. /\ N \in Nat /\ DOMAIN s = 1..N
      /\ \A n \in 1..N : s[n] \in Json
      /\ \A n \in 1..N : n \in I => s[n] \in Json
  OBVIOUS
<1>2. \A i \in I : /\ i \in 1..N /\ i <= max
                   /\ \A j \in 1..(i - 1) : s[j] # s[i]
  BY <1>1
<1>3. Normalized(s, max) = Picked(s, I)
  BY DEF Normalized
<1> HIDE DEF I
<1>4. PICK K : Collects(K, Json, s, I)
  BY <1>1, PickedPrefixes
<1>5. /\ \A n \in 0..N : K[n] \in Seq(Json)
      /\ K[0] = <<>>
      /\ \A n \in 1..N : K[n] = IF n \in I THEN Append(K[n - 1], s[n]) ELSE K[n - 1]
      /\ Normalized(s, max) = K[N]
  BY <1>3, <1>4 DEF Collects
<1> HIDE DEF N
<1> DEFINE From(n) == \A m \in 1..Len(K[n]) : \E j \in I : j <= n /\ s[j] = K[n][m]
           Different(n) == \A m, k \in 1..Len(K[n]) : K[n][m] = K[n][k] => m = k
           S == {n \in 0..N : From(n) /\ Different(n)}
<1>6. 0 \in S
  BY <1>1, <1>5
<1>7. ASSUME NEW n \in 1..N, n - 1 \in S PROVE n \in S
  <2>1. n \in 0..N /\ n - 1 \in 0..N /\ From(n - 1) /\ Different(n - 1)
    BY <1>1, <1>7
  <2> DEFINE v == K[n - 1]
             w == K[n]
  <2>2. v \in Seq(Json) /\ Len(v) \in Nat /\ s[n] \in Json
    BY <1>1, <1>5, <2>1
  <2>3. CASE n \notin I
    <3>1. w = v
      BY <1>5, <2>3
    <3>2. \A j \in I : j <= n - 1 => j <= n
      BY <1>1, <1>2
    <3>3. From(n)
      BY <2>1, <3>1, <3>2
    <3>4. Different(n)
      BY <2>1, <3>1
    <3> QED
      BY <2>1, <3>3, <3>4
  <2>4. CASE n \in I
    <3>1. w = Append(v, s[n])
      BY <1>5, <2>4
    <3> HIDE DEF v
    <3>2. /\ Len(w) = Len(v) + 1 /\ w[Len(v) + 1] = s[n]
          /\ \A m \in 1..Len(v) : w[m] = v[m]
      BY <2>2, <3>1
    <3> HIDE DEF w
    <3>3. \A m \in 1..Len(w) : m \in 1..Len(v) \/ m = Len(v) + 1
      BY <2>2, <3>2
    <3>4. ASSUME NEW m \in 1..Len(v) PROVE \E j \in I : j <= n - 1 /\ s[j] = v[m]
      BY <2>1 DEF v
    <3>5. ASSUME NEW m \in 1..Len(v) PROVE v[m] # s[n]
      <4>1. PICK j \in I : j <= n - 1 /\ s[j] = v[m]
        BY <3>4
      <4>2. j \in 1..(n - 1)
        BY <1>1, <1>2, <4>1
      <4> QED
        BY <1>2, <2>4, <4>1, <4>2
    <3>6. ASSUME NEW m \in 1..Len(w) PROVE \E j \in I : j <= n /\ s[j] = w[m]
      <4>1. CASE m = Len(v) + 1
        BY <2>4, <3>2, <4>1
      <4>2. CASE m \in 1..Len(v)
        <5>1. PICK j \in I : j <= n - 1 /\ s[j] = v[m]
          BY <3>4, <4>2
        <5>2. j <= n
          BY <1>1, <1>2, <5>1
        <5> QED
          BY <3>2, <4>2, <5>1, <5>2
      <4> QED
        BY <3>3, <4>1, <4>2
    <3>7. \A m, k \in 1..Len(v) : v[m] = v[k] => m = k
      BY <2>1 DEF v
    <3>8. ASSUME NEW m \in 1..Len(w), NEW k \in 1..Len(w), w[m] = w[k] PROVE m = k
      BY <3>2, <3>3, <3>5, <3>7, <3>8
    <3> QED
      BY <2>1, <3>6, <3>8 DEF w
  <2> QED
    BY <2>3, <2>4
<1>8. 0..N \subseteq S
  <2> HIDE DEF S
  <2> QED
    BY <1>1, <1>6, <1>7, RangeInduction
<1>9. N \in 0..N
  BY <1>1
<1>10. K[N] \in Seq(Json) /\ From(N) /\ Different(N)
  BY <1>5, <1>8, <1>9
<1>11. DOMAIN K[N] = 1..Len(K[N])
  BY <1>10
<1>12. IsInjective(K[N])
  BY <1>10, <1>11 DEF IsInjective
<1>13. \A i \in DOMAIN K[N] : \E j \in DOMAIN s : j <= max /\ s[j] = K[N][i]
  BY <1>1, <1>2, <1>10, <1>11
<1> QED
  BY <1>5, <1>10, <1>12, <1>13

\* Records that meet the threshold lack few of their required values.
LEMMA FewAreMissing ==
  ASSUME NEW kept \in Seq(Json), NEW required \in SUBSET Field, Complete(kept, required)
  PROVE  LET missing == {v \in (DOMAIN kept) \X required :
                           kept[v[1]].fields[v[2]] \in {"absent", "null", "blank"}}
         IN  10 * Cardinality(missing) <=
               (10 - MinTenths) * Len(kept) * Cardinality(required)
<1> DEFINE All == (DOMAIN kept) \X required
           missing == {v \in All : kept[v[1]].fields[v[2]] \in {"absent", "null", "blank"}}
           present == {v \in All : Present(kept[v[1]], v[2])}
           n == Len(kept)
           r == Cardinality(required)
           p == Cardinality(present)
           q == Cardinality(missing)
<1>1. n \in Nat /\ DOMAIN kept = 1..n
  OBVIOUS
<1>2. IsFiniteSet(required) /\ r \in Nat
  BY GateAssumption, FS_Subset, FS_CardinalityType
<1>3. IsFiniteSet(1..n) /\ Cardinality(1..n) = n
  BY <1>1, FS_Interval
<1>4. IsFiniteSet(All) /\ Cardinality(All) = n * r
  BY <1>1, <1>2, <1>3, FS_Product
<1>5. present \subseteq All /\ missing = All \ present
  BY DEF Present
<1> HIDE DEF All, missing, present
<1>6. IsFiniteSet(present) /\ p \in Nat /\ IsFiniteSet(missing) /\ q \in Nat
  BY <1>4, <1>5, FS_Subset, FS_Difference, FS_CardinalityType
<1>7. q = n * r - p
  <2>1. All \cap present = present
    BY <1>5
  <2>2. Cardinality(All \ present) = Cardinality(All) - Cardinality(All \cap present)
    BY <1>4, FS_Difference
  <2> QED
    BY <1>4, <1>5, <2>1, <2>2
<1>8. MinTenths \in 0..10
  BY GateAssumption
<1>9. CASE required = {}
  <2>1. r = 0
    BY <1>9, FS_EmptySet
  <2> HIDE DEF n, p, q, r
  <2>2. q = 0
    BY <1>1, <1>6, <1>7, <2>1
  <2> QED
    BY <1>1, <1>8, <2>1, <2>2 DEF missing, All, n, q, r
<1>10. CASE required # {}
  <2>1. 10 * p >= MinTenths * n * r
    BY <1>10 DEF Complete, present, All
  <2> HIDE DEF n, p, q, r
  <2> DEFINE a == n * r
  <2>2. a \in Nat /\ MinTenths * n * r = MinTenths * a
        /\ (10 - MinTenths) * n * r = 10 * a - MinTenths * a
    BY <1>1, <1>2, <1>8
  <2>3. MinTenths * a \in Nat
    <3> HIDE DEF a
    <3>1. MinTenths \in Nat /\ a \in Nat
      BY <1>8, <2>2
    <3> QED
      BY <3>1
  <2>4. 10 * q = 10 * a - 10 * p
    BY <1>6, <1>7, <2>2
  <2>5. 10 * q <= (10 - MinTenths) * n * r
    <3> HIDE DEF a
    <3> QED
      BY <1>6, <2>1, <2>2, <2>3, <2>4
  <2> QED
    BY <2>5 DEF missing, All, n, q, r
<1> QED
  BY <1>9, <1>10

\* What is known of the records on their way to a success, and after it.
GateInv ==
  /\ at \in {"gate", "promote"} \/ test = "success" =>
       process = "reaped" /\ output.kind = "records"
  /\ at = "promote" \/ test = "success" =>
       /\ records # <<>>
       /\ records = Normalized(output.records, request.max)
       /\ Complete(records, request.required)
  /\ test = "success" => at = "decide_next"

LEMMA GateInit == Init => GateInv
  BY DEF Init, GateInv

LEMMA GateNext == ASSUME GateInv, [Next]_vars PROVE GateInv'
  <1> USE DEF GateInv
  <1>1. CASE UNCHANGED vars
    BY <1>1 DEF vars
  <1>2. CASE Validate \/ CheckRobots \/ RenderPage \/ FetchPage \/ AskLlm \/ WriteCode
    BY <1>2 DEF Validate, CheckRobots, RenderPage, FetchPage, AskLlm, WriteCode, Analyzed, Written
  <1>3. CASE (\E p \in Providers : LlmFails(p) \/ LlmAnswers(p)) \/ LlmRaises
    BY <1>3 DEF LlmFails, LlmAnswers, LlmRaises
  <1>4. CASE CheckPolicy \/ Launch \/ TimesOut \/ Collect
    BY <1>4 DEF CheckPolicy, Launch, TimesOut, Collect, TestFails
  <1>5. CASE ReadOutput
    BY <1>5 DEF ReadOutput, TestFails
  <1>6. CASE CheckRecords
    BY <1>6 DEF CheckRecords, TestFails
  <1>7. CASE Promote
    BY <1>7 DEF Promote
  <1>8. CASE ProcessExits \/ Reap
    BY <1>8 DEF ProcessExits, Reap
  <1>9. CASE Crash
    BY <1>9 DEF Crash, Awaiting, Analyzing, Generating, Testing
  <1> QED
    BY <1>1, <1>2, <1>3, <1>4, <1>5, <1>6, <1>7, <1>8, <1>9 DEF Next, PassStep

\* A test passes only on records of a process that is over: some, different,
\* from the first max_records of its output, and with no more of their required
\* values missing than the threshold allows, whatever the output is.
THEOREM PassedIsEarnedAlways == Spec => []PassedIsEarned
  <1>1. TypeOK /\ GateInv => PassedIsEarned
    <2> SUFFICES ASSUME TypeOK, GateInv, test = "success" PROVE PassedIsEarned
      BY DEF PassedIsEarned
    <2>1. /\ process = "reaped" /\ output.kind = "records" /\ records # <<>>
          /\ records = Normalized(output.records, request.max)
          /\ Complete(records, request.required)
      BY DEF GateInv
    <2>2. output.records \in Seq(Json)
      <3>1. NoOutput.records \in Seq(Json)
        BY DEF NoOutput
      <3>2. \A left \in Outputs : left.records \in Seq(Json)
        BY NodesAssumption
      <3>3. output \in Outputs \cup {NoOutput}
        BY DEF TypeOK
      <3> QED
        BY <3>1, <3>2, <3>3
    <2>3. request.max \in Nat /\ request.required \in SUBSET Field
      BY NodesAssumption DEF TypeOK
    <2>4. /\ records \in Seq(Json) /\ IsInjective(records)
          /\ \A i \in DOMAIN records :
               \E j \in DOMAIN output.records :
                 j <= request.max /\ output.records[j] = records[i]
      BY <2>1, <2>2, <2>3, NormalizedKeeps
    <2> QED
      BY <2>1, <2>3, <2>4, FewAreMissing DEF PassedIsEarned
  <1>2. Spec => []GateInv
    BY GateInit, GateNext, PTL DEF Spec
  <1> QED
    BY <1>1, <1>2, NodesTypeCorrect, PTL
===============================================================================
