------------------------------ MODULE AgentNodes ------------------------------
(***************************************************************************)
(* One pass of an agent run through the nodes analyze_site, generate_code  *)
(* and run_tests, at the granularity of their awaits: the robots check,    *)
(* the page, the LLM providers with their retries, the sandboxed process   *)
(* with its timeout, and the two gates.  AgentGraph takes each of these    *)
(* nodes as one step.                                                      *)
(***************************************************************************)
EXTENDS RecordGate

CONSTANTS
  Requests,   \* [respect, required, max]: fields of the request
  Setups,     \* [keys, backend]: the providers whose client can be made, which takes
              \* a key; and how the sandbox is started
  Programs,   \* what the LLM may write, and what may be cached
  Outputs     \* what a program may leave in its output, see ProcessExits

ASSUME NodesAssumption ==
  /\ Requests \subseteq [respect : BOOLEAN, required : SUBSET Field, max : Nat \ {0}]
  /\ Setups \subseteq [keys : SUBSET {"primary", "secondary"},
                       backend : {"python", "bubblewrap", "launcher"}]
  /\ Programs \subseteq Program
  /\ \A left \in Outputs : left.records \in Seq(Json)

Attempts == 3

NoProgram == [blank |-> TRUE, parses |-> TRUE, body |-> {}, uses |-> {}]

NoOutput == [kind |-> "none", records |-> <<>>]

VARIABLES
  request, setup,
  at,         \* the await the pass is suspended at, or where it has gone
  analysis,   \* there is an analysis in the state
  failures,   \* per provider, its failed attempts in the current LLM call
  answer,     \* what that call has come to: a provider's answer, or an error
  code,       \* crawler_code
  process,    \* of the sandbox
  output,     \* what is in its stdout file
  test,       \* status of test_result
  records     \* records in the state

vars == <<request, setup, at, analysis, failures, answer, code,
          process, output, test, records>>

Analyzing == {"validate", "robots", "render", "fallback", "ask"}
Generating == {"write"}
Testing == {"policy", "launch", "wait", "collect", "gate", "promote"}
Awaiting == Analyzing \cup Generating \cup Testing
Gone == {"decide_next", "failing", "lost"}

TypeOK ==
  /\ request \in Requests
  /\ setup \in Setups
  /\ at \in Awaiting \cup Gone
  /\ analysis \in BOOLEAN
  /\ failures \in [{"primary", "secondary"} -> 0..Attempts]
  /\ answer \in {"none", "error", "primary", "secondary"}
  /\ code \in Programs \cup {NoProgram}
  /\ process \in {"none", "running", "exited", "reaped"}
  /\ output \in Outputs \cup {NoOutput}
  /\ test \in {"none", "error", "timeout", "success"}
  /\ records \in {<<>>, Normalized(output.records, request.max)}

NoFailures == [p \in {"primary", "secondary"} |-> 0]

\* The pass is the first, a retry, or the cached path.
Init ==
  /\ request \in Requests
  /\ setup \in Setups
  /\ at \in {"validate", "policy"}
  /\ analysis \in BOOLEAN
  /\ failures = NoFailures
  /\ answer = "none"
  /\ code \in IF at = "policy" THEN Programs \ {NoProgram} ELSE {NoProgram}
  /\ process = "none"
  /\ output = NoOutput
  /\ test = "none"
  /\ records = <<>>

-------------------------------------------------------------------------------
(* analyze_site                                                            *)

\* The node returns an analysis, with an error in it or not.
Analyzed == at' = "write" /\ analysis' = TRUE /\ failures' = NoFailures /\ answer' = "none"

Validate ==
  /\ at = "validate"
  /\ at' \in {"robots", "failing"}
  /\ UNCHANGED <<request, setup, analysis, failures, answer, code, process, output, test, records>>

\* Only a refusal stops the node, with what it knows so far: no robots.txt
\* allows, and one that cannot be fetched or has an error status says nothing.
\* httpx.InvalidURL, of the target or a redirect, is neither an HTTPError nor a
\* ValueError, and escapes the node.
CheckRobots ==
  /\ at = "robots"
  /\ \/ at' \in {"render", "failing"} /\ UNCHANGED <<analysis, failures, answer>>
     \/ request.respect /\ Analyzed
  /\ UNCHANGED <<request, setup, code, process, output, test, records>>

\* Playwright gets a page, an empty page or an error; resolving the host again
\* is outside its try block.
RenderPage ==
  /\ at = "render"
  /\ \/ at' \in {"ask", "fallback", "failing"} /\ UNCHANGED <<analysis, failures, answer>>
     \/ Analyzed
  /\ UNCHANGED <<request, setup, code, process, output, test, records>>

\* safe_async_request takes no allowed_hosts and hands it on to httpx, whose
\* request method does not take it either: the fallback raises for any page.
FetchPage ==
  /\ at = "fallback"
  /\ at' = "failing"
  /\ UNCHANGED <<request, setup, analysis, failures, answer, code, process, output, test, records>>

-------------------------------------------------------------------------------
(* ainvoke_llm, in analyze_site ("ask") and generate_code ("write")        *)

\* The secondary provider is only in the list if it has a key; one with a key whose
\* client cannot be made fails at once, as if it were not there.
Providers == {"primary"} \cup (setup.keys \cap {"secondary"})

\* Mutant: one attempt more.
GivenUp_OneMore(p) == p \notin setup.keys \/ failures[p] > Attempts

\* A provider whose client cannot be made fails before the first attempt.
GivenUp(p) == p \notin setup.keys \/ failures[p] = Attempts

\* Mutant: the providers take turns.
Turn_Any(p) == answer = "none" /\ p \in Providers /\ ~GivenUp(p)

\* The provider asked next.
Turn(p) ==
  /\ answer = "none"
  /\ p \in Providers /\ ~GivenUp(p)
  /\ p = "secondary" => GivenUp("primary")

LlmFails(p) ==
  /\ at \in {"ask", "write"}
  /\ Turn(p)
  /\ failures' = [failures EXCEPT ![p] = @ + 1]
  /\ UNCHANGED <<request, setup, at, analysis, answer, code, process, output, test, records>>

LlmAnswers(p) ==
  /\ at \in {"ask", "write"}
  /\ Turn(p)
  /\ answer' = p
  /\ UNCHANGED <<request, setup, at, analysis, failures, code, process, output, test, records>>

\* "All configured LLM providers failed"
LlmRaises ==
  /\ at \in {"ask", "write"}
  /\ answer = "none"
  /\ \A p \in Providers : GivenUp(p)
  /\ answer' = "error"
  /\ UNCHANGED <<request, setup, at, analysis, failures, code, process, output, test, records>>

\* An answer and an error both make an analysis.
AskLlm ==
  /\ at = "ask"
  /\ answer # "none"
  /\ Analyzed
  /\ UNCHANGED <<request, setup, code, process, output, test, records>>

Written(program) == at' = "policy" /\ code' = program

\* Code that violates the policy, cannot be saved, or was not written at all
\* leaves crawler_code empty.
WriteCode ==
  /\ at = "write"
  /\ answer # "none"
  /\ \/ Written(NoProgram)
     \/ /\ answer # "error"
        /\ \E program \in Programs : Violations(program) = {} /\ Written(program)
  /\ UNCHANGED <<request, setup, analysis, failures, answer, process, output, test, records>>

-------------------------------------------------------------------------------
(* run_tests                                                               *)

\* _failed_result: an earlier test's records do not stay.
TestFails(status) == at' = "decide_next" /\ test' = status /\ records' = <<>>

\* Mutant: cached code is not checked again.
CheckPolicy_Trusting ==
  /\ at = "policy"
  /\ IF code = NoProgram THEN TestFails("error") ELSE at' = "launch" /\ UNCHANGED <<test, records>>
  /\ UNCHANGED <<request, setup, analysis, failures, answer, code, process, output>>

CheckPolicy ==
  /\ at = "policy"
  /\ IF Violations(code) # {} THEN TestFails("error") ELSE at' = "launch" /\ UNCHANGED <<test, records>>
  /\ UNCHANGED <<request, setup, analysis, failures, answer, code, process, output>>

\* The sandbox directory and the program in it are made outside the try block,
\* what is raised after that is a failed test.
Launch ==
  /\ at = "launch"
  /\ \/ process' = "running" /\ at' = "wait" /\ UNCHANGED <<test, records>>
     \/ at' = "failing" /\ UNCHANGED <<test, records, process>>
     \/ TestFails("error") /\ UNCHANGED process
  /\ UNCHANGED <<request, setup, analysis, failures, answer, code, output>>

\* By itself or at a resource limit, with anything in its stdout: nothing, a
\* marker with garbled text, an error, JSON that is no object, or records.
ProcessExits ==
  /\ process = "running"
  /\ process' = "exited"
  /\ output' \in Outputs
  /\ UNCHANGED <<request, setup, at, analysis, failures, answer, code, test, records>>

\* The thread of asyncio's child watcher collects the process.
Reap ==
  /\ process = "exited"
  /\ process' = "reaped"
  /\ UNCHANGED <<request, setup, at, analysis, failures, answer, code, output, test, records>>

\* wait() returns in time, and the output is read.
ReadOutput ==
  /\ at = "wait"
  /\ process = "reaped"
  /\ CASE output.kind = "records" -> at' = "gate" /\ UNCHANGED <<test, records>>
       [] output.kind = "other"   -> at' = "failing" /\ UNCHANGED <<test, records>>
       [] OTHER                   -> TestFails("error")
  /\ UNCHANGED <<request, setup, analysis, failures, answer, code, process, output>>

\* Mutant: the process is not killed.
TimesOut_Alive ==
  /\ at = "wait"
  /\ TestFails("timeout")
  /\ UNCHANGED <<request, setup, analysis, failures, answer, code, process, output>>

\* Mutant: the wait has no timeout.
TimesOut_Never ==
  /\ at = "wait"
  /\ process = "reaped"
  /\ TestFails("error")
  /\ UNCHANGED <<request, setup, analysis, failures, answer, code, process, output>>

\* wait_for gives up and killpg is called: it raises when the process has been
\* collected just before, and when the process is not the service's to kill,
\* because the setuid launcher has made it root's.
TimesOut ==
  /\ at = "wait"
  /\ IF process = "reaped" \/ setup.backend = "launcher"
       THEN TestFails("error") /\ UNCHANGED process
       ELSE at' = "collect" /\ process' = "exited" /\ UNCHANGED <<test, records>>
  /\ UNCHANGED <<request, setup, analysis, failures, answer, code, output>>

Collect ==
  /\ at = "collect"
  /\ process = "reaped"
  /\ TestFails("timeout")
  /\ UNCHANGED <<request, setup, analysis, failures, answer, code, process, output>>

\* validate_records
CheckRecords ==
  LET kept == Normalized(output.records, request.max) IN
  /\ at = "gate"
  /\ IF kept # <<>> /\ Complete(kept, request.required)
       THEN at' = "promote" /\ records' = kept /\ UNCHANGED test
       ELSE TestFails("error")
  /\ UNCHANGED <<request, setup, analysis, failures, answer, code, process, output>>

\* Writing the approved crawler or its metadata may fail.
Promote ==
  /\ at = "promote"
  /\ \/ at' = "decide_next" /\ test' = "success" /\ UNCHANGED records
     \/ at' = "failing" /\ records' = <<>> /\ UNCHANGED test
  /\ UNCHANGED <<request, setup, analysis, failures, answer, code, process, output>>

\* The service dies; bubblewrap dies with its parent, plain python goes on.
Crash ==
  /\ at \in Awaiting
  /\ at' = "lost"
  /\ process' \in IF process = "running" /\ setup.backend # "python" THEN {"exited"} ELSE {process}
  /\ UNCHANGED <<request, setup, analysis, failures, answer, code, output, test, records>>

-------------------------------------------------------------------------------

PassStep ==
  \/ Validate \/ CheckRobots \/ RenderPage \/ FetchPage
  \/ (\E p \in Providers : LlmFails(p) \/ LlmAnswers(p))
  \/ LlmRaises \/ AskLlm \/ WriteCode
  \/ CheckPolicy \/ Launch \/ ReadOutput \/ TimesOut \/ Collect \/ CheckRecords \/ Promote

Next ==
  \/ PassStep
  \/ ProcessExits \/ Reap \/ Crash

Spec == Init /\ [][Next]_vars

\* Fetches, renderings and LLM calls answer or raise in the end, wait_for has a
\* timeout, and a process that has been killed or has exited is collected.
\* Nothing says that a process exits by itself.
FairSpec ==
  Spec /\ WF_vars(PassStep) /\ WF_vars(Reap)

-------------------------------------------------------------------------------

Node ==
  CASE at \in Analyzing -> "analyze_site" [] at \in Generating -> "generate_code"
    [] at \in Testing -> "run_tests" [] OTHER -> at

Pass == INSTANCE NodePass
  WITH node <- Node, code <- (code # NoProgram),
       test <- CASE test = "none" -> "none" [] test = "success" -> "pass" [] OTHER -> "fail"

\* The nodes do to the state of the graph what AgentGraph says of them, and
\* each of them comes to an end.
ImplementsPass == Pass!FairSpec

\* Only code the policy accepts at the time is ever executed, wherever it came
\* from: the LLM, a checkpoint, or an approved file.  And no process outlives
\* its test, unless the service may not kill it, or has died itself with
\* nothing around the process.
OnlyWatchedCodeRuns ==
  /\ process # "none" => Violations(code) = {}
  /\ process = "running" => \/ at = "wait"
                            \/ at = "decide_next" /\ setup.backend = "launcher"
                            \/ at = "lost" /\ setup.backend = "python"

\* Records that passed: there are some, they are different and among the first
\* max_records of the output, and of their required values so few are missing
\* that the threshold is met.
PassedIsEarned ==
  test = "success" =>
    LET missing == {v \in (DOMAIN records) \X request.required :
                      records[v[1]].fields[v[2]] \in {"absent", "null", "blank"}}
    IN /\ process = "reaped" /\ output.kind = "records"
       /\ records # <<>>
       /\ IsInjective(records)
       /\ \A i \in DOMAIN records :
            \E j \in DOMAIN output.records : j <= request.max /\ output.records[j] = records[i]
       /\ 10 * Cardinality(missing) <=
            (10 - MinTenths) * Len(records) * Cardinality(request.required)

\* An LLM call is given up only after three failed attempts of each provider
\* whose client can be made, and the secondary provider answers only after the primary
\* one has been given up.
ProvidersExhausted ==
  /\ answer = "error" => \A p \in setup.keys : failures[p] = Attempts
  /\ answer = "secondary" => "primary" \notin setup.keys \/ failures["primary"] = Attempts
===============================================================================
