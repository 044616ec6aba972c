------------------------------ MODULE AgentGraph ------------------------------
(***************************************************************************)
(* The agent-service: CustomAgentGraph.run for requests on one domain, the *)
(* LangGraph loop                                                          *)
(*     prepare -> (analyze_site -> generate_code ->) run_tests ->          *)
(*     decide_next -> END | analyze_site | alert_human -> END              *)
(* and the memory the runs share: the domain context in Redis, the         *)
(* approved artifact files (one per data type), and the checkpoint of each *)
(* thread (one per request id).                                            *)
(*                                                                         *)
(* Runs overlap.  The gateway's retries put several runs on one thread,    *)
(* while the earlier ones still execute; a later run starts from whatever  *)
(* the checkpoint and the domain context hold by then.                     *)
(*                                                                         *)
(* Code is named by the run that generated it.  Left out: prompts, HTML,   *)
(* messages, the error list and the advisory memory (known errors, similar *)
(* sites, feedback, conversation), which steer the LLM and no transition.  *)
(***************************************************************************)
EXTENDS Naturals

CONSTANTS
  Run,         \* requests to POST /agent/run
  Thread,      \* request ids
  DataType,
  Requests,    \* what the runs may ask for, as functions from Run
  Faulty,      \* runs in which a memory command may raise
  Mortal,      \* whether the process may die
  None

ASSUME AgentAssumption ==
  /\ Requests \subseteq [Run -> [thread : Thread, type : DataType, retries : Nat \ {0}]]
  /\ Faulty \subseteq Run
  /\ Mortal \in BOOLEAN
  /\ None \notin Run \cup DataType

VARIABLES
  request,     \* thread and data type of each run, and its max_retries
  node,        \* where each run is
  attempt,
  chan,        \* the graph state of each run
  seen,        \* the domain context each run loaded
  preflight,   \* the robots.txt answer of the run, "none" before the check
  context,     \* domain memory
  artifact,    \* approved crawler per data type
  checkpoint,  \* per thread, the graph state saved last
  tested       \* history: the code that passed the run's last test

vars == <<request, node, attempt, chan, seen, preflight, context, artifact, checkpoint, tested>>

GraphNodes == {"analyze_site", "generate_code", "run_tests", "decide_next", "alert_human"}

Active == GraphNodes \cup {"loading", "save_success", "save_errors", "add_messages", "failing"}

Replies == {"success", "max_retries_exceeded", "failed", "error500"}

State == [code : Run \cup {None}, analysis : BOOLEAN, test : {"none", "pass", "fail"},
          records : BOOLEAN,
          status : {"running", "retry", "success", "max_retries_exceeded"}]

Context == [artifact : DataType \cup {None}, analysis : BOOLEAN]

Blank == [code |-> None, analysis |-> FALSE, test |-> "none",
          records |-> FALSE, status |-> "running"]

NoContext == [artifact |-> None, analysis |-> FALSE]

TypeOK ==
  /\ node \in [Run -> {"idle", "lost"} \cup Active \cup Replies]
  /\ request \in Requests
  /\ \A r \in Run : attempt[r] \in 0..request[r].retries
  /\ chan \in [Run -> State]
  /\ seen \in [Run -> Context]
  /\ preflight \in [Run -> {"none", "passed", "disallowed"}]
  /\ context \in Context
  /\ artifact \in [DataType -> Run \cup {None}]
  /\ checkpoint \in [Thread -> State]
  /\ tested \in [Run -> Run \cup {None}]

Init ==
  /\ request \in Requests
  /\ node = [r \in Run |-> "idle"]
  /\ attempt = [r \in Run |-> 0]
  /\ chan = [r \in Run |-> Blank]
  /\ seen = [r \in Run |-> NoContext]
  /\ preflight = [r \in Run |-> "none"]
  /\ context = NoContext
  /\ artifact = [d \in DataType |-> None]
  /\ checkpoint = [t \in Thread |-> Blank]
  /\ tested = [r \in Run |-> None]

-------------------------------------------------------------------------------

Goto(r, n) == node' = [node EXCEPT ![r] = n]

\* A node returned: its updates enter the graph state, which is checkpointed in
\* the background, so that a crash or another run may still find the older one.
NodeReturns(r, state, next) ==
  /\ chan' = [chan EXCEPT ![r] = state]
  /\ checkpoint' \in {checkpoint, [checkpoint EXCEPT ![request[r].thread] = state]}
  /\ Goto(r, next)

\* A node, or the checkpointer after it, raised.
NodeRaises(r) == Goto(r, "failing") /\ UNCHANGED <<request, chan, checkpoint>>

-------------------------------------------------------------------------------
(* run, up to ainvoke                                                      *)

\* The memory is read before the try block: a Redis error is a 500.
LoadMemory(r) ==
  /\ node[r] = "idle"
  /\ \/ Goto(r, "loading") /\ seen' = [seen EXCEPT ![r] = context]
     \/ r \in Faulty /\ Goto(r, "error500") /\ UNCHANGED seen
  /\ UNCHANGED <<request, attempt, chan, preflight, context, artifact, checkpoint, tested>>

\* Mutant: the cached crawler comes without its analysis.
Initial_CodeOnly(r) ==
  LET kept == [checkpoint[request[r].thread] EXCEPT !.status = "running"]
      name == seen[r].artifact
  IN IF name # None /\ artifact[name] # None
       THEN [kept EXCEPT !.code = artifact[name]]
       ELSE kept

\* The state ainvoke starts from: what the thread's checkpoint holds, over it
\* the fields of initial_state, and an approved crawler the context names.
Initial(r) ==
  LET kept == [checkpoint[request[r].thread] EXCEPT !.status = "running"]
      name == seen[r].artifact
  IN IF name # None /\ artifact[name] # None
       THEN [kept EXCEPT !.code = artifact[name], !.analysis = seen[r].analysis]
       ELSE kept

Prepare(r) ==
  /\ node[r] = "loading"
  /\ NodeReturns(r, Initial(r),
                 IF Initial(r).code # None THEN "run_tests" ELSE "analyze_site")
  /\ UNCHANGED <<request, attempt, seen, preflight, context, artifact, tested>>

\* The approved crawler is read before the try block: a file that cannot be read
\* is a 500.
PrepareRaises(r) ==
  /\ node[r] = "loading"
  /\ seen[r].artifact # None /\ artifact[seen[r].artifact] # None
  /\ Goto(r, "error500")
  /\ UNCHANGED <<request, attempt, chan, seen, preflight, context, artifact, checkpoint, tested>>

-------------------------------------------------------------------------------
(* The nodes                                                               *)

\* A disallowed, unreachable or misunderstood page makes a poorer analysis;
\* the edge to generate_code is unconditional.
AnalyzeSite(r) ==
  /\ node[r] = "analyze_site"
  /\ preflight' \in {[preflight EXCEPT ![r] = p] : p \in {"passed", "disallowed"}}
  /\ NodeReturns(r, [chan[r] EXCEPT !.analysis = TRUE], "generate_code")
  /\ UNCHANGED <<request, attempt, seen, context, artifact, tested>>

\* The URL check or the fetch raises.
AnalyzeSiteRaises(r) ==
  /\ node[r] = "analyze_site"
  /\ NodeRaises(r)
  /\ UNCHANGED <<request, attempt, seen, preflight, context, artifact, tested>>

\* Code the policy rejects, or none, leaves crawler_code empty.
GenerateCode(r) ==
  /\ node[r] = "generate_code"
  /\ \E c \in {r, None} : NodeReturns(r, [chan[r] EXCEPT !.code = c], "run_tests")
  /\ UNCHANGED <<request, attempt, seen, preflight, context, artifact, tested>>

\* Mutant: a failed test leaves the test result of before in the state.
TestFails_StaleResult(r) ==
  /\ node[r] = "run_tests"
  /\ NodeReturns(r, chan[r], "decide_next")
  /\ tested' = [tested EXCEPT ![r] = None]
  /\ UNCHANGED <<request, attempt, seen, preflight, context, artifact>>

\* Mutant: a failed test leaves the records of before in the state.
TestFails_KeepsRecords(r) ==
  /\ node[r] = "run_tests"
  /\ NodeReturns(r, [chan[r] EXCEPT !.test = "fail"], "decide_next")
  /\ tested' = [tested EXCEPT ![r] = None]
  /\ UNCHANGED <<request, attempt, seen, preflight, context, artifact>>

TestFails(r) ==
  /\ node[r] = "run_tests"
  /\ NodeReturns(r, [chan[r] EXCEPT !.test = "fail", !.records = FALSE], "decide_next")
  /\ tested' = [tested EXCEPT ![r] = None]
  /\ UNCHANGED <<request, attempt, seen, preflight, context, artifact>>

Promoted(r) == [artifact EXCEPT ![request[r].type] = chan[r].code]

\* Mutant: the code is not promoted.
TestPasses_NotPromoted(r) ==
  /\ node[r] = "run_tests"
  /\ chan[r].code # None
  /\ NodeReturns(r, [chan[r] EXCEPT !.test = "pass", !.records = TRUE], "decide_next")
  /\ tested' = [tested EXCEPT ![r] = chan[r].code]
  /\ UNCHANGED <<request, attempt, seen, preflight, context, artifact>>

\* The sandbox and the record gate pass: the code becomes the approved
\* crawler of the run's data type.
TestPasses(r) ==
  /\ node[r] = "run_tests"
  /\ chan[r].code # None
  /\ artifact' = Promoted(r)
  /\ NodeReturns(r, [chan[r] EXCEPT !.test = "pass", !.records = TRUE], "decide_next")
  /\ tested' = [tested EXCEPT ![r] = chan[r].code]
  /\ UNCHANGED <<request, attempt, seen, preflight, context>>

\* Writing the code or the metadata file fails.
PromotionRaises(r) ==
  /\ node[r] = "run_tests"
  /\ chan[r].code # None
  /\ artifact' \in {artifact, Promoted(r)}
  /\ NodeRaises(r)
  /\ UNCHANGED <<request, attempt, seen, preflight, context, tested>>

Passed(r) == chan[r].test = "pass" /\ chan[r].records

\* Mutant: off by one.
DecideNext_OneMore(r) ==
  /\ node[r] = "decide_next"
  /\ attempt' = [attempt EXCEPT ![r] = @ + 1]
  /\ CASE Passed(r) ->
            NodeReturns(r, [chan[r] EXCEPT !.status = "success"], "save_success")
       [] ~Passed(r) /\ attempt[r] >= request[r].retries ->
            NodeReturns(r, [chan[r] EXCEPT !.status = "max_retries_exceeded"], "alert_human")
       [] OTHER -> NodeReturns(r, [chan[r] EXCEPT !.status = "retry"], "analyze_site")
  /\ UNCHANGED <<request, seen, preflight, context, artifact, tested>>

\* Mutant: a retry does not count.
DecideNext_Uncounted(r) ==
  /\ node[r] = "decide_next"
  /\ IF Passed(r)
       THEN NodeReturns(r, [chan[r] EXCEPT !.status = "success"], "save_success")
       ELSE NodeReturns(r, [chan[r] EXCEPT !.status = "retry"], "analyze_site")
  /\ UNCHANGED <<request, attempt, seen, preflight, context, artifact, tested>>

DecideNext(r) ==
  /\ node[r] = "decide_next"
  /\ attempt' = [attempt EXCEPT ![r] = @ + 1]
  /\ CASE Passed(r) ->
            NodeReturns(r, [chan[r] EXCEPT !.status = "success"], "save_success")
       [] ~Passed(r) /\ attempt[r] + 1 >= request[r].retries ->
            NodeReturns(r, [chan[r] EXCEPT !.status = "max_retries_exceeded"], "alert_human")
       [] OTHER -> NodeReturns(r, [chan[r] EXCEPT !.status = "retry"], "analyze_site")
  /\ UNCHANGED <<request, seen, preflight, context, artifact, tested>>

\* analysis.get raises on None.  A webhook that fails is only logged.
AlertHuman(r) ==
  /\ node[r] = "alert_human"
  /\ IF chan[r].analysis THEN NodeReturns(r, chan[r], "save_errors") ELSE NodeRaises(r)
  /\ UNCHANGED <<request, attempt, seen, preflight, context, artifact, tested>>

-------------------------------------------------------------------------------
(* run, after ainvoke                                                      *)

MemoryCommand(r, next) ==
  \/ Goto(r, next)
  \/ r \in Faulty /\ Goto(r, "failing")

SaveSuccess(r) ==
  LET new == [artifact |-> request[r].type, analysis |-> chan[r].analysis] IN
  /\ node[r] = "save_success"
  /\ \/ Goto(r, "add_messages") /\ context' = new
     \/ r \in Faulty /\ Goto(r, "failing") /\ context' \in {context, new}
  /\ UNCHANGED <<request, attempt, chan, seen, preflight, artifact, checkpoint, tested>>

SaveErrors(r) ==
  /\ node[r] = "save_errors"
  /\ MemoryCommand(r, "add_messages")
  /\ UNCHANGED <<request, attempt, chan, seen, preflight, context, artifact, checkpoint, tested>>

\* The reply carries the status of the graph, but an error while the
\* conversation is saved turns even a success into "failed".
AddMessages(r) ==
  /\ node[r] = "add_messages"
  /\ MemoryCommand(r, chan[r].status)
  /\ UNCHANGED <<request, attempt, chan, seen, preflight, context, artifact, checkpoint, tested>>

\* The except block saves the error; when that raises too it is a 500.
Failing(r) ==
  /\ node[r] = "failing"
  /\ \/ Goto(r, "failed")
     \/ r \in Faulty /\ Goto(r, "error500")
  /\ UNCHANGED <<request, attempt, chan, seen, preflight, context, artifact, checkpoint, tested>>

-------------------------------------------------------------------------------

\* Every run in progress is lost; files, Redis and checkpoints remain.
Crash ==
  /\ Mortal
  /\ node' = [r \in Run |-> IF node[r] \in Active THEN "lost" ELSE node[r]]
  /\ UNCHANGED <<request, attempt, chan, seen, preflight, context, artifact, checkpoint, tested>>

\* The domain context reaches its TTL or is evicted.
ForgetContext ==
  /\ context' = NoContext
  /\ UNCHANGED <<request, node, attempt, chan, seen, preflight, artifact, checkpoint, tested>>

\* A checkpoint that is kept in Redis is evicted.
ForgetThread(t) ==
  /\ checkpoint' = [checkpoint EXCEPT ![t] = Blank]
  /\ UNCHANGED <<request, node, attempt, chan, seen, preflight, context, artifact, tested>>

RunStep(r) ==
  \/ Prepare(r) \/ PrepareRaises(r) \/ AnalyzeSite(r) \/ AnalyzeSiteRaises(r) \/ GenerateCode(r)
  \/ TestFails(r) \/ TestPasses(r) \/ PromotionRaises(r) \/ DecideNext(r)
  \/ AlertHuman(r) \/ SaveSuccess(r) \/ SaveErrors(r) \/ AddMessages(r) \/ Failing(r)

Next ==
  \/ \E r \in Run : LoadMemory(r) \/ RunStep(r)
  \/ Crash
  \/ ForgetContext
  \/ \E t \in Thread : ForgetThread(t)

Spec == Init /\ [][Next]_vars

\* The event loop runs ready tasks, and the fetch, the LLM, the sandbox and the
\* webhook all have timeouts.
FairSpec == Spec /\ \A r \in Run : WF_vars(RunStep(r))

-------------------------------------------------------------------------------
(* Safety                                                                  *)

\* A run that answers success, cached code and stale checkpoint or not, has in
\* this very run passed the record gate with the code it returns, within its
\* attempts, and an approved crawler for its data type is on disk.
EarnedSuccess ==
  \A r \in Run : node[r] = "success" =>
    /\ chan[r].code # None /\ tested[r] = chan[r].code
    /\ chan[r].records
    /\ attempt[r] \in 1..request[r].retries
    /\ artifact[request[r].type] # None

\* Any other reply brings no records, whatever an earlier run of the thread
\* left in the checkpoint.
NoStaleRecords ==
  \A r \in Run : node[r] = "max_retries_exceeded" => ~chan[r].records

\* alert_human reads the analysis without looking whether there is one: on
\* every way to it, the cached and the resumed ones included, there is.
AlertHasAnalysis ==
  \A r \in Run : node[r] = "alert_human" => chan[r].analysis

\* The domain context never names an artifact that is not on disk.
ContextIsBacked ==
  context.artifact # None => artifact[context.artifact] # None

\* Every run that loaded its memory is answered, unless its process dies.
EveryRunAnswered ==
  \A r \in Run : node[r] = "loading" ~> node[r] \in Replies \cup {"lost"}

-------------------------------------------------------------------------------
(* A claim of the source that the code does not meet.                      *)

Executes(r) == node[r] = "run_tests" /\ node'[r] = "decide_next" /\ chan'[r].test = "pass"

\* robots.py:1 "Shared robots.txt preflight used before any target-page request":
\* a crawler only passes its test on the target after a preflight of its run.
PreflightBeforeTarget ==
  [][\A r \in Run : Executes(r) => preflight[r] = "passed"]_vars
===============================================================================
