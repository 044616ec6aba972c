------------------------------ MODULE JobRouter -------------------------------
(***************************************************************************)
(* One JobRouter.execute with the retries of ServiceCaller, and what the   *)
(* services it calls are doing meanwhile.                                  *)
(*                                                                         *)
(* A call is attempted again after a connect error or a timeout, up to     *)
(* MaxAttempts times.  A timeout does not stop the handler at the other    *)
(* end: attempt n of a call may still be running while attempt n+1 starts, *)
(* and after execute has gone on or returned.  Every POST is therefore     *)
(* delivered up to MaxAttempts times.                                      *)
(***************************************************************************)
EXTENDS Phases, Naturals

CONSTANT MaxAttempts    \* stop_after_attempt(3)

ASSUME AttemptsAssumption == MaxAttempts \in Nat \ {0}

VARIABLES
  stage,      \* the await execute is suspended at, "returned" or "stopped"
  attempt,    \* of the current call; 0 before the first is sent
  waiting,    \* an attempt was sent and has not come back or timed out
  running,    \* per call, the attempts whose handler is still executing
  answer,     \* per call, what the caller got: execute's local variables
  result,     \* the CrawlResult: its status, and where the raw records are from
  audit,      \* the status AuditLog.finalize recorded, "none" before
  audited,    \* the attempts of POST /audit that stored the log
  raised,     \* an update_phase raised
  cancelled   \* CancelledError was thrown into the task

vars == <<stage, attempt, waiting, running, answer, result, audit,
          audited, raised, cancelled>>

Attempts == 1..MaxAttempts

Finals == {"success", "partial", "failed"}

\* What a service answers with status 200.  The agent-service of this repository
\* never answers success without records (EarnedSuccess of AgentGraph), but its
\* response model allows it and execute has a branch for it.
Replies(s) ==
  CASE s = "crawl"   -> {"records", "empty"}
    [] s = "agent"   -> {"records", "empty", "failed"}
    [] s = "process" -> {"processed", "failed"}
    [] OTHER         -> {"ok"}

TypeOK ==
  /\ stage \in Stages \cup {"stopped"}
  /\ attempt \in 0..MaxAttempts
  /\ waiting \in BOOLEAN
  /\ running \in [CallStages -> SUBSET Attempts]
  /\ \A s \in CallStages : answer[s] \in Replies(s) \cup {"none", "error"}
  /\ result \in [status : {"running"} \cup Finals,
                 raw : {"none", "template", "agent"}]
  /\ audit \in {"none", "running"} \cup Finals
  /\ audited \subseteq Attempts
  /\ raised \in BOOLEAN
  /\ cancelled \in BOOLEAN

Init ==
  /\ stage = "phase0"
  /\ attempt = 0
  /\ waiting = FALSE
  /\ running = [s \in CallStages |-> {}]
  /\ answer = [s \in CallStages |-> "none"]
  /\ result = [status |-> "running", raw |-> "none"]
  /\ audit = "none"
  /\ audited = {}
  /\ raised = FALSE
  /\ cancelled = FALSE

-------------------------------------------------------------------------------
(* execute                                                                 *)

\* Mutant: records of the template do not keep the job from the agent.
After_Escalates(s, a) ==
  CASE s = "analyze" -> "phase1"
    [] s = "crawl"   -> "phase2"
    [] s = "agent"   -> IF a = "records" THEN "phase3" ELSE "audit"
    [] s = "process" -> "audit"
    [] s = "audit"   -> IF cancelled THEN "stopped" ELSE "returned"

\* Where execute goes with what a call gave it; "error" is an exception that
\* the _call_* methods caught.
After(s, a) ==
  CASE s = "analyze" -> "phase1"
    [] s = "crawl"   -> IF a = "records" THEN "phase3" ELSE "phase2"
    [] s = "agent"   -> IF a = "records" THEN "phase3" ELSE "audit"
    [] s = "process" -> "audit"
    [] s = "audit"   -> IF cancelled THEN "stopped" ELSE "returned"

\* What it makes of the result.  A processor that answers that it failed is
\* not told from one that succeeded; an agent success without records is
\* decided when the result is finalised.
Noted(res, s, a) ==
  CASE s = "crawl" /\ a = "records"          -> [res EXCEPT !.raw = "template"]
    [] s = "agent" /\ a = "records"          -> [res EXCEPT !.raw = "agent"]
    [] s = "agent" /\ a \in {"failed", "error"} -> [res EXCEPT !.status = "failed"]
    [] s = "process" /\ a = "error"          -> [res EXCEPT !.status = "partial"]
    [] s = "process" /\ a # "error"          -> [res EXCEPT !.status = "success"]
    [] OTHER                                 -> res

\* Mutant: a result without records is a success, too.
Finalised_Optimistic(res) ==
  IF res.status # "running" THEN res ELSE [res EXCEPT !.status = "success"]

Finalised(res) ==
  IF res.status # "running" THEN res
  ELSE [res EXCEPT !.status = IF res.raw = "none" THEN "failed" ELSE "success"]

\* Mutant: the audit is finalised before the status is decided.
GoOn_AuditsEarly(next, res) ==
  /\ stage' = next
  /\ attempt' = 0
  /\ waiting' = FALSE
  /\ result' = res
  /\ audit' = IF next = "audit" THEN result.status ELSE audit

\* Going on to "next" with result res; on the way to the audit post the
\* finally block records the status the result has.
GoOn(next, res) ==
  /\ stage' = next
  /\ attempt' = 0
  /\ waiting' = FALSE
  /\ result' = res
  /\ audit' = IF next = "audit" THEN res.status ELSE audit

UpdatePhase ==
  /\ stage \in UpdateStages
  /\ \/ /\ \E next \in Stages : OnAnswer(stage, next) /\ GoOn(next, result)
        /\ UNCHANGED raised
     \/ /\ GoOn("audit", [result EXCEPT !.status = "failed"])
        /\ raised' = TRUE
  /\ UNCHANGED <<running, answer, audited, cancelled>>

\* The call at the current stage gives a.
CallGives(a) ==
  LET next == After(stage, a)
      res  == Noted(result, stage, a)
  IN /\ answer' = [answer EXCEPT ![stage] = a]
     /\ GoOn(next, IF next = "audit" THEN Finalised(res) ELSE res)

-------------------------------------------------------------------------------
(* ServiceCaller.call                                                      *)

\* Mutant: one attempt too many.
RetryOrRaise_OneMore(n) ==
  IF n <= MaxAttempts
    THEN attempt' = n /\ waiting' = FALSE /\ UNCHANGED <<stage, answer, result, audit>>
    ELSE CallGives("error")

\* An attempt that ended in a connect error or a timeout is repeated.
RetryOrRaise(n) ==
  IF n < MaxAttempts
    THEN attempt' = n /\ waiting' = FALSE /\ UNCHANGED <<stage, answer, result, audit>>
    ELSE CallGives("error")

Send ==
  /\ stage \in CallStages
  /\ ~waiting
  /\ LET n == attempt + 1 IN
       /\ attempt' = n
       /\ waiting' = TRUE
       /\ running' = [running EXCEPT ![stage] = @ \cup {n}]
  /\ UNCHANGED <<stage, answer, result, audit, audited, raised, cancelled>>

ConnectError ==
  /\ stage \in CallStages
  /\ ~waiting
  /\ RetryOrRaise(attempt + 1)
  /\ UNCHANGED <<running, audited, raised, cancelled>>

\* Mutant: a timeout starts the attempts over.
Timeout_Forever ==
  /\ waiting
  /\ RetryOrRaise(0)
  /\ UNCHANGED <<running, audited, raised, cancelled>>

Timeout ==
  /\ waiting
  /\ RetryOrRaise(attempt)
  /\ UNCHANGED <<running, audited, raised, cancelled>>

\* Any other exception of httpx is raised at once; the handler goes on.
ConnectionLost ==
  /\ waiting
  /\ CallGives("error")
  /\ UNCHANGED <<running, audited, raised, cancelled>>

\* Mutant: a late reply of the processor still goes into the result.
HandlerEnds_Late(s, n) ==
  /\ n \in running[s]
  /\ running' = [running EXCEPT ![s] = @ \ {n}]
  /\ \E a \in Replies(s) \cup {"error"} :
       IF stage = s /\ waiting /\ attempt = n
         THEN CallGives(a)
         ELSE /\ result' = Noted(result, s, a)
              /\ UNCHANGED <<stage, attempt, waiting, answer, audit>>
  /\ UNCHANGED <<audited, raised, cancelled>>

\* The handler of attempt n of call s ends, with a reply or an error status.
\* The caller gets it if that is the attempt it waits for; else it is late.
\* POST /audit answers "stored" also when the log could not be stored.
HandlerEnds(s, n) ==
  /\ n \in running[s]
  /\ running' = [running EXCEPT ![s] = @ \ {n}]
  /\ \E a \in Replies(s) \cup {"error"} :
       /\ \/ s = "audit" /\ a = "ok" /\ audited' = audited \cup {n}
          \/ UNCHANGED audited
       /\ IF stage = s /\ waiting /\ attempt = n
            THEN CallGives(a)
            ELSE UNCHANGED <<stage, attempt, waiting, answer, result, audit>>
  /\ UNCHANGED <<raised, cancelled>>

-------------------------------------------------------------------------------

\* Shutdown cancels the task.  The finally block still runs and posts the
\* audit with whatever status the result has; a task already there is done.
Cancel ==
  /\ stage \notin {"returned", "stopped"}
  /\ ~cancelled
  /\ cancelled' = TRUE
  /\ IF stage = "audit" THEN GoOn("stopped", result) ELSE GoOn("audit", result)
  /\ UNCHANGED <<running, answer, audited, raised>>

Crash ==
  /\ stage \notin {"returned", "stopped"}
  /\ GoOn("stopped", result)
  /\ UNCHANGED <<running, answer, audited, raised, cancelled>>

Step == UpdatePhase \/ Send \/ ConnectError \/ Timeout \/ ConnectionLost

Handlers == \E s \in CallStages : \E n \in running[s] : HandlerEnds(s, n)

Next == Step \/ Handlers \/ Cancel \/ Crash

Spec == Init /\ [][Next]_vars

\* The event loop runs a ready task and httpx enforces the timeouts; nothing is
\* assumed of the services.
FairSpec == Spec /\ WF_vars(Step)

-------------------------------------------------------------------------------
(* Safety                                                                  *)

Decided == stage \in {"audit", "returned"} /\ ~cancelled

\* The status a caller is given says what happened: raw records that no
\* processor answered for make it partial, and it is failed only when Redis
\* raised or neither the template nor the agent brought records.
HonestStatus ==
  Decided =>
    CASE result.status = "success" -> /\ result.raw # "none"
                                      /\ answer["process"] \notin {"none", "error"}
      [] result.status = "partial" -> /\ result.raw # "none"
                                      /\ answer["process"] = "error"
      [] result.status = "failed"  -> \/ raised
                                      \/ /\ answer["crawl"] # "records"
                                         /\ answer["agent"] # "records"
      [] OTHER                     -> FALSE

\* The agent is a fallback: it does not work on a job whose template had
\* records, and the records of the result come from the one that had them.
AgentIsFallback ==
  /\ running["agent"] # {} \/ result.raw = "agent" =>
       answer["crawl"] \in {"empty", "error"}
  /\ result.raw = "agent" => answer["agent"] = "records"

\* A stored audit log agrees with the result the caller gets, and only that of
\* a cancelled task may say the job was still running.
AuditAgrees ==
  audited # {} => /\ audit = result.status
                  /\ audit = "running" => cancelled

\* What execute has put into the result, and the audit it has finalised, is
\* not changed by a late handler or a retry.
NothingLate ==
  [][audit # "none" => audit' = audit /\ result' = result]_vars

-------------------------------------------------------------------------------
(* A claim of the source that the code does not meet.                      *)

\* job_router.py:137 "Processing failed but we still have raw data".
FailedProcessingIsPartial ==
  Decided /\ answer["process"] = "failed" => result.status = "partial"

-------------------------------------------------------------------------------
(* execute as the pipeline task sees it.                                   *)

P == INSTANCE Pipeline WITH stage <- IF cancelled THEN "stopped" ELSE stage

ImplementsPipeline == P!FairSpec
===============================================================================
