--------------------------- MODULE JobRouter_proofs ----------------------------
(***************************************************************************)
(* Theorems of JobRouter, for any number of attempts per call and whatever *)
(* the services answer, late or in time.                                   *)
(***************************************************************************)
EXTENDS JobRouter, TLAPS

USE DEF Stages, UpdateStages, CallStages

Answers == {"none", "error", "records", "empty", "failed", "processed", "ok"}

Before == {"phase0", "analyze", "phase1", "crawl"}

\* The retries: an attempt that is awaited is one of a call, and one that is not
\* yet sent is left.
Trying ==
  /\ waiting => stage \in CallStages
  /\ ~waiting => attempt < MaxAttempts

\* What execute knows at each of its awaits.
Known ==
  /\ cancelled => stage \in {"audit", "stopped"}
  /\ stage \in (UpdateStages \cup CallStages) \ {"audit"} =>
       result.status = "running" /\ answer["process"] = "none"
  /\ stage \in Before => answer["crawl"] = "none"
  /\ stage \in Before \cup {"phase2", "agent"} => result.raw = "none" /\ answer["agent"] = "none"
  /\ stage \in {"phase2", "agent"} => answer["crawl"] \in {"empty", "error"}
  /\ stage \in {"phase3", "process"} => result.raw # "none"
  /\ result.raw = "template" => answer["crawl"] = "records"
  /\ result.raw = "agent" => answer["crawl"] \in {"empty", "error"} /\ answer["agent"] = "records"
  /\ HonestStatus

\* The audit log is finalised with the result, on the way to its post.
Audited ==
  /\ stage \in {"audit", "returned"} => audit # "none"
  /\ audit # "none" => stage \in {"audit", "returned", "stopped"} /\ audit = result.status
  /\ audit = "running" => cancelled

\* What the handlers that are still executing tell of the stages passed.
Executing ==
  /\ running["agent"] # {} => answer["crawl"] \in {"empty", "error"}
  /\ running["audit"] # {} \/ audited # {} => audit # "none"

RouterInv ==
  TypeOK /\ answer \in [CallStages -> Answers] /\ Trying /\ Known /\ Audited /\ Executing

-------------------------------------------------------------------------------

LEMMA RouterInit == Init => RouterInv
  <1> SUFFICES ASSUME Init PROVE RouterInv
    OBVIOUS
  <1> USE AttemptsAssumption DEF Init
  <1>1. TypeOK
    <2>1. \A s \in CallStages : answer[s] = "none" /\ running[s] = {}
      OBVIOUS
    <2>2. attempt \in 0..MaxAttempts
      OBVIOUS
    <2> QED
      BY <2>1, <2>2 DEF TypeOK
  <1>2. answer \in [CallStages -> Answers] /\ Trying
    BY DEF Answers, Trying
  <1>3. Known /\ Audited /\ Executing
    BY DEF Known, Audited, Executing, HonestStatus, Decided, Before
  <1> QED
    BY <1>1, <1>2, <1>3 DEF RouterInv

\* Every answer of a call, an exception included, keeps the invariant.
LEMMA CallerGoesOn ==
  ASSUME RouterInv, stage \in CallStages, NEW a \in Replies(stage) \cup {"error"},
         CallGives(a), UNCHANGED <<raised, cancelled>>
  PROVE  /\ answer' \in [CallStages -> Answers] /\ stage' \in Stages \cup {"stopped"}
         /\ answer'[stage] = a /\ \A s \in CallStages \ {stage} : answer'[s] = answer[s]
         /\ result' \in [status : {"running"} \cup Finals, raw : {"none", "template", "agent"}]
         /\ audit' \in {"none", "running"} \cup Finals
         /\ attempt' = 0 /\ waiting' = FALSE
         /\ Known' /\ Audited'
         /\ audit # "none" => UNCHANGED <<audit, result>>
  <1> USE DEF RouterInv, CallGives, GoOn, After, Noted, Finalised
  <1>1. a \in Answers /\ (a = "error" \/ a \in Replies(stage))
    BY DEF Answers, Replies
  <1>2. /\ answer' \in [CallStages -> Answers] /\ answer'[stage] = a
        /\ \A s \in CallStages \ {stage} : answer'[s] = answer[s]
    BY <1>1
  <1>3. result \in [status : {"running"} \cup Finals, raw : {"none", "template", "agent"}]
    BY DEF TypeOK
  <1> USE <1>1, <1>2, <1>3 DEF Known, Audited, HonestStatus, Decided, Before, Finals, TypeOK
  <1>4. CASE stage = "analyze"
    BY <1>4
  <1>5. CASE stage = "crawl"
    BY <1>5 DEF Replies
  <1>6. CASE stage = "agent"
    BY <1>6 DEF Replies
  <1>7. CASE stage = "process"
    BY <1>7 DEF Replies
  <1>8. CASE stage = "audit"
    BY <1>8 DEF Replies
  <1> QED
    BY <1>4, <1>5, <1>6, <1>7, <1>8

\* So it does whatever becomes of the handlers meanwhile.
LEMMA CallStep ==
  ASSUME RouterInv, stage \in CallStages, NEW a \in Replies(stage) \cup {"error"},
         CallGives(a), UNCHANGED <<raised, cancelled>>,
         running' \in [CallStages -> SUBSET Attempts],
         \A s \in CallStages : running'[s] \subseteq running[s],
         audited' \subseteq Attempts,
         audited' # {} => audited # {} \/ running["audit"] # {}
  PROVE  RouterInv'
  <1>1. /\ answer' \in [CallStages -> Answers] /\ stage' \in Stages \cup {"stopped"}
        /\ answer'[stage] = a /\ \A s \in CallStages \ {stage} : answer'[s] = answer[s]
        /\ result' \in [status : {"running"} \cup Finals, raw : {"none", "template", "agent"}]
        /\ audit' \in {"none", "running"} \cup Finals
        /\ attempt' = 0 /\ waiting' = FALSE
        /\ Known' /\ Audited'
        /\ audit # "none" => UNCHANGED <<audit, result>>
    BY CallerGoesOn
  <1>2. \A s \in CallStages : answer'[s] \in Replies(s) \cup {"none", "error"}
    BY <1>1 DEF RouterInv, TypeOK
  <1>3. attempt' \in 0..MaxAttempts
    BY <1>1, AttemptsAssumption
  <1>4. TypeOK'
    BY <1>1, <1>2, <1>3 DEF RouterInv, TypeOK
  <1>5. Trying'
    BY <1>1, AttemptsAssumption DEF Trying
  <1>6. Executing'
    <2>1. running["agent"] # {} => stage # "crawl"
      BY DEF RouterInv, Executing, Known, Before
    <2> QED
      BY <1>1, <2>1 DEF RouterInv, Executing
  <1> QED
    BY <1>1, <1>4, <1>5, <1>6 DEF RouterInv

\* An attempt that came to nothing.
LEMMA RetryStep ==
  ASSUME RouterInv, stage \in CallStages, NEW n \in Nat, RetryOrRaise(n),
         UNCHANGED <<running, audited, raised, cancelled>>
  PROVE  RouterInv'
  <1>1. CASE n < MaxAttempts
    <2>1. UNCHANGED <<stage, answer, result, audit, running, audited, raised, cancelled>>
          /\ attempt' = n /\ waiting' = FALSE
      BY <1>1 DEF RetryOrRaise
    <2>2. attempt' \in 0..MaxAttempts /\ attempt' < MaxAttempts
      BY <1>1, <2>1, AttemptsAssumption
    <2>3. TypeOK' /\ Trying'
      BY <2>1, <2>2 DEF RouterInv, TypeOK, Trying
    <2>4. Known' /\ Audited' /\ Executing'
      BY <2>1 DEF RouterInv, Known, Audited, Executing, HonestStatus, Decided
    <2> QED
      BY <2>1, <2>3, <2>4 DEF RouterInv
  <1>2. CASE ~(n < MaxAttempts)
    <2>1. CallGives("error")
      BY <1>2 DEF RetryOrRaise
    <2> QED
      BY <2>1, CallStep DEF RouterInv, TypeOK
  <1> QED
    BY <1>1, <1>2

LEMMA UpdatePhaseStep == ASSUME RouterInv, UpdatePhase PROVE RouterInv'
  <1> USE DEF RouterInv, UpdatePhase, GoOn
  <1>1. /\ attempt' = 0 /\ waiting' = FALSE
        /\ UNCHANGED <<running, answer, audited, cancelled>>
        /\ stage \in UpdateStages /\ stage' \in Stages \cup {"stopped"}
    BY DEF OnAnswer
  <1>2. result \in [status : {"running"} \cup Finals, raw : {"none", "template", "agent"}]
    BY DEF TypeOK
  <1>3. attempt' \in 0..MaxAttempts
    BY <1>1, AttemptsAssumption
  <1>4. /\ result' \in [status : {"running"} \cup Finals, raw : {"none", "template", "agent"}]
        /\ audit' \in {"none", "running"} \cup Finals
        /\ raised' \in BOOLEAN
    BY <1>2 DEF TypeOK, Finals
  <1>5. TypeOK'
    BY <1>1, <1>3, <1>4 DEF TypeOK
  <1>6. Trying'
    BY <1>1, AttemptsAssumption DEF Trying
  <1>7. Known' /\ Audited' /\ Executing'
    BY <1>1, <1>2 DEF OnAnswer, Known, Audited, Executing, HonestStatus, Decided, Before
  <1> QED
    BY <1>1, <1>5, <1>6, <1>7

LEMMA SendStep == ASSUME RouterInv, Send PROVE RouterInv'
  <1> USE DEF RouterInv, Send
  <1>1. attempt + 1 \in Attempts /\ attempt \in Nat
    BY AttemptsAssumption DEF TypeOK, Trying, Attempts
  <1>2. /\ running' \in [CallStages -> SUBSET Attempts]
        /\ \A s \in CallStages \ {stage} : running'[s] = running[s]
    BY <1>1 DEF TypeOK
  <1>3. TypeOK' /\ Trying'
    BY <1>1, <1>2, AttemptsAssumption DEF TypeOK, Trying, Attempts, Replies
  <1>4. Known' /\ Audited'
    BY DEF Known, Audited, HonestStatus, Decided
  <1>5. Executing'
    BY <1>2 DEF Executing, Known, Audited
  <1> QED
    BY <1>3, <1>4, <1>5

LEMMA HandlerStep ==
  ASSUME RouterInv, NEW s \in CallStages, NEW n \in running[s], HandlerEnds(s, n)
  PROVE  RouterInv'
  <1>1. /\ running' = [running EXCEPT ![s] = @ \ {n}]
        /\ running' \in [CallStages -> SUBSET Attempts]
        /\ \A q \in CallStages : running'[q] \subseteq running[q]
        /\ n \in Attempts
        /\ UNCHANGED <<raised, cancelled>>
    BY DEF HandlerEnds, RouterInv, TypeOK
  <1>2. PICK a \in Replies(s) \cup {"error"} :
          /\ \/ s = "audit" /\ a = "ok" /\ audited' = audited \cup {n}
             \/ UNCHANGED audited
          /\ IF stage = s /\ waiting /\ attempt = n
               THEN CallGives(a)
               ELSE UNCHANGED <<stage, attempt, waiting, answer, result, audit>>
    BY DEF HandlerEnds
  <1>3. /\ audited' \subseteq Attempts
        /\ audited' # {} => audited # {} \/ running["audit"] # {}
    BY <1>1, <1>2 DEF RouterInv, TypeOK
  <1>4. CASE stage = s /\ CallGives(a)
    BY <1>1, <1>2, <1>3, <1>4, CallStep
  <1>5. CASE UNCHANGED <<stage, attempt, waiting, answer, result, audit>>
    <2>1. TypeOK' /\ Trying'
      BY <1>1, <1>3, <1>5 DEF RouterInv, TypeOK, Trying, Replies
    <2>2. Known' /\ Audited' /\ Executing'
      BY <1>1, <1>3, <1>5 DEF RouterInv, Known, Audited, Executing, HonestStatus, Decided
    <2> QED
      BY <1>5, <2>1, <2>2 DEF RouterInv
  <1> QED
    BY <1>2, <1>4, <1>5

LEMMA StopStep == ASSUME RouterInv, Cancel \/ Crash PROVE RouterInv'
  <1> USE DEF RouterInv, Cancel, Crash, GoOn
  <1>1. /\ attempt' = 0 /\ waiting' = FALSE
        /\ UNCHANGED <<running, answer, audited, raised, result>>
        /\ stage' \in {"audit", "stopped"}
    OBVIOUS
  <1>2. attempt' \in 0..MaxAttempts /\ attempt' < MaxAttempts
    BY <1>1, AttemptsAssumption
  <1>3. audit' \in {"none", "running"} \cup Finals /\ cancelled' \in BOOLEAN
    BY DEF TypeOK
  <1>4. TypeOK' /\ Trying'
    BY <1>1, <1>2, <1>3 DEF TypeOK, Trying
  <1>5. Known'
    BY <1>1 DEF Known, HonestStatus, Decided, Before
  <1>6. Audited' /\ Executing'
    <2>1. result.status # "none"
      BY DEF TypeOK, Finals
    <2>2. audit # "none" => audit' = audit
      BY DEF Audited
    <2> QED
      BY <1>1, <2>1, <2>2 DEF Audited, Executing
  <1> QED
    BY <1>1, <1>4, <1>5, <1>6

LEMMA RouterNext == RouterInv /\ [Next]_vars => RouterInv'
  <1> SUFFICES ASSUME RouterInv, [Next]_vars PROVE RouterInv'
    OBVIOUS
  <1>1. attempt \in Nat
    BY AttemptsAssumption DEF RouterInv, TypeOK
  <1>2. CASE ConnectError
    BY <1>1, <1>2, RetryStep DEF ConnectError
  <1>3. CASE Timeout
    BY <1>1, <1>3, RetryStep DEF Timeout, RouterInv, Trying
  <1>4. CASE ConnectionLost
    BY <1>4, CallStep DEF ConnectionLost, RouterInv, Trying, TypeOK
  <1>5. CASE UNCHANGED vars
    <2>1. TypeOK' /\ Trying' /\ Audited' /\ Executing'
      BY <1>5 DEF vars, RouterInv, TypeOK, Trying, Audited, Executing, Replies
    <2>2. Known'
      BY <1>5 DEF vars, RouterInv, Known, HonestStatus, Decided
    <2> QED
      BY <1>5, <2>1, <2>2 DEF vars, RouterInv
  <1> QED
    BY <1>2, <1>3, <1>4, <1>5, UpdatePhaseStep, SendStep, HandlerStep, StopStep
       DEF Next, Step, Handlers

\* The inductive invariant holds: what the locals of execute know at each await,
\* and which handlers may still be executing.
THEOREM RouterInvAlways == Spec => []RouterInv
  BY RouterInit, RouterNext, PTL DEF Spec

\* Every variable of execute and of its calls keeps to its values.
THEOREM RouterTypeCorrect == Spec => []TypeOK
  <1>1. RouterInv => TypeOK
    BY DEF RouterInv
  <1> QED
    BY <1>1, RouterInvAlways, PTL

\* The status execute returns tells what has happened to the raw records,
\* whichever calls were repeated, answered late or not at all.
THEOREM HonestStatusAlways == Spec => []HonestStatus
  <1>1. RouterInv => HonestStatus
    BY DEF RouterInv, Known
  <1> QED
    BY <1>1, RouterInvAlways, PTL

\* No handler of the agent ever works on a job whose template had records.
THEOREM AgentIsFallbackAlways == Spec => []AgentIsFallback
  <1>1. RouterInv => AgentIsFallback
    BY DEF RouterInv, Known, Executing, AgentIsFallback
  <1> QED
    BY <1>1, RouterInvAlways, PTL

\* An audit log that any attempt has stored has the status of the result.
THEOREM AuditAgreesAlways == Spec => []AuditAgrees
  <1>1. RouterInv => AuditAgrees
    BY DEF RouterInv, Audited, Executing, AuditAgrees
  <1> QED
    BY <1>1, RouterInvAlways, PTL

-------------------------------------------------------------------------------
(* What was finalised                                                      *)

LEMMA NothingLateStep ==
  ASSUME RouterInv, [Next]_vars, audit # "none" PROVE audit' = audit /\ result' = result
  <1>1. stage \in {"audit", "returned", "stopped"}
    BY DEF RouterInv, Audited
  <1>2. ASSUME NEW a, stage \in CallStages, CallGives(a)
        PROVE  audit' = audit /\ result' = result
    BY <1>1, <1>2 DEF CallGives, GoOn, After, Noted
  <1>3. ASSUME NEW n, stage \in CallStages, RetryOrRaise(n)
        PROVE  audit' = audit /\ result' = result
    BY <1>2, <1>3 DEF RetryOrRaise
  <1>4. CASE UpdatePhase \/ Send \/ UNCHANGED vars
    BY <1>1, <1>4 DEF UpdatePhase, Send, vars
  <1>5. CASE ConnectError
    BY <1>3, <1>5 DEF ConnectError
  <1>6. CASE Timeout \/ ConnectionLost
    BY <1>2, <1>3, <1>6 DEF Timeout, ConnectionLost, RouterInv, Trying
  <1>7. ASSUME NEW s \in CallStages, NEW n \in running[s], HandlerEnds(s, n)
        PROVE  audit' = audit /\ result' = result
    BY <1>2, <1>7 DEF HandlerEnds
  <1>8. CASE Cancel \/ Crash
    BY <1>1, <1>8 DEF Cancel, Crash, GoOn
  <1> QED
    BY <1>4, <1>5, <1>6, <1>7, <1>8 DEF Next, Step, Handlers

\* No answer that comes after the audit was finalised changes the result or it.
THEOREM NothingLateAlways == Spec => NothingLate
  <1>1. RouterInv /\ [Next]_vars => [audit # "none" => audit' = audit /\ result' = result]_vars
    BY NothingLateStep
  <1> QED
    BY <1>1, RouterInvAlways, PTL DEF Spec, NothingLate

-------------------------------------------------------------------------------
(* execute as its task sees it                                             *)

LEMMA PipelineStep ==
  ASSUME RouterInv, [Next]_vars
  PROVE  [P!Advance \/ P!Stop]_(IF cancelled THEN "stopped" ELSE stage)
  <1> DEFINE seen == IF cancelled THEN "stopped" ELSE stage
  <1> SUFFICES P!Advance \/ P!Stop \/ seen' = seen
    OBVIOUS
  <1>1. cancelled => stage \in {"audit", "stopped"}
    BY DEF RouterInv, Known
  <1>2. ASSUME NEW t \in Stages, ~cancelled, ~cancelled', P!Follows(stage, t), stage' = t
        PROVE  P!Advance
    BY <1>2 DEF P!Advance, P!Stages, P!UpdateStages, P!CallStages
  <1>3. ASSUME NEW a \in Replies(stage) \cup {"error"}, stage \in CallStages,
               CallGives(a), UNCHANGED cancelled
        PROVE  P!Advance \/ seen' = seen
    <2>1. CASE cancelled
      BY <1>3, <2>1
    <2>2. CASE ~cancelled
      <3>1. /\ After(stage, a) \in Stages /\ stage' = After(stage, a)
            /\ P!Follows(stage, After(stage, a))
        BY <1>3, <2>2 DEF CallGives, GoOn, After, P!Follows, P!OnAnswer
      <3> QED
        BY <1>2, <1>3, <2>2, <3>1
    <2> QED
      BY <2>1, <2>2
  <1>4. ASSUME NEW n, stage \in CallStages, RetryOrRaise(n), UNCHANGED cancelled
        PROVE  P!Advance \/ seen' = seen
    BY <1>3, <1>4 DEF RetryOrRaise
  <1>5. CASE UpdatePhase
    <2>1. PICK t \in Stages : stage' = t /\ (OnAnswer(stage, t) \/ t = "audit")
      BY <1>5 DEF UpdatePhase, GoOn
    <2>2. P!Follows(stage, t) /\ ~cancelled /\ ~cancelled'
      BY <1>1, <1>5, <2>1 DEF UpdatePhase, OnAnswer, P!Follows, P!OnAnswer, P!OnException,
                              P!Stages, P!UpdateStages, P!CallStages
    <2> QED
      BY <1>2, <2>1, <2>2
  <1>6. CASE Send \/ UNCHANGED vars
    BY <1>6 DEF Send, vars
  <1>7. CASE ConnectError
    BY <1>4, <1>7 DEF ConnectError
  <1>8. CASE Timeout \/ ConnectionLost
    BY <1>3, <1>4, <1>8 DEF Timeout, ConnectionLost, RouterInv, Trying
  <1>9. ASSUME NEW s \in CallStages, NEW n \in running[s], HandlerEnds(s, n)
        PROVE  P!Advance \/ seen' = seen
    BY <1>3, <1>9 DEF HandlerEnds
  <1>10. CASE Cancel
    BY <1>10 DEF Cancel, P!Stop
  <1>11. CASE Crash
    BY <1>11 DEF Crash, GoOn, P!Stop
  <1> QED
    BY <1>5, <1>6, <1>7, <1>8, <1>9, <1>10, <1>11 DEF Next, Step, Handlers

\* execute reports its phases and waits for its calls in the order by which
\* Gateway moves its tasks.
THEOREM RouterImplementsPipeline == Spec => P!Spec
  <1>1. Init => P!Init
    BY DEF Init, P!Init
  <1> QED
    BY <1>1, PipelineStep, RouterInvAlways, PTL DEF Spec, P!Spec
===============================================================================
